--------------------------- MODULE MCPaperOrders ---------------------------
(***************************************************************************)
(* Instances of PaperOrders for TLC.  Each scenario fixes which calls      *)
(* carry which decisions; the interleavings are TLC's.                     *)
(***************************************************************************)
EXTENDS PaperOrders, TLC

CONSTANTS c1, c2, c3, c4, b1, b2, b3, s1, x1, m1, m2, a1, dev

\* Two calls carry one buy beside a buy of another mint.
RepeatsOrderOf == c1 :> b1 @@ c2 :> b1 @@ c3 :> b2
RepeatsKindOf == b1 :> "buy" @@ b2 :> "buy"
RepeatsMintOf == b1 :> m1 @@ b2 :> m2
RepeatsApprovalOf == b1 :> NoApproval @@ b2 :> NoApproval
RepeatsUnitsOf == b1 :> 1 @@ b2 :> 1

\* Three buys and a sell: b1 and b2 present one approval, b1 and b3 want one
\* mint, b2 and b3 want the one free slot, and s1 sells what b3 bought.
BookOrderOf == c1 :> b1 @@ c2 :> b2 @@ c3 :> b3 @@ c4 :> s1
BookKindOf == b1 :> "buy" @@ b2 :> "buy" @@ b3 :> "buy" @@ s1 :> "sell"
BookMintOf == b1 :> m1 @@ b2 :> m2 @@ b3 :> m1 @@ s1 :> m1
BookApprovalOf == b1 :> a1 @@ b2 :> a1 @@ b3 :> NoApproval @@ s1 :> NoApproval
BookUnitsOf == b1 :> 1 @@ b2 :> 1 @@ b3 :> 1 @@ s1 :> 2

SameCreators == m1 :> dev @@ m2 :> dev
UnknownCreators == m1 :> NoCreator @@ m2 :> NoCreator

\* Bound of the book: any three of its four calls are made.
ThreeMade == Cardinality({c \in Calls : pc[c] # "idle"}) <= 3
=============================================================================
