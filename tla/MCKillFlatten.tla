--------------------------- MODULE MCKillFlatten ---------------------------
(***************************************************************************)
(* Instances of KillFlatten for TLC.                                       *)
(***************************************************************************)
EXTENDS KillFlatten, TLC

CONSTANTS c1, c2, b1, x1, m1, dev, f1, f2

\* A buy and the exit-rule sell of its position under a flatten.
ExitOrderOf == c1 :> b1 @@ c2 :> x1
ExitKindOf == b1 :> "buy" @@ x1 :> "exit"
ExitMintOf == b1 :> m1 @@ x1 :> m1
ExitApprovalOf == b1 :> NoApproval @@ x1 :> NoApproval
ExitUnitsOf == b1 :> 1 @@ x1 :> 1

OneCreator == m1 :> NoCreator
=============================================================================
