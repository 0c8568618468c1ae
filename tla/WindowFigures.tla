---------------------------- MODULE WindowFigures ----------------------------
(***************************************************************************)
(* What a backtest prints and is judged by: fees, returns, drawdown and    *)
(* fill details over a window of a ledger's rows (backtest/metrics.py,     *)
(* equity.py, results.py, report.py, cli/backtest_holdout.py).  A fill row *)
(* stands with the position row that follows it; one mint is traded.       *)
(* Ratios are pairs of a numerator and a denominator; the Sharpe ratio,    *)
(* which needs a square root, is left out.                                 *)
(***************************************************************************)
EXTENDS Integers, Sequences, FiniteSets, SequencesExt

CONSTANTS
  Opening,         \* cash of the genesis
  BuySizes, Grosses,  \* lamports sent to buy; lamports the curve pays for a sale
  MarkedAt,        \* values a mark may take
  FeeBps, LandingCost, \* venue fee of 100, network cost
  CutAt,           \* stamp the window starts at
  MaxWindowRows, LastStamp

ASSUME FigureAssumption ==
  /\ Opening \in Nat \ {0} /\ FeeBps \in 0 .. 100 /\ LandingCost \in Nat
  /\ BuySizes \subseteq Nat /\ Grosses \subseteq Nat /\ MarkedAt \subseteq Nat \ {0}
  /\ CutAt \in Nat

VARIABLES windowRows, stampNow

figureVars == <<windowRows, stampNow>>

(******************************** the ledger *******************************)
VenueFee(size) == (size * FeeBps) \div 100
BuyDebit(filled) == filled + LandingCost
SellProceeds(gross) == gross - VenueFee(gross) - LandingCost

\* A fill's rows: what it names as filled holds the venue's fee on a buy, and
\* neither fee on a sale.
BuyRowOf(size, fraction, stamp) ==
  [type |-> "fill", side |-> "buy", filled |-> size, venue |-> VenueFee(size),
   network |-> LandingCost, delta |-> -BuyDebit(size), fraction |-> fraction,
   stamp |-> stamp]
SellRowOf(gross, stamp) ==
  [type |-> "fill", side |-> "sell", filled |-> SellProceeds(gross),
   venue |-> VenueFee(gross), network |-> LandingCost, delta |-> SellProceeds(gross),
   fraction |-> 100, stamp |-> stamp]

\* The reducer: cash, cost of what is held, its mark once there is one.
AfterRow(account, r) ==
  CASE r.type = "fill" /\ r.side = "buy" ->
         [account EXCEPT !.cash = @ + r.delta, !.cost = @ - r.delta]
    [] r.type = "fill" /\ r.side = "sell" ->
         [cash |-> account.cash + r.delta, cost |-> 0, mark |-> 0]
    [] r.type = "mark" -> [account EXCEPT !.mark = r.mark]
    [] r.type = "reject" -> [account EXCEPT !.cash = @ - r.fees]
Genesis == [cash |-> Opening, cost |-> 0, mark |-> 0]
AccountAfter(k) == FoldLeft(AfterRow, Genesis, SubSeq(windowRows, 1, k))
Account == AccountAfter(Len(windowRows))

\* A position without a mark is held at its cost.
EquityOf(account) ==
  account.cash + IF account.mark # 0 THEN account.mark ELSE account.cost

(******************************** the window *******************************)
\* The end is the first instant past the latest row.
\* Mutant: the end is the latest row, which is then left out.
WindowEndAt(last) == last
WindowEnd(last) == last + 1

HeldOutRows == {k \in DOMAIN windowRows : windowRows[k].stamp >= CutAt}
ClosingStamp == Max({windowRows[k].stamp : k \in HeldOutRows})
InPaperWindow(k) ==
  CutAt <= windowRows[k].stamp /\ windowRows[k].stamp < WindowEnd(ClosingStamp)
PaperRowsIn == {k \in DOMAIN windowRows : InPaperWindow(k)}

FillsOf(ks) == {k \in ks : windowRows[k].type = "fill"}
RefusalsOf(ks) == {k \in ks : windowRows[k].type = "reject"}

\* One detail a fill, from the Fill the report rebuilds or from the row itself.
Outcome(fraction) == IF fraction >= 100 THEN "filled" ELSE "partial"
Detail(k) ==
  [venue |-> windowRows[k].venue, network |-> windowRows[k].network,
   fraction |-> windowRows[k].fraction, outcome |-> Outcome(windowRows[k].fraction)]
Details(ks) == [i \in 1 .. Cardinality(ks) |->
                  Detail(CHOOSE k \in ks : Cardinality({j \in ks : j <= k}) = i)]

\* Field for field; the counts first.
Matched(ours, theirs) == Len(ours) = Len(theirs) /\ \A i \in DOMAIN ours : ours[i] = theirs[i]

\* Fees of the fills, then those of the refused attempts.
RejectionFees(ks) == MapThenSumSet(LAMBDA k : windowRows[k].fees, RefusalsOf(ks))
FeesTotal(ks) ==
  MapThenSumSet(LAMBDA k : windowRows[k].venue + windowRows[k].network, FillsOf(ks))
    + RejectionFees(ks)

\* Equity before the window and after each of its rows; the window runs on to
\* the ledger's end.
FirstRow == IF HeldOutRows = {} THEN Len(windowRows) ELSE Min(HeldOutRows) - 1
PathAt(k) == EquityOf(AccountAfter(k))
OpeningEquity == PathAt(FirstRow)
TotalReturn ==
  IF OpeningEquity > 0 THEN <<PathAt(Len(windowRows)) - OpeningEquity, OpeningEquity>>
  ELSE <<0, 1>>

MoreThan(p, q) == p[1] * q[2] > q[1] * p[2]
\* The running peak, and the largest decline from it, point by point.
PeakFall(was, here) ==
  LET peak == IF here > was.peak THEN here ELSE was.peak
      decline == <<peak - here, peak>>
  IN [peak |-> peak,
      fall |-> IF peak > 0 /\ MoreThan(decline, was.fall) THEN decline ELSE was.fall]
WindowPath == [i \in 1 .. Len(windowRows) - FirstRow |-> PathAt(FirstRow + i)]
Falls == FoldLeft(PeakFall, [peak |-> OpeningEquity, fall |-> <<0, 1>>], WindowPath)
MaxDrawdown == Falls.fall

(********************************* steps ***********************************)
Logs(r) ==
  /\ Len(windowRows) < MaxWindowRows
  /\ windowRows' = Append(windowRows, r) /\ UNCHANGED stampNow

BuyFills(size, fraction) ==
  /\ Account.cost = 0 /\ BuyDebit(size) <= Account.cash
  /\ Logs(BuyRowOf(size, fraction, stampNow))
SellFills(gross) == Account.cost > 0 /\ Logs(SellRowOf(gross, stampNow))
Marks(value) ==
  /\ Account.cost > 0
  /\ Logs([type |-> "mark", mark |-> value, stamp |-> stampNow])
\* A transaction that landed pays the network, one that never left pays nothing.
AttemptRefused(landed) ==
  /\ LandingCost <= Account.cash
  /\ Logs([type |-> "reject", fees |-> IF landed THEN LandingCost ELSE 0,
           stamp |-> stampNow])
StampPasses == stampNow < LastStamp /\ stampNow' = stampNow + 1 /\ UNCHANGED windowRows

FigureNext ==
  \/ \E size \in BuySizes, fraction \in {50, 100} : BuyFills(size, fraction)
  \/ \E gross \in Grosses : SellFills(gross)
  \/ \E value \in MarkedAt : Marks(value)
  \/ \E landed \in BOOLEAN : AttemptRefused(landed)
  \/ StampPasses

FigureInit == windowRows = <<>> /\ stampNow = 0

FigureSpec == FigureInit /\ [][FigureNext]_figureVars

(******************************* properties ********************************)
\* Whatever leaves the desk's cash and did not go into the curve is a fee the
\* report names, each once: those of fills on both sides and of refusals, in a
\* window that may open or close with a position held (equity.py, report.py).
FeesAccounted ==
  LET sent(k) == windowRows[k].filled - windowRows[k].venue
      paid(k) == windowRows[k].filled + windowRows[k].venue + windowRows[k].network
      fills == FillsOf(HeldOutRows)
  IN Account.cash - AccountAfter(FirstRow).cash
       = MapThenSumSet(paid, {k \in fills : windowRows[k].side = "sell"})
         - MapThenSumSet(sent, {k \in fills : windowRows[k].side = "buy"})
         - FeesTotal(HeldOutRows)

\* The drawdown is the deepest fall between any two points of the path, not only
\* those at fills, and some two points have it; a loss at the end is covered by
\* it (backtest_holdout.py _window_metrics).
DrawdownIsDeepest ==
  LET points == FirstRow .. Len(windowRows)
      fallen(i, j) == <<PathAt(i) - PathAt(j), PathAt(i)>>
  IN (\A i \in points : PathAt(i) > 0) =>
       /\ \A i, j \in points : i < j => ~MoreThan(fallen(i, j), MaxDrawdown)
       /\ MaxDrawdown[1] > 0 => \E i, j \in points :
            i < j /\ ~MoreThan(MaxDrawdown, fallen(i, j))
       /\ ~MoreThan(<<-TotalReturn[1], TotalReturn[2]>>, MaxDrawdown)

\* The two ways to the fills of one ledger agree field for field, the last row
\* included, so a difference the gate sees is one between two ledgers
\* (results.py from_fills, from_ledger_rows, compare).
RoutesAgree ==
  HeldOutRows # {} => Matched(Details(FillsOf(HeldOutRows)), Details(FillsOf(PaperRowsIn)))

FiguresSound == FeesAccounted /\ DrawdownIsDeepest /\ RoutesAgree
=============================================================================
