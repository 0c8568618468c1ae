--------------------------- MODULE LedgerReports ---------------------------
(***************************************************************************)
(* The figures other readers take from the same rows: the backtest's       *)
(* equity path, equity curve and net over a window, and the daily and      *)
(* weekly reports.  Ledger order stands for time, so a window's edge may   *)
(* fall between the rows of one batch.                                     *)
(***************************************************************************)
EXTENDS LedgerAccounts

IsFill(r) == r.type \in {"BuyFill", "SellFill"}
IsSettlement(r) == r.type \in {"PositionOpened", "PositionClosed"}

\* What a window opens with: the fold of every row before it.
OpeningState(from) == Fold(InitialState, SubSeq(log, 1, from - 1))

\* Closing equity less opening equity: the score of a candidate.
Net(opening, closing) == Equity(closing) - Equity(opening)

\* Equity before the window and after each of its rows.
EquitiesOver(opening, rows) ==
  LET books == FoldLeft(LAMBDA past, r : Append(past, Reduce(Last(past), r)),
                        <<opening>>, rows)
  IN  [i \in 0 .. Len(rows) |-> Equity(books[i + 1])]

\* Mutant: every row is a point, also a debit whose position row is to come.
SettledAtFill(rows) == 0 .. Len(rows)

\* Points of the equity path: before the window, then after every row but a
\* fill whose position row follows.
SettledPoints(rows) ==
  {0} \cup {i \in DOMAIN rows : IsFill(rows[i]) =>
              i = Len(rows) \/ ~IsSettlement(rows[i + 1])}

\* Points of the curve: one a fill, taken when the next fill begins or the
\* window ends.
CurvePoints(rows) ==
  {i \in DOMAIN rows : /\ i = Len(rows) \/ IsFill(rows[i + 1])
                       /\ \E j \in 1 .. i : IsFill(rows[j])}

InWindow(i, from, to) == from <= i /\ i < to

\* The figures of the report over a window.
Report(from, to) ==
  LET within(P(_)) == {i \in DOMAIN log : InWindow(i, from, to) /\ P(log[i])}
      closes == within(LAMBDA r : r.type = "PositionClosed")
      refusals == within(LAMBDA r : r.type = "OrderRejected")
      fills == within(IsFill)
  IN  [fills |-> Cardinality(fills), closed |-> Cardinality(closes),
       rejected |-> Cardinality(refusals),
       realized |-> MapThenSumSet(LAMBDA i : log[i].realized, closes),
       won |-> Cardinality({i \in closes : log[i].realized > 0}),
       fees |-> Network * Cardinality(fills)
                  + MapThenSumSet(LAMBDA i : log[i].fees, refusals)]

\* The rendered report's open positions: openings less closes.
RenderedOpen == Larger(Cardinality(RowsOf("PositionOpened")) - Cardinality(RowsOf("PositionClosed")), 0)

-----------------------------------------------------------------------------
\* The path and the reducer agree on the highest equity there was, and the path
\* ends at the net the search selects by.
PathPeakIsBookPeak ==
  LET equity == EquitiesOver(InitialState, log) IN
  /\ Max({equity[i] : i \in SettledPoints(log)}) = book.peak
  /\ equity[Max(SettledPoints(log))] = equity[0] + Net(InitialState, book)

\* A run of purchases is no loss: no point of the path dips between a debit
\* and the position it paid for.
PurchaseIsFlat ==
  LET equity == EquitiesOver(InitialState, log) IN
  \A i, j \in SettledPoints(log) :
    i < j /\ (\A k \in i + 1 .. j : log[k].type \in {"BuyFill", "PositionOpened"})
      => equity[i] = equity[j]

\* The curve has one point a fill, as the summary requires, and each lies on the
\* path: the summary never sees an equity, or a fall, the path does not.
CurveOnPath ==
  /\ Cardinality(CurvePoints(log)) = Cardinality({i \in DOMAIN log : IsFill(log[i])})
  /\ CurvePoints(log) \subseteq SettledPoints(log)

\* Two days make a week: wherever the cut falls, every row counts in one of the
\* windows and only there, refusals' fees included.
ReportsAddUp ==
  LET whole == Report(1, Len(log) + 1) IN
  \A cut \in 2 .. Len(log) :
    LET before == Report(1, cut)
        after == Report(cut, Len(log) + 1)
    IN  \A figure \in DOMAIN whole : whole[figure] = before[figure] + after[figure]

\* The rendered report, which counts rows, shows as open what is held.
RenderedOpenIsHeld == RenderedOpen = Cardinality(Held(book.pos))

\* Whoever reads the rows, by whatever route, comes to the same book.
ReadersAgree ==
  /\ PathPeakIsBookPeak /\ PurchaseIsFlat /\ CurveOnPath
  /\ ReportsAddUp /\ RenderedOpenIsHeld /\ TradesOfTheDay
=============================================================================
