--------------------------- MODULE LedgerAccounts ---------------------------
(***************************************************************************)
(* The accounts folded from the ledger's rows.  The paper adapter appends  *)
(* fills, openings, closes, refusals and marks, the supervisor one         *)
(* rollover a day; every reader folds the rows with the same reducer,      *)
(* from the genesis or from the snapshot of the last shutdown.             *)
(***************************************************************************)
EXTENDS Integers, Sequences, FiniteSets, FiniteSetsExt, SequencesExt

CONSTANTS
  Mints,
  Initial,       \* initial_equity_lamports
  Network,       \* network cost of one order
  Units, Prices, \* what an order may buy; the curve's payment for one unit
  MaxLedgerRows, MaxDay, MaxStops

ASSUME AccountsAssumption ==
  /\ IsFiniteSet(Mints) /\ Initial \in Nat /\ Network \in Nat
  /\ Units \subseteq Nat \ {0} /\ Prices \subseteq Nat

VARIABLES
  log, book,     \* the rows; their fold, as every reader sees it
  reading,       \* a mark between its fold and its append: [cash, pos]
  snapshot,      \* of the last shutdown: [seq, book]
  today, rolled, \* the UTC day; the day this process last rolled over, 0 for none
  stops,
  settled        \* realized PnL of the days before: history, not program state

accountVars == <<log, book, reading, snapshot, today, rolled, stops, settled>>

-----------------------------------------------------------------------------
\* The reducer.

Flat == [units |-> 0, cost |-> 0, mark |-> 0, marked |-> FALSE]
InitialState == [cash |-> Initial, peak |-> Initial, dayStart |-> Initial, realized |-> 0,
            trades |-> 0, fees |-> 0, pos |-> [m \in Mints |-> Flat]]
NoReading == [cash |-> 0, pos |-> [m \in Mints |-> Flat]]

Held(pos) == {m \in Mints : pos[m].units > 0}

\* A position counts at its last mark, at its cost until it has one.
PositionValue(p) == IF p.marked THEN p.mark ELSE p.cost
Equity(b) == b.cash + MapThenSumSet(LAMBDA m : PositionValue(b.pos[m]), Held(b.pos))

Larger(x, y) == IF x >= y THEN x ELSE y
Smaller(x, y) == IF x <= y THEN x ELSE y

TrackPeak(b) == [b EXCEPT !.peak = Larger(@, Equity(b))]

OnOpened(b, r) ==
  TrackPeak([b EXCEPT !.pos[r.mint] =
               [units |-> r.units, cost |-> r.cost, mark |-> 0, marked |-> FALSE]])

OnClosed(b, r) ==
  TrackPeak([b EXCEPT !.pos[r.mint] = Flat, !.realized = @ + r.realized])

\* Without a position the opening row that follows brings units and cost.
OnBuyFill(b, r) ==
  LET p == b.pos[r.mint] IN
  TrackPeak([b EXCEPT
    !.cash = @ + r.cash, !.trades = @ + 1, !.fees = @ + Network,
    !.pos[r.mint] = IF p.units = 0 THEN p
                    ELSE [p EXCEPT !.units = @ + r.units, !.cost = @ - r.cash]])
\* Mutant: the share of the mark, whatever was received.
MarkLeftShare(p, left, received) == (p.mark * left) \div p.units

\* What is left keeps its share of the mark, at most the mark less the proceeds.
MarkLeft(p, left, received) ==
  Smaller((p.mark * left) \div p.units, Larger(p.mark - received, 0))
\* Mutant: the closing fill books its slice as well.
OnSellFillTwice(b, r) ==
  LET p == b.pos[r.mint]
      left == p.units - r.units
      slice == (p.cost * r.units) \div p.units
  IN
  TrackPeak([b EXCEPT
    !.cash = @ + r.cash, !.fees = @ + Network, !.realized = @ + r.cash - slice,
    !.pos[r.mint] = [p EXCEPT !.units = left, !.cost = @ - slice,
                              !.mark = MarkLeft(p, left, r.cash + Network)]])

\* A partial exit books its own slice, a closing one leaves it to PositionClosed.
OnSellFill(b, r) ==
  LET p == b.pos[r.mint]
      left == p.units - r.units
      slice == (p.cost * r.units) \div p.units
  IN
  TrackPeak([b EXCEPT
    !.cash = @ + r.cash, !.fees = @ + Network,
    !.realized = IF left > 0 THEN @ + r.cash - slice ELSE @,
    !.pos[r.mint] = [p EXCEPT !.units = left, !.cost = @ - slice,
                              !.mark = MarkLeft(p, left, r.cash + Network)]])

OnRejected(b, r) == [b EXCEPT !.cash = @ - r.fees, !.fees = @ + r.fees]

OnMark(b, r) ==
  TrackPeak([b EXCEPT !.pos = [m \in Mints |->
    IF m \in DOMAIN r.marks /\ @[m].units > 0
    THEN [@[m] EXCEPT !.mark = r.marks[m], !.marked = TRUE] ELSE @[m]]])

OnRollover(b, r) ==
  [b EXCEPT !.dayStart = r.dayStart, !.realized = 0, !.trades = 0, !.fees = 0]

Reduce(b, r) ==
  CASE r.type = "PositionOpened" -> OnOpened(b, r)
    [] r.type = "PositionClosed" -> OnClosed(b, r)
    [] r.type = "BuyFill" -> OnBuyFill(b, r)
    [] r.type = "SellFill" -> OnSellFill(b, r)
    [] r.type = "OrderRejected" -> OnRejected(b, r)
    [] r.type = "MarkToMarket" -> OnMark(b, r)
    [] r.type = "DailyRollover" -> OnRollover(b, r)

Fold(b, rows) == FoldLeft(Reduce, b, rows)

Post(rows) ==
  /\ Len(log) + Len(rows) <= MaxLedgerRows
  /\ log' = log \o rows /\ book' = Fold(book, rows)

-----------------------------------------------------------------------------
\* The adapter's batches.

BuyRows(m, u, debit) ==
  << [type |-> "BuyFill", mint |-> m, units |-> u, cash |-> -debit],
     [type |-> "PositionOpened", mint |-> m, units |-> u, cost |-> debit] >>

\* The close row, when the exit empties the holding, realizes the whole rest.
SellRows(m, u, proceeds) ==
  LET p == book.pos[m]
      fill == [type |-> "SellFill", mint |-> m, units |-> u, cash |-> proceeds]
      close == [type |-> "PositionClosed", mint |-> m, realized |-> proceeds - p.cost]
  IN  IF u >= p.units THEN <<fill, close>> ELSE <<fill>>

\* The risk engine refuses a buy of a mint that is held.
Buy(m, u, price) ==
  /\ m \notin Held(book.pos) /\ u * price + Network <= book.cash
  /\ Post(BuyRows(m, u, u * price + Network))
  /\ UNCHANGED <<reading, snapshot, today, rolled, stops, settled>>

Sell(m, u, price) ==
  /\ u \in 1 .. book.pos[m].units
  /\ Post(SellRows(m, u, u * price - Network))
  /\ UNCHANGED <<reading, snapshot, today, rolled, stops, settled>>

\* With no usable curve a forced close takes the last mark.
ForceClose(m) ==
  /\ m \in Held(book.pos) /\ book.pos[m].mark > 0
  /\ Post(SellRows(m, book.pos[m].units, book.pos[m].mark - Network))
  /\ UNCHANGED <<reading, snapshot, today, rolled, stops, settled>>

\* A refusal after the order was sent costs the network fee.
Reject ==
  /\ \E fees \in {0, Network} : Post(<<[type |-> "OrderRejected", fees |-> fees]>>)
  /\ UNCHANGED <<reading, snapshot, today, rolled, stops, settled>>

\* The fold is taken first, the curves are awaited after it.
BeginMark ==
  /\ reading = NoReading /\ Held(book.pos) # {}
  /\ reading' = [cash |-> book.cash, pos |-> book.pos]
  /\ UNCHANGED <<log, book, snapshot, today, rolled, stops, settled>>

\* The row's own equity: the fresh marks, the last marks of the unpriced rest.
MarkRow(marks) ==
  LET worth(m) == IF m \in DOMAIN marks THEN marks[m] ELSE reading.pos[m].mark
  IN  [type |-> "MarkToMarket", marks |-> marks,
       equity |-> reading.cash + MapThenSumSet(worth, Held(reading.pos))]

EndMark ==
  /\ reading # NoReading
  /\ \E priced \in SUBSET Held(reading.pos), price \in Prices :
       IF priced = {} THEN UNCHANGED <<log, book>>
       ELSE Post(<<MarkRow([m \in priced |-> reading.pos[m].units * price])>>)
  /\ reading' = NoReading
  /\ UNCHANGED <<snapshot, today, rolled, stops, settled>>

-----------------------------------------------------------------------------
\* Days and stops.

NewDay ==
  /\ today < MaxDay /\ today' = today + 1
  /\ UNCHANGED <<log, book, reading, snapshot, rolled, stops, settled>>

RolledOver(day) == \E i \in DOMAIN log : log[i].type = "DailyRollover" /\ log[i].day = day

\* Keyed by the day: after a restart the row is there already.
Rollover ==
  /\ rolled # today /\ rolled' = today
  /\ IF RolledOver(today) THEN UNCHANGED <<log, book, settled>>
     ELSE /\ Post(<<[type |-> "DailyRollover", day |-> today, dayStart |-> Equity(book)]>>)
          /\ settled' = settled + book.realized
  /\ UNCHANGED <<reading, snapshot, today, stops>>
\* Mutant: the snapshot keeps the fold of the rows before the last.
ShutdownBehind ==
  /\ stops < MaxStops /\ stops' = stops + 1
  /\ snapshot' = [seq |-> Len(log), book |-> Fold(InitialState, SubSeq(log, 1, Len(log) - 1))]
  /\ reading' = NoReading /\ rolled' = 0
  /\ UNCHANGED <<log, book, today, settled>>

\* An orderly stop folds every row and stores the fold under the last one.
Shutdown ==
  /\ stops < MaxStops /\ stops' = stops + 1
  /\ snapshot' = [seq |-> Len(log), book |-> Fold(InitialState, log)]
  /\ reading' = NoReading /\ rolled' = 0
  /\ UNCHANGED <<log, book, today, settled>>

Die ==
  /\ stops < MaxStops /\ stops' = stops + 1
  /\ reading' = NoReading /\ rolled' = 0
  /\ UNCHANGED <<log, book, snapshot, today, settled>>

AccountsInit ==
  /\ log = <<>> /\ book = InitialState /\ reading = NoReading
  /\ snapshot = [seq |-> 0, book |-> InitialState]
  /\ today = 1 /\ rolled = 0 /\ stops = 0 /\ settled = 0

AccountsNext ==
  \/ \E m \in Mints, price \in Prices :
       \/ \E u \in Units : Buy(m, u, price)
       \/ \E u \in 1 .. book.pos[m].units : Sell(m, u, price)
  \/ \E m \in Mints : ForceClose(m)
  \/ Reject \/ BeginMark \/ EndMark
  \/ NewDay \/ Rollover \/ Shutdown \/ Die

AccountsSpec == AccountsInit /\ [][AccountsNext]_accountVars

-----------------------------------------------------------------------------
RowsOf(type) == {i \in DOMAIN log : log[i].type = type}
SumOf(f(_), type) == MapThenSumSet(LAMBDA i : f(log[i]), RowsOf(type))

AccountsTypeOK ==
  /\ \A m \in Mints :
       LET p == book.pos[m] IN p.units >= 0 /\ p.cost >= 0 /\ p.mark >= 0
                                /\ (p.units = 0 => p = Flat)
  /\ book.trades >= 0 /\ book.fees >= 0
  /\ snapshot.seq \in 0 .. Len(log) /\ rolled \in 0 .. today

\* No lamport is unaccounted for: through any mix of partial and full exits,
\* forced closes, refusals and days, cash plus the cost of what is held is
\* the initial equity plus everything realized less the refusals' fees.
EveryLamportExplained ==
  LET cost == MapThenSumSet(LAMBDA m : book.pos[m].cost, Mints)
      refused == SumOf(LAMBDA r : r.fees, "OrderRejected")
  IN  book.cash + cost = Initial + settled + book.realized - refused

\* What the next start checks holds whatever was written: the snapshot and the
\* rows after it fold to what all rows fold to, cash and units add up, and no
\* mint is held after its last close.
Reconciles ==
  /\ AccountsTypeOK
  /\ Fold(snapshot.book, SubSeq(log, snapshot.seq + 1, Len(log))) = Fold(InitialState, log)
  /\ book.cash = Initial + SumOf(LAMBDA r : r.cash, "BuyFill")
                   + SumOf(LAMBDA r : r.cash, "SellFill")
                   - SumOf(LAMBDA r : r.fees, "OrderRejected")
  /\ \A m \in Mints :
       LET units(r) == IF r.mint = m THEN r.units ELSE 0
           closed == {i \in RowsOf("PositionClosed") : log[i].mint = m}
       IN  /\ book.pos[m].units = SumOf(units, "BuyFill") - SumOf(units, "SellFill")
           /\ book.pos[m].units > 0 =>
                \A i \in closed : \E j \in RowsOf("PositionOpened") : log[j].mint = m /\ j > i

\* A day has one rollover, so a restart on the same day does not set the count
\* of trades, which a daily limit reads, back to zero.
TradesOfTheDay ==
  LET last == Max({0} \cup RowsOf("DailyRollover")) IN
  /\ \A i, j \in RowsOf("DailyRollover") : log[i].day = log[j].day => i = j
  /\ book.trades = Cardinality({i \in RowsOf("BuyFill") : i > last})

\* Turning part of a marked position into cash does not lift equity, unless it
\* paid more than the whole position was marked at.
SaleNeverLifts ==
  [][\A m \in Mints :
       LET p == book.pos[m]
           sold == p.units - book'.pos[m].units
           received == book'.cash - book.cash + Network
       IN  sold > 0 /\ p.marked =>
             Equity(book') - Equity(book) <= Larger(received - p.mark, 0)]_accountVars
=============================================================================
