------------------------------ MODULE HaltLatch ------------------------------
(***************************************************************************)
(* Loss halts.  Every process that checks orders folds the ledger, reads   *)
(* whether a person has cleared a halt today, and appends HaltSet when the *)
(* figures it folded are past a limit; an order check does so twice, for   *)
(* the day's loss and for the drawdown, with a fold of its own each.  The  *)
(* desk rolls the day over at a tick, the exit seat's latch sets a halt,   *)
(* marks and fills move the equity, and people clear halts from the CLI,   *)
(* each between any two reads of another.                                  *)
(***************************************************************************)
EXTENDS Integers, Sequences, FiniteSets, SequencesExt

CONSTANTS
  Checkers,      \* processes that evaluate orders over one ledger
  Watchers,      \* those of them that only run evaluate_halts
  Clearers,      \* people at the CLI, each clearing once
  GenesisEquity, \* initial_equity_lamports
  EquityPath,    \* the equities that marks and fills lead to, in order
  LossPct,       \* daily_loss_halt_fraction, in percent
  DrawPct,       \* drawdown_halt_fraction, in percent
  MaxChecks,     \* bound: checks begun, by all processes
  LastHaltDay    \* bound: days

ASSUME HaltAssumption ==
  /\ GenesisEquity \in Nat \ {0} /\ EquityPath \in Seq(Nat \ {0})
  /\ LossPct \in 1..100 /\ DrawPct \in 1..100
  /\ MaxChecks \in Nat /\ LastHaltDay \in Nat \ {0}

VARIABLES
  haltRows,      \* HaltSet, HaltCleared and DailyRollover rows
  equity,        \* the equity a fold of the ledger gives, marks included
  peakEquity,    \* the peak the same fold gives
  equityMoves,   \* how far along EquityPath
  haltDay,       \* the UTC day of every clock
  checks,        \* where each process's check stands, and what it read
  begun,         \* checks begun so far
  clears,        \* where each person's clear stands
  admitted       \* history: the last check that passed a buy past a limit

haltVars ==
  <<haltRows, equity, peakEquity, equityMoves, haltDay, checks, begun, clears, admitted>>

SetRow(reason, day) == [type |-> "set", reason |-> reason, day |-> day, base |-> 0]
ClearRow(day) == [type |-> "clear", reason |-> "", day |-> day, base |-> 0]
RollRow(day, base) == [type |-> "roll", reason |-> "", day |-> day, base |-> base]

\* The reducer: the last HaltSet or HaltCleared row decides.
OnHaltRow(view, row) ==
  CASE row.type = "set" -> [active |-> TRUE, reason |-> row.reason]
    [] row.type = "clear" -> [active |-> FALSE, reason |-> ""]
    [] OTHER -> view
HaltView == FoldLeft(OnHaltRow, [active |-> FALSE, reason |-> ""], haltRows)

\* The day's opening equity: the last rollover's, or the genesis equity.
OnRoll(base, row) == IF row.type = "roll" THEN row.base ELSE base
DayStart == FoldLeft(OnRoll, GenesisEquity, haltRows)

\* risk.halt_status folds the rows itself.
HaltStatus ==
  LET Decides(row) == row.type \in {"set", "clear"}
      i == SelectLastInSeq(haltRows, Decides)
  IN  [active |-> i # 0 /\ haltRows[i].type = "set",
       reason |-> IF i # 0 THEN haltRows[i].reason ELSE ""]

IsRecorded(reason, day) ==
  \E i \in DOMAIN haltRows :
    haltRows[i].type = "set" /\ haltRows[i].reason = reason /\ haltRows[i].day = day

\* A person's clear of this day keeps the same condition from halting again.
ClearedToday(day) ==
  \E i \in DOMAIN haltRows : haltRows[i].type = "clear" /\ haltRows[i].day = day

\* What the figures a fold gives now are past: integer cross-multiplication, the
\* day's loss looked at before the drawdown.
Breach ==
  IF (DayStart - equity) * 100 >= DayStart * LossPct THEN "daily_loss"
  ELSE IF (peakEquity - equity) * 100 >= peakEquity * DrawPct THEN "drawdown"
  ELSE "none"

\* An append under the key of reason and day; a row already there suppresses it.
Halted(reason, day) ==
  haltRows' = IF IsRecorded(reason, day) THEN haltRows ELSE Append(haltRows, SetRow(reason, day))

\* A look: what the folded figures are past, the day it asked for, and whether a
\* clear of that day spares it.  The fold and _cleared_today are one step here:
\* a row between the two reads could only spare the check.
Unread == [breach |-> "none", day |-> 0, spared |-> FALSE]
Look == [breach |-> Breach, day |-> haltDay, spared |-> ClearedToday(haltDay)]
Found(r) == IF r.spared THEN "none" ELSE r.breach

\* first and last: the looks of _step_daily_loss_halt and _step_drawdown_halt.
NoCheck == [at |-> "idle", buy |-> FALSE, first |-> Unread, last |-> Unread]
NoPass == [first |-> Unread, last |-> Unread]

\* check folds once for the steps up to the daily loss, evaluate_halts for its only
\* look.  An active halt ends either: the buy is refused, the watch has nothing to do.
BeginCheck(c) ==
  /\ checks[c].at = "idle"
  /\ ~HaltView.active
  /\ begun < MaxChecks
  /\ begun' = begun + 1
  /\ \E buy \in IF c \in Watchers THEN {FALSE} ELSE BOOLEAN :
       checks' = [checks EXCEPT ![c] =
                    [at |-> "loss", buy |-> buy, first |-> Look, last |-> Unread]]
  /\ UNCHANGED <<haltRows, equity, peakEquity, equityMoves, haltDay, clears, admitted>>

\* _detect_breach records what it finds; a key taken is not an error.
Detect(r) == IF Found(r) = "none" THEN UNCHANGED haltRows ELSE Halted(Found(r), r.day)

\* The first look: only a daily loss refuses the buy here; a drawdown is left to
\* the second look, its halt already appended.  The watch looks once.
JudgeLoss(c) ==
  LET was == checks[c] IN
  /\ was.at = "loss"
  /\ Detect(was.first)
  /\ checks' = [checks EXCEPT ![c] =
       IF ~was.buy \/ Found(was.first) = "daily_loss" THEN NoCheck ELSE [was EXCEPT !.at = "refold"]]
  /\ UNCHANGED <<equity, peakEquity, equityMoves, haltDay, begun, clears, admitted>>

\* _step_drawdown_halt folds anew.
Refold(c) ==
  /\ checks[c].at = "refold"
  /\ checks' = [checks EXCEPT ![c] =
                  [at |-> "draw", buy |-> @.buy, first |-> @.first, last |-> Look]]
  /\ UNCHANGED <<haltRows, equity, peakEquity, equityMoves, haltDay, begun, clears, admitted>>

\* The second look: only a drawdown refuses here.  A loss that another process's
\* mark made between the two folds is recorded and does not stop this buy.
JudgeDraw(c) ==
  LET was == checks[c] IN
  /\ was.at = "draw"
  /\ Detect(was.last)
  /\ admitted' = IF \/ Found(was.last) = "drawdown"
                    \/ was.first.breach = "none" /\ was.last.breach = "none"
                 THEN admitted
                 ELSE [first |-> was.first, last |-> was.last]
  /\ checks' = [checks EXCEPT ![c] = NoCheck]
  /\ UNCHANGED <<equity, peakEquity, equityMoves, haltDay, begun, clears>>

\* A mark or a fill of any process.
MoveEquity ==
  /\ equityMoves < Len(EquityPath)
  /\ equityMoves' = equityMoves + 1
  /\ equity' = EquityPath[equityMoves']
  /\ peakEquity' = IF equity' > peakEquity THEN equity' ELSE peakEquity
  /\ UNCHANGED <<haltRows, haltDay, checks, begun, clears, admitted>>

Midnight ==
  /\ haltDay < LastHaltDay
  /\ haltDay' = haltDay + 1
  /\ UNCHANGED <<haltRows, equity, peakEquity, equityMoves, checks, begun, clears, admitted>>

\* The desk's tick: one DailyRollover per day, some time after midnight.
RollDay ==
  /\ \A i \in DOMAIN haltRows : haltRows[i].type = "roll" => haltRows[i].day # haltDay
  /\ haltRows' = Append(haltRows, RollRow(haltDay, equity))
  /\ UNCHANGED <<equity, peakEquity, equityMoves, haltDay, checks, begun, clears, admitted>>

\* The exit seat is latched: a halt keyed by the day, active or not.
LatchExit ==
  /\ ~IsRecorded("manual", haltDay)
  /\ Halted("manual", haltDay)
  /\ UNCHANGED <<equity, peakEquity, equityMoves, haltDay, checks, begun, clears, admitted>>

\* request_halt_clear: refused unless the fold shows a halt; the stamp is taken
\* then, and the row appended with its approval in one batch.
AskClear(h) ==
  /\ clears[h].at = "home"
  /\ HaltView.active
  /\ clears' = [clears EXCEPT ![h] = [at |-> "asked", day |-> haltDay]]
  /\ UNCHANGED <<haltRows, equity, peakEquity, equityMoves, haltDay, checks, begun, admitted>>

AppendClear(h) ==
  /\ clears[h].at = "asked"
  /\ haltRows' = Append(haltRows, ClearRow(clears[h].day))
  /\ clears' = [clears EXCEPT ![h].at = "done"]
  /\ UNCHANGED <<equity, peakEquity, equityMoves, haltDay, checks, begun, admitted>>

HaltInit ==
  /\ haltRows = <<RollRow(1, GenesisEquity)>>
  /\ equity = GenesisEquity /\ peakEquity = GenesisEquity /\ equityMoves = 0
  /\ haltDay = 1
  /\ checks = [c \in Checkers |-> NoCheck] /\ begun = 0
  /\ clears = [h \in Clearers |-> [at |-> "home", day |-> 0]]
  /\ admitted = NoPass

HaltNext ==
  \/ \E c \in Checkers :
       BeginCheck(c) \/ JudgeLoss(c) \/ Refold(c) \/ JudgeDraw(c)
  \/ \E h \in Clearers : AskClear(h) \/ AppendClear(h)
  \/ MoveEquity \/ Midnight \/ RollDay \/ LatchExit

HaltSpec == HaltInit /\ [][HaltNext]_haltVars

\* A buy passes on figures past the limit that the step looks for only if a person
\* cleared a halt on that very day; on figures past the other step's limit only
\* with that halt in the ledger, or such a clear (_step_daily_loss_halt looks for
\* the loss in the first fold, _step_drawdown_halt for the drawdown in the last).
BreachStops ==
  LET Cleared(r) == \E h \in Clearers : clears[h] = [at |-> "done", day |-> r.day]
      Excused(r) == Cleared(r) \/ IsRecorded(r.breach, r.day)
  IN  /\ admitted.first.breach = "daily_loss" => Cleared(admitted.first)
      /\ admitted.first.breach = "drawdown" => Excused(admitted.first)
      /\ admitted.last.breach = "drawdown" => Cleared(admitted.last)
      /\ admitted.last.breach = "daily_loss" => Excused(admitted.last)

\* One HaltSet per reason and day whichever process saw the breach first, so
\* what a person cleared is not set again that day (halt_key, R24).
OneHaltADay ==
  \A i, j \in DOMAIN haltRows :
    haltRows[i].type = "set" /\ haltRows[i] = haltRows[j] => i = j

\* The tool that reports the halt and the fold that enforces it agree.
StatusIsEnforced == HaltStatus = HaltView

HaltSound == BreachStops /\ OneHaltADay /\ StatusIsEnforced
=============================================================================
