-------------------------- MODULE SeatSupervision --------------------------
(***************************************************************************)
(* The supervisor and its seats: the tick loop, the crash budget, the      *)
(* observe-only latch and its resume notes, the halt of a latched exit     *)
(* seat, the relay of alert rows, and the ordered shutdown.                *)
(*                                                                         *)
(* The desk is one process with one event loop.  Its seats' cycles are     *)
(* tasks, so a cycle may end between any two stages of a tick; what a      *)
(* callback does without an await is one step, except where the process    *)
(* may die or another process may write between two of its appends.        *)
(* Operators write from processes of their own at any time.                *)
(*                                                                         *)
(* Time is abstract: a tick finds any set of seats due, a crash leaves the *)
(* restart window whenever it likes, a heartbeat may be stale at any       *)
(* check.  The loop is serve_forever's; tick_once, which awaits its cycles *)
(* one by one, takes only steps this loop takes too.                       *)
(***************************************************************************)
EXTENDS Integers, Sequences, FiniteSets

CONSTANTS
  Seats,        \* ROSTER
  ExitSeat,     \* bot-06-exit
  Budget,       \* RESTART_CAPACITY
  Days,         \* the last UTC day
  MaxFree,      \* bound on the rows that carry no day key
  MaxFaults,    \* bound on ledger failures
  MaxStarts     \* bound on starts of the process

ASSUME SeatsAssumption ==
  /\ ExitSeat \in Seats
  /\ {Budget, Days, MaxFree, MaxFaults, MaxStarts} \subseteq Nat /\ Days > 0

VARIABLES
  log,      \* the ledger's rows, but for the rollovers
  rollovers, \* the days that have a DailyRollover row
  ledger,   \* "ok", "readonly" (appends fail) or "down" (reads fail too)
  faults,   \* ledger failures so far
  day,      \* the clock's UTC day
  phase,    \* where the loop stands; "down" when no process runs
  starts,   \* processes started so far
  floor,    \* ObserveOnly: [seat -> _latched_after, or Free]
  crashes,  \* RestartPolicy.crashes in the window
  latching, \* seats between their latch and its escalation row
  running,  \* _inflight
  stale,    \* seats with _stale_raised
  rolled,   \* _last_rollover_day
  mirror,   \* RiskEngine._observe_only
  cursor,   \* _relay_cursor
  tail,     \* the last row relay_tail read
  offered,  \* positions handed to the notifier since the start
  stopping, \* _stop is set
  raced     \* seats whose resume note fell between a latch and its row

disk  == <<log, rollovers, ledger, faults, day, starts, raced>>
loop  == <<phase, rolled, mirror, cursor, tail, offered, stopping>>
tasks == <<floor, crashes, latching, running, stale>>
seatVars == <<disk, loop, tasks>>

Row(t, x)    == [type |-> t, of |-> x]
Free         == -1
Unreadable   == MaxFree + Days + 1
Has(l, r)    == \E i \in DOMAIN l : l[i] = r
RelayTypes   == {"exhausted", "stale", "skew", "halt"}
Room         == Cardinality({i \in DOMAIN log : log[i].type # "halt"})
                  + Cardinality(latching) < MaxFree
Latched      == {s \in Seats : floor[s] # Free}

-----------------------------------------------------------------------------
(* The ledger as the seats use it. *)

\* A row with a day key is stored once: the UNIQUE key refuses the second.
Keep(l, r) == IF Has(l, r) THEN l ELSE Append(l, r)

\* _append_exit_halt: a refused append is logged and the caller goes on.
Halted(l) == IF ledger = "ok" THEN Keep(l, Row("halt", day)) ELSE l

Newest(s) ==
  LET at == {i \in DOMAIN log : log[i] = Row("exhausted", s)}
  IN  IF at = {} THEN 0 ELSE CHOOSE i \in at : \A j \in at : j <= i

ResumedAfter(s, f) == \E i \in DOMAIN log : i > f /\ log[i] = Row("resume", s)

RebuiltUnlatched(s) == IF ledger = "down" THEN Unreadable ELSE Free

\* _rebuild_exhaustion_latch: what a new process knows of the seat.
Rebuilt(s) ==
  IF ledger = "down" THEN Unreadable
  ELSE IF Newest(s) = 0 \/ ResumedAfter(s, Newest(s)) THEN Free
  ELSE Newest(s)

-----------------------------------------------------------------------------
(* The process: Supervisor.__init__, a crash, the ordered shutdown. *)

\* Nothing of a process outlives it.
Fresh ==
  /\ crashes' = [s \in Seats |-> 0]
  /\ running' = {} /\ latching' = {} /\ stale' = {} /\ offered' = {}
  /\ rolled' = 0 /\ cursor' = 0 /\ tail' = 0 /\ stopping' = FALSE

Start ==
  /\ phase = "down" /\ starts < MaxStarts
  /\ phase' = "loop" /\ starts' = starts + 1
  /\ floor' = [s \in Seats |-> Rebuilt(s)]
  /\ mirror' = {s \in Seats : floor'[s] # Free}
  /\ log' = IF floor'[ExitSeat] # Free THEN Halted(log) ELSE log
  /\ Fresh
  /\ UNCHANGED <<rollovers, ledger, faults, day, raced>>

Gone == phase' = "down" /\ floor' = [s \in Seats |-> Free] /\ mirror' = {} /\ Fresh

Crash == phase # "down" /\ Gone /\ UNCHANGED disk

\* A callback that has latched a seat appends its escalation before the event
\* loop does anything else.
Loop(p) == phase = p /\ latching = {}

RequestStop ==
  /\ phase # "down" /\ latching = {} /\ ~stopping
  /\ stopping' = TRUE
  /\ UNCHANGED <<disk, tasks, phase, rolled, mirror, cursor, tail, offered>>

LoopEnds ==
  /\ Loop("loop") /\ stopping
  /\ phase' = "draining"
  /\ UNCHANGED <<disk, tasks, rolled, mirror, cursor, tail, offered, stopping>>

\* drain: cycles end by themselves, or the grace runs out and they are cancelled
\* and waited for.
Drained ==
  /\ Loop("draining")
  /\ running' = {}
  /\ phase' = "drained"
  /\ UNCHANGED <<disk, floor, crashes, latching, stale, rolled, mirror, cursor, tail, offered, stopping>>

\* The snapshot, the exports and the stopped health file; a step that fails is
\* logged and the process ends all the same.
Finish == Loop("drained") /\ Gone /\ UNCHANGED disk

-----------------------------------------------------------------------------
(* One tick. *)

\* _emit_rollover: a stored row, old or new, closes the day; a failure is retried.
RolledDays == IF rolled # day /\ ledger = "ok" THEN rollovers \cup {day} ELSE rollovers
RolledDay == IF ledger = "ok" THEN day ELSE rolled

\* run_guarded of a latched exit seat: the halt row first.  An equity that
\* cannot be read raises, and the cycle does not run.
HaltAtLatchOnly(l) == l
HaltFirst(l) == Halted(l)

BeginTick(due) ==
  /\ Loop("loop") /\ ~stopping
  /\ rolled' = RolledDay /\ rollovers' = RolledDays
  /\ LET fresh == due \ running
         exit  == ExitSeat \in fresh /\ floor[ExitSeat] # Free
     IN  /\ log' = IF exit THEN HaltFirst(log) ELSE log
         /\ running' = running \cup
              (IF exit /\ ledger = "down" THEN fresh \ {ExitSeat} ELSE fresh)
  /\ phase' = "ticked"
  /\ UNCHANGED <<ledger, faults, day, starts, raced, floor, crashes, latching, stale,
                 mirror, cursor, tail, offered, stopping>>

\* fold_resume; nothing is resumed while the notes cannot be read.
Resumed(s) == ledger # "down" /\ floor[s] # Free /\ ResumedAfter(s, floor[s])

\* _sync_risk_latch, on every tick.
Synced(left) == left

FoldResume ==
  /\ Loop("ticked")
  /\ floor' = [s \in Seats |-> IF Resumed(s) THEN Free ELSE floor[s]]
  /\ mirror' = Synced({s \in Seats : floor'[s] # Free})
  /\ phase' = "folded"
  /\ UNCHANGED <<disk, crashes, latching, running, stale, rolled, cursor, tail, offered, stopping>>

\* check_stale: an escalation that cannot be appended ends the loop.
CheckStale(s) ==
  /\ Loop("folded") /\ s \notin stale /\ Room
  /\ stale' = stale \cup {s}
  /\ IF ledger = "ok"
     THEN log' = Append(log, Row("stale", s)) /\ UNCHANGED <<phase, stopping>>
     ELSE UNCHANGED log /\ phase' = "draining" /\ stopping' = TRUE
  /\ UNCHANGED <<rollovers, ledger, faults, day, starts, raced, floor, crashes, latching, running,
                 rolled, mirror, cursor, tail, offered>>

\* relay_tail reads, then awaits the notifier once per row: rows appended
\* meanwhile are for the next tick.
RelayRead ==
  /\ Loop("folded")
  /\ tail' = IF ledger = "down" THEN cursor ELSE Len(log)
  /\ phase' = "relaying"
  /\ UNCHANGED <<disk, tasks, rolled, mirror, cursor, offered, stopping>>

HighOfLog == Len(log)
High == tail

RelaySent ==
  /\ Loop("relaying")
  /\ offered' = offered \cup {i \in cursor + 1 .. tail : log[i].type \in RelayTypes}
  /\ cursor' = High /\ tail' = 0
  /\ phase' = "loop"
  /\ UNCHANGED <<disk, tasks, rolled, mirror, stopping>>

-----------------------------------------------------------------------------
(* One cycle: run_guarded after its start. *)

CycleOk(s) ==
  /\ phase # "down" /\ latching = {} /\ s \in running
  /\ running' = running \ {s} /\ stale' = stale \ {s}
  /\ UNCHANGED <<disk, loop, floor, crashes, latching>>

\* record_crash.
WithinBudget(s) == crashes[s] < Budget

\* An exception or a timeout within the budget; of a seat latched before; or
\* past the budget on a ledger whose count cannot be read, which latches nothing.
CycleCrashes(s) ==
  /\ phase # "down" /\ latching = {} /\ s \in running
  /\ \/ WithinBudget(s) /\ crashes' = [crashes EXCEPT ![s] = @ + 1]
     \/ ~WithinBudget(s) /\ (floor[s] # Free \/ ledger = "down") /\ UNCHANGED crashes
  /\ running' = running \ {s}
  /\ UNCHANGED <<disk, loop, floor, latching, stale>>

\* The budget is spent: the latch in memory, the exit seat's halt.
Exhausted(s) ==
  /\ phase # "down" /\ latching = {} /\ s \in running
  /\ ~WithinBudget(s) /\ floor[s] = Free /\ ledger # "down" /\ Room
  /\ floor' = [floor EXCEPT ![s] = Len(log)]
  /\ log' = IF s = ExitSeat THEN Halted(log) ELSE log
  /\ latching' = {s}
  /\ UNCHANGED <<rollovers, ledger, faults, day, starts, raced, loop, crashes, running, stale>>

\* ... and the escalation row, which a failing ledger or a clock behind the head refuses.
Escalate(s) ==
  /\ s \in latching
  /\ log' \in IF ledger = "ok" THEN {Append(log, Row("exhausted", s)), Append(log, Row("skew", s))}
              ELSE {log}
  /\ latching' = {} /\ running' = running \ {s}
  /\ UNCHANGED <<rollovers, ledger, faults, day, starts, raced, loop, floor, crashes, stale>>

WindowMoves(s) ==
  /\ phase # "down" /\ latching = {} /\ crashes[s] > 0
  /\ crashes' = [crashes EXCEPT ![s] = @ - 1]
  /\ UNCHANGED <<disk, loop, floor, latching, running, stale>>

-----------------------------------------------------------------------------
(* Outside the process. *)

\* `state resume`: unconditional, from a process of its own.
OperatorResumes(s) ==
  /\ Room /\ log' = Append(log, Row("resume", s))
  /\ raced' = IF s \in latching THEN raced \cup {s} ELSE raced
  /\ UNCHANGED <<rollovers, ledger, faults, day, starts, loop, tasks>>

Midnight ==
  /\ day < Days /\ day' = day + 1
  /\ UNCHANGED <<log, rollovers, ledger, faults, starts, raced, loop, tasks>>

LedgerFails ==
  /\ ledger = "ok" /\ faults < MaxFaults
  /\ ledger' \in {"readonly", "down"} /\ faults' = faults + 1
  /\ UNCHANGED <<log, rollovers, day, starts, raced, loop, tasks>>

LedgerRecovers ==
  /\ ledger # "ok" /\ ledger' = "ok"
  /\ UNCHANGED <<log, rollovers, faults, day, starts, raced, loop, tasks>>

-----------------------------------------------------------------------------
Init ==
  /\ log = <<>> /\ rollovers = {} /\ ledger = "ok" /\ faults = 0 /\ day = 1 /\ starts = 0
  /\ phase = "down" /\ rolled = 0 /\ mirror = {} /\ cursor = 0 /\ tail = 0
  /\ offered = {} /\ stopping = FALSE /\ raced = {}
  /\ floor = [s \in Seats |-> Free] /\ crashes = [s \in Seats |-> 0]
  /\ latching = {} /\ running = {} /\ stale = {}

LoopTick == (\E due \in SUBSET Seats : BeginTick(due)) \/ FoldResume \/ RelayRead \/ RelaySent
Cycle(s) == CycleOk(s) \/ CycleCrashes(s) \/ Exhausted(s) \/ Escalate(s)
Stop == LoopEnds \/ Drained \/ Finish

Next ==
  \/ Start \/ Crash \/ RequestStop \/ LoopTick \/ Stop
  \/ \E s \in Seats : Cycle(s) \/ CheckStale(s) \/ WindowMoves(s) \/ OperatorResumes(s)
  \/ Midnight \/ LedgerFails \/ LedgerRecovers

\* The loop never waits for anything that may not come: the cadence makes a seat
\* due again and again, the cycle timeout ends a cycle, drain ends with the grace, and a
\* locked or full ledger is repaired.
Fairness ==
  /\ SF_seatVars(\E due \in SUBSET Seats : ExitSeat \in due /\ BeginTick(due))
  /\ WF_seatVars(FoldResume) /\ WF_seatVars(RelayRead) /\ WF_seatVars(RelaySent) /\ WF_seatVars(Stop)
  /\ \A s \in Seats : WF_seatVars(Cycle(s))
  /\ WF_seatVars(LedgerRecovers)

Spec == Init /\ [][Next]_seatVars /\ Fairness

-----------------------------------------------------------------------------
TypeOK ==
  /\ \A i \in DOMAIN log : log[i].of \in Seats \cup 1 .. Days
  /\ rollovers \subseteq 1 .. Days
  /\ ledger \in {"ok", "readonly", "down"} /\ faults \in 0 .. MaxFaults
  /\ day \in 1 .. Days /\ starts \in 0 .. MaxStarts
  /\ phase \in {"down", "loop", "ticked", "folded", "relaying", "draining", "drained"}
  /\ floor \in [Seats -> Free .. Unreadable] /\ crashes \in [Seats -> 0 .. Budget]
  /\ {latching, running, stale, mirror, raced} \subseteq SUBSET Seats
  /\ latching \subseteq running /\ rolled \in 0 .. Days
  /\ cursor \in 0 .. Len(log) /\ tail \in 0 .. Len(log) /\ stopping \in BOOLEAN

\* A seat whose exhaustion the ledger holds, with no resume note after it, is
\* latched in every process that runs, whatever crashed or restarted since; only
\* a note written between the latch and its row may differ.
LatchRemembered ==
  phase # "down" => \A s \in Seats \ raced :
    Newest(s) > 0 /\ ~ResumedAfter(s, Newest(s)) => floor[s] # Free

\* The day is closed to _emit_rollover only when its DailyRollover is stored.
RolloverKept == rolled # 0 /\ phase # "down" => rolled \in rollovers

\* relay_tail's cursor passes no alert row that was not handed to the notifier,
\* also when cycles append while it waits for an answer.
NoAlertSkipped ==
  phase # "down" => \A i \in 1 .. cursor : log[i].type \in RelayTypes => i \in offered

\* While the exit seat stays latched, the day's HaltSet is stored in the end, also
\* when the ledger refused it at the latch and after midnight.
ExitHaltFollows ==
  (phase # "down" /\ floor[ExitSeat] # Free)
    ~> (Has(log, Row("halt", day)) \/ phase = "down" \/ floor[ExitSeat] = Free)

\* A latched seat reaches the risk engine's mirror, which is what refuses buys.
MirrorFollows ==
  \A s \in Seats : (phase # "down" /\ floor[s] # Free)
                     ~> (s \in mirror \/ floor[s] = Free \/ phase = "down" \/ stopping)

\* What the ledger says of seats and days is what the process acts on.
RecordsKept == TypeOK /\ LatchRemembered /\ RolloverKept

\* A latch reaches the ledger's halt and the engine that refuses by it.
LatchFollowed == ExitHaltFollows /\ MirrorFollows
=============================================================================
