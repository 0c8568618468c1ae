---------------------------- MODULE KillFlatten ----------------------------
(***************************************************************************)
(* The kill-switch flatten over the live order lifecycle: run_kill_switch, *)
(* flatten_hook_for and execute_flatten (src/pumpgrok/tools/risk/          *)
(* kill_switch.py) with PaperAdapter.close_position.  A flatten sets the   *)
(* kill switch, waits in a worker thread for the in-flight barrier to      *)
(* empty, lists the open positions once the event loop resumes it, closes  *)
(* them one by one, each close awaiting a curve, and reports.  Orders keep *)
(* running meanwhile, and a second flatten may overlap (the supervisor's   *)
(* poll runs the hook while a request stands).                             *)
(***************************************************************************)
EXTENDS PaperOrders

CONSTANT Flattens  \* flatten runners: the risk.kill_switch tool, the poll hook

VARIABLES
  fpc,      \* where each flatten is
  todo,     \* the intents it has still to close
  missing,  \* intents answered no_position
  failed,   \* intents answered no_mark or ledger_inconsistent, or that raised
  report,   \* the flatten_status of its last run
  steady    \* history: the kill switch was not cleared since its last request

flatVars == <<fpc, todo, missing, failed, report, steady>>
allVars == <<vars, flatVars>>

FlatInit ==
  /\ Init
  /\ fpc = [f \in Flattens |-> "idle"]
  /\ todo = [f \in Flattens |-> {}]
  /\ missing = [f \in Flattens |-> {}]
  /\ failed = [f \in Flattens |-> {}]
  /\ report = [f \in Flattens |-> "none"]
  /\ steady = {}

orderVars == <<placedBy, outcomes, refused, consumed, trades, halted,
             latched, inflight, cancelled, calls, acked>>

\* KillSwitchSet and the kill file are written (a repeat within the minute finds
\* the row stored), then the barrier wait begins.
Request(f) ==
  /\ fpc[f] \in {"idle", "reported"}
  /\ killed' = TRUE
  /\ cache' = Forget
  /\ fpc' = [fpc EXCEPT ![f] = "waiting"]
  /\ report' = [report EXCEPT ![f] = "none"]
  /\ steady' = steady \cup {f}
  /\ UNCHANGED <<orderVars, holding, todo, missing, failed>>

\* Bug: the barrier is not waited for.
BarrierIgnored(f) ==
  /\ fpc[f] = "waiting"
  /\ fpc' = [fpc EXCEPT ![f] = "listing"]
  /\ UNCHANGED <<vars, todo, missing, failed, report, steady>>

\* wait_empty returns True in its thread; the event loop resumes later.
BarrierEmpty(f) ==
  /\ fpc[f] = "waiting"
  /\ inflight = {}
  /\ fpc' = [fpc EXCEPT ![f] = "listing"]
  /\ UNCHANGED <<vars, todo, missing, failed, report, steady>>

BarrierTimeout(f) ==
  /\ fpc[f] = "waiting"
  /\ inflight # {}
  /\ fpc' = [fpc EXCEPT ![f] = "reported"]
  /\ report' = [report EXCEPT ![f] = "blocked"]
  /\ UNCHANGED <<vars, todo, missing, failed, steady>>

ListIntents(f) ==
  /\ fpc[f] = "listing"
  /\ fpc' = [fpc EXCEPT ![f] = "closing"]
  /\ todo' = [todo EXCEPT ![f] = OpenMints]
  /\ missing' = [missing EXCEPT ![f] = {}]
  /\ failed' = [failed EXCEPT ![f] = {}]
  /\ UNCHANGED <<vars, report, steady>>

\* close_position after its curve read: the position is folded again.  It is
\* gone, or it cannot be valued or the close fails, or it is sold whole.
CloseGone(f, m) ==
  /\ fpc[f] = "closing" /\ m \in todo[f]
  /\ holding[m] <= 0
  /\ todo' = [todo EXCEPT ![f] = @ \ {m}]
  /\ missing' = [missing EXCEPT ![f] = @ \cup {m}]
  /\ UNCHANGED <<vars, fpc, failed, report, steady>>

\* Bug: a close that failed is tried again at once, for ever.
CloseFailsForever(f, m) ==
  /\ fpc[f] = "closing" /\ m \in todo[f]
  /\ holding[m] > 0
  /\ failed' = [failed EXCEPT ![f] = IF m \in @ THEN @ \ {m} ELSE @ \cup {m}]
  /\ UNCHANGED <<vars, fpc, todo, missing, report, steady>>

CloseFails(f, m) ==
  /\ fpc[f] = "closing" /\ m \in todo[f]
  /\ holding[m] > 0
  /\ todo' = [todo EXCEPT ![f] = @ \ {m}]
  /\ failed' = [failed EXCEPT ![f] = @ \cup {m}]
  /\ UNCHANGED <<vars, fpc, missing, report, steady>>

CloseSells(f, m) ==
  /\ fpc[f] = "closing" /\ m \in todo[f]
  /\ ForceClose(m)
  /\ todo' = [todo EXCEPT ![f] = @ \ {m}]
  /\ UNCHANGED <<fpc, missing, failed, report, steady>>

\* Bug: a position that could not be closed does not count against the report.
NotClosedIgnoring(f) == missing[f] \cap OpenMints

\* The ledger is read again: a no_position answer counts as closed only when its
\* mint is no longer open.
NotClosed(f) == failed[f] \cup (missing[f] \cap OpenMints)

Report(f) ==
  /\ fpc[f] = "closing" /\ todo[f] = {}
  /\ fpc' = [fpc EXCEPT ![f] = "reported"]
  /\ report' = [report EXCEPT ![f] = IF NotClosed(f) = {} THEN "completed" ELSE "incomplete"]
  /\ UNCHANGED <<vars, todo, missing, failed, steady>>

\* A restart ends the flatten with the process; its memory is gone.
RestartAll ==
  /\ Restart
  /\ fpc' = [f \in Flattens |-> "idle"]
  /\ todo' = [f \in Flattens |-> {}]
  /\ missing' = [f \in Flattens |-> {}]
  /\ failed' = [f \in Flattens |-> {}]
  /\ report' = [f \in Flattens |-> "none"]
  /\ steady' = {}

ClearAll == ClearKill /\ steady' = {} /\ UNCHANGED <<fpc, todo, missing, failed, report>>

FlattenStep(f) ==
  \/ BarrierEmpty(f) \/ BarrierTimeout(f) \/ ListIntents(f) \/ Report(f)
  \/ \E m \in Mints : CloseGone(f, m) \/ CloseFails(f, m) \/ CloseSells(f, m)

OrderStep == ((\E c \in Calls : CallStep(c)) \/ Desk) /\ UNCHANGED flatVars

FlatNext ==
  \/ OrderStep \/ RestartAll \/ ClearAll
  \/ \E f \in Flattens : Request(f) \/ FlattenStep(f)

FlatSpec == FlatInit /\ [][FlatNext]_allVars

\* The barrier wait is bounded by barrier_timeout_s, each close by its curve read.
FlatFairSpec == FlatSpec /\ \A f \in Flattens : WF_allVars(FlattenStep(f))

-----------------------------------------------------------------------------
\* Types, and an intent is in one place: still to close, gone, or failed.
FlatTypeOK ==
  /\ fpc \in [Flattens -> {"idle", "waiting", "listing", "closing", "reported"}]
  /\ todo \in [Flattens -> SUBSET Mints]
  /\ missing \in [Flattens -> SUBSET Mints]
  /\ failed \in [Flattens -> SUBSET Mints]
  /\ report \in [Flattens -> {"none", "blocked", "completed", "incomplete"}]
  /\ steady \subseteq Flattens
  /\ \A f \in Flattens : todo[f] \cap (missing[f] \cup failed[f]) = {}

\* A flatten that reports completed left a flat book, and the book stays flat
\* until the kill switch is cleared: no order that was in flight, admitted or
\* asleep when the flatten ran opens a position behind it (G7 in kill_switch.py).
FlattenTruthful ==
  \A f \in steady : report[f] = "completed" => OpenMints = {}

\* Once the barrier let a flatten through, no buy is in flight until the switch
\* is cleared: those it waited for are gone and the engaged switch admits none.
NoBuyBehindBarrier ==
  \A f \in steady : fpc[f] \in {"listing", "closing"} =>
    \A c \in inflight : ~IsBuy(OrderOf[c])

\* A flatten that started to wait reports, unless the process dies under it.
FlattenReturns ==
  \A f \in Flattens : fpc[f] = "waiting" ~> fpc[f] \in {"reported", "idle"}
=============================================================================
