---------------------------- MODULE PaperOrders ----------------------------
(***************************************************************************)
(* The paper order lifecycle: PaperAdapter.place/cancel and the part of    *)
(* RiskEngine.check that decides it (src/pumpgrok/execution/paper_adapter, *)
(* src/pumpgrok/risk/engine).  A call of place is one coroutine; it gives  *)
(* up the event loop at three awaits only, and every action below is the   *)
(* code between two of them:                                               *)
(*                                                                         *)
(*   idle --check--> deciding --(curve read)--check, append batch-->       *)
(*   latency --(latency sleep)--cancel check--> confirming                 *)
(*   --(curve read)--re-check, settle--> done                              *)
(*                                                                         *)
(* An order is a decision: the key (ticket, side, decision_id) under which *)
(* exec.place is idempotent.  Several calls may carry the same order; each *)
(* call mints its own order id, so a call also names its order id.         *)
(***************************************************************************)
EXTENDS Integers, FiniteSets

CONSTANTS
  Calls,       \* invocations of PaperAdapter.place, and the order ids they mint
  Orders,      \* decisions: one per (ticket, side, decision_id) key
  Mints, Approvals, Creators,
  Seats,       \* the seats the supervisor may latch observe-only
  OrderOf,     \* [Calls -> Orders]
  KindOf,      \* [Orders -> {"buy", "sell", "exit"}]; "exit" carries an exit rule
  MintOf,      \* [Orders -> Mints]
  ApprovalOf,  \* [Orders -> Approvals \cup {NoApproval}]
  CreatorOf,   \* [Mints -> Creators \cup {NoCreator}]
  UnitsOf,     \* [Orders -> Nat]: the units a sell asks for
  Fills,       \* token amounts a buy may receive at the CONFIRMING reserves
  OutsideSteps,  \* steps that may refuse at any time: their answer depends on
               \* prices, marks or breakers
  MaxOpen,     \* max_open_positions
  MaxTrades,   \* max_trades_per_day
  NoCall,      \* no call placed the order yet
  NoApproval,  \* the engine mints the approval itself (autonomous-paper)
  NoCreator    \* a mint whose creator the desk does not know

ASSUME CallsAssumption == NoCall \notin Calls
ASSUME OrdersAssumption ==
  /\ OrderOf \in [Calls -> Orders]
  /\ KindOf \in [Orders -> {"buy", "sell", "exit"}]
  /\ MintOf \in [Orders -> Mints]
  /\ ApprovalOf \in [Orders -> Approvals \cup {NoApproval}]
  /\ CreatorOf \in [Mints -> Creators \cup {NoCreator}]
  /\ UnitsOf \in [Orders -> Nat \ {0}]
ASSUME FillsAssumption == Fills \subseteq Nat \ {0}
ASSUME OutsideAssumption ==
  OutsideSteps \subseteq {"breaker_open", "daily_loss_halt", "data_stale"}
ASSUME LimitsAssumption == MaxOpen \in Nat /\ MaxTrades \in Nat
ASSUME NoneAssumption == NoApproval \notin Approvals /\ NoCreator \notin Creators
ASSUME MintsAssumption == IsFiniteSet(Mints)

VARIABLES
  \* the ledger, as far as these handlers read it back
  placedBy,   \* the call whose OrderPlaced row holds the order's key
  outcomes,   \* the FillRecorded / OrderRejected rows naming a call's order id
  refused,    \* the reasons of the order's unplaced ACCEPTED refusals
  consumed,   \* approvals with a consume row
  holding,    \* token units per mint, folded
  trades,     \* trades_today
  halted,     \* HaltSet without a later HaltCleared
  killed,     \* some kill-switch source is active
  \* memory of the engine and of the adapter
  latched,    \* _observe_only: the mirror of the supervisor's latch set
  cache,      \* _decisions at the current ledger generation, ACCEPTED stage
  inflight,   \* _inflight and the shared barrier
  cancelled,  \* _cancelled
  \* the coroutines
  pc, plan, result,
  \* history: the cancels answered with cancelled=true
  acked

ledger == <<placedBy, outcomes, refused, consumed, holding, trades, halted, killed>>
calls == <<pc, plan, result>>
vars == <<placedBy, outcomes, refused, consumed, holding, trades, halted, killed,
          latched, cache, inflight, cancelled, pc, plan, result, acked>>

-----------------------------------------------------------------------------
(* The risk walk *)

\* STEP_IDS, with "no_position" for the holding check that follows the walk.
\* data_stale stands for the refusals that depend on market data only (the two
\* fractions, data_stale, size_too_small, below_liquidity_floor) and
\* daily_loss_halt for both loss halts.  live_gate and approval_mismatch depend
\* on the order alone: an order they refuse is refused always.  ledger_inconsistent
\* answers no decision: see PlaceRaises.
StepIds == <<"kill_switch", "halted", "breaker_open", "approval_missing",
             "seat_may_trade", "max_trades_per_day", "max_open_positions",
             "already_open", "creator_already_open", "daily_loss_halt",
             "data_stale", "no_position">>

Steps == {"kill_switch", "halted", "breaker_open", "approval_missing",
          "seat_may_trade", "max_trades_per_day", "max_open_positions",
          "already_open", "creator_already_open", "daily_loss_halt",
          "data_stale", "no_position"}

Rank(s) == CHOOSE i \in DOMAIN StepIds : StepIds[i] = s

\* Steps that append HaltSet as they refuse.
HaltingSteps == {"daily_loss_halt"}

ExitSkips == {"kill_switch", "halted", "breaker_open", "max_trades_per_day",
              "max_open_positions", "already_open", "creator_already_open",
              "daily_loss_halt", "data_stale"}

SkippedFor(o) == IF KindOf[o] = "exit" THEN ExitSkips ELSE {}

AcceptedSteps(o) == (Steps \ {"no_position"}) \ SkippedFor(o)

\* Bug: CONFIRMING re-runs only the stops, and not the position limits.
RecheckStopsOnly(o) ==
  {"kill_switch", "halted", "breaker_open", "daily_loss_halt", "data_stale", "no_position"}
    \ SkippedFor(o)

\* Bug: CONFIRMING re-runs only the position limits, and not the stops.
RecheckLimitsOnly(o) ==
  {"max_open_positions", "already_open", "creator_already_open", "no_position"}
    \ SkippedFor(o)

\* Bug: the slot limit is not re-run at CONFIRMING.
RecheckSlotless(o) ==
  (Steps \ {"approval_missing", "seat_may_trade", "max_trades_per_day", "max_open_positions"})
    \ SkippedFor(o)

RecheckSteps(o) ==
  (Steps \ {"approval_missing", "seat_may_trade", "max_trades_per_day"}) \ SkippedFor(o)

IsBuy(o) == KindOf[o] = "buy"

OpenMints == {m \in Mints : holding[m] > 0}

SameCreator(m, n) == CreatorOf[m] = CreatorOf[n] /\ CreatorOf[m] # NoCreator

\* A latched seat refuses its own orders; a latched RISK or EXIT refuses every buy.
SeatBlocked(o) ==
  \/ (IF IsBuy(o) THEN "bot-04-sniper" ELSE "bot-06-exit") \in latched
  \/ IsBuy(o) /\ {"bot-02-risk", "bot-06-exit"} \cap latched # {}

\* The steps the ledger and the latch decide: does step s refuse order o now?
Refuses(s, o) ==
  \/ s = "kill_switch" /\ killed
  \/ s = "halted" /\ halted
  \/ s = "approval_missing" /\ ApprovalOf[o] \in consumed
  \/ s = "seat_may_trade" /\ SeatBlocked(o)
  \/ s = "max_trades_per_day" /\ trades >= MaxTrades
  \/ s = "max_open_positions" /\ IsBuy(o) /\ Cardinality(OpenMints) >= MaxOpen
  \/ s = "already_open" /\ IsBuy(o) /\ holding[MintOf[o]] > 0
  \/ s = "creator_already_open" /\ IsBuy(o)
       /\ \E m \in OpenMints : SameCreator(m, MintOf[o])
  \/ s = "no_position" /\ ~IsBuy(o) /\ holding[MintOf[o]] <= 0

\* What a fresh evaluation over these steps may answer: the first step that
\* refuses, in StepIds order, or a pass.
Verdicts(o, steps) ==
  {s \in steps : /\ s \in OutsideSteps \/ Refuses(s, o)
                 /\ \A t \in steps : Refuses(t, o) => Rank(s) <= Rank(t)}
    \cup {v \in {"pass"} : \A t \in steps : ~Refuses(t, o)}

Forget == [o \in Orders |-> "none"]

\* RiskEngine.check at ACCEPTED: the decision cached for this generation of the
\* ledger, else a fresh one.  Every append moves the generation (store.count is
\* in the key), so handlers that append set cache to Forget; _observe_only is
\* not in the key.  At CONFIRMING the cache cannot answer: a decision reaches
\* that check once in its life.
Decide(o) ==
  IF cache[o] # "none" THEN {cache[o]} ELSE Verdicts(o, AcceptedSteps(o))

-----------------------------------------------------------------------------
(* Ends of a call *)

\* Bug: the finally does not clear the barrier entry.
FinishKeepsBarrier(c, r) ==
  /\ pc' = [pc EXCEPT ![c] = "done"]
  /\ result' = [result EXCEPT ![c] = r]
  /\ plan' = [plan EXCEPT ![c] = 0]
  /\ UNCHANGED inflight

\* The finally of place: the barrier entry this call registered is removed.
Finish(c, r) ==
  /\ pc' = [pc EXCEPT ![c] = "done"]
  /\ result' = [result EXCEPT ![c] = r]
  /\ plan' = [plan EXCEPT ![c] = 0]
  /\ inflight' = inflight \ {c}

\* _reject before an order is written.  The row is keyed by (order, ACCEPTED,
\* reason): a second refusal for the same reason appends nothing.
RefuseUnplaced(c, r, decided) ==
  LET o == OrderOf[c]
      appends == r \notin refused[o] \/ r \in HaltingSteps
  IN /\ refused' = [refused EXCEPT ![o] = @ \cup {r}]
     /\ halted' = (halted \/ r \in HaltingSteps)
     /\ cache' = IF appends THEN Forget ELSE decided
     /\ Finish(c, r)
     /\ UNCHANGED <<placedBy, outcomes, consumed, holding, trades, killed,
                    latched, cancelled, acked>>

\* _reject of a written order: an OrderRejected row names its order id.
RejectPlaced(c, r) ==
  /\ outcomes' = [outcomes EXCEPT ![c] = @ \cup {r}]
  /\ halted' = (halted \/ r \in HaltingSteps)
  /\ cache' = Forget
  /\ Finish(c, r)
  /\ UNCHANGED <<placedBy, refused, consumed, holding, trades, killed, latched, acked>>

\* Bug: a repeat of an order in flight is reported as filled.
StoredOptimistic(o) ==
  IF outcomes[placedBy[o]] = {} THEN {"fill"} ELSE outcomes[placedBy[o]]

\* _repeat_outcome: the stored outcome of the order already written for this
\* decision, or in_flight while it has none.
StoredOutcomes(o) ==
  IF outcomes[placedBy[o]] = {} THEN {"in_flight"} ELSE outcomes[placedBy[o]]

-----------------------------------------------------------------------------
(* place, up to the read of the decision curve *)

PlaceRepeat(c) ==
  /\ pc[c] = "idle"
  /\ placedBy[OrderOf[c]] # NoCall
  /\ \E r \in StoredOutcomes(OrderOf[c]) : Finish(c, r)
  /\ UNCHANGED <<ledger, latched, cache, cancelled, acked>>

PlaceRefused(c) ==
  LET o == OrderOf[c] IN
  /\ pc[c] = "idle"
  /\ placedBy[o] = NoCall
  /\ \E v \in Decide(o) \ {"pass"} :
       RefuseUnplaced(c, v, [cache EXCEPT ![o] = v])

PlaceAdmitted(c) ==
  LET o == OrderOf[c] IN
  /\ pc[c] = "idle"
  /\ placedBy[o] = NoCall
  /\ "pass" \in Decide(o)
  /\ cache' = [cache EXCEPT ![o] = "pass"]
  /\ pc' = [pc EXCEPT ![c] = "deciding"]
  /\ UNCHANGED <<ledger, latched, inflight, cancelled, plan, result, acked>>

-----------------------------------------------------------------------------
(* After the decision curve: gates, sizing, second check, ACCEPTED batch *)

\* A curve that is missing, graduated, too thin or of an ASSUMED layout
\* ("no_reserves" stands for them), or a sell of a mint that is flat.
RefusedAtCurve(c) ==
  /\ pc[c] = "deciding"
  /\ \/ RefuseUnplaced(c, "no_reserves", cache)
     \/ /\ ~IsBuy(OrderOf[c]) /\ holding[MintOf[OrderOf[c]]] <= 0
        /\ RefuseUnplaced(c, "no_position", cache)

ReachesBatch(c) ==
  /\ pc[c] = "deciding"
  /\ ~IsBuy(OrderOf[c]) => holding[MintOf[OrderOf[c]]] > 0

\* The second ACCEPTED check refuses, or the consume row's UNIQUE key does: an
\* approval another order consumed rolls the batch back as approval_missing.
SubmitRefused(c) ==
  LET o == OrderOf[c] IN
  /\ ReachesBatch(c)
  /\ \E v \in Decide(o) :
       LET lost == v = "pass" /\ ApprovalOf[o] \in consumed /\ placedBy[o] = NoCall
       IN /\ v # "pass" \/ lost
          /\ RefuseUnplaced(c, IF lost THEN "approval_missing" ELSE v,
                            [cache EXCEPT ![o] = v])

\* The OrderPlaced row's UNIQUE key was taken while this call read the curve.
SubmitRepeat(c) ==
  LET o == OrderOf[c] IN
  /\ ReachesBatch(c)
  /\ "pass" \in Decide(o)
  /\ placedBy[o] # NoCall
  /\ cache' = [cache EXCEPT ![o] = "pass"]
  /\ \E r \in StoredOutcomes(o) : Finish(c, r)
  /\ UNCHANGED <<ledger, latched, cancelled, acked>>

\* What a sell may fill: at most what it asks for, what the curve's fill cap
\* allows and what is held.  A buy is sized when it settles.
Plans(o) ==
  IF IsBuy(o) THEN {0} ELSE {n \in 1..UnitsOf[o] : n <= holding[MintOf[o]]}

\* The batch: the consume row (human approvals only) and OrderPlaced, at once.
\* _confirm_latency then registers the order in the barrier before it sleeps.
WriteOrder(c, spent) ==
  /\ placedBy' = [placedBy EXCEPT ![OrderOf[c]] = c]
  /\ consumed' = consumed \cup spent
  /\ cache' = Forget
  /\ inflight' = inflight \cup {c}
  /\ \E n \in Plans(OrderOf[c]) : plan' = [plan EXCEPT ![c] = n]
  /\ pc' = [pc EXCEPT ![c] = "latency"]
  /\ UNCHANGED <<outcomes, refused, holding, trades, halted, killed, latched,
                 cancelled, result, acked>>

\* Bug: the order row has no UNIQUE key: a concurrent repeat writes it again.
SubmitUnkeyed(c) ==
  /\ ReachesBatch(c)
  /\ "pass" \in Decide(OrderOf[c])
  /\ WriteOrder(c, {ApprovalOf[OrderOf[c]]} \ {NoApproval})

\* Bug: the approval is not consumed with the order.
SubmitUnconsumed(c) ==
  /\ ReachesBatch(c)
  /\ "pass" \in Decide(OrderOf[c])
  /\ placedBy[OrderOf[c]] = NoCall
  /\ WriteOrder(c, {})

\* Bug: an approval the engine minted gets a consume row too.
SubmitConsumesMinted(c) ==
  /\ ReachesBatch(c)
  /\ "pass" \in Decide(OrderOf[c])
  /\ placedBy[OrderOf[c]] = NoCall
  /\ WriteOrder(c, {ApprovalOf[OrderOf[c]]})

\* Both rows have UNIQUE keys: the decision's and the approval's.
Submit(c) ==
  /\ ReachesBatch(c)
  /\ "pass" \in Decide(OrderOf[c])
  /\ placedBy[OrderOf[c]] = NoCall
  /\ ApprovalOf[OrderOf[c]] \notin consumed
  /\ WriteOrder(c, {ApprovalOf[OrderOf[c]]} \ {NoApproval})

-----------------------------------------------------------------------------
(* CONFIRMING *)

\* The latency sleep ended and no cancel landed: the curve is read again.
LatencySlept(c) ==
  /\ pc[c] = "latency"
  /\ c \notin cancelled
  /\ pc' = [pc EXCEPT ![c] = "confirming"]
  /\ UNCHANGED <<ledger, latched, cache, inflight, cancelled, plan, result, acked>>

CancelledInLatency(c) ==
  /\ pc[c] = "latency"
  /\ c \in cancelled
  /\ cancelled' = cancelled \ {c}
  /\ RejectPlaced(c, "cancelled")

\* Bug: the timeout is recorded, but the call goes on to confirm.
LatencyTimedOutGoesOn(c) ==
  /\ pc[c] = "latency"
  /\ outcomes' = [outcomes EXCEPT ![c] = @ \cup {"confirmation_timeout"}]
  /\ cache' = Forget
  /\ pc' = [pc EXCEPT ![c] = "confirming"]
  /\ UNCHANGED <<placedBy, refused, consumed, holding, trades, halted, killed, latched,
                 inflight, cancelled, plan, result, acked>>

\* The drawn latency outlasted confirm_timeout_s: the outcome is UNKNOWN.
LatencyTimedOut(c) ==
  /\ pc[c] = "latency"
  /\ RejectPlaced(c, "confirmation_timeout")
  /\ UNCHANGED cancelled

RefusedAtConfirmCurve(c) ==
  /\ pc[c] = "confirming"
  /\ RejectPlaced(c, "no_reserves")
  /\ UNCHANGED cancelled

\* The CONFIRMING check of a call that has the second curve in hand.
Recheck(c) == Verdicts(OrderOf[c], RecheckSteps(OrderOf[c]))

RefusedAtRecheck(c) ==
  /\ pc[c] = "confirming"
  /\ \E v \in Recheck(c) \ {"pass"} : RejectPlaced(c, v)
  /\ UNCHANGED cancelled

\* Bug: the holding is not read again at CONFIRMING.
FitsAlways(c) == c \in Calls

\* A sell sized at the decision curve must still fit what is held.
Fits(c) == IsBuy(OrderOf[c]) \/ plan[c] <= holding[MintOf[OrderOf[c]]]

\* The seeded drop, then the holding, then the slippage threshold.
RefusedAfterRecheck(c) ==
  /\ pc[c] = "confirming"
  /\ "pass" \in Recheck(c)
  /\ \/ RejectPlaced(c, "tx_dropped")
     \/ ~Fits(c) /\ RejectPlaced(c, "no_position")
     \/ Fits(c) /\ RejectPlaced(c, "slippage_exceeded")
  /\ UNCHANGED cancelled

\* The fill rows are one batch; no await lies between the re-check and it.
Fill(c, units) ==
  LET m == MintOf[OrderOf[c]] IN
  /\ holding' = [holding EXCEPT ![m] = units]
  /\ outcomes' = [outcomes EXCEPT ![c] = @ \cup {"fill"}]
  /\ cache' = Forget
  /\ Finish(c, "fill")
  /\ UNCHANGED <<placedBy, refused, consumed, halted, killed, latched, cancelled, acked>>

SettleBuy(c) ==
  /\ pc[c] = "confirming"
  /\ IsBuy(OrderOf[c])
  /\ "pass" \in Recheck(c)
  /\ \E u \in Fills : Fill(c, holding[MintOf[OrderOf[c]]] + u)
  /\ trades' = trades + 1

SettleSell(c) ==
  /\ pc[c] = "confirming"
  /\ ~IsBuy(OrderOf[c])
  /\ "pass" \in Recheck(c)
  /\ Fits(c)
  /\ Fill(c, holding[MintOf[OrderOf[c]]] - plan[c])
  /\ UNCHANGED trades

-----------------------------------------------------------------------------
(* What may happen to a call from outside *)

\* exec.cancel of a placed order: neither filled nor rejected in the ledger, and
\* still in the adapter's in-flight set.  Nothing is appended.
Cancel(c) ==
  /\ placedBy[OrderOf[c]] = c
  /\ outcomes[c] = {}
  /\ c \in inflight
  /\ cancelled' = cancelled \cup {c}
  /\ acked' = acked \cup {c}
  /\ UNCHANGED <<ledger, latched, cache, inflight, calls>>

\* Bug: an exception skips the finally.
PlaceRaisesKeeps(c) ==
  /\ pc[c] # "done"
  /\ pc[c] = "idle" => placedBy[OrderOf[c]] = NoCall
  /\ FinishKeepsBarrier(c, "lost")
  /\ UNCHANGED <<ledger, latched, cache, cancelled, acked>>

\* place raises: its task is cancelled at an await (shutdown drain), or a chain
\* that does not verify makes the handle refuse every append, the HaltSet and the
\* OrderRejected of the ledger_inconsistent step included.  No row is written, an
\* order already written keeps no outcome, and the finally clears the barrier.
PlaceRaises(c) ==
  /\ pc[c] # "done"
  /\ pc[c] = "idle" => placedBy[OrderOf[c]] = NoCall
  /\ Finish(c, "lost")
  /\ UNCHANGED <<ledger, latched, cache, cancelled, acked>>

\* The process dies and a new one starts: the ledger and the kill file stay, the
\* engine's and the adapter's memory is gone; the supervisor rebuilds its latch.
Restart ==
  LET live == {c \in Calls : pc[c] \in {"deciding", "latency", "confirming"}} IN
  /\ live # {}
  /\ pc' = [c \in Calls |-> IF c \in live THEN "done" ELSE pc[c]]
  /\ result' = [c \in Calls |-> IF c \in live THEN "lost" ELSE result[c]]
  /\ plan' = [c \in Calls |-> 0]
  /\ inflight' = {}
  /\ cancelled' = {}
  /\ cache' = Forget
  /\ UNCHANGED <<ledger, latched, acked>>

-----------------------------------------------------------------------------
(* The rest of the desk, as far as these handlers see it *)

\* Every change of the ledger below is an append and moves the cache generation.
Elsewhere == cache' = Forget /\ UNCHANGED <<latched, inflight, cancelled, calls, acked>>

EngageKill ==
  /\ ~killed /\ killed' = TRUE
  /\ Elsewhere
  /\ UNCHANGED <<placedBy, outcomes, refused, consumed, holding, trades, halted>>

ClearKill ==
  /\ killed /\ killed' = FALSE
  /\ Elsewhere
  /\ UNCHANGED <<placedBy, outcomes, refused, consumed, holding, trades, halted>>

SetHalt ==
  /\ ~halted /\ halted' = TRUE
  /\ Elsewhere
  /\ UNCHANGED <<placedBy, outcomes, refused, consumed, holding, trades, killed>>

ClearHalt ==
  /\ halted /\ halted' = FALSE
  /\ Elsewhere
  /\ UNCHANGED <<placedBy, outcomes, refused, consumed, holding, trades, killed>>

\* close_position and the forced closes settle after their last await, as one
\* batch, and go through no risk check: the position is gone.
ForceClose(m) ==
  /\ holding[m] > 0
  /\ holding' = [holding EXCEPT ![m] = 0]
  /\ Elsewhere
  /\ UNCHANGED <<placedBy, outcomes, refused, consumed, trades, halted, killed>>

DayRollover ==
  /\ trades > 0 /\ trades' = 0
  /\ Elsewhere
  /\ UNCHANGED <<placedBy, outcomes, refused, consumed, holding, halted, killed>>

\* Any other row (a mark, a note, a breaker edge), or a breaker cooldown ending.
OtherRow ==
  /\ cache # Forget
  /\ Elsewhere
  /\ UNCHANGED ledger

\* set_observe_only at the end of a supervisor tick: memory only, no append.
MirrorLatches ==
  /\ \E S \in SUBSET Seats : S # latched /\ latched' = S
  /\ UNCHANGED <<ledger, cache, inflight, cancelled, calls, acked>>

-----------------------------------------------------------------------------
Init ==
  /\ placedBy = [o \in Orders |-> NoCall]
  /\ outcomes = [c \in Calls |-> {}]
  /\ refused = [o \in Orders |-> {}]
  /\ consumed = {}
  /\ holding = [m \in Mints |-> 0]
  /\ trades = 0
  /\ halted = FALSE
  /\ killed = FALSE
  /\ latched = {}
  /\ cache = Forget
  /\ inflight = {}
  /\ cancelled = {}
  /\ pc = [c \in Calls |-> "idle"]
  /\ plan = [c \in Calls |-> 0]
  /\ result = [c \in Calls |-> "none"]
  /\ acked = {}

Latency(c) == LatencySlept(c) \/ CancelledInLatency(c) \/ LatencyTimedOut(c)

Confirm(c) ==
  \/ RefusedAtConfirmCurve(c) \/ RefusedAtRecheck(c) \/ RefusedAfterRecheck(c)
  \/ SettleBuy(c) \/ SettleSell(c)

Place(c) ==
  \/ PlaceRepeat(c) \/ PlaceRefused(c) \/ PlaceAdmitted(c)
  \/ RefusedAtCurve(c) \/ SubmitRefused(c) \/ SubmitRepeat(c) \/ Submit(c)

CallStep(c) == Place(c) \/ Latency(c) \/ Confirm(c) \/ Cancel(c) \/ PlaceRaises(c)

Desk ==
  \/ EngageKill \/ SetHalt \/ ClearHalt
  \/ DayRollover \/ OtherRow \/ MirrorLatches
  \/ \E m \in Mints : ForceClose(m)

Next ==
  \/ \E c \in Calls : CallStep(c)
  \/ Desk
  \/ ClearKill
  \/ Restart

Spec == Init /\ [][Next]_vars

\* The sleep runs on a clock that advances and is bounded by confirm_timeout_s;
\* the curve read returns or fails.  Nothing else is owed a step.
Fairness == \A c \in Calls : WF_vars(Latency(c)) /\ WF_vars(Confirm(c))

FairSpec == Spec /\ Fairness

-----------------------------------------------------------------------------
(* What the order lifecycle promises *)

Verdict == Steps \cup {"pass"}

RefusalReasons == Steps \cup {"no_reserves"}

OutcomeKinds == RefusalReasons
  \cup {"fill", "cancelled", "confirmation_timeout", "tx_dropped", "slippage_exceeded"}

\* Every variable stays in its domain.
TypeOK ==
  /\ placedBy \in [Orders -> Calls \cup {NoCall}]
  /\ outcomes \in [Calls -> SUBSET OutcomeKinds]
  /\ refused \in [Orders -> SUBSET RefusalReasons]
  /\ consumed \subseteq Approvals
  /\ holding \in [Mints -> Int]
  /\ trades \in Nat
  /\ halted \in BOOLEAN /\ killed \in BOOLEAN
  /\ latched \subseteq Seats
  /\ cache \in [Orders -> Verdict \cup {"none"}]
  /\ inflight \subseteq Calls /\ cancelled \subseteq Calls /\ acked \subseteq Calls
  /\ pc \in [Calls -> {"idle", "deciding", "latency", "confirming", "done"}]
  /\ plan \in [Calls -> Nat]
  /\ result \in [Calls -> OutcomeKinds \cup {"none", "in_flight", "lost"}]

\* Single send: of all the calls that carry one decision, only the call that
\* wrote its OrderPlaced row is ever in flight for it or records an outcome,
\* whatever crashes, timeouts and repeats come between (buy.py, _repeat_outcome).
SingleSend ==
  \A c \in Calls : c \in inflight \/ outcomes[c] # {} => placedBy[OrderOf[c]] = c

\* A written order gets one final row at most: a timed-out, cancelled or dropped
\* order is never filled as well, and a fill is never also a refusal.
OneOutcome == \A c \in Calls : Cardinality(outcomes[c]) <= 1

\* A human approval pays for one order: two decisions presenting the same record
\* never both write an OrderPlaced row, even from concurrent calls (batch_stages.py).
ApprovalSingleUse ==
  \A o, p \in Orders :
    /\ o # p
    /\ ApprovalOf[o] = ApprovalOf[p] /\ ApprovalOf[o] \in Approvals
    /\ placedBy[o] # NoCall
    => placedBy[p] = NoCall

\* Buys admitted side by side, each when the book had room, never together open
\* more positions than max_open_positions (the CONFIRMING re-check).
OpenPositionsBounded == Cardinality(OpenMints) <= MaxOpen

\* ... nor two positions in mints of one creator.
OneOpenPerCreator ==
  \A m, n \in OpenMints : m # n => ~SameCreator(m, n)

\* Concurrent sells, and a sell racing a flatten, never sell tokens twice.
NoOversell == \A m \in Mints : holding[m] >= 0

\* The barrier the kill flatten waits on holds exactly the orders between their
\* OrderPlaced row and their end: none is forgotten, and none leaks when a call
\* is refused, cancelled, timed out or lost.
BarrierExact == inflight = {c \in Calls : pc[c] \in {"latency", "confirming"}}

\* A caller told "fill" (by its own order or as a repeat) is told of a fill that
\* the ledger holds for that decision.
ReplayTruthful ==
  \A c \in Calls : result[c] = "fill" =>
    /\ placedBy[OrderOf[c]] # NoCall
    /\ "fill" \in outcomes[placedBy[OrderOf[c]]]

\* No order decided before the kill switch or a halt can fill after it: no step
\* raises a holding while either is engaged (paper-engine.md 2.8, INV-R-01).
StopGateHolds ==
  [][\A m \in Mints : holding'[m] > holding[m] => ~halted /\ ~killed]_vars

\* A buy never adds to a position that opened while it slept.
NoPyramiding ==
  [][\A m \in Mints : holding'[m] > holding[m] => holding[m] = 0]_vars

\* What a buy was admitted on is looked at again when it fills.
BuyGateHolds == StopGateHolds /\ NoPyramiding

\* Every order leaves the barrier, so a flatten that waits on it is not blocked
\* by an order that was cancelled, dropped, refused or abandoned.
BarrierDrains == \A c \in Calls : c \in inflight ~> c \notin inflight
=============================================================================
