------------------------- MODULE PaperOrdersProofs -------------------------
(***************************************************************************)
(* Theorems about PaperOrders, for every set of calls, orders, mints,      *)
(* approvals and seats and every limit: first its types, then its safety.  *)
(* Two lemmas reduce a step to what it may do to the order rows            *)
(* (RowSteps) and to the holdings (HoldingSteps); the safety invariants    *)
(* are proved over those few kinds.  Then KillFlatten: the composition     *)
(* takes only steps of PaperOrders (or none), so what is proved of the     *)
(* orders holds under a flatten too, and a flatten's report tells the      *)
(* truth.                                                                  *)
(***************************************************************************)
EXTENDS KillFlatten, FiniteSetTheorems, TLAPS

Results == OutcomeKinds \cup {"none", "in_flight", "lost"}

-----------------------------------------------------------------------------
(* The risk walk *)

\* A walk over some of the steps answers one of them, or a pass.
LEMMA VerdictsType ==
  ASSUME NEW o, NEW S \in SUBSET Steps
  PROVE  Verdicts(o, S) \subseteq Verdict
BY DEF Verdicts, Verdict

\* A walk that can answer "pass" is one in which no ledger step refuses.
LEMMA PassMeans ==
  ASSUME NEW o, NEW S \in SUBSET Steps, "pass" \in Verdicts(o, S), NEW s \in S
  PROVE  ~Refuses(s, o)
<1>1. "pass" \notin S
  BY DEF Steps
<1> QED
  BY <1>1 DEF Verdicts

\* The cached decision, like a fresh one, is a verdict.
LEMMA DecideType ==
  ASSUME TypeOK, NEW o \in Orders
  PROVE  Decide(o) \subseteq Verdict
<1>1. AcceptedSteps(o) \in SUBSET Steps
  BY DEF AcceptedSteps
<1>2. Verdicts(o, AcceptedSteps(o)) \subseteq Verdict
  BY <1>1, VerdictsType
<1> QED
  BY <1>2 DEF Decide, TypeOK

LEMMA RecheckType ==
  ASSUME NEW c
  PROVE  Recheck(c) \subseteq Verdict
<1>1. RecheckSteps(OrderOf[c]) \in SUBSET Steps
  BY DEF RecheckSteps
<1> QED
  BY <1>1, VerdictsType DEF Recheck

\* What the CONFIRMING check of a buy that passed rules out.
LEMMA BuyRecheckPassed ==
  ASSUME NEW c \in Calls, IsBuy(OrderOf[c]), "pass" \in Recheck(c)
  PROVE  /\ ~killed /\ ~halted
         /\ ~(Cardinality(OpenMints) >= MaxOpen)
         /\ ~(holding[MintOf[OrderOf[c]]] > 0)
         /\ \A m \in OpenMints : ~SameCreator(m, MintOf[OrderOf[c]])
<1> DEFINE o == OrderOf[c]
           S == RecheckSteps(o)
<1>1. S = Steps \ {"approval_missing", "seat_may_trade", "max_trades_per_day"}
  BY DEF RecheckSteps, SkippedFor, IsBuy
<1>2. S \in SUBSET Steps
  BY <1>1
<1>3. \A s \in S : ~Refuses(s, o)
  BY <1>2, PassMeans DEF Recheck
<1>4. {"kill_switch", "halted", "max_open_positions", "already_open",
       "creator_already_open"} \subseteq S
  BY <1>1 DEF Steps
<1>5. ~killed /\ ~halted
  BY <1>3, <1>4 DEF Refuses
<1>6. ~(Cardinality(OpenMints) >= MaxOpen)
  BY <1>3, <1>4 DEF Refuses
<1>7. ~(holding[MintOf[o]] > 0)
  BY <1>3, <1>4 DEF Refuses
<1>8. \A m \in OpenMints : ~SameCreator(m, MintOf[o])
  BY <1>3, <1>4 DEF Refuses
<1> QED
  BY <1>5, <1>6, <1>7, <1>8

-----------------------------------------------------------------------------
(* Type correctness *)

CallsType(q, n, r, f) ==
  /\ q \in [Calls -> {"idle", "deciding", "latency", "confirming", "done"}]
  /\ n \in [Calls -> Nat]
  /\ r \in [Calls -> Results]
  /\ f \subseteq Calls

\* The end of a call keeps the coroutines and the barrier well typed.
LEMMA FinishType ==
  ASSUME TypeOK, NEW c \in Calls, NEW r \in Results, Finish(c, r)
  PROVE  CallsType(pc', plan', result', inflight')
BY DEF TypeOK, Finish, CallsType, Results

LEMMA ForgetType == Forget \in [Orders -> Verdict \cup {"none"}]
BY DEF Forget

LEMMA RefuseType ==
  ASSUME TypeOK, NEW c \in Calls, NEW r \in RefusalReasons,
         NEW d \in [Orders -> Verdict \cup {"none"}], RefuseUnplaced(c, r, d)
  PROVE  TypeOK'
<1>1. r \in Results
  BY DEF Results, OutcomeKinds
<1>2. CallsType(pc', plan', result', inflight')
  BY <1>1, FinishType DEF RefuseUnplaced
<1>3. cache' \in [Orders -> Verdict \cup {"none"}]
  BY ForgetType DEF RefuseUnplaced
<1>4. refused' \in [Orders -> SUBSET RefusalReasons] /\ halted' \in BOOLEAN
  BY DEF RefuseUnplaced, TypeOK
<1> QED
  BY <1>2, <1>3, <1>4 DEF RefuseUnplaced, TypeOK, CallsType, Results

LEMMA RejectType ==
  ASSUME TypeOK, NEW c \in Calls, NEW r \in OutcomeKinds, RejectPlaced(c, r),
         cancelled' \subseteq Calls
  PROVE  TypeOK'
<1>1. CallsType(pc', plan', result', inflight')
  BY FinishType DEF RejectPlaced, Results
<1>2. outcomes' \in [Calls -> SUBSET OutcomeKinds] /\ halted' \in BOOLEAN
  BY DEF RejectPlaced, TypeOK
<1> QED
  BY <1>1, <1>2, ForgetType DEF RejectPlaced, TypeOK, CallsType, Results

LEMMA FillType ==
  ASSUME TypeOK, NEW c \in Calls, NEW n \in Int, Fill(c, n), trades' \in Nat
  PROVE  TypeOK'
<1>1. CallsType(pc', plan', result', inflight')
  BY FinishType DEF Fill, Results, OutcomeKinds
<1>2. outcomes' \in [Calls -> SUBSET OutcomeKinds]
  BY DEF Fill, TypeOK, OutcomeKinds
<1>3. holding' \in [Mints -> Int]
  BY DEF Fill, TypeOK
<1> QED
  BY <1>1, <1>2, <1>3, ForgetType DEF Fill, TypeOK, CallsType, Results

\* What a repeat is answered is a result.
LEMMA StoredType ==
  ASSUME TypeOK, NEW o \in Orders, placedBy[o] # NoCall
  PROVE  StoredOutcomes(o) \subseteq Results
<1>1. placedBy[o] \in Calls
  BY DEF TypeOK
<1>2. outcomes[placedBy[o]] \subseteq OutcomeKinds
  BY <1>1 DEF TypeOK
<1> QED
  BY <1>2 DEF StoredOutcomes, Results

LEMMA InitType == Init => TypeOK
<1> SUFFICES ASSUME Init PROVE TypeOK
  OBVIOUS
<1>1. /\ placedBy \in [Orders -> Calls \cup {NoCall}]
      /\ outcomes \in [Calls -> SUBSET OutcomeKinds]
      /\ refused \in [Orders -> SUBSET RefusalReasons]
      /\ holding \in [Mints -> Int]
  BY DEF Init
<1>2. /\ pc \in [Calls -> {"idle", "deciding", "latency", "confirming", "done"}]
      /\ plan \in [Calls -> Nat]
      /\ result \in [Calls -> OutcomeKinds \cup {"none", "in_flight", "lost"}]
  BY DEF Init
<1>3. cache \in [Orders -> Verdict \cup {"none"}]
  BY ForgetType DEF Init
<1>4. consumed = {} /\ latched = {} /\ inflight = {} /\ cancelled = {} /\ acked = {}
  BY DEF Init
<1>5. trades \in Nat /\ halted \in BOOLEAN /\ killed \in BOOLEAN
  BY DEF Init
<1> QED
  BY <1>1, <1>2, <1>3, <1>4, <1>5 DEF TypeOK

LEMMA DecidedType ==
  ASSUME TypeOK, NEW o \in Orders, NEW v \in Decide(o)
  PROVE  [cache EXCEPT ![o] = v] \in [Orders -> Verdict \cup {"none"}]
<1>1. v \in Verdict
  BY DecideType
<1> QED
  BY <1>1 DEF TypeOK

LEMMA PlaceType ==
  ASSUME TypeOK, NEW c \in Calls, Place(c)
  PROVE  TypeOK'
<1> DEFINE o == OrderOf[c]
<1>0. o \in Orders
  BY OrdersAssumption
<1>1. CASE PlaceRepeat(c)
  <2>1. PICK r \in StoredOutcomes(o) : Finish(c, r)
    BY <1>1 DEF PlaceRepeat
  <2>2. r \in Results
    BY <1>0, <1>1, <2>1, StoredType DEF PlaceRepeat
  <2>3. CallsType(pc', plan', result', inflight')
    BY <2>1, <2>2, FinishType
  <2> QED
    BY <1>1, <2>3 DEF PlaceRepeat, TypeOK, CallsType, Results, ledger
<1>2. CASE PlaceRefused(c)
  <2>1. PICK v \in Decide(o) \ {"pass"} : RefuseUnplaced(c, v, [cache EXCEPT ![o] = v])
    BY <1>2 DEF PlaceRefused
  <2>2. v \in RefusalReasons
    BY <1>0, <2>1, DecideType DEF Verdict, RefusalReasons
  <2> QED
    BY <1>0, <2>1, <2>2, DecidedType, RefuseType
<1>3. CASE PlaceAdmitted(c)
  <2>1. cache' \in [Orders -> Verdict \cup {"none"}]
    BY <1>0, <1>3, DecidedType DEF PlaceAdmitted
  <2> QED
    BY <1>3, <2>1 DEF PlaceAdmitted, TypeOK, ledger
<1>4. CASE RefusedAtCurve(c)
  <2>1. {"no_reserves", "no_position"} \subseteq RefusalReasons
    BY DEF RefusalReasons, Steps
  <2>2. cache \in [Orders -> Verdict \cup {"none"}]
    BY DEF TypeOK
  <2> QED
    BY <1>4, <2>1, <2>2, RefuseType DEF RefusedAtCurve
<1>5. CASE SubmitRefused(c)
  <2>1. PICK v \in Decide(o) :
          LET lost == v = "pass" /\ ApprovalOf[o] \in consumed /\ placedBy[o] = NoCall
          IN /\ v # "pass" \/ lost
             /\ RefuseUnplaced(c, IF lost THEN "approval_missing" ELSE v,
                               [cache EXCEPT ![o] = v])
    BY <1>5 DEF SubmitRefused
  <2>2. v \in Verdict
    BY <1>0, DecideType
  <2>3. "approval_missing" \in RefusalReasons
    BY DEF RefusalReasons, Steps
  <2>4. v # "pass" => v \in RefusalReasons
    BY <2>2 DEF Verdict, RefusalReasons
  <2>5. PICK r \in RefusalReasons : RefuseUnplaced(c, r, [cache EXCEPT ![o] = v])
    BY <2>1, <2>3, <2>4
  <2> QED
    BY <1>0, <2>5, DecidedType, RefuseType
<1>6. CASE SubmitRepeat(c)
  <2>1. PICK r \in StoredOutcomes(o) : Finish(c, r)
    BY <1>6 DEF SubmitRepeat
  <2>2. r \in Results
    BY <1>0, <1>6, <2>1, StoredType DEF SubmitRepeat
  <2>3. CallsType(pc', plan', result', inflight')
    BY <2>1, <2>2, FinishType
  <2>4. cache' \in [Orders -> Verdict \cup {"none"}]
    BY <1>0, <1>6, DecidedType DEF SubmitRepeat
  <2> QED
    BY <1>6, <2>3, <2>4 DEF SubmitRepeat, TypeOK, CallsType, Results, ledger
<1>7. CASE Submit(c)
  <2>1. WriteOrder(c, {ApprovalOf[o]} \ {NoApproval})
    BY <1>7 DEF Submit
  <2>2. {ApprovalOf[o]} \ {NoApproval} \subseteq Approvals
    BY <1>0, OrdersAssumption
  <2>3. Plans(o) \subseteq Nat
    BY <1>0, OrdersAssumption DEF Plans
  <2>4. plan' \in [Calls -> Nat]
    BY <2>1, <2>3 DEF WriteOrder, TypeOK
  <2> QED
    BY <1>0, <2>1, <2>2, <2>4, ForgetType DEF WriteOrder, TypeOK
<1> QED
  BY <1>1, <1>2, <1>3, <1>4, <1>5, <1>6, <1>7 DEF Place

LEMMA LatencyType ==
  ASSUME TypeOK, NEW c \in Calls, Latency(c)
  PROVE  TypeOK'
<1>0. {"cancelled", "confirmation_timeout"} \subseteq OutcomeKinds
  BY DEF OutcomeKinds
<1>1. CASE LatencySlept(c)
  BY <1>1 DEF LatencySlept, TypeOK, ledger
<1>2. CASE CancelledInLatency(c)
  <2>1. cancelled' \subseteq Calls
    BY <1>2 DEF CancelledInLatency, TypeOK
  <2> QED
    BY <1>0, <1>2, <2>1, RejectType DEF CancelledInLatency
<1>3. CASE LatencyTimedOut(c)
  <2>1. cancelled' \subseteq Calls
    BY <1>3 DEF LatencyTimedOut, TypeOK
  <2> QED
    BY <1>0, <1>3, <2>1, RejectType DEF LatencyTimedOut
<1> QED
  BY <1>1, <1>2, <1>3 DEF Latency

LEMMA ConfirmType ==
  ASSUME TypeOK, NEW c \in Calls, Confirm(c)
  PROVE  TypeOK'
<1> DEFINE m == MintOf[OrderOf[c]]
<1>0. /\ m \in Mints /\ holding[m] \in Int /\ plan[c] \in Int /\ trades \in Nat
  BY OrdersAssumption DEF TypeOK
<1>1. ASSUME cancelled' = cancelled, NEW r \in OutcomeKinds, RejectPlaced(c, r)
      PROVE  TypeOK'
  <2>1. cancelled' \subseteq Calls
    BY <1>1 DEF TypeOK
  <2> QED
    BY <1>1, <2>1, RejectType
<1>2. CASE RefusedAtConfirmCurve(c)
  <2>1. "no_reserves" \in OutcomeKinds
    BY DEF OutcomeKinds, RefusalReasons
  <2> QED
    BY <1>1, <1>2, <2>1 DEF RefusedAtConfirmCurve
<1>3. CASE RefusedAtRecheck(c)
  <2>1. PICK v \in Recheck(c) \ {"pass"} : RejectPlaced(c, v)
    BY <1>3 DEF RefusedAtRecheck
  <2>2. v \in OutcomeKinds
    BY <2>1, RecheckType DEF Verdict, OutcomeKinds, RefusalReasons
  <2> QED
    BY <1>1, <1>3, <2>1, <2>2 DEF RefusedAtRecheck
<1>4. CASE RefusedAfterRecheck(c)
  <2>1. {"tx_dropped", "no_position", "slippage_exceeded"} \subseteq OutcomeKinds
    BY DEF OutcomeKinds, RefusalReasons, Steps
  <2> QED
    BY <1>1, <1>4, <2>1 DEF RefusedAfterRecheck
<1>5. CASE SettleBuy(c)
  <2>1. PICK u \in Fills : Fill(c, holding[m] + u)
    BY <1>5 DEF SettleBuy
  <2>2. holding[m] + u \in Int /\ trades' \in Nat
    BY <1>0, <1>5, FillsAssumption DEF SettleBuy
  <2> QED
    BY <2>1, <2>2, FillType
<1>6. CASE SettleSell(c)
  <2>1. Fill(c, holding[m] - plan[c])
    BY <1>6 DEF SettleSell
  <2>2. holding[m] - plan[c] \in Int /\ trades' \in Nat
    BY <1>0, <1>6 DEF SettleSell
  <2> QED
    BY <2>1, <2>2, FillType
<1> QED
  BY <1>2, <1>3, <1>4, <1>5, <1>6 DEF Confirm

LEMMA DeskType ==
  ASSUME TypeOK, Desk \/ ClearKill
  PROVE  TypeOK'
<1>1. CASE EngageKill \/ SetHalt \/ ClearHalt \/ ClearKill
  BY <1>1, ForgetType
  DEF EngageKill, SetHalt, ClearHalt, ClearKill, Elsewhere, TypeOK, calls
<1>2. CASE DayRollover \/ OtherRow
  BY <1>2, ForgetType DEF DayRollover, OtherRow, Elsewhere, TypeOK, calls, ledger
<1>3. CASE MirrorLatches
  BY <1>3 DEF MirrorLatches, TypeOK, calls, ledger
<1>4. CASE \E m \in Mints : ForceClose(m)
  BY <1>4, ForgetType DEF ForceClose, Elsewhere, TypeOK, calls
<1> QED
  BY <1>1, <1>2, <1>3, <1>4 DEF Desk

LEMMA NextType ==
  ASSUME TypeOK, [Next]_vars
  PROVE  TypeOK'
<1>1. ASSUME NEW c \in Calls, CallStep(c)
      PROVE  TypeOK'
  <2>1. CASE Cancel(c)
    BY <2>1 DEF Cancel, TypeOK, calls, ledger
  <2>2. CASE PlaceRaises(c)
    <3>1. CallsType(pc', plan', result', inflight')
      BY <2>2, FinishType DEF PlaceRaises, Results
    <3> QED
      BY <2>2, <3>1 DEF PlaceRaises, TypeOK, CallsType, Results, ledger
  <2> QED
    BY <1>1, <2>1, <2>2, PlaceType, LatencyType, ConfirmType DEF CallStep
<1>2. CASE Restart
  <2>1. CallsType(pc', plan', result', inflight')
    BY <1>2 DEF Restart, CallsType, TypeOK, Results
  <2> QED
    BY <1>2, <2>1, ForgetType DEF Restart, TypeOK, CallsType, Results, ledger
<1>3. CASE UNCHANGED vars
  BY <1>3 DEF vars, TypeOK
<1> QED
  BY <1>1, <1>2, <1>3, DeskType DEF Next

\* Every reachable state of the order lifecycle is well typed.
THEOREM TypeCorrect == Spec => []TypeOK
BY InitType, NextType, PTL DEF Spec

-----------------------------------------------------------------------------
InFlight == {"latency", "confirming"}

-----------------------------------------------------------------------------
(* The inductive invariant *)

\* A call in flight wrote its order and has no outcome row yet.
Written ==
  \A c \in Calls : pc[c] \in InFlight =>
    placedBy[OrderOf[c]] = c /\ outcomes[c] = {}

\* Outcome rows name order ids that an OrderPlaced row introduced.
Owned == \A c \in Calls : outcomes[c] # {} => placedBy[OrderOf[c]] = c

OneRow == \A c \in Calls : \A r, s \in outcomes[c] : r = s

\* A written order that carries a human approval consumed it.
Paid ==
  \A o \in Orders : placedBy[o] # NoCall /\ ApprovalOf[o] \in Approvals =>
    ApprovalOf[o] \in consumed

IInv == /\ TypeOK
        /\ BarrierExact
        /\ Written
        /\ Owned
        /\ OneRow
        /\ Paid
        /\ ApprovalSingleUse
        /\ ReplayTruthful

-----------------------------------------------------------------------------
(* What a step does to the order rows and to the barrier *)

Quiet ==
  /\ UNCHANGED <<placedBy, outcomes, consumed, inflight, result>>
  /\ \A c \in Calls : pc[c] \in InFlight <=> pc'[c] \in InFlight

\* A call ends without a row of its own: refused unplaced, a repeat, or lost.
Ends(c, r) ==
  /\ Finish(c, r)
  /\ UNCHANGED <<placedBy, outcomes, consumed>>
  /\ r = "fill" => /\ placedBy[OrderOf[c]] # NoCall
                   /\ "fill" \in outcomes[placedBy[OrderOf[c]]]

\* A call in flight ends with its outcome row.
Records(c, r) ==
  /\ pc[c] \in InFlight
  /\ Finish(c, r)
  /\ outcomes' = [outcomes EXCEPT ![c] = @ \cup {r}]
  /\ UNCHANGED <<placedBy, consumed>>

Writes(c) ==
  /\ pc[c] = "deciding"
  /\ "pass" \in Decide(OrderOf[c])
  /\ placedBy[OrderOf[c]] = NoCall
  /\ ApprovalOf[OrderOf[c]] \notin consumed
  /\ WriteOrder(c, {ApprovalOf[OrderOf[c]]} \ {NoApproval})

RowStep ==
  \/ Quiet
  \/ \E c \in Calls : \E r \in Results : Ends(c, r) \/ Records(c, r)
  \/ \E c \in Calls : Writes(c)
  \/ Restart

LEMMA FillIsNoRefusal ==
  /\ "fill" \notin RefusalReasons
  /\ RefusalReasons \subseteq Results
BY DEF RefusalReasons, Steps, Results, OutcomeKinds

LEMMA RefusalEnds ==
  ASSUME NEW c \in Calls, NEW r \in RefusalReasons, NEW d, RefuseUnplaced(c, r, d)
  PROVE  Ends(c, r)
BY FillIsNoRefusal DEF RefuseUnplaced, Ends

\* What a repeat is answered is what the ledger stores.
LEMMA RepeatEnds ==
  ASSUME TypeOK, NEW c \in Calls, placedBy[OrderOf[c]] # NoCall,
         NEW r \in StoredOutcomes(OrderOf[c]), Finish(c, r),
         UNCHANGED <<placedBy, outcomes, consumed>>
  PROVE  r \in Results /\ Ends(c, r)
<1>1. OrderOf[c] \in Orders
  BY OrdersAssumption
<1>2. r \in Results
  BY <1>1, StoredType
<1>3. r = "fill" => "fill" \in outcomes[placedBy[OrderOf[c]]]
  BY DEF StoredOutcomes
<1> QED
  BY <1>2, <1>3 DEF Ends

LEMMA PlaceRowStep ==
  ASSUME TypeOK, NEW c \in Calls, Place(c)
  PROVE  RowStep
<1> DEFINE o == OrderOf[c]
<1>0. o \in Orders
  BY OrdersAssumption
<1>1. CASE PlaceRepeat(c)
  BY <1>1, RepeatEnds DEF PlaceRepeat, RowStep, ledger
<1>2. CASE PlaceRefused(c)
  <2>1. PICK v \in Decide(o) \ {"pass"} : RefuseUnplaced(c, v, [cache EXCEPT ![o] = v])
    BY <1>2 DEF PlaceRefused
  <2>2. v \in RefusalReasons
    BY <1>0, <2>1, DecideType DEF Verdict, RefusalReasons
  <2> QED
    BY <2>1, <2>2, RefusalEnds, FillIsNoRefusal DEF RowStep
<1>3. CASE PlaceAdmitted(c)
  <2>1. \A d \in Calls : pc[d] \in InFlight <=> pc'[d] \in InFlight
    BY <1>3 DEF PlaceAdmitted, InFlight, TypeOK
  <2> QED
    BY <1>3, <2>1 DEF PlaceAdmitted, RowStep, Quiet, ledger
<1>4. CASE RefusedAtCurve(c)
  <2>1. {"no_reserves", "no_position"} \subseteq RefusalReasons
    BY DEF RefusalReasons, Steps
  <2> QED
    BY <1>4, <2>1, RefusalEnds, FillIsNoRefusal DEF RefusedAtCurve, RowStep
<1>5. CASE SubmitRefused(c)
  <2>1. PICK v \in Decide(o) :
          LET lost == v = "pass" /\ ApprovalOf[o] \in consumed /\ placedBy[o] = NoCall
          IN /\ v # "pass" \/ lost
             /\ RefuseUnplaced(c, IF lost THEN "approval_missing" ELSE v,
                               [cache EXCEPT ![o] = v])
    BY <1>5 DEF SubmitRefused
  <2>2. v \in Verdict
    BY <1>0, DecideType
  <2>3. "approval_missing" \in RefusalReasons
    BY DEF RefusalReasons, Steps
  <2>4. v # "pass" => v \in RefusalReasons
    BY <2>2 DEF Verdict, RefusalReasons
  <2>5. PICK r \in RefusalReasons : RefuseUnplaced(c, r, [cache EXCEPT ![o] = v])
    BY <2>1, <2>3, <2>4
  <2> QED
    BY <2>5, RefusalEnds, FillIsNoRefusal DEF RowStep
<1>6. CASE SubmitRepeat(c)
  BY <1>6, RepeatEnds DEF SubmitRepeat, RowStep, ledger
<1>7. CASE Submit(c)
  BY <1>7 DEF Submit, ReachesBatch, Writes, RowStep
<1> QED
  BY <1>1, <1>2, <1>3, <1>4, <1>5, <1>6, <1>7 DEF Place

LEMMA RejectRecords ==
  ASSUME NEW c \in Calls, NEW r \in OutcomeKinds, pc[c] \in InFlight,
         RejectPlaced(c, r)
  PROVE  RowStep
BY DEF RejectPlaced, Records, RowStep, Results

LEMMA LatencyRowStep ==
  ASSUME TypeOK, NEW c \in Calls, Latency(c)
  PROVE  RowStep
<1>0. /\ {"cancelled", "confirmation_timeout"} \subseteq OutcomeKinds
      /\ pc[c] \in InFlight
  BY DEF OutcomeKinds, InFlight, Latency, LatencySlept, CancelledInLatency, LatencyTimedOut
<1>1. CASE LatencySlept(c)
  <2>1. \A d \in Calls : pc[d] \in InFlight <=> pc'[d] \in InFlight
    BY <1>1 DEF LatencySlept, InFlight, TypeOK
  <2> QED
    BY <1>1, <2>1 DEF LatencySlept, RowStep, Quiet, ledger
<1>2. CASE CancelledInLatency(c) \/ LatencyTimedOut(c)
  BY <1>0, <1>2, RejectRecords DEF CancelledInLatency, LatencyTimedOut
<1> QED
  BY <1>1, <1>2 DEF Latency

LEMMA ConfirmRowStep ==
  ASSUME TypeOK, NEW c \in Calls, Confirm(c)
  PROVE  RowStep
<1>0. pc[c] \in InFlight
  BY DEF InFlight, Confirm, RefusedAtConfirmCurve, RefusedAtRecheck,
         RefusedAfterRecheck, SettleBuy, SettleSell
<1>1. CASE RefusedAtConfirmCurve(c)
  <2>1. "no_reserves" \in OutcomeKinds
    BY DEF OutcomeKinds, RefusalReasons
  <2> QED
    BY <1>0, <1>1, <2>1, RejectRecords DEF RefusedAtConfirmCurve
<1>2. CASE RefusedAtRecheck(c)
  <2>1. PICK v \in Recheck(c) \ {"pass"} : RejectPlaced(c, v)
    BY <1>2 DEF RefusedAtRecheck
  <2>2. v \in OutcomeKinds
    BY <2>1, RecheckType DEF Verdict, OutcomeKinds, RefusalReasons
  <2> QED
    BY <1>0, <2>1, <2>2, RejectRecords
<1>3. CASE RefusedAfterRecheck(c)
  <2>1. {"tx_dropped", "no_position", "slippage_exceeded"} \subseteq OutcomeKinds
    BY DEF OutcomeKinds, RefusalReasons, Steps
  <2> QED
    BY <1>0, <1>3, <2>1, RejectRecords DEF RefusedAfterRecheck
<1>4. CASE SettleBuy(c) \/ SettleSell(c)
  <2>1. PICK n : Fill(c, n)
    BY <1>4 DEF SettleBuy, SettleSell
  <2>2. Records(c, "fill") /\ "fill" \in Results
    BY <1>0, <2>1 DEF Fill, Records, Results, OutcomeKinds
  <2> QED
    BY <2>2 DEF RowStep
<1> QED
  BY <1>1, <1>2, <1>3, <1>4 DEF Confirm

\* Every step is of one of the five kinds.
LEMMA RowSteps ==
  ASSUME TypeOK, [Next]_vars
  PROVE  RowStep
<1>1. ASSUME NEW c \in Calls, CallStep(c)
      PROVE  RowStep
  <2>1. CASE Cancel(c)
    BY <2>1 DEF Cancel, RowStep, Quiet, ledger, calls
  <2>2. CASE PlaceRaises(c)
    <3>1. "lost" \in Results /\ Ends(c, "lost")
      BY <2>2 DEF PlaceRaises, Ends, Results, ledger
    <3> QED
      BY <3>1 DEF RowStep
  <2> QED
    BY <1>1, <2>1, <2>2, PlaceRowStep, LatencyRowStep, ConfirmRowStep DEF CallStep
<1>2. CASE Desk \/ ClearKill
  <2>1. CASE MirrorLatches
    BY <2>1 DEF MirrorLatches, RowStep, Quiet, ledger, calls
  <2>2. CASE OtherRow
    BY <2>2 DEF OtherRow, Elsewhere, RowStep, Quiet, ledger, calls
  <2>3. CASE EngageKill \/ ClearKill \/ SetHalt \/ ClearHalt \/ DayRollover
    BY <2>3 DEF EngageKill, ClearKill, SetHalt, ClearHalt, DayRollover, Elsewhere,
                RowStep, Quiet, calls
  <2>4. CASE \E m \in Mints : ForceClose(m)
    BY <2>4 DEF ForceClose, Elsewhere, RowStep, Quiet, calls
  <2> QED
    BY <1>2, <2>1, <2>2, <2>3, <2>4 DEF Desk
<1>3. CASE Restart
  BY <1>3 DEF RowStep
<1>4. CASE UNCHANGED vars
  BY <1>4 DEF vars, RowStep, Quiet
<1> QED
  BY <1>1, <1>2, <1>3, <1>4 DEF Next

-----------------------------------------------------------------------------
(* The invariant is inductive *)

LEMMA InitIInv == Init => IInv
<1> SUFFICES ASSUME Init PROVE IInv
  OBVIOUS
<1>1. TypeOK
  BY InitType
<1>2. BarrierExact /\ Written
  BY DEF Init, BarrierExact, Written, InFlight
<1>3. Owned /\ OneRow /\ ReplayTruthful
  BY DEF Init, Owned, OneRow, ReplayTruthful
<1>4. Paid /\ ApprovalSingleUse
  BY DEF Init, Paid, ApprovalSingleUse
<1> QED
  BY <1>1, <1>2, <1>3, <1>4 DEF IInv

LEMMA QuietIInv ==
  ASSUME IInv, TypeOK', Quiet
  PROVE  IInv'
<1>1. BarrierExact'
  BY DEF IInv, BarrierExact, Quiet, InFlight
<1>2. Written' /\ Owned' /\ OneRow' /\ ReplayTruthful'
  BY DEF IInv, Written, Owned, OneRow, ReplayTruthful, Quiet
<1>3. Paid' /\ ApprovalSingleUse'
  BY DEF IInv, Paid, ApprovalSingleUse, Quiet
<1> QED
  BY <1>1, <1>2, <1>3 DEF IInv

\* The end of a call takes it, and no other call, out of the barrier.
LEMMA FinishBarrier ==
  ASSUME TypeOK, BarrierExact, NEW c \in Calls, NEW r, Finish(c, r)
  PROVE  /\ BarrierExact'
         /\ \A d \in Calls : pc'[d] \in InFlight => d # c /\ pc[d] \in InFlight
         /\ \A d \in Calls : d # c => result'[d] = result[d]
         /\ result'[c] = r
BY DEF TypeOK, BarrierExact, Finish, InFlight

LEMMA EndsIInv ==
  ASSUME IInv, TypeOK', NEW c \in Calls, NEW r \in Results, Ends(c, r)
  PROVE  IInv'
<1>0. /\ BarrierExact'
      /\ \A d \in Calls : pc'[d] \in InFlight => pc[d] \in InFlight
      /\ \A d \in Calls : d # c => result'[d] = result[d]
      /\ result'[c] = r
  BY FinishBarrier DEF IInv, Ends
<1>1. Written'
  BY <1>0 DEF IInv, Written, Ends
<1>2. Owned' /\ OneRow' /\ Paid' /\ ApprovalSingleUse'
  BY DEF IInv, Owned, OneRow, Paid, ApprovalSingleUse, Ends
<1>3. ReplayTruthful'
  <2> SUFFICES ASSUME NEW d \in Calls, result'[d] = "fill"
               PROVE  placedBy[OrderOf[d]] # NoCall /\ "fill" \in outcomes[placedBy[OrderOf[d]]]
    BY DEF ReplayTruthful, Ends
  <2>1. CASE d = c
    BY <1>0, <2>1 DEF Ends
  <2>2. CASE d # c
    BY <1>0, <2>2 DEF IInv, ReplayTruthful
  <2> QED
    BY <2>1, <2>2
<1> QED
  BY <1>0, <1>1, <1>2, <1>3 DEF IInv

LEMMA RecordsIInv ==
  ASSUME IInv, TypeOK', NEW c \in Calls, NEW r \in Results, Records(c, r)
  PROVE  IInv'
<1>0. /\ BarrierExact'
      /\ \A d \in Calls : pc'[d] \in InFlight => d # c /\ pc[d] \in InFlight
      /\ \A d \in Calls : d # c => result'[d] = result[d]
      /\ result'[c] = r
  BY FinishBarrier DEF IInv, Records
<1>1. placedBy[OrderOf[c]] = c /\ outcomes[c] = {}
  BY DEF IInv, Written, Records
<1>2. /\ \A d \in Calls : d # c => outcomes'[d] = outcomes[d]
      /\ outcomes'[c] = {r}
      /\ \A d \in Calls : outcomes[d] \subseteq outcomes'[d]
  BY <1>1 DEF IInv, TypeOK, Records
<1>3. Written'
  BY <1>0, <1>2 DEF IInv, Written, Records
<1>4. Owned' /\ OneRow'
  BY <1>1, <1>2 DEF IInv, Owned, OneRow, Records
<1>5. Paid' /\ ApprovalSingleUse'
  BY DEF IInv, Paid, ApprovalSingleUse, Records
<1>6. ReplayTruthful'
  <2> SUFFICES ASSUME NEW d \in Calls, result'[d] = "fill"
               PROVE  placedBy[OrderOf[d]] # NoCall /\ "fill" \in outcomes'[placedBy[OrderOf[d]]]
    BY DEF ReplayTruthful, Records
  <2>1. CASE d = c
    BY <1>0, <1>1, <1>2, <2>1, CallsAssumption
  <2>2. CASE d # c
    <3>1. placedBy[OrderOf[d]] # NoCall /\ "fill" \in outcomes[placedBy[OrderOf[d]]]
      BY <1>0, <2>2 DEF IInv, ReplayTruthful
    <3>2. placedBy[OrderOf[d]] \in Calls
      BY <3>1, OrdersAssumption DEF IInv, TypeOK
    <3> QED
      BY <1>2, <3>1, <3>2
  <2> QED
    BY <2>1, <2>2
<1> QED
  BY <1>0, <1>3, <1>4, <1>5, <1>6 DEF IInv

LEMMA WritesIInv ==
  ASSUME IInv, TypeOK', NEW c \in Calls, Writes(c)
  PROVE  IInv'
<1> DEFINE o == OrderOf[c]
<1>0. /\ o \in Orders
      /\ \A d \in Calls : OrderOf[d] \in Orders
      /\ ApprovalOf \in [Orders -> Approvals \cup {NoApproval}]
  BY OrdersAssumption
<1>1. /\ placedBy'[o] = c
      /\ \A p \in Orders : p # o => placedBy'[p] = placedBy[p]
      /\ UNCHANGED <<outcomes, result>>
      /\ consumed' = consumed \cup ({ApprovalOf[o]} \ {NoApproval})
      /\ inflight' = inflight \cup {c}
      /\ pc' = [pc EXCEPT ![c] = "latency"]
  BY <1>0 DEF IInv, TypeOK, Writes, WriteOrder
<1>2. placedBy[o] = NoCall /\ ApprovalOf[o] \notin consumed
  BY DEF Writes
<1>3. \A d \in Calls : OrderOf[d] = o => pc[d] \notin InFlight /\ outcomes[d] = {}
  BY <1>2, CallsAssumption DEF IInv, Written, Owned
<1>4. \A d \in Calls : d # c /\ pc'[d] \in InFlight => OrderOf[d] # o /\ pc[d] \in InFlight
  BY <1>1, <1>3 DEF IInv, TypeOK
<1>5. BarrierExact'
  BY <1>1 DEF IInv, TypeOK, BarrierExact
<1>6. Written'
  <2> SUFFICES ASSUME NEW d \in Calls, pc'[d] \in InFlight
               PROVE  placedBy'[OrderOf[d]] = d /\ outcomes'[d] = {}
    BY DEF Written
  <2>1. CASE d = c
    BY <1>1, <1>3, <2>1
  <2>2. CASE d # c
    BY <1>0, <1>1, <1>4, <2>2 DEF IInv, Written
  <2> QED
    BY <2>1, <2>2
<1>7. Owned' /\ OneRow'
  BY <1>0, <1>1, <1>3 DEF IInv, Owned, OneRow
<1>8. Paid'
  BY <1>0, <1>1, NoneAssumption DEF IInv, Paid
<1>9. ApprovalSingleUse'
  <2> SUFFICES ASSUME NEW p \in Orders, NEW q \in Orders, p # q,
                      ApprovalOf[p] = ApprovalOf[q], ApprovalOf[p] \in Approvals,
                      placedBy'[p] # NoCall, placedBy'[q] # NoCall
               PROVE  FALSE
    BY DEF ApprovalSingleUse
  <2>1. CASE p # o /\ q # o
    BY <1>1, <2>1 DEF IInv, ApprovalSingleUse
  <2>2. CASE p = o \/ q = o
    <3>1. PICK x \in {p, q} : x # o
      BY <2>2
    <3>2. placedBy[x] # NoCall /\ ApprovalOf[x] = ApprovalOf[o] /\ ApprovalOf[x] \in Approvals
      BY <1>1, <2>2, <3>1
    <3> QED
      BY <1>2, <3>2 DEF IInv, Paid
  <2> QED
    BY <2>1, <2>2
<1>10. ReplayTruthful'
  BY <1>0, <1>1, <1>2, CallsAssumption DEF IInv, ReplayTruthful
<1> QED
  BY <1>5, <1>6, <1>7, <1>8, <1>9, <1>10 DEF IInv

LEMMA RestartIInv ==
  ASSUME IInv, TypeOK', Restart
  PROVE  IInv'
<1>1. \A c \in Calls : pc'[c] \notin InFlight
  BY DEF IInv, TypeOK, Restart, InFlight
<1>2. BarrierExact'
  BY <1>1 DEF Restart, BarrierExact, InFlight
<1>3. Written'
  BY <1>1 DEF Written
<1>4. Owned' /\ OneRow' /\ Paid' /\ ApprovalSingleUse'
  BY DEF IInv, Owned, OneRow, Paid, ApprovalSingleUse, Restart, ledger
<1>5. ReplayTruthful'
  <2>1. \A c \in Calls : result'[c] = "fill" => result[c] = "fill"
    BY DEF Restart
  <2> QED
    BY <2>1 DEF IInv, ReplayTruthful, Restart, ledger
<1> QED
  BY <1>2, <1>3, <1>4, <1>5 DEF IInv

LEMMA NextIInv ==
  ASSUME IInv, [Next]_vars
  PROVE  IInv'
<1>1. TypeOK' /\ RowStep
  BY NextType, RowSteps DEF IInv
<1> QED
  BY <1>1, QuietIInv, EndsIInv, RecordsIInv, WritesIInv, RestartIInv DEF RowStep

LEMMA Inductive == Spec => []IInv
BY InitIInv, NextIInv, PTL DEF Spec

-----------------------------------------------------------------------------
(* The order rows: what follows from it *)

\* The in-flight barrier is exactly the orders between their OrderPlaced row and
\* their end (_InflightOrders, place's finally).
THEOREM BarrierIsExact == Spec => []BarrierExact
BY Inductive, PTL DEF IInv

\* Only the call that wrote an order's row is in flight for it or records its
\* outcome: a decision is sent once (_repeat_outcome, the UNIQUE key).
THEOREM SendsOnce == Spec => []SingleSend
<1>1. IInv => SingleSend
  BY DEF IInv, BarrierExact, Written, Owned, InFlight, SingleSend
<1> QED
  BY <1>1, Inductive, PTL

\* A written order gets at most one FillRecorded or OrderRejected row.
THEOREM EndsOnce == Spec => []OneOutcome
<1>1. IInv => OneOutcome
  <2> SUFFICES ASSUME IInv, NEW c \in Calls
               PROVE  Cardinality(outcomes[c]) <= 1
    BY DEF OneOutcome
  <2>1. CASE outcomes[c] = {}
    BY <2>1, FS_EmptySet
  <2>2. CASE outcomes[c] # {}
    <3>1. PICK r : r \in outcomes[c]
      BY <2>2
    <3>2. outcomes[c] = {r}
      BY <3>1 DEF IInv, OneRow
    <3> QED
      BY <3>2, FS_Singleton
  <2> QED
    BY <2>1, <2>2
<1> QED
  BY <1>1, Inductive, PTL

\* Two decisions never both spend one human approval (the consume row's key).
THEOREM ApprovalsSingleUse == Spec => []ApprovalSingleUse
BY Inductive, PTL DEF IInv

\* A caller told of a fill is told of one the ledger holds (_repeat_outcome).
THEOREM ReplaysTruthful == Spec => []ReplayTruthful
BY Inductive, PTL DEF IInv

-----------------------------------------------------------------------------
(* What a step does to the holdings *)

\* A buy whose CONFIRMING check passes adds units of its mint.
Buys(c, u) ==
  /\ IsBuy(OrderOf[c]) /\ "pass" \in Recheck(c)
  /\ holding' = [holding EXCEPT ![MintOf[OrderOf[c]]] = @ + u]

\* A sell or a forced close leaves part of one holding.
Sells(m, n) ==
  /\ n <= holding[m]
  /\ holding[m] >= 0 => n >= 0
  /\ holding' = [holding EXCEPT ![m] = n]

HoldingStep ==
  \/ UNCHANGED holding
  \/ \E c \in Calls : \E u \in Fills : Buys(c, u)
  \/ \E m \in Mints : \E n \in Int : Sells(m, n)

LEMMA PlaceHolds ==
  ASSUME NEW c \in Calls, Place(c)
  PROVE  UNCHANGED holding
<1>1. \A r, d : RefuseUnplaced(c, r, d) => UNCHANGED holding
  BY DEF RefuseUnplaced
<1>2. CASE PlaceRefused(c) \/ RefusedAtCurve(c) \/ SubmitRefused(c)
  BY <1>1, <1>2 DEF PlaceRefused, RefusedAtCurve, SubmitRefused
<1>3. CASE PlaceRepeat(c) \/ PlaceAdmitted(c) \/ SubmitRepeat(c)
  BY <1>3 DEF PlaceRepeat, PlaceAdmitted, SubmitRepeat, ledger
<1>4. CASE Submit(c)
  BY <1>4 DEF Submit, WriteOrder
<1> QED
  BY <1>2, <1>3, <1>4 DEF Place

LEMMA ConfirmHolds ==
  ASSUME TypeOK, NEW c \in Calls, Confirm(c)
  PROVE  HoldingStep
<1> DEFINE m == MintOf[OrderOf[c]]
<1>0. m \in Mints /\ holding[m] \in Int /\ plan[c] \in Nat
  BY OrdersAssumption DEF TypeOK
<1>1. CASE RefusedAtConfirmCurve(c) \/ RefusedAtRecheck(c) \/ RefusedAfterRecheck(c)
  <2>1. PICK r : RejectPlaced(c, r)
    BY <1>1 DEF RefusedAtConfirmCurve, RefusedAtRecheck, RefusedAfterRecheck
  <2> QED
    BY <2>1 DEF RejectPlaced, HoldingStep
<1>2. CASE SettleBuy(c)
  <2>1. PICK u \in Fills : Fill(c, holding[m] + u)
    BY <1>2 DEF SettleBuy
  <2>2. Buys(c, u)
    BY <1>2, <2>1 DEF SettleBuy, Fill, Buys
  <2> QED
    BY <2>2 DEF HoldingStep
<1>3. CASE SettleSell(c)
  <2>1. Fill(c, holding[m] - plan[c]) /\ plan[c] <= holding[m]
    BY <1>3 DEF SettleSell, Fits
  <2>2. Sells(m, holding[m] - plan[c]) /\ holding[m] - plan[c] \in Int
    BY <1>0, <2>1 DEF Fill, Sells
  <2> QED
    BY <1>0, <2>2 DEF HoldingStep
<1> QED
  BY <1>1, <1>2, <1>3 DEF Confirm

\* Every step leaves the holdings alone, buys, or sells.
LEMMA HoldingSteps ==
  ASSUME TypeOK, [Next]_vars
  PROVE  HoldingStep
<1>1. ASSUME NEW c \in Calls, CallStep(c)
      PROVE  HoldingStep
  <2>1. CASE Place(c)
    BY <2>1, PlaceHolds DEF HoldingStep
  <2>2. CASE Latency(c)
    BY <2>2 DEF Latency, LatencySlept, CancelledInLatency, LatencyTimedOut,
                RejectPlaced, HoldingStep, ledger
  <2>3. CASE Cancel(c) \/ PlaceRaises(c)
    BY <2>3 DEF Cancel, PlaceRaises, HoldingStep, ledger
  <2> QED
    BY <1>1, <2>1, <2>2, <2>3, ConfirmHolds DEF CallStep
<1>2. CASE Desk \/ ClearKill
  <2>1. CASE \E m \in Mints : ForceClose(m)
    <3>1. PICK m \in Mints : ForceClose(m)
      BY <2>1
    <3>2. Sells(m, 0)
      BY <3>1 DEF ForceClose, Sells, TypeOK
    <3> QED
      BY <3>2 DEF HoldingStep
  <2>2. CASE OtherRow \/ MirrorLatches
    BY <2>2 DEF OtherRow, MirrorLatches, HoldingStep, ledger
  <2>3. CASE EngageKill \/ ClearKill \/ SetHalt \/ ClearHalt \/ DayRollover
    BY <2>3 DEF EngageKill, ClearKill, SetHalt, ClearHalt, DayRollover, HoldingStep
  <2> QED
    BY <1>2, <2>1, <2>2, <2>3 DEF Desk
<1>3. CASE Restart \/ UNCHANGED vars
  BY <1>3 DEF Restart, HoldingStep, ledger, vars
<1> QED
  BY <1>1, <1>2, <1>3 DEF Next

\* A step that raises a holding is a buy, of that mint.
LEMMA RaiseIsBuy ==
  ASSUME TypeOK, [Next]_vars, NEW m \in Mints, holding'[m] > holding[m]
  PROVE  \E c \in Calls : /\ IsBuy(OrderOf[c]) /\ "pass" \in Recheck(c)
                          /\ m = MintOf[OrderOf[c]]
<1>1. HoldingStep
  BY HoldingSteps
<1>2. holding \in [Mints -> Int]
  BY DEF TypeOK
<1>3. CASE UNCHANGED holding
  BY <1>2, <1>3
<1>4. CASE \E c \in Calls : \E u \in Fills : Buys(c, u)
  BY <1>2, <1>4 DEF Buys
<1>5. CASE \E n \in Mints : \E k \in Int : Sells(n, k)
  BY <1>2, <1>5 DEF Sells
<1> QED
  BY <1>1, <1>3, <1>4, <1>5 DEF HoldingStep

-----------------------------------------------------------------------------
(* Holdings *)

\* No interleaving of sells, flattens and crashes sells what is not held.
THEOREM NeverOversells == Spec => []NoOversell
<1>1. Init => NoOversell
  BY DEF Init, NoOversell
<1>2. ASSUME TypeOK, NoOversell, [Next]_vars
      PROVE  NoOversell'
  <2>1. HoldingStep /\ holding \in [Mints -> Int]
    BY <1>2, HoldingSteps DEF TypeOK
  <2>2. CASE UNCHANGED holding
    BY <1>2, <2>2 DEF NoOversell
  <2>3. CASE \E c \in Calls : \E u \in Fills : Buys(c, u)
    BY <1>2, <2>1, <2>3, FillsAssumption DEF NoOversell, Buys
  <2>4. CASE \E m \in Mints : \E n \in Int : Sells(m, n)
    BY <1>2, <2>1, <2>4 DEF NoOversell, Sells
  <2> QED
    BY <2>1, <2>2, <2>3, <2>4 DEF HoldingStep
<1> QED
  BY <1>1, <1>2, TypeCorrect, PTL DEF Spec

\* What a step does to the set of open mints: nothing new, or the mint of a buy
\* whose CONFIRMING check passed in this very step.
LEMMA OpenMintsStep ==
  ASSUME TypeOK, [Next]_vars
  PROVE  \/ OpenMints' \subseteq OpenMints
         \/ \E c \in Calls : /\ IsBuy(OrderOf[c]) /\ "pass" \in Recheck(c)
                             /\ OpenMints' \subseteq OpenMints \cup {MintOf[OrderOf[c]]}
<1>1. HoldingStep /\ holding \in [Mints -> Int]
  BY HoldingSteps DEF TypeOK
<1>2. CASE UNCHANGED holding
  BY <1>2 DEF OpenMints
<1>3. CASE \E c \in Calls : \E u \in Fills : Buys(c, u)
  <2>1. PICK c \in Calls, u \in Fills : Buys(c, u)
    BY <1>3
  <2>2. OpenMints' \subseteq OpenMints \cup {MintOf[OrderOf[c]]}
    BY <1>1, <2>1 DEF Buys, OpenMints
  <2> QED
    BY <2>1, <2>2 DEF Buys
<1>4. CASE \E m \in Mints : \E n \in Int : Sells(m, n)
  <2>1. OpenMints' \subseteq OpenMints
    BY <1>1, <1>4 DEF Sells, OpenMints
  <2> QED
    BY <2>1
<1> QED
  BY <1>1, <1>2, <1>3, <1>4 DEF HoldingStep

\* Buys that sleep side by side never open more than max_open_positions: the
\* CONFIRMING check and the fill are one step.
THEOREM OpenPositionsAreBounded == Spec => []OpenPositionsBounded
<1>0. \A S : S \subseteq OpenMints => IsFiniteSet(OpenMints) /\ IsFiniteSet(S)
  BY MintsAssumption, FS_Subset DEF OpenMints
<1>1. Init => OpenPositionsBounded
  <2> SUFFICES ASSUME Init PROVE OpenPositionsBounded
    OBVIOUS
  <2>1. OpenMints = {}
    BY DEF Init, OpenMints
  <2> QED
    BY <2>1, FS_EmptySet, LimitsAssumption DEF OpenPositionsBounded
<1>2. ASSUME TypeOK, OpenPositionsBounded, [Next]_vars
      PROVE  OpenPositionsBounded'
  <2>1. IsFiniteSet(OpenMints) /\ Cardinality(OpenMints) \in Nat
    BY <1>0, FS_CardinalityType
  <2>2. CASE OpenMints' \subseteq OpenMints
    <3>1. Cardinality(OpenMints') <= Cardinality(OpenMints) /\ Cardinality(OpenMints') \in Nat
      BY <2>1, <2>2, FS_Subset, FS_CardinalityType
    <3> QED
      BY <1>2, <2>1, <3>1, LimitsAssumption DEF OpenPositionsBounded
  <2>3. ASSUME NEW c \in Calls, IsBuy(OrderOf[c]), "pass" \in Recheck(c),
               OpenMints' \subseteq OpenMints \cup {MintOf[OrderOf[c]]}
        PROVE  OpenPositionsBounded'
    <3> DEFINE T == OpenMints \cup {MintOf[OrderOf[c]]}
    <3>1. ~(Cardinality(OpenMints) >= MaxOpen)
      BY <2>3, BuyRecheckPassed
    <3>2. IsFiniteSet(T) /\ Cardinality(T) \in Nat /\ Cardinality(T) <= Cardinality(OpenMints) + 1
      <4>1. /\ IsFiniteSet(T)
            /\ \/ Cardinality(T) = Cardinality(OpenMints)
               \/ Cardinality(T) = Cardinality(OpenMints) + 1
        BY <2>1, FS_AddElement
      <4>2. Cardinality(T) \in Nat
        BY <4>1, FS_CardinalityType
      <4> QED
        BY <2>1, <4>1, <4>2
    <3>3. Cardinality(OpenMints') <= Cardinality(T) /\ Cardinality(OpenMints') \in Nat
      BY <2>3, <3>2, FS_Subset, FS_CardinalityType
    <3> QED
      BY <2>1, <3>1, <3>2, <3>3, LimitsAssumption DEF OpenPositionsBounded
  <2> QED
    BY <1>2, <2>2, <2>3, OpenMintsStep
<1> QED
  BY <1>1, <1>2, TypeCorrect, PTL DEF Spec

\* ... nor two positions of one known creator.
THEOREM CreatorsAreDistinct == Spec => []OneOpenPerCreator
<1>1. Init => OneOpenPerCreator
  BY DEF Init, OpenMints, OneOpenPerCreator
<1>2. ASSUME TypeOK, OneOpenPerCreator, [Next]_vars
      PROVE  OneOpenPerCreator'
  <2>1. CASE OpenMints' \subseteq OpenMints
    BY <1>2, <2>1 DEF OneOpenPerCreator, SameCreator
  <2>2. ASSUME NEW c \in Calls, IsBuy(OrderOf[c]), "pass" \in Recheck(c),
               OpenMints' \subseteq OpenMints \cup {MintOf[OrderOf[c]]}
        PROVE  OneOpenPerCreator'
    <3>1. \A m \in OpenMints : ~SameCreator(m, MintOf[OrderOf[c]])
      BY <2>2, BuyRecheckPassed
    <3> QED
      BY <1>2, <2>2, <3>1 DEF OneOpenPerCreator, SameCreator
  <2> QED
    BY <1>2, <2>1, <2>2, OpenMintsStep
<1> QED
  BY <1>1, <1>2, TypeCorrect, PTL DEF Spec

\* No order decided before the kill switch or a halt fills after it.
THEOREM StopGateAlwaysHolds == Spec => StopGateHolds
<1>1. ASSUME TypeOK, [Next]_vars
      PROVE  [\A m \in Mints : holding'[m] > holding[m] => ~halted /\ ~killed]_vars
  BY <1>1, RaiseIsBuy, BuyRecheckPassed
<1> QED
  BY <1>1, TypeCorrect, PTL DEF Spec, StopGateHolds

\* A buy never adds to a position that opened while it slept.
THEOREM NeverPyramids == Spec => NoPyramiding
<1>1. ASSUME TypeOK, NoOversell, [Next]_vars
      PROVE  [\A m \in Mints : holding'[m] > holding[m] => holding[m] = 0]_vars
  <2>1. ASSUME NEW m \in Mints, holding'[m] > holding[m]
        PROVE  holding[m] = 0
    <3>1. ~(holding[m] > 0)
      BY <1>1, <2>1, RaiseIsBuy, BuyRecheckPassed
    <3> QED
      BY <1>1, <3>1 DEF TypeOK, NoOversell
  <2> QED
    BY <2>1
<1> QED
  BY <1>1, TypeCorrect, NeverOversells, PTL DEF Spec, NoPyramiding

\* No buy fills behind a stop or into a position that opened while it slept.
THEOREM BuyGateAlwaysHolds == Spec => BuyGateHolds
  BY StopGateAlwaysHolds, NeverPyramids DEF BuyGateHolds

-----------------------------------------------------------------------------
(* The composition implements the order lifecycle *)

LEMMA RequestIsStep ==
  ASSUME NEW f \in Flattens, Request(f)
  PROVE  [Next]_vars
<1>0. killed' = TRUE /\ cache' = Forget /\ UNCHANGED <<orderVars, holding>>
  BY DEF Request
<1>1. CASE killed # TRUE
  <2>1. killed \in BOOLEAN => EngageKill
    BY <1>0, <1>1 DEF EngageKill, Elsewhere, orderVars, calls
  <2> QED
    BY <1>0, <1>1, <2>1 DEF Next, Desk, EngageKill, Elsewhere, orderVars, calls
<1>2. CASE killed = TRUE
  <2>1. CASE cache = Forget
    BY <1>0, <1>2, <2>1 DEF orderVars, calls, vars
  <2>2. CASE cache # Forget
    <3>1. OtherRow
      BY <1>0, <1>2, <2>2 DEF OtherRow, Elsewhere, orderVars, calls, ledger
    <3> QED
      BY <3>1 DEF Next, Desk
  <2> QED
    BY <2>1, <2>2
<1> QED
  BY <1>1, <1>2

LEMMA FlatStepIsStep ==
  ASSUME [FlatNext]_allVars
  PROVE  [Next]_vars
<1>1. CASE OrderStep
  BY <1>1 DEF OrderStep, Next
<1>2. CASE RestartAll \/ ClearAll
  BY <1>2 DEF RestartAll, ClearAll, Next
<1>3. ASSUME NEW f \in Flattens, FlattenStep(f)
      PROVE  [Next]_vars
  <2>1. CASE \E m \in Mints : CloseSells(f, m)
    BY <2>1 DEF CloseSells, Next, Desk
  <2>2. CASE ~\E m \in Mints : CloseSells(f, m)
    BY <1>3, <2>2 DEF FlattenStep, BarrierEmpty, BarrierTimeout, ListIntents, Report,
                      CloseGone, CloseFails
  <2> QED
    BY <2>1, <2>2
<1>4. CASE UNCHANGED allVars
  BY <1>4 DEF allVars
<1> QED
  BY <1>1, <1>2, <1>3, <1>4, RequestIsStep DEF FlatNext

\* A flatten changes the orders' state only by steps the order lifecycle allows,
\* so every safety theorem of PaperOrders holds while flattens run.
THEOREM FlattenImplementsOrders == FlatSpec => Spec
<1>1. FlatInit => Init
  BY DEF FlatInit
<1> QED
  BY <1>1, FlatStepIsStep, PTL DEF FlatSpec, Spec

-----------------------------------------------------------------------------
(* The inductive invariant of a flatten *)

\* While the switch a flatten requested stands, it is engaged.
SteadyIsKilled == steady # {} => killed

\* An open position is still to close, or was answered, while the switch stands.
Listed ==
  \A f \in steady : fpc[f] = "closing" =>
    OpenMints \subseteq todo[f] \cup missing[f] \cup failed[f]

\* No cached pass of an order the kill switch stops survives its engagement.
CacheStopped ==
  killed => \A o \in Orders : cache[o] = "pass" => ~IsBuy(o)

FInv == /\ TypeOK
        /\ FlatTypeOK
        /\ SteadyIsKilled
        /\ Listed
        /\ CacheStopped
        /\ FlattenTruthful
        /\ NoBuyBehindBarrier

LEMMA InitFInv == FlatInit => FInv
<1> SUFFICES ASSUME FlatInit PROVE FInv
  OBVIOUS
<1>1. TypeOK
  BY InitType DEF FlatInit
<1>2. FlatTypeOK
  BY DEF FlatInit, FlatTypeOK
<1>3. SteadyIsKilled /\ Listed /\ FlattenTruthful /\ NoBuyBehindBarrier
  BY DEF FlatInit, SteadyIsKilled, Listed, FlattenTruthful, NoBuyBehindBarrier
<1>4. CacheStopped
  BY DEF FlatInit, Init, CacheStopped
<1> QED
  BY <1>1, <1>2, <1>3, <1>4 DEF FInv

-----------------------------------------------------------------------------
(* What the engaged switch does to the orders *)

\* While the switch is engaged no position opens.
LEMMA KilledOpensNothing ==
  ASSUME TypeOK, killed, [Next]_vars
  PROVE  OpenMints' \subseteq OpenMints
BY OpenMintsStep, BuyRecheckPassed

\* A decision for a buy under the engaged switch is not a pass.
LEMMA KilledDecides ==
  ASSUME TypeOK, CacheStopped, killed, NEW o \in Orders, IsBuy(o)
  PROVE  "pass" \notin Decide(o)
<1>1. /\ AcceptedSteps(o) \in SUBSET Steps
      /\ "kill_switch" \in AcceptedSteps(o)
  BY DEF AcceptedSteps, SkippedFor, IsBuy, Steps
<1>2. Refuses("kill_switch", o)
  BY DEF Refuses
<1>3. "pass" \notin Verdicts(o, AcceptedSteps(o))
  BY <1>1, <1>2, PassMeans
<1> QED
  BY <1>3 DEF Decide, CacheStopped

\* A step that adds a buy to the barrier is taken while the switch is clear.
LEMMA KilledAdmitsNoBuy ==
  ASSUME TypeOK, CacheStopped, killed, [Next]_vars,
         NEW c \in Calls, c \in inflight', IsBuy(OrderOf[c])
  PROVE  c \in inflight
<1> SUFFICES ASSUME c \notin inflight PROVE FALSE
  OBVIOUS
<1>1. RowStep
  BY RowSteps
<1>2. CASE Quiet \/ Restart
  BY <1>2 DEF Quiet, Restart
<1>3. CASE \E d \in Calls : \E r \in Results : Ends(d, r) \/ Records(d, r)
  BY <1>3 DEF Ends, Records, Finish
<1>4. CASE \E d \in Calls : Writes(d)
  <2>1. Writes(c)
    BY <1>4 DEF Writes, WriteOrder
  <2> QED
    BY <2>1, KilledDecides, OrdersAssumption DEF Writes
<1> QED
  BY <1>1, <1>2, <1>3, <1>4 DEF RowStep

\* What a step does to the cached decisions.
CacheStep ==
  \/ cache' = Forget
  \/ UNCHANGED <<cache, killed>>
  \/ /\ UNCHANGED killed
     /\ \E o \in Orders : \E v \in Decide(o) : cache' = [cache EXCEPT ![o] = v]

LEMMA RefusalCacheStep ==
  ASSUME NEW c \in Calls, NEW r, NEW v \in Decide(OrderOf[c]),
         RefuseUnplaced(c, r, [cache EXCEPT ![OrderOf[c]] = v])
  PROVE  CacheStep
BY OrdersAssumption DEF RefuseUnplaced, CacheStep

LEMMA CacheSteps ==
  ASSUME [Next]_vars
  PROVE  CacheStep
<1>1. ASSUME NEW c \in Calls, Place(c)
      PROVE  CacheStep
  <2>0. OrderOf[c] \in Orders
    BY OrdersAssumption
  <2>1. CASE PlaceRefused(c) \/ SubmitRefused(c)
    BY <2>1, RefusalCacheStep DEF PlaceRefused, SubmitRefused
  <2>2. CASE RefusedAtCurve(c)
    BY <2>2 DEF RefusedAtCurve, RefuseUnplaced, CacheStep
  <2>3. CASE PlaceRepeat(c) \/ PlaceAdmitted(c) \/ SubmitRepeat(c)
    BY <2>0, <2>3 DEF PlaceRepeat, PlaceAdmitted, SubmitRepeat, CacheStep, ledger
  <2>4. CASE Submit(c)
    BY <2>4 DEF Submit, WriteOrder, CacheStep
  <2> QED
    BY <1>1, <2>1, <2>2, <2>3, <2>4 DEF Place
<1>2. ASSUME NEW c \in Calls, Latency(c) \/ Cancel(c) \/ PlaceRaises(c)
      PROVE  CacheStep
  BY <1>2 DEF Latency, LatencySlept, CancelledInLatency, LatencyTimedOut, RejectPlaced,
              Cancel, PlaceRaises, CacheStep, ledger
<1>3. ASSUME NEW c \in Calls, Confirm(c)
      PROVE  CacheStep
  BY <1>3 DEF Confirm, RefusedAtConfirmCurve, RefusedAtRecheck, RefusedAfterRecheck,
              SettleBuy, SettleSell, RejectPlaced, Fill, CacheStep
<1>4. CASE Desk \/ ClearKill
  BY <1>4 DEF Desk, EngageKill, ClearKill, SetHalt, ClearHalt, DayRollover, OtherRow,
              MirrorLatches, ForceClose, Elsewhere, CacheStep, ledger
<1>5. CASE Restart \/ UNCHANGED vars
  BY <1>5 DEF Restart, CacheStep, vars
<1> QED
  BY <1>1, <1>2, <1>3, <1>4, <1>5 DEF Next, CallStep

LEMMA CacheStaysStopped ==
  ASSUME TypeOK, CacheStopped, [Next]_vars
  PROVE  CacheStopped'
<1> SUFFICES ASSUME killed', NEW o \in Orders, cache'[o] = "pass", IsBuy(o)
             PROVE  FALSE
  BY DEF CacheStopped, IsBuy
<1>1. CASE cache' = Forget
  BY <1>1 DEF Forget
<1>2. CASE UNCHANGED <<cache, killed>>
  BY <1>2 DEF CacheStopped
<1>3. ASSUME UNCHANGED killed, NEW p \in Orders, NEW v \in Decide(p),
             cache' = [cache EXCEPT ![p] = v]
      PROVE  FALSE
  <2>1. CASE p = o
    <3>1. v = "pass"
      BY <1>3, <2>1 DEF TypeOK
    <3> QED
      BY <1>3, <2>1, <3>1, KilledDecides
  <2>2. CASE p # o
    BY <1>3, <2>2 DEF CacheStopped
  <2> QED
    BY <2>1, <2>2
<1> QED
  BY <1>1, <1>2, <1>3, CacheSteps DEF CacheStep

\* Only risk.clear_kill disengages the switch.
LEMMA KilledStays ==
  ASSUME killed, (\E c \in Calls : CallStep(c)) \/ Desk \/ Restart \/ UNCHANGED vars
  PROVE  killed'
<1>1. ASSUME NEW c \in Calls, CallStep(c)
      PROVE  killed'
  <2>1. CASE Place(c)
    <3>1. \A r, d : RefuseUnplaced(c, r, d) => UNCHANGED killed
      BY DEF RefuseUnplaced
    <3>2. CASE PlaceRefused(c) \/ SubmitRefused(c) \/ RefusedAtCurve(c)
      BY <3>1, <3>2 DEF PlaceRefused, SubmitRefused, RefusedAtCurve
    <3>3. CASE PlaceRepeat(c) \/ PlaceAdmitted(c) \/ SubmitRepeat(c) \/ Submit(c)
      BY <3>3 DEF PlaceRepeat, PlaceAdmitted, SubmitRepeat, Submit, WriteOrder, ledger
    <3> QED
      BY <2>1, <3>2, <3>3 DEF Place
  <2>2. CASE Latency(c) \/ Cancel(c) \/ PlaceRaises(c)
    BY <2>2 DEF Latency, LatencySlept, CancelledInLatency, LatencyTimedOut, RejectPlaced,
                Cancel, PlaceRaises, ledger
  <2>3. CASE Confirm(c)
    BY <2>3 DEF Confirm, RefusedAtConfirmCurve, RefusedAtRecheck, RefusedAfterRecheck,
                SettleBuy, SettleSell, RejectPlaced, Fill
  <2> QED
    BY <1>1, <2>1, <2>2, <2>3 DEF CallStep
<1>2. CASE Desk
  BY <1>2 DEF Desk, EngageKill, SetHalt, ClearHalt, DayRollover, OtherRow,
              MirrorLatches, ForceClose, ledger
<1>3. CASE Restart \/ UNCHANGED vars
  BY <1>3 DEF Restart, ledger, vars
<1> QED
  BY <1>1, <1>2, <1>3

-----------------------------------------------------------------------------
(* Each kind of step keeps the invariant *)

\* The orders' side of the invariant, whatever flattens do beside it.
LEMMA OrderSide ==
  ASSUME FInv, [FlatNext]_allVars
  PROVE  TypeOK' /\ CacheStopped'
BY FlatStepIsStep, NextType, CacheStaysStopped DEF FInv

\* Under the engaged switch a step that keeps every flatten where it is, or
\* moves one on, opens nothing behind it and admits no buy.
LEMMA UnderSwitch ==
  ASSUME FInv, [FlatNext]_allVars, killed
  PROVE  /\ OpenMints' \subseteq OpenMints
         /\ \A c \in inflight' : IsBuy(OrderOf[c]) => c \in inflight
<1>1. [Next]_vars /\ TypeOK'
  BY FlatStepIsStep, OrderSide
<1>2. \A c \in inflight' : c \in Calls
  BY <1>1 DEF TypeOK
<1> QED
  BY <1>1, <1>2, KilledOpensNothing, KilledAdmitsNoBuy DEF FInv

LEMMA OrderStepFInv ==
  ASSUME FInv, [FlatNext]_allVars, OrderStep \/ UNCHANGED allVars
  PROVE  FInv'
<1>1. UNCHANGED <<fpc, todo, missing, failed, report, steady>>
  BY DEF OrderStep, allVars, flatVars
<1>2. killed => killed'
  BY KilledStays DEF OrderStep, allVars
<1>3. FlatTypeOK'
  BY <1>1 DEF FInv, FlatTypeOK
<1>4. SteadyIsKilled'
  BY <1>1, <1>2 DEF FInv, SteadyIsKilled
<1>5. CASE steady = {}
  BY <1>1, <1>3, <1>4, <1>5, OrderSide
  DEF FInv, Listed, FlattenTruthful, NoBuyBehindBarrier
<1>6. CASE steady # {}
  <2>1. /\ OpenMints' \subseteq OpenMints
        /\ \A c \in inflight' : IsBuy(OrderOf[c]) => c \in inflight
    BY <1>6, UnderSwitch DEF FInv, SteadyIsKilled
  <2>2. Listed' /\ FlattenTruthful'
    BY <1>1, <2>1 DEF FInv, Listed, FlattenTruthful
  <2>3. NoBuyBehindBarrier'
    BY <1>1, <2>1 DEF FInv, NoBuyBehindBarrier
  <2> QED
    BY <1>3, <1>4, <2>2, <2>3, OrderSide DEF FInv
<1> QED
  BY <1>5, <1>6

\* A restart and a clear end what the flattens may claim.
LEMMA ResetFInv ==
  ASSUME FInv, [FlatNext]_allVars, RestartAll \/ ClearAll
  PROVE  FInv'
<1>1. steady' = {}
  BY DEF RestartAll, ClearAll
<1>2. FlatTypeOK'
  BY DEF RestartAll, ClearAll, FInv, FlatTypeOK
<1> QED
  BY <1>1, <1>2, OrderSide
  DEF FInv, SteadyIsKilled, Listed, FlattenTruthful, NoBuyBehindBarrier

LEMMA RequestFInv ==
  ASSUME FInv, [FlatNext]_allVars, NEW f \in Flattens, Request(f)
  PROVE  FInv'
<1>1. /\ killed' /\ UNCHANGED <<holding, inflight, todo, missing, failed>>
      /\ fpc' = [fpc EXCEPT ![f] = "waiting"]
      /\ report' = [report EXCEPT ![f] = "none"]
      /\ steady' = steady \cup {f}
  BY DEF Request, orderVars
<1>2. FlatTypeOK'
  BY <1>1 DEF FInv, FlatTypeOK
<1>3. OpenMints' = OpenMints
  BY <1>1 DEF OpenMints
<1>4. Listed' /\ FlattenTruthful' /\ NoBuyBehindBarrier'
  BY <1>1, <1>3 DEF FInv, FlatTypeOK, Listed, FlattenTruthful, NoBuyBehindBarrier
<1> QED
  BY <1>1, <1>2, <1>4, OrderSide DEF FInv, SteadyIsKilled

\* A flatten waits, lists, reports.
LEMMA ProgressFInv ==
  ASSUME FInv, [FlatNext]_allVars, NEW f \in Flattens,
         BarrierEmpty(f) \/ BarrierTimeout(f) \/ ListIntents(f) \/ Report(f)
  PROVE  FInv'
<1>1. UNCHANGED vars /\ UNCHANGED steady
  BY DEF BarrierEmpty, BarrierTimeout, ListIntents, Report
<1>2. OpenMints' = OpenMints /\ UNCHANGED <<holding, inflight, killed>>
  BY <1>1 DEF OpenMints, vars
<1>3. SteadyIsKilled'
  BY <1>1, <1>2 DEF FInv, SteadyIsKilled
<1>4. OpenMints \subseteq Mints
  BY DEF OpenMints
<1>5. CASE BarrierEmpty(f)
  BY <1>1, <1>2, <1>3, <1>5, OrderSide
  DEF BarrierEmpty, FInv, FlatTypeOK, Listed, FlattenTruthful, NoBuyBehindBarrier
<1>6. CASE BarrierTimeout(f)
  BY <1>1, <1>2, <1>3, <1>6, OrderSide
  DEF BarrierTimeout, FInv, FlatTypeOK, Listed, FlattenTruthful, NoBuyBehindBarrier
<1>7. CASE ListIntents(f)
  BY <1>1, <1>2, <1>3, <1>4, <1>7, OrderSide
  DEF ListIntents, FInv, FlatTypeOK, Listed, FlattenTruthful, NoBuyBehindBarrier
<1>8. CASE Report(f)
  <2>1. FlatTypeOK' /\ Listed' /\ NoBuyBehindBarrier'
    BY <1>1, <1>2, <1>8 DEF Report, FInv, FlatTypeOK, Listed, NoBuyBehindBarrier
  <2>2. f \in steady /\ NotClosed(f) = {} => OpenMints = {}
    BY <1>8 DEF Report, FInv, FlatTypeOK, Listed, NotClosed
  <2>3. FlattenTruthful'
    BY <1>1, <1>2, <1>8, <2>2 DEF Report, FInv, FlatTypeOK, FlattenTruthful
  <2> QED
    BY <1>3, <2>1, <2>3, OrderSide DEF FInv
<1> QED
  BY <1>5, <1>6, <1>7, <1>8

\* A close sells the position, finds it gone, or is answered a failure.
LEMMA CloseFInv ==
  ASSUME FInv, [FlatNext]_allVars, NEW f \in Flattens, NEW m \in Mints,
         CloseGone(f, m) \/ CloseFails(f, m) \/ CloseSells(f, m)
  PROVE  FInv'
<1>1. UNCHANGED <<fpc, report, steady, killed, inflight>>
  BY DEF CloseGone, CloseFails, CloseSells, ForceClose, Elsewhere, vars
<1>2. /\ OpenMints' \subseteq OpenMints
      /\ m \in OpenMints' => m \in missing'[f] \cup failed'[f]
      /\ todo' = [todo EXCEPT ![f] = @ \ {m}]
      /\ \A g \in Flattens : /\ missing[g] \subseteq missing'[g]
                             /\ failed[g] \subseteq failed'[g]
  BY DEF CloseGone, CloseFails, CloseSells, ForceClose, OpenMints, vars, FInv, FlatTypeOK, TypeOK
<1>3. FlatTypeOK'
  BY DEF CloseGone, CloseFails, CloseSells, FInv, FlatTypeOK
<1>4. SteadyIsKilled' /\ NoBuyBehindBarrier' /\ FlattenTruthful'
  BY <1>1, <1>2 DEF FInv, SteadyIsKilled, NoBuyBehindBarrier, FlattenTruthful
<1>5. Listed'
  <2> SUFFICES ASSUME NEW g \in Flattens, g \in steady, fpc[g] = "closing", NEW n \in OpenMints'
               PROVE  n \in todo'[g] \cup missing'[g] \cup failed'[g]
    BY <1>1 DEF Listed, FInv, FlatTypeOK
  <2>1. n \in todo[g] \cup missing[g] \cup failed[g]
    BY <1>2 DEF FInv, Listed
  <2>2. n \in todo[g] => n \in todo'[g] \/ (g = f /\ n = m)
    BY <1>2 DEF FInv, FlatTypeOK
  <2> QED
    BY <1>2, <2>1, <2>2
<1> QED
  BY <1>3, <1>4, <1>5, OrderSide DEF FInv

LEMMA NextFInv ==
  ASSUME FInv, [FlatNext]_allVars
  PROVE  FInv'
<1>1. ASSUME NEW f \in Flattens, FlattenStep(f)
      PROVE  FInv'
  BY <1>1, ProgressFInv, CloseFInv DEF FlattenStep
<1> QED
  BY <1>1, OrderStepFInv, ResetFInv, RequestFInv DEF FlatNext

LEMMA FlatInductive == FlatSpec => []FInv
BY InitFInv, NextFInv, PTL DEF FlatSpec

-----------------------------------------------------------------------------
\* An intent is in one place, and every variable in its domain.
THEOREM FlattenTypeCorrect == FlatSpec => []FlatTypeOK
BY FlatInductive, PTL DEF FInv

\* A flatten that reports completed left a flat book, which stays flat while the
\* switch stands, however many flattens and orders overlap (execute_flatten).
THEOREM FlattenReportsTruth == FlatSpec => []FlattenTruthful
BY FlatInductive, PTL DEF FInv

\* No buy is in flight behind the barrier a flatten passed.
THEOREM BarrierStopsBuys == FlatSpec => []NoBuyBehindBarrier
BY FlatInductive, PTL DEF FInv
=============================================================================
