---------------------------- MODULE WatchProofs -----------------------------
(***************************************************************************)
(* Proofs about what watches the desk.  Breakers, for any number of calls, *)
(* orders, restarts, rejects and instants, any cooldowns and any sets of   *)
(* breakers: a trip is in the ledger while its breaker is open, no buy     *)
(* fills inside the cooldown of a trip that was not reset, and exec_errors *)
(* closes only by a fill.  SeatSupervision, for any roster, crash budget,  *)
(* number of days, ledger failures and starts: what the ledger says of a   *)
(* seat is what every process that runs acts on, and the relay passes no   *)
(* alert.                                                                  *)
(* LaunchScan, for any launches, memories, ledger rows, processes and      *)
(* ticks: what a launch passes before any order.                           *)
(***************************************************************************)
EXTENDS Breakers, SeatSupervision, LaunchScan,
        FiniteSetTheorems, NaturalsInduction, SequenceTheorems, TLAPS

-----------------------------------------------------------------------------
(* Breakers: the inductive invariant *)

\* exec_errors counts its cooldown from the reject that tripped it.
Slack(b) == IF b = "exec_errors" THEN RejectWindow ELSE 0

\* The cooldown of the last trip without a reset has passed.
Served(b, t) == t # Never => now - t >= Cooldown[b] - Slack(b)

\* What a breaker r of the process and the time t of its last trip row without a
\* reset know of each other: an open breaker has its row, written at most a window
\* after the trip; a half-open one, or one whose probe is out, has served.
Agree(b, r, t) ==
  /\ r \in BreakerRecord
  /\ t \in Nat \cup {Never} /\ t <= now
  /\ r.opened # Never => t # Never /\ t <= r.opened + Slack(b)
  /\ r.opened = Never /\ (r.half \/ r.probe) => Served(b, t)

\* A breaker that would let a buy through has served its last trip.
Faces(b, r, t) == r.opened = Never => Served(b, t)

\* The call that wrote an order is past its submission.
PlacedByLate ==
  \A o \in Orders : placedBy[o] # NoOne => pc[placedBy[o]] \in {"latency", "done"}

ShutInv ==
  /\ BreakersTypeOK /\ PlacedByLate
  /\ \A b \in BreakerNames : Agree(b, br[b], tripped[b])

-----------------------------------------------------------------------------
(* Breakers: the operations on one breaker *)

LEMMA Numbers ==
  /\ \A b \in BreakerNames : Cooldown[b] \in Nat /\ Cooldown[b] > 0
  /\ \A b \in BreakerNames : Slack(b) \in Nat /\ Slack(b) < Cooldown[b]
  /\ \A b \in BreakerNames : Threshold(b) \in {1, 3} /\ ResetAfterOk(b) \in {1, 3}
  /\ Threshold("exec_errors") = 3
  <1>1. \A b \in BreakerNames : Cooldown[b] \in Nat /\ Cooldown[b] > 0
    BY CooldownAssumption
  <1>2. RejectWindow \in Nat /\ RejectWindow < Cooldown["exec_errors"]
    BY WindowAssumption
  <1>. QED
    BY <1>1, <1>2 DEF Slack, Threshold, ResetAfterOk, BreakerNames

\* A record of a breaker is known by its fields.
LEMMA RecordFields ==
  ASSUME NEW r \in BreakerRecord, NEW o \in Int, NEW h \in BOOLEAN,
         NEW f \in 0..3, NEW k \in 0..2, NEW p \in BOOLEAN
  PROVE  /\ [r EXCEPT !.opened = o, !.half = h, !.fails = f, !.oks = k] \in BreakerRecord
         /\ [r EXCEPT !.opened = o, !.fails = f, !.oks = k] \in BreakerRecord
         /\ [r EXCEPT !.opened = o, !.fails = f] \in BreakerRecord
         /\ [r EXCEPT !.oks = k] \in BreakerRecord
         /\ [r EXCEPT !.probe = p] \in BreakerRecord
  <1>1. [r EXCEPT !.opened = o, !.half = h, !.fails = f, !.oks = k] \in BreakerRecord
    BY DEF BreakerRecord
  <1>2. [r EXCEPT !.opened = o, !.fails = f, !.oks = k] \in BreakerRecord
    BY DEF BreakerRecord
  <1>3. [r EXCEPT !.opened = o, !.fails = f] \in BreakerRecord
    BY DEF BreakerRecord
  <1>4. [r EXCEPT !.oks = k] \in BreakerRecord
    BY DEF BreakerRecord
  <1>5. [r EXCEPT !.probe = p] \in BreakerRecord
    BY DEF BreakerRecord
  <1>. QED  BY <1>1, <1>2, <1>3, <1>4, <1>5

\* is_open
LEMMA LookAgrees ==
  ASSUME now \in Nat, NEW b \in BreakerNames, NEW r, NEW t, Agree(b, r, t)
  PROVE  /\ Agree(b, Look(b, r), t)
         /\ Look(b, r).opened # Never => Look(b, r) = r /\ now - r.opened < Cooldown[b]
         /\ Look(b, r).probe = r.probe
         /\ r.half => Look(b, r).half
         /\ Faces(b, r, t) => Faces(b, Look(b, r), t)
  <1>1. CASE r.opened # Never /\ now - r.opened >= Cooldown[b]
    <2>. DEFINE l == [r EXCEPT !.opened = Never, !.half = TRUE, !.fails = Threshold(b) - 1, !.oks = 0]
    <2>1. Look(b, r) = l
      BY <1>1 DEF Look
    <2>2. Served(b, t)
      BY <1>1, Numbers DEF Agree, BreakerRecord, Served
    <2>3. r \in BreakerRecord /\ t \in Nat \cup {Never} /\ t <= now
      BY DEF Agree
    <2>4. Threshold(b) - 1 \in 0..3
      BY Numbers
    <2>5. l \in BreakerRecord
      <3>1. Never \in Int /\ 0 \in 0..2 /\ TRUE \in BOOLEAN
        BY DEF Never
      <3>. QED
        BY <2>3, <2>4, <3>1, RecordFields, Zenon
    <2>6. l.opened = Never /\ l.half = TRUE /\ l.probe = r.probe
      BY <2>3 DEF BreakerRecord
    <2>. HIDE DEF l
    <2>. QED
      BY <2>1, <2>2, <2>3, <2>5, <2>6 DEF Agree, Faces
  <1>2. CASE ~(r.opened # Never /\ now - r.opened >= Cooldown[b])
    <2>1. Look(b, r) = r
      BY <1>2 DEF Look
    <2>2. r.opened # Never => now - r.opened < Cooldown[b]
      BY <1>2, Numbers DEF Agree, BreakerRecord
    <2>. QED
      BY <2>1, <2>2
  <1>. QED  BY <1>1, <1>2

LEMMA LookTwice ==
  ASSUME now \in Nat, NEW b \in BreakerNames, NEW r \in BreakerRecord
  PROVE  Look(b, Look(b, r)) = Look(b, r)
  BY DEF Look, BreakerRecord, Never

\* The text of a state.
LEMMA StateCases ==
  ASSUME NEW b, NEW r
  PROVE  /\ StateOf(b, r) = "open" <=> Look(b, r).opened # Never
         /\ StateOf(b, r) = "closed" => Look(b, r).opened = Never
  BY DEF StateOf, IsOpen

\* l has just been looked at, and before is the text of its state.
Looked(b, l, before) ==
  /\ l.opened # Never => now - l.opened < Cooldown[b]
  /\ before = "open" <=> l.opened # Never

\* _transition after an operation that leaves the breaker open, or shut.
LEMMA LoggedOpen ==
  ASSUME now \in Nat, NEW b \in BreakerNames, NEW before,
         NEW t \in Nat \cup {Never}, t <= now,
         NEW a \in BreakerRecord, a.opened # Never, now - a.opened < Cooldown[b],
         before = "open" => t # Never /\ t <= a.opened + Slack(b),
         before # "open" => now <= a.opened + Slack(b)
  PROVE  /\ Agree(b, a, Logged(b, before, a, t))
         /\ Logged(b, before, a, t) # Never \/ t = Never
         /\ Logged(b, before, a, t) = IF before = "open" THEN t ELSE now
  <1>1. Look(b, a) = a
    BY Numbers DEF Look, BreakerRecord
  <1>2. StateOf(b, a) = "open"
    BY <1>1, StateCases
  <1>3. Logged(b, before, a, t) = IF before = "open" THEN t ELSE now
    BY <1>2 DEF Logged
  <1>. QED
    BY <1>3, Numbers DEF Agree, Never

LEMMA LoggedShut ==
  ASSUME now \in Nat, NEW b \in BreakerNames, NEW before,
         NEW t \in Nat \cup {Never}, t <= now,
         NEW a \in BreakerRecord, a.opened = Never,
         Served(b, Logged(b, before, a, t)) \/ ~(a.half \/ a.probe)
  PROVE  /\ Agree(b, a, Logged(b, before, a, t))
         /\ Logged(b, before, a, t) \in {t, Never}
  <1>1. Look(b, a) = a
    BY DEF Look
  <1>2. StateOf(b, a) # "open"
    BY <1>1, StateCases
  <1>3. Logged(b, before, a, t) \in {t, Never}
    BY <1>2 DEF Logged
  <1>. QED
    BY <1>3 DEF Agree, Never

LEMMA KeptAgrees ==
  ASSUME now \in Nat, NEW b \in BreakerNames, NEW before, NEW l, NEW t,
         Agree(b, l, t), Looked(b, l, before)
  PROVE  /\ Agree(b, l, Logged(b, before, l, t))
         /\ Faces(b, l, t) => Faces(b, l, Logged(b, before, l, t))
  <1>1. l \in BreakerRecord /\ t \in Nat \cup {Never} /\ t <= now
    BY DEF Agree
  <1>2. CASE l.opened # Never
    <2>1. Agree(b, l, Logged(b, before, l, t))
      BY <1>1, <1>2, LoggedOpen DEF Agree, Looked
    <2>. QED  BY <1>2, <2>1 DEF Faces
  <1>3. CASE l.opened = Never
    <2>1. Logged(b, before, l, t) \in {t, Never}
      <3>1. Look(b, l) = l
        BY <1>3 DEF Look
      <3>2. StateOf(b, l) # "open"
        BY <1>3, <3>1, StateCases
      <3>. QED  BY <3>2 DEF Logged
    <2>2. Served(b, t) => Served(b, Logged(b, before, l, t))
      BY <2>1 DEF Served
    <2>3. Agree(b, l, Logged(b, before, l, t))
      BY <1>1, <1>3, <2>2, LoggedShut DEF Agree
    <2>. QED  BY <1>3, <2>2, <2>3 DEF Faces
  <1>. QED  BY <1>2, <1>3

\* trip, of a breaker that was not open
LEMMA TripAgrees ==
  ASSUME now \in Nat, NEW b \in BreakerNames, NEW before, NEW l, NEW t, NEW at \in Nat,
         Agree(b, l, t), Looked(b, l, before), l.opened = Never,
         now <= at + Slack(b)
  PROVE  /\ Agree(b, Trip(b, l, at), Logged(b, before, Trip(b, l, at), t))
         /\ Trip(b, l, at).opened # Never
         /\ Logged(b, before, Trip(b, l, at), t) = now
  <1>1. l \in BreakerRecord /\ t \in Nat \cup {Never} /\ t <= now
    BY DEF Agree
  <1>. DEFINE a == Trip(b, l, at)
  <1>2. a \in BreakerRecord
    <2>1. at \in Int /\ FALSE \in BOOLEAN /\ Threshold(b) \in 0..3 /\ 0 \in 0..2
      BY Numbers
    <2>. QED
      BY <1>1, <2>1, RecordFields, Zenon DEF Trip
  <1>3. a.opened = at
    BY <1>1 DEF Trip, BreakerRecord
  <1>4. a.opened # Never /\ now - a.opened < Cooldown[b]
    BY <1>3, Numbers DEF Never
  <1>5. before # "open"
    BY DEF Looked
  <1>. HIDE DEF a
  <1>6. Agree(b, a, Logged(b, before, a, t)) /\ Logged(b, before, a, t) = now
    BY <1>1, <1>2, <1>3, <1>4, <1>5, LoggedOpen
  <1>. QED
    BY <1>4, <1>6 DEF a

\* success
LEMMA SuccessAgrees ==
  ASSUME now \in Nat, NEW b \in BreakerNames, NEW before, NEW l, NEW t,
         Agree(b, l, t), Looked(b, l, before)
  PROVE  LET a == Success(b, l) IN
         /\ Agree(b, a, Logged(b, before, a, t))
         /\ Faces(b, l, t) => Faces(b, a, Logged(b, before, a, t))
         /\ l.opened = Never => a.opened = Never /\ Logged(b, before, a, t) \in {t, Never}
  <1>. DEFINE a == Success(b, l)
              row == Logged(b, before, a, t)
  <1>1. l \in BreakerRecord /\ t \in Nat \cup {Never} /\ t <= now
    BY DEF Agree
  <1>2. CASE l.oks + 1 >= ResetAfterOk(b)
    <2>1. a = [l EXCEPT !.opened = Never, !.half = FALSE, !.fails = 0, !.oks = 0]
      BY <1>2 DEF Success
    <2>2. a \in BreakerRecord
      <3>1. Never \in Int /\ FALSE \in BOOLEAN /\ 0 \in 0..3 /\ 0 \in 0..2
        BY DEF Never
      <3>2. [l EXCEPT !.opened = Never, !.half = FALSE, !.fails = 0, !.oks = 0] \in BreakerRecord
        BY <1>1, <3>1, RecordFields, Zenon
      <3>. QED
        BY <2>1, <3>2
    <2>3. a.opened = Never /\ a.half = FALSE /\ a.fails = 0 /\ a.probe = l.probe
      BY <1>1, <2>1 DEF BreakerRecord
    <2>4. StateOf(b, a) = "closed"
      BY <2>3 DEF StateOf, IsOpen, Look
    <2>5. row = IF before = "closed" THEN t ELSE Never
      BY <2>4 DEF Logged
    <2>. HIDE DEF a, row
    <2>6. before = "closed" => l.opened = Never
      BY DEF Looked
    <2>7. Served(b, row) \/ ~(a.half \/ a.probe)
      BY <1>1, <2>3, <2>5, <2>6 DEF Agree, Served
    <2>8. Agree(b, a, row)
      BY <1>1, <2>2, <2>3, <2>7, LoggedShut DEF row
    <2>9. Faces(b, l, t) => Faces(b, a, row)
      BY <2>5, <2>6 DEF Faces, Served
    <2>. QED
      BY <2>3, <2>5, <2>8, <2>9 DEF a, row
  <1>3. CASE ~(l.oks + 1 >= ResetAfterOk(b))
    <2>1. a = [l EXCEPT !.oks = l.oks + 1]
      BY <1>3 DEF Success
    <2>2. l.oks + 1 \in 0..2
      BY <1>1, <1>3, Numbers DEF BreakerRecord
    <2>3. a \in BreakerRecord
      <3>1. [l EXCEPT !.oks = l.oks + 1] \in BreakerRecord
        BY <1>1, <2>2 DEF BreakerRecord
      <3>. QED
        BY <2>1, <3>1
    <2>4. a.opened = l.opened /\ a.half = l.half /\ a.probe = l.probe
      BY <1>1, <2>1 DEF BreakerRecord
    <2>. HIDE DEF a
    <2>5. Agree(b, a, t) /\ Looked(b, a, before)
      BY <2>3, <2>4 DEF Agree, Looked
    <2>6. Agree(b, a, row) /\ (Faces(b, a, t) => Faces(b, a, row))
      BY <2>5, KeptAgrees DEF row
    <2>7. a.opened = Never => row \in {t, Never}
      <3>. SUFFICES ASSUME a.opened = Never PROVE row \in {t, Never}
        OBVIOUS
      <3>1. Look(b, a) = a
        BY DEF Look
      <3>. QED  BY <3>1, StateCases DEF row, Logged
    <2>. QED
      BY <2>4, <2>6, <2>7 DEF Faces, a, row
  <1>. QED  BY <1>2, <1>3

\* Looking before the text is taken.
LEMMA LookedAt ==
  ASSUME now \in Nat, NEW b \in BreakerNames, NEW r, NEW t, Agree(b, r, t)
  PROVE  Looked(b, Look(b, r), StateOf(b, r))
  BY LookAgrees, StateCases DEF Looked

-----------------------------------------------------------------------------
(* One check, and the end of a call *)

\* sync_from_ledger
LEMMA AdoptedAgrees ==
  ASSUME ShutInv, NEW b \in BreakerNames
  PROVE  Agree(b, Adopted(b), tripped[b]) /\ Faces(b, Adopted(b), tripped[b])
  <1>. DEFINE l == Look(b, br[b])
              t == tripped[b]
  <1>1. now \in Nat /\ Agree(b, br[b], t)
    BY DEF ShutInv, BreakersTypeOK
  <1>2. /\ Agree(b, l, t)
        /\ l \in BreakerRecord /\ t \in Nat \cup {Never} /\ t <= now
    BY <1>1, LookAgrees DEF Agree
  <1>. HIDE DEF l
  <1>3. CASE t # Never /\ l.opened = Never /\ ~l.half /\ ~l.probe
    <2>. DEFINE a == [l EXCEPT !.opened = t, !.fails = Threshold(b)]
    <2>1. Adopted(b) = a
      BY <1>3 DEF Adopted, l
    <2>2. a \in BreakerRecord
      <3>1. t \in Int /\ Threshold(b) \in 0..3
        BY <1>2, Numbers DEF Never
      <3>. QED  BY <1>2, <3>1 DEF BreakerRecord
    <2>3. a.opened = t
      BY <1>2 DEF BreakerRecord
    <2>. HIDE DEF a
    <2>4. Agree(b, a, t) /\ Faces(b, a, t)
      BY <1>2, <1>3, <2>2, <2>3, Numbers DEF Agree, Faces, Never
    <2>. QED  BY <2>1, <2>4
  <1>4. CASE ~(t # Never /\ l.opened = Never /\ ~l.half /\ ~l.probe)
    <2>1. Adopted(b) = l
      BY <1>4 DEF Adopted, l
    <2>2. Faces(b, l, t)
      BY <1>2, <1>4 DEF Agree, Faces, Served
    <2>. QED  BY <1>2, <2>1, <2>2
  <1>. QED  BY <1>3, <1>4

\* evaluate, and the row of refresh
LEMMA EvaluatedAgrees ==
  ASSUME BreakersTypeOK, NEW b \in BreakerNames, NEW r, NEW t,
         Agree(b, r, t), Faces(b, r, t)
  PROVE  LET e == Evaluated(b, r)
             row == Logged(b, StateOf(b, r), e, t)
         IN Agree(b, e, row) /\ Faces(b, e, row)
  <1>. DEFINE l == Look(b, r)
              before == StateOf(b, r)
              e == Evaluated(b, r)
              row == Logged(b, before, e, t)
  <1>. SUFFICES Agree(b, e, row) /\ Faces(b, e, row)
    OBVIOUS
  <1>1. now \in Nat
    BY DEF BreakersTypeOK
  <1>2. Agree(b, l, t) /\ Faces(b, l, t) /\ Looked(b, l, before)
    BY <1>1, LookAgrees, LookedAt
  <1>3. CASE e = l
    BY <1>1, <1>2, <1>3, KeptAgrees
  <1>4. ASSUME NEW at \in Nat, l.opened = Never, now <= at + Slack(b),
               e = Trip(b, l, at)
        PROVE  Agree(b, e, row) /\ Faces(b, e, row)
    BY <1>1, <1>2, <1>4, TripAgrees DEF Faces
  <1>5. CASE e = Success(b, l)
    BY <1>1, <1>2, <1>5, SuccessAgrees
  <1>6. CASE b = "data_stale"
    <2>1. e = EvalStale(r)
      BY <1>6 DEF Evaluated
    <2>2. e = l \/ (l.opened = Never /\ e = Trip(b, l, now))
      BY <1>6, <2>1 DEF EvalStale
    <2>3. now <= now + Slack(b)
      BY <1>1, Numbers
    <2>. HIDE DEF e, row, l
    <2>. QED  BY <1>1, <1>3, <1>4, <2>2, <2>3
  <1>7. CASE b = "loss_velocity"
    <2>1. e = EvalLoss(r)
      BY <1>7 DEF Evaluated
    <2>2. e = l \/ e = Success(b, l) \/ (l.opened = Never /\ e = Trip(b, l, now))
      BY <1>7, <2>1 DEF EvalLoss
    <2>3. now <= now + Slack(b)
      BY <1>1, Numbers
    <2>. HIDE DEF e, row, l
    <2>. QED  BY <1>1, <1>3, <1>4, <1>5, <2>2, <2>3
  <1>8. CASE b = "exec_errors"
    <2>. DEFINE recent == {i \in DOMAIN rejects : now - rejects[i] <= RejectWindow}
                last == {i \in recent :
                           Cardinality({j \in recent : j <= i}) = Threshold("exec_errors")}
                at == rejects[CHOOSE i \in last : TRUE]
    <2>1. e = IF l.opened = Never /\ last # {} THEN Trip(b, l, at) ELSE l
      BY <1>8 DEF Evaluated, EvalErrors
    <2>2. CASE l.opened = Never /\ last # {}
      <3>1. (CHOOSE i \in last : TRUE) \in last
        BY <2>2
      <3>2. (CHOOSE i \in last : TRUE) \in DOMAIN rejects /\ now - at <= RejectWindow
        BY <3>1
      <3>3. at \in Nat
        BY <3>2 DEF BreakersTypeOK
      <3>4. now <= at + Slack(b)
        BY <1>1, <1>8, <3>2, <3>3, WindowAssumption DEF Slack
      <3>5. e = Trip(b, l, at)
        BY <2>1, <2>2
      <3>. HIDE DEF at, last, e, row, l
      <3>. QED  BY <1>4, <2>2, <3>3, <3>4, <3>5
    <2>3. CASE ~(l.opened = Never /\ last # {})
      BY <1>3, <2>1, <2>3
    <2>. QED  BY <2>2, <2>3
  <1>. QED
    BY <1>6, <1>7, <1>8 DEF BreakerNames

LEMMA RefreshedAgrees ==
  ASSUME ShutInv, NEW b \in BreakerNames
  PROVE  /\ Agree(b, Refreshed[b], RefreshedRows[b])
         /\ Faces(b, Refreshed[b], RefreshedRows[b])
  <1>1. now \in Nat /\ BreakersTypeOK
    BY DEF ShutInv, BreakersTypeOK
  <1>. DEFINE e == Evaluated(b, Adopted(b))
              row == Logged(b, StateOf(b, Adopted(b)), e, tripped[b])
  <1>2. Agree(b, e, row) /\ Faces(b, e, row)
    BY <1>1, AdoptedAgrees, EvaluatedAgrees
  <1>3. Refreshed[b] = Look(b, e) /\ RefreshedRows[b] = row
    BY DEF Refreshed, RefreshedRows
  <1>. HIDE DEF e, row
  <1>. QED
    BY <1>1, <1>2, <1>3, LookAgrees

\* The breakers and rows of a check, passed or refused.
AllAgree(f, t) ==
  /\ f \in [BreakerNames -> BreakerRecord]
  /\ t \in [BreakerNames -> Nat \cup {Never}]
  /\ \A b \in BreakerNames : Agree(b, f[b], t[b])

LEMMA CheckedAgrees ==
  ASSUME ShutInv, NEW o, NEW ok \in BOOLEAN, ok => Passes(o)
  PROVE  /\ AllAgree(CheckedBreakers(o, ok), RefreshedRows)
         /\ ok => \A b \in BreakerNames : /\ CheckedBreakers(o, ok)[b].opened = Never
                                          /\ Served(b, RefreshedRows[b])
  <1>. DEFINE f == CheckedBreakers(o, ok)
              b0 == FirstOf(Available(Refreshed))
  <1>1. \A b \in BreakerNames : /\ Agree(b, Refreshed[b], RefreshedRows[b])
                                /\ Faces(b, Refreshed[b], RefreshedRows[b])
    BY RefreshedAgrees
  <1>2. /\ Refreshed \in [BreakerNames -> BreakerRecord]
        /\ RefreshedRows \in [BreakerNames -> Nat \cup {Never}]
    <2>1. \A b \in BreakerNames : /\ Refreshed[b] \in BreakerRecord
                                  /\ RefreshedRows[b] \in Nat \cup {Never}
      BY <1>1 DEF Agree
    <2>. QED  BY <2>1 DEF Refreshed, RefreshedRows
  <1>3. ok => \A b \in BreakerNames : Refreshed[b].opened = Never /\ Served(b, RefreshedRows[b])
    BY <1>1 DEF Passes, Faces
  <1>4. CASE ok /\ Claims(o)
    <2>1. f = [Refreshed EXCEPT ![b0].probe = TRUE]
      BY <1>4 DEF CheckedBreakers
    <2>2. b0 \in BreakerNames
      BY DEF FirstOf, BreakerNames
    <2>. HIDE DEF f, b0
    <2>3. \A b \in BreakerNames : f[b] = Refreshed[b] \/ f[b] = [Refreshed[b] EXCEPT !.probe = TRUE]
      BY <1>2, <2>1, <2>2
    <2>4. ASSUME NEW b \in BreakerNames
          PROVE  /\ f[b] \in BreakerRecord /\ f[b].opened = Refreshed[b].opened
                 /\ Agree(b, f[b], RefreshedRows[b])
      <3>1. f[b] \in BreakerRecord /\ f[b].opened = Refreshed[b].opened
        BY <1>2, <2>3 DEF BreakerRecord
      <3>2. Served(b, RefreshedRows[b]) /\ Refreshed[b].opened = Never
        BY <1>3, <1>4
      <3>3. Agree(b, Refreshed[b], RefreshedRows[b])
        BY <1>1
      <3>. QED  BY <3>1, <3>2, <3>3 DEF Agree
    <2>5. f \in [BreakerNames -> BreakerRecord]
      <3>1. f = [b \in BreakerNames |-> f[b]]
        BY <1>2, <2>1, <2>2
      <3>. QED  BY <2>4, <3>1
    <2>. QED
      BY <1>2, <1>3, <2>4, <2>5 DEF AllAgree, f
  <1>5. CASE ~(ok /\ Claims(o))
    <2>1. f = Refreshed
      BY <1>5 DEF CheckedBreakers
    <2>. QED
      BY <1>1, <1>2, <1>3, <2>1 DEF AllAgree
  <1>. QED  BY <1>4, <1>5

\* resolve_probe
LEMMA ResolvedAgrees ==
  ASSUME now \in Nat, NEW b \in BreakerNames, NEW r, NEW t, NEW ok \in BOOLEAN,
         Agree(b, r, t)
  PROVE  LET a == Resolve(b, Look(b, r), ok)
             row == Logged(b, StateOf(b, r), a, t)
         IN /\ Agree(b, a, row)
            /\ ~ok /\ t # Never => row # Never
            /\ ok /\ r.opened = Never => row \in {t, Never}
  <1>. DEFINE l == Look(b, r)
              before == StateOf(b, r)
              freed == [l EXCEPT !.probe = FALSE]
              a == Resolve(b, l, ok)
              row == Logged(b, before, a, t)
  <1>. SUFFICES /\ Agree(b, a, row)
                /\ ~ok /\ t # Never => row # Never
                /\ ok /\ r.opened = Never => row \in {t, Never}
    OBVIOUS
  <1>1. Agree(b, l, t) /\ Looked(b, l, before)
    BY LookAgrees, LookedAt
  <1>2. l \in BreakerRecord /\ t \in Nat \cup {Never} /\ t <= now
    BY <1>1 DEF Agree
  <1>3. r.opened = Never => l = r
    BY DEF Look
  <1>. HIDE DEF l, before
  <1>4. /\ freed \in BreakerRecord /\ freed.opened = l.opened /\ freed.half = l.half
        /\ freed.probe = FALSE
    BY <1>2 DEF BreakerRecord
  <1>5. CASE ok
    <2>1. Agree(b, freed, t) /\ Looked(b, freed, before)
      BY <1>1, <1>4 DEF Agree, Looked
    <2>2. a = Success(b, freed)
      BY <1>5 DEF Resolve
    <2>. HIDE DEF freed, a
    <2>3. Agree(b, a, row) /\ (freed.opened = Never => row \in {t, Never})
      BY <2>1, <2>2, SuccessAgrees
    <2>. QED  BY <1>3, <1>4, <1>5, <2>3
  <1>6. CASE ~ok
    <2>1. a = [freed EXCEPT !.opened = now, !.fails = Threshold(b), !.oks = 0]
      BY <1>6 DEF Resolve
    <2>. HIDE DEF freed
    <2>2. a \in BreakerRecord
      <3>1. now \in Int /\ Threshold(b) \in 0..3 /\ 0 \in 0..2
        BY Numbers
      <3>. QED  BY <1>4, <2>1, <3>1 DEF BreakerRecord
    <2>3. a.opened = now
      BY <1>4, <2>1 DEF BreakerRecord
    <2>. HIDE DEF a, row
    <2>4. a.opened # Never /\ now - a.opened < Cooldown[b]
      BY <2>3, Numbers DEF Never
    <2>5. /\ before = "open" => t # Never /\ t <= a.opened + Slack(b)
          /\ before # "open" => now <= a.opened + Slack(b)
      BY <1>1, <1>2, <2>3, Numbers DEF Agree, Looked, Never
    <2>6. /\ Agree(b, a, row)
          /\ row # Never \/ t = Never
      BY <1>2, <2>2, <2>4, <2>5, LoggedOpen DEF row
    <2>. QED  BY <1>6, <2>6
  <1>. QED  BY <1>5, <1>6

\* release_order_probes and resolve_probe at the end of a call.
LEMMA ReleasedAgrees ==
  ASSUME now \in Nat, NEW f, NEW own, NEW t, NEW o, NEW ok \in BOOLEAN, AllAgree(f, t)
  PROVE  /\ AllAgree(Released(f, own, o, ok), ReleasedRows(f, own, t, o, ok))
         /\ \A b \in BreakerNames :
              /\ ~ok /\ t[b] # Never => ReleasedRows(f, own, t, o, ok)[b] # Never
              /\ ok /\ f[b].opened = Never => ReleasedRows(f, own, t, o, ok)[b] \in {t[b], Never}
  <1>. DEFINE g == Released(f, own, o, ok)
              u == ReleasedRows(f, own, t, o, ok)
  <1>1. ASSUME NEW b \in BreakerNames
        PROVE  /\ Agree(b, g[b], u[b])
               /\ ~ok /\ t[b] # Never => u[b] # Never
               /\ ok /\ f[b].opened = Never => u[b] \in {t[b], Never}
    <2>1. Agree(b, f[b], t[b])
      BY DEF AllAgree
    <2>2. CASE own[b] = o /\ f[b].probe
      <3>1. /\ g[b] = Resolve(b, Look(b, f[b]), ok)
            /\ u[b] = Logged(b, StateOf(b, f[b]), Resolve(b, Look(b, f[b]), ok), t[b])
        BY <2>2 DEF Released, ReleasedRows
      <3>. HIDE DEF g, u
      <3>. QED  BY <2>1, <3>1, ResolvedAgrees
    <2>3. CASE ~(own[b] = o /\ f[b].probe)
      <3>1. g[b] = f[b] /\ u[b] = t[b]
        BY <2>3 DEF Released, ReleasedRows
      <3>. HIDE DEF g, u
      <3>. QED  BY <2>1, <3>1
    <2>. QED  BY <2>2, <2>3
  <1>2. /\ g \in [BreakerNames -> BreakerRecord]
        /\ u \in [BreakerNames -> Nat \cup {Never}]
    <2>1. \A b \in BreakerNames : g[b] \in BreakerRecord /\ u[b] \in Nat \cup {Never}
      BY <1>1 DEF Agree
    <2>. QED  BY <2>1 DEF Released, ReleasedRows
  <1>. HIDE DEF g, u
  <1>3. AllAgree(g, u)
    BY <1>1, <1>2 DEF AllAgree
  <1>. QED  BY <1>1, <1>3 DEF g, u

LEMMA EndAgrees ==
  ASSUME now \in Nat, NEW STATE f, NEW STATE own, NEW STATE t, NEW ok \in BOOLEAN,
         NEW c \in Calls, AllAgree(f, t), own \in [BreakerNames -> Orders \cup {NoOne}],
         End(c, f, own, t, ok)
  PROVE  /\ AllAgree(br', tripped')
         /\ owner' \in [BreakerNames -> Orders \cup {NoOne}]
         /\ pc' = [pc EXCEPT ![c] = "done"]
         /\ \A b \in BreakerNames : /\ ~ok /\ t[b] # Never => tripped'[b] # Never
                                    /\ ok /\ f[b].opened = Never => tripped'[b] \in {t[b], Never}
         /\ ~Settles(c) => tripped' = t
  <1>1. CASE Settles(c)
    <2>1. /\ br' = Released(f, own, OrderOf[c], ok)
          /\ tripped' = ReleasedRows(f, own, t, OrderOf[c], ok)
          /\ owner' = [b \in BreakerNames |-> IF own[b] = OrderOf[c] THEN NoOne ELSE own[b]]
          /\ pc' = [pc EXCEPT ![c] = "done"]
      BY <1>1 DEF End
    <2>2. owner' \in [BreakerNames -> Orders \cup {NoOne}]
      BY <2>1
    <2>. QED
      BY <1>1, <2>1, <2>2, ReleasedAgrees
  <1>2. CASE ~Settles(c)
    <2>1. br' = f /\ tripped' = t /\ owner' = own /\ pc' = [pc EXCEPT ![c] = "done"]
      BY <1>2 DEF End
    <2>. QED  BY <2>1
  <1>. QED  BY <1>1, <1>2

\* A check never closes exec_errors: it may only find its cooldown over.
LEMMA ErrorsStayTripped ==
  ASSUME ShutInv, tripped["exec_errors"] # Never
  PROVE  RefreshedRows["exec_errors"] # Never
  <1>. DEFINE b == "exec_errors"
              r == Adopted(b)
              l == Look(b, r)
              e == Evaluated(b, r)
              t == tripped[b]
  <1>1. b \in BreakerNames /\ now \in Nat
    BY DEF BreakerNames, ShutInv, BreakersTypeOK
  <1>2. r \in BreakerRecord /\ Agree(b, r, t)
    BY <1>1, AdoptedAgrees DEF Agree
  <1>3. RefreshedRows[b] = Logged(b, StateOf(b, r), e, t)
    BY <1>1 DEF RefreshedRows
  <1>4. e = EvalErrors(r)
    BY DEF Evaluated
  <1>5. CASE e = l
    <2>1. StateOf(b, e) = StateOf(b, r)
      <3>1. Look(b, l) = l
        BY <1>1, <1>2, LookTwice
      <3>. QED  BY <1>5, <3>1 DEF StateOf, IsOpen
    <2>2. RefreshedRows[b] = t
      BY <1>3, <2>1 DEF Logged
    <2>. QED  BY <2>2
  <1>6. CASE e # l
    <2>1. e.opened # Never
      <3>1. \E at : l.opened = Never /\ e = Trip(b, l, at) /\ at \in Nat
        <4>. DEFINE recent == {i \in DOMAIN rejects : now - rejects[i] <= RejectWindow}
                    last == {i \in recent :
                               Cardinality({j \in recent : j <= i}) = Threshold("exec_errors")}
        <4>1. l.opened = Never /\ last # {} /\ e = Trip(b, l, rejects[CHOOSE i \in last : TRUE])
          BY <1>4, <1>6 DEF EvalErrors
        <4>2. (CHOOSE i \in last : TRUE) \in last
          BY <4>1
        <4>3. rejects[CHOOSE i \in last : TRUE] \in Nat
          BY <4>2 DEF ShutInv, BreakersTypeOK
        <4>. HIDE DEF last
        <4>. QED  BY <4>1, <4>3
      <3>2. l \in BreakerRecord
        BY <1>1, <1>2, LookAgrees DEF Agree
      <3>. HIDE DEF e, l
      <3>. QED  BY <3>1, <3>2 DEF Trip, BreakerRecord, Never
    <2>2. Agree(b, e, RefreshedRows[b])
      <3>1. BreakersTypeOK
        BY DEF ShutInv
      <3>. QED  BY <1>1, <1>3, <3>1, AdoptedAgrees, EvaluatedAgrees
    <2>. QED  BY <2>1, <2>2 DEF Agree
  <1>. QED  BY <1>5, <1>6

\* What any end of a call leaves: agreement, and a trip of exec_errors unless it
\* settled with success.
LEMMA UncheckedEnds ==
  ASSUME ShutInv, NEW c \in Calls, NEW ok \in BOOLEAN, EndUnchecked(c, ok)
  PROVE  /\ AllAgree(br', tripped')
         /\ owner' \in [BreakerNames -> Orders \cup {NoOne}]
         /\ pc' = [pc EXCEPT ![c] = "done"]
         /\ ~ok \/ ~Settles(c) =>
              (tripped["exec_errors"] # Never => tripped'["exec_errors"] # Never)
  <1>1. now \in Nat /\ owner \in [BreakerNames -> Orders \cup {NoOne}] /\ AllAgree(br, tripped)
    <2>1. \A b \in BreakerNames : tripped[b] \in Nat \cup {Never}
      BY DEF ShutInv, Agree
    <2>2. tripped \in [BreakerNames -> Nat \cup {Never}]
      BY <2>1 DEF ShutInv, BreakersTypeOK
    <2>. QED  BY <2>2 DEF ShutInv, BreakersTypeOK, AllAgree
  <1>2. End(c, br, owner, tripped, ok)
    BY DEF EndUnchecked
  <1>3. "exec_errors" \in BreakerNames
    BY DEF BreakerNames
  <1>. QED  BY <1>1, <1>2, <1>3, EndAgrees

LEMMA OwnersTyped ==
  ASSUME ShutInv, NEW o \in Orders, NEW ok \in BOOLEAN
  PROVE  CheckedOwners(o, ok) \in [BreakerNames -> Orders \cup {NoOne}]
  <1>1. Owners(Refreshed) \in [BreakerNames -> Orders \cup {NoOne}]
    BY DEF Owners, ShutInv, BreakersTypeOK
  <1>. QED  BY <1>1 DEF CheckedOwners

LEMMA CheckedEnds ==
  ASSUME ShutInv, NEW c \in Calls, NEW passed \in BOOLEAN, NEW ok \in BOOLEAN,
         passed => Passes(OrderOf[c]), EndChecked(c, passed, ok)
  PROVE  /\ AllAgree(br', tripped')
         /\ owner' \in [BreakerNames -> Orders \cup {NoOne}]
         /\ pc' = [pc EXCEPT ![c] = "done"]
         /\ ~ok => (tripped["exec_errors"] # Never => tripped'["exec_errors"] # Never)
         /\ passed /\ ok => \A b \in BreakerNames : Served(b, tripped'[b])
  <1>. DEFINE o == OrderOf[c]
              f == CheckedBreakers(o, passed)
              own == CheckedOwners(o, passed)
  <1>1. now \in Nat /\ o \in Orders /\ "exec_errors" \in BreakerNames
    BY OrderOfAssumption DEF ShutInv, BreakersTypeOK, BreakerNames
  <1>2. /\ AllAgree(f, RefreshedRows)
        /\ passed => \A b \in BreakerNames : f[b].opened = Never /\ Served(b, RefreshedRows[b])
    BY CheckedAgrees
  <1>3. own \in [BreakerNames -> Orders \cup {NoOne}]
    BY <1>1, OwnersTyped
  <1>4. tripped["exec_errors"] # Never => RefreshedRows["exec_errors"] # Never
    BY ErrorsStayTripped
  <1>5. End(c, f, own, RefreshedRows, ok)
    BY DEF EndChecked
  <1>. HIDE DEF f, own
  <1>6. /\ AllAgree(br', tripped')
        /\ owner' \in [BreakerNames -> Orders \cup {NoOne}]
        /\ pc' = [pc EXCEPT ![c] = "done"]
        /\ \A b \in BreakerNames :
             /\ ~ok /\ RefreshedRows[b] # Never => tripped'[b] # Never
             /\ ok /\ f[b].opened = Never => tripped'[b] \in {RefreshedRows[b], Never}
    BY <1>1, <1>2, <1>3, <1>5, EndAgrees
  <1>7. passed /\ ok => \A b \in BreakerNames : Served(b, tripped'[b])
    BY <1>2, <1>6 DEF Served
  <1>. QED  BY <1>1, <1>4, <1>6, <1>7

LEMMA CheckLeaves ==
  ASSUME ShutInv, NEW o \in Orders, CheckPasses(o)
  PROVE  /\ AllAgree(br', tripped')
         /\ owner' \in [BreakerNames -> Orders \cup {NoOne}]
         /\ tripped["exec_errors"] # Never => tripped'["exec_errors"] # Never
  <1>1. br' = CheckedBreakers(o, TRUE) /\ owner' = CheckedOwners(o, TRUE)
        /\ tripped' = RefreshedRows /\ Passes(o)
    BY DEF CheckPasses
  <1>2. AllAgree(CheckedBreakers(o, TRUE), RefreshedRows)
    BY <1>1, CheckedAgrees
  <1>. QED
    BY <1>1, <1>2, OwnersTyped, ErrorsStayTripped

-----------------------------------------------------------------------------
(* Breakers: the steps *)

\* A fill finds every trip served, and only a fill closes exec_errors.
EarnedStep ==
  /\ held' \ held # {} => \A b \in BreakerNames : Served(b, tripped'[b])
  /\ tripped["exec_errors"] # Never /\ tripped'["exec_errors"] = Never => held' \ held # {}

\* What a step of a call leaves alone or keeps.
CallKeeps ==
  /\ now' = now /\ watched' = watched /\ lastTick' = lastTick /\ misses' = misses
  /\ boots' = boots /\ marks' = marks /\ equity' = equity
  /\ rejects' \in Seq(Nat) /\ held' \subseteq Orders
  /\ AllAgree(br', tripped')
  /\ owner' \in [BreakerNames -> Orders \cup {NoOne}]

LEMMA BuyKeeps ==
  ASSUME ShutInv, NEW c \in Calls, Buy(c)
  PROVE  /\ CallKeeps /\ EarnedStep
         /\ \/ placedBy' = placedBy /\ pc' = [pc EXCEPT ![c] = "done"]
            \/ placedBy' = placedBy /\ pc[c] = "idle" /\ pc' = [pc EXCEPT ![c] = "deciding"]
            \/ /\ placedBy' = [placedBy EXCEPT ![OrderOf[c]] = c]
               /\ pc' = [pc EXCEPT ![c] = "latency"]
  <1>. USE DEF CallKeeps, EarnedStep, Still, feed, market
  <1>1. /\ BreakersTypeOK /\ PlacedByLate /\ OrderOf[c] \in Orders
        /\ now \in Nat /\ rejects \in Seq(Nat) /\ held \subseteq Orders
    BY OrderOfAssumption DEF ShutInv, BreakersTypeOK
  <1>2. CASE PlaceRepeat(c)
    <2>1. ~Settles(c)
      BY <1>1, <1>2, NoOneAssumption DEF PlaceRepeat, Settles, PlacedByLate
    <2>. QED
      BY <1>1, <1>2, <2>1, UncheckedEnds DEF PlaceRepeat
  <1>3. CASE PlaceRefused(c)
    BY <1>1, <1>3, CheckedEnds DEF PlaceRefused
  <1>4. CASE PlaceAdmitted(c)
    BY <1>1, <1>4, CheckLeaves DEF PlaceAdmitted
  <1>5. CASE RefusedAtCurve(c)
    BY <1>1, <1>5, UncheckedEnds DEF RefusedAtCurve
  <1>6. CASE SubmitRefused(c)
    BY <1>1, <1>6, CheckedEnds DEF SubmitRefused
  <1>7. CASE SubmitRepeat(c)
    BY <1>1, <1>7, CheckedEnds DEF SubmitRepeat
  <1>8. CASE Submit(c)
    BY <1>1, <1>8, CheckLeaves DEF Submit
  <1>9. CASE LatencyEnds(c)
    BY <1>1, <1>9, UncheckedEnds DEF LatencyEnds
  <1>10. CASE ConfirmRefused(c)
    BY <1>1, <1>10, CheckedEnds DEF ConfirmRefused
  <1>11. CASE ConfirmDropped(c)
    <2>1. Append(rejects, now) \in Seq(Nat)
      BY <1>1
    <2>. QED
      BY <1>1, <1>11, <2>1, CheckedEnds DEF ConfirmDropped
  <1>12. CASE ConfirmFilled(c)
    <2>1. held' \ held = {OrderOf[c]}
      BY <1>12 DEF ConfirmFilled, Passes
    <2>. QED
      BY <1>1, <1>12, <2>1, CheckedEnds DEF ConfirmFilled
  <1>. QED
    BY <1>2, <1>3, <1>4, <1>5, <1>6, <1>7, <1>8, <1>9, <1>10, <1>11, <1>12 DEF Buy

LEMMA AgreeNext ==
  ASSUME now' = now, AllAgree(br', tripped')
  PROVE  /\ br' \in [BreakerNames -> BreakerRecord] /\ tripped' \in [BreakerNames -> Int]
         /\ (\A b \in BreakerNames : Agree(b, br[b], tripped[b]))'
  BY DEF AllAgree, Agree, Served, Never

LEMMA BuyStep ==
  ASSUME ShutInv, NEW c \in Calls, Buy(c)
  PROVE  ShutInv' /\ EarnedStep
  <1>1. CallKeeps /\ EarnedStep
    BY BuyKeeps
  <1>2. /\ br' \in [BreakerNames -> BreakerRecord] /\ tripped' \in [BreakerNames -> Int]
        /\ (\A b \in BreakerNames : Agree(b, br[b], tripped[b]))'
    BY <1>1, AgreeNext DEF CallKeeps
  <1>3. OrderOf[c] \in Orders /\ BreakersTypeOK /\ PlacedByLate
    BY OrderOfAssumption DEF ShutInv
  <1>4. /\ placedBy' \in [Orders -> Calls \cup {NoOne}]
        /\ pc' \in [Calls -> {"idle", "deciding", "latency", "done"}]
        /\ PlacedByLate'
    <2>1. /\ placedBy \in [Orders -> Calls \cup {NoOne}]
          /\ pc \in [Calls -> {"idle", "deciding", "latency", "done"}]
          /\ \A o \in Orders : placedBy[o] # NoOne =>
               placedBy[o] \in Calls /\ pc[placedBy[o]] \in {"latency", "done"}
      BY <1>3 DEF BreakersTypeOK, PlacedByLate
    <2>2. CASE placedBy' = placedBy /\ pc' = [pc EXCEPT ![c] = "done"]
      BY <2>1, <2>2 DEF PlacedByLate
    <2>3. CASE placedBy' = placedBy /\ pc[c] = "idle" /\ pc' = [pc EXCEPT ![c] = "deciding"]
      <3>1. \A o \in Orders : placedBy[o] # c
        BY <2>1, <2>3, NoOneAssumption
      <3>. QED  BY <2>1, <2>3, <3>1 DEF PlacedByLate
    <2>4. CASE /\ placedBy' = [placedBy EXCEPT ![OrderOf[c]] = c]
               /\ pc' = [pc EXCEPT ![c] = "latency"]
      <3>1. \A o \in Orders : placedBy'[o] = c \/ placedBy'[o] = placedBy[o]
        BY <2>1, <2>4
      <3>. QED  BY <1>3, <2>1, <2>4, <3>1 DEF PlacedByLate
    <2>. QED  BY <2>2, <2>3, <2>4, BuyKeeps
  <1>5. BreakersTypeOK'
    BY <1>1, <1>2, <1>3, <1>4 DEF BreakersTypeOK, CallKeeps
  <1>. QED
    BY <1>1, <1>2, <1>4, <1>5 DEF ShutInv

\* What one breaker of the feed becomes, the others unchanged.
LEMMA FeedAgrees ==
  ASSUME ShutInv, NEW STATE a, NEW STATE row,
         Agree("data_stale", a, row),
         br' = [br EXCEPT !["data_stale"] = a],
         tripped' = [tripped EXCEPT !["data_stale"] = row]
  PROVE  AllAgree(br', tripped') /\ tripped'["exec_errors"] = tripped["exec_errors"]
  <1>1. /\ br \in [BreakerNames -> BreakerRecord] /\ tripped \in [BreakerNames -> Int]
        /\ \A b \in BreakerNames : Agree(b, br[b], tripped[b])
        /\ {"data_stale", "exec_errors"} \subseteq BreakerNames
    BY DEF ShutInv, BreakersTypeOK, BreakerNames
  <1>2. \A b \in BreakerNames : Agree(b, br'[b], tripped'[b])
    BY <1>1
  <1>3. \A b \in BreakerNames : br'[b] \in BreakerRecord /\ tripped'[b] \in Nat \cup {Never}
    BY <1>2 DEF Agree
  <1>. QED
    BY <1>1, <1>2, <1>3 DEF AllAgree

LEMMA NoteKeeps ==
  ASSUME ShutInv, NoteTick \/ NoteMiss
  PROVE  AllAgree(br', tripped') /\ tripped'["exec_errors"] = tripped["exec_errors"]
  <1>. DEFINE b == "data_stale"
              r == Look(b, br[b])
              t == tripped[b]
              before == StateOf(b, r)
  <1>1. /\ b \in BreakerNames /\ now \in Nat
        /\ Agree(b, br[b], t) /\ br[b] \in BreakerRecord /\ t \in Nat \cup {Never} /\ t <= now
    BY DEF ShutInv, BreakersTypeOK, Agree, BreakerNames
  <1>2. Agree(b, r, t) /\ r \in BreakerRecord
    BY <1>1, LookAgrees DEF Agree
  <1>3. Looked(b, r, before)
    BY <1>1, <1>2, LookTwice, LookedAt
  <1>4. CASE NoteTick
    <2>. DEFINE gap == lastTick # Never /\ now - lastTick > FreshWindow
                streak == IF gap THEN [r EXCEPT !.oks = 0] ELSE r
                after == Success(b, streak)
                row == Logged(b, before, after, t)
    <2>1. Agree(b, streak, t) /\ Looked(b, streak, before)
      <3>1. streak = r \/ streak = [r EXCEPT !.oks = 0]
        OBVIOUS
      <3>2. /\ streak \in BreakerRecord /\ streak.opened = r.opened
            /\ streak.half = r.half /\ streak.probe = r.probe
        BY <1>2, <3>1 DEF BreakerRecord
      <3>. HIDE DEF streak, r, before
      <3>. QED  BY <1>2, <1>3, <3>2 DEF Agree, Looked
    <2>2. Agree(b, after, row)
      <3>. HIDE DEF streak, before
      <3>. QED  BY <1>1, <2>1, SuccessAgrees
    <2>3. br' = [br EXCEPT !["data_stale"] = after] /\ tripped' = [tripped EXCEPT !["data_stale"] = row]
      BY <1>4 DEF NoteTick
    <2>. HIDE DEF after, row
    <2>. QED  BY <2>2, <2>3, FeedAgrees
  <1>5. CASE NoteMiss
    <2>. DEFINE after == IF misses + 1 >= 3 /\ r.opened = Never THEN Trip(b, r, now) ELSE r
                row == Logged(b, before, after, t)
    <2>1. Agree(b, after, row)
      <3>1. CASE after = r
        BY <1>1, <1>2, <1>3, <3>1, KeptAgrees
      <3>2. CASE r.opened = Never /\ after = Trip(b, r, now)
        <4>1. now <= now + Slack(b)
          BY <1>1, Numbers
        <4>. HIDE DEF r, before, after
        <4>. QED  BY <1>1, <1>2, <1>3, <3>2, <4>1, TripAgrees
      <3>. QED  BY <3>1, <3>2
    <2>2. br' = [br EXCEPT !["data_stale"] = after] /\ tripped' = [tripped EXCEPT !["data_stale"] = row]
      BY <1>5 DEF NoteMiss
    <2>. HIDE DEF after, row
    <2>. QED  BY <2>1, <2>2, FeedAgrees
  <1>. QED  BY <1>4, <1>5

LEMMA SurroundingsStep ==
  ASSUME ShutInv, Surroundings
  PROVE  ShutInv' /\ EarnedStep
  <1>1. /\ BreakersTypeOK /\ PlacedByLate /\ now \in Nat
        /\ \A b \in BreakerNames : Agree(b, br[b], tripped[b])
    BY DEF ShutInv, BreakersTypeOK
  <1>2. CASE NoteTick \/ NoteMiss
    <2>1. /\ now' = now /\ watched' = watched /\ owner' = owner /\ rejects' = rejects
          /\ marks' = marks /\ equity' = equity /\ placedBy' = placedBy /\ held' = held
          /\ pc' = pc /\ boots' = boots
          /\ lastTick' \in Int /\ misses' \in Nat
      BY <1>1, <1>2 DEF NoteTick, NoteMiss, market, BreakersTypeOK
    <2>2. AllAgree(br', tripped') /\ tripped'["exec_errors"] = tripped["exec_errors"]
      BY <1>2, NoteKeeps
    <2>3. /\ br' \in [BreakerNames -> BreakerRecord] /\ tripped' \in [BreakerNames -> Int]
          /\ (\A b \in BreakerNames : Agree(b, br[b], tripped[b]))'
      BY <2>1, <2>2, AgreeNext
    <2>4. BreakersTypeOK' /\ PlacedByLate'
      BY <1>1, <2>1, <2>3 DEF BreakersTypeOK, PlacedByLate
    <2>. QED
      BY <2>1, <2>2, <2>3, <2>4 DEF ShutInv, EarnedStep
  <1>3. CASE ExitDropped \/ (\E e \in Levels : Mark(e)) \/ (\E o \in Orders : ClosePosition(o))
    <2>1. /\ br' = br /\ tripped' = tripped /\ now' = now /\ placedBy' = placedBy /\ pc' = pc
          /\ watched' = watched /\ lastTick' = lastTick /\ misses' = misses
          /\ owner' = owner /\ boots' = boots /\ held' \subseteq held
      BY <1>3 DEF ExitDropped, Mark, ClosePosition, feed, market
    <2>2. rejects' \in Seq(Nat)
      <3>1. rejects' = rejects \/ rejects' = Append(rejects, now)
        BY <1>3 DEF ExitDropped, Mark, ClosePosition, feed, market
      <3>2. rejects \in Seq(Nat) /\ Append(rejects, now) \in Seq(Nat)
        BY <1>1 DEF BreakersTypeOK
      <3>. QED  BY <3>1, <3>2
    <2>3. marks' \in [0..MaxTime -> Nat] /\ equity' \in Nat
      BY <1>1, <1>3, LevelsAssumption
         DEF ExitDropped, Mark, ClosePosition, feed, market, BreakersTypeOK
    <2>4. BreakersTypeOK' /\ PlacedByLate'
      BY <1>1, <2>1, <2>2, <2>3 DEF BreakersTypeOK, PlacedByLate
    <2>5. (\A b \in BreakerNames : Agree(b, br[b], tripped[b]))'
      BY <1>1, <2>1 DEF Agree, Served
    <2>. QED
      BY <2>1, <2>4, <2>5 DEF ShutInv, EarnedStep
  <1>4. CASE Tick
    <2>1. /\ now' = now + 1 /\ br' = br /\ tripped' = tripped /\ held' = held
          /\ watched' = watched /\ lastTick' = lastTick /\ misses' = misses /\ owner' = owner
          /\ rejects' = rejects /\ marks' = marks /\ equity' = equity
          /\ placedBy' = placedBy /\ pc' = pc /\ boots' = boots
      BY <1>4 DEF Tick, feed, market
    <2>2. BreakersTypeOK' /\ PlacedByLate'
      BY <1>1, <2>1 DEF BreakersTypeOK, PlacedByLate
    <2>3. ASSUME NEW b \in BreakerNames
          PROVE  Agree(b, br[b], tripped[b])'
      <3>1. Agree(b, br[b], tripped[b])
        BY <1>1
      <3>. QED  BY <1>1, <2>1, <3>1, Numbers DEF Agree, Served, Never
    <2>. QED
      BY <2>1, <2>2, <2>3 DEF ShutInv, EarnedStep
  <1>5. CASE Restart
    <2>1. /\ now' = now /\ tripped' = tripped /\ held' = held
          /\ watched' = watched /\ rejects' = rejects /\ marks' = marks /\ equity' = equity
          /\ placedBy' = placedBy /\ boots' = boots + 1
          /\ lastTick' = Never /\ misses' = 0
          /\ br' = [b \in BreakerNames |-> FreshBreaker]
          /\ owner' = [b \in BreakerNames |-> NoOne]
          /\ pc' = [c \in Calls |-> IF pc[c] \in {"deciding", "latency"} THEN "done" ELSE pc[c]]
      BY <1>5 DEF Restart, market
    <2>2. FreshBreaker \in BreakerRecord
      BY DEF FreshBreaker, BreakerRecord, Never
    <2>3. BreakersTypeOK'
      BY <1>1, <2>1, <2>2 DEF BreakersTypeOK, Never
    <2>4. PlacedByLate'
      BY <1>1, <2>1 DEF BreakersTypeOK, PlacedByLate
    <2>5. ASSUME NEW b \in BreakerNames
          PROVE  Agree(b, br[b], tripped[b])'
      <3>1. br'[b] = FreshBreaker /\ Agree(b, br[b], tripped[b])
        BY <1>1, <2>1
      <3>. QED  BY <2>1, <2>2, <3>1 DEF Agree, FreshBreaker
    <2>. QED
      BY <2>1, <2>3, <2>4, <2>5 DEF ShutInv, EarnedStep
  <1>. QED
    BY <1>2, <1>3, <1>4, <1>5 DEF Surroundings

-----------------------------------------------------------------------------
(* Breakers: the theorems *)

LEMMA BreakersStart == BreakersInit => ShutInv
  <1>. SUFFICES ASSUME BreakersInit PROVE ShutInv
    OBVIOUS
  <1>1. FreshBreaker \in BreakerRecord
    BY DEF FreshBreaker, BreakerRecord, Never
  <1>2. BreakersTypeOK
    BY <1>1, LevelsAssumption DEF BreakersInit, BreakersTypeOK, Never
  <1>3. PlacedByLate
    BY DEF BreakersInit, PlacedByLate
  <1>4. \A b \in BreakerNames : Agree(b, br[b], tripped[b])
    BY <1>1 DEF BreakersInit, Agree, FreshBreaker, Never, Served
  <1>. QED  BY <1>2, <1>3, <1>4 DEF ShutInv

LEMMA BreakersGoOn == ShutInv /\ [BreakersNext]_vars => ShutInv' /\ [EarnedStep]_vars
  <1>. SUFFICES ASSUME ShutInv, [BreakersNext]_vars PROVE ShutInv' /\ [EarnedStep]_vars
    OBVIOUS
  <1>1. CASE Surroundings
    BY <1>1, SurroundingsStep
  <1>2. ASSUME NEW c \in Calls, Buy(c) PROVE ShutInv' /\ EarnedStep
    BY <1>2, BuyStep
  <1>3. CASE UNCHANGED vars
    BY <1>3 DEF vars, feed, market, ShutInv, BreakersTypeOK, PlacedByLate, Agree, Served
  <1>. QED
    BY <1>1, <1>2, <1>3 DEF BreakersNext

LEMMA BreakersInvariant == BreakersSpec => []ShutInv
  BY BreakersStart, BreakersGoOn, PTL DEF BreakersSpec

\* Types, and R24: while a breaker of the process is open, whatever opened it,
\* the ledger holds a trip without a reset for the next process (BreakerSet.refresh
\* and the _transition behind every operation).
THEOREM TripsSurviveRestart == BreakersSpec => []BreakersSound
  <1>1. ShutInv => BreakersSound
    BY DEF ShutInv, BreakersSound, TripsSurvive, Agree
  <1>. QED
    BY <1>1, BreakersInvariant, PTL

\* However calls, failed probes, rejects and restarts interleave, a buy fills only
\* after the cooldown of every trip that no row reset, and exec_errors is reset
\* only by a fill (is_open, sync_from_ledger, resolve_probe, _settle_probes).
THEOREM ReopeningIsEarned == BreakersSpec => ClosesEarned
  <1>1. ShutInv /\ [EarnedStep]_vars => 
          [\A b \in BreakerNames :
             held' \ held # {} /\ tripped'[b] # Never
             => now - tripped'[b] >=
                  Cooldown[b] - (IF b = "exec_errors" THEN RejectWindow ELSE 0)]_vars
    BY DEF EarnedStep, Served, Slack
  <1>2. ShutInv /\ [EarnedStep]_vars =>
          [tripped["exec_errors"] # Never /\ tripped'["exec_errors"] = Never
           => held' \ held # {}]_vars
    BY DEF EarnedStep
  <1>3. ShutInv /\ [BreakersNext]_vars => [EarnedStep]_vars
    BY BreakersGoOn
  <1>. QED
    BY <1>1, <1>2, <1>3, BreakersInvariant, PTL
       DEF BreakersSpec, ClosesEarned, CooldownServed, ErrorsResetByFill

-----------------------------------------------------------------------------
(* Seats: the inductive invariant *)

Rows == [type : {"exhausted", "skew", "stale", "resume", "halt"}, of : Seats \cup 1 .. Days]

\* The rows of a seat in a log, the newest of them, and a note after a position.
Records(l, s) == {i \in DOMAIN l : l[i] = Row("exhausted", s)}
NewestIn(l, s) ==
  IF Records(l, s) = {} THEN 0
  ELSE CHOOSE i \in Records(l, s) : \A j \in Records(l, s) : j <= i
NoteAfter(l, s, f) == \E i \in DOMAIN l : i > f /\ l[i] = Row("resume", s)
HasNewest(l, s) ==
  Records(l, s) = {} \/ \E i \in Records(l, s) : \A j \in Records(l, s) : j <= i

Frees == {i \in DOMAIN log : log[i].type # "halt"}
HaltDays == {d \in 1 .. Days : Has(log, Row("halt", d))}

\* The log is no longer than the rows that Room admits and one halt a day, so a
\* floor of Unreadable lies above every row; the rows of a seat have a newest one.
LogInv ==
  /\ log \in Seq(Rows)
  /\ Len(log) <= Cardinality(Frees) + Cardinality(HaltDays)
  /\ Cardinality(Frees) + Cardinality(latching) <= MaxFree
  /\ \A s \in Seats : HasNewest(log, s)

\* Between a latch and its row no note of that seat is unaccounted for, and a
\* note after the floor of a latched seat is one after its newest row too.
LatchInv ==
  /\ latching = {} \/ \E s \in Seats : latching = {s}
  /\ \A s \in latching : floor[s] # Free /\ (s \notin raced => ~NoteAfter(log, s, floor[s]))
  /\ \A s \in Seats \ raced :
       floor[s] # Free /\ NoteAfter(log, s, floor[s])
         => NewestIn(log, s) = 0 \/ NoteAfter(log, s, NewestIn(log, s))

\* A seat whose newest row no note follows is latched.
Remembers(s) ==
  NewestIn(log, s) > 0 /\ ~NoteAfter(log, s, NewestIn(log, s)) => floor[s] # Free

SeatsInv ==
  /\ TypeOK /\ LogInv /\ LatchInv
  /\ LatchRemembered /\ RolloverKept /\ NoAlertSkipped

LEMMA Bounds ==
  /\ Budget \in Nat /\ Days \in Nat /\ Days > 0 /\ MaxFree \in Nat
  /\ MaxFaults \in Nat /\ MaxStarts \in Nat /\ ExitSeat \in Seats
  BY SeatsAssumption

-----------------------------------------------------------------------------
(* Seats: the log *)

\* The three ways a step leaves the log.
GrowsFree(r) == r \in Rows /\ r.type # "halt" /\ log' = Append(log, r)
GrowsHalt == ~Has(log, Row("halt", day)) /\ log' = Append(log, Row("halt", day))
LogMoves == log' = log \/ GrowsHalt \/ \E r \in Rows : GrowsFree(r)

LEMMA HaltedMoves ==
  log' = Halted(log) => log' = log \/ GrowsHalt
  BY DEF Halted, Keep, GrowsHalt

LEMMA FiniteParts ==
  ASSUME log \in Seq(Rows)
  PROVE  /\ IsFiniteSet(Frees) /\ Cardinality(Frees) \in Nat
         /\ IsFiniteSet(HaltDays) /\ Cardinality(HaltDays) \in Nat
         /\ Cardinality(HaltDays) <= Days
  <1>1. /\ IsFiniteSet(1 .. Len(log))
        /\ IsFiniteSet(1 .. Days) /\ Cardinality(1 .. Days) = Days
    BY FS_Interval, Bounds
  <1>2. Frees \in SUBSET (1 .. Len(log)) /\ HaltDays \in SUBSET (1 .. Days)
    BY DEF Frees, HaltDays
  <1>. QED
    BY <1>1, <1>2, FS_Subset, FS_CardinalityType

\* A row that is appended, whatever it is.
LEMMA Appended ==
  ASSUME log \in Seq(Rows), NEW r \in Rows, log' = Append(log, r)
  PROVE  /\ log' \in Seq(Rows) /\ Len(log) \in Nat /\ Len(log') = Len(log) + 1
         /\ DOMAIN log = 1 .. Len(log) /\ DOMAIN log' = 1 .. Len(log) + 1
         /\ \A i \in 1 .. Len(log) : log'[i] = log[i]
         /\ log'[Len(log) + 1] = r
  OBVIOUS

LEMMA Counted ==
  ASSUME log \in Seq(Rows), day \in 1 .. Days, LogMoves
  PROVE  /\ log' \in Seq(Rows)
         /\ Len(log) <= Cardinality(Frees) + Cardinality(HaltDays)
              => Len(log') <= Cardinality(Frees') + Cardinality(HaltDays')
         /\ Cardinality(Frees') \in Nat
         /\ log' = log \/ GrowsHalt => Cardinality(Frees') = Cardinality(Frees)
         /\ Cardinality(Frees') <= Cardinality(Frees) + 1
  <1>1. /\ IsFiniteSet(Frees) /\ Cardinality(Frees) \in Nat
        /\ IsFiniteSet(HaltDays) /\ Cardinality(HaltDays) \in Nat
    BY FiniteParts
  <1>2. CASE log' = log
    BY <1>1, <1>2 DEF Frees, HaltDays, Has
  <1>3. CASE GrowsHalt
    <2>. DEFINE r == Row("halt", day)
    <2>1. r \in Rows /\ log' = Append(log, r) /\ ~Has(log, r) /\ r.type = "halt"
      BY <1>3 DEF GrowsHalt, Row, Rows
    <2>. HIDE DEF r
    <2>2. /\ log' \in Seq(Rows) /\ Len(log) \in Nat /\ Len(log') = Len(log) + 1
          /\ DOMAIN log = 1 .. Len(log) /\ DOMAIN log' = 1 .. Len(log) + 1
          /\ \A i \in 1 .. Len(log) : log'[i] = log[i]
          /\ log'[Len(log) + 1] = r
      BY <2>1, Appended
    <2>3. Frees' = Frees
      BY <2>1, <2>2 DEF Frees
    <2>4. HaltDays' = HaltDays \cup {day} /\ day \notin HaltDays
      BY <2>1, <2>2 DEF HaltDays, Has, Row, r
    <2>5. Cardinality(HaltDays') = Cardinality(HaltDays) + 1
      BY <1>1, <2>4, FS_AddElement
    <2>. QED  BY <1>1, <2>2, <2>3, <2>5
  <1>4. ASSUME NEW r \in Rows, GrowsFree(r)
        PROVE  /\ log' \in Seq(Rows)
               /\ Len(log') = Len(log) + 1 /\ Len(log) \in Nat
               /\ Cardinality(Frees') = Cardinality(Frees) + 1
               /\ Cardinality(HaltDays') \in Nat /\ Cardinality(HaltDays') >= Cardinality(HaltDays)
               /\ log' # log
    <2>1. log' = Append(log, r) /\ r.type # "halt"
      BY <1>4 DEF GrowsFree
    <2>2. /\ log' \in Seq(Rows) /\ Len(log) \in Nat /\ Len(log') = Len(log) + 1
          /\ DOMAIN log = 1 .. Len(log) /\ DOMAIN log' = 1 .. Len(log) + 1
          /\ \A i \in 1 .. Len(log) : log'[i] = log[i]
          /\ log'[Len(log) + 1] = r
      BY <2>1, Appended
    <2>3. Frees' = Frees \cup {Len(log) + 1} /\ Len(log) + 1 \notin Frees
      BY <2>1, <2>2 DEF Frees
    <2>4. HaltDays \subseteq HaltDays' /\ HaltDays' \subseteq 1 .. Days
      BY <2>2 DEF HaltDays, Has
    <2>5. IsFiniteSet(HaltDays') /\ Cardinality(HaltDays') \in Nat
      <3>1. IsFiniteSet(1 .. Days)
        BY FS_Interval, Bounds
      <3>2. HaltDays' \in SUBSET (1 .. Days)
        BY <2>4
      <3>3. IsFiniteSet(HaltDays')
        BY <3>1, <3>2, FS_Subset
      <3>. QED  BY <3>3, FS_CardinalityType
    <2>6. Cardinality(HaltDays') >= Cardinality(HaltDays)
      BY <1>1, <2>4, <2>5, FS_Subset
    <2>7. Cardinality(Frees') = Cardinality(Frees) + 1
      BY <1>1, <2>3, FS_AddElement
    <2>. QED  BY <2>2, <2>5, <2>6, <2>7
  <1>5. GrowsHalt => ~(\E r \in Rows : GrowsFree(r))
    <2>. SUFFICES ASSUME GrowsHalt, NEW r \in Rows, GrowsFree(r) PROVE FALSE
      OBVIOUS
    <2>1. Append(log, Row("halt", day)) = Append(log, r) /\ r.type # "halt" /\ Row("halt", day) \in Rows
      BY DEF GrowsHalt, GrowsFree, Row, Rows
    <2>2. Row("halt", day) = r
      BY <2>1
    <2>. QED  BY <2>1, <2>2 DEF Row
  <1>. QED
    BY <1>1, <1>2, <1>3, <1>4, <1>5 DEF LogMoves

\* What the newest row of a seat and the notes after a position become.
LEMMA Reads ==
  ASSUME NEW l \in Seq(Rows), NEW r \in Rows, NEW s \in Seats, HasNewest(l, s)
  PROVE  LET m == Append(l, r) IN
         /\ NewestIn(l, s) \in 0 .. Len(l)
         /\ NewestIn(m, s) = IF r = Row("exhausted", s) THEN Len(l) + 1 ELSE NewestIn(l, s)
         /\ \A f \in Int :
              NoteAfter(m, s, f) <=> NoteAfter(l, s, f) \/ (r = Row("resume", s) /\ f < Len(l) + 1)
         /\ HasNewest(m, s)
  <1>. DEFINE m == Append(l, r)
  <1>1. /\ m \in Seq(Rows) /\ Len(l) \in Nat /\ Len(m) = Len(l) + 1
        /\ DOMAIN l = 1 .. Len(l) /\ DOMAIN m = 1 .. Len(l) + 1
        /\ \A i \in 1 .. Len(l) : m[i] = l[i]
        /\ m[Len(l) + 1] = r
    OBVIOUS
  <1>. HIDE DEF m
  <1>2. Records(l, s) \subseteq 1 .. Len(l)
    BY <1>1 DEF Records
  <1>3. NewestIn(l, s) \in 0 .. Len(l)
    BY <1>1, <1>2 DEF HasNewest, NewestIn
  <1>4. \A f \in Int :
          NoteAfter(m, s, f) <=> NoteAfter(l, s, f) \/ (r = Row("resume", s) /\ f < Len(l) + 1)
    BY <1>1 DEF NoteAfter
  <1>5. CASE r = Row("exhausted", s)
    <2>1. Records(m, s) = Records(l, s) \cup {Len(l) + 1}
      BY <1>1, <1>5 DEF Records
    <2>2. \A i \in Records(m, s) : (\A j \in Records(m, s) : j <= i) <=> i = Len(l) + 1
      BY <1>1, <1>2, <2>1
    <2>3. NewestIn(m, s) = Len(l) + 1 /\ HasNewest(m, s)
      BY <2>1, <2>2 DEF NewestIn, HasNewest
    <2>. QED  BY <1>3, <1>4, <1>5, <2>3 DEF m
  <1>6. CASE r # Row("exhausted", s)
    <2>1. Records(m, s) = Records(l, s)
      BY <1>1, <1>6 DEF Records
    <2>2. NewestIn(m, s) = NewestIn(l, s) /\ HasNewest(m, s)
      BY <2>1 DEF NewestIn, HasNewest
    <2>. QED  BY <1>3, <1>4, <1>6, <2>2 DEF m
  <1>. QED  BY <1>5, <1>6

LEMMA LogKept ==
  ASSUME TypeOK, LogInv, LogMoves, Cardinality(Frees') + Cardinality(latching') <= MaxFree
  PROVE  LogInv'
  <1>1. log \in Seq(Rows) /\ day \in 1 .. Days
    BY DEF LogInv, TypeOK
  <1>2. \A s \in Seats : HasNewest(log', s)
    <2>1. CASE log' = log
      BY <2>1 DEF LogInv
    <2>2. ASSUME NEW r \in Rows, log' = Append(log, r)
          PROVE  \A s \in Seats : HasNewest(log', s)
      BY <1>1, <2>2, Reads DEF LogInv
    <2>3. Row("halt", day) \in Rows
      BY <1>1 DEF Row, Rows
    <2>. QED  BY <2>1, <2>2, <2>3 DEF LogMoves, GrowsHalt, GrowsFree
  <1>. QED
    BY <1>1, <1>2, Counted DEF LogInv

\* A floor of Unreadable is above every row.
LEMMA Above ==
  ASSUME TypeOK, LogInv, LatchInv
  PROVE  /\ Len(log) \in Nat /\ Len(log) < Unreadable /\ DOMAIN log = 1 .. Len(log)
         /\ \A s \in Seats : ~NoteAfter(log, s, Unreadable)
         /\ Cardinality({}) = 0 /\ \A s \in Seats : Cardinality({s}) = 1
         /\ Cardinality(latching) \in {0, 1} /\ (Cardinality(latching) = 0 <=> latching = {})
  <1>1. /\ Cardinality({}) = 0 /\ \A s \in Seats : Cardinality({s}) = 1
    BY FS_EmptySet, FS_Singleton
  <1>2. Cardinality(latching) \in {0, 1} /\ (Cardinality(latching) = 0 <=> latching = {})
    BY <1>1 DEF LatchInv
  <1>3. log \in Seq(Rows) /\ Len(log) \in Nat /\ DOMAIN log = 1 .. Len(log)
    BY DEF LogInv
  <1>4. /\ Cardinality(Frees) \in Nat
        /\ Cardinality(HaltDays) \in Nat /\ Cardinality(HaltDays) <= Days
    BY <1>3, FiniteParts
  <1>5. Len(log) < Unreadable
    BY <1>2, <1>3, <1>4, Bounds DEF LogInv, Unreadable
  <1>6. \A s \in Seats : ~NoteAfter(log, s, Unreadable)
    BY <1>3, <1>5, Bounds DEF NoteAfter, Unreadable
  <1>. QED
    BY <1>1, <1>2, <1>3, <1>5, <1>6

LEMMA LogTyped ==
  ASSUME TypeOK, LogInv, LogMoves
  PROVE  /\ Len(log) \in Nat /\ Len(log') \in Nat /\ Len(log) <= Len(log')
         /\ \A i \in 1 .. Len(log) : log'[i] = log[i]
         /\ \A i \in DOMAIN log' : log'[i].of \in Seats \cup 1 .. Days
  <1>1. log \in Seq(Rows) /\ Row("halt", day) \in Rows
    BY DEF LogInv, TypeOK, Row, Rows
  <1>2. CASE log' = log
    <2>1. Len(log) \in Nat /\ \A i \in DOMAIN log : log[i] \in Rows
      BY <1>1
    <2>. QED  BY <1>2, <2>1 DEF Rows
  <1>3. ASSUME NEW r \in Rows, log' = Append(log, r)
        PROVE  /\ Len(log) \in Nat /\ Len(log') \in Nat /\ Len(log) <= Len(log')
               /\ \A i \in 1 .. Len(log) : log'[i] = log[i]
               /\ \A i \in DOMAIN log' : log'[i].of \in Seats \cup 1 .. Days
    <2>1. /\ log' \in Seq(Rows) /\ Len(log) \in Nat /\ Len(log') = Len(log) + 1
          /\ \A i \in 1 .. Len(log) : log'[i] = log[i]
      BY <1>1, <1>3, Appended
    <2>2. \A i \in DOMAIN log' : log'[i] \in Rows
      BY <2>1
    <2>. QED  BY <2>1, <2>2 DEF Rows
  <1>. QED  BY <1>1, <1>2, <1>3 DEF LogMoves, GrowsHalt, GrowsFree

-----------------------------------------------------------------------------
(* Seats: the latches *)

LEMMA Remembered ==
  /\ LatchRemembered <=> (phase # "down" => \A s \in Seats \ raced : Remembers(s))
  /\ LatchRemembered' <=> (phase' # "down" => \A s \in Seats \ raced' :
       NewestIn(log', s) > 0 /\ ~NoteAfter(log', s, NewestIn(log', s)) => floor'[s] # Free)
  <1>1. \A s : Newest(s) = NewestIn(log, s) /\ Newest(s)' = NewestIn(log', s)
    BY DEF Newest, NewestIn, Records
  <1>2. \A s, f : ResumedAfter(s, f) <=> NoteAfter(log, s, f)
    BY DEF ResumedAfter, NoteAfter
  <1>3. \A s : ResumedAfter(s, Newest(s))' <=> NoteAfter(log', s, Newest(s)')
    BY DEF ResumedAfter, NoteAfter
  <1>. QED
    BY <1>1, <1>2, <1>3 DEF LatchRemembered, Remembers

\* A step that neither latches nor releases a seat, and appends no escalation of
\* one nor, unnoticed, a note of the seat that is between its latch and its row.
LatchesStay ==
  /\ floor' = floor /\ latching' = latching /\ raced \subseteq raced'
  /\ phase' # "down" => phase # "down"
  /\ \/ log' = log
     \/ \A r \in Rows : log' = Append(log, r) =>
          r.type # "exhausted" /\ \A s \in latching : r = Row("resume", s) => s \in raced'

LEMMA LatchesKept ==
  ASSUME SeatsInv, LogMoves, LatchesStay, log' = log \/ GrowsHalt \/ Room
  PROVE  LogInv' /\ LatchInv' /\ LatchRemembered'
  <1>1. /\ TypeOK /\ LogInv /\ LatchInv /\ log \in Seq(Rows)
        /\ phase # "down" => \A s \in Seats \ raced : Remembers(s)
    BY Remembered DEF SeatsInv, LogInv
  <1>2. LogInv'
    <2>1. Cardinality(Frees') + Cardinality(latching') <= MaxFree
      <3>1. day \in 1 .. Days
        BY <1>1 DEF TypeOK
      <3>2. Cardinality(Frees) \in Nat /\ Cardinality(latching) \in Nat
        BY <1>1, FiniteParts, Above
      <3>3. Room <=> Cardinality(Frees) + Cardinality(latching) < MaxFree
        BY DEF Room, Frees
      <3>. QED
        BY <1>1, <3>1, <3>2, <3>3, Counted, Bounds DEF LatchesStay, LogInv
    <2>. QED  BY <1>1, <2>1, LogKept
  <1>3. CASE log' = log
    <2>1. LatchInv'
      BY <1>1, <1>3 DEF LatchesStay, LatchInv
    <2>2. phase' # "down" => \A s \in Seats \ raced' :
            NewestIn(log', s) > 0 /\ ~NoteAfter(log', s, NewestIn(log', s)) => floor'[s] # Free
      BY <1>1, <1>3 DEF LatchesStay, Remembers
    <2>. QED  BY <1>2, <2>1, <2>2, Remembered
  <1>4. ASSUME NEW r \in Rows, log' = Append(log, r), log' # log
        PROVE  LatchInv' /\ LatchRemembered'
    <2>1. \A s \in Seats :
            /\ floor[s] \in Int /\ NewestIn(log, s) \in 0 .. Len(log)
            /\ NewestIn(log', s) = NewestIn(log, s)
            /\ \A f \in Int :
                 NoteAfter(log', s, f) <=>
                   NoteAfter(log, s, f) \/ (r = Row("resume", s) /\ f < Len(log) + 1)
      <3>1. \A s \in Seats : floor[s] \in Int
        BY <1>1, Bounds DEF TypeOK, Free, Unreadable
      <3>2. \A s \in Seats : r # Row("exhausted", s)
        BY <1>4 DEF LatchesStay, Row
      <3>. QED  BY <1>1, <1>4, <3>1, <3>2, Reads DEF LogInv
    <2>2. Len(log) \in Nat
      BY <1>1
    <2>3. ASSUME NEW s \in latching
          PROVE  floor'[s] # Free /\ (s \notin raced' => ~NoteAfter(log', s, floor'[s]))
      <3>1. s \in Seats /\ (s \notin raced' => r # Row("resume", s))
        BY <1>1, <1>4 DEF LatchesStay, TypeOK
      <3>. QED  BY <1>1, <2>1, <3>1 DEF LatchesStay, LatchInv
    <2>4. ASSUME NEW s \in Seats \ raced'
          PROVE  /\ floor'[s] # Free /\ NoteAfter(log', s, floor'[s])
                      => NewestIn(log', s) = 0 \/ NoteAfter(log', s, NewestIn(log', s))
                 /\ phase' # "down" /\ NewestIn(log', s) > 0
                      /\ ~NoteAfter(log', s, NewestIn(log', s)) => floor'[s] # Free
      BY <1>1, <2>1, <2>2 DEF LatchesStay, LatchInv, Remembers
    <2>. QED
      BY <1>1, <2>3, <2>4, Remembered DEF LatchInv, LatchesStay
  <1>5. Row("halt", day) \in Rows
    BY <1>1 DEF TypeOK, Row, Rows
  <1>. QED
    BY <1>2, <1>3, <1>4, <1>5 DEF LogMoves, GrowsHalt, GrowsFree

-----------------------------------------------------------------------------
(* Seats: the steps that only read the log *)

Others == RolloverKept /\ NoAlertSkipped

LEMMA QuietStep ==
  ASSUME SeatsInv, log' = log, LatchesStay, TypeOK', Others'
  PROVE  SeatsInv'
  BY LatchesKept DEF SeatsInv, LogMoves, Others

SeatsQuiet ==
  \/ RequestStop \/ LoopEnds \/ Drained \/ RelayRead \/ RelaySent
  \/ Midnight \/ LedgerFails \/ LedgerRecovers
  \/ \E s \in Seats : CycleOk(s) \/ CycleCrashes(s) \/ WindowMoves(s)

LEMMA QuietStays ==
  ASSUME SeatsInv, SeatsQuiet
  PROVE  SeatsInv'
  <1>1. TypeOK /\ Others /\ LatchInv /\ log \in Seq(Rows)
    BY DEF SeatsInv, Others, LogInv
  <1>2. log' = log /\ LatchesStay
    BY DEF SeatsQuiet, RequestStop, LoopEnds, Drained, RelayRead, RelaySent, Midnight, LedgerFails,
           LedgerRecovers, CycleOk, CycleCrashes, WindowMoves, LatchesStay, disk, loop, tasks, Loop
  <1>3. Len(log) \in Nat
    BY <1>1
  <1>4. SUFFICES TypeOK' /\ Others'
    BY <1>2, QuietStep
  <1>5. CASE RequestStop \/ LoopEnds
    BY <1>1, <1>5 DEF RequestStop, LoopEnds, Loop, disk, loop, tasks, TypeOK, Others, RolloverKept,
                      NoAlertSkipped
  <1>6. CASE Drained
    BY <1>1, <1>6 DEF Drained, Loop, disk, loop, tasks, TypeOK, Others, RolloverKept,
                      NoAlertSkipped
  <1>7. CASE RelayRead
    BY <1>1, <1>3, <1>7 DEF RelayRead, Loop, disk, loop, tasks, TypeOK, Others, RolloverKept,
                            NoAlertSkipped
  <1>8. CASE RelaySent
    <2>1. TypeOK'
      BY <1>1, <1>3, <1>8 DEF RelaySent, High, Loop, disk, loop, tasks, TypeOK
    <2>2. NoAlertSkipped'
      BY <1>1, <1>8 DEF RelaySent, High, Loop, disk, TypeOK, Others, NoAlertSkipped
    <2>3. RolloverKept'
      BY <1>1, <1>8 DEF RelaySent, Loop, disk, tasks, Others, RolloverKept
    <2>. QED  BY <2>1, <2>2, <2>3 DEF Others
  <1>9. CASE Midnight \/ LedgerFails \/ LedgerRecovers
    <2>1. TypeOK'
      <3>1. CASE Midnight
        BY <1>1, <3>1, Bounds DEF Midnight, loop, tasks, TypeOK
      <3>2. CASE LedgerFails
        BY <1>1, <3>2, Bounds DEF LedgerFails, loop, tasks, TypeOK
      <3>3. CASE LedgerRecovers
        BY <1>1, <3>3 DEF LedgerRecovers, loop, tasks, TypeOK
      <3>. QED  BY <1>9, <3>1, <3>2, <3>3
    <2>2. Others'
      BY <1>1, <1>9 DEF Midnight, LedgerFails, LedgerRecovers, loop, tasks, Others, RolloverKept,
                        NoAlertSkipped
    <2>. QED  BY <2>1, <2>2
  <1>10. ASSUME NEW s \in Seats, CycleOk(s) \/ CycleCrashes(s) \/ WindowMoves(s)
         PROVE  TypeOK' /\ Others'
    <2>1. TypeOK'
      <3>1. CASE CycleOk(s)
        BY <1>1, <3>1 DEF CycleOk, disk, loop, TypeOK
      <3>2. CASE CycleCrashes(s)
        <4>1. crashes \in [Seats -> 0 .. Budget]
          BY <1>1 DEF TypeOK
        <4>2. crashes' \in [Seats -> 0 .. Budget]
          <5>1. CASE crashes' = crashes
            BY <4>1, <5>1
          <5>2. CASE WithinBudget(s) /\ crashes' = [crashes EXCEPT ![s] = @ + 1]
            <6>1. crashes[s] + 1 \in 0 .. Budget
              BY <4>1, <5>2, Bounds DEF WithinBudget
            <6>. QED  BY <4>1, <5>2, <6>1
          <5>. QED  BY <3>2, <5>1, <5>2 DEF CycleCrashes
        <4>. QED  BY <1>1, <3>2, <4>2 DEF CycleCrashes, disk, loop, TypeOK
      <3>3. CASE WindowMoves(s)
        <4>1. crashes' \in [Seats -> 0 .. Budget]
          BY <1>1, <3>3, Bounds DEF WindowMoves, TypeOK
        <4>. QED  BY <1>1, <3>3, <4>1 DEF WindowMoves, disk, loop, TypeOK
      <3>. QED  BY <1>10, <3>1, <3>2, <3>3
    <2>2. Others'
      BY <1>1, <1>10 DEF CycleOk, CycleCrashes, WindowMoves, disk, loop, Others, RolloverKept,
                         NoAlertSkipped
    <2>. QED  BY <2>1, <2>2
  <1>. QED
    BY <1>5, <1>6, <1>7, <1>8, <1>9, <1>10 DEF SeatsQuiet

-----------------------------------------------------------------------------
(* Seats: the steps that append *)

LEMMA GrowingStep ==
  ASSUME SeatsInv, LogMoves, log' = log \/ GrowsHalt \/ Room, LatchesStay, TypeOK', Others'
  PROVE  SeatsInv'
  BY LatchesKept DEF SeatsInv, Others

LEMMA AppendStays ==
  ASSUME log \in Seq(Rows), NEW q \in Rows, log' = Append(log, q), q.type # "exhausted",
         \A s \in latching : q = Row("resume", s) => s \in raced',
         floor' = floor, latching' = latching, raced \subseteq raced', phase' # "down" => phase # "down"
  PROVE  LatchesStay
  <1>1. \A r \in Rows : Append(log, r) = Append(log, q) => r = q
    OBVIOUS
  <1>. QED
    BY <1>1 DEF LatchesStay

LEMMA HaltStays ==
  ASSUME SeatsInv, log' = log \/ GrowsHalt,
         floor' = floor, latching' = latching, raced \subseteq raced', phase' # "down" => phase # "down"
  PROVE  LatchesStay
  <1>1. log \in Seq(Rows) /\ Row("halt", day) \in Rows
    BY DEF SeatsInv, LogInv, TypeOK, Row, Rows
  <1>2. CASE log' = log
    BY <1>2 DEF LatchesStay
  <1>3. CASE GrowsHalt
    <2>1. log' = Append(log, Row("halt", day))
      BY <1>3 DEF GrowsHalt
    <2>2. Row("halt", day).type # "exhausted" /\ \A s \in latching : Row("halt", day) # Row("resume", s)
      BY DEF Row
    <2>. QED  BY <1>1, <2>1, <2>2, AppendStays
  <1>. QED  BY <1>2, <1>3

\* Appends keep what lies before the cursor.
LEMMA OfferedStays ==
  ASSUME SeatsInv, LogMoves, cursor' = cursor, offered' = offered, phase' # "down" => phase # "down"
  PROVE  NoAlertSkipped'
  <1>1. cursor \in 0 .. Len(log) /\ \A i \in 1 .. Len(log) : log'[i] = log[i]
    BY LogTyped DEF SeatsInv, TypeOK
  <1>. QED
    BY <1>1, LogTyped DEF SeatsInv, NoAlertSkipped

LEMMA BeginTickStays ==
  ASSUME SeatsInv, NEW due \in SUBSET Seats, BeginTick(due)
  PROVE  SeatsInv'
  <1>1. TypeOK /\ LogInv /\ Others /\ phase = "loop" /\ latching = {}
    BY DEF SeatsInv, Others, BeginTick, Loop
  <1>2. log' = log \/ GrowsHalt
    BY HaltedMoves DEF BeginTick, HaltFirst
  <1>3. LogMoves /\ LatchesStay
    <2>1. /\ floor' = floor /\ latching' = latching /\ raced \subseteq raced'
          /\ phase' # "down" => phase # "down"
      BY <1>1 DEF BeginTick
    <2>. QED  BY <1>2, <2>1, HaltStays DEF LogMoves
  <1>4. RolledDays \subseteq 1 .. Days /\ RolledDay \in 0 .. Days
    <2>1. day \in 1 .. Days /\ rolled \in 0 .. Days /\ rollovers \subseteq 1 .. Days
      BY <1>1 DEF TypeOK
    <2>2. day \in 0 .. Days
      BY <2>1, Bounds
    <2>. QED  BY <2>1, <2>2 DEF RolledDays, RolledDay
  <1>5. running' \subseteq Seats
    BY <1>1 DEF BeginTick, TypeOK
  <1>6. TypeOK'
    <2>1. /\ rollovers' \subseteq 1 .. Days /\ rolled' \in 0 .. Days /\ phase' = "ticked"
          /\ latching' = latching
      BY <1>4 DEF BeginTick
    <2>2. /\ Len(log) \in Nat /\ Len(log') \in Nat /\ Len(log) <= Len(log')
          /\ \A i \in DOMAIN log' : log'[i].of \in Seats \cup 1 .. Days
      BY <1>1, <1>3, LogTyped
    <2>. QED
      BY <1>1, <1>5, <2>1, <2>2 DEF BeginTick, TypeOK
  <1>7. Others'
    <2>1. NoAlertSkipped'
      BY <1>1, <1>3, OfferedStays DEF BeginTick
    <2>2. RolloverKept'
      <3>1. rolled' = RolledDay /\ rollovers' = RolledDays
        BY DEF BeginTick
      <3>2. CASE ledger = "ok"
        BY <1>1, <3>1, <3>2 DEF RolledDay, RolledDays, RolloverKept, Others
      <3>3. CASE ledger # "ok"
        BY <1>1, <3>1, <3>3 DEF RolledDay, RolledDays, RolloverKept, Others
      <3>. QED  BY <3>2, <3>3
    <2>. QED  BY <2>1, <2>2 DEF Others
  <1>. QED
    BY <1>2, <1>3, <1>6, <1>7, GrowingStep

LEMMA CheckStaleStays ==
  ASSUME SeatsInv, NEW s \in Seats, CheckStale(s)
  PROVE  SeatsInv'
  <1>1. TypeOK /\ LogInv /\ Others /\ phase = "folded" /\ latching = {} /\ Room
    BY DEF SeatsInv, Others, CheckStale, Loop
  <1>2. Row("stale", s) \in Rows
    BY DEF Row, Rows
  <1>3. log' = log \/ GrowsFree(Row("stale", s))
    BY <1>2 DEF CheckStale, GrowsFree, Row
  <1>4. LogMoves
    BY <1>2, <1>3 DEF LogMoves
  <1>5. LatchesStay
    <2>1. /\ floor' = floor /\ latching' = latching /\ raced \subseteq raced'
          /\ phase' # "down" => phase # "down"
      BY <1>1 DEF CheckStale
    <2>2. CASE log' = log
      BY <2>1, <2>2 DEF LatchesStay
    <2>3. CASE log' = Append(log, Row("stale", s))
      <3>1. Row("stale", s).type # "exhausted"
        BY DEF Row
      <3>. QED  BY <1>1, <1>2, <2>1, <2>3, <3>1, AppendStays DEF LogInv
    <2>. QED  BY <1>3, <2>2, <2>3 DEF GrowsFree
  <1>6. TypeOK'
    <2>1. phase' \in {"folded", "draining"} /\ stopping' \in BOOLEAN /\ stale' \subseteq Seats
      BY <1>1 DEF CheckStale, TypeOK
    <2>2. /\ Len(log) \in Nat /\ Len(log') \in Nat /\ Len(log) <= Len(log')
          /\ \A i \in DOMAIN log' : log'[i].of \in Seats \cup 1 .. Days
      BY <1>1, <1>4, LogTyped
    <2>. QED
      BY <1>1, <2>1, <2>2 DEF CheckStale, TypeOK
  <1>7. Others'
    <2>1. NoAlertSkipped'
      BY <1>1, <1>4, OfferedStays DEF CheckStale
    <2>. QED
      BY <1>1, <2>1 DEF Others, CheckStale, RolloverKept
  <1>. QED
    BY <1>1, <1>4, <1>5, <1>6, <1>7, GrowingStep

LEMMA OperatorResumesStays ==
  ASSUME SeatsInv, NEW s \in Seats, OperatorResumes(s)
  PROVE  SeatsInv'
  <1>1. TypeOK /\ LogInv /\ Others /\ Room
    BY DEF SeatsInv, Others, OperatorResumes
  <1>2. Row("resume", s) \in Rows
    BY DEF Row, Rows
  <1>3. GrowsFree(Row("resume", s)) /\ LogMoves
    BY <1>2 DEF OperatorResumes, GrowsFree, LogMoves, Row
  <1>4. LatchesStay
    <2>1. \A u \in Seats : Row("resume", s) = Row("resume", u) => s = u
      BY DEF Row
    <2>2. latching \subseteq Seats /\ Row("resume", s).type # "exhausted"
      BY <1>1 DEF TypeOK, Row
    <2>3. /\ floor' = floor /\ latching' = latching /\ raced \subseteq raced' /\ phase' = phase
          /\ s \in latching => s \in raced'
          /\ log' = Append(log, Row("resume", s))
      BY DEF OperatorResumes, loop, tasks
    <2>. QED  BY <1>1, <1>2, <2>1, <2>2, <2>3, AppendStays DEF LogInv
  <1>5. TypeOK'
    <2>1. /\ Len(log) \in Nat /\ Len(log') \in Nat /\ Len(log) <= Len(log')
          /\ \A i \in DOMAIN log' : log'[i].of \in Seats \cup 1 .. Days
      BY <1>1, <1>3, LogTyped
    <2>2. raced' \subseteq Seats
      BY <1>1 DEF OperatorResumes, TypeOK
    <2>. QED
      BY <1>1, <2>1, <2>2 DEF OperatorResumes, loop, tasks, TypeOK
  <1>6. Others'
    <2>1. NoAlertSkipped'
      BY <1>1, <1>3, OfferedStays DEF OperatorResumes, loop
    <2>. QED
      BY <1>1, <2>1 DEF Others, OperatorResumes, loop, tasks, RolloverKept
  <1>. QED
    BY <1>1, <1>3, <1>4, <1>5, <1>6, GrowingStep

-----------------------------------------------------------------------------
(* The steps that latch, release and rebuild *)

LEMMA Names ==
  /\ \A s : Newest(s) = NewestIn(log, s)
  /\ \A s, f : ResumedAfter(s, f) <=> NoteAfter(log, s, f)
  BY DEF Newest, NewestIn, Records, ResumedAfter, NoteAfter

\* A halt row changes nothing that is read of a seat.
LEMMA HaltReads ==
  ASSUME TypeOK, LogInv, log' = log \/ GrowsHalt, NEW s \in Seats
  PROVE  /\ NewestIn(log, s) \in 0 .. Len(log)
         /\ NewestIn(log', s) = NewestIn(log, s)
         /\ \A f \in Int : NoteAfter(log', s, f) <=> NoteAfter(log, s, f)
  <1>1. log \in Seq(Rows) /\ Row("halt", day) \in Rows
    BY DEF TypeOK, LogInv, Row, Rows
  <1>2. Row("halt", day) # Row("exhausted", s) /\ Row("halt", day) # Row("resume", s)
    BY DEF Row
  <1>3. HasNewest(log, s)
    BY DEF LogInv
  <1>4. CASE log' = log
    <2>1. NewestIn(log, s) \in 0 .. Len(log)
      BY <1>1, <1>2, <1>3, Reads
    <2>. QED  BY <1>4, <2>1
  <1>5. CASE log' = Append(log, Row("halt", day))
    BY <1>1, <1>2, <1>3, <1>5, Reads
  <1>. QED  BY <1>4, <1>5 DEF GrowsHalt

LEMMA StartStays ==
  ASSUME SeatsInv, Start
  PROVE  SeatsInv'
  <1>1. TypeOK /\ LogInv /\ LatchInv /\ log \in Seq(Rows) /\ Len(log) \in Nat
    BY Above DEF SeatsInv, LogInv
  <1>2. log' = log \/ GrowsHalt
    BY HaltedMoves DEF Start
  <1>3. LogMoves
    BY <1>2 DEF LogMoves
  <1>4. /\ latching' = {} /\ running' = {} /\ stale' = {} /\ phase' = "loop" /\ cursor' = 0
        /\ tail' = 0 /\ rolled' = 0 /\ offered' = {} /\ stopping' = FALSE
        /\ crashes' = [s \in Seats |-> 0] /\ raced' = raced
        /\ starts' = starts + 1 /\ starts < MaxStarts
        /\ rollovers' = rollovers /\ ledger' = ledger /\ faults' = faults /\ day' = day
        /\ floor' = [s \in Seats |-> Rebuilt(s)]
        /\ mirror' \subseteq Seats
    BY DEF Start, Fresh
  <1>5. ASSUME NEW s \in Seats
        PROVE  /\ floor'[s] \in Free .. Unreadable
               /\ floor'[s] # Free /\ NoteAfter(log', s, floor'[s])
                    => NewestIn(log', s) = 0 \/ NoteAfter(log', s, NewestIn(log', s))
               /\ NewestIn(log', s) > 0 /\ ~NoteAfter(log', s, NewestIn(log', s))
                    => floor'[s] # Free
    <2>1. /\ NewestIn(log, s) \in 0 .. Len(log)
          /\ NewestIn(log', s) = NewestIn(log, s)
          /\ \A f \in Int : NoteAfter(log', s, f) <=> NoteAfter(log, s, f)
      BY <1>1, <1>2, HaltReads
    <2>2. ~NoteAfter(log, s, Unreadable) /\ Len(log) < Unreadable
      BY <1>1, Above
    <2>3. floor'[s] = IF ledger = "down" THEN Unreadable
                      ELSE IF NewestIn(log, s) = 0 \/ NoteAfter(log, s, NewestIn(log, s)) THEN Free
                      ELSE NewestIn(log, s)
      BY <1>4, Names DEF Rebuilt
    <2>4. Unreadable \in Int /\ Unreadable > 0 /\ Free = -1
      BY Bounds DEF Unreadable, Free
    <2>. QED
      BY <1>1, <2>1, <2>2, <2>3, <2>4
  <1>6. TypeOK'
    <2>1. floor' \in [Seats -> Free .. Unreadable]
      BY <1>4, <1>5
    <2>2. /\ Len(log') \in Nat
          /\ \A i \in DOMAIN log' : log'[i].of \in Seats \cup 1 .. Days
      BY <1>1, <1>3, LogTyped
    <2>3. crashes' \in [Seats -> 0 .. Budget]
      BY <1>4, Bounds
    <2>4. starts' \in 0 .. MaxStarts
      BY <1>1, <1>4, Bounds DEF TypeOK
    <2>5. {latching', running', stale', mirror', raced'} \subseteq SUBSET Seats
      BY <1>1, <1>4 DEF TypeOK
    <2>6. rolled' \in 0 .. Days /\ cursor' \in 0 .. Len(log') /\ tail' \in 0 .. Len(log')
      BY <1>4, <2>2, Bounds
    <2>7. latching' \subseteq running' /\ stopping' \in BOOLEAN
      BY <1>4
    <2>. QED
      BY <1>1, <1>4, <2>1, <2>2, <2>3, <2>4, <2>5, <2>6, <2>7 DEF TypeOK
  <1>7. LogInv'
    <2>1. Cardinality(Frees') + Cardinality(latching') <= MaxFree
      <3>1. day \in 1 .. Days
        BY <1>1 DEF TypeOK
      <3>2. Cardinality(Frees') = Cardinality(Frees) /\ Cardinality(Frees') \in Nat
        BY <1>1, <1>2, <1>3, <3>1, Counted
      <3>. QED
        BY <1>1, <1>4, <3>2, Above, Bounds DEF LogInv
    <2>. QED  BY <1>1, <1>3, <2>1, LogKept
  <1>8. LatchInv'
    BY <1>4, <1>5 DEF LatchInv
  <1>9. LatchRemembered'
    BY <1>5, Remembered
  <1>10. Others'
    BY <1>4 DEF Others, RolloverKept, NoAlertSkipped
  <1>. QED
    BY <1>6, <1>7, <1>8, <1>9, <1>10 DEF SeatsInv, Others

LEMMA GoneStays ==
  ASSUME SeatsInv, Gone, UNCHANGED disk
  PROVE  SeatsInv'
  <1>1. TypeOK /\ LogInv /\ LatchInv
    BY DEF SeatsInv
  <1>2. /\ latching' = {} /\ running' = {} /\ stale' = {} /\ phase' = "down" /\ cursor' = 0
        /\ tail' = 0 /\ rolled' = 0 /\ offered' = {} /\ stopping' = FALSE
        /\ crashes' = [s \in Seats |-> 0] /\ raced' = raced /\ log' = log
        /\ starts' = starts /\ rollovers' = rollovers /\ ledger' = ledger /\ faults' = faults
        /\ day' = day /\ floor' = [s \in Seats |-> Free] /\ mirror' = {}
    BY DEF Gone, Fresh, disk
  <1>3. TypeOK'
    <2>1. Free \in Free .. Unreadable /\ Len(log) \in Nat
      BY <1>1, Bounds, Above DEF Free, Unreadable
    <2>2. floor' \in [Seats -> Free .. Unreadable]
      BY <1>2, <2>1
    <2>3. crashes' \in [Seats -> 0 .. Budget]
      BY <1>2, Bounds
    <2>4. {latching', running', stale', mirror', raced'} \subseteq SUBSET Seats
      BY <1>1, <1>2 DEF TypeOK
    <2>5. rolled' \in 0 .. Days /\ cursor' \in 0 .. Len(log') /\ tail' \in 0 .. Len(log')
      BY <1>2, <2>1, Bounds
    <2>6. latching' \subseteq running' /\ stopping' \in BOOLEAN
      BY <1>2
    <2>. QED
      BY <1>1, <1>2, <2>2, <2>3, <2>4, <2>5, <2>6 DEF TypeOK
  <1>4. LogInv'
    <2>1. Cardinality(Frees') + Cardinality(latching') <= MaxFree
      <3>1. Cardinality(Frees) \in Nat /\ Frees' = Frees
        BY <1>1, <1>2, FiniteParts DEF LogInv, Frees
      <3>. QED
        BY <1>1, <1>2, <3>1, Above, Bounds DEF LogInv
    <2>. QED  BY <1>1, <1>2, <2>1, LogKept DEF LogMoves
  <1>5. LatchInv'
    BY <1>2 DEF LatchInv
  <1>6. LatchRemembered' /\ Others'
    BY <1>2 DEF LatchRemembered, Others, RolloverKept, NoAlertSkipped
  <1>. QED
    BY <1>3, <1>4, <1>5, <1>6 DEF SeatsInv, Others

LEMMA FoldResumeStays ==
  ASSUME SeatsInv, FoldResume
  PROVE  SeatsInv'
  <1>1. /\ TypeOK /\ LogInv /\ LatchInv /\ Others /\ phase = "ticked" /\ latching = {}
        /\ \A s \in Seats \ raced : Remembers(s)
    BY Remembered DEF SeatsInv, Others, FoldResume, Loop
  <1>2. /\ log' = log /\ latching' = latching /\ raced' = raced /\ phase' = "folded"
        /\ floor' = [s \in Seats |-> IF Resumed(s) THEN Free ELSE floor[s]]
        /\ mirror' = {s \in Seats : floor'[s] # Free}
        /\ UNCHANGED <<rollovers, ledger, faults, day, starts, crashes, running, stale, rolled,
                       cursor, tail, offered, stopping>>
    BY DEF FoldResume, Synced, disk
  <1>3. TypeOK'
    <2>1. floor' \in [Seats -> Free .. Unreadable]
      <3>1. Free \in Free .. Unreadable
        BY Bounds DEF Free, Unreadable
      <3>. QED  BY <1>1, <1>2, <3>1 DEF TypeOK
    <2>. QED  BY <1>1, <1>2, <2>1 DEF TypeOK
  <1>4. LogInv'
    BY <1>1, <1>2 DEF LogInv, Frees, HaltDays
  <1>5. LatchInv'
    <2>1. \A s \in Seats : floor'[s] # Free => floor'[s] = floor[s]
      BY <1>2
    <2>. QED  BY <1>1, <1>2, <2>1 DEF LatchInv
  <1>6. LatchRemembered'
    <2>1. ASSUME NEW s \in Seats \ raced, NewestIn(log, s) > 0,
                 ~NoteAfter(log, s, NewestIn(log, s))
          PROVE  floor'[s] # Free
      <3>1. floor[s] # Free
        BY <1>1, <2>1 DEF Remembers
      <3>2. ~NoteAfter(log, s, floor[s])
        <4>1. NewestIn(log, s) # 0
          BY <2>1
        <4>. QED  BY <1>1, <2>1, <3>1, <4>1 DEF LatchInv
      <3>3. ~Resumed(s)
        BY <3>2, Names DEF Resumed
      <3>. QED  BY <1>2, <3>1, <3>3
    <2>. QED  BY <1>2, <2>1, Remembered
  <1>7. Others'
    BY <1>1, <1>2 DEF Others, RolloverKept, NoAlertSkipped
  <1>. QED
    BY <1>3, <1>4, <1>5, <1>6, <1>7 DEF SeatsInv, Others

LEMMA ExhaustedStays ==
  ASSUME SeatsInv, NEW s \in Seats, Exhausted(s)
  PROVE  SeatsInv'
  <1>1. /\ TypeOK /\ LogInv /\ LatchInv /\ Others /\ latching = {} /\ Room /\ s \in running
        /\ log \in Seq(Rows) /\ Len(log) \in Nat /\ phase # "down"
        /\ \A u \in Seats \ raced : Remembers(u)
    BY Above, Remembered DEF SeatsInv, LogInv, Others, Exhausted
  <1>2. log' = log \/ GrowsHalt
    BY HaltedMoves DEF Exhausted
  <1>3. LogMoves
    BY <1>2 DEF LogMoves
  <1>4. /\ latching' = {s} /\ floor' = [floor EXCEPT ![s] = Len(log)]
        /\ UNCHANGED <<rollovers, ledger, faults, day, starts, raced, phase, rolled, mirror, cursor,
                       tail, offered, stopping, crashes, running, stale>>
    BY DEF Exhausted, loop
  <1>5. Len(log) < Unreadable /\ Cardinality({s}) = 1 /\ Cardinality({}) = 0
    BY <1>1, Above
  <1>6. /\ floor \in [Seats -> Free .. Unreadable] /\ Free = -1
        /\ floor' \in [Seats -> Free .. Unreadable] /\ floor'[s] = Len(log)
        /\ \A u \in Seats : u # s => floor'[u] = floor[u]
    <2>1. floor \in [Seats -> Free .. Unreadable]
      BY <1>1 DEF TypeOK
    <2>2. Free = -1 /\ Unreadable \in Nat
      BY Bounds DEF Free, Unreadable
    <2>3. Len(log) \in Free .. Unreadable
      BY <1>1, <1>5, <2>2
    <2>. QED  BY <1>4, <2>1, <2>2, <2>3
  <1>7. TypeOK'
    <2>1. /\ Len(log') \in Nat /\ Len(log) <= Len(log')
          /\ \A i \in DOMAIN log' : log'[i].of \in Seats \cup 1 .. Days
      BY <1>1, <1>3, LogTyped
    <2>. QED
      BY <1>1, <1>4, <1>6, <2>1 DEF TypeOK
  <1>8. LogInv'
    <2>1. Cardinality(Frees') + Cardinality(latching') <= MaxFree
      <3>1. day \in 1 .. Days
        BY <1>1 DEF TypeOK
      <3>2. Cardinality(Frees') = Cardinality(Frees) /\ Cardinality(Frees') \in Nat
        BY <1>1, <1>2, <1>3, <3>1, Counted
      <3>3. Cardinality(Frees) + 0 < MaxFree
        BY <1>1, <1>5 DEF Room, Frees
      <3>. QED
        BY <1>4, <1>5, <3>2, <3>3, Bounds
    <2>. QED  BY <1>1, <1>3, <2>1, LogKept
  <1>9. \A u \in Seats :
          /\ NewestIn(log', u) = NewestIn(log, u) /\ NewestIn(log, u) \in Int
          /\ \A f \in Int : NoteAfter(log', u, f) <=> NoteAfter(log, u, f)
    BY <1>1, <1>2, HaltReads
  <1>10. ~NoteAfter(log', s, Len(log))
    <2>1. ~NoteAfter(log, s, Len(log))
      BY <1>1 DEF NoteAfter
    <2>. QED  BY <1>1, <1>9, <2>1
  <1>11. ASSUME NEW u \in Seats \ raced
         PROVE  /\ floor'[u] # Free /\ NoteAfter(log', u, floor'[u])
                     => NewestIn(log', u) = 0 \/ NoteAfter(log', u, NewestIn(log', u))
                /\ NewestIn(log', u) > 0 /\ ~NoteAfter(log', u, NewestIn(log', u))
                     => floor'[u] # Free
    <2>1. CASE u = s
      BY <1>1, <1>6, <1>10, <2>1
    <2>2. CASE u # s
      <3>1. floor'[u] = floor[u] /\ floor[u] \in Int
        BY <1>6, <2>2
      <3>2. Remembers(u) /\ (floor[u] # Free /\ NoteAfter(log, u, floor[u])
                               => NewestIn(log, u) = 0 \/ NoteAfter(log, u, NewestIn(log, u)))
        BY <1>1 DEF LatchInv
      <3>. QED  BY <1>9, <3>1, <3>2 DEF Remembers
    <2>. QED  BY <2>1, <2>2
  <1>12. LatchInv'
    BY <1>1, <1>4, <1>6, <1>10, <1>11 DEF LatchInv
  <1>13. LatchRemembered'
    BY <1>4, <1>11, Remembered
  <1>14. Others'
    <2>1. NoAlertSkipped'
      BY <1>3, <1>4, OfferedStays
    <2>. QED  BY <1>1, <1>4, <2>1 DEF Others, RolloverKept
  <1>. QED
    BY <1>7, <1>8, <1>12, <1>13, <1>14 DEF SeatsInv, Others

LEMMA EscalateStays ==
  ASSUME SeatsInv, NEW s \in Seats, Escalate(s)
  PROVE  SeatsInv'
  <1>1. /\ TypeOK /\ LogInv /\ LatchInv /\ Others /\ latching = {s} /\ floor[s] # Free
        /\ log \in Seq(Rows) /\ Len(log) \in Nat
        /\ phase # "down" => \A u \in Seats \ raced : Remembers(u)
    BY Above, Remembered DEF SeatsInv, LogInv, LatchInv, Others, Escalate
  <1>2. Row("exhausted", s) \in Rows /\ Row("skew", s) \in Rows
    BY DEF Row, Rows
  <1>3. log' = log \/ log' = Append(log, Row("exhausted", s)) \/ log' = Append(log, Row("skew", s))
    BY DEF Escalate
  <1>4. LogMoves
    BY <1>2, <1>3 DEF LogMoves, GrowsFree, Row
  <1>5. /\ latching' = {} /\ running' = running \ {s} /\ floor' = floor /\ raced' = raced
        /\ UNCHANGED <<rollovers, ledger, faults, day, starts, phase, rolled, mirror, cursor,
                       tail, offered, stopping, crashes, stale>>
    BY DEF Escalate, loop
  <1>6. TypeOK'
    <2>1. /\ Len(log') \in Nat /\ Len(log) <= Len(log')
          /\ \A i \in DOMAIN log' : log'[i].of \in Seats \cup 1 .. Days
      BY <1>1, <1>4, LogTyped
    <2>. QED
      BY <1>1, <1>5, <2>1 DEF TypeOK
  <1>7. LogInv'
    <2>1. Cardinality(Frees') + Cardinality(latching') <= MaxFree
      <3>1. day \in 1 .. Days
        BY <1>1 DEF TypeOK
      <3>2. /\ Cardinality(Frees') <= Cardinality(Frees) + 1 /\ Cardinality(Frees') \in Nat
            /\ Cardinality(Frees) \in Nat
        BY <1>1, <1>4, <3>1, Counted, FiniteParts
      <3>3. Cardinality(latching) = 1 /\ Cardinality(latching') = 0
        BY <1>1, <1>5, Above
      <3>. QED
        BY <1>1, <3>2, <3>3, Bounds DEF LogInv
    <2>. QED  BY <1>1, <1>4, <2>1, LogKept
  <1>8. \A u \in Seats :
          /\ NewestIn(log, u) \in Int /\ floor[u] \in Int
          /\ u # s => NewestIn(log', u) = NewestIn(log, u)
          /\ NewestIn(log', s) = NewestIn(log, s) \/ NewestIn(log', s) = Len(log) + 1
          /\ \A f \in Int : NoteAfter(log', u, f) <=> NoteAfter(log, u, f)
    <2>1. \A u \in Seats : floor[u] \in Int
      BY <1>1, Bounds DEF TypeOK, Free, Unreadable
    <2>2. \A u \in Seats : /\ NewestIn(log, u) \in 0 .. Len(log)
                           /\ log' = log => NewestIn(log', u) = NewestIn(log, u)
      BY <1>1, <1>2, Reads DEF LogInv
    <2>3. \A u \in Seats : /\ Row("skew", s) # Row("exhausted", u)
                           /\ Row("skew", s) # Row("resume", u)
                           /\ Row("exhausted", s) # Row("resume", u)
                           /\ u # s => Row("exhausted", s) # Row("exhausted", u)
      BY DEF Row
    <2>4. CASE log' = log
      BY <1>1, <2>1, <2>2, <2>4
    <2>5. CASE log' = Append(log, Row("exhausted", s))
      BY <1>1, <1>2, <2>1, <2>2, <2>3, <2>5, Reads DEF LogInv
    <2>6. CASE log' = Append(log, Row("skew", s))
      BY <1>1, <1>2, <2>1, <2>2, <2>3, <2>6, Reads DEF LogInv
    <2>. QED  BY <1>3, <2>4, <2>5, <2>6
  <1>9. ASSUME NEW u \in Seats \ raced
        PROVE  /\ floor'[u] # Free /\ NoteAfter(log', u, floor'[u])
                    => NewestIn(log', u) = 0 \/ NoteAfter(log', u, NewestIn(log', u))
               /\ phase # "down" /\ NewestIn(log', u) > 0
                    /\ ~NoteAfter(log', u, NewestIn(log', u)) => floor'[u] # Free
    <2>1. CASE u = s
      <3>1. ~NoteAfter(log', u, floor'[u]) /\ floor'[u] # Free
        BY <1>1, <1>5, <1>8, <2>1 DEF LatchInv
      <3>. QED  BY <3>1
    <2>2. CASE u # s
      <3>1. phase # "down" => Remembers(u)
        BY <1>1
      <3>2. floor[u] # Free /\ NoteAfter(log, u, floor[u])
              => NewestIn(log, u) = 0 \/ NoteAfter(log, u, NewestIn(log, u))
        BY <1>1 DEF LatchInv
      <3>. QED  BY <1>5, <1>8, <2>2, <3>1, <3>2 DEF Remembers
    <2>. QED  BY <2>1, <2>2
  <1>10. LatchInv'
    BY <1>5, <1>9 DEF LatchInv
  <1>11. LatchRemembered'
    BY <1>5, <1>9, Remembered
  <1>12. Others'
    <2>1. NoAlertSkipped'
      BY <1>4, <1>5, OfferedStays
    <2>. QED  BY <1>1, <1>5, <2>1 DEF Others, RolloverKept
  <1>. QED
    BY <1>6, <1>7, <1>10, <1>11, <1>12 DEF SeatsInv, Others

-----------------------------------------------------------------------------
(* Seats: the theorems *)

LEMMA SeatsStart == Init => SeatsInv
  <1>. SUFFICES ASSUME Init PROVE SeatsInv
    OBVIOUS
  <1>1. /\ log = <<>> /\ rollovers = {} /\ ledger = "ok" /\ faults = 0 /\ day = 1 /\ starts = 0
        /\ phase = "down" /\ rolled = 0 /\ mirror = {} /\ cursor = 0 /\ tail = 0
        /\ offered = {} /\ stopping = FALSE /\ raced = {}
        /\ floor = [s \in Seats |-> Free] /\ crashes = [s \in Seats |-> 0]
        /\ latching = {} /\ running = {} /\ stale = {}
    BY DEF Init
  <1>2. TypeOK
    <2>1. floor \in [Seats -> Free .. Unreadable] /\ crashes \in [Seats -> 0 .. Budget]
      BY <1>1, Bounds DEF Free, Unreadable
    <2>2. {latching, running, stale, mirror, raced} \subseteq SUBSET Seats
      BY <1>1
    <2>3. /\ day \in 1 .. Days /\ starts \in 0 .. MaxStarts /\ faults \in 0 .. MaxFaults
          /\ rolled \in 0 .. Days /\ cursor \in 0 .. Len(log) /\ tail \in 0 .. Len(log)
      BY <1>1, Bounds
    <2>4. latching \subseteq running /\ rollovers \subseteq 1 .. Days
      BY <1>1
    <2>5. \A i \in DOMAIN log : log[i].of \in Seats \cup 1 .. Days
      <3>1. log \in Seq(Rows) /\ Len(log) = 0
        BY <1>1
      <3>. QED  BY <3>1
    <2>6. /\ ledger \in {"ok", "readonly", "down"} /\ stopping \in BOOLEAN
          /\ phase \in {"down", "loop", "ticked", "folded", "relaying", "draining", "drained"}
      BY <1>1
    <2>. QED  BY <1>1, <2>1, <2>2, <2>3, <2>4, <2>5, <2>6 DEF TypeOK
  <1>3. LogInv
    <2>1. log \in Seq(Rows) /\ Len(log) = 0
      BY <1>1
    <2>2. Frees = {} /\ \A s \in Seats : Records(log, s) = {}
      BY <1>1 DEF Frees, Records
    <2>3. Cardinality(Frees) = 0 /\ Cardinality(latching) = 0
      BY <1>1, <2>2, FS_EmptySet
    <2>4. Cardinality(HaltDays) \in Nat
      BY <2>1, FiniteParts
    <2>. QED
      BY <2>1, <2>2, <2>3, <2>4, Bounds DEF LogInv, HasNewest
  <1>4. LatchInv /\ LatchRemembered /\ RolloverKept /\ NoAlertSkipped
    BY <1>1 DEF LatchInv, LatchRemembered, RolloverKept, NoAlertSkipped
  <1>. QED  BY <1>2, <1>3, <1>4 DEF SeatsInv

LEMMA SeatsGoOn == SeatsInv /\ [Next]_seatVars => SeatsInv'
  <1>. SUFFICES ASSUME SeatsInv, [Next]_seatVars PROVE SeatsInv'
    OBVIOUS
  <1>1. CASE Start
    BY <1>1, StartStays
  <1>2. CASE Crash \/ Finish
    BY <1>2, GoneStays DEF Crash, Finish
  <1>3. ASSUME NEW due \in SUBSET Seats, BeginTick(due) PROVE SeatsInv'
    BY <1>3, BeginTickStays
  <1>4. CASE FoldResume
    BY <1>4, FoldResumeStays
  <1>5. CASE SeatsQuiet
    BY <1>5, QuietStays
  <1>6. ASSUME NEW s \in Seats,
               CheckStale(s) \/ OperatorResumes(s) \/ Exhausted(s) \/ Escalate(s)
        PROVE  SeatsInv'
    BY <1>6, CheckStaleStays, OperatorResumesStays, ExhaustedStays, EscalateStays
  <1>7. CASE UNCHANGED seatVars
    <2>1. UNCHANGED <<log, rollovers, ledger, faults, day, starts, raced, phase, rolled, mirror,
                      cursor, tail, offered, stopping, floor, crashes, latching, running, stale>>
      BY <1>7 DEF seatVars, disk, loop, tasks
    <2>2. LogMoves /\ LatchesStay
      BY <2>1 DEF LogMoves, LatchesStay
    <2>3. TypeOK'
      BY <2>1 DEF SeatsInv, TypeOK
    <2>4. Others'
      BY <2>1 DEF SeatsInv, Others, RolloverKept, NoAlertSkipped
    <2>. QED  BY <2>1, <2>2, <2>3, <2>4, QuietStep
  <1>. QED
    BY <1>1, <1>2, <1>3, <1>4, <1>5, <1>6, <1>7 DEF Next, LoopTick, Stop, Cycle, SeatsQuiet

LEMMA SeatInvariant == Spec => []SeatsInv
  BY SeatsStart, SeatsGoOn, PTL DEF Spec

\* Types; the latch of _rebuild_exhaustion_latch and fold_resume: whatever crashed,
\* was resumed or failed to be written, a process that runs has latched every seat
\* whose newest exhaustion row no note follows; and a day is closed to
\* _emit_rollover only with its row.
THEOREM RecordsAreActedOn == Spec => []RecordsKept
  <1>1. SeatsInv => RecordsKept
    BY DEF SeatsInv, RecordsKept
  <1>. QED  BY <1>1, SeatInvariant, PTL

\* relay_tail passes no alert row that was not handed to the notifier, also when
\* cycles append while it waits for an answer.
THEOREM NothingIsSkipped == Spec => []NoAlertSkipped
  <1>1. SeatsInv => NoAlertSkipped
    BY DEF SeatsInv
  <1>. QED  BY <1>1, SeatInvariant, PTL

-----------------------------------------------------------------------------
(* Numbers *)

\* A set of numbers has a least one.
LEMMA SmallestOf ==
  ASSUME NEW S \in SUBSET Nat, S # {}
  PROVE  \E m \in S : \A n \in S : m <= n
<1>1. PICK m \in S : \A n \in S : <<n, m>> \notin OpToRel(<, Nat)
  BY NatLessThanWellFounded, WFMin
<1>2. \A n \in S : ~(n < m)
  BY <1>1 DEF OpToRel
<1>. QED  BY <1>2

\* Least picks it.
LEMMA LeastIs ==
  ASSUME NEW S \in SUBSET Nat, S # {}
  PROVE  Least(S) \in S /\ \A j \in S : Least(S) <= j
<1>1. \E m \in S : \A j \in S : m <= j
  BY SmallestOf
<1>. QED  BY <1>1 DEF Least

\* Up to n, n is the greatest number, and Max picks from a set.
LEMMA MaxPicks ==
  /\ \A n \in Nat \ {0} : Max(1 .. n) = n
  /\ \A n \in Nat : \A S \in SUBSET (1 .. n) : S # {} => Max(S) \in S
<1>1. ASSUME NEW n \in Nat \ {0} PROVE Max(1 .. n) = n
  <2>1. n \in 1 .. n /\ \A y \in 1 .. n : n >= y
    OBVIOUS
  <2>2. \A x \in 1 .. n : (\A y \in 1 .. n : x >= y) => x = n
    OBVIOUS
  <2>. QED  BY <2>1, <2>2, Zenon DEF Max
<1>2. ASSUME NEW n \in Nat, NEW S \in SUBSET (1 .. n), S # {} PROVE Max(S) \in S
  <2>1. \A x \in S : x \in Nat /\ n - x \in Nat
    OBVIOUS
  <2>2. PICK Depths \in SUBSET Nat : Depths = {n - x : x \in S}
    <3>1. {n - x : x \in S} \in SUBSET Nat
      BY <2>1
    <3>. QED  BY <3>1
  <2>3. PICK d \in Depths : \A e \in Depths : d <= e
    <3>1. Depths # {}
      BY <1>2, <2>2
    <3>. QED  BY <3>1, SmallestOf
  <2>4. PICK x \in S : d = n - x
    BY <2>2, <2>3
  <2>5. ASSUME NEW y \in S PROVE x >= y
    <3>1. n - x <= n - y
      BY <2>2, <2>3, <2>4
    <3>. QED  BY <2>1, <3>1
  <2>. QED  BY <2>5 DEF Max
<1>. QED  BY <1>1, <1>2

-----------------------------------------------------------------------------
(* The creator book *)

BookRec == [rugs : Nat, seen : Nat \ {0}]
CreatorBooks == {b \in UNION {[D -> BookRec] : D \in SUBSET Deployers} :
            IsFiniteSet(DOMAIN b) /\ Cardinality(DOMAIN b) <= MaxCreators}

\* What a book is.
LEMMA BooksAre ==
  ASSUME NEW b
  PROVE  b \in CreatorBooks <=>
           /\ DOMAIN b \in SUBSET Deployers /\ b \in [DOMAIN b -> BookRec]
           /\ IsFiniteSet(DOMAIN b) /\ Cardinality(DOMAIN b) <= MaxCreators
BY DEF CreatorBooks

LEMMA NoBookYet == EmptyBook \in CreatorBooks /\ DOMAIN EmptyBook = {} /\ Cardinality({}) = 0
<1>1. DOMAIN EmptyBook = {} /\ EmptyBook \in [{} -> BookRec]
  BY DEF EmptyBook
<1>2. IsFiniteSet({}) /\ Cardinality({}) = 0
  BY FS_EmptySet
<1>3. {} \in SUBSET Deployers /\ 0 <= MaxCreators
  BY ScanAssumption
<1>4. EmptyBook \in CreatorBooks
  BY <1>1, <1>2, <1>3, BooksAre
<1>. QED  BY <1>1, <1>2, <1>4

\* Without some of its addresses a book is a book, and loses no others.
LEMMA WithoutIs ==
  ASSUME NEW b \in CreatorBooks, NEW C
  PROVE  /\ Without(b, C) \in CreatorBooks /\ DOMAIN Without(b, C) = DOMAIN b \ C
         /\ \A c \in DOMAIN b \ C : Without(b, C)[c] = b[c]
<1>1. PICK w : w = Without(b, C)
  OBVIOUS
<1>2. DOMAIN w = DOMAIN b \ C /\ \A c \in DOMAIN b \ C : w[c] = b[c]
  BY <1>1 DEF Without
<1>3. /\ DOMAIN b \in SUBSET Deployers /\ b \in [DOMAIN b -> BookRec]
      /\ IsFiniteSet(DOMAIN b) /\ Cardinality(DOMAIN b) <= MaxCreators
  BY BooksAre
<1>4. w \in [DOMAIN b \ C -> BookRec]
  <2>1. \A c \in DOMAIN b \ C : b[c] \in BookRec
    BY <1>3
  <2>. QED  BY <1>1, <2>1 DEF Without
<1>5. IsFiniteSet(DOMAIN b \ C) /\ Cardinality(DOMAIN b \ C) <= Cardinality(DOMAIN b)
  BY <1>3, FS_Subset
<1>6. Cardinality(DOMAIN b \ C) <= MaxCreators
  <2>1. Cardinality(DOMAIN b \ C) \in Nat /\ Cardinality(DOMAIN b) \in Nat
    BY <1>3, <1>5, FS_CardinalityType
  <2>. QED  BY <1>3, <1>5, <2>1, ScanAssumption
<1>7. w \in CreatorBooks
  BY <1>2, <1>3, <1>4, <1>5, <1>6, BooksAre
<1>. QED  BY <1>1, <1>2, <1>7

\* An address the book has, or has room for, and what a record of it writes.
FitsIn(b, c) == c \in DOMAIN b \/ Cardinality(DOMAIN b) < MaxCreators
RugsIn(b, c) == IF c \in DOMAIN b THEN b[c].rugs ELSE 0
WrittenIn(b, c, more, made) ==
  /\ DOMAIN made = DOMAIN b \cup {c} /\ made[c].rugs = RugsIn(b, c) + more
  /\ \A d \in DOMAIN b \ {c} : made[d] = b[d]

\* A record of an address with room for it counts; a new address that finds the
\* book full is the first to go.
LEMMA RecordIs ==
  ASSUME NEW b \in CreatorBooks, NEW c \in Deployers, NEW more \in 0 .. 1, NEW stamp \in Nat \ {0}
  PROVE  /\ Record(b, c, more, stamp) \in CreatorBooks
         /\ FitsIn(b, c) => WrittenIn(b, c, more, Record(b, c, more, stamp))
         /\ ~FitsIn(b, c) => Record(b, c, more, stamp) = b
<1>0. /\ DOMAIN b \in SUBSET Deployers /\ b \in [DOMAIN b -> BookRec]
      /\ IsFiniteSet(DOMAIN b) /\ Cardinality(DOMAIN b) <= MaxCreators
      /\ Cardinality(DOMAIN b) \in Nat /\ MaxCreators \in Nat \ {0}
  BY BooksAre, FS_CardinalityType, ScanAssumption
<1>1. PICK new : new = [x \in DOMAIN b \cup {c} |-> IF x \in DOMAIN b THEN b[x] ELSE [rugs |-> 0, seen |-> 0]]
  OBVIOUS
<1>2. PICK entered : entered = IF c \in DOMAIN b THEN b ELSE new
  OBVIOUS
<1>3. /\ DOMAIN entered = DOMAIN b \cup {c} /\ \A d \in DOMAIN b : entered[d] = b[d]
      /\ c \notin DOMAIN b => entered[c] = [rugs |-> 0, seen |-> 0]
  BY <1>1, <1>2
<1>4. /\ c \in DOMAIN b => Cardinality(DOMAIN entered) <= MaxCreators
      /\ c \notin DOMAIN b => Cardinality(DOMAIN entered) = Cardinality(DOMAIN b) + 1
      /\ IsFiniteSet(DOMAIN entered)
  <2>1. c \in DOMAIN b => DOMAIN entered = DOMAIN b
    BY <1>3
  <2>2. /\ IsFiniteSet(DOMAIN b \cup {c})
        /\ c \notin DOMAIN b => Cardinality(DOMAIN b \cup {c}) = Cardinality(DOMAIN b) + 1
    BY <1>0, FS_AddElement
  <2>. QED  BY <1>0, <1>3, <2>1, <2>2
<1>5. PICK thinned : thinned = IF Cardinality(DOMAIN entered) <= MaxCreators THEN entered
                               ELSE Without(entered, {Evictee(entered)})
  OBVIOUS
<1>6. Record(b, c, more, stamp) =
        IF c \notin DOMAIN thinned THEN thinned
        ELSE [thinned EXCEPT ![c] = [rugs |-> @.rugs + more, seen |-> stamp]]
  BY <1>1, <1>2, <1>5 DEF Record
<1>7. CASE ~FitsIn(b, c)
  <2>1. c \notin DOMAIN b /\ ~(Cardinality(DOMAIN entered) <= MaxCreators)
    BY <1>0, <1>4, <1>7 DEF FitsIn
  <2>2. \A d \in DOMAIN b : GoesBefore(entered[c], entered[d]) /\ ~GoesBefore(entered[d], entered[c])
    <3>. SUFFICES ASSUME NEW d \in DOMAIN b
         PROVE  GoesBefore(entered[c], entered[d]) /\ ~GoesBefore(entered[d], entered[c])
      OBVIOUS
    <3>1. entered[d] = b[d] /\ entered[c].rugs = 0 /\ entered[c].seen = 0
      BY <1>3, <2>1
    <3>2. b[d] \in BookRec
      BY <1>0
    <3>3. b[d].rugs \in Nat /\ b[d].seen \in Nat /\ b[d].seen # 0
      BY <3>2 DEF BookRec
    <3>. QED  BY <3>1, <3>3 DEF GoesBefore, Bad
  <2>3. \A x \in DOMAIN entered : (\A d \in DOMAIN entered \ {x} : GoesBefore(entered[x], entered[d])) <=> x = c
    <3>. SUFFICES ASSUME NEW x \in DOMAIN entered
         PROVE  (\A d \in DOMAIN entered \ {x} : GoesBefore(entered[x], entered[d])) <=> x = c
      OBVIOUS
    <3>1. CASE x = c
      BY <1>3, <2>1, <2>2, <3>1
    <3>2. CASE x # c
      <4>1. c \in DOMAIN entered \ {x} /\ x \in DOMAIN b
        BY <1>3, <3>2
      <4>. QED  BY <2>2, <3>2, <4>1
    <3>. QED  BY <3>1, <3>2
  <2>4. Evictee(entered) = c
    <3>1. c \in DOMAIN entered
      BY <1>3
    <3>. QED  BY <2>3, <3>1, Zenon DEF Evictee
  <2>5. thinned = [d \in DOMAIN entered \ {c} |-> entered[d]]
    BY <1>5, <2>1, <2>4 DEF Without
  <2>6. DOMAIN entered \ {c} = DOMAIN b
    BY <1>3, <2>1
  <2>7. thinned = b
    BY <1>0, <1>3, <2>5, <2>6
  <2>. QED  BY <1>6, <1>7, <2>1, <2>7
<1>8. CASE FitsIn(b, c)
  <2>1. Cardinality(DOMAIN entered) <= MaxCreators
    BY <1>0, <1>4, <1>8 DEF FitsIn
  <2>2. thinned = entered /\ c \in DOMAIN entered
    BY <1>3, <1>5, <2>1
  <2>3. PICK r : r = [rugs |-> entered[c].rugs + more, seen |-> stamp]
    OBVIOUS
  <2>4. PICK after : after = [entered EXCEPT ![c] = r]
    OBVIOUS
  <2>5. Record(b, c, more, stamp) = after
    BY <1>6, <2>2, <2>3, <2>4
  <2>6. entered[c].rugs \in Nat /\ entered[c].rugs = IF c \in DOMAIN b THEN b[c].rugs ELSE 0
    BY <1>0, <1>3 DEF BookRec
  <2>7. r \in BookRec
    BY <2>3, <2>6 DEF BookRec
  <2>8. /\ DOMAIN after = DOMAIN b \cup {c} /\ after[c] = r
        /\ \A d \in DOMAIN b \ {c} : after[d] = b[d]
    BY <1>3, <2>2, <2>4
  <2>9. after \in [DOMAIN after -> BookRec]
    <3>1. after = [d \in DOMAIN b \cup {c} |-> after[d]]
      BY <1>1, <1>2, <1>3, <2>4
    <3>2. \A d \in DOMAIN b \cup {c} : after[d] \in BookRec
      BY <1>0, <2>7, <2>8
    <3>. QED  BY <2>8, <3>1, <3>2
  <2>10. after \in CreatorBooks
    <3>1. DOMAIN after = DOMAIN entered
      BY <1>3, <2>8
    <3>. QED  BY <1>0, <1>4, <2>1, <2>8, <2>9, <3>1, BooksAre
  <2>11. after[c].rugs = RugsIn(b, c) + more
    BY <2>3, <2>6, <2>8 DEF RugsIn
  <2>12. WrittenIn(b, c, more, after)
    BY <2>8, <2>11 DEF WrittenIn
  <2>. QED  BY <1>8, <2>5, <2>10, <2>12
<1>. QED  BY <1>7, <1>8

\* No record takes an address or a rug out of a book.
LEMMA RugsStay ==
  ASSUME NEW b \in CreatorBooks, NEW c \in Deployers, NEW more \in 0 .. 1, NEW stamp \in Nat \ {0}
  PROVE  BadOf(b) \subseteq BadOf(Record(b, c, more, stamp))
<1>1. PICK after : after = Record(b, c, more, stamp)
  OBVIOUS
<1>2. FitsIn(b, c) => WrittenIn(b, c, more, after)
  BY <1>1, RecordIs
<1>3. ~FitsIn(b, c) => after = b
  BY <1>1, RecordIs
<1>4. \A d \in DOMAIN b : b[d].rugs \in Nat
  BY BooksAre DEF BookRec
<1>5. CASE FitsIn(b, c)
  <2>1. /\ DOMAIN after = DOMAIN b \cup {c} /\ \A d \in DOMAIN b \ {c} : after[d] = b[d]
        /\ after[c].rugs = RugsIn(b, c) + more
    BY <1>2, <1>5 DEF WrittenIn
  <2>. SUFFICES ASSUME NEW d \in DOMAIN b, b[d].rugs > 0 PROVE after[d].rugs > 0
    BY <1>1, <2>1 DEF BadOf, Bad
  <2>2. CASE d = c
    BY <1>4, <2>1, <2>2 DEF RugsIn
  <2>3. CASE d # c
    BY <2>1, <2>3
  <2>. QED  BY <2>2, <2>3
<1>. QED  BY <1>1, <1>3, <1>5

-----------------------------------------------------------------------------
(* The book rebuilt from the ledger *)

TakeFill(row, book) == ReplayEvent(book, row)
FillFold == INSTANCE FoldFacts WITH Op <- TakeFill, Choose <- Max
RebuiltTo(k) == FillFold!Iterated(EmptyBook, Fills, 1 .. k)

\* The losses that count for an address among the first k rows.
LossesIn(c, k) ==
  {i \in 1 .. k : /\ Fills[i].type = "close" /\ Fills[i].rug
                  /\ OpenerOf(Fills[i].mint) = c}

\* The rows of the ledger the book is rebuilt from.
FillRec == [type : {"open", "close"}, mint : Launched,
            creator : Deployers \cup {NoAddress}, rug : BOOLEAN]
LEMMA FillsAre ==
  /\ Len(Fills) \in Nat /\ DOMAIN Fills = 1 .. Len(Fills)
  /\ \A i \in DOMAIN Fills : Fills[i] \in FillRec
<1>1. Fills \in Seq(FillRec)
  BY ScanAssumption DEF FillRec
<1>. QED  BY <1>1

LEMMA RebuiltNext ==
  /\ RebuiltTo(0) = EmptyBook
  /\ \A k \in Nat : RebuiltTo(k + 1) = ReplayEvent(RebuiltTo(k), Fills[k + 1])
  /\ RebuildFromLedger.book = RebuiltTo(Len(Fills))
<1>1. RebuiltTo(0) = EmptyBook
  <2>1. 1 .. 0 = {}
    OBVIOUS
  <2>. QED  BY <2>1, FillFold!IteratedEmpty DEF RebuiltTo
<1>2. FillFold!TakesLast
  <2>. SUFFICES ASSUME NEW n \in Nat \ {0} PROVE Max(1 .. n) = n
    BY DEF FillFold!TakesLast
  <2>. QED  BY MaxPicks
<1>3. ASSUME NEW n \in Nat PROVE FillFold!Chooses(1 .. n)
  <2>. SUFFICES ASSUME NEW S \in SUBSET (1 .. n), S # {} PROVE Max(S) \in S
    BY DEF FillFold!Chooses
  <2>. QED  BY MaxPicks
<1>4. ASSUME NEW k \in Nat PROVE RebuiltTo(k + 1) = ReplayEvent(RebuiltTo(k), Fills[k + 1])
  <2>1. FillFold!Chooses(1 .. k + 1)
    <3>1. k + 1 \in Nat
      OBVIOUS
    <3>. QED  BY <1>3, <3>1
  <2>2. RebuiltTo(k + 1) = TakeFill(Fills[k + 1], RebuiltTo(k))
    BY <1>2, <2>1, FillFold!IteratedNext DEF RebuiltTo
  <2>. QED  BY <2>2 DEF TakeFill
<1>5. RebuildFromLedger.book = RebuiltTo(Len(Fills))
  <2>1. RebuildFromLedger.book = FoldLeft(ReplayEvent, EmptyBook, Fills)
    BY DEF RebuildFromLedger
  <2>2. FoldLeft(ReplayEvent, EmptyBook, Fills) = FillFold!Iterated(EmptyBook, Fills, DOMAIN Fills)
    BY DEF FoldLeft, MapThenFoldSet, FillFold!Iterated, FillFold!IsIter, TakeFill
  <2>3. DOMAIN Fills = 1 .. Len(Fills)
    BY ScanAssumption
  <2>. QED  BY <2>1, <2>2, <2>3 DEF RebuiltTo
<1>. QED  BY <1>1, <1>4, <1>5

\* To whom a row is attributed.
LEMMA AttributedTo ==
  ASSUME NEW k \in DOMAIN Fills
  PROVE  Attributed(Fills[k]) \in Deployers \cup {NoAddress}
<1>1. Fills[k] \in FillRec
  BY FillsAre
<1>2. ASSUME NEW mint PROVE OpenerOf(mint) \in Deployers \cup {NoAddress}
  <2>1. PICK opens : opens = {i \in DOMAIN Fills : Fills[i].type = "open" /\ Fills[i].mint = mint
                                /\ Fills[i].creator # NoAddress}
    OBVIOUS
  <2>2. OpenerOf(mint) = IF opens = {} THEN NoAddress ELSE Fills[Least(opens)].creator
    BY <2>1 DEF OpenerOf
  <2>3. CASE opens # {}
    <3>1. DOMAIN Fills = 1 .. Len(Fills) /\ Len(Fills) \in Nat
      BY FillsAre
    <3>3. opens \in SUBSET Nat
      BY <2>1, <3>1
    <3>4. \E m \in opens : \A n \in opens : m <= n
      BY <2>3, <3>3, SmallestOf
    <3>5. Least(opens) \in opens
      BY <3>4, Zenon DEF Least
    <3>6. Least(opens) \in DOMAIN Fills
      BY <2>1, <3>5
    <3>7. Fills[Least(opens)].creator \in Deployers \cup {NoAddress}
      BY <3>6, FillsAre DEF FillRec
    <3>. QED  BY <2>2, <2>3, <3>7
  <2>. QED  BY <2>2, <2>3
<1>. QED  BY <1>1, <1>2 DEF Attributed, FillRec

\* What is known of the book after k rows: an address in it has all its rugs, one
\* without was never met or found the book full.
RebuiltOk(k) ==
  /\ RebuiltTo(k) \in CreatorBooks
  /\ \A c \in DOMAIN RebuiltTo(k) : RebuiltTo(k)[c].rugs = Cardinality(LossesIn(c, k))
  /\ \A c \in Deployers :
       c \in DOMAIN RebuiltTo(k) \/ Cardinality(DOMAIN RebuiltTo(k)) = MaxCreators
         \/ \A i \in 1 .. k : Attributed(Fills[i]) # c

\* A row more adds a loss to one address at most.
LEMMA LossesNext ==
  ASSUME NEW k \in Nat, k + 1 \in DOMAIN Fills, NEW c \in Deployers
  PROVE  LET loss == Fills[k + 1].type = "close" /\ Fills[k + 1].rug /\ Attributed(Fills[k + 1]) = c IN
         /\ Cardinality(LossesIn(c, k)) \in Nat
         /\ Cardinality(LossesIn(c, k + 1)) = Cardinality(LossesIn(c, k)) + (IF loss THEN 1 ELSE 0)
<1>1. PICK row : row = Fills[k + 1]
  OBVIOUS
<1>2. row.type \in {"open", "close"} /\ row.rug \in BOOLEAN
  BY <1>1, FillsAre DEF FillRec
<1>3. PICK A, B : A = LossesIn(c, k) /\ B = LossesIn(c, k + 1)
  OBVIOUS
<1>4. IsFiniteSet(A) /\ Cardinality(A) \in Nat
  <2>1. IsFiniteSet(1 .. k) /\ A \in SUBSET (1 .. k)
    BY <1>3, FS_Interval DEF LossesIn
  <2>2. IsFiniteSet(A)
    BY <2>1, FS_Subset
  <2>. QED  BY <2>2, FS_CardinalityType
<1>5. 1 .. k + 1 = 1 .. k \cup {k + 1} /\ k + 1 \notin 1 .. k
  OBVIOUS
<1>6. CASE row.type = "close" /\ row.rug /\ Attributed(row) = c
  <2>1. B = A \cup {k + 1} /\ k + 1 \notin A
    BY <1>1, <1>3, <1>5, <1>6 DEF LossesIn, Attributed
  <2>2. Cardinality(B) = Cardinality(A) + 1
    BY <1>4, <2>1, FS_AddElement
  <2>. QED  BY <1>1, <1>3, <1>4, <1>6, <2>2
<1>7. CASE ~(row.type = "close" /\ row.rug /\ Attributed(row) = c)
  <2>1. B = A
    BY <1>1, <1>3, <1>5, <1>7 DEF LossesIn, Attributed
  <2>. QED  BY <1>1, <1>3, <1>4, <1>7, <2>1
<1>. QED  BY <1>6, <1>7

LEMMA RebuiltGoesOn ==
  ASSUME NEW k \in Nat, k + 1 \in DOMAIN Fills, RebuiltOk(k)
  PROVE  RebuiltOk(k + 1)
<1>1. PICK b, after, row, a : b = RebuiltTo(k) /\ after = RebuiltTo(k + 1) /\ row = Fills[k + 1] /\ a = Attributed(row)
  OBVIOUS
<1>2. after = IF a = NoAddress THEN b
              ELSE Record(b, a, IF row.type = "close" /\ row.rug THEN 1 ELSE 0, 1)
  BY <1>1, RebuiltNext DEF ReplayEvent
<1>3. a \in Deployers \cup {NoAddress} /\ row.rug \in BOOLEAN
  <2>1. row \in FillRec
    BY <1>1, FillsAre
  <2>. QED  BY <1>1, <2>1, AttributedTo DEF FillRec
<1>4. /\ b \in CreatorBooks /\ \A c \in DOMAIN b : b[c].rugs = Cardinality(LossesIn(c, k))
      /\ \A c \in Deployers :
           c \in DOMAIN b \/ Cardinality(DOMAIN b) = MaxCreators \/ \A i \in 1 .. k : Attributed(Fills[i]) # c
  BY <1>1 DEF RebuiltOk
<1>5. /\ DOMAIN b \in SUBSET Deployers /\ b \in [DOMAIN b -> BookRec] /\ IsFiniteSet(DOMAIN b)
      /\ Cardinality(DOMAIN b) \in Nat /\ Cardinality(DOMAIN b) <= MaxCreators /\ MaxCreators \in Nat
      /\ NoAddress \notin Deployers
  BY <1>4, BooksAre, FS_CardinalityType, ScanAssumption
<1>6. \A i \in 1 .. k + 1 : i \in 1 .. k \/ i = k + 1
  OBVIOUS
<1>7. ASSUME NEW c \in Deployers
      PROVE  LET loss == row.type = "close" /\ row.rug /\ a = c IN
             /\ Cardinality(LossesIn(c, k)) \in Nat
             /\ Cardinality(LossesIn(c, k + 1)) = Cardinality(LossesIn(c, k)) + (IF loss THEN 1 ELSE 0)
  BY <1>1, LossesNext
<1>8. CASE a = NoAddress
  <2>1. after = b
    BY <1>2, <1>8
  <2>2. \A c \in DOMAIN b : Cardinality(LossesIn(c, k + 1)) = Cardinality(LossesIn(c, k))
    <3>. SUFFICES ASSUME NEW c \in DOMAIN b PROVE Cardinality(LossesIn(c, k + 1)) = Cardinality(LossesIn(c, k))
      OBVIOUS
    <3>1. c \in Deployers /\ a # c
      BY <1>5, <1>8
    <3>. QED  BY <1>7, <3>1
  <2>3. \A c \in Deployers : Attributed(Fills[k + 1]) # c
    BY <1>1, <1>5, <1>8
  <2>. QED  BY <1>1, <1>4, <1>6, <2>1, <2>2, <2>3 DEF RebuiltOk
<1>9. CASE a # NoAddress
  <2>0. a \in Deployers
    BY <1>3, <1>9
  <2>1. PICK more \in 0 .. 1 : more = IF row.type = "close" /\ row.rug THEN 1 ELSE 0
    BY <1>3
  <2>2. after = Record(b, a, more, 1)
    BY <1>2, <1>9, <2>1
  <2>5. /\ after \in CreatorBooks
        /\ FitsIn(b, a) => WrittenIn(b, a, more, after)
        /\ ~FitsIn(b, a) => after = b
    <3>1. 1 \in Nat \ {0} /\ b \in CreatorBooks
      BY <1>4
    <3>. QED  BY <2>0, <2>2, <3>1, RecordIs
  <2>3. CASE FitsIn(b, a)
    <3>1. /\ DOMAIN after = DOMAIN b \cup {a}
          /\ after[a].rugs = RugsIn(b, a) + more
          /\ \A d \in DOMAIN b \ {a} : after[d] = b[d]
      BY <2>3, <2>5 DEF WrittenIn
    <3>2. a \notin DOMAIN b => Cardinality(LossesIn(a, k)) = 0
      <4>. SUFFICES ASSUME a \notin DOMAIN b PROVE Cardinality(LossesIn(a, k)) = 0
        OBVIOUS
      <4>1. \A i \in 1 .. k : Attributed(Fills[i]) # a
        BY <1>4, <1>5, <2>0, <2>3 DEF FitsIn
      <4>2. LossesIn(a, k) = {}
        <5>1. \A i \in 1 .. k : Fills[i].type = "close" => Attributed(Fills[i]) = OpenerOf(Fills[i].mint)
          BY DEF Attributed
        <5>. QED  BY <4>1, <5>1 DEF LossesIn
      <4>. QED  BY <4>2, FS_EmptySet
    <3>3. ASSUME NEW c \in DOMAIN after PROVE after[c].rugs = Cardinality(LossesIn(c, k + 1))
      <4>1. c \in Deployers /\ (c = a \/ c \in DOMAIN b \ {a})
        BY <1>5, <2>0, <3>1
      <4>2. /\ Cardinality(LossesIn(c, k)) \in Nat
            /\ Cardinality(LossesIn(c, k + 1)) = Cardinality(LossesIn(c, k)) + (IF a = c THEN more ELSE 0)
        BY <1>7, <2>1, <4>1
      <4>3. CASE c = a
        <5>1. RugsIn(b, a) = Cardinality(LossesIn(a, k))
          BY <1>4, <3>2 DEF RugsIn
        <5>. QED  BY <3>1, <4>2, <4>3, <5>1
      <4>4. CASE c \in DOMAIN b \ {a}
        BY <1>4, <3>1, <4>2, <4>4
      <4>. QED  BY <4>1, <4>3, <4>4
    <3>4. ASSUME NEW c \in Deployers, c \notin DOMAIN after, Cardinality(DOMAIN after) # MaxCreators
          PROVE  \A i \in 1 .. k + 1 : Attributed(Fills[i]) # c
      <4>1. c # a /\ c \notin DOMAIN b
        BY <3>1, <3>4
      <4>2. Cardinality(DOMAIN b) # MaxCreators
        <5>1. Cardinality(DOMAIN b) = MaxCreators => DOMAIN after = DOMAIN b
          BY <1>5, <2>3, <3>1 DEF FitsIn
        <5>. QED  BY <3>4, <5>1
      <4>. QED  BY <1>1, <1>4, <1>6, <4>1, <4>2
    <3>. QED  BY <1>1, <2>5, <3>3, <3>4 DEF RebuiltOk
  <2>4. CASE ~FitsIn(b, a)
    <3>1. after = b
      BY <2>4, <2>5
    <3>2. a \notin DOMAIN b /\ Cardinality(DOMAIN b) = MaxCreators
      BY <1>5, <2>4 DEF FitsIn
    <3>3. \A c \in DOMAIN b : Cardinality(LossesIn(c, k + 1)) = Cardinality(LossesIn(c, k))
      <4>. SUFFICES ASSUME NEW c \in DOMAIN b PROVE Cardinality(LossesIn(c, k + 1)) = Cardinality(LossesIn(c, k))
        OBVIOUS
      <4>1. c \in Deployers /\ a # c
        BY <1>5, <3>2
      <4>. QED  BY <1>7, <4>1
    <3>. QED  BY <1>1, <1>4, <3>1, <3>2, <3>3 DEF RebuiltOk
  <2>. QED  BY <2>3, <2>4
<1>. QED  BY <1>8, <1>9

\* After all rows the rebuilt book is exact: the least number of rows after which it
\* is not has one less after which it is.
LEMMA RebuiltIsOk == RebuiltOk(Len(Fills))
<1>0. PICK n \in Nat : n = Len(Fills) /\ DOMAIN Fills = 1 .. n
  BY FillsAre
<1>1. RebuiltOk(0)
  <2>1. 1 .. 0 = {} /\ RebuiltTo(0) = EmptyBook
    BY RebuiltNext
  <2>. QED  BY <2>1, NoBookYet DEF RebuiltOk
<1>2. PICK Wrong : Wrong = {k \in 0 .. n : ~RebuiltOk(k)}
  OBVIOUS
<1>3. CASE Wrong = {}
  BY <1>0, <1>2, <1>3
<1>4. CASE Wrong # {}
  <2>1. Wrong \in SUBSET (0 .. n)
    BY <1>2
  <2>2. Wrong \in SUBSET Nat
    BY <2>1
  <2>3. PICK m \in Wrong : \A j \in Wrong : m <= j
    BY <1>4, <2>2, SmallestOf
  <2>4. m \in 0 .. n /\ ~RebuiltOk(m) /\ m # 0
    BY <1>1, <1>2, <2>3
  <2>5. m - 1 \in 0 .. n /\ m - 1 \in Nat /\ (m - 1) + 1 = m /\ m \in 1 .. n
    BY <2>4
  <2>6. RebuiltOk(m - 1)
    <3>1. m - 1 \notin Wrong
      BY <2>3, <2>5
    <3>. QED  BY <1>2, <2>5, <3>1
  <2>7. RebuiltOk((m - 1) + 1)
    BY <1>0, <2>5, <2>6, RebuiltGoesOn
  <2>. QED  BY <2>4, <2>5, <2>7
<1>. QED  BY <1>3, <1>4

\* The rebuilt book is a book, and exact.
LEMMA RebuildPromise == RebuildFromLedger.book \in CreatorBooks /\ RebuildExact
<1>1. RebuildFromLedger.book = RebuiltTo(Len(Fills)) /\ DOMAIN Fills = 1 .. Len(Fills)
  BY RebuiltNext, FillsAre
<1>. QED  BY <1>1, RebuiltIsOk DEF RebuiltOk, RebuildExact, LossesIn

-----------------------------------------------------------------------------
(* The book, its file and the processes that load it *)

\* A process whose book holds every rug it wrote.
DeskRec == [stage : {"out", "marking", "up"}, degraded : BOOLEAN, book : CreatorBooks, rugged : SUBSET Deployers]
SafeDesks == {k \in DeskRec : k.rugged \subseteq BadOf(k.book)}

BookTypes ==
  /\ shelf \in [file : {"none", "book", "torn"}, book : CreatorBooks]
  /\ marked \in BOOLEAN /\ lost \in BOOLEAN /\ hidden \in BOOLEAN /\ entries \in Nat
BookInv == BookTypes /\ desks \in [Desks -> SafeDesks] /\ LossVisible

LEMMA SafeDeskIs ==
  ASSUME NEW k
  PROVE  k \in SafeDesks <=>
           /\ k \in [stage : {"out", "marking", "up"}, degraded : BOOLEAN, book : CreatorBooks, rugged : SUBSET Deployers]
           /\ k.rugged \subseteq BadOf(k.book)
BY DEF SafeDesks, DeskRec

LEMMA LoadedIsSafe ==
  ASSUME NEW book \in CreatorBooks, NEW degraded \in BOOLEAN, NEW stage \in {"out", "marking", "up"}
  PROVE  DeskAt(stage, degraded, book) \in SafeDesks
<1>1. BadOf(book) \in SUBSET Deployers
  BY BooksAre DEF BadOf
<1>. QED  BY <1>1 DEF DeskAt, SafeDesks, DeskRec

LEMMA BookStarts == ASSUME BookInit PROVE BookInv
<1>1. EmptyBook \in CreatorBooks /\ NoProcess \in SafeDesks
  BY NoBookYet, LoadedIsSafe DEF NoProcess
<1>. QED  BY <1>1 DEF BookInit, BookInv, BookTypes, LossVisible

\* One process changes: the others keep what they have.
LEMMA OneDesk ==
  ASSUME desks \in [Desks -> SafeDesks], NEW d \in Desks, NEW k \in SafeDesks,
         desks' = [desks EXCEPT ![d] = k]
  PROVE  desks' \in [Desks -> SafeDesks]
OBVIOUS

LEMMA DeskReads ==
  ASSUME BookInv, NEW d \in Desks
  PROVE  desks[d] \in SafeDesks /\ desks[d] \in DeskRec /\ desks[d].book \in CreatorBooks
BY DEF BookInv, SafeDesks, DeskRec

LEMMA DeskLoads ==
  ASSUME BookInv, NEW d \in Desks, LoadMarked(d) \/ LoadMissing(d) \/ LoadBook(d)
  PROVE  BookInv'
<1>0. EmptyBook \in CreatorBooks /\ shelf.book \in CreatorBooks
  BY NoBookYet DEF BookInv, BookTypes
<1>1. PICK book \in CreatorBooks, degraded \in BOOLEAN : Loaded(d, degraded, book)
  BY <1>0 DEF LoadMarked, LoadMissing, LoadBook
<1>2. desks' \in [Desks -> SafeDesks]
  <2>1. PICK k : k = DeskAt("up", degraded, book)
    OBVIOUS
  <2>2. k \in SafeDesks
    BY <2>1, LoadedIsSafe
  <2>. QED  BY <1>1, <2>1, <2>2, OneDesk DEF Loaded, BookInv
<1>3. UNCHANGED <<shelf, marked, entries, lost, hidden>>
  BY DEF LoadMarked, LoadMissing, LoadBook
<1>. QED  BY <1>2, <1>3 DEF BookInv, BookTypes, LossVisible

LEMMA DeskStops ==
  ASSUME BookInv, NEW d \in Desks, Quarantine(d) \/ WriteMarker(d) \/ StopDesk(d)
  PROVE  BookInv'
<1>1. CASE Quarantine(d)
  <2>1. desks' \in [Desks -> SafeDesks]
    <3>1. PICK k : k = DeskAt("marking", TRUE, EmptyBook)
      OBVIOUS
    <3>2. k \in SafeDesks
      BY <3>1, LoadedIsSafe, NoBookYet
    <3>. QED  BY <1>1, <3>1, <3>2, OneDesk DEF Quarantine, BookInv
  <2>2. shelf' \in [file : {"none", "book", "torn"}, book : CreatorBooks]
    BY <1>1, NoBookYet DEF Quarantine, BookInv, BookTypes
  <2>3. UNCHANGED <<marked, entries, lost>> /\ hidden' \in BOOLEAN /\ LossVisible'
    BY <1>1 DEF Quarantine, BookInv, BookTypes, LossVisible
  <2>. QED  BY <2>1, <2>2, <2>3 DEF BookInv, BookTypes
<1>2. CASE WriteMarker(d)
  <2>1. PICK k : k = [desks[d] EXCEPT !.stage = "up"]
    OBVIOUS
  <2>2. k \in SafeDesks
    BY <2>1, DeskReads DEF SafeDesks, DeskRec
  <2>3. desks' = [desks EXCEPT ![d] = k]
    BY <1>2, <2>1 DEF WriteMarker
  <2>. QED  BY <1>2, <2>2, <2>3, OneDesk DEF WriteMarker, BookInv, BookTypes, LossVisible
<1>3. CASE StopDesk(d)
  <2>1. NoProcess \in SafeDesks
    BY NoBookYet, LoadedIsSafe DEF NoProcess
  <2>. QED  BY <1>3, <2>1, OneDesk DEF StopDesk, BookInv, BookTypes, LossVisible
<1>. QED  BY <1>1, <1>2, <1>3

LEMMA DeskNotes ==
  ASSUME BookInv, NEW d \in Desks, NEW c \in Deployers, NEW rugs \in 0 .. 1, Note(d, c, rugs)
  PROVE  BookInv'
<1>1. PICK old, book : old = desks[d] /\ book = Record(desks[d].book, c, rugs, entries + 2)
  OBVIOUS
<1>2. /\ book \in CreatorBooks /\ BadOf(old.book) \subseteq BadOf(book)
  <2>1. entries + 2 \in Nat \ {0} /\ old.book \in CreatorBooks
    BY <1>1, DeskReads DEF BookInv, BookTypes
  <2>. QED  BY <1>1, <2>1, RecordIs, RugsStay
<1>3. PICK R : R = old.rugged \cup ({c} \cap BadOf(book))
  OBVIOUS
<1>4. PICK k : k = [stage |-> "up", degraded |-> old.degraded, book |-> book, rugged |-> R]
  OBVIOUS
<1>5. k \in SafeDesks
  <2>1. old \in DeskRec /\ old.rugged \subseteq BadOf(old.book)
    BY <1>1, DeskReads DEF SafeDesks
  <2>2. R \in SUBSET Deployers /\ R \subseteq BadOf(book)
    BY <1>2, <1>3, <2>1 DEF DeskRec
  <2>. QED  BY <1>2, <1>4, <2>1, <2>2 DEF SafeDesks, DeskRec
<1>7. desks' = [desks EXCEPT ![d] = k]
  BY <1>1, <1>3, <1>4 DEF Note, BookInv
<1>6. entries' = entries + 1 /\ UNCHANGED <<shelf, marked, lost, hidden>>
  BY DEF Note
<1>. QED  BY <1>5, <1>6, <1>7, OneDesk DEF BookInv, BookTypes, LossVisible

LEMMA DeskForgets ==
  ASSUME BookInv, NEW d \in Desks, NEW cutoff, ForgetOlder(d, cutoff)
  PROVE  BookInv'
<1>0. PICK old : old = desks[d]
  OBVIOUS
<1>1. PICK C : C = {c \in DOMAIN old.book : old.book[c].seen < cutoff /\ ~Bad(old.book[c])}
  OBVIOUS
<1>8. PICK book : book = Without(old.book, C)
  OBVIOUS
<1>2. old \in DeskRec /\ old.rugged \subseteq BadOf(old.book) /\ old.book \in CreatorBooks
  BY <1>0, DeskReads DEF SafeDesks
<1>3. book \in CreatorBooks /\ DOMAIN book = DOMAIN old.book \ C /\ \A c \in DOMAIN old.book \ C : book[c] = old.book[c]
  BY <1>8, <1>2, WithoutIs
<1>4. BadOf(old.book) \subseteq BadOf(book)
  BY <1>1, <1>3 DEF BadOf
<1>5. PICK k : k = [old EXCEPT !.book = book]
  OBVIOUS
<1>6. k \in SafeDesks
  BY <1>2, <1>3, <1>4, <1>5 DEF SafeDesks, DeskRec
<1>7. desks' = [desks EXCEPT ![d] = k] /\ UNCHANGED <<shelf, marked, entries, lost, hidden>>
  BY <1>0, <1>1, <1>8, <1>5 DEF ForgetOlder, BookInv
<1>. QED  BY <1>6, <1>7, OneDesk DEF BookInv, BookTypes, LossVisible

LEMMA DeskSaves ==
  ASSUME BookInv, NEW d \in Desks, SaveBook(d)
  PROVE  BookInv'
<1>1. desks[d].book \in CreatorBooks
  BY DeskReads
<1>2. shelf' \in [file : {"none", "book", "torn"}, book : CreatorBooks]
  BY <1>1 DEF SaveBook
<1>3. /\ lost' = (lost /\ (desks[d].degraded \/ shelf.file # "torn"))
      /\ hidden' = (hidden \/ (lost' /\ ~marked)) /\ UNCHANGED <<marked, desks, entries>>
  BY DEF SaveBook
<1>4. lost' \in BOOLEAN /\ hidden' \in BOOLEAN /\ LossVisible'
  BY <1>3, Zenon DEF BookInv, BookTypes, LossVisible
<1>. QED  BY <1>2, <1>3, <1>4 DEF BookInv, BookTypes

LEMMA FileSuffers ==
  ASSUME BookInv, Damage \/ HumanRestores
  PROVE  BookInv'
<1>1. EmptyBook \in CreatorBooks /\ RebuildFromLedger.book \in CreatorBooks
  BY NoBookYet, RebuildPromise
<1>2. CASE Damage
  BY <1>1, <1>2 DEF Damage, BookInv, BookTypes, LossVisible
<1>3. CASE HumanRestores
  BY <1>1, <1>3 DEF HumanRestores, BookInv, BookTypes, LossVisible
<1>. QED  BY <1>2, <1>3

LEMMA BookGoesOn == ASSUME BookInv, [BookNext]_bookVars PROVE BookInv'
<1>1. CASE UNCHANGED bookVars
  BY <1>1 DEF bookVars, BookInv, BookTypes, LossVisible
<1>2. ASSUME NEW d \in Desks, \/ LoadMarked(d) \/ LoadMissing(d) \/ LoadBook(d)
                              \/ Quarantine(d) \/ WriteMarker(d) \/ StopDesk(d)
      PROVE  BookInv'
  BY <1>2, DeskLoads, DeskStops
<1>3. ASSUME NEW d \in Writers, NEW c \in Deployers, NEW rugs \in 0 .. 1, Note(d, c, rugs)
      PROVE  BookInv'
  BY <1>3, DeskNotes, ScanAssumption
<1>4. ASSUME NEW d \in Writers, ForgetOlder(d, entries + 1) \/ SaveBook(d)
      PROVE  BookInv'
  <2>1. d \in Desks
    BY ScanAssumption
  <2>2. CASE ForgetOlder(d, entries + 1)
    BY <2>1, <2>2, DeskForgets
  <2>3. CASE SaveBook(d)
    BY <2>1, <2>3, DeskSaves
  <2>. QED  BY <1>4, <2>2, <2>3
<1>5. CASE Damage \/ HumanRestores
  BY <1>5, FileSuffers
<1>. QED  BY <1>1, <1>2, <1>3, <1>4, <1>5 DEF BookNext

LEMMA BookPromises == ASSUME BookInv PROVE RugsKept /\ LossVisible
<1>1. ASSUME NEW d \in Desks PROVE desks[d].rugged \subseteq DOMAIN desks[d].book
  <2>1. desks[d] \in SafeDesks
    BY DeskReads
  <2>. QED  BY <2>1 DEF SafeDesks, BadOf
<1>. QED  BY <1>1 DEF RugsKept, BookInv

-----------------------------------------------------------------------------
(* The launch filter and the candidates of a replay *)

\* The verdict is the first gate that shuts.
LEMMA FilterIs ==
  ASSUME NEW token, NEW moment \in Int, token.meta \in BOOLEAN, token.curve \in Int,
         token.born \in Int, token.buyers \in Int,
         NEW why, why = PassesFilter(token, moment)
  PROVE  /\ why = "ok" <=> /\ token.meta = TRUE /\ token.curve < MaxCurve /\ AgeOf(token, moment) >= MinAge
                           /\ token.buyers # Unknown /\ token.buyers >= MinBuyers
         /\ why = "too_young" => AgeOf(token, moment) < MinAge
         /\ token.buyers = Unknown
              => why \in {"no_metadata", "curve_too_full", "too_young", "data_unavailable"}
<1>1. PICK a, g : a = AgeOf(token, moment) /\ g = Gates(token, moment)
  OBVIOUS
<1>2. a \in Int /\ MinAge \in Int /\ MaxCurve \in Int /\ MinBuyers \in Int
  BY <1>1, ScanAssumption DEF AgeOf
<1>3. /\ g[1].why = "no_metadata" /\ g[2].why = "curve_too_full" /\ g[3].why = "too_young"
      /\ g[4].why = "data_unavailable" /\ g[5].why = "few_buyers" /\ g[6].why = "ok"
      /\ DOMAIN g = 1 .. 6
  BY <1>1 DEF Gates
<1>4. /\ g[1].shut = ~token.meta /\ g[2].shut = (token.curve >= MaxCurve)
      /\ g[3].shut = (a < MinAge) /\ g[4].shut = (token.buyers = Unknown)
      /\ g[5].shut = (token.buyers < MinBuyers) /\ g[6].shut = TRUE
  BY <1>1, Zenon DEF Gates
<1>5. PICK S : S = {i \in 1 .. 6 : g[i].shut}
  OBVIOUS
<1>6. /\ 1 \in S <=> token.meta = FALSE
      /\ 2 \in S <=> token.curve >= MaxCurve
      /\ 3 \in S <=> a < MinAge
      /\ 4 \in S <=> token.buyers = Unknown
      /\ 5 \in S <=> token.buyers < MinBuyers
      /\ 6 \in S
  <2>1. \A i \in 1 .. 6 : i \in S <=> g[i].shut
    BY <1>5
  <2>2. 1 \in 1 .. 6 /\ 2 \in 1 .. 6 /\ 3 \in 1 .. 6 /\ 4 \in 1 .. 6 /\ 5 \in 1 .. 6 /\ 6 \in 1 .. 6
    OBVIOUS
  <2>3. token.meta = FALSE <=> ~token.meta
    OBVIOUS
  <2>. QED  BY <1>4, <2>1, <2>2, <2>3, Zenon
<1>7. PICK m : m = Least(S)
  OBVIOUS
<1>8. m \in 1 .. 6 /\ m \in S /\ \A j \in S : m <= j
  <2>1. S \in SUBSET (1 .. 6)
    BY <1>5
  <2>2. S \in SUBSET Nat /\ S # {}
    BY <1>6, <2>1
  <2>. QED  BY <1>7, <2>1, <2>2, LeastIs
<1>9. why = g[m].why
  BY <1>1, <1>3, <1>5, <1>7 DEF PassesFilter
<1>10. m = 6 <=> 1 \notin S /\ 2 \notin S /\ 3 \notin S /\ 4 \notin S /\ 5 \notin S
  BY <1>6, <1>8
<1>11. why = "ok" <=> m = 6
  BY <1>3, <1>8, <1>9
<1>12. why = "too_young" <=> m = 3
  BY <1>3, <1>8, <1>9
<1>13. why = "ok" <=> /\ token.meta = TRUE /\ token.curve < MaxCurve /\ a >= MinAge
                      /\ token.buyers # Unknown /\ token.buyers >= MinBuyers
  BY <1>2, <1>6, <1>10, <1>11
<1>14. why = "too_young" => a < MinAge
  BY <1>6, <1>8, <1>12
<1>15. ASSUME token.buyers = Unknown
       PROVE  why \in {"no_metadata", "curve_too_full", "too_young", "data_unavailable"}
  <2>1. m \in 1 .. 4
    BY <1>6, <1>8, <1>15
  <2>. QED  BY <1>3, <1>9, <2>1
<1>. QED  BY <1>1, <1>13, <1>14, <1>15

\* A tick as a candidate.
LEMMA CandidateIs ==
  ASSUME NEW tick \in TicksSeen, NEW c, c = TickToCandidate(tick)
  PROVE  /\ c.meta = tick.meta /\ c.meta \in BOOLEAN /\ c.buyers = tick.buyers /\ c.buyers \in Int
         /\ c.born \in Int /\ (tick.born = Unknown => c.born = 0)
         /\ c.curve \in Int /\ (tick.reserves = Unknown => c.curve = MaxCurve)
<1>1. MinBuyers \in Int /\ MaxCurve \in Int
  BY ScanAssumption
<1>2. /\ tick.meta \in BOOLEAN /\ tick.buyers \in Int /\ tick.born \in Int /\ tick.reserves \in Int
  BY <1>1 DEF TicksSeen, Unknown
<1>. QED  BY <1>1, <1>2 DEF TickToCandidate

\* A candidate that passes has all its records.
LEMMA PassesKnown ==
  ASSUME NEW tick \in TicksSeen, NEW moment \in Int, PassesFilter(TickToCandidate(tick), moment) = "ok"
  PROVE  tick.meta = TRUE /\ tick.born # Unknown /\ tick.buyers # Unknown /\ tick.reserves # Unknown
<1>1. PICK c, why : c = TickToCandidate(tick) /\ why = PassesFilter(c, moment)
  OBVIOUS
<1>2. /\ c.meta = tick.meta /\ c.meta \in BOOLEAN /\ c.buyers = tick.buyers /\ c.buyers \in Int
      /\ c.born \in Int /\ (tick.born = Unknown => c.born = 0)
      /\ c.curve \in Int /\ (tick.reserves = Unknown => c.curve = MaxCurve)
  BY <1>1, CandidateIs
<1>3. c.meta = TRUE /\ c.curve < MaxCurve /\ AgeOf(c, moment) >= MinAge /\ c.buyers # Unknown
  BY <1>1, <1>2, FilterIs
<1>4. c.born # 0
  <2>1. MinAge \in Int /\ MinAge >= 1
    BY ScanAssumption
  <2>2. c.born = 0 => AgeOf(c, moment) = 0
    BY DEF AgeOf
  <2>. QED  BY <1>3, <2>1, <2>2
<1>5. MaxCurve \in Int /\ c.curve \in Int /\ c.curve # MaxCurve
  BY <1>2, <1>3, ScanAssumption
<1>. QED  BY <1>2, <1>3, <1>4, <1>5

\* What a missing record leaves of a tick.
LEMMA BlindTicks ==
  ASSUME NEW tick \in TicksSeen,
         NEW t \in {[tick EXCEPT !.meta = FALSE], [tick EXCEPT !.born = Unknown],
                    [tick EXCEPT !.buyers = Unknown], [tick EXCEPT !.reserves = Unknown]}
  PROVE  /\ t \in TicksSeen
         /\ t.meta = FALSE \/ t.born = Unknown \/ t.buyers = Unknown \/ t.reserves = Unknown
BY DEF TicksSeen

LEMMA CandidatesPromise == ASSUME ticksIn \in Seq(TicksSeen) PROVE CandidatesFailClosed
<1>1. PICK moment, verdicts, decision : /\ moment = MinAge + 1 /\ verdicts = EvaluateCandidates(ticksIn, moment)
                                    /\ decision = DecideReplay(ticksIn, moment)
  OBVIOUS
<1>2. /\ moment \in Int /\ DOMAIN verdicts = DOMAIN ticksIn /\ Len(ticksIn) \in Nat
      /\ DOMAIN ticksIn = 1 .. Len(ticksIn)
      /\ \A i \in DOMAIN ticksIn : ticksIn[i] \in TicksSeen
      /\ \A i \in DOMAIN ticksIn : verdicts[i] = PassesFilter(TickToCandidate(ticksIn[i]), moment)
  BY <1>1, ScanAssumption DEF EvaluateCandidates
<1>3. ASSUME NEW i \in DOMAIN ticksIn,
             NEW t \in {[ticksIn[i] EXCEPT !.meta = FALSE], [ticksIn[i] EXCEPT !.born = Unknown],
                        [ticksIn[i] EXCEPT !.buyers = Unknown], [ticksIn[i] EXCEPT !.reserves = Unknown]}
      PROVE  PassesFilter(TickToCandidate(t), moment) # "ok"
  <2>1. PICK tick : tick = ticksIn[i] /\ tick \in TicksSeen
    BY <1>2
  <2>2. /\ t \in TicksSeen
        /\ t.meta = FALSE \/ t.born = Unknown \/ t.buyers = Unknown \/ t.reserves = Unknown
    BY <2>1, BlindTicks
  <2>. QED  BY <1>2, <2>2, PassesKnown
<1>4. PICK bought : bought = {i \in DOMAIN verdicts : verdicts[i] = "ok"}
  OBVIOUS
<1>5. bought # {} => Least(bought) \in bought /\ \A j \in bought : Least(bought) <= j
  <2>1. bought \in SUBSET (1 .. Len(ticksIn))
    BY <1>2, <1>4
  <2>2. bought \in SUBSET Nat
    BY <2>1
  <2>. QED  BY <2>2, LeastIs
<1>6. decision = IF ticksIn = <<>> THEN [buy |-> FALSE, why |-> "no_events", tick |-> 0]
                 ELSE IF bought # {} THEN [buy |-> TRUE, why |-> "ok", tick |-> Least(bought)]
                 ELSE [buy |-> FALSE, why |-> verdicts[1], tick |-> 1]
  BY <1>1, <1>4 DEF DecideReplay
<1>7. /\ decision.buy <=> bought # {}
      /\ decision.buy => decision.tick = Least(bought)
  <2>1. ticksIn = <<>> => bought = {}
    BY <1>2, <1>4
  <2>. QED  BY <1>6, <2>1
<1>8. decision.buy <=> \E i \in DOMAIN verdicts : verdicts[i] = "ok"
  BY <1>4, <1>7
<1>9. decision.buy => \A i \in 1 .. (decision.tick - 1) : verdicts[i] # "ok"
  <2>. SUFFICES ASSUME bought # {}, NEW i \in 1 .. (Least(bought) - 1) PROVE verdicts[i] # "ok"
    BY <1>7
  <2>1. PICK n : n = Least(bought)
    OBVIOUS
  <2>2. n \in 1 .. Len(ticksIn) /\ \A j \in bought : n <= j
    BY <1>2, <1>4, <1>5, <2>1
  <2>3. i \in 1 .. n - 1 /\ i \in DOMAIN verdicts /\ ~(n <= i)
    BY <1>2, <2>1, <2>2
  <2>. QED  BY <1>4, <2>2, <2>3
<1>10. \A i \in DOMAIN verdicts : verdicts[i] = "ok" =>
         \A t \in {[ticksIn[i] EXCEPT !.meta = FALSE], [ticksIn[i] EXCEPT !.born = Unknown],
                   [ticksIn[i] EXCEPT !.buyers = Unknown], [ticksIn[i] EXCEPT !.reserves = Unknown]} :
           PassesFilter(TickToCandidate(t), moment) # "ok"
  BY <1>2, <1>3, Zenon
<1>. QED  BY <1>1, <1>8, <1>9, <1>10 DEF CandidatesFailClosed

-----------------------------------------------------------------------------
(* What is remembered and what waits *)

Once(s) == \A p, q \in DOMAIN s : s[p] = s[q] => p = q
LaterIn(s, x, b) == \E p, q \in DOMAIN s : p < q /\ s[p] = x /\ s[q] = b

\* A sequence without its i-th element.
WithoutPlace(r, s, i, n) ==
  /\ Len(r) = n - 1 /\ DOMAIN r = 1 .. n - 1
  /\ \A k \in 1 .. n - 1 : r[k] = IF k < i THEN s[k] ELSE s[k + 1]
LEMMA CutIs ==
  ASSUME NEW S, NEW s \in Seq(S), NEW n \in Nat, n = Len(s), NEW i \in 1 .. n
  PROVE  RemoveAt(s, i) \in Seq(S) /\ WithoutPlace(RemoveAt(s, i), s, i, n)
<1>0. PICK r : r = RemoveAt(s, i)
  OBVIOUS
<1>1. DOMAIN s = 1 .. n /\ \A k \in 1 .. n : s[k] \in S
  OBVIOUS
<1>2. PICK a, b : a = SubSeq(s, 1, i - 1) /\ b = SubSeq(s, i + 1, n)
  OBVIOUS
<1>3. a \in Seq(S) /\ Len(a) = i - 1 /\ \A k \in 1 .. i - 1 : a[k] = s[k]
  <2>1. i - 1 \in Int /\ 1 \in Int /\ \A k \in 1 .. i - 1 : s[k] \in S
    BY <1>1
  <2>2. /\ SubSeq(s, 1, i - 1) \in Seq(S)
        /\ Len(SubSeq(s, 1, i - 1)) = IF 1 <= i - 1 THEN i - 1 - 1 + 1 ELSE 0
        /\ \A k \in 1 .. i - 1 - 1 + 1 : SubSeq(s, 1, i - 1)[k] = s[1 + k - 1]
    BY <2>1, SubSeqProperties
  <2>. QED  BY <1>1, <1>2, <2>2
<1>4. b \in Seq(S) /\ Len(b) = n - i /\ \A k \in 1 .. n - i : b[k] = s[i + k]
  <2>1. i + 1 \in Int /\ n \in Int /\ \A k \in i + 1 .. n : s[k] \in S
    BY <1>1
  <2>2. /\ SubSeq(s, i + 1, n) \in Seq(S)
        /\ Len(SubSeq(s, i + 1, n)) = IF i + 1 <= n THEN n - (i + 1) + 1 ELSE 0
        /\ \A k \in 1 .. n - (i + 1) + 1 : SubSeq(s, i + 1, n)[k] = s[(i + 1) + k - 1]
    BY <2>1, SubSeqProperties
  <2>. QED  BY <1>1, <1>2, <2>2
<1>5. r = a \o b
  BY <1>0, <1>2 DEF RemoveAt
<1>6. i \in Int /\ 1 <= i /\ i <= n
  OBVIOUS
<1>7. r \in Seq(S) /\ Len(r) = n - 1
  <2>1. r \in Seq(S) /\ Len(r) = Len(a) + Len(b)
    BY <1>3, <1>4, <1>5, ConcatProperties
  <2>. QED  BY <1>3, <1>4, <1>6, <2>1
<1>8. ASSUME NEW k \in 1 .. n - 1 PROVE r[k] = IF k < i THEN s[k] ELSE s[k + 1]
  <2>1. \A j \in 1 .. Len(a) + Len(b) : (a \o b)[j] = IF j <= Len(a) THEN a[j] ELSE b[j - Len(a)]
    BY <1>3, <1>4, ConcatProperties
  <2>2. k \in 1 .. Len(a) + Len(b)
    BY <1>3, <1>4, <1>6
  <2>3. r[k] = IF k <= Len(a) THEN a[k] ELSE b[k - Len(a)]
    BY <1>5, <2>1, <2>2
  <2>4. CASE k < i
    <3>1. k <= Len(a) /\ k \in 1 .. i - 1
      BY <1>3, <1>6, <2>4
    <3>. QED  BY <1>3, <2>3, <2>4, <3>1
  <2>5. CASE ~(k < i)
    <3>1. ~(k <= Len(a)) /\ k - Len(a) \in 1 .. n - i /\ i + (k - Len(a)) = k + 1
      BY <1>3, <1>6, <2>5
    <3>. QED  BY <1>4, <2>3, <2>5, <3>1
  <2>. QED  BY <2>4, <2>5
<1>9. DOMAIN r = 1 .. n - 1
  BY <1>6, <1>7
<1>. QED  BY <1>0, <1>7, <1>8, <1>9 DEF WithoutPlace

LEMMA MinOfOne == ASSUME NEW k \in Nat PROVE Min({k}) = k
BY DEF Min

\* A mint is taken from among those remembered; the others keep their order.
LEMMA TakenIs ==
  ASSUME NEW s \in Seq(Launched), Once(s), NEW y, NEW r, r = RemoveFirst(s, y)
  PROVE  /\ r \in Seq(Launched) /\ Once(r) /\ Len(r) <= Len(s)
         /\ Range(r) = Range(s) \ {y}
         /\ \A x, b : LaterIn(r, x, b) => LaterIn(s, x, b)
<1>0. PICK n \in Nat : n = Len(s) /\ DOMAIN s = 1 .. n
  OBVIOUS
<1>1. CASE y \notin Range(s)
  <2>1. r = s
    BY <1>0, <1>1 DEF RemoveFirst, Range
  <2>. QED  BY <1>1, <2>1
<1>2. CASE y \in Range(s)
  <2>1. PICK i \in 1 .. n : s[i] = y
    BY <1>0, <1>2 DEF Range
  <2>2. SelectInSeq(s, LAMBDA v : v = y) = i
    <3>1. {k \in 1 .. Len(s) : s[k] = y} = {i}
      BY <1>0, <2>1 DEF Once
    <3>2. Min({i}) = i
      BY <1>0, MinOfOne
    <3>. QED  BY <3>1, <3>2 DEF SelectInSeq
  <2>3. r = RemoveAt(s, i)
    BY <1>0, <2>1, <2>2 DEF RemoveFirst
  <2>4. /\ r \in Seq(Launched) /\ DOMAIN r = 1 .. n - 1 /\ Len(r) = n - 1
        /\ \A k \in 1 .. n - 1 : r[k] = IF k < i THEN s[k] ELSE s[k + 1]
    <3>1. r \in Seq(Launched) /\ WithoutPlace(r, s, i, n)
      BY <1>0, <2>3, CutIs
    <3>. QED  BY <3>1 DEF WithoutPlace
  <2>5. PICK place : place = [k \in 1 .. n - 1 |-> IF k < i THEN k ELSE k + 1]
    OBVIOUS
  <2>6. \A k \in 1 .. n - 1 : place[k] \in 1 .. n /\ place[k] # i /\ r[k] = s[place[k]]
    BY <1>0, <2>4, <2>5
  <2>7. \A k, j \in 1 .. n - 1 : (k < j => place[k] < place[j]) /\ (place[k] = place[j] => k = j)
    BY <1>0, <2>5
  <2>8. \A j \in 1 .. n : j # i => \E k \in 1 .. n - 1 : place[k] = j
    <3>. SUFFICES ASSUME NEW j \in 1 .. n, j # i PROVE \E k \in 1 .. n - 1 : place[k] = j
      OBVIOUS
    <3>1. CASE j < i
      <4>1. j \in 1 .. n - 1 /\ place[j] = j
        BY <1>0, <2>1, <2>5, <3>1
      <4>. QED  BY <4>1
    <3>2. CASE j > i
      <4>1. j - 1 \in 1 .. n - 1 /\ place[j - 1] = j
        BY <1>0, <2>1, <2>5, <3>2
      <4>. QED  BY <4>1
    <3>. QED  BY <3>1, <3>2
  <2>9. Once(r)
    <3>. SUFFICES ASSUME NEW p \in 1 .. n - 1, NEW q \in 1 .. n - 1, r[p] = r[q] PROVE p = q
      BY <2>4 DEF Once
    <3>1. place[p] = place[q]
      BY <1>0, <2>6 DEF Once
    <3>. QED  BY <2>7, <3>1
  <2>10. Range(r) = Range(s) \ {y}
    <3>1. ASSUME NEW k \in 1 .. n - 1 PROVE r[k] \in Range(s) \ {y}
      <4>1. place[k] \in DOMAIN s /\ r[k] = s[place[k]] /\ place[k] # i
        BY <1>0, <2>6
      <4>2. s[place[k]] # y
        BY <1>0, <2>1, <4>1 DEF Once
      <4>. QED  BY <4>1, <4>2 DEF Range
    <3>2. ASSUME NEW j \in 1 .. n, s[j] # y PROVE s[j] \in Range(r)
      <4>1. PICK k \in 1 .. n - 1 : place[k] = j
        BY <2>1, <2>8, <3>2
      <4>. QED  BY <2>4, <2>6, <4>1 DEF Range
    <3>3. Range(r) = {r[k] : k \in 1 .. n - 1} /\ Range(s) = {s[k] : k \in 1 .. n}
      BY <1>0, <2>4 DEF Range
    <3>4. Range(r) \subseteq Range(s) \ {y}
      BY <3>1, <3>3
    <3>5. Range(s) \ {y} \subseteq Range(r)
      BY <3>2, <3>3
    <3>. QED  BY <3>4, <3>5
  <2>11. ASSUME NEW x, NEW b, LaterIn(r, x, b) PROVE LaterIn(s, x, b)
    <3>1. PICK p \in 1 .. n - 1, q \in 1 .. n - 1 : p < q /\ r[p] = x /\ r[q] = b
      BY <2>4, <2>11 DEF LaterIn
    <3>2. place[p] \in DOMAIN s /\ place[q] \in DOMAIN s /\ place[p] < place[q] /\ s[place[p]] = x /\ s[place[q]] = b
      BY <1>0, <2>6, <2>7, <3>1
    <3>. QED  BY <3>2 DEF LaterIn
  <2>12. Len(r) <= Len(s)
    BY <1>0, <2>4
  <2>. QED  BY <2>4, <2>9, <2>10, <2>11, <2>12
<1>. QED  BY <1>1, <1>2

\* The mint remembered last has none behind it; one that was crowded out had all
\* that are remembered now behind it.
LEMMA RememberIs ==
  ASSUME NEW s \in Seq(Launched), Once(s), Len(s) <= MaxRemembered, NEW y \in Launched,
         NEW r, r = Remember(s, y)
  PROVE  /\ r \in Seq(Launched) /\ Once(r) /\ Len(r) <= MaxRemembered
         /\ y \in Range(r) /\ Range(r) \subseteq Range(s) \cup {y}
         /\ \A b : ~LaterIn(r, y, b)
         /\ \A x, b : LaterIn(r, x, b) => b = y \/ LaterIn(s, x, b)
         /\ \A x \in Range(s) : \/ x \in Range(r)
                                \/ Len(r) = MaxRemembered /\ \A b \in Range(r) : b = y \/ LaterIn(s, x, b)
<1>1. PICK mid : mid = RemoveFirst(s, y)
  OBVIOUS
<1>2. /\ mid \in Seq(Launched) /\ Once(mid) /\ Len(mid) <= Len(s) /\ Range(mid) = Range(s) \ {y}
      /\ \A x, b : LaterIn(mid, x, b) => LaterIn(s, x, b)
  BY <1>1, TakenIs
<1>12. PICK kept : kept = Append(mid, y)
  OBVIOUS
<1>3. PICK n \in Nat : /\ n = Len(mid) /\ kept = Append(mid, y) /\ DOMAIN mid = 1 .. n
                       /\ n <= MaxRemembered /\ MaxRemembered \in Nat \ {0}
  <2>1. Len(mid) \in Nat /\ Len(s) \in Nat /\ DOMAIN mid = 1 .. Len(mid) /\ MaxRemembered \in Nat \ {0}
    BY <1>2, ScanAssumption
  <2>2. Len(mid) <= MaxRemembered
    BY <1>2, <2>1
  <2>. QED  BY <1>12, <2>1, <2>2
<1>13. n \in Nat
  BY <1>3
<1>4. /\ kept \in Seq(Launched) /\ Len(kept) = n + 1 /\ DOMAIN kept = 1 .. n + 1 /\ kept[n + 1] = y
      /\ \A k \in 1 .. n : kept[k] = mid[k]
  BY <1>2, <1>3
<1>5. \A k \in 1 .. n + 1 : k = n + 1 \/ k \in 1 .. n
  BY <1>3
<1>6. \A k \in 1 .. n : mid[k] # y /\ mid[k] \in Range(mid)
  BY <1>2, <1>3 DEF Range
<1>7. \A p, q \in 1 .. n + 1 : kept[p] = kept[q] => p = q
  BY <1>2, <1>3, <1>4, <1>5, <1>6 DEF Once
<1>8. Range(kept) = Range(mid) \cup {y}
  <2>1. n + 1 \in 1 .. n + 1 /\ 1 .. n \subseteq 1 .. n + 1
    BY <1>3
  <2>. QED  BY <1>3, <1>4, <1>5, <2>1 DEF Range
<1>9. \A p, q \in 1 .. n + 1 : p < q => kept[p] # y /\ (kept[q] = y \/ LaterIn(mid, kept[p], kept[q]))
  <2>. SUFFICES ASSUME NEW p \in 1 .. n + 1, NEW q \in 1 .. n + 1, p < q
       PROVE  kept[p] # y /\ (kept[q] = y \/ LaterIn(mid, kept[p], kept[q]))
    OBVIOUS
  <2>1. p \in 1 .. n /\ (q \in 1 .. n \/ q = n + 1)
    BY <1>13
  <2>2. kept[p] = mid[p] /\ (q \in 1 .. n => kept[q] = mid[q])
    BY <1>4, <2>1
  <2>. QED  BY <1>3, <1>4, <1>6, <2>1, <2>2 DEF LaterIn
<1>10. CASE ~(Len(kept) > MaxRemembered)
  <2>1. r = kept
    BY <1>1, <1>3, <1>10 DEF Remember
  <2>2. Len(r) <= MaxRemembered
    BY <1>3, <1>4, <1>10, <2>1
  <2>3. \A b : ~LaterIn(r, y, b)
    BY <1>4, <1>9, <2>1 DEF LaterIn
  <2>4. ASSUME NEW x, NEW b, LaterIn(r, x, b) PROVE b = y \/ LaterIn(s, x, b)
    <3>1. PICK p \in 1 .. n + 1, q \in 1 .. n + 1 : p < q /\ kept[p] = x /\ kept[q] = b
      BY <1>4, <2>1, <2>4 DEF LaterIn
    <3>. QED  BY <1>2, <1>9, <3>1
  <2>. QED  BY <1>2, <1>4, <1>7, <1>8, <2>1, <2>2, <2>3, <2>4 DEF Once
<1>11. CASE Len(kept) > MaxRemembered
  <2>1. r = Tail(kept) /\ n = MaxRemembered
    BY <1>1, <1>3, <1>4, <1>11 DEF Remember
  <2>2. /\ r \in Seq(Launched) /\ Len(r) = n /\ DOMAIN r = 1 .. n
        /\ \A k \in 1 .. n : r[k] = kept[k + 1]
    BY <1>3, <1>4, <2>1
  <2>3. \A k \in 1 .. n : k + 1 \in 1 .. n + 1 /\ 1 < k + 1
    BY <1>3
  <2>4. Once(r)
    <3>. SUFFICES ASSUME NEW p \in 1 .. n, NEW q \in 1 .. n, r[p] = r[q] PROVE p = q
      BY <2>2 DEF Once
    <3>1. p + 1 = q + 1
      BY <1>7, <2>2, <2>3
    <3>. QED  BY <1>3, <3>1
  <2>5. y \in Range(r)
    <3>1. n \in 1 .. n /\ r[n] = y
      BY <1>3, <1>4, <2>1, <2>2
    <3>. QED  BY <2>2, <3>1 DEF Range
  <2>6. ASSUME NEW x, NEW b, LaterIn(r, x, b) PROVE x # y /\ (b = y \/ LaterIn(s, x, b))
    <3>1. PICK p \in 1 .. n, q \in 1 .. n : p < q /\ r[p] = x /\ r[q] = b
      BY <2>2, <2>6 DEF LaterIn
    <3>2. p + 1 \in 1 .. n + 1 /\ q + 1 \in 1 .. n + 1 /\ p + 1 < q + 1
      BY <1>13, <3>1
    <3>3. kept[p + 1] = x /\ kept[q + 1] = b
      BY <2>2, <3>1
    <3>. QED  BY <1>2, <1>9, <3>2, <3>3
  <2>7. 1 \in 1 .. n /\ 1 \in 1 .. n + 1 /\ kept[1] = mid[1]
    BY <1>3, <1>4, <2>1
  <2>8. \A b \in Range(r) : b = y \/ LaterIn(s, mid[1], b)
    <3>. SUFFICES ASSUME NEW k \in 1 .. n PROVE r[k] = y \/ LaterIn(s, mid[1], r[k])
      BY <2>2 DEF Range
    <3>. QED  BY <1>2, <1>9, <2>2, <2>3, <2>7
  <2>9. ASSUME NEW x \in Range(s), x \notin Range(r) PROVE x = mid[1]
    <3>1. x \in Range(mid)
      BY <1>2, <2>5, <2>9
    <3>2. PICK k \in 1 .. n : mid[k] = x
      BY <1>3, <3>1 DEF Range
    <3>3. CASE k # 1
      <4>1. k - 1 \in 1 .. n /\ r[k - 1] = x
        BY <1>3, <1>4, <2>2, <3>2, <3>3
      <4>. QED  BY <2>2, <2>9, <4>1 DEF Range
    <3>. QED  BY <3>2, <3>3
  <2>10. Range(r) \subseteq Range(s) \cup {y}
    <3>1. \A k \in 1 .. n : r[k] \in Range(kept)
      BY <1>4, <2>2, <2>3 DEF Range
    <3>2. Range(r) \subseteq Range(kept)
      BY <2>2, <3>1 DEF Range
    <3>. QED  BY <1>2, <1>8, <3>2
  <2>. QED  BY <2>1, <2>2, <2>4, <2>5, <2>6, <2>8, <2>9, <2>10
<1>. QED  BY <1>10, <1>11

\* A launch that waits: the stream has told no buyers.
LaunchRec == [mint : Launched, born : Nat, buyers : {Unknown}, meta : BOOLEAN, curve : Nat]
Waiting == {t \in LaunchRec : Matures(t.mint) => t.born # 0}
MintOnce(s) == \A p, q \in DOMAIN s : s[p].mint = s[q].mint => p = q
MintsIn(s) == {s[i].mint : i \in DOMAIN s}

\* A launch leaves the buffer; the others stay.
LEMMA ForgetIs ==
  ASSUME NEW s \in Seq(Waiting), MintOnce(s), NEW y, NEW r, r = Forget(s, y)
  PROVE  /\ r \in Seq(Waiting) /\ MintOnce(r) /\ Len(r) <= Len(s)
         /\ y \in MintsIn(s) => Len(r) = Len(s) - 1
         /\ Range(r) = {t \in Range(s) : t.mint # y}
<1>0. PICK n \in Nat : n = Len(s) /\ DOMAIN s = 1 .. n
  OBVIOUS
<1>1. CASE y \notin MintsIn(s)
  <2>1. \A i \in 1 .. n : s[i].mint # y
    BY <1>0, <1>1 DEF MintsIn
  <2>2. r = s
    BY <1>0, <2>1 DEF Forget, RemoveFirstMatch
  <2>. QED  BY <1>0, <1>1, <2>1, <2>2 DEF Range
<1>2. CASE y \in MintsIn(s)
  <2>1. PICK i \in 1 .. n : s[i].mint = y
    BY <1>0, <1>2 DEF MintsIn
  <2>2. SelectInSeq(s, LAMBDA t : t.mint = y) = i
    <3>1. {k \in 1 .. Len(s) : s[k].mint = y} = {i}
      BY <1>0, <2>1 DEF MintOnce
    <3>2. Min({i}) = i
      BY <1>0, MinOfOne
    <3>. QED  BY <3>1, <3>2 DEF SelectInSeq
  <2>3. r = RemoveAt(s, i)
    BY <1>0, <2>1, <2>2 DEF Forget, RemoveFirstMatch
  <2>4. /\ r \in Seq(Waiting) /\ DOMAIN r = 1 .. n - 1 /\ Len(r) = n - 1
        /\ \A k \in 1 .. n - 1 : r[k] = IF k < i THEN s[k] ELSE s[k + 1]
    <3>1. r \in Seq(Waiting) /\ WithoutPlace(r, s, i, n)
      BY <1>0, <2>3, CutIs
    <3>. QED  BY <3>1 DEF WithoutPlace
  <2>5. PICK place : place = [k \in 1 .. n - 1 |-> IF k < i THEN k ELSE k + 1]
    OBVIOUS
  <2>6. \A k \in 1 .. n - 1 : place[k] \in 1 .. n /\ place[k] # i /\ r[k] = s[place[k]]
    BY <1>0, <2>4, <2>5
  <2>7. \A k, j \in 1 .. n - 1 : place[k] = place[j] => k = j
    BY <1>0, <2>5
  <2>8. \A j \in 1 .. n : j # i => \E k \in 1 .. n - 1 : place[k] = j
    <3>. SUFFICES ASSUME NEW j \in 1 .. n, j # i PROVE \E k \in 1 .. n - 1 : place[k] = j
      OBVIOUS
    <3>1. CASE j < i
      <4>1. j \in 1 .. n - 1 /\ place[j] = j
        BY <1>0, <2>1, <2>5, <3>1
      <4>. QED  BY <4>1
    <3>2. CASE j > i
      <4>1. j - 1 \in 1 .. n - 1 /\ place[j - 1] = j
        BY <1>0, <2>1, <2>5, <3>2
      <4>. QED  BY <4>1
    <3>. QED  BY <3>1, <3>2
  <2>9. MintOnce(r)
    <3>. SUFFICES ASSUME NEW p \in 1 .. n - 1, NEW q \in 1 .. n - 1, r[p].mint = r[q].mint PROVE p = q
      BY <2>4 DEF MintOnce
    <3>1. place[p] = place[q]
      BY <1>0, <2>6 DEF MintOnce
    <3>. QED  BY <2>7, <3>1
  <2>10. Range(r) = {t \in Range(s) : t.mint # y}
    <3>1. ASSUME NEW k \in 1 .. n - 1 PROVE r[k] \in Range(s) /\ r[k].mint # y
      <4>1. place[k] \in DOMAIN s /\ r[k] = s[place[k]] /\ place[k] # i
        BY <1>0, <2>6
      <4>2. s[place[k]].mint # y
        BY <1>0, <2>1, <4>1 DEF MintOnce
      <4>. QED  BY <4>1, <4>2 DEF Range
    <3>2. ASSUME NEW j \in 1 .. n, s[j].mint # y PROVE s[j] \in Range(r)
      <4>1. PICK k \in 1 .. n - 1 : place[k] = j
        BY <2>1, <2>8, <3>2
      <4>. QED  BY <2>4, <2>6, <4>1 DEF Range
    <3>3. Range(r) = {r[k] : k \in 1 .. n - 1} /\ Range(s) = {s[k] : k \in 1 .. n}
      BY <1>0, <2>4 DEF Range
    <3>. QED  BY <3>1, <3>2, <3>3
  <2>11. Len(r) <= Len(s) /\ Len(r) = Len(s) - 1
    BY <1>0, <2>4
  <2>. QED  BY <2>4, <2>9, <2>10, <2>11
<1>. QED  BY <1>1, <1>2

\* As many mints as a sequence without repetitions is long.
LEMMA CountOnce ==
  ASSUME NEW s \in Seq(Launched), Once(s), NEW T, IsFiniteSet(T), Range(s) \subseteq T
  PROVE  Len(s) <= Cardinality(T)
<1>1. PICK n \in Nat : n = Len(s) /\ DOMAIN s = 1 .. n
  OBVIOUS
<1>2. IsFiniteSet(1 .. n) /\ Cardinality(1 .. n) = n
  <2>1. 1 \in Int /\ n \in Int /\ (1 <= n => n - 1 + 1 = n) /\ (~(1 <= n) => n = 0)
    OBVIOUS
  <2>. QED  BY <2>1, FS_Interval
<1>3. s \in Injection(1 .. n, T)
  <2>1. \A k \in 1 .. n : s[k] \in T
    BY <1>1 DEF Range
  <2>2. s = [k \in 1 .. n |-> s[k]]
    BY <1>1
  <2>3. s \in [1 .. n -> T]
    BY <2>1, <2>2
  <2>. QED  BY <1>1, <2>3 DEF Injection, IsInjective, Once
<1>4. Cardinality(1 .. n) <= Cardinality(T)
  BY <1>2, <1>3, FS_Injection
<1>. QED  BY <1>1, <1>2, <1>4

-----------------------------------------------------------------------------
(* Skips, and what has been skipped since one *)

Verdicts == {"no_metadata", "curve_too_full", "too_young", "data_unavailable"}
Reasons == Verdicts \cup {"stale_no_traction", "buffer_overflow"}
SkipRec == [mint : Launched, why : Reasons]
JudgedIn(sk, i) == sk[i].why \notin {"stale_no_traction", "buffer_overflow"}
Between(sk, i, j) == {sk[k].mint : k \in i .. j} \ {sk[i].mint}
Since(sk, i) == Between(sk, i, Len(sk))
Enough(sk, i) == Cardinality(Since(sk, i)) >= MaxRemembered

LEMMA BetweenFinite ==
  ASSUME NEW sk \in Seq(SkipRec), NEW i \in Nat, NEW j \in Nat
  PROVE  IsFiniteSet(Between(sk, i, j)) /\ Cardinality(Between(sk, i, j)) \in Nat
<1>1. PICK M : M = {sk[k].mint : k \in i .. j}
  OBVIOUS
<1>2. PICK f : f = [k \in i .. j |-> sk[k].mint]
  OBVIOUS
<1>3. IsFiniteSet(i .. j)
  BY FS_Interval
<1>4. f \in Surjection(i .. j, M)
  BY <1>1, <1>2 DEF Surjection
<1>5. IsFiniteSet(M)
  BY <1>3, <1>4, FS_Surjection
<1>6. IsFiniteSet(Between(sk, i, j))
  BY <1>1, <1>5, FS_Subset DEF Between
<1>. QED  BY <1>6, FS_CardinalityType

\* One more skip adds its mint.
LEMMA SinceNext ==
  ASSUME NEW sk \in Seq(SkipRec), NEW row \in SkipRec, NEW i \in DOMAIN sk
  PROVE  /\ Since(sk, i) \subseteq Since(Append(sk, row), i)
         /\ row.mint # sk[i].mint => row.mint \in Since(Append(sk, row), i)
         /\ Enough(sk, i) => Enough(Append(sk, row), i)
<1>1. PICK n \in Nat : n = Len(sk) /\ DOMAIN sk = 1 .. n /\ i \in 1 .. n
  OBVIOUS
<1>2. PICK more : more = Append(sk, row)
  OBVIOUS
<1>3. /\ more \in Seq(SkipRec) /\ Len(more) = n + 1 /\ more[n + 1] = row
      /\ \A k \in 1 .. n : more[k] = sk[k]
  BY <1>1, <1>2
<1>4. n + 1 \in i .. n + 1 /\ i .. n \subseteq i .. n + 1 /\ i .. n \subseteq 1 .. n
  BY <1>1
<1>5. Since(sk, i) = {sk[k].mint : k \in i .. n} \ {sk[i].mint}
  BY <1>1 DEF Since, Between
<1>6. Since(more, i) = {more[k].mint : k \in i .. n + 1} \ {sk[i].mint}
  BY <1>1, <1>3 DEF Since, Between
<1>7. Since(sk, i) \subseteq Since(more, i)
  <2>. SUFFICES ASSUME NEW k \in i .. n, sk[k].mint # sk[i].mint PROVE sk[k].mint \in Since(more, i)
    BY <1>5
  <2>1. k \in i .. n + 1 /\ more[k].mint = sk[k].mint
    BY <1>3, <1>4
  <2>. QED  BY <1>6, <2>1
<1>8. row.mint # sk[i].mint => row.mint \in Since(more, i)
  BY <1>3, <1>4, <1>6
<1>9. Enough(sk, i) => Enough(more, i)
  <2>1. /\ IsFiniteSet(Since(more, i)) /\ Cardinality(Since(more, i)) \in Nat
        /\ Cardinality(Since(sk, i)) \in Nat
    <3>1. i \in Nat /\ n + 1 \in Nat
      BY <1>1
    <3>. QED  BY <1>1, <1>3, <3>1, BetweenFinite DEF Since
  <2>2. Cardinality(Since(sk, i)) <= Cardinality(Since(more, i))
    BY <1>7, <2>1, FS_Subset
  <2>3. MaxRemembered \in Nat
    BY ScanAssumption
  <2>. QED  BY <2>1, <2>2, <2>3 DEF Enough
<1>. QED  BY <1>2, <1>7, <1>8, <1>9

-----------------------------------------------------------------------------
(* What the monitor holds *)

\* The buffer; the mints remembered, in the order of their last skips; those
\* buffered though they were judged; the skips themselves.
PoolOk(buf) == buf \in Seq(Waiting) /\ MintOnce(buf) /\ Len(buf) <= MaxPending
SeenOk(rem, sk) ==
  /\ rem \in Seq(Launched) /\ Once(rem) /\ Len(rem) <= MaxRemembered
  /\ Range(rem) \subseteq MintsIn(sk)
  /\ \A i \in DOMAIN sk : sk[i].mint \in Range(rem) \/ Enough(sk, i)
  /\ \A i \in DOMAIN sk : \A b : LaterIn(rem, sk[i].mint, b) => b \in Since(sk, i)
FreshOk(buf, sk) ==
  \A i \in DOMAIN sk : JudgedIn(sk, i) /\ sk[i].mint \in MintsIn(buf) => Enough(sk, i)
RejudgedLate(sk) ==
  \A i, j \in DOMAIN sk :
    i < j /\ sk[i].mint = sk[j].mint /\ JudgedIn(sk, i) /\ JudgedIn(sk, j)
      => Cardinality(Between(sk, i, j)) >= MaxRemembered
StaleJudged(sk) ==
  \A i \in DOMAIN sk : sk[i].why = "stale_no_traction" /\ Matures(sk[i].mint)
    => i > 1 /\ sk[i - 1].mint = sk[i].mint /\ JudgedIn(sk, i - 1)
TrailOk(sk) == sk \in Seq(SkipRec) /\ RejudgedLate(sk) /\ StaleJudged(sk)

MonRec == [buffer : Seq(Waiting), remembered : Seq(Launched), skips : Seq(SkipRec), yielded : {<<>>}]
MonOk(m) ==
  /\ m \in MonRec /\ PoolOk(m.buffer) /\ SeenOk(m.remembered, m.skips)
  /\ FreshOk(m.buffer, m.skips) /\ TrailOk(m.skips)
NamedIn(m) == MintsIn(m.buffer) \cup MintsIn(m.skips)

LEMMA SkipIs ==
  ASSUME NEW m \in MonRec, NEW x \in Launched, NEW why
  PROVE  Skip(m, x, why) =
           [buffer |-> Forget(m.buffer, x), remembered |-> Remember(m.remembered, x),
            skips |-> Append(m.skips, [mint |-> x, why |-> why]), yielded |-> m.yielded]
<1>1. PICK buf, rem, sk : /\ buf = Forget(m.buffer, x) /\ rem = Remember(m.remembered, x)
                          /\ sk = Append(m.skips, [mint |-> x, why |-> why])
  OBVIOUS
<1>2. PICK half, out : half = [m EXCEPT !.buffer = buf] /\ out = [half EXCEPT !.remembered = rem]
  OBVIOUS
<1>3. half = [buffer |-> buf, remembered |-> m.remembered, skips |-> m.skips, yielded |-> m.yielded]
  BY <1>2 DEF MonRec
<1>4. out = [buffer |-> buf, remembered |-> rem, skips |-> m.skips, yielded |-> m.yielded]
  BY <1>2, <1>3
<1>5. Out(m, x) = out
  <2>1. [half EXCEPT !.remembered = rem] = [half EXCEPT !.remembered = Remember(@, x)]
    BY <1>1, <1>3
  <2>. QED  BY <1>1, <1>2, <2>1 DEF Out
<1>6. Skip(m, x, why) = [out EXCEPT !.skips = sk]
  BY <1>1, <1>4, <1>5 DEF Skip
<1>. QED  BY <1>1, <1>4, <1>6

\* The skips with one more.
LEMMA TrailNext ==
  ASSUME NEW sk, TrailOk(sk), NEW row \in SkipRec,
         row.why \notin {"stale_no_traction", "buffer_overflow"}
           => \A i \in DOMAIN sk : JudgedIn(sk, i) /\ sk[i].mint = row.mint => Enough(sk, i),
         row.why = "stale_no_traction" /\ Matures(row.mint)
           => Len(sk) > 0 /\ sk[Len(sk)].mint = row.mint /\ JudgedIn(sk, Len(sk))
  PROVE  TrailOk(Append(sk, row))
<1>1. PICK n \in Nat : n = Len(sk) /\ DOMAIN sk = 1 .. n /\ sk \in Seq(SkipRec)
  BY DEF TrailOk
<1>2. PICK more : more = Append(sk, row)
  OBVIOUS
<1>3. /\ more \in Seq(SkipRec) /\ Len(more) = n + 1 /\ DOMAIN more = 1 .. n + 1 /\ more[n + 1] = row
      /\ \A k \in 1 .. n : more[k] = sk[k]
  BY <1>1, <1>2
<1>4. \A k \in 1 .. n + 1 : k \in 1 .. n \/ k = n + 1
  BY <1>1
<1>5. \A i \in 1 .. n : JudgedIn(more, i) <=> JudgedIn(sk, i)
  BY <1>3 DEF JudgedIn
<1>6. \A i, j \in 1 .. n : Between(more, i, j) = Between(sk, i, j)
  <2>. SUFFICES ASSUME NEW i \in 1 .. n, NEW j \in 1 .. n PROVE Between(more, i, j) = Between(sk, i, j)
    OBVIOUS
  <2>1. \A k \in i .. j : k \in 1 .. n
    BY <1>1
  <2>2. \A k \in i .. j : more[k].mint = sk[k].mint
    BY <1>3, <2>1
  <2>3. more[i].mint = sk[i].mint
    BY <1>3
  <2>. QED  BY <2>2, <2>3 DEF Between
<1>7. RejudgedLate(more)
  <2>. SUFFICES ASSUME NEW i \in 1 .. n + 1, NEW j \in 1 .. n + 1, i < j, more[i].mint = more[j].mint,
                       JudgedIn(more, i), JudgedIn(more, j)
       PROVE  Cardinality(Between(more, i, j)) >= MaxRemembered
    BY <1>3 DEF RejudgedLate
  <2>1. i \in 1 .. n
    BY <1>1
  <2>2. CASE j \in 1 .. n
    BY <1>1, <1>3, <1>5, <1>6, <2>1, <2>2 DEF TrailOk, RejudgedLate
  <2>3. CASE j = n + 1
    <3>1. row.why \notin {"stale_no_traction", "buffer_overflow"} /\ sk[i].mint = row.mint /\ JudgedIn(sk, i)
      BY <1>3, <1>5, <2>1, <2>3 DEF JudgedIn
    <3>2. Enough(sk, i)
      BY <1>1, <2>1, <3>1
    <3>3. Enough(more, i)
      BY <1>1, <1>2, <2>1, <3>2, SinceNext
    <3>. QED  BY <1>3, <2>3, <3>3 DEF Enough, Since
  <2>. QED  BY <1>4, <2>2, <2>3
<1>8. StaleJudged(more)
  <2>. SUFFICES ASSUME NEW i \in 1 .. n + 1, more[i].why = "stale_no_traction",
                       Matures(more[i].mint)
       PROVE  i > 1 /\ more[i - 1].mint = more[i].mint /\ JudgedIn(more, i - 1)
    BY <1>3 DEF StaleJudged
  <2>1. CASE i \in 1 .. n
    <3>1. i > 1 /\ sk[i - 1].mint = sk[i].mint /\ JudgedIn(sk, i - 1)
      BY <1>1, <1>3, <2>1 DEF TrailOk, StaleJudged
    <3>2. i - 1 \in 1 .. n
      BY <1>1, <2>1, <3>1
    <3>. QED  BY <1>3, <1>5, <2>1, <3>1, <3>2
  <2>2. CASE i = n + 1
    <3>1. row.why = "stale_no_traction" /\ n > 0 /\ sk[n].mint = row.mint /\ JudgedIn(sk, n)
      BY <1>1, <1>3, <2>2
    <3>2. n \in 1 .. n /\ i - 1 = n /\ i > 1
      BY <1>1, <2>2, <3>1
    <3>. QED  BY <1>3, <1>5, <2>2, <3>1, <3>2
  <2>. QED  BY <1>4, <2>1, <2>2
<1>. QED  BY <1>2, <1>3, <1>7, <1>8 DEF TrailOk

\* A mint is remembered with its skip.
LEMMA SeenNext ==
  ASSUME NEW rem, NEW sk \in Seq(SkipRec), SeenOk(rem, sk), NEW row \in SkipRec
  PROVE  SeenOk(Remember(rem, row.mint), Append(sk, row))
<1>1. PICK n \in Nat : n = Len(sk) /\ DOMAIN sk = 1 .. n
  OBVIOUS
<1>2. PICK more, x, r : more = Append(sk, row) /\ x = row.mint /\ r = Remember(rem, x)
  OBVIOUS
<1>3. /\ more \in Seq(SkipRec) /\ DOMAIN more = 1 .. n + 1 /\ more[n + 1] = row
      /\ \A k \in 1 .. n : more[k] = sk[k]
  BY <1>1, <1>2
<1>4. \A k \in 1 .. n + 1 : k \in 1 .. n \/ k = n + 1
  BY <1>1
<1>5. x \in Launched /\ rem \in Seq(Launched) /\ Once(rem) /\ Len(rem) <= MaxRemembered
  BY <1>2 DEF SkipRec, SeenOk
<1>6. /\ r \in Seq(Launched) /\ Once(r) /\ Len(r) <= MaxRemembered
      /\ x \in Range(r) /\ Range(r) \subseteq Range(rem) \cup {x}
      /\ \A b : ~LaterIn(r, x, b)
      /\ \A z, b : LaterIn(r, z, b) => b = x \/ LaterIn(rem, z, b)
      /\ \A z \in Range(rem) : \/ z \in Range(r)
                               \/ Len(r) = MaxRemembered /\ \A b \in Range(r) : b = x \/ LaterIn(rem, z, b)
  BY <1>2, <1>5, RememberIs
<1>7. \A i \in 1 .. n : /\ Since(sk, i) \subseteq Since(more, i)
                        /\ x # sk[i].mint => x \in Since(more, i)
                        /\ Enough(sk, i) => Enough(more, i)
  BY <1>1, <1>2, SinceNext
<1>8. Range(r) \subseteq MintsIn(more)
  <2>1. MintsIn(sk) \subseteq MintsIn(more)
    <3>1. 1 .. n \subseteq 1 .. n + 1
      BY <1>1
    <3>. QED  BY <1>1, <1>3, <3>1 DEF MintsIn
  <2>2. x \in MintsIn(more)
    <3>1. n + 1 \in 1 .. n + 1
      BY <1>1
    <3>. QED  BY <1>2, <1>3, <3>1 DEF MintsIn
  <2>3. Range(rem) \subseteq MintsIn(sk)
    BY DEF SeenOk
  <2>. QED  BY <1>6, <2>1, <2>2, <2>3
<1>9. ASSUME NEW i \in 1 .. n + 1 PROVE more[i].mint \in Range(r) \/ Enough(more, i)
  <2>1. CASE more[i].mint = x
    BY <1>6, <2>1
  <2>2. CASE more[i].mint # x
    <3>1. i \in 1 .. n /\ more[i].mint = sk[i].mint
      BY <1>2, <1>3, <1>4, <2>2
    <3>2. sk[i].mint \in Range(rem) \/ Enough(sk, i)
      BY <1>1, <3>1 DEF SeenOk
    <3>3. CASE Enough(sk, i)
      BY <1>7, <3>1, <3>3
    <3>4. CASE sk[i].mint \in Range(rem) /\ sk[i].mint \notin Range(r)
      <4>1. Len(r) = MaxRemembered /\ \A b \in Range(r) : b = x \/ LaterIn(rem, sk[i].mint, b)
        BY <1>6, <3>4
      <4>2. \A b : LaterIn(rem, sk[i].mint, b) => b \in Since(sk, i)
        BY <1>1, <3>1 DEF SeenOk
      <4>3. Range(r) \subseteq Since(more, i)
        <5>1. x \in Since(more, i) /\ Since(sk, i) \subseteq Since(more, i)
          BY <1>7, <2>2, <3>1
        <5>. QED  BY <4>1, <4>2, <5>1
      <4>4. IsFiniteSet(Since(more, i)) /\ Cardinality(Since(more, i)) \in Nat
        <5>1. i \in Nat /\ Len(more) \in Nat
          BY <1>3
        <5>. QED  BY <1>3, <5>1, BetweenFinite DEF Since
      <4>5. Len(r) <= Cardinality(Since(more, i))
        BY <1>6, <4>3, <4>4, CountOnce
      <4>6. MaxRemembered \in Nat
        BY ScanAssumption
      <4>. QED  BY <4>1, <4>4, <4>5, <4>6 DEF Enough
    <3>. QED  BY <3>1, <3>2, <3>3, <3>4
  <2>. QED  BY <2>1, <2>2
<1>10. ASSUME NEW i \in 1 .. n + 1, NEW b, LaterIn(r, more[i].mint, b) PROVE b \in Since(more, i)
  <2>1. more[i].mint # x
    BY <1>6, <1>10
  <2>2. i \in 1 .. n /\ more[i].mint = sk[i].mint
    BY <1>2, <1>3, <1>4, <2>1
  <2>3. b = x \/ LaterIn(rem, sk[i].mint, b)
    BY <1>6, <1>10, <2>2
  <2>4. LaterIn(rem, sk[i].mint, b) => b \in Since(sk, i)
    BY <1>1, <2>2 DEF SeenOk
  <2>5. x \in Since(more, i) /\ Since(sk, i) \subseteq Since(more, i)
    BY <1>7, <2>1, <2>2
  <2>. QED  BY <2>3, <2>4, <2>5
<1>. QED  BY <1>2, <1>3, <1>6, <1>8, <1>9, <1>10 DEF SeenOk

-----------------------------------------------------------------------------
(* One launch dropped, one taken in, one swept *)

LEMMA MonIs ==
  ASSUME NEW m, MonOk(m)
  PROVE  /\ m \in MonRec /\ m.buffer \in Seq(Waiting) /\ MintOnce(m.buffer) /\ m.skips \in Seq(SkipRec)
         /\ Len(m.buffer) \in Nat /\ Len(m.buffer) <= MaxPending /\ m.yielded = <<>>
BY DEF MonOk, MonRec, PoolOk

LEMMA MintsOfRange ==
  ASSUME NEW s
  PROVE  MintsIn(s) = {t.mint : t \in Range(s)}
BY DEF MintsIn, Range

LEMMA SkipKeeps ==
  ASSUME NEW m, MonOk(m), NEW x \in Launched, NEW why \in Reasons,
         why \notin {"stale_no_traction", "buffer_overflow"} => x \in MintsIn(m.buffer),
         why = "stale_no_traction" /\ Matures(x)
           => /\ Len(m.skips) > 0 /\ m.skips[Len(m.skips)].mint = x
              /\ JudgedIn(m.skips, Len(m.skips))
  PROVE  LET r == Skip(m, x, why) IN
         /\ MonOk(r) /\ NamedIn(r) = NamedIn(m) \cup {x}
         /\ Range(r.buffer) = {t \in Range(m.buffer) : t.mint # x}
         /\ x \in MintsIn(m.buffer) => Len(r.buffer) = Len(m.buffer) - 1
         /\ r.skips = Append(m.skips, [mint |-> x, why |-> why])
<1>1. PICK r : r = Skip(m, x, why)
  OBVIOUS
<1>2. PICK row : row = [mint |-> x, why |-> why]
  OBVIOUS
<1>3. /\ m \in MonRec /\ m.buffer \in Seq(Waiting) /\ MintOnce(m.buffer) /\ m.skips \in Seq(SkipRec)
      /\ Len(m.buffer) \in Nat /\ Len(m.buffer) <= MaxPending /\ m.yielded = <<>>
  BY MonIs
<1>4. PICK n \in Nat : n = Len(m.skips) /\ DOMAIN m.skips = 1 .. n
  BY <1>3
<1>5. row \in SkipRec /\ row.mint = x /\ row.why = why
  BY <1>2 DEF SkipRec
<1>6. r = [buffer |-> Forget(m.buffer, x), remembered |-> Remember(m.remembered, x),
           skips |-> Append(m.skips, row), yielded |-> m.yielded]
  BY <1>1, <1>2, <1>3, SkipIs
<1>7. PICK buf, rem, sk : r = [buffer |-> buf, remembered |-> rem, skips |-> sk, yielded |-> m.yielded]
        /\ buf = Forget(m.buffer, x) /\ rem = Remember(m.remembered, x) /\ sk = Append(m.skips, row)
  BY <1>6
<1>8. r.buffer = buf /\ r.remembered = rem /\ r.skips = sk /\ r.yielded = m.yielded
  BY <1>7
<1>9. /\ buf \in Seq(Waiting) /\ MintOnce(buf) /\ Len(buf) <= Len(m.buffer)
      /\ x \in MintsIn(m.buffer) => Len(buf) = Len(m.buffer) - 1
      /\ Range(buf) = {t \in Range(m.buffer) : t.mint # x}
  BY <1>3, <1>7, ForgetIs
<1>10. PoolOk(buf)
  <2>1. Len(buf) \in Nat /\ MaxPending \in Nat
    BY <1>9, ScanAssumption
  <2>. QED  BY <1>3, <1>9, <2>1 DEF PoolOk
<1>11. /\ sk \in Seq(SkipRec) /\ Len(sk) = n + 1 /\ DOMAIN sk = 1 .. n + 1 /\ sk[n + 1] = row
       /\ \A k \in 1 .. n : sk[k] = m.skips[k]
  BY <1>3, <1>4, <1>5, <1>7
<1>12. SeenOk(rem, sk)
  BY <1>3, <1>5, <1>7, SeenNext DEF MonOk
<1>13. TrailOk(sk)
  <2>1. TrailOk(m.skips) /\ FreshOk(m.buffer, m.skips)
    BY DEF MonOk
  <2>2. row.why \notin {"stale_no_traction", "buffer_overflow"}
          => \A i \in DOMAIN m.skips : JudgedIn(m.skips, i) /\ m.skips[i].mint = row.mint => Enough(m.skips, i)
    BY <1>5, <2>1 DEF FreshOk
  <2>. QED  BY <1>5, <1>7, <2>1, <2>2, TrailNext
<1>14. MintsIn(buf) \subseteq MintsIn(m.buffer) /\ x \notin MintsIn(buf)
       /\ \A y \in MintsIn(m.buffer) : y = x \/ y \in MintsIn(buf)
  BY <1>9, MintsOfRange
<1>15. FreshOk(buf, sk)
  <2>. SUFFICES ASSUME NEW i \in 1 .. n + 1, JudgedIn(sk, i), sk[i].mint \in MintsIn(buf)
       PROVE  Enough(sk, i)
    BY <1>11 DEF FreshOk
  <2>1. i # n + 1
    BY <1>5, <1>11, <1>14
  <2>2. i \in 1 .. n
    BY <1>4, <2>1
  <2>3. sk[i] = m.skips[i]
    BY <1>11, <2>2
  <2>4. JudgedIn(m.skips, i) /\ m.skips[i].mint \in MintsIn(m.buffer)
    BY <1>14, <2>3 DEF JudgedIn
  <2>5. Enough(m.skips, i)
    BY <1>4, <2>2, <2>4 DEF MonOk, FreshOk
  <2>. QED  BY <1>3, <1>4, <1>5, <1>7, <2>2, <2>5, SinceNext
<1>16. r \in MonRec
  BY <1>3, <1>7, <1>9, <1>11, <1>12 DEF MonRec, SeenOk
<1>17. MintsIn(sk) = MintsIn(m.skips) \cup {x}
  <2>1. n + 1 \in 1 .. n + 1 /\ 1 .. n \subseteq 1 .. n + 1 /\ \A k \in 1 .. n + 1 : k \in 1 .. n \/ k = n + 1
    BY <1>4
  <2>. QED  BY <1>4, <1>5, <1>11, <2>1 DEF MintsIn
<1>18. NamedIn(r) = NamedIn(m) \cup {x}
  BY <1>8, <1>14, <1>17 DEF NamedIn
<1>19. MonOk(r)
  BY <1>8, <1>10, <1>12, <1>13, <1>15, <1>16 DEF MonOk
<1>. QED  BY <1>1, <1>2, <1>7, <1>8, <1>9, <1>18, <1>19

\* The oldest of the buffer is in it.
LEMMA OldestIs ==
  ASSUME NEW s \in Seq(Waiting), Len(s) > 0
  PROVE  OldestOf(s) \in MintsIn(s)
<1>1. PICK n \in Nat : n = Len(s) /\ DOMAIN s = 1 .. n /\ n > 0
  OBVIOUS
<1>2. \A i \in 1 .. n : s[i] \in Waiting /\ s[i].born \in Nat
  <2>1. \A i \in 1 .. n : s[i] \in Waiting
    BY <1>1
  <2>. QED  BY <2>1 DEF Waiting, LaunchRec
<1>3. PICK T : T = {s[i].born : i \in 1 .. n}
  OBVIOUS
<1>4. T \in SUBSET Nat /\ T # {}
  <2>1. T \in SUBSET Nat
    BY <1>2, <1>3
  <2>2. 1 \in 1 .. n
    BY <1>1
  <2>3. s[1].born \in T
    BY <1>3, <2>2
  <2>. QED  BY <2>1, <2>3
<1>5. PICK t \in T : \A u \in T : t <= u
  <2>1. T \in SUBSET Nat
    BY <1>4
  <2>. QED  BY <1>4, <2>1, SmallestOf
<1>6. PICK S : S = {i \in DOMAIN s : \A j \in DOMAIN s : s[i].born <= s[j].born}
  OBVIOUS
<1>7. S # {}
  <2>1. PICK i \in 1 .. n : s[i].born = t
    BY <1>3
  <2>2. \A j \in 1 .. n : s[j].born \in T
    BY <1>3
  <2>3. i \in S
    BY <1>1, <1>5, <1>6, <2>1, <2>2
  <2>. QED  BY <2>3
<1>8. Least(S) \in S
  <2>1. S \in SUBSET Nat
    BY <1>1, <1>6
  <2>. QED  BY <1>7, <2>1, LeastIs
<1>9. OldestOf(s) = s[Least(S)].mint
  BY <1>6 DEF OldestOf
<1>. QED  BY <1>6, <1>8, <1>9 DEF MintsIn

\* The crowd is thinned by one before a launch is taken in.
LEMMA EvictKeeps ==
  ASSUME NEW m, MonOk(m)
  PROVE  LET r == EvictIfCrowded(m) IN
         /\ MonOk(r) /\ NamedIn(r) = NamedIn(m) /\ Len(r.buffer) < MaxPending
         /\ Range(r.buffer) \subseteq Range(m.buffer)
         /\ \/ r = m
            \/ \E x \in Launched : r.skips = Append(m.skips, [mint |-> x, why |-> "buffer_overflow"])
<1>1. PICK r : r = EvictIfCrowded(m)
  OBVIOUS
<1>2. /\ m.buffer \in Seq(Waiting) /\ Len(m.buffer) \in Nat /\ Len(m.buffer) <= MaxPending
      /\ MaxPending \in Nat \ {0}
  BY MonIs, ScanAssumption
<1>3. CASE Len(m.buffer) < MaxPending
  <2>1. r = m
    BY <1>1, <1>3 DEF EvictIfCrowded
  <2>. QED  BY <1>1, <1>3, <2>1
<1>4. CASE ~(Len(m.buffer) < MaxPending)
  <2>1. PICK x : x = OldestOf(m.buffer)
    OBVIOUS
  <2>2. x \in MintsIn(m.buffer)
    <3>1. Len(m.buffer) > 0
      BY <1>2, <1>4
    <3>. QED  BY <1>2, <2>1, <3>1, OldestIs
  <2>3. x \in Launched
    <3>1. PICK i \in DOMAIN m.buffer : m.buffer[i].mint = x
      BY <2>2 DEF MintsIn
    <3>2. m.buffer[i] \in Waiting
      BY <1>2
    <3>. QED  BY <3>1, <3>2 DEF Waiting, LaunchRec
  <2>4. PICK why \in Reasons : why = "buffer_overflow"
    BY DEF Reasons
  <2>5. r = Skip(m, x, why)
    BY <1>1, <1>4, <2>1, <2>4 DEF EvictIfCrowded
  <2>6. why \in {"stale_no_traction", "buffer_overflow"} /\ why # "stale_no_traction"
    BY <2>4
  <2>7. /\ MonOk(r) /\ NamedIn(r) = NamedIn(m) \cup {x}
        /\ Range(r.buffer) = {t \in Range(m.buffer) : t.mint # x}
        /\ x \in MintsIn(m.buffer) => Len(r.buffer) = Len(m.buffer) - 1
        /\ r.skips = Append(m.skips, [mint |-> x, why |-> why])
    BY <2>3, <2>5, <2>6, SkipKeeps
  <2>8. NamedIn(r) = NamedIn(m)
    BY <2>2, <2>7 DEF NamedIn
  <2>9. Len(r.buffer) < MaxPending
    BY <1>2, <2>2, <2>7
  <2>. QED  BY <1>1, <2>3, <2>4, <2>7, <2>8, <2>9
<1>. QED  BY <1>3, <1>4

\* A launch is taken in, or its later event takes the place of the earlier one.
LEMMA BufferedKeeps ==
  ASSUME NEW m, MonOk(m), NEW token \in Waiting, Len(m.buffer) < MaxPending,
         \A i \in DOMAIN m.skips :
           JudgedIn(m.skips, i) /\ m.skips[i].mint = token.mint => Enough(m.skips, i)
  PROVE  LET r == Buffered(m, token) IN
         /\ MonOk(r) /\ NamedIn(r) = NamedIn(m) \cup {token.mint}
         /\ Range(r.buffer) \subseteq Range(m.buffer) \cup {token}
<1>1. PICK old, r : old = m.buffer /\ r = Buffered(m, token)
  OBVIOUS
<1>2. /\ m \in MonRec /\ old \in Seq(Waiting) /\ MintOnce(old) /\ Len(old) <= MaxPending
  BY <1>1, MonIs
<1>3. PICK n \in Nat : n = Len(old) /\ DOMAIN old = 1 .. n /\ n < MaxPending
  BY <1>1, <1>2
<1>4. PICK buf : r = [m EXCEPT !.buffer = buf] /\
        buf = IF \E i \in DOMAIN old : old[i].mint = token.mint
              THEN [i \in DOMAIN old |-> IF old[i].mint = token.mint THEN token ELSE old[i]]
              ELSE Append(old, token)
  BY <1>1, <1>2 DEF Buffered, MonRec
<1>5. /\ PoolOk(buf) /\ MintsIn(buf) = MintsIn(old) \cup {token.mint}
      /\ Range(buf) \subseteq Range(old) \cup {token}
  <2>0. MaxPending \in Nat
    BY ScanAssumption
  <2>1. CASE \E i \in DOMAIN old : old[i].mint = token.mint
    <3>1. PICK k \in 1 .. n : old[k].mint = token.mint
      BY <1>3, <2>1
    <3>2. buf = [i \in 1 .. n |-> IF old[i].mint = token.mint THEN token ELSE old[i]]
      BY <1>3, <1>4, <2>1
    <3>3. \A i \in 1 .. n : buf[i].mint = old[i].mint /\ buf[i] \in Waiting /\ (buf[i] = token \/ buf[i] = old[i])
      BY <1>2, <1>3, <3>2
    <3>4. buf \in Seq(Waiting) /\ Len(buf) = n /\ DOMAIN buf = 1 .. n
      BY <1>3, <3>2, <3>3
    <3>5. MintOnce(buf)
      BY <1>2, <1>3, <3>3, <3>4 DEF MintOnce
    <3>6. MintsIn(buf) = MintsIn(old)
      BY <1>3, <3>3, <3>4 DEF MintsIn
    <3>7. token.mint \in MintsIn(old)
      BY <1>3, <3>1 DEF MintsIn
    <3>8. Range(buf) \subseteq Range(old) \cup {token}
      BY <1>3, <3>3, <3>4 DEF Range
    <3>9. Len(buf) <= MaxPending
      BY <1>3, <2>0, <3>4
    <3>. QED  BY <3>4, <3>5, <3>6, <3>7, <3>8, <3>9 DEF PoolOk
  <2>2. CASE ~\E i \in DOMAIN old : old[i].mint = token.mint
    <3>1. buf = Append(old, token)
      BY <1>4, <2>2
    <3>2. /\ buf \in Seq(Waiting) /\ Len(buf) = n + 1 /\ DOMAIN buf = 1 .. n + 1 /\ buf[n + 1] = token
          /\ \A i \in 1 .. n : buf[i] = old[i]
      BY <1>2, <1>3, <3>1
    <3>3. /\ \A i \in 1 .. n + 1 : i \in 1 .. n \/ i = n + 1
          /\ n + 1 \in 1 .. n + 1 /\ 1 .. n \subseteq 1 .. n + 1
      BY <1>3
    <3>4. \A i \in 1 .. n : buf[i].mint # token.mint
      BY <1>3, <2>2, <3>2
    <3>5. MintOnce(buf)
      BY <1>2, <1>3, <3>2, <3>3, <3>4 DEF MintOnce
    <3>6. MintsIn(buf) = MintsIn(old) \cup {token.mint}
      BY <1>3, <3>2, <3>3 DEF MintsIn
    <3>7. Range(buf) \subseteq Range(old) \cup {token}
      BY <1>3, <3>2, <3>3 DEF Range
    <3>8. Len(buf) <= MaxPending
      BY <1>3, <2>0, <3>2
    <3>. QED  BY <3>2, <3>5, <3>6, <3>7, <3>8 DEF PoolOk
  <2>. QED  BY <2>1, <2>2
<1>6. /\ r.buffer = buf /\ r.skips = m.skips /\ r.remembered = m.remembered
      /\ r \in MonRec
  BY <1>2, <1>4, <1>5 DEF MonRec, PoolOk
<1>7. FreshOk(buf, m.skips)
  BY <1>1, <1>5 DEF MonOk, FreshOk
<1>8. MonOk(r)
  BY <1>5, <1>6, <1>7 DEF MonOk
<1>9. NamedIn(r) = NamedIn(m) \cup {token.mint}
  BY <1>1, <1>5, <1>6 DEF NamedIn
<1>. QED  BY <1>1, <1>5, <1>6, <1>8, <1>9

\* A create event.
LEMMA HandleKeeps ==
  ASSUME NEW m, MonOk(m), NEW token \in Waiting
  PROVE  LET r == HandleEvent(m, token) IN
         /\ MonOk(r) /\ NamedIn(r) = NamedIn(m) \cup {token.mint}
         /\ Range(r.buffer) \subseteq Range(m.buffer) \cup {token}
<1>1. PICK r : r = HandleEvent(m, token)
  OBVIOUS
<1>2. SeenOk(m.remembered, m.skips) /\ m.skips \in Seq(SkipRec)
  BY DEF MonOk, MonRec
<1>3. CASE token.mint \in Range(m.remembered)
  <2>1. r = m
    BY <1>1, <1>3 DEF HandleEvent, Range
  <2>2. token.mint \in NamedIn(m)
    BY <1>2, <1>3 DEF SeenOk, NamedIn
  <2>. QED  BY <1>1, <2>1, <2>2
<1>4. CASE token.mint \notin Range(m.remembered)
  <2>1. PICK e : e = EvictIfCrowded(m)
    OBVIOUS
  <2>2. r = Buffered(e, token)
    BY <1>1, <1>4, <2>1 DEF HandleEvent, Range
  <2>3. /\ MonOk(e) /\ NamedIn(e) = NamedIn(m) /\ Len(e.buffer) < MaxPending
        /\ Range(e.buffer) \subseteq Range(m.buffer)
        /\ \/ e = m
           \/ \E x \in Launched : e.skips = Append(m.skips, [mint |-> x, why |-> "buffer_overflow"])
    BY <2>1, EvictKeeps
  <2>4. \A i \in DOMAIN m.skips : m.skips[i].mint = token.mint => Enough(m.skips, i)
    BY <1>2, <1>4 DEF SeenOk
  <2>5. \A i \in DOMAIN e.skips : JudgedIn(e.skips, i) /\ e.skips[i].mint = token.mint => Enough(e.skips, i)
    <3>1. CASE e = m
      BY <2>4, <3>1
    <3>2. CASE \E x \in Launched : e.skips = Append(m.skips, [mint |-> x, why |-> "buffer_overflow"])
      <4>1. PICK x \in Launched : e.skips = Append(m.skips, [mint |-> x, why |-> "buffer_overflow"])
        BY <3>2
      <4>2. PICK row : row = [mint |-> x, why |-> "buffer_overflow"]
        OBVIOUS
      <4>3. row \in SkipRec /\ row.why = "buffer_overflow"
        BY <4>2 DEF SkipRec, Reasons
      <4>4. PICK n \in Nat : n = Len(m.skips) /\ DOMAIN m.skips = 1 .. n
        BY <1>2
      <4>5. e.skips = Append(m.skips, row)
        BY <4>1, <4>2
      <4>6. PICK sk, old : sk = e.skips /\ old = m.skips
        OBVIOUS
      <4>7. /\ DOMAIN sk = 1 .. n + 1 /\ sk[n + 1] = row /\ \A i \in 1 .. n : sk[i] = old[i]
        BY <1>2, <4>3, <4>4, <4>5, <4>6
      <4>. SUFFICES ASSUME NEW i \in 1 .. n + 1, JudgedIn(sk, i), sk[i].mint = token.mint PROVE Enough(sk, i)
        BY <4>6, <4>7
      <4>8. i # n + 1
        BY <4>3, <4>7 DEF JudgedIn
      <4>9. i \in 1 .. n
        BY <4>4, <4>8
      <4>10. Enough(old, i)
        BY <2>4, <4>4, <4>6, <4>7, <4>9
      <4>. QED  BY <1>2, <4>3, <4>4, <4>5, <4>6, <4>9, <4>10, SinceNext
    <3>. QED  BY <2>3, <3>1, <3>2
  <2>6. /\ MonOk(r) /\ NamedIn(r) = NamedIn(e) \cup {token.mint}
        /\ Range(r.buffer) \subseteq Range(e.buffer) \cup {token}
    BY <2>2, <2>3, <2>5, BufferedKeeps
  <2>. QED  BY <1>1, <2>3, <2>6
<1>. QED  BY <1>3, <1>4

\* A launch the sweep comes to: judged, kept when too young, dropped when late.
LEMMA SweptKeeps ==
  ASSUME NEW m, MonOk(m), NEW moment \in Nat, NEW token \in Range(m.buffer), token.born <= moment
  PROVE  LET r == Swept(m, token, moment) IN
         /\ MonOk(r) /\ NamedIn(r) = NamedIn(m) /\ Range(r.buffer) \subseteq Range(m.buffer)
         /\ \A t \in Range(m.buffer) : t = token \/ t \in Range(r.buffer)
<1>1. PICK r, x, why : r = Swept(m, token, moment) /\ x = token.mint /\ why = PassesFilter(token, moment)
  OBVIOUS
<1>2. /\ m.buffer \in Seq(Waiting) /\ MintOnce(m.buffer) /\ m.skips \in Seq(SkipRec)
  BY MonIs
<1>3. token \in Waiting
  BY <1>2 DEF Range
<1>4. /\ x \in Launched /\ token.born \in Nat /\ token.buyers = Unknown /\ token.buyers \in Int
      /\ token.meta \in BOOLEAN /\ token.curve \in Int /\ token.born \in Int /\ moment \in Int
  BY <1>1, <1>3 DEF Waiting, LaunchRec, Unknown
<1>5. why \in Verdicts /\ (why = "too_young" => AgeOf(token, moment) < MinAge)
  BY <1>1, <1>4, FilterIs DEF Verdicts
<1>6. x \in MintsIn(m.buffer) /\ x \in NamedIn(m)
  <2>1. x \in MintsIn(m.buffer)
    BY <1>1, MintsOfRange
  <2>. QED  BY <2>1 DEF NamedIn
<1>7. \A t \in Range(m.buffer) : t = token \/ t.mint # x
  BY <1>1, <1>2 DEF Range, MintOnce
<1>8. CASE why = "too_young"
  <2>1. PICK late \in Reasons : late = "stale_no_traction"
    BY DEF Reasons
  <2>2. r = IF moment - token.born > Ttl THEN Skip(m, x, late) ELSE m
    BY <1>1, <1>8, <2>1 DEF Swept
  <2>3. CASE ~(moment - token.born > Ttl)
    BY <1>1, <2>2, <2>3
  <2>4. CASE moment - token.born > Ttl
    <3>1. ~Matures(x)
      <4>. SUFFICES ASSUME Matures(x) PROVE FALSE
        OBVIOUS
      <4>1. MinAge \in Int /\ Ttl \in Int /\ MinAge <= Ttl /\ token.born # 0
        BY <1>1, <1>3, ScanAssumption DEF Matures, Waiting
      <4>2. AgeOf(token, moment) = moment - token.born
        BY <1>4, <4>1 DEF AgeOf
      <4>. QED  BY <1>4, <1>5, <1>8, <2>4, <4>1, <4>2
    <3>2. late \in {"stale_no_traction", "buffer_overflow"} /\ r = Skip(m, x, late)
      BY <2>1, <2>2, <2>4
    <3>3. /\ MonOk(r) /\ NamedIn(r) = NamedIn(m) \cup {x}
          /\ Range(r.buffer) = {t \in Range(m.buffer) : t.mint # x}
      BY <1>4, <3>1, <3>2, SkipKeeps
    <3>. QED  BY <1>1, <1>6, <1>7, <3>3
  <2>. QED  BY <2>3, <2>4
<1>9. CASE why # "too_young"
  <2>1. why \in Reasons /\ why \notin {"ok", "too_young", "few_buyers"} /\ why # "stale_no_traction"
        /\ why \notin {"stale_no_traction", "buffer_overflow"}
    BY <1>5, <1>9 DEF Verdicts, Reasons
  <2>2. PICK d : d = Skip(m, x, why)
    OBVIOUS
  <2>3. r = IF moment - token.born > Ttl THEN Skip(d, x, "stale_no_traction") ELSE d
    BY <1>1, <2>1, <2>2 DEF Swept
  <2>4. /\ MonOk(d) /\ NamedIn(d) = NamedIn(m) \cup {x}
        /\ Range(d.buffer) = {t \in Range(m.buffer) : t.mint # x}
        /\ d.skips = Append(m.skips, [mint |-> x, why |-> why])
    BY <1>4, <1>6, <2>1, <2>2, SkipKeeps
  <2>5. CASE ~(moment - token.born > Ttl)
    <3>1. r = d
      BY <2>3, <2>5
    <3>. QED  BY <1>1, <1>6, <1>7, <2>4, <3>1
  <2>6. CASE moment - token.born > Ttl
    <3>1. PICK late \in Reasons : late = "stale_no_traction"
      BY DEF Reasons
    <3>2. r = Skip(d, x, late)
      BY <2>3, <2>6, <3>1
    <3>3. Len(d.skips) > 0 /\ d.skips[Len(d.skips)].mint = x /\ JudgedIn(d.skips, Len(d.skips))
      <4>1. PICK row : row = [mint |-> x, why |-> why]
        OBVIOUS
      <4>2. row \in SkipRec /\ row.mint = x /\ row.why = why
        BY <1>4, <2>1, <4>1 DEF SkipRec
      <4>3. PICK sk : sk = d.skips
        OBVIOUS
      <4>4. Len(sk) > 0 /\ sk[Len(sk)] = row
        BY <1>2, <2>4, <4>1, <4>2, <4>3
      <4>. QED  BY <2>1, <4>2, <4>3, <4>4 DEF JudgedIn
    <3>4. late \in {"stale_no_traction", "buffer_overflow"}
      BY <3>1
    <3>5. /\ MonOk(r) /\ NamedIn(r) = NamedIn(d) \cup {x}
          /\ Range(r.buffer) = {t \in Range(d.buffer) : t.mint # x}
      <4>1. MonOk(d) /\ x \in Launched /\ late \in Reasons
        BY <1>4, <2>4, <3>1
      <4>2. late \notin {"stale_no_traction", "buffer_overflow"} => x \in MintsIn(d.buffer)
        BY <3>4
      <4>3. late = "stale_no_traction"
              => Len(d.skips) > 0 /\ d.skips[Len(d.skips)].mint = x /\ JudgedIn(d.skips, Len(d.skips))
        BY <3>3
      <4>. QED  BY <3>2, <4>1, <4>2, <4>3, SkipKeeps
    <3>6. NamedIn(r) = NamedIn(m) /\ Range(r.buffer) = {t \in Range(m.buffer) : t.mint # x}
      BY <1>6, <2>4, <3>5
    <3>. QED  BY <1>1, <1>7, <3>5, <3>6
  <2>. QED  BY <2>5, <2>6
<1>. QED  BY <1>8, <1>9

-----------------------------------------------------------------------------
(* A sweep, and the steps of the monitor *)

SweepOne(token, done) == Swept(done, token, beat)
SweepFold == INSTANCE FoldFacts WITH Op <- SweepOne, Choose <- Max
SweptTo(m, k) == SweepFold!Iterated(m, m.buffer, 1 .. k)

LEMMA SweepNext ==
  ASSUME NEW m, DOMAIN m.buffer = 1 .. Len(m.buffer)
  PROVE  /\ SweptTo(m, 0) = m
         /\ \A k \in Nat : SweptTo(m, k + 1) = Swept(SweptTo(m, k), m.buffer[k + 1], beat)
         /\ Sweep(m, beat) = SweptTo(m, Len(m.buffer))
<1>1. SweptTo(m, 0) = m
  <2>1. 1 .. 0 = {}
    OBVIOUS
  <2>. QED  BY <2>1, SweepFold!IteratedEmpty DEF SweptTo
<1>2. SweepFold!TakesLast /\ \A n \in Nat : SweepFold!Chooses(1 .. n)
  BY MaxPicks DEF SweepFold!TakesLast, SweepFold!Chooses
<1>3. ASSUME NEW k \in Nat PROVE SweptTo(m, k + 1) = Swept(SweptTo(m, k), m.buffer[k + 1], beat)
  <2>1. k + 1 \in Nat
    OBVIOUS
  <2>2. SweptTo(m, k + 1) = SweepOne(m.buffer[k + 1], SweptTo(m, k))
    BY <1>2, <2>1, SweepFold!IteratedNext DEF SweptTo
  <2>. QED  BY <2>2 DEF SweepOne
<1>4. Sweep(m, beat) = SweptTo(m, Len(m.buffer))
  <2>1. Sweep(m, beat) = SweepFold!Iterated(m, m.buffer, DOMAIN m.buffer)
    BY DEF Sweep, FoldLeft, MapThenFoldSet, SweepFold!Iterated, SweepFold!IsIter, SweepOne
  <2>. QED  BY <2>1 DEF SweptTo
<1>. QED  BY <1>1, <1>3, <1>4

\* What a sweep has done after k launches.
SweptOk(m, k) ==
  /\ MonOk(SweptTo(m, k)) /\ NamedIn(SweptTo(m, k)) = NamedIn(m)
  /\ Range(SweptTo(m, k).buffer) \subseteq Range(m.buffer)
  /\ \A j \in k + 1 .. Len(m.buffer) : m.buffer[j] \in Range(SweptTo(m, k).buffer)

LEMMA SweptGoesOn ==
  ASSUME NEW m, MonOk(m), beat \in Nat, \A t \in Range(m.buffer) : t.born <= beat,
         NEW k \in Nat, k < Len(m.buffer), SweptOk(m, k)
  PROVE  SweptOk(m, k + 1)
<1>1. PICK d, token : d = SweptTo(m, k) /\ token = m.buffer[k + 1]
  OBVIOUS
<1>2. /\ m.buffer \in Seq(Waiting) /\ MintOnce(m.buffer)
  BY MonIs
<1>3. PICK n \in Nat : n = Len(m.buffer) /\ DOMAIN m.buffer = 1 .. n /\ k < n
  BY <1>2
<1>4. /\ MonOk(d) /\ NamedIn(d) = NamedIn(m) /\ Range(d.buffer) \subseteq Range(m.buffer)
      /\ \A j \in k + 1 .. n : m.buffer[j] \in Range(d.buffer)
  BY <1>1, <1>3 DEF SweptOk
<1>5. k + 1 \in k + 1 .. n /\ k + 1 \in 1 .. n
  BY <1>3
<1>6. token \in Range(d.buffer) /\ token.born <= beat
  BY <1>1, <1>4, <1>5
<1>7. PICK r : r = Swept(d, token, beat)
  OBVIOUS
<1>8. /\ MonOk(r) /\ NamedIn(r) = NamedIn(d) /\ Range(r.buffer) \subseteq Range(d.buffer)
      /\ \A t \in Range(d.buffer) : t = token \/ t \in Range(r.buffer)
  BY <1>4, <1>6, <1>7, SweptKeeps
<1>9. r = SweptTo(m, k + 1)
  BY <1>1, <1>3, <1>7, SweepNext
<1>10. ASSUME NEW j \in k + 1 + 1 .. n PROVE m.buffer[j] \in Range(r.buffer)
  <2>1. j \in k + 1 .. n /\ j \in 1 .. n /\ j # k + 1
    BY <1>3
  <2>2. m.buffer[j] # token
    BY <1>1, <1>2, <1>3, <1>5, <2>1 DEF MintOnce
  <2>. QED  BY <1>4, <1>8, <2>1, <2>2
<1>. QED  BY <1>3, <1>4, <1>8, <1>9, <1>10 DEF SweptOk

LEMMA SweepKeeps ==
  ASSUME NEW m, MonOk(m), beat \in Nat, \A t \in Range(m.buffer) : t.born <= beat
  PROVE  LET r == Sweep(m, beat) IN
         MonOk(r) /\ NamedIn(r) = NamedIn(m) /\ Range(r.buffer) \subseteq Range(m.buffer)
<1>0. PICK n \in Nat : n = Len(m.buffer) /\ DOMAIN m.buffer = 1 .. n
  BY MonIs
<1>1. SweptOk(m, 0)
  <2>1. SweptTo(m, 0) = m
    BY <1>0, SweepNext
  <2>2. \A j \in 0 + 1 .. n : m.buffer[j] \in Range(m.buffer)
    BY <1>0 DEF Range
  <2>. QED  BY <1>0, <2>1, <2>2 DEF SweptOk
<1>2. PICK Wrong : Wrong = {k \in 0 .. n : ~SweptOk(m, k)}
  OBVIOUS
<1>3. CASE Wrong = {}
  <2>1. SweptOk(m, n)
    BY <1>0, <1>2, <1>3
  <2>2. Sweep(m, beat) = SweptTo(m, n)
    BY <1>0, SweepNext
  <2>. QED  BY <2>1, <2>2 DEF SweptOk
<1>4. CASE Wrong # {}
  <2>1. Wrong \in SUBSET (0 .. n)
    BY <1>2
  <2>2. Wrong \in SUBSET Nat
    BY <2>1
  <2>5. PICK k \in Wrong : \A j \in Wrong : k <= j
    BY <1>4, <2>2, SmallestOf
  <2>6. k \in 0 .. n /\ ~SweptOk(m, k) /\ k # 0
    BY <1>1, <1>2, <2>5
  <2>7. k - 1 \in 0 .. n /\ k - 1 \in Nat /\ (k - 1) + 1 = k /\ k - 1 < n
    BY <2>6
  <2>8. SweptOk(m, k - 1)
    <3>1. k - 1 \notin Wrong
      BY <2>5, <2>7
    <3>. QED  BY <1>2, <2>7, <3>1
  <2>9. SweptOk(m, (k - 1) + 1)
    BY <1>0, <2>7, <2>8, SweptGoesOn
  <2>. QED  BY <2>6, <2>7, <2>9
<1>. QED  BY <1>3, <1>4

MonInv ==
  /\ beat \in Nat \ {0} /\ MonOk(Monitor) /\ heard = NamedIn(Monitor)
  /\ \A t \in Range(buffer) : t.born <= beat

LEMMA DueKeeps ==
  ASSUME NEW m, MonOk(m), beat \in Nat, \A t \in Range(m.buffer) : t.born <= beat
  PROVE  LET r == SweepIfDue(m) IN
         MonOk(r) /\ NamedIn(r) = NamedIn(m) /\ Range(r.buffer) \subseteq Range(m.buffer)
BY SweepKeeps DEF SweepIfDue

LEMMA BecomeIs ==
  ASSUME NEW r \in MonRec, Become(r)
  PROVE  Monitor' = r /\ buffer' = r.buffer
BY DEF Become, Monitor, MonRec

LEMMA NothingHeard == ASSUME MonitorInit PROVE MonInv
<1>1. PICK m : m = Monitor
  OBVIOUS
<1>2. m = [buffer |-> <<>>, remembered |-> <<>>, skips |-> <<>>, yielded |-> <<>>]
  BY <1>1 DEF MonitorInit, Monitor
<1>3. m.buffer = <<>> /\ m.remembered = <<>> /\ m.skips = <<>> /\ m.yielded = <<>>
  BY <1>2
<1>4. beat \in Nat \ {0} /\ MaxPending \in Nat /\ MaxRemembered \in Nat
  BY ScanAssumption DEF MonitorInit
<1>5. /\ \A S : <<>> \in Seq(S)
      /\ Len(<<>>) = 0 /\ DOMAIN <<>> = {}
  OBVIOUS
<1>6. MintsIn(<<>>) = {} /\ Range(<<>>) = {} /\ MintOnce(<<>>) /\ Once(<<>>)
  BY <1>5 DEF MintsIn, Range, MintOnce, Once
<1>7. m \in MonRec
  BY <1>2, <1>5 DEF MonRec
<1>8. PoolOk(<<>>)
  BY <1>4, <1>5, <1>6 DEF PoolOk
<1>9. SeenOk(<<>>, <<>>)
  BY <1>4, <1>5, <1>6 DEF SeenOk
<1>10. FreshOk(<<>>, <<>>) /\ TrailOk(<<>>)
  BY <1>5 DEF FreshOk, TrailOk, RejudgedLate, StaleJudged
<1>11. MonOk(m)
  BY <1>3, <1>7, <1>8, <1>9, <1>10 DEF MonOk
<1>12. NamedIn(m) = {}
  BY <1>3, <1>6 DEF NamedIn
<1>. QED  BY <1>1, <1>4, <1>6, <1>11, <1>12 DEF MonInv, MonitorInit

LEMMA Heard ==
  ASSUME MonInv, NEW mint \in Launched, NEW born \in {1, beat}, Hear(mint, born)
  PROVE  MonInv'
<1>1. PICK m, token, e, r : /\ m = Monitor /\ token = Parsed(mint, born)
                            /\ e = HandleEvent(m, token) /\ r = SweepIfDue(e)
  OBVIOUS
<1>2. beat \in Nat \ {0} /\ MonOk(m) /\ heard = NamedIn(m) /\ m.buffer = buffer
      /\ \A t \in Range(buffer) : t.born <= beat
  BY <1>1 DEF MonInv, Monitor
<1>3. token \in Waiting /\ token.mint = mint /\ token.born <= beat
  <2>1. Carries[mint].meta \in BOOLEAN /\ Carries[mint].curve \in Nat
    BY ScanAssumption
  <2>2. born \in Nat \ {0} /\ born <= beat /\ beat \in Nat
    BY <1>2
  <2>3. token \in LaunchRec /\ token.mint = mint /\ token.born <= beat
    BY <1>1, <2>1, <2>2 DEF Parsed, LaunchRec
  <2>4. Carries[mint].dated => token.born # 0
    BY <1>1, <2>2 DEF Parsed
  <2>. QED  BY <2>3, <2>4 DEF Waiting, Matures
<1>4. /\ MonOk(e) /\ NamedIn(e) = NamedIn(m) \cup {token.mint}
      /\ Range(e.buffer) \subseteq Range(m.buffer) \cup {token}
  BY <1>1, <1>2, <1>3, HandleKeeps
<1>5. \A t \in Range(e.buffer) : t.born <= beat
  BY <1>2, <1>3, <1>4
<1>6. MonOk(r) /\ NamedIn(r) = NamedIn(e) /\ Range(r.buffer) \subseteq Range(e.buffer)
  BY <1>1, <1>2, <1>4, <1>5, DueKeeps
<1>7. Become(r) /\ heard' = heard \cup {mint} /\ beat' = beat
  BY <1>1 DEF Hear
<1>8. Monitor' = r /\ buffer' = r.buffer
  BY <1>6, <1>7, BecomeIs DEF MonOk
<1>9. MonOk(Monitor') /\ heard' = NamedIn(Monitor')
  BY <1>2, <1>3, <1>4, <1>6, <1>7, <1>8
<1>10. \A t \in Range(buffer') : t.born <= beat'
  BY <1>5, <1>6, <1>7, <1>8
<1>. QED  BY <1>2, <1>7, <1>9, <1>10 DEF MonInv

LEMMA Quieted == ASSUME MonInv, Quiet PROVE MonInv'
<1>1. PICK m, r : m = Monitor /\ r = SweepIfDue(m)
  OBVIOUS
<1>2. beat \in Nat \ {0} /\ MonOk(m) /\ heard = NamedIn(m) /\ m.buffer = buffer
      /\ \A t \in Range(buffer) : t.born <= beat
  BY <1>1 DEF MonInv, Monitor
<1>3. MonOk(r) /\ NamedIn(r) = NamedIn(m) /\ Range(r.buffer) \subseteq Range(m.buffer)
  BY <1>1, <1>2, DueKeeps
<1>4. Become(r) /\ heard' = heard /\ beat' = beat
  BY <1>1 DEF Quiet
<1>5. Monitor' = r /\ buffer' = r.buffer
  BY <1>3, <1>4, BecomeIs DEF MonOk
<1>6. MonOk(Monitor') /\ heard' = NamedIn(Monitor')
  BY <1>2, <1>3, <1>4, <1>5
<1>7. \A t \in Range(buffer') : t.born <= beat'
  BY <1>2, <1>3, <1>4, <1>5
<1>. QED  BY <1>2, <1>4, <1>6, <1>7 DEF MonInv

LEMMA MonGoesOn == ASSUME MonInv, [MonitorNext]_monitorVars PROVE MonInv'
<1>1. CASE UNCHANGED <<buffer, remembered, skips, yielded, heard>> /\ beat' \in {beat, beat + 1}
  <2>1. Monitor' = Monitor
    BY <1>1 DEF Monitor
  <2>2. MonOk(Monitor') /\ heard' = NamedIn(Monitor')
    BY <1>1, <2>1 DEF MonInv
  <2>3. beat' \in Nat \ {0} /\ beat \in Nat /\ (beat' = beat \/ beat' = beat + 1)
    BY <1>1 DEF MonInv
  <2>4. ASSUME NEW t \in Range(buffer') PROVE t.born <= beat'
    <3>1. t \in Range(buffer) /\ t.born <= beat
      BY <1>1, <2>4 DEF MonInv
    <3>2. buffer \in Seq(Waiting)
      BY DEF MonInv, MonOk, PoolOk, Monitor
    <3>3. t \in Waiting
      BY <3>1, <3>2 DEF Range
    <3>4. t.born \in Nat
      BY <3>3 DEF Waiting, LaunchRec
    <3>. QED  BY <2>3, <3>1, <3>4
  <2>. QED  BY <2>2, <2>3, <2>4 DEF MonInv
<1>2. CASE Sever \/ Reconnect \/ Beat \/ UNCHANGED monitorVars
  <2>1. UNCHANGED <<buffer, remembered, skips, yielded, heard>> /\ beat' \in {beat, beat + 1}
    BY <1>2 DEF Sever, Reconnect, Beat, monitorVars
  <2>. QED  BY <1>1, <2>1
<1>3. ASSUME NEW mint \in Launched, NEW born \in {1, beat}, Hear(mint, born) PROVE MonInv'
  BY <1>3, Heard
<1>4. CASE Quiet
  BY <1>4, Quieted
<1>. QED  BY <1>2, <1>3, <1>4 DEF MonitorNext

LEMMA MonPromises == ASSUME MonInv PROVE LaunchesAccounted /\ VerdictsOnce
<1>1. PICK m : m = Monitor
  OBVIOUS
<1>2. m.buffer = buffer /\ m.skips = skips /\ m.yielded = yielded
  BY <1>1 DEF Monitor
<1>3. MonOk(m) /\ heard = NamedIn(m)
  BY <1>1 DEF MonInv
<1>4. PoolOk(buffer) /\ TrailOk(skips) /\ yielded = <<>>
  BY <1>2, <1>3, MonIs DEF MonOk
<1>5. LaunchesAccounted
  BY <1>2, <1>3, <1>4 DEF LaunchesAccounted, PoolOk, MintOnce, NamedIn, MintsIn
<1>6. \A i \in DOMAIN skips : Judged(i) <=> JudgedIn(skips, i)
  BY DEF Judged, JudgedIn
<1>7. ASSUME NEW i \in DOMAIN skips, NEW j \in DOMAIN skips, i < j, skips[i].mint = skips[j].mint,
             Judged(i), Judged(j)
      PROVE  Cardinality({skips[k].mint : k \in i .. j} \ {skips[i].mint}) >= MaxRemembered
  BY <1>4, <1>6, <1>7 DEF TrailOk, RejudgedLate, Between
<1>8. ASSUME NEW i \in DOMAIN skips, skips[i].why = "stale_no_traction", Matures(skips[i].mint)
      PROVE  i > 1 /\ skips[i - 1].mint = skips[i].mint /\ Judged(i - 1)
  BY <1>4, <1>8 DEF TrailOk, StaleJudged, Judged, JudgedIn
<1>. QED  BY <1>5, <1>7, <1>8 DEF VerdictsOnce

-----------------------------------------------------------------------------
(* Theorem *)

\* What every step of the monitor, of the books and of a replay keeps.
ScanInv == MonInv /\ BookInv /\ ticksIn \in Seq(TicksSeen)

\* For any launches, buffer, seen set, filter, ledger rows, processes and ticks of
\* a replay: a launch heard is buffered or skipped with a reason, and judged once
\* while it is remembered (monitor.py); a candidate without one of its records
\* fails (pipeline.py); a rug written in a book stays in it, history that was lost
\* stays visible, and a rebuild holds what the rows say (reputation.py).
THEOREM LaunchesAreSound == ScanSpec => []ScanSound
<1>1. ScanInit /\ ticksIn \in Seq(TicksSeen) => ScanInv
  BY NothingHeard, BookStarts DEF ScanInit, ScanInv
<1>2. /\ ScanInv /\ [MonitorNext]_monitorVars
      /\ [BookNext]_bookVars /\ [UNCHANGED ticksIn]_ticksIn
      => ScanInv'
  BY MonGoesOn, BookGoesOn DEF ScanInv
<1>3. ScanInv => ScanSound
  BY MonPromises, BookPromises, RebuildPromise, CandidatesPromise DEF ScanInv, ScanSound
<1>. QED  BY <1>1, <1>2, <1>3, PTL DEF ScanSpec

=============================================================================
