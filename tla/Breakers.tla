------------------------------ MODULE Breakers ------------------------------
(***************************************************************************)
(* The risk breakers and their half-open probes: Breaker, its three domain *)
(* classes and BreakerSet (src/pumpgrok/risk/breakers.py), the probe       *)
(* claim of RiskEngine (risk/engine/rules.py, core.py) and the release in  *)
(* PaperAdapter.place (execution/paper_adapter/buy.py).  A breaker lives   *)
(* twice: as an object of the process, and as its BreakerTripped and       *)
(* BreakerReset rows, from which a new process adopts it again.            *)
(*                                                                         *)
(* Every operation below is one synchronous piece of the event loop; a buy *)
(* gives the loop up between its first check, its submission and its       *)
(* confirmation.                                                           *)
(***************************************************************************)
EXTENDS Integers, Sequences, FiniteSets

CONSTANTS
  Calls, Orders, OrderOf,   \* buys: calls of place, and the order each carries
  Watched,       \* sets of breakers: a behaviour meets the trip conditions of one set
  Cooldown,      \* [BreakerNames -> Nat]
  StaleAfter,    \* data_stale_s
  FreshWindow,   \* fresh_window_s
  RejectWindow,  \* EXEC_ERRORS_WINDOW_S
  LossWindow, CalmWindow,  \* window_s and reset_window_s
  Levels,        \* equities a mark may record
  MaxTime,       \* bound: the clock stops there
  MaxRejects,    \* bound: qualifying OrderRejected rows
  MaxBoots,      \* bound: restarts
  NoOne          \* no call, no order

BreakerNames == {"data_stale", "loss_velocity", "exec_errors"}

ASSUME OrderOfAssumption == OrderOf \in [Calls -> Orders]
ASSUME NoOneAssumption == NoOne \notin Calls \cup Orders
ASSUME WatchedAssumption == Watched \subseteq SUBSET BreakerNames
ASSUME CooldownAssumption == Cooldown \in [BreakerNames -> Nat \ {0}]
\* A trip of exec_errors is anchored inside its window, which is shorter than
\* its cooldown (600 s and 900 s).
ASSUME WindowAssumption == RejectWindow \in Nat /\ RejectWindow < Cooldown["exec_errors"]
ASSUME LevelsAssumption == Levels \subseteq Nat /\ MaxTime \in Nat

VARIABLES
  watched,   \* the breakers this behaviour meets: chosen once
  now,
  br,        \* the Breaker objects of this process
  lastTick, misses,   \* of DataStaleBreaker
  owner,     \* _probe_owners
  tripped,   \* the ledger: time of the last BreakerTripped row without a reset
  rejects,   \* the ledger: times of the qualifying OrderRejected rows
  marks,     \* the ledger: MarkToMarket equity at each instant, 0 for no row
  equity,    \* the equity a check computes
  placedBy,  \* the call whose OrderPlaced row holds the order's key
  held,      \* orders whose position is open
  pc, boots

vars == <<watched, now, br, lastTick, misses, owner, tripped, rejects, marks, equity,
          placedBy, held, pc, boots>>
feed == <<lastTick, misses>>
market == <<rejects, marks, equity>>

Never == -1

-----------------------------------------------------------------------------
(* One breaker: a record of opened_at, half_open, consecutive_failures,     *)
(* successes and probe_inflight.                                            *)

Threshold(b) == IF b = "loss_velocity" THEN 1 ELSE 3

ResetAfterOk(b) == IF b = "data_stale" THEN 3 ELSE 1

FreshBreaker == [opened |-> Never, half |-> FALSE, fails |-> 0, oks |-> 0, probe |-> FALSE]

\* is_open reads and writes: a cooldown that has passed becomes half-open.
Look(b, r) ==
  IF r.opened # Never /\ now - r.opened >= Cooldown[b]
    THEN [r EXCEPT !.opened = Never, !.half = TRUE, !.fails = Threshold(b) - 1, !.oks = 0]
    ELSE r

IsOpen(b, r) == Look(b, r).opened # Never

StateOf(b, r) ==
  IF IsOpen(b, r) THEN "open"
  ELSE IF Look(b, r).fails > 0 THEN "half-open" ELSE "closed"

Trip(b, r, at) ==
  [r EXCEPT !.opened = at, !.half = FALSE, !.fails = Threshold(b), !.oks = 0]

Success(b, r) ==
  IF r.oks + 1 >= ResetAfterOk(b)
    THEN [r EXCEPT !.opened = Never, !.half = FALSE, !.fails = 0, !.oks = 0]
    ELSE [r EXCEPT !.oks = @ + 1]

Resolve(b, r, ok) ==
  LET freed == [r EXCEPT !.probe = FALSE]
  IN IF ok THEN Success(b, freed)
     ELSE [freed EXCEPT !.opened = now, !.fails = Threshold(b), !.oks = 0]

\* _transition: a trip row when the text of the state became open, a reset row
\* when it became closed.
Logged(b, before, r, t) ==
  LET after == StateOf(b, r)
  IN IF after = before THEN t
     ELSE IF after = "open" THEN now ELSE IF after = "closed" THEN Never ELSE t

-----------------------------------------------------------------------------
(* Trip conditions *)

Silent == lastTick # Never /\ now - lastTick >= StaleAfter

EvalStale(r) ==
  LET l == Look("data_stale", r)
  IN IF l.opened = Never /\ ~l.half /\ Silent THEN Trip("data_stale", l, now) ELSE l

\* The points of the window: the marks, then the equity of this check.
Points(window) ==
  LET at == {t \in 0..now : t >= now - window /\ marks[t] > 0}
  IN IF at = {} THEN <<equity>>
     ELSE <<marks[CHOOSE t \in at : \A u \in at : t <= u], equity>>

\* (oldest - latest) / oldest over the window, in thousandths; 0 without history.
LossAtLeast(window, permille) ==
  LET p == Points(window)
  IN Len(p) = 2 /\ (p[1] - p[2]) * 1000 >= permille * p[1]

LossBelow(window, permille) ==
  LET p == Points(window)
  IN Len(p) = 2 /\ (p[1] - p[2]) * 1000 < permille * p[1]

EvalLoss(r) ==
  LET l == Look("loss_velocity", r)
  IN IF l.opened # Never \/ l.half
       THEN IF LossBelow(CalmWindow, 5) THEN Success("loss_velocity", l) ELSE l
       ELSE IF LossAtLeast(LossWindow, 20) THEN Trip("loss_velocity", l, now) ELSE l

\* The rejects of the window are replayed in order: the third one trips.
EvalErrors(r) ==
  LET l == Look("exec_errors", r)
      recent == {i \in DOMAIN rejects : now - rejects[i] <= RejectWindow}
      last == {i \in recent : Cardinality({j \in recent : j <= i}) = Threshold("exec_errors")}
  IN IF l.opened = Never /\ last # {}
       THEN Trip("exec_errors", l, rejects[CHOOSE i \in last : TRUE])
       ELSE l

Evaluated(b, r) ==
  CASE b = "data_stale" -> EvalStale(r)
    [] b = "loss_velocity" -> EvalLoss(r)
    [] b = "exec_errors" -> EvalErrors(r)

-----------------------------------------------------------------------------
(* One check of a buy: sync_from_ledger, refresh, walk, claim *)

\* Bug: the rows of an earlier process are not adopted.
AdoptedNever(b) == Look(b, br[b])

\* sync_from_ledger: a trip without a reset opens a breaker that is closed here.
Adopted(b) ==
  LET l == Look(b, br[b])
  IN IF tripped[b] # Never /\ l.opened = Never /\ ~l.half /\ ~l.probe
       THEN [l EXCEPT !.opened = tripped[b], !.fails = Threshold(b)]
       ELSE l

\* The breakers after sync and refresh, and the rows refresh appended.
Refreshed == [b \in BreakerNames |-> Look(b, Evaluated(b, Adopted(b)))]

\* Bug: only the breakers that evaluate() reads are persisted.
RefreshedRowsEvaluated ==
  [b \in BreakerNames |->
     IF b = "exec_errors" THEN tripped[b]
     ELSE Logged(b, StateOf(b, Adopted(b)), Evaluated(b, Adopted(b)), tripped[b])]

RefreshedRows ==
  [b \in BreakerNames |->
     Logged(b, StateOf(b, Adopted(b)), Evaluated(b, Adopted(b)), tripped[b])]

\* BREAKER_NAMES order, in which half-open breakers hand out their probe.
FirstOf(B) ==
  IF "data_stale" \in B THEN "data_stale"
  ELSE IF "loss_velocity" \in B THEN "loss_velocity" ELSE "exec_errors"

HalfOpen(f) == {b \in BreakerNames : f[b].half}
Available(f) == {b \in HalfOpen(f) : f[b].opened = Never /\ ~f[b].probe}

\* snapshot_probes drops the owners whose probe is no longer in flight.
Owners(f) == [b \in BreakerNames |-> IF f[b].probe THEN owner[b] ELSE NoOne]
Owned(f, o) == {b \in HalfOpen(f) : Owners(f)[b] = o}

\* The breaker_open step and the claim, for a buy no other step refuses.
Passes(o) ==
  LET f == Refreshed
  IN /\ \A b \in BreakerNames : f[b].opened = Never
     /\ HalfOpen(f) = {} \/ Owned(f, o) # {} \/ Available(f) # {}
     /\ o \notin held

Claims(o) == HalfOpen(Refreshed) # {} /\ Owned(Refreshed, o) = {}

\* A check that passes; one that is refused claims nothing.
CheckedBreakers(o, ok) ==
  LET b0 == FirstOf(Available(Refreshed))
  IN IF ok /\ Claims(o) THEN [Refreshed EXCEPT ![b0].probe = TRUE] ELSE Refreshed

CheckedOwners(o, ok) ==
  LET b0 == FirstOf(Available(Refreshed))
  IN IF ok /\ Claims(o) THEN [Owners(Refreshed) EXCEPT ![b0] = o] ELSE Owners(Refreshed)

CheckPasses(o) ==
  /\ Passes(o)
  /\ br' = CheckedBreakers(o, TRUE)
  /\ owner' = CheckedOwners(o, TRUE)
  /\ tripped' = RefreshedRows

-----------------------------------------------------------------------------
(* The end of a call: release_order_probes of the order, then resolve_probe *)

\* f, own and t are the breakers, owners and rows the call leaves behind.
Released(f, own, o, ok) ==
  [b \in BreakerNames |-> IF own[b] = o /\ f[b].probe THEN Resolve(b, Look(b, f[b]), ok) ELSE f[b]]

ReleasedRows(f, own, t, o, ok) ==
  [b \in BreakerNames |->
     IF own[b] = o /\ f[b].probe
       THEN Logged(b, StateOf(b, f[b]), Resolve(b, Look(b, f[b]), ok), t[b])
       ELSE t[b]]

\* _settle_probes: the call that wrote the order settles; a call that wrote
\* nothing settles only while no order of the decision is written.
Settles(c) == placedBy[OrderOf[c]] \in {c, NoOne}

End(c, f, own, t, ok) ==
  LET o == OrderOf[c] IN
  /\ pc' = [pc EXCEPT ![c] = "done"]
  /\ br' = IF Settles(c) THEN Released(f, own, o, ok) ELSE f
  /\ owner' = IF Settles(c) THEN [b \in BreakerNames |-> IF own[b] = o THEN NoOne ELSE own[b]]
                            ELSE own
  /\ tripped' = IF Settles(c) THEN ReleasedRows(f, own, t, o, ok) ELSE t

EndUnchecked(c, ok) == End(c, br, owner, tripped, ok)

EndChecked(c, passed, ok) ==
  End(c, CheckedBreakers(OrderOf[c], passed), CheckedOwners(OrderOf[c], passed),
      RefreshedRows, ok)

Still == UNCHANGED <<watched, now, feed, boots>>

-----------------------------------------------------------------------------
(* PaperAdapter.place of a buy, as far as the probes go *)

PlaceRepeat(c) ==
  /\ pc[c] = "idle" /\ placedBy[OrderOf[c]] # NoOne
  /\ EndUnchecked(c, TRUE)
  /\ Still /\ UNCHANGED <<market, placedBy, held>>

\* The ACCEPTED check refuses: a breaker, or any other step.
PlaceRefused(c) ==
  /\ pc[c] = "idle" /\ placedBy[OrderOf[c]] = NoOne
  /\ EndChecked(c, FALSE, FALSE)
  /\ Still /\ UNCHANGED <<market, placedBy, held>>

PlaceAdmitted(c) ==
  /\ pc[c] = "idle" /\ placedBy[OrderOf[c]] = NoOne
  /\ CheckPasses(OrderOf[c])
  /\ pc' = [pc EXCEPT ![c] = "deciding"]
  /\ Still /\ UNCHANGED <<market, placedBy, held>>

\* The curve is unusable, or the task is cancelled at the read.
RefusedAtCurve(c) ==
  /\ pc[c] = "deciding"
  /\ EndUnchecked(c, FALSE)
  /\ Still /\ UNCHANGED <<market, placedBy, held>>

SubmitRefused(c) ==
  /\ pc[c] = "deciding"
  /\ EndChecked(c, FALSE, FALSE)
  /\ Still /\ UNCHANGED <<market, placedBy, held>>

\* The second check passes, but another call has written the order: its stored
\* outcome is this call's answer.
SubmitRepeat(c) ==
  /\ pc[c] = "deciding" /\ placedBy[OrderOf[c]] # NoOne
  /\ Passes(OrderOf[c])
  /\ EndChecked(c, TRUE, FALSE)
  /\ Still /\ UNCHANGED <<market, placedBy, held>>

Submit(c) ==
  /\ pc[c] = "deciding" /\ placedBy[OrderOf[c]] = NoOne
  /\ CheckPasses(OrderOf[c])
  /\ placedBy' = [placedBy EXCEPT ![OrderOf[c]] = c]
  /\ pc' = [pc EXCEPT ![c] = "latency"]
  /\ Still /\ UNCHANGED <<market, held>>

\* Cancelled, timed out, or an exception: no check, no qualifying reason.
LatencyEnds(c) ==
  /\ pc[c] = "latency"
  /\ EndUnchecked(c, FALSE)
  /\ Still /\ UNCHANGED <<market, placedBy, held>>

ConfirmRefused(c) ==
  /\ pc[c] = "latency"
  /\ EndChecked(c, FALSE, FALSE)
  /\ Still /\ UNCHANGED <<market, placedBy, held>>

\* tx_dropped and slippage_exceeded count for exec_errors.
ConfirmDropped(c) ==
  /\ pc[c] = "latency" /\ Len(rejects) < MaxRejects
  /\ "exec_errors" \in watched
  /\ Passes(OrderOf[c])
  /\ EndChecked(c, TRUE, FALSE)
  /\ rejects' = Append(rejects, now)
  /\ Still /\ UNCHANGED <<marks, equity, placedBy, held>>

\* Bug: CONFIRMING does not check again.
ConfirmFilledUnchecked(c) ==
  /\ pc[c] = "latency"
  /\ EndUnchecked(c, TRUE)
  /\ held' = held \cup {OrderOf[c]}
  /\ Still /\ UNCHANGED <<market, placedBy>>

ConfirmFilled(c) ==
  /\ pc[c] = "latency"
  /\ Passes(OrderOf[c])
  /\ EndChecked(c, TRUE, TRUE)
  /\ held' = held \cup {OrderOf[c]}
  /\ Still /\ UNCHANGED <<market, placedBy>>

-----------------------------------------------------------------------------
(* The feed, the market, other orders, the clock and the process *)

\* BreakerSet.note_tick: a gap in the ticks restarts the success streak.
NoteTick ==
  LET r == Look("data_stale", br["data_stale"])
      gap == lastTick # Never /\ now - lastTick > FreshWindow
      streak == IF gap THEN [r EXCEPT !.oks = 0] ELSE r
      after == Success("data_stale", streak)
  IN /\ "data_stale" \in watched
     /\ lastTick' = now /\ misses' = 0
     /\ br' = [br EXCEPT !["data_stale"] = after]
     /\ tripped' = [tripped EXCEPT !["data_stale"] =
                      Logged("data_stale", StateOf("data_stale", r), after, @)]
     /\ UNCHANGED <<watched, now, owner, market, placedBy, held, pc, boots>>

NoteMiss ==
  LET r == Look("data_stale", br["data_stale"])
      after == IF misses + 1 >= 3 /\ r.opened = Never THEN Trip("data_stale", r, now) ELSE r
  IN /\ "data_stale" \in watched
     /\ misses < 3
     /\ misses' = misses + 1
     /\ br' = [br EXCEPT !["data_stale"] = after]
     /\ tripped' = [tripped EXCEPT !["data_stale"] =
                      Logged("data_stale", StateOf("data_stale", r), after, @)]
     /\ UNCHANGED <<watched, now, lastTick, owner, market, placedBy, held, pc, boots>>

\* A mark of the book appends MarkToMarket with the equity it found.
Mark(e) ==
  /\ "loss_velocity" \in watched
  /\ marks[now] = 0
  /\ equity' = e
  /\ marks' = [marks EXCEPT ![now] = e]
  /\ UNCHANGED <<watched, now, br, feed, owner, tripped, rejects, placedBy, held, pc, boots>>

\* Sells pass an open breaker, and their drops count as well.
ExitDropped ==
  /\ "exec_errors" \in watched
  /\ Len(rejects) < MaxRejects
  /\ rejects' = Append(rejects, now)
  /\ UNCHANGED <<watched, now, br, feed, owner, tripped, marks, equity, placedBy, held, pc, boots>>

ClosePosition(o) ==
  /\ o \in held
  /\ held' = held \ {o}
  /\ UNCHANGED <<watched, now, br, feed, owner, tripped, market, placedBy, pc, boots>>

Tick ==
  /\ now < MaxTime
  /\ now' = now + 1
  /\ UNCHANGED <<watched, br, feed, owner, tripped, market, placedBy, held, pc, boots>>

\* A new process: fresh breakers and no owners; the ledger stays.
Restart ==
  /\ boots < MaxBoots
  /\ boots' = boots + 1
  /\ br' = [b \in BreakerNames |-> FreshBreaker]
  /\ owner' = [b \in BreakerNames |-> NoOne]
  /\ lastTick' = Never /\ misses' = 0
  /\ pc' = [c \in Calls |-> IF pc[c] \in {"deciding", "latency"} THEN "done" ELSE pc[c]]
  /\ UNCHANGED <<watched, now, tripped, market, placedBy, held>>

BreakersInit ==
  /\ watched \in Watched
  /\ now = 0
  /\ br = [b \in BreakerNames |-> FreshBreaker]
  /\ lastTick = Never /\ misses = 0
  /\ owner = [b \in BreakerNames |-> NoOne]
  /\ tripped = [b \in BreakerNames |-> Never]
  /\ rejects = <<>>
  /\ marks = [t \in 0..MaxTime |-> 0]
  /\ equity \in Levels /\ \A e \in Levels : e <= equity
  /\ placedBy = [o \in Orders |-> NoOne]
  /\ held = {}
  /\ pc = [c \in Calls |-> "idle"]
  /\ boots = 0

Buy(c) ==
  \/ PlaceRepeat(c) \/ PlaceRefused(c) \/ PlaceAdmitted(c)
  \/ RefusedAtCurve(c) \/ SubmitRefused(c) \/ SubmitRepeat(c) \/ Submit(c)
  \/ LatencyEnds(c) \/ ConfirmRefused(c) \/ ConfirmDropped(c) \/ ConfirmFilled(c)

Surroundings ==
  \/ NoteTick \/ NoteMiss \/ ExitDropped \/ Tick \/ Restart
  \/ \E e \in Levels : Mark(e)
  \/ \E o \in Orders : ClosePosition(o)

BreakersNext == Surroundings \/ \E c \in Calls : Buy(c)

BreakersSpec == BreakersInit /\ [][BreakersNext]_vars

-----------------------------------------------------------------------------
(* What the breakers promise *)

BreakerRecord ==
  [opened : Int, half : BOOLEAN, fails : 0..3, oks : 0..2, probe : BOOLEAN]

\* Every variable stays in its domain.
BreakersTypeOK ==
  /\ watched \in Watched
  /\ now \in Nat
  /\ br \in [BreakerNames -> BreakerRecord]
  /\ lastTick \in Int /\ misses \in Nat
  /\ owner \in [BreakerNames -> Orders \cup {NoOne}]
  /\ tripped \in [BreakerNames -> Int]
  /\ rejects \in Seq(Nat)
  /\ marks \in [0..MaxTime -> Nat] /\ equity \in Nat
  /\ placedBy \in [Orders -> Calls \cup {NoOne}]
  /\ held \subseteq Orders
  /\ pc \in [Calls -> {"idle", "deciding", "latency", "done"}]
  /\ boots \in Nat

\* Whatever opened a breaker of this process (silence, misses, a loss, rejects, a
\* failed probe), its trip is in the ledger without a reset: a process that dies
\* now leaves a successor that finds it (BreakerSet, R24).
TripsSurvive ==
  \A b \in BreakerNames : br[b].opened # Never => tripped[b] # Never

\* No buy fills inside the cooldown of a trip that was not reset, however often
\* the process restarted in between.  exec_errors counts its cooldown from the
\* reject that tripped it, which lies in the window before its row.
CooldownServed ==
  [][\A b \in BreakerNames :
       held' \ held # {} /\ tripped'[b] # Never
       => now - tripped'[b] >=
            Cooldown[b] - (IF b = "exec_errors" THEN RejectWindow ELSE 0)]_vars

\* exec_errors closes only with the fill of a buy: no repeat, refusal, restart or
\* late reject of another call resets it (_settle_probes decides who may).
ErrorsResetByFill ==
  [][tripped["exec_errors"] # Never /\ tripped'["exec_errors"] = Never
     => held' \ held # {}]_vars

\* A trip is known to a successor.
BreakersSound == BreakersTypeOK /\ TripsSurvive

\* A breaker lets buys through again only after its cooldown, and exec_errors
\* closes only by a fill.
ClosesEarned == CooldownServed /\ ErrorsResetByFill

Live(o) == \E c \in Calls : OrderOf[c] = o /\ pc[c] \in {"deciding", "latency"}

(* What the documents say and the code does not do *)

\* PaperAdapter.place: "its breaker probe is released on every final outcome".  When
\* no call of the owning order is under way its probe is released.
ProbeReleased ==
  \A b \in BreakerNames : br[b].probe => Live(owner[b])
=============================================================================
