---------------------------- MODULE GuardedCalls ----------------------------
(***************************************************************************)
(* Tool calls of one process on the fixture clock.  A call runs under a    *)
(* timeout, takes a token of the limiter it shares with the other calls,   *)
(* runs its tool and may retry it (core/registry.py _wrap, ratelimit.py).  *)
(* Time moves only when somebody advances the clock, in steps that may     *)
(* pass several timers at once (replay/clock.py, replay_runtime.py).       *)
(***************************************************************************)
EXTENDS Integers, Sequences, FiniteSets, SequencesExt

CONSTANTS
  Guarded,         \* the calls
  Awaited,         \* the one the replay runner waits for
  Stride,          \* _VIRTUAL_STEP_S: the step of a runner that waits
  Leaps,           \* steps to the next recorded event
  MaxStrides,      \* _VIRTUAL_MAX_STEPS
  Limits,          \* per call, the timeout_s its tool may have
  WorkTimes,       \* how long a tool runs
  Attempts, Backoff,
  Burst, Refill,   \* tokens the limiter holds; time for one more
  LastInstant      \* bound on the time

NoHolder == "nobody"

ASSUME GuardAssumption ==
  /\ IsFiniteSet(Guarded) /\ NoHolder \notin Guarded /\ Awaited \in Guarded
  /\ Stride \in Nat \ {0} /\ Leaps \subseteq Nat \ {0} /\ MaxStrides \in Nat \ {0}
  /\ Limits \in [Guarded -> SUBSET (Nat \ {0})] /\ WorkTimes \subseteq Nat
  /\ Burst \in Nat \ {0} /\ Refill \in Nat \ {0}
  /\ Attempts \in Nat \ {0} /\ Backoff \in Nat

VARIABLES
  instant,         \* the virtual time
  call,            \* per call: where it is, what has reached it
  timers,          \* the heap: what is due when, numbered as scheduled
  ready,           \* the run queue of the event loop
  bucket,          \* [tokens, updated], in units of 1/Refill
  holder,          \* the call that holds the limiter's lock
  waiters,         \* the lock's waiters, first come first
  strides,         \* steps made while waiting; -1 once the runner gave up
  grants           \* [who, at] of every token taken

clockVars == <<instant, call, timers, ready, strides>>
limiterVars == <<bucket, holder, waiters, grants>>
guardedVars == <<clockVars, limiterVars>>

Ends == {"done", "failed", "timedout"}

Running(c) == call[c].at \notin Ends \cup {"new"}

Timer(who, kind, when) ==
  [who |-> who, kind |-> kind, when |-> when, seq |-> Max({0} \cup {t.seq : t \in timers}) + 1]
Schedules(who, kind, when) == timers' = timers \cup {Timer(who, kind, when)}
TimersBut(c) == {t \in timers : t.who # c}

(******************************** the clock ********************************)
DueTimers(ts) == {t \in timers : t.when <= ts}
Before(t, u) == t.when < u.when \/ (t.when = u.when /\ t.seq < u.seq)
FirstOf(c, due) ==
  CHOOSE t \in due : t.who = c /\ \A u \in due \ {t} : u.who = c => Before(t, u)
Expires(c, due) == \E t \in due : t.who = c /\ t.kind = "expire"

\* Mutant: a call that was woken first is no longer timed out.
ReachedWokenSpared(c, due) ==
  [call[c] EXCEPT !.woken = TRUE, !.cancelled = FirstOf(c, due).kind = "expire"]

\* A wake and a deadline passed together both reach the call: it is cancelled.
Reached(c, due) == [call[c] EXCEPT !.woken = TRUE, !.cancelled = Expires(c, due)]

\* The loop runs those reached in the order of their first timers.
AdvanceTo(ts) ==
  LET due == DueTimers(ts)
      who == {t.who : t \in due}
  IN /\ instant' = ts /\ timers' = timers \ due
     /\ call' = [c \in Guarded |-> IF c \in who THEN Reached(c, due) ELSE call[c]]
     /\ ready' \in {q \in SetToSeqs(who) : \A i, j \in DOMAIN q :
                     i < j => Before(FirstOf(q[i], due), FirstOf(q[j], due))}

\* The runner waits for its order in steps; the loop runs dry between two.  The
\* first step is made before the order's task has run at all.
SettleOnVirtualTime ==
  /\ ready = <<>> /\ (strides = 0 \/ Running(Awaited))
  /\ strides \in 0 .. MaxStrides - 1 /\ strides' = strides + 1
  /\ AdvanceTo(instant + Stride)
  /\ UNCHANGED limiterVars

GiveUp ==
  /\ ready = <<>> /\ Running(Awaited) /\ strides = MaxStrides
  /\ strides' = -1
  /\ UNCHANGED <<instant, call, timers, ready, limiterVars>>

\* Bound: no event after LastInstant.
NextEvent(leap) ==
  /\ ready = <<>> /\ (strides = 0 \/ call[Awaited].at \in Ends)
  /\ instant + leap <= LastInstant
  /\ AdvanceTo(instant + leap)
  /\ UNCHANGED <<strides, limiterVars>>

(******************************* the limiter *******************************)
Tokens ==
  LET grown == bucket.tokens + (instant - bucket.updated)
  IN IF grown > Burst * Refill THEN Burst * Refill ELSE grown

MovedTo(c, place) == [call[c] EXCEPT !.at = place, !.woken = FALSE]

\* The lock goes to nobody; its first waiter is woken, and takes it in its turn.
Released(ws, cs, rs) ==
  /\ holder' = NoHolder
  /\ waiters' = ws
  /\ IF ws # <<>> /\ ~cs[Head(ws)].woken
     THEN call' = [cs EXCEPT ![Head(ws)].woken = TRUE] /\ ready' = Append(rs, Head(ws))
     ELSE call' = cs /\ ready' = rs

\* With the lock: a token is taken, or the call sleeps until there is one.
Draw(c, ws, rs) ==
  /\ IF Tokens >= Refill
     THEN \E w \in WorkTimes :
            /\ bucket' = [tokens |-> Tokens - Refill, updated |-> instant]
            /\ grants' = Append(grants, [who |-> c, at |-> instant])
            /\ Schedules(c, "wake", instant + w)
            /\ Released(ws, [call EXCEPT ![c] = [MovedTo(c, "working") EXCEPT !.tries = @ + 1]], rs)
     ELSE /\ bucket' = [tokens |-> Tokens, updated |-> instant]
          /\ Schedules(c, "wake", instant + Refill - Tokens)
          /\ call' = [call EXCEPT ![c] = MovedTo(c, "pacing")]
          /\ holder' = c /\ waiters' = ws /\ ready' = rs
          /\ UNCHANGED grants
  /\ UNCHANGED <<instant, strides>>

\* The lock is free for a newcomer only when nobody waits for it.
AskLimiter(c, rs) ==
  \/ holder = NoHolder /\ waiters = <<>> /\ Draw(c, <<>>, rs)
  \/ /\ holder # NoHolder \/ waiters # <<>>
     /\ waiters' = Append(waiters, c)
     /\ call' = [call EXCEPT ![c] = MovedTo(c, "queued")]
     /\ ready' = rs
     /\ UNCHANGED <<instant, strides, timers, bucket, holder, grants>>

(********************************** calls **********************************)
\* The timeout starts before the limiter is asked.
Enter(c, limit) ==
  /\ call[c].at = "new" /\ (c = Awaited => strides > 0)
  /\ call' = [call EXCEPT ![c] = [@ EXCEPT !.at = "entered", !.entered = instant,
                                           !.limit = limit]]
  /\ Schedules(c, "expire", instant + limit)
  /\ ready' = Append(ready, c)
  /\ UNCHANGED <<instant, strides, limiterVars>>

Resumes(c) == ready # <<>> /\ Head(ready) = c
GoesOn(c) == Resumes(c) /\ ~call[c].cancelled

EnteredAsks(c) == GoesOn(c) /\ call[c].at = "entered" /\ AskLimiter(c, Tail(ready))
TakesLock(c) == GoesOn(c) /\ call[c].at = "queued" /\ Draw(c, Tail(waiters), Tail(ready))
PacedDraws(c) == GoesOn(c) /\ call[c].at = "pacing" /\ Draw(c, waiters, Tail(ready))
RetryAsks(c) == GoesOn(c) /\ call[c].at = "backoff" /\ AskLimiter(c, Tail(ready))

Finishes(c, how) ==
  /\ call' = [call EXCEPT ![c] = [MovedTo(c, how) EXCEPT !.ended = instant]]
  /\ timers' = TimersBut(c)
  /\ ready' = Tail(ready)

\* The tool returns, or fails in a way that is retried while attempts last.
ToolEnds(c) ==
  /\ GoesOn(c) /\ call[c].at = "working"
  /\ \/ Finishes(c, "done")
     \/ call[c].tries >= Attempts /\ Finishes(c, "failed")
     \/ /\ call[c].tries < Attempts
        /\ call' = [call EXCEPT ![c] = MovedTo(c, "backoff")]
        /\ Schedules(c, "wake", instant + Backoff)
        /\ ready' = Tail(ready)
  /\ UNCHANGED <<instant, strides, limiterVars>>

\* The deadline reaches the call wherever it is: a lock it holds is released,
\* a lock that was just offered to it goes to the next waiter.
TimesOut(c) ==
  /\ Resumes(c) /\ call[c].cancelled
  /\ LET ended == [call EXCEPT ![c] = [MovedTo(c, "timedout") EXCEPT !.ended = instant]]
         left == RemoveFirst(waiters, c)
     IN IF holder = c \/ holder = NoHolder
        THEN Released(left, ended, Tail(ready))
        ELSE call' = ended /\ waiters' = left /\ ready' = Tail(ready) /\ UNCHANGED holder
  /\ timers' = TimersBut(c)
  /\ UNCHANGED <<instant, strides, bucket, grants>>

GuardedNext ==
  \/ SettleOnVirtualTime \/ GiveUp
  \/ \E leap \in Leaps : NextEvent(leap)
  \/ \E c \in Guarded :
       \/ \E limit \in Limits[c] : Enter(c, limit)
       \/ EnteredAsks(c) \/ TakesLock(c) \/ PacedDraws(c) \/ RetryAsks(c)
       \/ ToolEnds(c) \/ TimesOut(c)

GuardedInit ==
  /\ instant = 0 /\ timers = {} /\ ready = <<>> /\ strides = 0
  /\ call = [c \in Guarded |-> [at |-> "new", woken |-> FALSE, cancelled |-> FALSE,
                                tries |-> 0, limit |-> 0, entered |-> 0, ended |-> 0]]
  /\ bucket = [tokens |-> Burst * Refill, updated |-> 0]
  /\ holder = NoHolder /\ waiters = <<>> /\ grants = <<>>

GuardedSpec == GuardedInit /\ [][GuardedNext]_guardedVars

(******************************* properties ********************************)
\* However calls queue, sleep, retry and are cut off, any stretch of time holds
\* no more calls than the burst and the refill allow (ratelimit.py acquire).
RateHolds ==
  \A i, j \in DOMAIN grants :
    i <= j => (j - i + 1 - Burst) * Refill <= grants[j].at - grants[i].at

\* A call that returns does so before its deadline, and one cut off is not cut
\* off early, whichever of a wake and a deadline one advance passes first
\* (clock.py timeout).
DeadlinesHold ==
  \A c \in Guarded :
    /\ call[c].at \in {"done", "failed"} => call[c].ended - call[c].entered < call[c].limit
    /\ call[c].at = "timedout" => call[c].ended - call[c].entered >= call[c].limit

\* Whoever is cut off while it waits for, is offered or holds the limiter's
\* lock, the lock is never stuck: with nothing left to run, a call that waits
\* has a holder in front of it that a timer will wake.
LockNeverStuck ==
  /\ holder # NoHolder => Running(holder)
  /\ waiters # <<>> /\ ready = <<>> =>
       holder # NoHolder /\ \E t \in timers : t.who = holder /\ t.kind = "wake"

\* The runner gives up only on a call whose deadline is beyond its patience, of
\* which the first step passed before the call began
\* (replay_runtime.py _settle_on_virtual_time).
RunnerSettles == strides = -1 => call[Awaited].limit > (MaxStrides - 1) * Stride

CallsGuarded == RateHolds /\ DeadlinesHold /\ LockNeverStuck /\ RunnerSettles
=============================================================================
