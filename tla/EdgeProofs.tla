----------------------------- MODULE EdgeProofs -----------------------------
(***************************************************************************)
(* What the edges of the desk promise, for every value of the constants:   *)
(* the calls behind a rate limit and a deadline, the figures of a window,  *)
(* the halts of the day, reads over several endpoints, and what stands     *)
(* between a person and an order.                                          *)
(***************************************************************************)
EXTENDS GuardedCalls, WindowFigures, HaltLatch, RpcFailover, LiveDoor,
  FiniteSetTheorems, SequenceTheorems, TLAPS

-----------------------------------------------------------------------------
(* Finite sets of integers *)

\* A finite set of integers has a greatest element: the last ticket number of a
\* day, the best mean of a search.
LEMMA Greatest ==
  ASSUME NEW S \in SUBSET Int, IsFiniteSet(S), S # {}
  PROVE  \E m \in S : \A n \in S : n <= m
<1>. DEFINE Above(m) == {n \in S : n > m}
            Family == {Above(m) : m \in S}
<1>1. IsWellFoundedOn(StrictSubsetOrdering(S), FiniteSubsetsOf(S))
  BY FS_StrictSubsetOrderingWellFounded
<1>2. Family \subseteq FiniteSubsetsOf(S)
  BY FS_FiniteSubsetsOfFinite
<1>3. Family # {}
  OBVIOUS
<1>. HIDE DEF Family
<1>4. PICK T \in Family : \A U \in Family : <<U, T>> \notin StrictSubsetOrdering(S)
  BY <1>1, <1>2, <1>3, WFMin
<1>5. PICK m \in S : T = Above(m)
  BY DEF Family
<1>6. ASSUME NEW n \in S, n > m PROVE FALSE
  <2>1. Above(n) \in Family
    BY DEF Family
  <2>2. Above(n) \subseteq T
    <3>1. \A x \in S : x > n => x > m
      BY <1>6
    <3>. QED  BY <1>5, <3>1
  <2>3. n \in T /\ n \notin Above(n)
    BY <1>5, <1>6
  <2>. QED  BY <1>2, <1>4, <2>1, <2>2, <2>3 DEF StrictSubsetOrdering, FiniteSubsetsOf
<1>. QED  BY <1>6

\* And a least one.
LEMMA SmallestOfFinite ==
  ASSUME NEW S \in SUBSET Int, IsFiniteSet(S), S # {}
  PROVE  \E m \in S : \A n \in S : m <= n
<1>. DEFINE Below(m) == {n \in S : n < m}
            Family == {Below(m) : m \in S}
<1>1. IsWellFoundedOn(StrictSubsetOrdering(S), FiniteSubsetsOf(S))
  BY FS_StrictSubsetOrderingWellFounded
<1>2. Family \subseteq FiniteSubsetsOf(S)
  BY FS_FiniteSubsetsOfFinite
<1>3. Family # {}
  OBVIOUS
<1>. HIDE DEF Family
<1>4. PICK T \in Family : \A U \in Family : <<U, T>> \notin StrictSubsetOrdering(S)
  BY <1>1, <1>2, <1>3, WFMin
<1>5. PICK m \in S : T = Below(m)
  BY DEF Family
<1>6. ASSUME NEW n \in S, n < m PROVE FALSE
  <2>1. Below(n) \in Family
    BY DEF Family
  <2>2. Below(n) \subseteq T
    <3>1. \A x \in S : x < n => x < m
      BY <1>6
    <3>. QED  BY <1>5, <3>1
  <2>3. n \in T /\ n \notin Below(n)
    BY <1>5, <1>6
  <2>. QED  BY <1>2, <1>4, <2>1, <2>2, <2>3 DEF StrictSubsetOrdering, FiniteSubsetsOf
<1>. QED  BY <1>6

\* The ends of a finite set of numbers.
LEMMA EndsAre ==
  ASSUME NEW S \in SUBSET Nat, IsFiniteSet(S), S # {}
  PROVE  /\ Max(S) \in S /\ \A s \in S : s <= Max(S)
         /\ Min(S) \in S /\ \A s \in S : Min(S) <= s
<1>1. \E x \in S : \A y \in S : x >= y
  BY Greatest
<1>2. \E x \in S : \A y \in S : x <= y
  BY SmallestOfFinite
<1>. QED  BY <1>1, <1>2 DEF Max, Min

\* The greatest number up to n is n.
LEMMA MaxUpTo ==
  ASSUME NEW n \in Nat, NEW S \in SUBSET (1 .. n), n \in S
  PROVE  Max(S) = n
<1>1. \A x \in S : (\A y \in S : x >= y) => x = n
  OBVIOUS
<1>2. \E x \in S : \A y \in S : x >= y
  OBVIOUS
<1>. QED  BY <1>1, <1>2, Zenon DEF Max

-----------------------------------------------------------------------------
(* Guarded calls: one call *)

Asleep == {"pacing", "working", "backoff"}
GuardedRec ==
  [at : {"new", "entered", "queued"} \cup Asleep \cup Ends, woken : BOOLEAN, cancelled : BOOLEAN,
   tries : Nat, limit : Nat, entered : Nat, ended : Nat]

\* What holds of call d, whose record is r and whose timers are ts, when the calls
\* in `pending` are to be run at time `now`.
CallRuns(d, r, ts, pending, moment) ==
  /\ r.entered <= moment
  /\ d \in pending <=> r.at = "entered" \/ r.woken
  /\ r.cancelled => r.woken /\ r.entered + r.limit <= moment
  /\ ~r.cancelled => /\ moment < r.entered + r.limit
                     /\ \E t \in ts : t.kind = "expire"
  /\ \A t \in ts : t.kind = "expire" => t.when = r.entered + r.limit
  /\ \A t \in ts : t.kind = "wake" => r.at \in Asleep /\ (r.woken => r.cancelled)
  /\ \A t, u \in ts : t.kind = "wake" /\ u.kind = "wake" => t = u
  /\ r.at \in Asleep /\ ~r.woken => \E t \in ts : t.kind = "wake"
CallOver(d, r, ts, pending) ==
  /\ d \notin pending /\ ts = {}
  /\ r.at = "new" => ~r.woken /\ ~r.cancelled
  /\ r.at \in {"done", "failed"} => r.ended - r.entered < r.limit
  /\ r.at = "timedout" => r.ended - r.entered >= r.limit
CallOk(d, r, ts, pending, moment) ==
  /\ r \in GuardedRec /\ \A t \in ts : t.when \in Nat /\ t.kind \in {"wake", "expire"}
  /\ IF r.at \in Ends \cup {"new"} THEN CallOver(d, r, ts, pending)
     ELSE CallRuns(d, r, ts, pending, moment)

\* Time passes for one call when the loop has run dry.
LEMMA TimePasses ==
  ASSUME NEW d, NEW r, NEW ts, NEW moment \in Nat, NEW later \in Nat, moment < later,
         CallOk(d, r, ts, {}, moment), NEW due, due = {t \in ts : t.when <= later},
         NEW r2, NEW pending, d \in pending <=> due # {},
         r2 = IF due # {}
              THEN [r EXCEPT !.woken = TRUE, !.cancelled = \E t \in due : t.kind = "expire"]
              ELSE r
  PROVE  CallOk(d, r2, ts \ due, pending, later)
<1>. DEFINE out == \E t \in due : t.kind = "expire"
<1>0. r \in GuardedRec
  BY DEF CallOk
<1>1. CASE r.at \in Ends \cup {"new"}
  <2>1. due = {} /\ ts \ due = {} /\ r2 = r /\ d \notin pending
    BY <1>1 DEF CallOk, CallOver
  <2>. QED  BY <1>1, <2>1 DEF CallOk, CallOver
<1>2. CASE r.at \notin Ends \cup {"new"}
  <2>1. CallRuns(d, r, ts, {}, moment) /\ ~r.woken /\ r.at # "entered" /\ ~r.cancelled
        /\ \A t \in ts : t.when \in Nat /\ t.kind \in {"wake", "expire"}
    BY <1>2 DEF CallOk, CallRuns
  <2>2. r.entered \in Nat /\ r.limit \in Nat
    BY <1>0 DEF GuardedRec
  <2>3. CASE due = {}
    <3>1. r2 = r /\ ts \ due = ts /\ d \notin pending
      BY <2>3
    <3>2. PICK t \in ts : t.kind = "expire" /\ t.when = r.entered + r.limit
      BY <2>1 DEF CallRuns
    <3>3. later < r.entered + r.limit
      BY <2>1, <2>2, <2>3, <3>2
    <3>. QED  BY <1>0, <1>2, <2>1, <2>2, <3>1, <3>3 DEF CallOk, CallRuns
  <2>4. CASE due # {}
    <3>0. out \in BOOLEAN
      OBVIOUS
    <3>1. /\ r2 \in GuardedRec /\ r2.at = r.at /\ r2.woken = TRUE /\ r2.cancelled = out
          /\ r2.entered = r.entered /\ r2.limit = r.limit /\ d \in pending
      <4>. HIDE DEF out
      <4>1. r2 = [r EXCEPT !.woken = TRUE, !.cancelled = out]
        BY <2>4 DEF out
      <4>. QED  BY <1>0, <2>4, <3>0, <4>1 DEF GuardedRec
    <3>2. r2.entered <= later
      BY <2>1, <2>2, <3>1 DEF CallRuns
    <3>3. out => r2.entered + r2.limit <= later
      BY <2>1, <3>1 DEF CallRuns
    <3>4. ~out => later < r2.entered + r2.limit /\ \E t \in ts \ due : t.kind = "expire"
      <4>. SUFFICES ASSUME ~out PROVE later < r2.entered + r2.limit /\ \E t \in ts \ due : t.kind = "expire"
        OBVIOUS
      <4>1. PICK t \in ts : t.kind = "expire"
        BY <2>1 DEF CallRuns
      <4>2. t \notin due /\ t.when = r.entered + r.limit
        BY <2>1, <4>1 DEF CallRuns
      <4>. QED  BY <2>1, <2>2, <3>1, <4>1, <4>2
    <3>5. \A t \in ts \ due : t.kind = "wake" => r2.at \in Asleep /\ out
      <4>. SUFFICES ASSUME NEW t \in ts \ due, t.kind = "wake" PROVE r2.at \in Asleep /\ out
        OBVIOUS
      <4>1. PICK u \in due : TRUE
        BY <2>4
      <4>2. u.kind # "wake"
        BY <2>1, <4>1 DEF CallRuns
      <4>3. u.kind = "expire"
        BY <2>1, <4>1, <4>2
      <4>. QED  BY <2>1, <3>1, <4>3 DEF CallRuns
    <3>6. /\ \A t \in ts \ due : t.kind = "expire" => t.when = r2.entered + r2.limit
          /\ \A t, u \in ts \ due : t.kind = "wake" /\ u.kind = "wake" => t = u
      BY <2>1, <3>1 DEF CallRuns
    <3>. HIDE DEF out
    <3>7. CallRuns(d, r2, ts \ due, pending, later)
      BY <3>0, <3>1, <3>2, <3>3, <3>4, <3>5, <3>6 DEF CallRuns
    <3>. QED  BY <1>2, <2>1, <3>1, <3>7 DEF CallOk
  <2>. QED  BY <2>3, <2>4
<1>. QED  BY <1>1, <1>2

\* The call at the head of the waiters is woken.
LEMMA WokenInTurn ==
  ASSUME NEW d, NEW r, NEW ts, NEW moment \in Nat, NEW before, NEW pending, d \in pending,
         CallOk(d, r, ts, before, moment), r.at = "queued", ~r.woken
  PROVE  CallOk(d, [r EXCEPT !.woken = TRUE], ts, pending, moment)
<1>1. r \in GuardedRec /\ [r EXCEPT !.woken = TRUE] \in GuardedRec
  BY DEF CallOk, GuardedRec
<1>. QED  BY <1>1 DEF CallOk, CallRuns, GuardedRec, Asleep, Ends

\* A call whose turn it is queues, or sleeps until a timer of its own.
LEMMA QueuesOk ==
  ASSUME NEW d, NEW r, NEW ts, NEW moment \in Nat, NEW before, NEW pending, d \in before,
         d \notin pending, CallOk(d, r, ts, before, moment), ~r.cancelled,
         NEW r2, r2 \in GuardedRec, r2.at = "queued", ~r2.woken, r2.cancelled = r.cancelled,
         r2.entered = r.entered, r2.limit = r.limit
  PROVE  CallOk(d, r2, ts, pending, moment)
<1>1. CallRuns(d, r, ts, before, moment) /\ \A t \in ts : t.when \in Nat /\ t.kind \in {"wake", "expire"}
  BY DEF CallOk, CallOver
<1>2. \A t \in ts : t.kind # "wake"
  BY <1>1 DEF CallRuns, Asleep
<1>3. CallRuns(d, r2, ts, pending, moment)
  BY <1>1, <1>2 DEF CallRuns, Asleep
<1>. QED  BY <1>1, <1>3 DEF CallOk, Ends

\* A call that runs and goes to sleep is woken by one timer.
LEMMA SleepsOk ==
  ASSUME NEW d, NEW r, NEW ts, NEW moment \in Nat, NEW before, NEW pending, d \in before,
         d \notin pending, CallOk(d, r, ts, before, moment), ~r.cancelled,
         NEW r2, r2 \in GuardedRec, r2.at \in Asleep, ~r2.woken, r2.cancelled = r.cancelled,
         r2.entered = r.entered, r2.limit = r.limit,
         NEW w, w.kind = "wake", w.when \in Nat
  PROVE  CallOk(d, r2, ts \cup {w}, pending, moment)
<1>1. CallRuns(d, r, ts, before, moment) /\ \A t \in ts : t.when \in Nat /\ t.kind \in {"wake", "expire"}
  BY DEF CallOk, CallOver
<1>2. \A t \in ts : t.kind # "wake"
  BY <1>1 DEF CallRuns, Asleep
<1>3. \A t \in ts \cup {w} : t.when \in Nat /\ t.kind \in {"wake", "expire"}
  BY <1>1
<1>4. CallRuns(d, r2, ts \cup {w}, pending, moment)
  BY <1>1, <1>2 DEF CallRuns, Asleep
<1>. QED  BY <1>3, <1>4 DEF CallOk, Ends, Asleep

-----------------------------------------------------------------------------
(* Guarded calls: all of them *)

NoneTwice(q) == \A i, j \in DOMAIN q : q[i] = q[j] => i = j
ElementsOf(q) == {q[i] : i \in DOMAIN q}
TimersOf(d) == {t \in timers : t.who = d}

GuardsInv ==
  /\ instant \in Nat /\ call \in [Guarded -> GuardedRec]
  /\ ready \in Seq(Guarded) /\ NoneTwice(ready)
  /\ \A t \in timers : t.who \in Guarded
  /\ \A d \in Guarded : CallOk(d, call[d], TimersOf(d), ElementsOf(ready), instant)

\* Of the others, one may be woken that waited in the queue.
OtherCallsStand(c) ==
  \A d \in Guarded \ {c} :
    \/ call'[d] = call[d] /\ (d \in ElementsOf(ready') <=> d \in ElementsOf(ready))
    \/ /\ call[d].at = "queued" /\ ~call[d].woken /\ d \in ElementsOf(ready')
       /\ call'[d] = [call[d] EXCEPT !.woken = TRUE]

\* A step of one call leaves the others as they are.
LEMMA CallSteps ==
  ASSUME GuardsInv, NEW c \in Guarded, OtherCallsStand(c), instant' = instant,
         DOMAIN call' = Guarded, call' = [d \in Guarded |-> call'[d]],
         ready' \in Seq(Guarded), NoneTwice(ready'),
         NEW ts, timers' = TimersBut(c) \cup ts, \A t \in ts : t.who = c,
         CallOk(c, call'[c], ts, ElementsOf(ready'), instant)
  PROVE  GuardsInv'
<1>1. \A t \in timers' : t.who \in Guarded
  BY DEF GuardsInv, TimersBut
<1>2. ASSUME NEW d \in Guarded PROVE CallOk(d, call'[d], {t \in timers' : t.who = d}, ElementsOf(ready'), instant)
  <2>1. CASE d = c
    <3>1. {t \in timers' : t.who = d} = ts
      BY <2>1 DEF TimersBut
    <3>. QED  BY <2>1, <3>1
  <2>2. CASE d # c
    <3>0. {t \in timers' : t.who = d} = TimersOf(d)
      BY <2>2 DEF TimersBut, TimersOf
    <3>1. CallOk(d, call[d], TimersOf(d), ElementsOf(ready), instant) /\ instant \in Nat
      BY DEF GuardsInv
    <3>2. CASE call'[d] = call[d] /\ (d \in ElementsOf(ready') <=> d \in ElementsOf(ready))
      BY <3>0, <3>1, <3>2 DEF CallOk, CallRuns, CallOver
    <3>3. CASE /\ call[d].at = "queued" /\ ~call[d].woken /\ d \in ElementsOf(ready')
               /\ call'[d] = [call[d] EXCEPT !.woken = TRUE]
      <4>1. CallOk(d, [call[d] EXCEPT !.woken = TRUE], TimersOf(d), ElementsOf(ready'), instant)
        BY <3>1, <3>3, WokenInTurn
      <4>. QED  BY <3>0, <3>3, <4>1
    <3>. QED  BY <2>2, <3>2, <3>3 DEF OtherCallsStand
  <2>. QED  BY <2>1, <2>2
<1>3. call' \in [Guarded -> GuardedRec]
  <2>1. \A d \in Guarded : call'[d] \in GuardedRec
    BY <1>2 DEF CallOk
  <2>. QED  BY <2>1
<1>4. TimersOf(c)' = {t \in timers' : t.who = c}
  BY DEF TimersOf
<1>5. \A d \in Guarded : CallOk(d, call[d], TimersOf(d), ElementsOf(ready), instant)'
  BY <1>2 DEF CallOk, CallRuns, CallOver, TimersOf, ElementsOf
<1>6. NoneTwice(ready)' /\ instant' \in Nat
  BY DEF NoneTwice, GuardsInv
<1>. QED  BY <1>1, <1>3, <1>5, <1>6 DEF GuardsInv

\* The first of a queue without repetitions, and what is left.
LEMMA FirstLeaves ==
  ASSUME NEW q \in Seq(Guarded), NoneTwice(q), q # <<>>
  PROVE  /\ Head(q) \in Guarded /\ Head(q) = q[1] /\ Head(q) \in ElementsOf(q)
         /\ Tail(q) \in Seq(Guarded) /\ NoneTwice(Tail(q))
         /\ ElementsOf(Tail(q)) = ElementsOf(q) \ {Head(q)}
<1>0. PICK n : n = Len(q)
  OBVIOUS
<1>1. n \in Nat \ {0} /\ DOMAIN q = 1 .. n /\ Head(q) = q[1] /\ Head(q) \in Guarded
  BY <1>0
<1>2. PICK r : r = Tail(q)
  OBVIOUS
<1>3. r \in Seq(Guarded) /\ DOMAIN r = 1 .. n - 1 /\ \A i \in 1 .. n - 1 : r[i] = q[i + 1]
  BY <1>0, <1>1, <1>2
<1>4. NoneTwice(r)
  <2>. SUFFICES ASSUME NEW i \in 1 .. n - 1, NEW j \in 1 .. n - 1, r[i] = r[j] PROVE i = j
    BY <1>3 DEF NoneTwice
  <2>1. i + 1 \in DOMAIN q /\ j + 1 \in DOMAIN q /\ q[i + 1] = q[j + 1]
    BY <1>1, <1>3
  <2>. QED  BY <2>1 DEF NoneTwice
<1>5. 1 \in DOMAIN q
  BY <1>1
<1>6. ElementsOf(r) = ElementsOf(q) \ {q[1]}
  <2>1. ASSUME NEW i \in 1 .. n - 1 PROVE r[i] \in ElementsOf(q) \ {q[1]}
    <3>1. i + 1 \in DOMAIN q /\ r[i] = q[i + 1] /\ i + 1 # 1
      BY <1>1, <1>3
    <3>. QED  BY <1>5, <3>1 DEF NoneTwice, ElementsOf
  <2>2. ASSUME NEW i \in 1 .. n, q[i] # q[1] PROVE q[i] \in ElementsOf(r)
    <3>1. i - 1 \in 1 .. n - 1 /\ i = (i - 1) + 1
      BY <1>1, <2>2
    <3>. QED  BY <1>3, <3>1 DEF ElementsOf
  <2>3. ElementsOf(r) = {r[i] : i \in 1 .. n - 1} /\ ElementsOf(q) = {q[i] : i \in 1 .. n}
    BY <1>1, <1>3 DEF ElementsOf
  <2>4. ElementsOf(r) \subseteq ElementsOf(q) \ {q[1]}
    BY <2>1, <2>3
  <2>5. ElementsOf(q) \ {q[1]} \subseteq ElementsOf(r)
    BY <2>2, <2>3
  <2>. QED  BY <2>4, <2>5
<1>7. q[1] \in ElementsOf(q)
  BY <1>1, <1>5 DEF ElementsOf
<1>. QED  BY <1>1, <1>2, <1>3, <1>4, <1>6, <1>7

\* A call not queued yet joins at the end.
LEMMA LastJoins ==
  ASSUME NEW q \in Seq(Guarded), NoneTwice(q), NEW c \in Guarded, c \notin ElementsOf(q)
  PROVE  /\ Append(q, c) \in Seq(Guarded) /\ NoneTwice(Append(q, c))
         /\ ElementsOf(Append(q, c)) = ElementsOf(q) \cup {c}
         /\ q # <<>> => Append(q, c)[1] = q[1]
<1>0. PICK n, r : n = Len(q) /\ r = Append(q, c)
  OBVIOUS
<1>1. /\ n \in Nat /\ DOMAIN q = 1 .. n /\ r \in Seq(Guarded) /\ DOMAIN r = 1 .. n + 1
      /\ r[n + 1] = c /\ \A i \in 1 .. n : r[i] = q[i]
  BY <1>0
<1>2. \A i \in 1 .. n + 1 : i = n + 1 \/ i \in 1 .. n
  BY <1>1
<1>3. \A i \in 1 .. n : q[i] # c
  BY <1>1 DEF ElementsOf
<1>4. NoneTwice(r)
  BY <1>1, <1>2, <1>3 DEF NoneTwice
<1>5. ElementsOf(r) = ElementsOf(q) \cup {c}
  <2>1. n + 1 \in 1 .. n + 1 /\ 1 .. n \subseteq 1 .. n + 1
    BY <1>1
  <2>. QED  BY <1>1, <1>2, <2>1 DEF ElementsOf
<1>6. q # <<>> => 1 \in 1 .. n
  BY <1>0, <1>1
<1>. QED  BY <1>0, <1>1, <1>4, <1>5, <1>6

\* One that gives up its place leaves the others in theirs.
LEMMA OneLeaves ==
  ASSUME NEW q \in Seq(Guarded), NoneTwice(q), NEW c \in Guarded
  PROVE  LET left == RemoveFirst(q, c) IN
         /\ left \in Seq(Guarded) /\ NoneTwice(left) /\ ElementsOf(left) = ElementsOf(q) \ {c}
         /\ q # <<>> /\ q[1] # c => left # <<>> /\ left[1] = q[1]
<1>0. PICK n, left : n = Len(q) /\ left = RemoveFirst(q, c)
  OBVIOUS
<1>1. n \in Nat /\ DOMAIN q = 1 .. n
  BY <1>0
<1>2. CASE c \notin ElementsOf(q)
  <2>1. left = q
    BY <1>0, <1>1, <1>2 DEF RemoveFirst, ElementsOf
  <2>. QED  BY <1>0, <1>2, <2>1
<1>3. CASE c \in ElementsOf(q)
  <2>0. PICK k \in 1 .. n : q[k] = c
    BY <1>1, <1>3 DEF ElementsOf
  <2>1. {i \in 1 .. n : q[i] = c} = {k}
    BY <1>1, <2>0 DEF NoneTwice
  <2>2. SelectInSeq(q, LAMBDA v : v = c) = k
    <3>1. Min({k}) = k
      BY <1>1 DEF Min
    <3>. QED  BY <1>0, <2>1, <3>1 DEF SelectInSeq
  <2>3. left = SubSeq(q, 1, k - 1) \o SubSeq(q, k + 1, n)
    BY <1>0, <1>1, <2>0, <2>2 DEF RemoveFirst, RemoveAt
  <2>4. PICK a, b : a = SubSeq(q, 1, k - 1) /\ b = SubSeq(q, k + 1, n)
    OBVIOUS
  <2>5. /\ a \in Seq(Guarded) /\ Len(a) = k - 1 /\ \A i \in 1 .. k - 1 : a[i] = q[i]
    <3>1. k - 1 \in Int /\ 1 \in Int /\ \A i \in 1 .. k - 1 : q[i] \in Guarded
      BY <1>1
    <3>2. /\ SubSeq(q, 1, k - 1) \in Seq(Guarded)
          /\ Len(SubSeq(q, 1, k - 1)) = IF 1 <= k - 1 THEN k - 1 - 1 + 1 ELSE 0
          /\ \A i \in 1 .. k - 1 - 1 + 1 : SubSeq(q, 1, k - 1)[i] = q[1 + i - 1]
      BY <3>1, SubSeqProperties
    <3>. QED  BY <1>1, <2>4, <3>2
  <2>6. /\ b \in Seq(Guarded) /\ Len(b) = n - k /\ \A i \in 1 .. n - k : b[i] = q[k + i]
    <3>1. k + 1 \in Int /\ n \in Int /\ \A i \in k + 1 .. n : q[i] \in Guarded
      BY <1>1
    <3>2. /\ SubSeq(q, k + 1, n) \in Seq(Guarded)
          /\ Len(SubSeq(q, k + 1, n)) = IF k + 1 <= n THEN n - (k + 1) + 1 ELSE 0
          /\ \A i \in 1 .. n - (k + 1) + 1 : SubSeq(q, k + 1, n)[i] = q[(k + 1) + i - 1]
      BY <3>1, SubSeqProperties
    <3>. QED  BY <1>1, <2>4, <3>2
  <2>7. /\ left \in Seq(Guarded) /\ DOMAIN left = 1 .. n - 1
        /\ \A i \in 1 .. n - 1 : left[i] = IF i < k THEN q[i] ELSE q[i + 1]
    <3>0. k \in Int /\ n \in Int /\ 1 <= k /\ k <= n
      BY <1>1
    <3>1. /\ left = a \o b /\ Len(a) = k - 1 /\ Len(b) = n - k
          /\ a \in Seq(Guarded) /\ b \in Seq(Guarded)
      BY <2>3, <2>4, <2>5, <2>6
    <3>2. left \in Seq(Guarded) /\ Len(left) = n - 1
      <4>1. left \in Seq(Guarded) /\ Len(left) = Len(a) + Len(b)
        BY <3>1, ConcatProperties
      <4>. QED  BY <3>0, <3>1, <4>1
    <3>3. DOMAIN left = 1 .. n - 1
      BY <3>2
    <3>4. \A i \in 1 .. n - 1 : left[i] = IF i <= k - 1 THEN a[i] ELSE b[i - (k - 1)]
      BY <3>0, <3>1
    <3>5. ASSUME NEW i \in 1 .. n - 1 PROVE left[i] = IF i < k THEN q[i] ELSE q[i + 1]
      <4>0. i \in Int /\ 1 <= i /\ i <= n - 1
        BY <3>0
      <4>1. CASE i < k
        <5>1. i <= k - 1 /\ i \in 1 .. k - 1
          BY <3>0, <4>0, <4>1
        <5>. QED  BY <2>5, <3>4, <4>1, <5>1
      <4>2. CASE ~(i < k)
        <5>1. PICK j : j = i - (k - 1)
          OBVIOUS
        <5>2. j \in 1 .. n - k /\ k + j = i + 1 /\ ~(i <= k - 1)
          BY <3>0, <4>0, <4>2, <5>1
        <5>. QED  BY <2>6, <3>4, <4>2, <5>1, <5>2
      <4>. QED  BY <4>1, <4>2
    <3>. QED  BY <3>2, <3>3, <3>5
  <2>8. NoneTwice(left)
    <3>. SUFFICES ASSUME NEW i \in 1 .. n - 1, NEW j \in 1 .. n - 1, left[i] = left[j] PROVE i = j
      BY <2>7 DEF NoneTwice
    <3>1. PICK x, y : x = (IF i < k THEN i ELSE i + 1) /\ y = (IF j < k THEN j ELSE j + 1)
      OBVIOUS
    <3>2. x \in 1 .. n /\ y \in 1 .. n /\ q[x] = q[y]
      BY <1>1, <2>7, <3>1
    <3>3. x = y
      BY <1>1, <3>2 DEF NoneTwice
    <3>. QED  BY <3>1, <3>3
  <2>9. ElementsOf(left) = ElementsOf(q) \ {c}
    <3>1. ASSUME NEW i \in 1 .. n - 1 PROVE left[i] \in ElementsOf(q) \ {c}
      <4>1. PICK x : x = IF i < k THEN i ELSE i + 1
        OBVIOUS
      <4>2. x \in 1 .. n /\ x # k /\ left[i] = q[x]
        BY <1>1, <2>7, <4>1
      <4>. QED  BY <1>1, <2>0, <4>2 DEF NoneTwice, ElementsOf
    <3>2. ASSUME NEW i \in 1 .. n, q[i] # c PROVE q[i] \in ElementsOf(left)
      <4>1. PICK x : x = IF i < k THEN i ELSE i - 1
        OBVIOUS
      <4>2. i # k
        BY <2>0, <3>2
      <4>3. x \in 1 .. n - 1 /\ left[x] = q[i]
        BY <1>1, <2>7, <4>1, <4>2
      <4>. QED  BY <2>7, <4>3 DEF ElementsOf
    <3>. QED  BY <1>1, <2>7, <3>1, <3>2 DEF ElementsOf
  <2>10. q[1] # c => left # <<>> /\ left[1] = q[1]
    <3>. SUFFICES ASSUME q[1] # c PROVE left # <<>> /\ left[1] = q[1]
      OBVIOUS
    <3>1. 1 < k /\ 1 \in 1 .. n - 1
      BY <1>1, <2>0
    <3>2. left[1] = q[1] /\ 1 \in DOMAIN left
      BY <2>7, <3>1
    <3>. QED  BY <3>2
  <2>. QED  BY <1>0, <2>7, <2>8, <2>9, <2>10
<1>. QED  BY <1>2, <1>3

-----------------------------------------------------------------------------
(* Guarded calls: the limiter's lock *)

\* Who has the lock sleeps with it; who waits is queued; a lock free to take is
\* the first waiter's, who has been woken.
LockInv ==
  /\ holder \in Guarded \cup {NoHolder}
  /\ waiters \in Seq(Guarded) /\ NoneTwice(waiters)
  /\ \A d \in Guarded : holder = d <=> call[d].at = "pacing"
  /\ \A d \in Guarded : d \in ElementsOf(waiters) <=> call[d].at = "queued"
  /\ holder = NoHolder /\ waiters # <<>> => call[waiters[1]].woken
  /\ \A d \in Guarded : call[d].at = "queued" /\ call[d].woken /\ ~call[d].cancelled
       => holder = NoHolder /\ waiters[1] = d

\* Call c goes on with record r2 and gives up the lock or its place in the queue.
LEMMA LockReleased ==
  ASSUME GuardsInv, LockInv, NEW c \in Guarded, NEW r2 \in GuardedRec, r2.at \notin {"pacing", "queued"},
         NEW ws \in Seq(Guarded), NoneTwice(ws),
         \A d \in Guarded : d \in ElementsOf(ws) <=> call[d].at = "queued" /\ d # c,
         holder \in {c, NoHolder},
         \A d \in Guarded \ {c} : call[d].at = "queued" /\ call[d].woken /\ ~call[d].cancelled
           => ws[1] = d,
         ready # <<>>, Head(ready) = c,
         Released(ws, [call EXCEPT ![c] = r2], Tail(ready)),
         instant' = instant,
         NEW ts, timers' = TimersBut(c) \cup ts, \A t \in ts : t.who = c,
         \A P : c \notin P => CallOk(c, r2, ts, P, instant)
  PROVE  GuardsInv' /\ LockInv'
<1>0. PICK cs, rs : cs = [call EXCEPT ![c] = r2] /\ rs = Tail(ready)
  OBVIOUS
<1>1. /\ call \in [Guarded -> GuardedRec] /\ ready \in Seq(Guarded) /\ NoneTwice(ready)
  BY DEF GuardsInv
<1>2. /\ rs \in Seq(Guarded) /\ NoneTwice(rs) /\ ElementsOf(rs) = ElementsOf(ready) \ {c}
  BY <1>0, <1>1, FirstLeaves
<1>3. /\ cs \in [Guarded -> GuardedRec] /\ cs[c] = r2 /\ \A d \in Guarded \ {c} : cs[d] = call[d]
  BY <1>0, <1>1
<1>4. Released(ws, cs, rs)
  BY <1>0
<1>5. holder' = NoHolder /\ waiters' = ws /\ NoHolder \notin Guarded
  <2>1. NoHolder \notin Guarded
    BY GuardAssumption DEF GuardAssumption
  <2>. QED  BY <1>4, <2>1 DEF Released
<1>6. ws # <<>> => ws[1] \in Guarded \ {c} /\ cs[ws[1]].at = "queued" /\ Head(ws) = ws[1]
  <2>. SUFFICES ASSUME ws # <<>> PROVE ws[1] \in Guarded \ {c} /\ cs[ws[1]].at = "queued" /\ Head(ws) = ws[1]
    OBVIOUS
  <2>1. Head(ws) = ws[1] /\ ws[1] \in ElementsOf(ws) /\ ws[1] \in Guarded
    BY FirstLeaves
  <2>. QED  BY <1>3, <2>1
<1>7. CASE ws # <<>> /\ ~cs[ws[1]].woken
  <2>0. PICK h : h = ws[1]
    OBVIOUS
  <2>1. /\ h \in Guarded \ {c} /\ call[h].at = "queued" /\ ~call[h].woken
        /\ call' = [cs EXCEPT ![h].woken = TRUE] /\ ready' = Append(rs, h)
    BY <1>3, <1>4, <1>6, <1>7, <2>0 DEF Released
  <2>2. h \notin ElementsOf(ready)
    <3>1. CallOk(h, call[h], TimersOf(h), ElementsOf(ready), instant)
      BY <2>1 DEF GuardsInv
    <3>. QED  BY <2>1, <3>1 DEF CallOk, CallRuns, Ends
  <2>3. /\ ready' \in Seq(Guarded) /\ NoneTwice(ready') /\ ElementsOf(ready') = ElementsOf(rs) \cup {h}
    BY <1>2, <2>1, <2>2, LastJoins
  <2>4. /\ DOMAIN call' = Guarded /\ call' = [d \in Guarded |-> call'[d]] /\ call'[c] = r2
        /\ call'[h] = [call[h] EXCEPT !.woken = TRUE]
        /\ \A d \in Guarded \ {c, h} : call'[d] = call[d]
    BY <1>3, <2>1
  <2>5. OtherCallsStand(c)
    BY <1>2, <2>1, <2>3, <2>4 DEF OtherCallsStand
  <2>6. c \notin ElementsOf(ready')
    BY <1>2, <2>1, <2>3
  <2>7. GuardsInv'
    BY <2>3, <2>4, <2>5, <2>6, CallSteps
  <2>8. /\ call'[h].at = "queued" /\ call'[h].woken
    <3>1. call[h] \in GuardedRec
      BY <1>1, <2>1
    <3>. QED  BY <2>1, <2>4, <3>1 DEF GuardedRec
  <2>9. \A d \in Guarded : call'[d].at = "queued" <=> call[d].at = "queued" /\ d # c
    BY <2>1, <2>4, <2>8
  <2>10. \A d \in Guarded : call'[d].at # "pacing"
    <3>1. \A d \in Guarded \ {c} : call[d].at # "pacing"
      BY <1>5 DEF LockInv
    <3>. QED  BY <2>1, <2>4, <2>8, <3>1
  <2>11. \A d \in Guarded : call'[d].at = "queued" /\ call'[d].woken /\ ~call'[d].cancelled
           => ws[1] = d
    BY <2>0, <2>4
  <2>. QED  BY <1>5, <2>0, <2>7, <2>8, <2>9, <2>10, <2>11 DEF LockInv, NoneTwice, ElementsOf
<1>8. CASE ~(ws # <<>> /\ ~cs[ws[1]].woken)
  <2>1. call' = cs /\ ready' = rs
    BY <1>4, <1>6, <1>8 DEF Released
  <2>2. OtherCallsStand(c)
    BY <1>2, <1>3, <2>1 DEF OtherCallsStand
  <2>3. c \notin ElementsOf(ready') /\ call'[c] = r2 /\ DOMAIN call' = Guarded
        /\ call' = [d \in Guarded |-> call'[d]] /\ ready' \in Seq(Guarded) /\ NoneTwice(ready')
    BY <1>2, <1>3, <2>1
  <2>4. GuardsInv'
    BY <2>2, <2>3, CallSteps
  <2>5. \A d \in Guarded : call'[d].at = "queued" <=> call[d].at = "queued" /\ d # c
    BY <1>3, <2>1
  <2>6. \A d \in Guarded : call'[d].at # "pacing"
    <3>1. \A d \in Guarded \ {c} : call[d].at # "pacing"
      BY <1>5 DEF LockInv
    <3>. QED  BY <1>3, <2>1, <3>1
  <2>7. \A d \in Guarded : call'[d].at = "queued" /\ call'[d].woken /\ ~call'[d].cancelled
           => ws[1] = d
    BY <1>3, <2>1, <2>5
  <2>8. ws # <<>> => call'[ws[1]].woken
    BY <1>8, <2>1
  <2>. QED  BY <1>5, <2>4, <2>5, <2>6, <2>7, <2>8 DEF LockInv, NoneTwice, ElementsOf
<1>. QED  BY <1>7, <1>8

\* A call alone goes on; whether it had the lock or waited for it does not change.
LEMMA LockUntouched ==
  ASSUME LockInv, NEW c \in Guarded, holder' = holder, waiters' = waiters,
         call \in [Guarded -> GuardedRec], call'[c].at \notin {"pacing", "queued"},
         call[c].at \notin {"pacing", "queued"},
         \A d \in Guarded \ {c} : call'[d] = call[d]
  PROVE  LockInv'
<1>1. \A d \in Guarded : /\ call'[d].at = "pacing" <=> call[d].at = "pacing"
                         /\ call'[d].at = "queued" <=> call[d].at = "queued"
  OBVIOUS
<1>2. waiters # <<>> => waiters[1] \in Guarded /\ call[waiters[1]].at = "queued"
  <2>. SUFFICES ASSUME waiters # <<>> PROVE waiters[1] \in Guarded /\ call[waiters[1]].at = "queued"
    OBVIOUS
  <2>1. waiters \in Seq(Guarded) /\ NoneTwice(waiters)
    BY DEF LockInv
  <2>2. waiters[1] \in ElementsOf(waiters) /\ waiters[1] \in Guarded
    BY <2>1, FirstLeaves
  <2>. QED  BY <2>2 DEF LockInv
<1>3. holder = NoHolder /\ waiters # <<>> => call'[waiters[1]].woken
  BY <1>2 DEF LockInv
<1>4. \A d \in Guarded : call'[d].at = "queued" /\ call'[d].woken /\ ~call'[d].cancelled
        => holder = NoHolder /\ waiters[1] = d
  BY DEF LockInv
<1>. QED  BY <1>1, <1>3, <1>4 DEF LockInv, NoneTwice, ElementsOf

\* What the steps of a resumed call have in common.
LEMMA ResumedIs ==
  ASSUME GuardsInv, NEW c \in Guarded, Resumes(c)
  PROVE  /\ call[c] \in GuardedRec /\ call[c].at \notin Ends \cup {"new"}
         /\ c \in ElementsOf(ready) /\ ready # <<>> /\ Head(ready) = c /\ ready \in Seq(Guarded)
         /\ Tail(ready) \in Seq(Guarded) /\ NoneTwice(Tail(ready))
         /\ ElementsOf(Tail(ready)) = ElementsOf(ready) \ {c}
         /\ CallOk(c, call[c], TimersOf(c), ElementsOf(ready), instant) /\ instant \in Nat
         /\ timers = TimersBut(c) \cup TimersOf(c)
<1>1. /\ ready \in Seq(Guarded) /\ NoneTwice(ready) /\ ready # <<>> /\ Head(ready) = c
      /\ CallOk(c, call[c], TimersOf(c), ElementsOf(ready), instant) /\ instant \in Nat
  BY DEF Resumes, GuardsInv
<1>2. /\ Tail(ready) \in Seq(Guarded) /\ NoneTwice(Tail(ready)) /\ c \in ElementsOf(ready)
      /\ ElementsOf(Tail(ready)) = ElementsOf(ready) \ {c}
  BY <1>1, FirstLeaves
<1>3. call[c].at \notin Ends \cup {"new"} /\ call[c] \in GuardedRec
  BY <1>1, <1>2 DEF CallOk, CallOver
<1>4. timers = TimersBut(c) \cup TimersOf(c)
  BY DEF TimersBut, TimersOf
<1>. QED  BY <1>1, <1>2, <1>3, <1>4

BucketTypes ==
  bucket \in [tokens : Nat, updated : Nat] /\ bucket.tokens <= Burst * Refill /\ bucket.updated <= instant

\* The tokens now are no more than had been left and have grown.
LEMMA TokensAre ==
  ASSUME GuardsInv, BucketTypes
  PROVE  /\ Tokens \in Nat /\ Tokens <= Burst * Refill
         /\ Tokens <= bucket.tokens + (instant - bucket.updated)
<1>1. Burst \in Nat /\ Refill \in Nat
  BY GuardAssumption DEF GuardAssumption
<1>2. PICK m : m = Burst * Refill
  OBVIOUS
<1>3. m \in Nat
  BY <1>1, <1>2
<1>4. bucket.tokens \in Nat /\ bucket.updated \in Nat /\ instant \in Nat /\ bucket.tokens <= m
      /\ bucket.updated <= instant
  BY <1>2 DEF GuardsInv, BucketTypes
<1>5. Tokens = IF bucket.tokens + (instant - bucket.updated) > m THEN m
               ELSE bucket.tokens + (instant - bucket.updated)
  BY <1>2 DEF Tokens
<1>. QED  BY <1>2, <1>3, <1>4, <1>5

\* What a call is once it has moved on.
LEMMA MovedIs ==
  ASSUME NEW c, call[c] \in GuardedRec, NEW place, place \in {"queued"} \cup Asleep \cup Ends
  PROVE  LET q == MovedTo(c, place) IN
         /\ q \in GuardedRec /\ q.at = place /\ ~q.woken /\ q.cancelled = call[c].cancelled
         /\ q.entered = call[c].entered /\ q.limit = call[c].limit
BY DEF MovedTo, GuardedRec

\* A draw takes a token and frees the lock, or keeps the lock and sleeps.
LEMMA DrawKeeps ==
  ASSUME GuardsInv, LockInv, BucketTypes, NEW c \in Guarded, GoesOn(c), NEW ws \in Seq(Guarded), NoneTwice(ws),
         \A d \in Guarded : d \in ElementsOf(ws) <=> call[d].at = "queued" /\ d # c,
         holder \in {c, NoHolder},
         \A d \in Guarded \ {c} : call[d].at = "queued" /\ call[d].woken => call[d].cancelled,
         Draw(c, ws, Tail(ready))
  PROVE  GuardsInv' /\ LockInv'
<1>0. /\ Resumes(c) /\ ~call[c].cancelled /\ instant' = instant
  BY DEF GoesOn, Draw
<1>1. PICK r : r = call[c]
  OBVIOUS
<1>2. /\ r \in GuardedRec /\ r.at \notin Ends \cup {"new"} /\ call \in [Guarded -> GuardedRec]
      /\ CallOk(c, r, TimersOf(c), ElementsOf(ready), instant) /\ ~r.cancelled
      /\ c \in ElementsOf(ready) /\ ready # <<>> /\ Head(ready) = c /\ instant \in Nat
  BY <1>0, <1>1, ResumedIs DEF GuardsInv
<1>3. Refill \in Nat \ {0} /\ WorkTimes \subseteq Nat
  BY GuardAssumption DEF GuardAssumption
<1>4. ASSUME NEW place, NEW when, Schedules(c, "wake", when)
      PROVE  \E w : /\ w.who = c /\ w.kind = "wake" /\ w.when = when
                    /\ timers' = TimersBut(c) \cup (TimersOf(c) \cup {w})
  <2>1. PICK w : w = Timer(c, "wake", when)
    OBVIOUS
  <2>2. w.who = c /\ w.kind = "wake" /\ w.when = when
    BY <2>1 DEF Timer
  <2>3. timers' = timers \cup {w}
    BY <1>4, <2>1 DEF Schedules
  <2>. QED  BY <2>2, <2>3 DEF TimersBut, TimersOf
<1>5. CASE Tokens >= Refill
  <2>0. PICK t \in WorkTimes :
          /\ Schedules(c, "wake", instant + t)
          /\ Released(ws, [call EXCEPT ![c] = [MovedTo(c, "working") EXCEPT !.tries = @ + 1]], Tail(ready))
    BY <1>5 DEF Draw
  <2>1. PICK w : /\ w.who = c /\ w.kind = "wake" /\ w.when = instant + t
                 /\ timers' = TimersBut(c) \cup (TimersOf(c) \cup {w})
    BY <1>4, <2>0
  <2>2. PICK r2 : r2 = [MovedTo(c, "working") EXCEPT !.tries = @ + 1]
    OBVIOUS
  <2>3. /\ r2 \in GuardedRec /\ r2.at = "working" /\ ~r2.woken /\ r2.cancelled = r.cancelled
        /\ r2.entered = r.entered /\ r2.limit = r.limit
    <3>1. PICK q : q = MovedTo(c, "working")
      OBVIOUS
    <3>2. /\ q \in GuardedRec /\ q.at = "working" /\ ~q.woken /\ q.cancelled = r.cancelled
          /\ q.entered = r.entered /\ q.limit = r.limit
      BY <1>1, <1>2, <3>1, MovedIs DEF Asleep
    <3>3. r2 = [q EXCEPT !.tries = @ + 1]
      BY <2>2, <3>1
    <3>. QED  BY <3>2, <3>3 DEF GuardedRec
  <2>4. \A P : c \notin P => CallOk(c, r2, TimersOf(c) \cup {w}, P, instant)
    <3>1. w.when \in Nat /\ r2.at \in Asleep
      BY <1>2, <1>3, <2>0, <2>1, <2>3 DEF Asleep
    <3>. QED  BY <1>2, <2>1, <2>3, <3>1, SleepsOk
  <2>5. \A t1 \in TimersOf(c) \cup {w} : t1.who = c
    BY <2>1 DEF TimersOf
  <2>6. \A d \in Guarded \ {c} : call[d].at = "queued" /\ call[d].woken /\ ~call[d].cancelled => ws[1] = d
    OBVIOUS
  <2>7. r2.at \notin {"pacing", "queued"} /\ Released(ws, [call EXCEPT ![c] = r2], Tail(ready))
    BY <2>0, <2>2, <2>3
  <2>. QED  BY <1>0, <1>2, <2>1, <2>3, <2>4, <2>5, <2>6, <2>7, LockReleased
<1>6. CASE ~(Tokens >= Refill)
  <2>0. /\ Schedules(c, "wake", instant + Refill - Tokens)
        /\ call' = [call EXCEPT ![c] = MovedTo(c, "pacing")]
        /\ holder' = c /\ waiters' = ws /\ ready' = Tail(ready)
    BY <1>6 DEF Draw
  <2>1. PICK w : /\ w.who = c /\ w.kind = "wake" /\ w.when = instant + Refill - Tokens
                 /\ timers' = TimersBut(c) \cup (TimersOf(c) \cup {w})
    BY <1>4, <2>0
  <2>2. PICK r2 : r2 = MovedTo(c, "pacing")
    OBVIOUS
  <2>3. /\ r2 \in GuardedRec /\ r2.at = "pacing" /\ ~r2.woken /\ r2.cancelled = r.cancelled
        /\ r2.entered = r.entered /\ r2.limit = r.limit
    BY <1>1, <1>2, <2>2 DEF MovedTo, GuardedRec, Asleep
  <2>4. \A P : c \notin P => CallOk(c, r2, TimersOf(c) \cup {w}, P, instant)
    <3>1. w.when \in Nat /\ r2.at \in Asleep
      BY <1>2, <1>3, <1>6, <2>1, <2>3, TokensAre DEF Asleep
    <3>. QED  BY <1>2, <2>1, <2>3, <3>1, SleepsOk
  <2>5. \A t1 \in TimersOf(c) \cup {w} : t1.who = c
    BY <2>1 DEF TimersOf
  <2>6. /\ call'[c] = r2 /\ \A d \in Guarded \ {c} : call'[d] = call[d]
        /\ DOMAIN call' = Guarded /\ call' = [d \in Guarded |-> call'[d]]
    BY <1>2, <2>0, <2>2
  <2>7. /\ ready' \in Seq(Guarded) /\ NoneTwice(ready') /\ ElementsOf(ready') = ElementsOf(ready) \ {c}
    BY <1>0, <2>0, ResumedIs
  <2>8. OtherCallsStand(c)
    BY <2>6, <2>7 DEF OtherCallsStand
  <2>9. GuardsInv'
    <3>1. CallOk(c, call'[c], TimersOf(c) \cup {w}, ElementsOf(ready'), instant)
      BY <2>4, <2>6, <2>7
    <3>. QED  BY <1>0, <2>1, <2>5, <2>6, <2>7, <2>8, <3>1, CallSteps
  <2>10. \A d \in Guarded : call'[d].at = "queued" <=> call[d].at = "queued" /\ d # c
    BY <2>3, <2>6
  <2>11. \A d \in Guarded : call'[d].at = "pacing" <=> d = c
    <3>1. NoHolder \notin Guarded
      BY GuardAssumption DEF GuardAssumption
    <3>2. \A d \in Guarded \ {c} : call[d].at # "pacing"
      BY <3>1 DEF LockInv
    <3>. QED  BY <2>3, <2>6, <3>2
  <2>12. \A d \in Guarded : ~(call'[d].at = "queued" /\ call'[d].woken /\ ~call'[d].cancelled)
    BY <2>3, <2>6
  <2>13. c # NoHolder
    BY GuardAssumption DEF GuardAssumption
  <2>. QED  BY <2>0, <2>9, <2>10, <2>11, <2>12, <2>13 DEF LockInv, NoneTwice, ElementsOf
<1>. QED  BY <1>5, <1>6

\* A call that asks draws at once or queues behind the others.
LEMMA AskKeeps ==
  ASSUME GuardsInv, LockInv, BucketTypes, NEW c \in Guarded, GoesOn(c),
         call[c].at \notin {"pacing", "queued"}, AskLimiter(c, Tail(ready))
  PROVE  GuardsInv' /\ LockInv'
<1>0. Resumes(c) /\ ~call[c].cancelled
  BY DEF GoesOn
<1>1. CASE holder = NoHolder /\ waiters = <<>> /\ Draw(c, <<>>, Tail(ready))
  <2>1. PICK ws : ws = <<>>
    OBVIOUS
  <2>2. ws \in Seq(Guarded) /\ NoneTwice(ws) /\ ElementsOf(ws) = {} /\ ElementsOf(waiters) = {}
    BY <1>1, <2>1 DEF NoneTwice, ElementsOf
  <2>3. \A d \in Guarded : call[d].at # "queued"
    BY <2>2 DEF LockInv
  <2>. QED  BY <1>1, <2>1, <2>2, <2>3, DrawKeeps
<1>2. CASE /\ holder # NoHolder \/ waiters # <<>>
           /\ waiters' = Append(waiters, c)
           /\ call' = [call EXCEPT ![c] = MovedTo(c, "queued")]
           /\ ready' = Tail(ready)
           /\ UNCHANGED <<instant, strides, timers, bucket, holder, grants>>
  <2>1. PICK r2 : r2 = MovedTo(c, "queued")
    OBVIOUS
  <2>2. /\ call \in [Guarded -> GuardedRec] /\ c \in ElementsOf(ready) /\ instant \in Nat
        /\ CallOk(c, call[c], TimersOf(c), ElementsOf(ready), instant)
        /\ ready' \in Seq(Guarded) /\ NoneTwice(ready') /\ ElementsOf(ready') = ElementsOf(ready) \ {c}
        /\ timers = TimersBut(c) \cup TimersOf(c)
    BY <1>0, <1>2, ResumedIs DEF GuardsInv
  <2>3. /\ r2 \in GuardedRec /\ r2.at = "queued" /\ ~r2.woken /\ r2.cancelled = call[c].cancelled
        /\ r2.entered = call[c].entered /\ r2.limit = call[c].limit
    BY <2>1, <2>2, MovedIs
  <2>4. CallOk(c, r2, TimersOf(c), ElementsOf(ready'), instant)
    BY <1>0, <2>2, <2>3, QueuesOk
  <2>5. /\ call'[c] = r2 /\ \A d \in Guarded \ {c} : call'[d] = call[d]
        /\ DOMAIN call' = Guarded /\ call' = [d \in Guarded |-> call'[d]]
    BY <1>2, <2>1, <2>2
  <2>6. OtherCallsStand(c)
    BY <2>2, <2>5 DEF OtherCallsStand
  <2>7. timers' = TimersBut(c) \cup TimersOf(c) /\ (\A t \in TimersOf(c) : t.who = c) /\ instant' = instant
    BY <1>2, <2>2 DEF TimersOf
  <2>8. GuardsInv'
    <3>1. CallOk(c, call'[c], TimersOf(c), ElementsOf(ready'), instant)
      BY <2>4, <2>5
    <3>. QED  BY <2>2, <2>5, <2>6, <2>7, <3>1, CallSteps
  <2>9. /\ waiters' \in Seq(Guarded) /\ NoneTwice(waiters') /\ ElementsOf(waiters') = ElementsOf(waiters) \cup {c}
        /\ waiters # <<>> => waiters'[1] = waiters[1]
    <3>1. waiters \in Seq(Guarded) /\ NoneTwice(waiters) /\ c \notin ElementsOf(waiters)
      BY DEF LockInv
    <3>. QED  BY <1>2, <3>1, LastJoins
  <2>10. holder' = holder
    BY <1>2
  <2>11. \A d \in Guarded : /\ call'[d].at = "pacing" <=> call[d].at = "pacing"
                            /\ call'[d].at = "queued" <=> call[d].at = "queued" \/ d = c
    BY <2>3, <2>5
  <2>12. waiters # <<>> => waiters[1] \in Guarded \ {c}
    <3>. SUFFICES ASSUME waiters # <<>> PROVE waiters[1] \in Guarded \ {c}
      OBVIOUS
    <3>1. waiters \in Seq(Guarded) /\ NoneTwice(waiters) /\ c \notin ElementsOf(waiters)
      BY DEF LockInv
    <3>. QED  BY <3>1, FirstLeaves
  <2>13. holder = NoHolder /\ waiters' # <<>> => call'[waiters'[1]].woken
    BY <1>2, <2>5, <2>9, <2>12 DEF LockInv
  <2>14. ASSUME NEW d \in Guarded, call'[d].at = "queued", call'[d].woken, ~call'[d].cancelled
         PROVE  holder = NoHolder /\ waiters'[1] = d
    <3>1. d # c /\ call'[d] = call[d]
      BY <2>3, <2>5, <2>14
    <3>2. holder = NoHolder /\ waiters[1] = d
      BY <2>14, <3>1 DEF LockInv
    <3>. QED  BY <1>2, <2>9, <3>2
  <2>15. \A d \in Guarded : holder = d <=> call[d].at = "pacing"
    BY DEF LockInv
  <2>16. \A d \in Guarded : d \in ElementsOf(waiters) <=> call[d].at = "queued"
    BY DEF LockInv
  <2>17. ElementsOf(waiters)' = ElementsOf(waiters') /\ (NoneTwice(waiters)' <=> NoneTwice(waiters'))
         /\ holder' \in Guarded \cup {NoHolder}
    BY <2>10 DEF ElementsOf, NoneTwice, LockInv
  <2>18. /\ \A d \in Guarded : holder' = d <=> call'[d].at = "pacing"
         /\ \A d \in Guarded : d \in ElementsOf(waiters') <=> call'[d].at = "queued"
    BY <2>9, <2>10, <2>11, <2>15, <2>16
  <2>. QED  BY <2>8, <2>9, <2>10, <2>13, <2>14, <2>17, <2>18 DEF LockInv
<1>. QED  BY <1>1, <1>2 DEF AskLimiter

\* Whichever way a call gets to the limiter, calls and lock stay in order.
LEMMA GuardedResume ==
  ASSUME GuardsInv, LockInv, BucketTypes, NEW c \in Guarded,
         EnteredAsks(c) \/ TakesLock(c) \/ PacedDraws(c) \/ RetryAsks(c)
  PROVE  GuardsInv' /\ LockInv'
<1>1. CASE EnteredAsks(c) \/ RetryAsks(c)
  BY <1>1, AskKeeps DEF EnteredAsks, RetryAsks
<1>2. CASE TakesLock(c)
  <2>1. /\ GoesOn(c) /\ call[c].at = "queued" /\ Draw(c, Tail(waiters), Tail(ready))
    BY <1>2 DEF TakesLock
  <2>2. call[c].woken /\ ~call[c].cancelled
    BY <2>1, ResumedIs DEF GoesOn, CallOk, CallRuns
  <2>3. holder = NoHolder /\ waiters[1] = c /\ waiters \in Seq(Guarded) /\ NoneTwice(waiters)
        /\ c \in ElementsOf(waiters)
    BY <2>1, <2>2 DEF LockInv
  <2>4. waiters # <<>>
    BY <2>3 DEF ElementsOf
  <2>5. /\ Tail(waiters) \in Seq(Guarded) /\ NoneTwice(Tail(waiters))
        /\ ElementsOf(Tail(waiters)) = ElementsOf(waiters) \ {c}
    BY <2>3, <2>4, FirstLeaves
  <2>6. \A d \in Guarded : d \in ElementsOf(Tail(waiters)) <=> call[d].at = "queued" /\ d # c
    BY <2>5 DEF LockInv
  <2>7. \A d \in Guarded \ {c} : call[d].at = "queued" /\ call[d].woken => call[d].cancelled
    BY <2>3 DEF LockInv
  <2>. QED  BY <2>1, <2>3, <2>5, <2>6, <2>7, DrawKeeps
<1>3. CASE PacedDraws(c)
  <2>1. /\ GoesOn(c) /\ call[c].at = "pacing" /\ Draw(c, waiters, Tail(ready))
    BY <1>3 DEF PacedDraws
  <2>2. holder = c /\ c # NoHolder /\ waiters \in Seq(Guarded) /\ NoneTwice(waiters)
    BY <2>1, GuardAssumption DEF LockInv, GuardAssumption
  <2>3. \A d \in Guarded : d \in ElementsOf(waiters) <=> call[d].at = "queued" /\ d # c
    BY <2>1 DEF LockInv
  <2>4. \A d \in Guarded \ {c} : call[d].at = "queued" /\ call[d].woken => call[d].cancelled
    BY <2>2 DEF LockInv
  <2>. QED  BY <2>1, <2>2, <2>3, <2>4, DrawKeeps
<1>. QED  BY <1>1, <1>2, <1>3

\* A call that ends does so in time, or is cut off after its deadline.
LEMMA EndsOk ==
  ASSUME NEW d, NEW r, NEW ts, NEW moment \in Nat, NEW before, NEW pending, d \in before,
         d \notin pending, CallOk(d, r, ts, before, moment),
         NEW r2 \in GuardedRec, r2.ended = moment, r2.entered = r.entered, r2.limit = r.limit,
         \/ r2.at \in {"done", "failed"} /\ ~r.cancelled
         \/ r2.at = "timedout" /\ r.cancelled
  PROVE  CallOk(d, r2, {}, pending, moment)
<1>1. r \in GuardedRec /\ CallRuns(d, r, ts, before, moment)
  BY DEF CallOk, CallOver
<1>2. r.entered \in Nat /\ r.limit \in Nat
  BY <1>1 DEF GuardedRec
<1>3. /\ ~r.cancelled => moment < r.entered + r.limit
      /\ r.cancelled => r.entered + r.limit <= moment
  BY <1>1 DEF CallRuns
<1>4. CallOver(d, r2, {}, pending)
  BY <1>2, <1>3 DEF CallOver
<1>. QED  BY <1>4 DEF CallOk, Ends

\* What a call is once it has ended.
LEMMA FinishedIs ==
  ASSUME GuardsInv, NEW c \in Guarded, Resumes(c), NEW how \in Ends
  PROVE  LET r2 == [MovedTo(c, how) EXCEPT !.ended = instant] IN
         /\ r2 \in GuardedRec /\ r2.at = how /\ r2.ended = instant
         /\ r2.entered = call[c].entered /\ r2.limit = call[c].limit
<1>1. PICK q : q = MovedTo(c, how)
  OBVIOUS
<1>2. call[c] \in GuardedRec /\ instant \in Nat
  BY ResumedIs
<1>3. q \in GuardedRec /\ q.at = how /\ q.entered = call[c].entered /\ q.limit = call[c].limit
  BY <1>1, <1>2, MovedIs
<1>. QED  BY <1>1, <1>2, <1>3 DEF GuardedRec

\* The tool returns, fails for good or backs off.
LEMMA ToolEndsKeeps ==
  ASSUME GuardsInv, LockInv, NEW c \in Guarded, ToolEnds(c) PROVE GuardsInv' /\ LockInv'
<1>0. /\ GoesOn(c) /\ call[c].at = "working" /\ instant' = instant
      /\ holder' = holder /\ waiters' = waiters
  BY DEF ToolEnds, limiterVars
<1>1. /\ call \in [Guarded -> GuardedRec] /\ c \in ElementsOf(ready) /\ instant \in Nat
      /\ CallOk(c, call[c], TimersOf(c), ElementsOf(ready), instant)
      /\ Tail(ready) \in Seq(Guarded) /\ NoneTwice(Tail(ready))
      /\ ElementsOf(Tail(ready)) = ElementsOf(ready) \ {c}
      /\ timers = TimersBut(c) \cup TimersOf(c) /\ Resumes(c) /\ ~call[c].cancelled
  BY <1>0, ResumedIs DEF GuardsInv, GoesOn
<1>2. ASSUME NEW r2, NEW ts, call' = [call EXCEPT ![c] = r2], ready' = Tail(ready),
             timers' = TimersBut(c) \cup ts, \A t \in ts : t.who = c,
             CallOk(c, r2, ts, ElementsOf(Tail(ready)), instant), r2.at \notin {"pacing", "queued"}
      PROVE  GuardsInv' /\ LockInv'
  <2>1. /\ call'[c] = r2 /\ \A d \in Guarded \ {c} : call'[d] = call[d]
        /\ DOMAIN call' = Guarded /\ call' = [d \in Guarded |-> call'[d]]
    BY <1>1, <1>2
  <2>2. OtherCallsStand(c)
    BY <1>1, <1>2, <2>1 DEF OtherCallsStand
  <2>3. CallOk(c, call'[c], ts, ElementsOf(ready'), instant)
    BY <1>2, <2>1
  <2>4. ready' \in Seq(Guarded) /\ NoneTwice(ready')
    BY <1>1, <1>2
  <2>5. GuardsInv'
    BY <1>0, <1>2, <2>1, <2>2, <2>3, <2>4, CallSteps
  <2>6. LockInv'
    BY <1>0, <1>1, <1>2, <2>1, LockUntouched
  <2>. QED  BY <2>5, <2>6
<1>3. ASSUME NEW how \in {"done", "failed"}, Finishes(c, how) PROVE GuardsInv' /\ LockInv'
  <2>1. PICK r2 : r2 = [MovedTo(c, how) EXCEPT !.ended = instant]
    OBVIOUS
  <2>2. /\ r2 \in GuardedRec /\ r2.at = how /\ r2.ended = instant
        /\ r2.entered = call[c].entered /\ r2.limit = call[c].limit
    BY <1>1, <2>1, FinishedIs DEF Ends
  <2>3. CallOk(c, r2, {}, ElementsOf(Tail(ready)), instant)
    BY <1>1, <2>2, EndsOk
  <2>4. PICK ts : ts = {}
    OBVIOUS
  <2>5. timers' = TimersBut(c) \cup ts /\ ready' = Tail(ready) /\ call' = [call EXCEPT ![c] = r2]
    BY <1>3, <2>1, <2>4 DEF Finishes
  <2>6. r2.at \notin {"pacing", "queued"} /\ \A t \in ts : t.who = c
    BY <2>2, <2>4
  <2>. QED  BY <1>2, <2>3, <2>4, <2>5, <2>6
<1>4. CASE /\ call[c].tries < Attempts
           /\ call' = [call EXCEPT ![c] = MovedTo(c, "backoff")]
           /\ Schedules(c, "wake", instant + Backoff)
           /\ ready' = Tail(ready)
  <2>1. PICK r2, w : r2 = MovedTo(c, "backoff") /\ w = Timer(c, "wake", instant + Backoff)
    OBVIOUS
  <2>2. /\ r2 \in GuardedRec /\ r2.at = "backoff" /\ ~r2.woken /\ r2.cancelled = call[c].cancelled
        /\ r2.entered = call[c].entered /\ r2.limit = call[c].limit
    BY <1>1, <2>1, MovedIs DEF Asleep
  <2>3. w.who = c /\ w.kind = "wake" /\ w.when = instant + Backoff /\ w.when \in Nat
    <3>1. Backoff \in Nat
      BY GuardAssumption DEF GuardAssumption
    <3>. QED  BY <1>1, <2>1, <3>1 DEF Timer
  <2>4. timers' = TimersBut(c) \cup (TimersOf(c) \cup {w}) /\ \A t \in TimersOf(c) \cup {w} : t.who = c
    BY <1>1, <1>4, <2>1, <2>3 DEF Schedules, TimersOf
  <2>5. CallOk(c, r2, TimersOf(c) \cup {w}, ElementsOf(Tail(ready)), instant)
    <3>1. r2.at \in Asleep
      BY <2>2 DEF Asleep
    <3>. QED  BY <1>1, <2>2, <2>3, <3>1, SleepsOk
  <2>. QED  BY <1>2, <1>4, <2>1, <2>2, <2>4, <2>5
<1>. QED  BY <1>3, <1>4 DEF ToolEnds

\* A call cut off passes on the lock it held or was offered.
LEMMA TimesOutKeeps ==
  ASSUME GuardsInv, LockInv, NEW c \in Guarded, TimesOut(c) PROVE GuardsInv' /\ LockInv'
<1>. PICK ts : ts = {}
  OBVIOUS
<1>0. /\ Resumes(c) /\ call[c].cancelled /\ instant' = instant
      /\ timers' = TimersBut(c) \cup ts /\ \A t \in ts : t.who = c
  BY DEF TimesOut
<1>1. /\ call \in [Guarded -> GuardedRec] /\ c \in ElementsOf(ready) /\ instant \in Nat
      /\ CallOk(c, call[c], TimersOf(c), ElementsOf(ready), instant)
      /\ ready # <<>> /\ Head(ready) = c
      /\ Tail(ready) \in Seq(Guarded) /\ NoneTwice(Tail(ready))
      /\ ElementsOf(Tail(ready)) = ElementsOf(ready) \ {c}
  BY <1>0, ResumedIs DEF GuardsInv
<1>2. PICK r2, left : /\ r2 = [MovedTo(c, "timedout") EXCEPT !.ended = instant]
                      /\ left = RemoveFirst(waiters, c)
  OBVIOUS
<1>3. /\ r2 \in GuardedRec /\ r2.at = "timedout" /\ r2.ended = instant
      /\ r2.entered = call[c].entered /\ r2.limit = call[c].limit
  BY <1>0, <1>2, FinishedIs DEF Ends
<1>4. \A P : c \notin P => CallOk(c, r2, ts, P, instant)
  BY <1>0, <1>1, <1>3, EndsOk
<1>5. /\ left \in Seq(Guarded) /\ NoneTwice(left) /\ ElementsOf(left) = ElementsOf(waiters) \ {c}
      /\ waiters # <<>> /\ waiters[1] # c => left # <<>> /\ left[1] = waiters[1]
  <2>1. waiters \in Seq(Guarded) /\ NoneTwice(waiters)
    BY DEF LockInv
  <2>. QED  BY <1>2, <2>1, OneLeaves
<1>6. \A d \in Guarded : d \in ElementsOf(left) <=> call[d].at = "queued" /\ d # c
  BY <1>5 DEF LockInv
<1>7. \A d \in Guarded \ {c} : call[d].at = "queued" /\ call[d].woken /\ ~call[d].cancelled
        => holder = NoHolder /\ left[1] = d /\ left # <<>>
  <2>. SUFFICES ASSUME NEW d \in Guarded \ {c}, call[d].at = "queued", call[d].woken, ~call[d].cancelled
       PROVE  holder = NoHolder /\ left[1] = d /\ left # <<>>
    OBVIOUS
  <2>1. holder = NoHolder /\ waiters[1] = d /\ d \in ElementsOf(waiters)
    BY DEF LockInv
  <2>2. waiters # <<>>
    BY <2>1 DEF ElementsOf
  <2>. QED  BY <1>5, <2>1, <2>2
<1>8. CASE holder = c \/ holder = NoHolder
  <2>1. Released(left, [call EXCEPT ![c] = r2], Tail(ready))
    BY <1>2, <1>8 DEF TimesOut
  <2>2. \A d \in Guarded \ {c} : call[d].at = "queued" /\ call[d].woken /\ ~call[d].cancelled
          => left[1] = d
    BY <1>7
  <2>3. r2.at \notin {"pacing", "queued"} /\ holder \in {c, NoHolder}
    BY <1>3, <1>8
  <2>. QED  BY <1>0, <1>1, <1>3, <1>4, <1>5, <1>6, <2>1, <2>2, <2>3, LockReleased
<1>9. CASE ~(holder = c \/ holder = NoHolder)
  <2>1. /\ call' = [call EXCEPT ![c] = r2] /\ waiters' = left /\ ready' = Tail(ready)
        /\ holder' = holder
    BY <1>2, <1>9 DEF TimesOut
  <2>2. /\ call'[c] = r2 /\ \A d \in Guarded \ {c} : call'[d] = call[d]
        /\ DOMAIN call' = Guarded /\ call' = [d \in Guarded |-> call'[d]]
    BY <1>1, <2>1
  <2>3. OtherCallsStand(c)
    BY <1>1, <2>1, <2>2 DEF OtherCallsStand
  <2>4. CallOk(c, call'[c], ts, ElementsOf(ready'), instant)
    <3>1. c \notin ElementsOf(ready')
      BY <1>1, <2>1
    <3>. QED  BY <1>4, <2>2, <3>1
  <2>5. GuardsInv'
    <3>1. ready' \in Seq(Guarded) /\ NoneTwice(ready')
      BY <1>1, <2>1
    <3>. QED  BY <1>0, <2>2, <2>3, <2>4, <3>1, CallSteps
  <2>6. /\ \A d \in Guarded : holder' = d <=> call'[d].at = "pacing"
        /\ \A d \in Guarded : d \in ElementsOf(waiters') <=> call'[d].at = "queued"
    <3>1. \A d \in Guarded : holder = d <=> call[d].at = "pacing"
      BY DEF LockInv
    <3>. QED  BY <1>3, <1>6, <1>9, <2>1, <2>2, <3>1
  <2>7. \A d \in Guarded : ~(call'[d].at = "queued" /\ call'[d].woken /\ ~call'[d].cancelled)
    BY <1>3, <1>7, <1>9, <2>2
  <2>8. holder' \in Guarded \cup {NoHolder} /\ holder' # NoHolder
    BY <1>9, <2>1 DEF LockInv
  <2>. QED  BY <1>5, <2>1, <2>5, <2>6, <2>7, <2>8 DEF LockInv, NoneTwice, ElementsOf
<1>. QED  BY <1>8, <1>9

\* A call that enters has its deadline before anything else.
LEMMA EnterKeeps ==
  ASSUME GuardsInv, LockInv, NEW c \in Guarded, NEW limit \in Limits[c], Enter(c, limit)
  PROVE  GuardsInv' /\ LockInv'
<1>0. /\ call[c].at = "new" /\ instant' = instant /\ ready' = Append(ready, c)
      /\ call' = [call EXCEPT ![c] = [call[c] EXCEPT !.at = "entered", !.entered = instant,
                                                    !.limit = limit]]
      /\ Schedules(c, "expire", instant + limit)
      /\ holder' = holder /\ waiters' = waiters
  BY DEF Enter, limiterVars
<1>1. /\ call \in [Guarded -> GuardedRec] /\ instant \in Nat /\ ready \in Seq(Guarded) /\ NoneTwice(ready)
      /\ CallOk(c, call[c], TimersOf(c), ElementsOf(ready), instant)
  BY DEF GuardsInv
<1>2. limit \in Nat \ {0}
  BY GuardAssumption DEF GuardAssumption
<1>3. PICK r : r = call[c]
  OBVIOUS
<1>4. r \in GuardedRec /\ r.at = "new" /\ ~r.woken /\ ~r.cancelled /\ TimersOf(c) = {} /\ c \notin ElementsOf(ready)
  BY <1>0, <1>1, <1>3 DEF CallOk, CallOver
<1>5. PICK r2 : r2 = [r EXCEPT !.at = "entered", !.entered = instant, !.limit = limit]
  OBVIOUS
<1>6. /\ r2 \in GuardedRec /\ r2.at = "entered" /\ ~r2.woken /\ ~r2.cancelled
      /\ r2.entered = instant /\ r2.limit = limit
  BY <1>1, <1>2, <1>4, <1>5 DEF GuardedRec
<1>7. call' = [call EXCEPT ![c] = r2]
  BY <1>0, <1>3, <1>5
<1>8. PICK w : w = Timer(c, "expire", instant + limit)
  OBVIOUS
<1>9. w.who = c /\ w.kind = "expire" /\ w.when = instant + limit
  BY <1>8 DEF Timer
<1>10. PICK ts : ts = {w} /\ timers' = TimersBut(c) \cup ts /\ \A t \in ts : t.who = c
  BY <1>0, <1>4, <1>8, <1>9 DEF Schedules, TimersBut, TimersOf
<1>11. /\ ready' \in Seq(Guarded) /\ NoneTwice(ready') /\ ElementsOf(ready') = ElementsOf(ready) \cup {c}
  BY <1>0, <1>1, <1>4, LastJoins
<1>12. CallOk(c, r2, ts, ElementsOf(ready'), instant)
  BY <1>1, <1>10, <1>2, <1>4, <1>6, <1>9, <1>11 DEF CallOk, CallRuns, Ends, Asleep
<1>13. /\ call'[c] = r2 /\ \A d \in Guarded \ {c} : call'[d] = call[d]
       /\ DOMAIN call' = Guarded /\ call' = [d \in Guarded |-> call'[d]]
  BY <1>1, <1>7
<1>14. OtherCallsStand(c)
  BY <1>11, <1>13 DEF OtherCallsStand
<1>15. GuardsInv'
  <2>1. CallOk(c, call'[c], ts, ElementsOf(ready'), instant)
    BY <1>12, <1>13
  <2>. QED  BY <1>0, <1>10, <1>11, <1>13, <1>14, <2>1, CallSteps
<1>16. LockInv'
  <2>1. call'[c].at \notin {"pacing", "queued"} /\ call[c].at \notin {"pacing", "queued"}
    BY <1>0, <1>6, <1>13
  <2>. QED  BY <1>0, <1>1, <1>13, <2>1, LockUntouched
<1>. QED  BY <1>15, <1>16

\* Time passes and reaches the calls whose timers are due.
LEMMA AdvanceKeeps ==
  ASSUME GuardsInv, LockInv, ready = <<>>, NEW later \in Nat, instant < later, AdvanceTo(later),
         holder' = holder, waiters' = waiters
  PROVE  GuardsInv' /\ LockInv'
<1>0. PICK due, who : due = DueTimers(later) /\ who = {t.who : t \in due}
  OBVIOUS
<1>1. /\ instant' = later /\ timers' = timers \ due /\ ready' \in SetToSeqs(who)
      /\ call' = [c \in Guarded |-> IF c \in who THEN Reached(c, due) ELSE call[c]]
  BY <1>0 DEF AdvanceTo
<1>2. /\ instant \in Nat /\ call \in [Guarded -> GuardedRec] /\ \A t \in timers : t.who \in Guarded
      /\ \A d \in Guarded : CallOk(d, call[d], TimersOf(d), {}, instant)
  BY DEF GuardsInv, ElementsOf
<1>3. ready' \in Seq(Guarded) /\ NoneTwice(ready') /\ ElementsOf(ready') = who
  <2>1. who \subseteq Guarded
    BY <1>0, <1>2 DEF DueTimers
  <2>2. IsFiniteSet(who)
    <3>1. IsFiniteSet(Guarded)
      BY GuardAssumption DEF GuardAssumption
    <3>. QED  BY <2>1, <3>1, FS_Subset
  <2>3. PICK n : n = Cardinality(who) /\ n \in Nat
    BY <2>2, FS_CardinalityType
  <2>4. ready' \in [1 .. n -> who] /\ \A i, j \in 1 .. n : i # j => ready'[i] # ready'[j]
    BY <1>1, <2>3 DEF SetToSeqs
  <2>5. ready' \in Injection(1 .. n, who)
    BY <2>4 DEF Injection, IsInjective
  <2>6. ready' \in Surjection(1 .. n, who)
    <3>1. Cardinality(1 .. n) = n
      BY <2>3, FS_Interval
    <3>. QED  BY <2>2, <2>3, <2>5, <3>1, FS_Injection
  <2>7. ready' \in Seq(Guarded) /\ DOMAIN ready' = 1 .. n
    BY <2>1, <2>3, <2>4
  <2>8. \A d \in who : \E i \in 1 .. n : ready'[i] = d
    BY <2>6 DEF Surjection
  <2>. QED  BY <2>4, <2>7, <2>8 DEF NoneTwice, ElementsOf
<1>4. ASSUME NEW d \in Guarded
      PROVE  CallOk(d, call'[d], {t \in timers' : t.who = d}, who, later)
  <2>0. PICK mine, ts : mine = {t \in TimersOf(d) : t.when <= later} /\ ts = TimersOf(d)
    OBVIOUS
  <2>1. mine = {t \in due : t.who = d} /\ {t \in timers' : t.who = d} = ts \ mine
    BY <1>0, <1>1, <2>0 DEF TimersOf, DueTimers
  <2>2. d \in who <=> mine # {}
    BY <1>0, <2>1
  <2>3. Expires(d, due) <=> \E t \in mine : t.kind = "expire"
    BY <2>1 DEF Expires
  <2>4. call'[d] = IF d \in who THEN Reached(d, due) ELSE call[d]
    BY <1>1
  <2>5. Reached(d, due) = [call[d] EXCEPT !.woken = TRUE, !.cancelled = Expires(d, due)]
    BY DEF Reached
  <2>6. Expires(d, due) = \E t \in mine : t.kind = "expire"
    BY <2>3 DEF Expires
  <2>7. call'[d] = IF mine # {}
                   THEN [call[d] EXCEPT !.woken = TRUE, !.cancelled = \E t \in mine : t.kind = "expire"]
                   ELSE call[d]
    BY <2>2, <2>4, <2>5, <2>6
  <2>8. CallOk(d, call[d], ts, {}, instant)
    BY <1>2, <2>0
  <2>9. mine = {t \in ts : t.when <= later}
    BY <2>0
  <2>10. PICK r, r2 : r = call[d] /\ r2 = call'[d]
    OBVIOUS
  <2>11. /\ CallOk(d, r, ts, {}, instant) /\ instant \in Nat
         /\ r2 = IF mine # {}
                 THEN [r EXCEPT !.woken = TRUE, !.cancelled = \E t \in mine : t.kind = "expire"]
                 ELSE r
    BY <1>2, <2>7, <2>8, <2>10
  <2>12. CallOk(d, r2, ts \ mine, who, later)
    BY <2>2, <2>9, <2>11, TimePasses
  <2>. QED  BY <2>1, <2>10, <2>12
<1>5. GuardsInv'
  <2>1. \A d \in Guarded : call'[d] \in GuardedRec
    BY <1>4 DEF CallOk
  <2>2. call' \in [Guarded -> GuardedRec]
    BY <1>1, <2>1
  <2>3. \A t \in timers' : t.who \in Guarded
    BY <1>1, <1>2
  <2>4. \A d \in Guarded : CallOk(d, call'[d], {t \in timers' : t.who = d}, ElementsOf(ready'), instant')
    BY <1>1, <1>3, <1>4
  <2>5. \A d \in Guarded : CallOk(d, call[d], TimersOf(d), ElementsOf(ready), instant)'
    BY <2>4 DEF CallOk, CallRuns, CallOver, TimersOf, ElementsOf
  <2>. QED  BY <1>1, <1>3, <2>2, <2>3, <2>5 DEF GuardsInv, NoneTwice
<1>6. ASSUME NEW d \in Guarded PROVE call'[d].at = call[d].at
  BY <1>1, <1>2 DEF Reached, GuardedRec
<1>7. \A d \in Guarded : call[d].at = "queued" => ~call[d].woken
  BY <1>2 DEF CallOk, CallRuns, Ends
<1>8. ASSUME NEW d \in Guarded, call'[d].at = "queued", call'[d].woken, ~call'[d].cancelled PROVE FALSE
  <2>1. call[d].at = "queued" /\ ~call[d].woken
    BY <1>6, <1>7, <1>8
  <2>2. d \in who /\ call'[d] = Reached(d, due)
    BY <1>1, <1>8, <2>1
  <2>3. PICK t \in due : t.who = d
    BY <1>0, <2>2
  <2>4. t \in TimersOf(d)
    BY <1>0, <2>3 DEF DueTimers, TimersOf
  <2>5. t.kind = "expire"
    BY <1>2, <2>1, <2>4 DEF CallOk, CallRuns, Asleep, Ends
  <2>6. Expires(d, due)
    BY <2>3, <2>5 DEF Expires
  <2>7. call[d] \in GuardedRec
    BY <1>2
  <2>. QED  BY <1>8, <2>2, <2>6, <2>7 DEF Reached, GuardedRec
<1>9. ~(holder = NoHolder /\ waiters # <<>>)
  <2>. SUFFICES ASSUME holder = NoHolder, waiters # <<>> PROVE FALSE
    OBVIOUS
  <2>1. waiters \in Seq(Guarded) /\ NoneTwice(waiters)
    BY DEF LockInv
  <2>2. waiters[1] \in ElementsOf(waiters) /\ waiters[1] \in Guarded
    BY <2>1, FirstLeaves
  <2>. QED  BY <1>7, <2>2 DEF LockInv
<1>10. LockInv'
  <2>1. /\ \A d \in Guarded : holder = d <=> call'[d].at = "pacing"
        /\ \A d \in Guarded : d \in ElementsOf(waiters) <=> call'[d].at = "queued"
    BY <1>6 DEF LockInv
  <2>. QED  BY <1>8, <1>9, <2>1 DEF LockInv, NoneTwice, ElementsOf
<1>. QED  BY <1>5, <1>10

-----------------------------------------------------------------------------
(* Guarded calls: the tokens *)

\* Since each grant, no more tokens were taken or are left than the burst and the
\* time that passed account for.
RateInv ==
  /\ BucketTypes /\ grants \in Seq([who : Guarded, at : Nat])
  /\ \A i \in DOMAIN grants :
       /\ grants[i].at <= bucket.updated
       /\ (Len(grants) - i + 1) * Refill + bucket.tokens
            <= Burst * Refill + (bucket.updated - grants[i].at)
  /\ RateHolds

\* With the same grants, the same rate.
LEMMA RatesSame ==
  ASSUME RateHolds, grants \in Seq([who : Guarded, at : Nat]), grants' = grants
  PROVE  RateHolds'
<1>1. PICK f : f = grants
  OBVIOUS
<1>2. \A i, j \in DOMAIN f : i <= j => (j - i + 1 - Burst) * Refill <= f[j].at - f[i].at
  BY <1>1 DEF RateHolds
<1>3. grants' = f
  BY <1>1
<1>. QED  BY <1>2, <1>3 DEF RateHolds

\* Time alone takes no token.
LEMMA RateAlone ==
  ASSUME RateInv, bucket' = bucket, grants' = grants, instant' \in Nat, instant \in Nat, instant <= instant'
  PROVE  RateInv'
<1>1. BucketTypes'
  BY DEF RateInv, BucketTypes
<1>2. RateHolds'
  BY DEF RateInv, RateHolds
<1>. QED  BY <1>1, <1>2 DEF RateInv

\* A draw takes a token that has grown since the grants before it.
LEMMA DrawCounts ==
  ASSUME GuardsInv, RateInv, NEW c \in Guarded, NEW ws, NEW rs, Draw(c, ws, rs)
  PROVE  RateInv'
<1>0. PICK k, m : k = Tokens /\ m = Burst * Refill
  OBVIOUS
<1>1. Burst \in Nat \ {0} /\ Refill \in Nat \ {0} /\ m \in Nat
  <2>1. Burst \in Nat \ {0} /\ Refill \in Nat \ {0}
    BY GuardAssumption DEF GuardAssumption
  <2>. QED  BY <1>0, <2>1
<1>2. /\ instant' = instant /\ instant \in Nat /\ k \in Nat /\ k <= m
      /\ k <= bucket.tokens + (instant - bucket.updated)
      /\ bucket.tokens \in Nat /\ bucket.updated \in Nat /\ bucket.updated <= instant
  BY <1>0, TokensAre DEF Draw, GuardsInv, RateInv, BucketTypes
<1>3. PICK n : n = Len(grants)
  OBVIOUS
<1>4. /\ n \in Nat /\ DOMAIN grants = 1 .. n /\ grants \in Seq([who : Guarded, at : Nat])
      /\ \A i \in 1 .. n : grants[i].at \in Nat
  <2>1. grants \in Seq([who : Guarded, at : Nat])
    BY DEF RateInv
  <2>2. PICK R : R = [who : Guarded, at : Nat]
    OBVIOUS
  <2>3. grants \in Seq(R)
    BY <2>1, <2>2
  <2>4. n \in Nat /\ DOMAIN grants = 1 .. n /\ \A i \in 1 .. n : grants[i] \in R
    BY <1>3, <2>3
  <2>. QED  BY <2>1, <2>2, <2>4
<1>5. \A i \in 1 .. n : /\ grants[i].at <= bucket.updated
                        /\ (n - i + 1) * Refill + bucket.tokens <= m + (bucket.updated - grants[i].at)
  BY <1>0, <1>3, <1>4 DEF RateInv
<1>6. \A i \in 1 .. n : (n - i + 1) * Refill \in Int
  BY <1>1, <1>4
<1>7. ASSUME NEW i \in 1 .. n PROVE (n - i + 1) * Refill + k <= m + (instant - grants[i].at)
  <2>1. PICK x : x = (n - i + 1) * Refill
    OBVIOUS
  <2>2. x \in Int /\ x + bucket.tokens <= m + (bucket.updated - grants[i].at) /\ grants[i].at \in Nat
    BY <1>4, <1>5, <1>6, <2>1
  <2>. QED  BY <1>1, <1>2, <2>1, <2>2
<1>8. CASE k >= Refill
  <2>1. /\ bucket' = [tokens |-> k - Refill, updated |-> instant]
        /\ grants' = Append(grants, [who |-> c, at |-> instant])
    BY <1>0, <1>8 DEF Draw
  <2>2. /\ grants' \in Seq([who : Guarded, at : Nat]) /\ Len(grants') = n + 1 /\ DOMAIN grants' = 1 .. n + 1
        /\ grants'[n + 1].at = instant /\ \A i \in 1 .. n : grants'[i] = grants[i]
    BY <1>2, <1>3, <1>4, <2>1
  <2>3. bucket'.tokens = k - Refill /\ bucket'.updated = instant
    BY <2>1
  <2>4. BucketTypes'
    <3>1. bucket' \in [tokens : Nat, updated : Nat]
      BY <1>1, <1>2, <1>8, <2>1
    <3>2. bucket'.tokens <= Burst * Refill /\ bucket'.updated <= instant'
      BY <1>0, <1>1, <1>2, <2>3
    <3>. QED  BY <3>1, <3>2 DEF BucketTypes
  <2>5. ASSUME NEW i \in 1 .. n + 1
        PROVE  /\ grants'[i].at <= instant
               /\ (n + 1 - i + 1) * Refill + (k - Refill) <= m + (instant - grants'[i].at)
    <3>1. CASE i = n + 1
      <4>1. (n + 1 - i + 1) * Refill = Refill
        BY <1>1, <1>4, <3>1
      <4>. QED  BY <1>1, <1>2, <2>2, <3>1, <4>1
    <3>2. CASE i # n + 1
      <4>1. i \in 1 .. n /\ grants'[i] = grants[i]
        BY <1>4, <2>2, <3>2
      <4>2. PICK x : x = (n - i + 1) * Refill
        OBVIOUS
      <4>3. x \in Int /\ x + k <= m + (instant - grants[i].at) /\ grants[i].at \in Nat
            /\ grants[i].at <= bucket.updated
        BY <1>4, <1>5, <1>6, <1>7, <4>1, <4>2
      <4>4. (n + 1 - i + 1) * Refill = x + Refill
        BY <1>1, <1>4, <4>2
      <4>. QED  BY <1>1, <1>2, <4>1, <4>3, <4>4
    <3>. QED  BY <3>1, <3>2
  <2>6. RateHolds'
    <3>. SUFFICES ASSUME NEW i \in 1 .. n + 1, NEW j \in 1 .. n + 1, i <= j
         PROVE (j - i + 1 - Burst) * Refill <= grants'[j].at - grants'[i].at
      BY <2>2 DEF RateHolds
    <3>1. CASE j \in 1 .. n
      <4>1. i \in 1 .. n
        BY <1>4, <3>1
      <4>. QED  BY <1>4, <2>2, <3>1, <4>1 DEF RateInv, RateHolds
    <3>2. CASE j \notin 1 .. n
      <4>1. j = n + 1
        BY <1>4, <3>2
      <4>2. PICK x, a : x = (n + 1 - i + 1) * Refill /\ a = grants'[i].at
        OBVIOUS
      <4>3. (j - i + 1 - Burst) * Refill = x - m
        BY <1>0, <1>1, <1>4, <4>1, <4>2
      <4>4. x + (k - Refill) <= m + (instant - a)
        BY <2>5, <4>2
      <4>5. x \in Int /\ a \in Nat
        <5>1. grants'[i] \in [who : Guarded, at : Nat]
          <6>1. PICK R, f : R = [who : Guarded, at : Nat] /\ f = grants'
            OBVIOUS
          <6>2. f \in Seq(R) /\ DOMAIN f = 1 .. n + 1
            BY <2>2, <6>1
          <6>3. f[i] \in R
            BY <1>4, <6>2
          <6>. QED  BY <6>1, <6>3
        <5>2. a \in Nat
          BY <4>2, <5>1
        <5>. QED  BY <1>1, <1>4, <4>2, <5>2
      <4>6. x - m <= instant - a
        BY <1>1, <1>2, <1>8, <4>4, <4>5
      <4>. QED  BY <2>2, <4>1, <4>2, <4>3, <4>6
    <3>. QED  BY <3>1, <3>2
  <2>7. \A i \in DOMAIN grants' :
          /\ grants'[i].at <= bucket'.updated
          /\ (Len(grants') - i + 1) * Refill + bucket'.tokens
               <= Burst * Refill + (bucket'.updated - grants'[i].at)
    <3>. SUFFICES ASSUME NEW i \in DOMAIN grants'
         PROVE  /\ grants'[i].at <= bucket'.updated
                /\ (Len(grants') - i + 1) * Refill + bucket'.tokens
                     <= Burst * Refill + (bucket'.updated - grants'[i].at)
      OBVIOUS
    <3>1. i \in 1 .. n + 1 /\ Len(grants') = n + 1 /\ Burst * Refill = m
      BY <1>0, <2>2
    <3>2. /\ grants'[i].at <= instant
          /\ (n + 1 - i + 1) * Refill + (k - Refill) <= m + (instant - grants'[i].at)
      BY <2>5, <3>1
    <3>3. PICK x, l, t : x = (n + 1 - i + 1) * Refill /\ l = Len(grants') /\ t = bucket'.tokens
      OBVIOUS
    <3>4. (l - i + 1) * Refill = x /\ t = k - Refill
      BY <1>4, <2>3, <3>1, <3>3
    <3>5. (l - i + 1) * Refill + t <= m + (instant - grants'[i].at)
      BY <3>2, <3>3, <3>4
    <3>6. (Len(grants') - i + 1) * Refill + bucket'.tokens
            <= Burst * Refill + (bucket'.updated - grants'[i].at)
      BY <2>3, <3>1, <3>3, <3>5
    <3>. QED  BY <2>3, <3>2, <3>6
  <2>. QED  BY <2>2, <2>4, <2>6, <2>7 DEF RateInv
<1>9. CASE ~(k >= Refill)
  <2>1. bucket' = [tokens |-> k, updated |-> instant] /\ grants' = grants
    BY <1>0, <1>9 DEF Draw
  <2>2. BucketTypes'
    BY <1>0, <1>2, <2>1 DEF BucketTypes
  <2>3. RateHolds'
    <3>1. RateHolds
      BY DEF RateInv
    <3>2. grants \in Seq([who : Guarded, at : Nat]) /\ grants' = grants
      BY <1>4, <2>1
    <3>. QED  BY <3>1, <3>2, RatesSame
  <2>4. \A i \in 1 .. n : grants[i].at <= instant /\ (n - i + 1) * Refill + k <= m + (instant - grants[i].at)
    <3>. SUFFICES ASSUME NEW i \in 1 .. n PROVE grants[i].at <= instant
      BY <1>7
    <3>1. grants[i].at <= bucket.updated /\ grants[i].at \in Nat
      BY <1>4, <1>5
    <3>. QED  BY <1>2, <3>1
  <2>5. \A i \in DOMAIN grants' :
          /\ grants'[i].at <= bucket'.updated
          /\ (Len(grants') - i + 1) * Refill + bucket'.tokens
               <= Burst * Refill + (bucket'.updated - grants'[i].at)
    BY <1>0, <1>3, <1>4, <2>1, <2>4
  <2>. QED  BY <1>4, <2>1, <2>2, <2>3, <2>5 DEF RateInv
<1>. QED  BY <1>8, <1>9

-----------------------------------------------------------------------------
(* Guarded calls: the runner *)

\* Past its first step, the runner made as many as the call it waits for is old.
RunnerInv ==
  /\ strides \in {-1} \cup 0 .. MaxStrides
  /\ call[Awaited].at = "new" => strides \in {0, 1}
  /\ Running(Awaited) /\ strides # -1 =>
       strides >= 1 /\ call[Awaited].entered + strides * Stride <= instant + Stride
  /\ RunnerSettles

\* A step of the event loop leaves a call's deadline alone, and no call comes back.
Steady(d) ==
  /\ call'[d].at = "new" <=> call[d].at = "new"
  /\ call[d].at \in Ends => call'[d].at \in Ends
  /\ call'[d].entered = call[d].entered /\ call'[d].limit = call[d].limit

\* The runner does not mind what leaves its order where it was.
LEMMA SteadyRunner ==
  ASSUME GuardsInv, RunnerInv, Steady(Awaited), strides' = strides, instant' = instant
  PROVE  RunnerInv'
<1>1. Running(Awaited)' => Running(Awaited)
  BY DEF Running, Steady
<1>2. RunnerSettles'
  BY DEF RunnerInv, RunnerSettles, Steady
<1>3. call'[Awaited].at = "new" => strides' \in {0, 1}
  BY DEF RunnerInv, Steady
<1>4. Running(Awaited)' /\ strides' # -1 =>
        strides' >= 1 /\ call'[Awaited].entered + strides' * Stride <= instant' + Stride
  BY <1>1 DEF RunnerInv, Steady
<1>. QED  BY <1>2, <1>3, <1>4 DEF RunnerInv

\* A release leaves every call in its place, and its deadline.
LEMMA ReleasedSteady ==
  ASSUME call \in [Guarded -> GuardedRec], NEW c \in Guarded, NEW r2 \in GuardedRec, NEW ws, NEW rs,
         call[c].at \notin Ends \cup {"new"}, r2.at # "new",
         r2.entered = call[c].entered, r2.limit = call[c].limit,
         \/ Released(ws, [call EXCEPT ![c] = r2], rs)
         \/ call' = [call EXCEPT ![c] = r2],
         NEW d \in Guarded
  PROVE  Steady(d)
<1>1. PICK cs : cs = [call EXCEPT ![c] = r2]
  OBVIOUS
<1>2. cs \in [Guarded -> GuardedRec] /\ cs[c] = r2 /\ \A e \in Guarded \ {c} : cs[e] = call[e]
  BY <1>1
<1>3. /\ cs[d].at = "new" <=> call[d].at = "new"
      /\ call[d].at \in Ends => cs[d].at \in Ends
      /\ cs[d].entered = call[d].entered /\ cs[d].limit = call[d].limit
  BY <1>2
<1>4. call' = cs \/ call' = [cs EXCEPT ![Head(ws)].woken = TRUE]
  BY <1>1 DEF Released
<1>5. call'[d] = cs[d] \/ call'[d] = [cs[d] EXCEPT !.woken = TRUE]
  BY <1>2, <1>4
<1>6. cs[d] \in GuardedRec
  BY <1>2
<1>7. call'[d].at = cs[d].at /\ call'[d].entered = cs[d].entered /\ call'[d].limit = cs[d].limit
  BY <1>5, <1>6 DEF GuardedRec
<1>. QED  BY <1>3, <1>7 DEF Steady

\* A step of a call neither starts its order nor moves time.
LEMMA ResumeSteady ==
  ASSUME GuardsInv, NEW c \in Guarded,
         EnteredAsks(c) \/ TakesLock(c) \/ PacedDraws(c) \/ RetryAsks(c) \/ ToolEnds(c) \/ TimesOut(c)
  PROVE  Steady(Awaited) /\ strides' = strides /\ instant' = instant
<1>1. Resumes(c)
  BY DEF EnteredAsks, TakesLock, PacedDraws, RetryAsks, ToolEnds, TimesOut, GoesOn
<1>2. call \in [Guarded -> GuardedRec] /\ call[c] \in GuardedRec /\ call[c].at \notin Ends \cup {"new"}
      /\ Awaited \in Guarded /\ instant \in Nat
  <2>1. Awaited \in Guarded
    BY GuardAssumption DEF GuardAssumption
  <2>. QED  BY <1>1, <2>1, ResumedIs DEF GuardsInv
<1>3. ASSUME NEW place \in {"queued"} \cup Asleep \cup Ends, call' = [call EXCEPT ![c] = MovedTo(c, place)]
      PROVE  Steady(Awaited)
  <2>1. PICK r2 : r2 = MovedTo(c, place)
    OBVIOUS
  <2>2. r2 \in GuardedRec /\ r2.at # "new" /\ r2.entered = call[c].entered /\ r2.limit = call[c].limit
    BY <1>2, <2>1, MovedIs DEF Asleep, Ends
  <2>. QED  BY <1>2, <1>3, <2>1, <2>2, ReleasedSteady
<1>4. ASSUME NEW ws, NEW rs, Draw(c, ws, rs) PROVE Steady(Awaited)
  <2>1. CASE Tokens >= Refill
    <3>1. PICK r2, q : q = MovedTo(c, "working") /\ r2 = [q EXCEPT !.tries = @ + 1]
      OBVIOUS
    <3>2. q \in GuardedRec /\ q.at = "working" /\ q.entered = call[c].entered /\ q.limit = call[c].limit
      BY <1>2, <3>1, MovedIs DEF Asleep
    <3>3. r2 \in GuardedRec /\ r2.at = "working" /\ r2.entered = call[c].entered /\ r2.limit = call[c].limit
      BY <3>1, <3>2 DEF GuardedRec
    <3>4. Released(ws, [call EXCEPT ![c] = r2], rs)
      BY <1>4, <2>1, <3>1 DEF Draw
    <3>. QED  BY <1>2, <3>3, <3>4, ReleasedSteady
  <2>2. CASE ~(Tokens >= Refill)
    BY <1>3, <1>4, <2>2 DEF Draw, Asleep
  <2>. QED  BY <2>1, <2>2
<1>5. ASSUME NEW how \in Ends, NEW ws, NEW rs,
             \/ Released(ws, [call EXCEPT ![c] = [MovedTo(c, how) EXCEPT !.ended = instant]], rs)
             \/ call' = [call EXCEPT ![c] = [MovedTo(c, how) EXCEPT !.ended = instant]]
      PROVE  Steady(Awaited)
  <2>1. PICK r2 : r2 = [MovedTo(c, how) EXCEPT !.ended = instant]
    OBVIOUS
  <2>2. r2 \in GuardedRec /\ r2.at # "new" /\ r2.entered = call[c].entered /\ r2.limit = call[c].limit
    BY <1>1, <2>1, FinishedIs DEF Ends
  <2>. QED  BY <1>2, <1>5, <2>1, <2>2, ReleasedSteady
<1>6. CASE EnteredAsks(c) \/ RetryAsks(c)
  <2>1. AskLimiter(c, Tail(ready))
    BY <1>6 DEF EnteredAsks, RetryAsks
  <2>2. CASE Draw(c, <<>>, Tail(ready))
    BY <1>4, <2>2 DEF Draw
  <2>3. CASE ~Draw(c, <<>>, Tail(ready))
    BY <1>3, <2>1, <2>3 DEF AskLimiter
  <2>. QED  BY <2>2, <2>3
<1>7. CASE TakesLock(c) \/ PacedDraws(c)
  <2>1. \E ws : Draw(c, ws, Tail(ready))
    BY <1>7 DEF TakesLock, PacedDraws
  <2>. QED  BY <1>4, <2>1 DEF Draw
<1>8. CASE ToolEnds(c)
  <2>1. CASE \E how \in {"done", "failed"} : Finishes(c, how)
    BY <1>5, <1>8, <2>1 DEF Finishes, ToolEnds, Ends
  <2>2. CASE call' = [call EXCEPT ![c] = MovedTo(c, "backoff")]
    BY <1>3, <1>8, <2>2 DEF ToolEnds, Asleep
  <2>. QED  BY <1>8, <2>1, <2>2 DEF ToolEnds
<1>9. CASE TimesOut(c)
  BY <1>5, <1>9 DEF TimesOut, Ends
<1>. QED  BY <1>6, <1>7, <1>8, <1>9

\* The order starts with one stride taken.
LEMMA EnterRunner ==
  ASSUME GuardsInv, RunnerInv, NEW c \in Guarded, NEW limit \in Limits[c], Enter(c, limit)
  PROVE  RunnerInv'
<1>0. /\ call \in [Guarded -> GuardedRec] /\ Awaited \in Guarded /\ instant \in Nat
      /\ Stride \in Nat \ {0}
  BY GuardAssumption DEF GuardAssumption, GuardsInv
<1>1. PICK r, r2 : /\ r = call[c]
                   /\ r2 = [r EXCEPT !.at = "entered", !.entered = instant, !.limit = limit]
  OBVIOUS
<1>2. /\ call' = [call EXCEPT ![c] = r2] /\ r \in GuardedRec /\ r.at = "new"
      /\ strides' = strides /\ instant' = instant
  BY <1>0, <1>1 DEF Enter
<1>3. r2.at = "entered" /\ r2.entered = instant
  BY <1>1, <1>2 DEF GuardedRec
<1>4. CASE c = Awaited
  <2>0. strides > 0
    BY <1>4 DEF Enter
  <2>1. strides = 1 /\ call'[Awaited] = r2
    BY <1>0, <1>1, <1>2, <1>4, <2>0 DEF RunnerInv
  <2>2. call'[Awaited].entered + strides' * Stride <= instant' + Stride
    BY <1>0, <1>2, <1>3, <2>1
  <2>3. strides' \in {-1} \cup 0 .. MaxStrides /\ RunnerSettles'
    BY <1>2, <2>1 DEF RunnerSettles, RunnerInv
  <2>. QED  BY <1>2, <2>1, <2>2, <2>3 DEF RunnerInv
<1>5. CASE c # Awaited
  <2>1. call'[Awaited] = call[Awaited]
    BY <1>0, <1>2, <1>5
  <2>2. Steady(Awaited)
    BY <2>1 DEF Steady
  <2>. QED  BY <1>2, <2>2, SteadyRunner
<1>. QED  BY <1>4, <1>5

\* An advance leaves the order in its place.
LEMMA AdvanceSteady ==
  ASSUME GuardsInv, NEW later, AdvanceTo(later)
  PROVE  call'[Awaited].at = call[Awaited].at /\ Steady(Awaited) /\ instant' = later
<1>1. call[Awaited] \in GuardedRec /\ Awaited \in Guarded
  <2>1. Awaited \in Guarded
    BY GuardAssumption DEF GuardAssumption
  <2>. QED  BY <2>1 DEF GuardsInv
<1>2. \/ call'[Awaited] = call[Awaited]
      \/ call'[Awaited] = Reached(Awaited, DueTimers(later))
  BY <1>1 DEF AdvanceTo
<1>3. PICK out : out = Expires(Awaited, DueTimers(later))
  OBVIOUS
<1>4. \/ call'[Awaited] = call[Awaited]
      \/ call'[Awaited] = [call[Awaited] EXCEPT !.woken = TRUE, !.cancelled = out]
  BY <1>2, <1>3 DEF Reached
<1>5. /\ call'[Awaited].at = call[Awaited].at /\ call'[Awaited].entered = call[Awaited].entered
      /\ call'[Awaited].limit = call[Awaited].limit
  BY <1>1, <1>4 DEF GuardedRec
<1>. QED  BY <1>5 DEF Steady, AdvanceTo

\* A stride counts against the time the order has had.
LEMMA SettleRunner ==
  ASSUME GuardsInv, RunnerInv, SettleOnVirtualTime PROVE RunnerInv'
<1>1. /\ strides = 0 \/ Running(Awaited)
      /\ strides \in 0 .. MaxStrides - 1 /\ strides' = strides + 1
      /\ AdvanceTo(instant + Stride)
  BY DEF SettleOnVirtualTime
<1>2. /\ call'[Awaited].at = call[Awaited].at /\ instant' = instant + Stride
      /\ call'[Awaited].entered = call[Awaited].entered
  BY <1>1, AdvanceSteady DEF Steady
<1>3. Stride \in Nat /\ MaxStrides \in Nat /\ instant \in Nat /\ call[Awaited].entered \in Nat
  <2>1. Stride \in Nat /\ MaxStrides \in Nat /\ Awaited \in Guarded
    BY GuardAssumption DEF GuardAssumption
  <2>2. call[Awaited] \in GuardedRec
    BY <2>1 DEF GuardsInv
  <2>. QED  BY <2>1, <2>2 DEF GuardsInv, GuardedRec
<1>4. strides # -1 /\ strides' # -1 /\ strides' \in 0 .. MaxStrides
  BY <1>1, <1>3
<1>5. ASSUME Running(Awaited)
      PROVE  call'[Awaited].entered + strides' * Stride <= instant' + Stride
  <2>1. PICK x : x = strides * Stride
    OBVIOUS
  <2>2. x \in Int /\ (strides + 1) * Stride = x + Stride
    <3>1. PICK u, v : u = strides /\ v = Stride
      OBVIOUS
    <3>2. u \in Int /\ v \in Int
      BY <1>1, <1>3, <3>1
    <3>3. u * v \in Int /\ (u + 1) * v = u * v + v
      BY <3>2
    <3>. QED  BY <2>1, <3>1, <3>3
  <2>3. call[Awaited].entered + x <= instant + Stride
    BY <1>1, <1>4, <1>5, <2>1 DEF RunnerInv
  <2>. QED  BY <1>1, <1>2, <1>3, <2>2, <2>3
<1>6. strides' >= 1 /\ (call[Awaited].at = "new" => strides' = 1)
  BY <1>1, <1>3 DEF RunnerInv, Running
<1>7. Running(Awaited)' => Running(Awaited)
  BY <1>2 DEF Running
<1>. QED  BY <1>2, <1>4, <1>5, <1>6, <1>7 DEF RunnerInv, RunnerSettles

\* A runner out of strides waited them all, and the order has time left.
LEMMA GiveUpRunner ==
  ASSUME GuardsInv, RunnerInv, GiveUp PROVE RunnerInv'
<1>1. /\ ready = <<>> /\ Running(Awaited) /\ strides = MaxStrides /\ strides' = -1
      /\ call' = call /\ instant' = instant
  BY DEF GiveUp
<1>2. Stride \in Nat /\ MaxStrides \in Nat \ {0} /\ Awaited \in Guarded
  BY GuardAssumption DEF GuardAssumption
<1>3. PICK r : r = call[Awaited]
  OBVIOUS
<1>4. r \in GuardedRec /\ instant \in Nat /\ CallOk(Awaited, r, TimersOf(Awaited), {}, instant)
  BY <1>1, <1>2, <1>3 DEF GuardsInv, ElementsOf
<1>5. r.at \notin Ends \cup {"new"}
  BY <1>1, <1>3 DEF Running
<1>6. instant < r.entered + r.limit
  BY <1>4, <1>5 DEF CallOk, CallRuns
<1>7. r.entered + MaxStrides * Stride <= instant + Stride
  BY <1>1, <1>2, <1>3 DEF RunnerInv
<1>8. r.limit > (MaxStrides - 1) * Stride
  <2>1. PICK x : x = MaxStrides * Stride
    OBVIOUS
  <2>2. x \in Nat /\ r.entered \in Nat /\ r.limit \in Nat
    BY <1>2, <1>4, <2>1 DEF GuardedRec
  <2>3. (MaxStrides - 1) * Stride = x - Stride
    <3>1. PICK u, v : u = MaxStrides /\ v = Stride
      OBVIOUS
    <3>2. u \in Int /\ v \in Int
      BY <1>2, <3>1
    <3>3. (u - 1) * v = u * v - v
      BY <3>2
    <3>. QED  BY <2>1, <3>1, <3>3
  <2>. QED  BY <1>2, <1>4, <1>6, <1>7, <2>1, <2>2, <2>3
<1>9. RunnerSettles'
  BY <1>1, <1>3, <1>8 DEF RunnerSettles
<1>. QED  BY <1>1, <1>3, <1>5, <1>9 DEF RunnerInv

\* Other events pass only when the order is over.
LEMMA EventRunner ==
  ASSUME GuardsInv, RunnerInv, NEW leap \in Leaps, NextEvent(leap) PROVE RunnerInv'
<1>1. ~Running(Awaited) /\ strides' = strides /\ AdvanceTo(instant + leap)
  BY DEF NextEvent, RunnerInv, Running
<1>2. call'[Awaited].at = call[Awaited].at /\ call'[Awaited].limit = call[Awaited].limit
  BY <1>1, AdvanceSteady DEF Steady
<1>. QED  BY <1>1, <1>2 DEF RunnerInv, RunnerSettles, Running

-----------------------------------------------------------------------------
(* Guarded calls: what holds of them *)

GuardedInv == GuardsInv /\ LockInv /\ RateInv /\ RunnerInv

\* No call has begun.
LEMMA GuardedStarts == ASSUME GuardedInit PROVE GuardedInv
<1>1. /\ Burst \in Nat /\ Refill \in Nat /\ MaxStrides \in Nat /\ Awaited \in Guarded
      /\ NoHolder \notin Guarded
  BY GuardAssumption DEF GuardAssumption
<1>2. PICK r : r = [at |-> "new", woken |-> FALSE, cancelled |-> FALSE,
                    tries |-> 0, limit |-> 0, entered |-> 0, ended |-> 0]
  OBVIOUS
<1>3. r \in GuardedRec /\ r.at = "new" /\ ~r.woken /\ ~r.cancelled
  BY <1>2 DEF GuardedRec
<1>4. \A d \in Guarded : call[d] = r
  BY <1>2 DEF GuardedInit
<1>5. GuardsInv
  <2>1. ASSUME NEW d \in Guarded PROVE CallOk(d, call[d], TimersOf(d), ElementsOf(ready), instant)
    <3>1. PICK ts, pending : ts = {} /\ pending = {}
      OBVIOUS
    <3>2. TimersOf(d) = ts /\ ElementsOf(ready) = pending
      BY <3>1 DEF GuardedInit, TimersOf, ElementsOf
    <3>3. CallOver(d, r, ts, pending)
      BY <1>3, <3>1 DEF CallOver
    <3>4. CallOk(d, r, ts, pending, instant)
      BY <1>3, <3>1, <3>3 DEF CallOk
    <3>. QED  BY <1>4, <3>2, <3>4
  <2>2. call \in [Guarded -> GuardedRec]
    BY <1>3, <1>4 DEF GuardedInit
  <2>. QED  BY <2>1, <2>2 DEF GuardsInv, GuardedInit, NoneTwice
<1>6. LockInv
  BY <1>1, <1>3, <1>4 DEF LockInv, GuardedInit, NoneTwice, ElementsOf
<1>7. RateInv
  <2>1. PICK m : m = Burst * Refill
    OBVIOUS
  <2>2. m \in Nat
    BY <1>1, <2>1
  <2>3. BucketTypes
    BY <2>1, <2>2 DEF BucketTypes, GuardedInit
  <2>. QED  BY <2>3 DEF RateInv, RateHolds, GuardedInit
<1>8. RunnerInv
  <2>1. strides = 0 /\ call[Awaited].at = "new"
    BY <1>1, <1>3, <1>4 DEF GuardedInit
  <2>. QED  BY <1>1, <2>1 DEF RunnerInv, RunnerSettles, Running
<1>. QED  BY <1>5, <1>6, <1>7, <1>8 DEF GuardedInv

\* What does not move keeps what holds of it.
LEMMA GuardedStands ==
  ASSUME GuardedInv, UNCHANGED <<instant, call, timers, ready, bucket, holder, waiters, grants>>
  PROVE  GuardsInv' /\ LockInv' /\ RateInv'
<1>1. GuardsInv'
  BY DEF GuardedInv, GuardsInv, TimersOf, CallOk, CallRuns, CallOver, NoneTwice, ElementsOf
<1>2. LockInv'
  BY DEF GuardedInv, LockInv, NoneTwice, ElementsOf
<1>3. RateInv'
  BY RateAlone DEF GuardedInv, GuardsInv
<1>. QED  BY <1>1, <1>2, <1>3

\* Every step keeps calls, lock, tokens and runner in order.
LEMMA GuardedGoesOn == ASSUME GuardedInv, [GuardedNext]_guardedVars PROVE GuardedInv'
<1>0. GuardsInv /\ LockInv /\ RateInv /\ RunnerInv /\ BucketTypes /\ instant \in Nat
  BY DEF GuardedInv, RateInv, GuardsInv
<1>1. ASSUME NEW later \in Nat, instant < later, ready = <<>>, AdvanceTo(later), UNCHANGED limiterVars
      PROVE  GuardsInv' /\ LockInv' /\ RateInv'
  <2>1. GuardsInv' /\ LockInv'
    BY <1>0, <1>1, AdvanceKeeps DEF limiterVars
  <2>2. instant' = later /\ bucket' = bucket /\ grants' = grants
    BY <1>1 DEF AdvanceTo, limiterVars
  <2>3. instant' \in Nat /\ instant <= instant'
    BY <1>0, <1>1, <2>2
  <2>. QED  BY <1>0, <2>1, <2>2, <2>3, RateAlone
<1>2. CASE SettleOnVirtualTime
  <2>1. instant + Stride \in Nat /\ instant < instant + Stride
    <3>1. Stride \in Nat \ {0}
      BY GuardAssumption DEF GuardAssumption
    <3>. QED  BY <1>0, <3>1
  <2>2. GuardsInv' /\ LockInv' /\ RateInv'
    BY <1>1, <1>2, <2>1 DEF SettleOnVirtualTime
  <2>. QED  BY <1>0, <1>2, <2>2, SettleRunner DEF GuardedInv
<1>3. CASE GiveUp
  <2>1. UNCHANGED <<instant, call, timers, ready, bucket, holder, waiters, grants>>
    BY <1>3 DEF GiveUp, limiterVars
  <2>. QED  BY <1>0, <1>3, <2>1, GuardedStands, GiveUpRunner DEF GuardedInv
<1>4. ASSUME NEW leap \in Leaps, NextEvent(leap) PROVE GuardedInv'
  <2>1. instant + leap \in Nat /\ instant < instant + leap
    <3>1. leap \in Nat \ {0}
      BY GuardAssumption DEF GuardAssumption
    <3>. QED  BY <1>0, <3>1
  <2>2. GuardsInv' /\ LockInv' /\ RateInv'
    BY <1>1, <1>4, <2>1 DEF NextEvent
  <2>. QED  BY <1>0, <1>4, <2>2, EventRunner DEF GuardedInv
<1>5. ASSUME NEW c \in Guarded, NEW limit \in Limits[c], Enter(c, limit) PROVE GuardedInv'
  <2>1. bucket' = bucket /\ grants' = grants /\ instant' = instant
    BY <1>5 DEF Enter, limiterVars
  <2>2. RateInv'
    BY <1>0, <2>1, RateAlone
  <2>. QED  BY <1>0, <1>5, <2>2, EnterKeeps, EnterRunner DEF GuardedInv
<1>6. ASSUME NEW c \in Guarded, EnteredAsks(c) \/ TakesLock(c) \/ PacedDraws(c) \/ RetryAsks(c)
      PROVE  GuardedInv'
  <2>1. GuardsInv' /\ LockInv'
    BY <1>0, <1>6, GuardedResume
  <2>2. RunnerInv'
    BY <1>0, <1>6, ResumeSteady, SteadyRunner
  <2>3. instant' = instant
    BY <1>0, <1>6, ResumeSteady
  <2>4. (\E ws, rs : Draw(c, ws, rs)) \/ (bucket' = bucket /\ grants' = grants)
    BY <1>6 DEF EnteredAsks, TakesLock, PacedDraws, RetryAsks, AskLimiter
  <2>5. RateInv'
    BY <1>0, <2>3, <2>4, DrawCounts, RateAlone
  <2>. QED  BY <2>1, <2>2, <2>5 DEF GuardedInv
<1>7. ASSUME NEW c \in Guarded, ToolEnds(c) \/ TimesOut(c) PROVE GuardedInv'
  <2>1. GuardsInv' /\ LockInv'
    BY <1>0, <1>7, ToolEndsKeeps, TimesOutKeeps
  <2>2. RunnerInv' /\ instant' = instant
    BY <1>0, <1>7, ResumeSteady, SteadyRunner
  <2>3. bucket' = bucket /\ grants' = grants
    BY <1>7 DEF ToolEnds, TimesOut, limiterVars
  <2>. QED  BY <1>0, <2>1, <2>2, <2>3, RateAlone DEF GuardedInv
<1>8. CASE UNCHANGED guardedVars
  <2>1. /\ UNCHANGED <<instant, call, timers, ready, bucket, holder, waiters, grants>>
        /\ strides' = strides
    BY <1>8 DEF guardedVars, clockVars, limiterVars
  <2>2. RunnerInv'
    BY <1>0, <2>1 DEF RunnerInv, RunnerSettles, Running
  <2>. QED  BY <2>1, <2>2, GuardedStands DEF GuardedInv
<1>. QED  BY <1>2, <1>3, <1>4, <1>5, <1>6, <1>7, <1>8 DEF GuardedNext

\* From what holds of them, the promises.
LEMMA GuardedPromises == ASSUME GuardedInv PROVE CallsGuarded
<1>1. GuardsInv /\ LockInv
  BY DEF GuardedInv
<1>2. DeadlinesHold
  <2>. SUFFICES ASSUME NEW c \in Guarded
       PROVE  /\ call[c].at \in {"done", "failed"} => call[c].ended - call[c].entered < call[c].limit
              /\ call[c].at = "timedout" => call[c].ended - call[c].entered >= call[c].limit
    BY DEF DeadlinesHold
  <2>1. CallOk(c, call[c], TimersOf(c), ElementsOf(ready), instant)
    BY <1>1 DEF GuardsInv
  <2>. QED  BY <2>1 DEF CallOk, CallOver, Ends
<1>3. LockNeverStuck
  <2>1. ASSUME holder # NoHolder PROVE holder \in Guarded /\ call[holder].at = "pacing"
    BY <1>1, <2>1 DEF LockInv
  <2>2. ASSUME waiters # <<>>, ready = <<>>
        PROVE  holder # NoHolder /\ \E t \in timers : t.who = holder /\ t.kind = "wake"
    <3>1. ASSUME NEW d \in Guarded PROVE CallOk(d, call[d], TimersOf(d), {}, instant)
      BY <1>1, <2>2 DEF GuardsInv, ElementsOf
    <3>2. waiters[1] \in Guarded /\ call[waiters[1]].at = "queued"
      <4>1. waiters \in Seq(Guarded) /\ NoneTwice(waiters)
        BY <1>1 DEF LockInv
      <4>2. waiters[1] \in ElementsOf(waiters) /\ waiters[1] \in Guarded
        BY <2>2, <4>1, FirstLeaves
      <4>. QED  BY <1>1, <4>2 DEF LockInv
    <3>3. ~call[waiters[1]].woken
      BY <3>1, <3>2 DEF CallOk, CallRuns, Ends
    <3>4. holder # NoHolder
      BY <1>1, <2>2, <3>3 DEF LockInv
    <3>5. holder \in Guarded /\ call[holder].at = "pacing"
      BY <2>1, <3>4
    <3>6. \E t \in TimersOf(holder) : t.kind = "wake"
      BY <3>1, <3>5 DEF CallOk, CallRuns, Ends, Asleep
    <3>. QED  BY <3>4, <3>6 DEF TimersOf
  <2>3. holder # NoHolder => Running(holder)
    BY <2>1 DEF Running, Ends
  <2>. QED  BY <2>2, <2>3 DEF LockNeverStuck
<1>. QED  BY <1>2, <1>3 DEF GuardedInv, RateInv, RunnerInv, CallsGuarded

\* For any calls, limits, bursts and work times, and whatever is cut off while it
\* waits, sleeps or holds the lock: no stretch of time has more calls than burst
\* and refill allow (core/ratelimit.py), no call outlives its deadline or is cut
\* off early (replay/clock.py), the lock is never stuck, and the runner gives up
\* only on an order whose deadline is beyond its patience (replay_runtime.py).
THEOREM CallsAreGuarded == GuardedSpec => []CallsGuarded
<1>1. GuardedInit => GuardedInv
  BY GuardedStarts
<1>2. GuardedInv /\ [GuardedNext]_guardedVars => GuardedInv'
  BY GuardedGoesOn
<1>3. GuardedInv => CallsGuarded
  BY GuardedPromises
<1>. QED  BY <1>1, <1>2, <1>3, PTL DEF GuardedSpec

-----------------------------------------------------------------------------
(* Window figures: the folds *)

PlusFee(x, y) == x + y
SomeRow(S) == CHOOSE k \in S : TRUE
TakeRow(r, account) == AfterRow(account, r)
TakePoint(here, was) == PeakFall(was, here)

FeeFold == INSTANCE FoldFacts WITH Op <- PlusFee, Choose <- SomeRow
CashFold == INSTANCE FoldFacts WITH Op <- TakeRow, Choose <- Max
PointFold == INSTANCE FoldFacts WITH Op <- TakePoint, Choose <- Max

\* The folds do what FoldFacts asks of them.
LEMMA FigureFolds ==
  /\ FeeFold!Adds /\ \A T : FeeFold!Chooses(T)
  /\ CashFold!TakesLast /\ \A n \in Nat : CashFold!Chooses(1 .. n)
  /\ PointFold!TakesLast /\ \A n \in Nat : PointFold!Chooses(1 .. n)
  /\ \A S : /\ FeeFold!IsFiniteSet(S) <=> IsFiniteSet(S)
            /\ CashFold!IsFiniteSet(S) <=> IsFiniteSet(S)
            /\ PointFold!IsFiniteSet(S) <=> IsFiniteSet(S)
<1>1. FeeFold!Adds /\ \A T : FeeFold!Chooses(T)
  BY DEF FeeFold!Adds, FeeFold!Chooses, PlusFee, SomeRow
<1>2. \A n \in Nat \ {0} : Max(1 .. n) = n
  <2>. SUFFICES ASSUME NEW n \in Nat \ {0} PROVE Max(1 .. n) = n
    OBVIOUS
  <2>1. n \in Nat /\ 1 .. n \in SUBSET (1 .. n) /\ n \in 1 .. n
    OBVIOUS
  <2>. QED  BY <2>1, MaxUpTo
<1>3. \A n \in Nat : \A S \in SUBSET (1 .. n) : S # {} => Max(S) \in S
  <2>. SUFFICES ASSUME NEW n \in Nat, NEW S \in SUBSET (1 .. n), S # {} PROVE Max(S) \in S
    OBVIOUS
  <2>1. IsFiniteSet(1 .. n)
    BY FS_Interval
  <2>2. IsFiniteSet(S)
    BY <2>1, FS_Subset
  <2>3. S \in SUBSET Nat
    OBVIOUS
  <2>. QED  BY <2>2, <2>3, EndsAre
<1>4. CashFold!TakesLast /\ \A n \in Nat : CashFold!Chooses(1 .. n)
  BY <1>2, <1>3 DEF CashFold!TakesLast, CashFold!Chooses
<1>5. PointFold!TakesLast /\ \A n \in Nat : PointFold!Chooses(1 .. n)
  BY <1>2, <1>3 DEF PointFold!TakesLast, PointFold!Chooses
<1>6. \A S : /\ FeeFold!IsFiniteSet(S) <=> IsFiniteSet(S)
             /\ CashFold!IsFiniteSet(S) <=> IsFiniteSet(S)
             /\ PointFold!IsFiniteSet(S) <=> IsFiniteSet(S)
  BY DEF IsFiniteSet, FeeFold!IsFiniteSet, CashFold!IsFiniteSet, PointFold!IsFiniteSet
<1>. QED  BY <1>1, <1>4, <1>5, <1>6

CashOf(rows) == FoldLeft(AfterRow, Genesis, rows)
FallsFrom(base, path) == FoldLeft(PeakFall, base, path)

\* The account after one row more.
LEMMA CashOfNext ==
  ASSUME NEW R, NEW rows \in Seq(R), NEW r
  PROVE  CashOf(<<>>) = Genesis /\ CashOf(Append(rows, r)) = AfterRow(CashOf(rows), r)
<1>. DEFINE n == Len(rows)
            more == Append(rows, r)
<1>1. /\ n \in Nat /\ DOMAIN rows = 1 .. n /\ DOMAIN more = 1 .. n + 1
      /\ more[n + 1] = r /\ \A i \in 1 .. n : more[i] = rows[i]
  OBVIOUS
<1>0. \A s : CashOf(s) = CashFold!Iterated(Genesis, s, DOMAIN s)
  BY DEF CashOf, FoldLeft, MapThenFoldSet, CashFold!Iterated, CashFold!IsIter, TakeRow
<1>. HIDE DEF n, more
<1>2. CashFold!Chooses(1 .. n + 1) /\ CashFold!Chooses(1 .. n) /\ CashFold!TakesLast
  BY <1>1, FigureFolds
<1>3. CashFold!IsFiniteSet(1 .. n)
  BY <1>1, FS_Interval, FigureFolds
<1>4. CashFold!Iterated(Genesis, more, 1 .. n + 1)
        = TakeRow(more[n + 1], CashFold!Iterated(Genesis, more, 1 .. n))
  BY <1>1, <1>2, CashFold!IteratedNext
<1>5. CashFold!Iterated(Genesis, more, 1 .. n) = CashFold!Iterated(Genesis, rows, 1 .. n)
  BY <1>1, <1>2, <1>3, CashFold!IteratedOfEqual
<1>6. CashOf(more) = AfterRow(CashOf(rows), r)
  BY <1>0, <1>1, <1>4, <1>5 DEF TakeRow
<1>7. CashOf(<<>>) = Genesis
  <2>1. DOMAIN << >> = {}
    OBVIOUS
  <2>. QED  BY <1>0, <2>1, CashFold!IteratedEmpty
<1>. QED  BY <1>6, <1>7 DEF more

\* The fall after one point more.
LEMMA FallsNext ==
  ASSUME NEW R, NEW path \in Seq(R), NEW x, NEW base
  PROVE  /\ FallsFrom(base, <<>>) = base
         /\ FallsFrom(base, Append(path, x)) = PeakFall(FallsFrom(base, path), x)
<1>. DEFINE n == Len(path)
            more == Append(path, x)
<1>1. /\ n \in Nat /\ DOMAIN path = 1 .. n /\ DOMAIN more = 1 .. n + 1
      /\ more[n + 1] = x /\ \A i \in 1 .. n : more[i] = path[i]
  OBVIOUS
<1>0. \A s : FallsFrom(base, s) = PointFold!Iterated(base, s, DOMAIN s)
  BY DEF FallsFrom, FoldLeft, MapThenFoldSet, PointFold!Iterated, PointFold!IsIter, TakePoint
<1>. HIDE DEF n, more
<1>2. PointFold!Chooses(1 .. n + 1) /\ PointFold!Chooses(1 .. n) /\ PointFold!TakesLast
  BY <1>1, FigureFolds
<1>3. PointFold!IsFiniteSet(1 .. n)
  BY <1>1, FS_Interval, FigureFolds
<1>4. PointFold!Iterated(base, more, 1 .. n + 1)
        = TakePoint(more[n + 1], PointFold!Iterated(base, more, 1 .. n))
  BY <1>1, <1>2, PointFold!IteratedNext
<1>5. PointFold!Iterated(base, more, 1 .. n) = PointFold!Iterated(base, path, 1 .. n)
  BY <1>1, <1>2, <1>3, PointFold!IteratedOfEqual
<1>6. FallsFrom(base, more) = PeakFall(FallsFrom(base, path), x)
  BY <1>0, <1>1, <1>4, <1>5 DEF TakePoint
<1>7. FallsFrom(base, <<>>) = base
  <2>1. DOMAIN << >> = {}
    OBVIOUS
  <2>. QED  BY <1>0, <2>1, PointFold!IteratedEmpty
<1>. QED  BY <1>6, <1>7 DEF more

-----------------------------------------------------------------------------
(* Window figures: the deepest fall of a path *)

\* Fractions with denominators above zero are ordered.
LEMMA ShareOrder ==
  ASSUME NEW a \in Int, NEW b \in Nat \ {0}, NEW c \in Int, NEW d \in Nat \ {0},
         NEW e \in Int, NEW f \in Nat \ {0}, a * d <= c * b, c * f <= e * d
  PROVE  a * f <= e * b
<1>1. (a * d) * f <= (c * b) * f
  <2>1. PICK x, y : x = a * d /\ y = c * b
    OBVIOUS
  <2>2. x \in Int /\ y \in Int /\ x <= y
    BY <2>1
  <2>3. x * f <= y * f
    BY <2>2
  <2>. QED  BY <2>1, <2>3
<1>2. (c * f) * b <= (e * d) * b
  <2>1. PICK x, y : x = c * f /\ y = e * d
    OBVIOUS
  <2>2. x \in Int /\ y \in Int /\ x <= y
    BY <2>1
  <2>3. x * b <= y * b
    BY <2>2
  <2>. QED  BY <2>1, <2>3
<1>3. PICK p, q : p = a * f /\ q = e * b
  OBVIOUS
<1>4. p \in Int /\ q \in Int
  BY <1>3
<1>5. p * d <= q * d
  <2>1. (a * d) * f = p * d /\ (c * b) * f = (c * f) * b /\ (e * d) * b = q * d
    BY <1>3
  <2>2. (a * d) * f \in Int /\ (c * b) * f \in Int /\ (e * d) * b \in Int
    OBVIOUS
  <2>. QED  BY <1>1, <1>2, <2>1, <2>2
<1>6. p <= q
  BY <1>4, <1>5
<1>. QED  BY <1>3, <1>6

\* What is known of the points lo .. hi of P when their peak and fall are pf.
FallOk(P, lo, hi, pf) ==
  /\ pf.peak \in Nat \ {0} /\ \A i \in lo .. hi : P[i] <= pf.peak
  /\ \E i \in lo .. hi : P[i] = pf.peak
  /\ pf.fall[1] \in Nat /\ pf.fall[2] \in Nat \ {0}
  /\ \A i, j \in lo .. hi : i < j => (P[i] - P[j]) * pf.fall[2] <= pf.fall[1] * P[i]
  /\ pf.fall[1] > 0 => \E i, j \in lo .. hi :
       i < j /\ pf.fall[1] * P[i] <= (P[i] - P[j]) * pf.fall[2]

\* At one point nothing has fallen.
LEMMA FallStarts ==
  ASSUME NEW P, NEW lo \in Nat, P[lo] \in Nat \ {0}
  PROVE  FallOk(P, lo, lo, [peak |-> P[lo], fall |-> <<0, 1>>])
<1>1. PICK pf : pf = [peak |-> P[lo], fall |-> <<0, 1>>]
  OBVIOUS
<1>2. pf.peak = P[lo] /\ pf.fall[1] = 0 /\ pf.fall[2] = 1
  BY <1>1
<1>3. \A i \in lo .. lo : i = lo
  OBVIOUS
<1>4. lo \in lo .. lo /\ ~(lo < lo)
  OBVIOUS
<1>5. FallOk(P, lo, lo, pf)
  BY <1>2, <1>3, <1>4 DEF FallOk
<1>. QED  BY <1>1, <1>5

\* One point more falls from the peak, or raises it.
LEMMA FallGoesOn ==
  ASSUME NEW P, NEW lo \in Nat, NEW n \in Nat, lo <= n, \A i \in lo .. n + 1 : P[i] \in Nat \ {0},
         NEW pf, FallOk(P, lo, n, pf)
  PROVE  FallOk(P, lo, n + 1, PeakFall(pf, P[n + 1]))
<1>. PICK x, k, a, b : x = P[n + 1] /\ k = pf.peak /\ a = pf.fall[1] /\ b = pf.fall[2]
  OBVIOUS
<1>0. PICK k2, fall2 : /\ k2 = (IF x > k THEN x ELSE k)
                       /\ fall2 = IF k2 > 0 /\ MoreThan(<<k2 - x, k2>>, pf.fall) THEN <<k2 - x, k2>>
                                  ELSE pf.fall
  OBVIOUS
<1>1. PICK pf2 : pf2 = PeakFall(pf, x)
  OBVIOUS
<1>2. pf2.peak = k2 /\ pf2.fall = fall2
  BY <1>0, <1>1 DEF PeakFall
<1>3. /\ n + 1 \in lo .. n + 1 /\ \A i \in lo .. n : i \in lo .. n + 1 /\ i < n + 1
      /\ \A i \in lo .. n + 1 : i \in lo .. n \/ i = n + 1
  OBVIOUS
<1>4. x \in Nat \ {0} /\ k \in Nat \ {0} /\ a \in Nat /\ b \in Nat \ {0} /\ k2 \in Nat \ {0}
  BY <1>0, <1>3 DEF FallOk
<1>5. /\ \A i \in lo .. n : P[i] \in Nat \ {0} /\ P[i] <= k
      /\ \E i \in lo .. n : P[i] = k
      /\ \A i, j \in lo .. n : i < j => (P[i] - P[j]) * b <= a * P[i]
      /\ a > 0 => \E i, j \in lo .. n : i < j /\ a * P[i] <= (P[i] - P[j]) * b
  BY DEF FallOk
<1>6. MoreThan(<<k2 - x, k2>>, pf.fall) <=> (k2 - x) * b > a * k2
  BY DEF MoreThan
<1>7. (\A i \in lo .. n + 1 : P[i] <= k2) /\ (\E i \in lo .. n + 1 : P[i] = k2)
  <2>1. CASE x > k
    <3>1. \A i \in lo .. n : P[i] <= x
      BY <1>4, <1>5, <2>1
    <3>. QED  BY <1>0, <1>3, <1>4, <2>1, <3>1
  <2>2. CASE ~(x > k)
    <3>1. x <= k /\ k2 = k
      BY <1>0, <1>4, <2>2
    <3>. QED  BY <1>3, <1>5, <3>1
  <2>. QED  BY <2>1, <2>2
\* A fall to the new point is no deeper than that from the peak.
<1>8. \A i \in lo .. n : (P[i] - x) * k2 <= (k2 - x) * P[i]
  <2>. SUFFICES ASSUME NEW i \in lo .. n PROVE (P[i] - x) * k2 <= (k2 - x) * P[i]
    OBVIOUS
  <2>1. PICK y : y = P[i]
    OBVIOUS
  <2>2. y \in Nat \ {0} /\ y <= k2
    BY <1>3, <1>5, <1>7, <2>1
  <2>3. x * y <= x * k2
    BY <1>4, <2>2
  <2>4. (y - x) * k2 = y * k2 - x * k2 /\ (k2 - x) * y = y * k2 - x * y
    BY <1>4, <2>2
  <2>5. x * y \in Int /\ x * k2 \in Int /\ y * k2 \in Int
    BY <1>4, <2>2
  <2>6. (y - x) * k2 <= (k2 - x) * y
    BY <2>3, <2>4, <2>5
  <2>. QED  BY <2>1, <2>6
<1>9. CASE (k2 - x) * b > a * k2
  <2>1. fall2 = <<k2 - x, k2>>
    BY <1>0, <1>4, <1>6, <1>9
  <2>2. x <= k /\ k2 = k
    <3>1. CASE x > k
      <4>1. k2 = x
        BY <1>0, <3>1
      <4>2. (k2 - x) * b = 0
        BY <1>4, <4>1
      <4>3. a * k2 \in Nat
        BY <1>4
      <4>. QED  BY <1>9, <4>2, <4>3
    <3>2. CASE ~(x > k)
      BY <1>0, <1>4, <3>2
    <3>. QED  BY <3>1, <3>2
  <2>3. fall2[1] = k2 - x /\ fall2[2] = k2 /\ k2 - x \in Nat
    BY <1>4, <2>1, <2>2
  <2>4. ASSUME NEW i \in lo .. n, NEW j \in lo .. n, i < j
        PROVE  (P[i] - P[j]) * k2 <= (k2 - x) * P[i]
    <3>1. PICK y, z : y = P[i] /\ z = P[j] - 0
      OBVIOUS
    <3>2. y \in Nat \ {0} /\ z \in Nat \ {0} /\ z = P[j]
      BY <1>5, <3>1
    <3>3. (y - z) * b <= a * y
      BY <1>5, <2>4, <3>1, <3>2
    <3>4. a * k2 <= (k2 - x) * b
      <4>1. a * k2 \in Int /\ (k2 - x) * b \in Int
        BY <1>4
      <4>. QED  BY <1>9, <4>1
    <3>5. PICK u, v : u = y - z /\ v = k2 - x
      OBVIOUS
    <3>6. u \in Int /\ v \in Int /\ u * b <= a * y /\ a * k2 <= v * b
      BY <1>4, <3>2, <3>3, <3>4, <3>5
    <3>7. u * k2 <= v * y
      BY <1>4, <3>2, <3>6, ShareOrder
    <3>. QED  BY <3>1, <3>2, <3>5, <3>7
  <2>5. \A i, j \in lo .. n + 1 : i < j => (P[i] - P[j]) * k2 <= (k2 - x) * P[i]
    <3>. SUFFICES ASSUME NEW i \in lo .. n + 1, NEW j \in lo .. n + 1, i < j
         PROVE  (P[i] - P[j]) * k2 <= (k2 - x) * P[i]
      OBVIOUS
    <3>1. i \in lo .. n /\ (j \in lo .. n \/ j = n + 1)
      BY <1>3
    <3>. QED  BY <1>8, <2>4, <3>1
  <2>6. \E i, j \in lo .. n + 1 : i < j /\ (k2 - x) * P[i] <= (P[i] - P[j]) * k2
    <3>1. PICK i \in lo .. n : P[i] = k2
      BY <1>5, <2>2
    <3>2. (k2 - x) * P[i] <= (P[i] - P[n + 1]) * k2
      BY <1>4, <3>1
    <3>. QED  BY <1>3, <3>2
  <2>7. FallOk(P, lo, n + 1, pf2)
    BY <1>2, <1>4, <1>7, <2>3, <2>5, <2>6 DEF FallOk
  <2>. QED  BY <1>1, <2>7
<1>10. CASE ~((k2 - x) * b > a * k2)
  <2>1. fall2 = pf.fall
    BY <1>0, <1>6, <1>10
  <2>2. (k2 - x) * b <= a * k2
    <3>1. a * k2 \in Int /\ (k2 - x) * b \in Int
      BY <1>4
    <3>. QED  BY <1>10, <3>1
  <2>3. ASSUME NEW i \in lo .. n PROVE (P[i] - x) * b <= a * P[i]
    <3>1. PICK y, u, v : y = P[i] /\ u = P[i] - x /\ v = k2 - x
      OBVIOUS
    <3>2. y \in Nat \ {0} /\ u \in Int /\ v \in Int
      BY <1>4, <1>5, <3>1
    <3>3. u * k2 <= v * y /\ v * b <= a * k2
      BY <1>8, <2>2, <3>1
    <3>4. u * b <= a * y
      BY <1>4, <3>2, <3>3, ShareOrder
    <3>. QED  BY <3>1, <3>4
  <2>4. \A i, j \in lo .. n + 1 : i < j => (P[i] - P[j]) * b <= a * P[i]
    <3>. SUFFICES ASSUME NEW i \in lo .. n + 1, NEW j \in lo .. n + 1, i < j
         PROVE  (P[i] - P[j]) * b <= a * P[i]
      OBVIOUS
    <3>1. i \in lo .. n /\ (j \in lo .. n \/ j = n + 1)
      BY <1>3
    <3>. QED  BY <1>5, <2>3, <3>1
  <2>5. a > 0 => \E i, j \in lo .. n + 1 : i < j /\ a * P[i] <= (P[i] - P[j]) * b
    BY <1>3, <1>5
  <2>6. FallOk(P, lo, n + 1, pf2)
    BY <1>2, <1>4, <1>7, <2>1, <2>4, <2>5 DEF FallOk
  <2>. QED  BY <1>1, <2>6
<1>. QED  BY <1>9, <1>10

-----------------------------------------------------------------------------
(* Window figures: the rows *)

FillRows == [type : {"fill"}, side : {"buy", "sell"}, filled : Int, venue : Int, network : Int,
             delta : Int, fraction : Int, stamp : Nat]
MarkedRows == [type : {"mark"}, mark : Int, stamp : Nat]
RefusalRows == [type : {"reject"}, fees : Int, stamp : Nat]
WindowRowSet == FillRows \cup MarkedRows \cup RefusalRows

\* What a fill moves is what went into the curve, or came out of it, and its fees.
Balanced(r) ==
  /\ r.type = "fill" /\ r.side = "buy" => r.delta = -(r.filled + r.network)
  /\ r.type = "fill" /\ r.side = "sell" => r.delta = r.filled

Accounts == [cash : Int, cost : Int, mark : Int]

\* The account after the first k rows.
AccountAt(rows, k) == CashOf(SubSeq(rows, 1, k))

RowsOk(rows) ==
  /\ rows \in Seq(WindowRowSet) /\ \A k \in DOMAIN rows : Balanced(rows[k])
  /\ \A i, j \in DOMAIN rows : i <= j => rows[i].stamp <= rows[j].stamp
  /\ \A k \in 0 .. Len(rows) : AccountAt(rows, k) \in Accounts

\* What the kinds of row hold.
LEMMA RowKinds ==
  ASSUME NEW r \in WindowRowSet
  PROVE  /\ r.stamp \in Nat /\ r.type \in {"fill", "mark", "reject"}
         /\ r.type = "fill" => /\ r.side \in {"buy", "sell"} /\ r.filled \in Int /\ r.venue \in Int
                               /\ r.network \in Int /\ r.delta \in Int
         /\ r.type = "mark" => r.mark \in Int
         /\ r.type = "reject" => r.fees \in Int
BY DEF WindowRowSet, FillRows, MarkedRows, RefusalRows

\* What a row does to an account.
LEMMA AfterRowIs ==
  ASSUME NEW r \in WindowRowSet, NEW a \in Accounts
  PROVE  /\ AfterRow(a, r) \in Accounts
         /\ r.type = "fill" => AfterRow(a, r).cash = a.cash + r.delta
         /\ r.type = "mark" => AfterRow(a, r).cash = a.cash
         /\ r.type = "reject" => AfterRow(a, r).cash = a.cash - r.fees
<1>0. a.cash \in Int /\ a.cost \in Int /\ a.mark \in Int
  BY DEF Accounts
<1>1. CASE r.type = "fill" /\ r.side = "buy"
  <2>1. AfterRow(a, r) = [a EXCEPT !.cash = @ + r.delta, !.cost = @ - r.delta]
    BY <1>1 DEF AfterRow
  <2>2. PICK d : d = r.delta /\ d \in Int
    BY <1>1, RowKinds
  <2>3. PICK p, q : p = a.cash + d /\ q = a.cost - d
    OBVIOUS
  <2>4. p \in Int /\ q \in Int /\ AfterRow(a, r) = [[a EXCEPT !.cash = p] EXCEPT !.cost = q]
    BY <1>0, <2>1, <2>2, <2>3 DEF Accounts
  <2>5. AfterRow(a, r) \in Accounts /\ AfterRow(a, r).cash = p
    BY <2>4 DEF Accounts
  <2>. QED  BY <1>1, <2>2, <2>3, <2>5
<1>2. CASE r.type = "fill" /\ r.side = "sell"
  <2>1. AfterRow(a, r) = [cash |-> a.cash + r.delta, cost |-> 0, mark |-> 0]
    BY <1>2 DEF AfterRow
  <2>. QED  BY <1>0, <1>2, <2>1, RowKinds DEF Accounts
<1>3. CASE r.type = "mark"
  <2>1. AfterRow(a, r) = [a EXCEPT !.mark = r.mark]
    BY <1>3 DEF AfterRow
  <2>. QED  BY <1>0, <1>3, <2>1, RowKinds DEF Accounts
<1>4. CASE r.type = "reject"
  <2>1. AfterRow(a, r) = [a EXCEPT !.cash = @ - r.fees]
    BY <1>4 DEF AfterRow
  <2>. QED  BY <1>0, <1>4, <2>1, RowKinds DEF Accounts
<1>. QED  BY <1>1, <1>2, <1>3, <1>4, RowKinds

\* One row more leaves the accounts after the earlier ones.
LEMMA AccountsGoOn ==
  ASSUME NEW rows \in Seq(WindowRowSet), NEW r \in WindowRowSet, NEW n, n = Len(rows)
  PROVE  /\ \A k \in 0 .. n : AccountAt(Append(rows, r), k) = AccountAt(rows, k)
         /\ AccountAt(Append(rows, r), n + 1) = AfterRow(AccountAt(rows, n), r)
<1>. PICK more : more = Append(rows, r)
  OBVIOUS
<1>1. /\ n \in Nat /\ rows \in Seq(WindowRowSet) /\ Len(rows) = n /\ more = Append(rows, r)
      /\ more \in Seq(WindowRowSet) /\ Len(more) = n + 1
      /\ \A i \in 1 .. n : more[i] = rows[i]
  OBVIOUS
<1>2. ASSUME NEW k \in 0 .. n PROVE SubSeq(more, 1, k) = SubSeq(rows, 1, k)
  <2>1. PICK a, b : a = SubSeq(more, 1, k) /\ b = SubSeq(rows, 1, k)
    OBVIOUS
  <2>2. k \in Int /\ \A i \in 1 .. k : i \in 1 .. n /\ i \in 1 .. n + 1
    BY <1>1
  <2>3. \A i \in 1 .. k : rows[i] \in WindowRowSet /\ more[i] \in WindowRowSet
    BY <1>1, <2>2
  <2>4. /\ a \in Seq(WindowRowSet) /\ Len(a) = k /\ \A i \in 1 .. k : a[i] = more[i]
    BY <1>1, <2>1, <2>2, <2>3, SubSeqProperties
  <2>5. /\ b \in Seq(WindowRowSet) /\ Len(b) = k /\ \A i \in 1 .. k : b[i] = rows[i]
    BY <1>1, <2>1, <2>2, <2>3, SubSeqProperties
  <2>6. \A i \in 1 .. k : a[i] = b[i]
    BY <1>1, <2>2, <2>4, <2>5
  <2>7. a = b
    BY <2>4, <2>5, <2>6, SeqEqual
  <2>. QED  BY <2>1, <2>7
<1>3. SubSeq(more, 1, n + 1) = more /\ SubSeq(rows, 1, n) = rows
  BY <1>1
<1>5. CashOf(more) = AfterRow(CashOf(rows), r)
  BY <1>1, CashOfNext
<1>. QED  BY <1>1, <1>2, <1>3, <1>5 DEF AccountAt

\* Without rows the account is the genesis.
LEMMA NoRowsYet == AccountAt(<<>>, 0) = Genesis
<1>1. SubSeq(<<>>, 1, 0) = <<>>
  OBVIOUS
<1>2. CashOf(<<>>) = Genesis
  <2>1. <<>> \in Seq({})
    OBVIOUS
  <2>. QED  BY <2>1, CashOfNext
<1>. QED  BY <1>1, <1>2 DEF AccountAt

\* The rows of the window are the last ones.
HeldOut(rows) == {k \in DOMAIN rows : rows[k].stamp >= CutAt}
FirstHeld(rows) == IF HeldOut(rows) = {} THEN Len(rows) ELSE Min(HeldOut(rows)) - 1

\* Stamps never go back, so the window is a stretch up to the end.
LEMMA HeldOutIs ==
  ASSUME NEW rows \in Seq(WindowRowSet),
         \A i, j \in DOMAIN rows : i <= j => rows[i].stamp <= rows[j].stamp
  PROVE  /\ FirstHeld(rows) \in 0 .. Len(rows)
         /\ HeldOut(rows) = FirstHeld(rows) + 1 .. Len(rows)
<1>. PICK n : n = Len(rows)
  OBVIOUS
<1>1. /\ n \in Nat /\ DOMAIN rows = 1 .. n 
      /\ \A i, j \in 1 .. n : i <= j => rows[i].stamp <= rows[j].stamp
  OBVIOUS
<1>2. \A i \in 1 .. n : rows[i].stamp \in Nat
  <2>1. \A i \in 1 .. n : rows[i] \in WindowRowSet
    BY <1>1
  <2>. QED  BY <2>1, RowKinds
<1>3. CutAt \in Nat
  BY FigureAssumption DEF FigureAssumption
<1>4. HeldOut(rows) = {k \in 1 .. n : rows[k].stamp >= CutAt}
  BY <1>1 DEF HeldOut
<1>5. CASE HeldOut(rows) = {}
  BY <1>1, <1>5 DEF FirstHeld
<1>6. CASE HeldOut(rows) # {}
  <2>1. IsFiniteSet(HeldOut(rows)) /\ HeldOut(rows) \in SUBSET Nat
    <3>1. IsFiniteSet(1 .. n)
      BY <1>1, FS_Interval
    <3>2. HeldOut(rows) \in SUBSET (1 .. n)
      BY <1>4
    <3>3. IsFiniteSet(HeldOut(rows))
      BY <3>1, <3>2, FS_Subset
    <3>4. 1 .. n \subseteq Nat
      OBVIOUS
    <3>. QED  BY <3>2, <3>3, <3>4
  <2>2. PICK m : m = Min(HeldOut(rows))
    OBVIOUS
  <2>3. m \in HeldOut(rows) /\ \A k \in HeldOut(rows) : m <= k
    BY <1>6, <2>1, <2>2, EndsAre
  <2>4. m \in 1 .. n /\ rows[m].stamp >= CutAt /\ FirstHeld(rows) = m - 1
    BY <1>4, <1>6, <2>2, <2>3 DEF FirstHeld
  <2>5. \A k \in 1 .. n : m <= k => rows[k].stamp >= CutAt
    BY <1>1, <1>2, <1>3, <2>4
  <2>6. HeldOut(rows) = m .. n
    <3>1. HeldOut(rows) \subseteq m .. n
      BY <1>1, <1>4, <2>3
    <3>2. m .. n \subseteq HeldOut(rows)
      BY <1>1, <1>4, <2>4, <2>5
    <3>. QED  BY <3>1, <3>2
  <2>. QED  BY <1>1, <2>4, <2>6
<1>. QED  BY <1>5, <1>6

\* A row more is one of the window, which then starts where it did, or comes
\* before it.
LEMMA HeldOutGoesOn ==
  ASSUME NEW rows, RowsOk(rows), NEW r \in WindowRowSet, NEW more, more = Append(rows, r),
         RowsOk(more), NEW n, n = Len(rows)
  PROVE  /\ n \in Nat /\ Len(more) = n + 1
         /\ HeldOut(rows) \in SUBSET (1 .. n) /\ FirstHeld(rows) \in 0 .. n
         /\ \/ HeldOut(more) = HeldOut(rows) \cup {n + 1} /\ FirstHeld(more) = FirstHeld(rows)
            \/ HeldOut(more) = {} /\ FirstHeld(more) = n + 1
<1>1. /\ n \in Nat /\ DOMAIN rows = 1 .. n /\ DOMAIN more = 1 .. n + 1
      /\ Len(more) = n + 1 /\ more[n + 1] = r /\ \A i \in 1 .. n : more[i] = rows[i]
  BY DEF RowsOk
<1>2. /\ HeldOut(rows) = {k \in 1 .. n : rows[k].stamp >= CutAt}
      /\ HeldOut(more) = {k \in 1 .. n + 1 : more[k].stamp >= CutAt}
  BY <1>1 DEF HeldOut
<1>3. /\ FirstHeld(rows) \in 0 .. n /\ HeldOut(rows) = FirstHeld(rows) + 1 .. n
  BY HeldOutIs DEF RowsOk
<1>4. /\ FirstHeld(more) \in 0 .. n + 1 /\ HeldOut(more) = FirstHeld(more) + 1 .. n + 1
  BY <1>1, HeldOutIs DEF RowsOk
<1>5. PICK f, f2 : f = FirstHeld(rows) /\ f2 = FirstHeld(more)
  OBVIOUS
<1>8. HeldOut(rows) \in SUBSET (1 .. n)
  BY <1>2
<1>6. CASE r.stamp >= CutAt
  <2>1. HeldOut(more) = HeldOut(rows) \cup {n + 1}
    <3>1. \A k \in 1 .. n + 1 : k \in 1 .. n \/ k = n + 1
      BY <1>1
    <3>2. 1 .. n \subseteq 1 .. n + 1 /\ n + 1 \in 1 .. n + 1
      BY <1>1
    <3>3. HeldOut(more) \subseteq HeldOut(rows) \cup {n + 1}
      BY <1>1, <1>2, <3>1
    <3>4. HeldOut(rows) \cup {n + 1} \subseteq HeldOut(more)
      BY <1>1, <1>2, <1>6, <3>2
    <3>. QED  BY <3>3, <3>4
  <2>2. f2 + 1 .. n + 1 = (f + 1 .. n) \cup {n + 1} /\ f \in 0 .. n /\ f2 \in 0 .. n + 1
    BY <1>3, <1>4, <1>5, <2>1
  <2>3. f2 = f
    <3>1. n + 1 \in f2 + 1 .. n + 1
      BY <2>2
    <3>2. f2 <= n
      BY <1>1, <2>2, <3>1
    <3>3. f2 + 1 \in (f + 1 .. n) \cup {n + 1}
      BY <1>1, <2>2, <3>2
    <3>4. f + 1 \in f2 + 1 .. n + 1
      BY <1>1, <2>2
    <3>5. n \in Int /\ f \in Int /\ f2 \in Int /\ f <= n
      BY <1>1, <2>2
    <3>6. f2 + 1 >= f + 1
      BY <3>3, <3>5
    <3>7. f + 1 >= f2 + 1
      BY <3>4, <3>5
    <3>. QED  BY <3>5, <3>6, <3>7
  <2>. QED  BY <1>1, <1>3, <1>5, <1>8, <2>1, <2>3
<1>7. CASE ~(r.stamp >= CutAt)
  <2>1. n + 1 \notin HeldOut(more)
    BY <1>1, <1>2, <1>7
  <2>2. f2 = n + 1
    <3>1. n + 1 \notin f2 + 1 .. n + 1 /\ f2 \in 0 .. n + 1
      BY <1>4, <1>5, <2>1
    <3>. QED  BY <1>1, <3>1
  <2>3. HeldOut(more) = {}
    <3>1. n + 2 .. n + 1 = {}
      BY <1>1
    <3>2. f2 + 1 = n + 2
      BY <1>1, <2>2
    <3>3. HeldOut(more) = f2 + 1 .. n + 1
      BY <1>4, <1>5
    <3>. QED  BY <3>1, <3>2, <3>3
  <2>. QED  BY <1>1, <1>3, <1>5, <1>8, <2>2, <2>3
<1>. QED  BY <1>6, <1>7

-----------------------------------------------------------------------------
(* Window figures: the fees *)

FeeColumns == {"paid", "sent", "fee", "refusal"}

\* What a row enters in a column of the fees, and the rows that do.
FeeEntry(column, r) ==
  CASE column = "paid" -> r.filled + r.venue + r.network
    [] column = "sent" -> r.filled - r.venue
    [] column = "fee" -> r.venue + r.network
    [] column = "refusal" -> r.fees
CountsIn(column, r) ==
  CASE column = "paid" -> r.type = "fill" /\ r.side = "sell"
    [] column = "sent" -> r.type = "fill" /\ r.side = "buy"
    [] column = "fee" -> r.type = "fill"
    [] column = "refusal" -> r.type = "reject"

FeeEntries(rows, column) == [k \in DOMAIN rows |-> FeeEntry(column, rows[k])]
Counted(rows, column, ks) == {k \in ks : CountsIn(column, rows[k])}
FeeSum(rows, column, ks) == FeeFold!Total(FeeEntries(rows, column), Counted(rows, column, ks))

\* What a row enters is a whole number.
LEMMA FeeEntryInt ==
  ASSUME NEW column \in FeeColumns, NEW r \in WindowRowSet, CountsIn(column, r)
  PROVE  FeeEntry(column, r) \in Int
<1>1. CASE column = "paid"
  <2>1. r.filled \in Int /\ r.venue \in Int /\ r.network \in Int
    BY <1>1, RowKinds DEF CountsIn
  <2>. QED  BY <1>1, <2>1 DEF FeeEntry
<1>2. CASE column = "sent"
  <2>1. r.filled \in Int /\ r.venue \in Int
    BY <1>2, RowKinds DEF CountsIn
  <2>. QED  BY <1>2, <2>1 DEF FeeEntry
<1>3. CASE column = "fee"
  <2>1. r.venue \in Int /\ r.network \in Int
    BY <1>3, RowKinds DEF CountsIn
  <2>. QED  BY <1>3, <2>1 DEF FeeEntry
<1>4. CASE column = "refusal"
  <2>1. r.fees \in Int
    BY <1>4, RowKinds DEF CountsIn
  <2>. QED  BY <1>4, <2>1 DEF FeeEntry
<1>. QED  BY <1>1, <1>2, <1>3, <1>4 DEF FeeColumns

\* The rows that count are finitely many.
LEMMA CountedFinite ==
  ASSUME NEW rows, NEW n \in Nat, NEW ks \in SUBSET (1 .. n), NEW column
  PROVE  /\ Counted(rows, column, ks) \in SUBSET ks
         /\ FeeFold!IsFiniteSet(Counted(rows, column, ks))
<1>1. Counted(rows, column, ks) \in SUBSET ks
  BY DEF Counted
<1>2. IsFiniteSet(1 .. n)
  BY FS_Interval
<1>3. IsFiniteSet(Counted(rows, column, ks))
  BY <1>1, <1>2, FS_Subset
<1>. QED  BY <1>1, <1>3, FigureFolds

\* A row more enters what it counts for.
LEMMA FeeSumNext ==
  ASSUME NEW rows \in Seq(WindowRowSet), NEW r \in WindowRowSet, NEW column \in FeeColumns,
         NEW ks \in SUBSET (1 .. Len(rows))
  PROVE  /\ FeeSum(rows, column, ks) \in Int
         /\ FeeSum(Append(rows, r), column, ks \cup {Len(rows) + 1})
              = FeeSum(rows, column, ks)
                + (IF CountsIn(column, r) THEN FeeEntry(column, r) ELSE 0)
<1>. PICK n, more : n = Len(rows) /\ more = Append(rows, r) /\ ks \in SUBSET (1 .. n)
  OBVIOUS
<1>1. /\ n \in Nat /\ DOMAIN rows = 1 .. n /\ DOMAIN more = 1 .. n + 1
      /\ more[n + 1] = r /\ \A i \in 1 .. n : more[i] = rows[i] /\ rows[i] \in WindowRowSet
  OBVIOUS
<1>. PICK F, G, T, U : /\ F = FeeEntries(rows, column) /\ G = FeeEntries(more, column)
                       /\ T = Counted(rows, column, ks)
                       /\ U = Counted(more, column, ks \cup {n + 1})
  OBVIOUS
<1>2. T \in SUBSET (1 .. n) /\ FeeFold!IsFiniteSet(T) /\ n + 1 \notin T /\ T \in SUBSET ks
  <2>1. n + 1 \notin 1 .. n
    BY <1>1
  <2>. QED  BY <1>1, <2>1, CountedFinite
<1>3. /\ \A i \in 1 .. n : F[i] = FeeEntry(column, rows[i]) /\ G[i] = FeeEntry(column, rows[i])
      /\ G[n + 1] = FeeEntry(column, r)
  <2>1. /\ \A i \in 1 .. n : i \in 1 .. n + 1
        /\ n + 1 \in 1 .. n + 1
    BY <1>1
  <2>. QED  BY <1>1, <2>1 DEF FeeEntries
<1>4. \A i \in T : F[i] \in Int /\ G[i] \in Int /\ F[i] = G[i]
  <2>. SUFFICES ASSUME NEW i \in T PROVE F[i] \in Int /\ G[i] \in Int /\ F[i] = G[i]
    OBVIOUS
  <2>1. i \in 1 .. n /\ CountsIn(column, rows[i])
    BY <1>2 DEF Counted
  <2>2. FeeEntry(column, rows[i]) \in Int
    BY <1>1, <2>1, FeeEntryInt
  <2>. QED  BY <1>3, <2>1, <2>2
<1>5. U = IF CountsIn(column, r) THEN T \cup {n + 1} ELSE T
  <2>1. \A k \in ks : CountsIn(column, more[k]) <=> CountsIn(column, rows[k])
    BY <1>1
  <2>2. CountsIn(column, more[n + 1]) <=> CountsIn(column, r)
    BY <1>1
  <2>. QED  BY <2>1, <2>2, Zenon DEF Counted
<1>6. FeeFold!Adds /\ \A S : FeeFold!Chooses(S)
  BY FigureFolds
<1>7. FeeFold!Total(F, T) \in Int /\ FeeFold!Total(G, T) = FeeFold!Total(F, T)
  <2>1. FeeFold!Total(F, T) \in Int
    BY <1>2, <1>4, <1>6, FeeFold!TotalInt
  <2>2. FeeFold!Iterated(0, G, T) = FeeFold!Iterated(0, F, T)
    BY <1>2, <1>4, <1>6, FeeFold!IteratedOfEqual
  <2>. QED  BY <2>1, <2>2 DEF FeeFold!Total
<1>8. CASE CountsIn(column, r)
  <2>1. \A i \in T \cup {n + 1} : G[i] \in Int
    BY <1>3, <1>4, <1>8, FeeEntryInt
  <2>2. FeeFold!Total(G, T \cup {n + 1}) = FeeFold!Total(G, T) + G[n + 1]
    BY <1>2, <1>6, <2>1, FeeFold!TotalAdd
  <2>. QED  BY <1>3, <1>5, <1>7, <1>8, <2>2 DEF FeeSum
<1>9. CASE ~CountsIn(column, r)
  BY <1>5, <1>7, <1>9 DEF FeeSum
<1>. QED  BY <1>8, <1>9

\* Over no rows nothing is summed.
LEMMA FeeSumNone ==
  ASSUME NEW rows, NEW column
  PROVE  FeeSum(rows, column, {}) = 0
<1>1. Counted(rows, column, {}) = {}
  BY DEF Counted
<1>. QED  BY <1>1, FeeFold!IteratedEmpty DEF FeeSum, FeeFold!Total

\* What left the cash in the window is what went into the curve and the fees.
FeesOk(rows) ==
  AccountAt(rows, Len(rows)).cash - AccountAt(rows, FirstHeld(rows)).cash
    = FeeSum(rows, "paid", HeldOut(rows)) - FeeSum(rows, "sent", HeldOut(rows))
      - (FeeSum(rows, "fee", HeldOut(rows)) + FeeSum(rows, "refusal", HeldOut(rows)))

\* A row more moves the cash and the columns alike.
LEMMA FeesGoOn ==
  ASSUME NEW rows, RowsOk(rows), NEW r \in WindowRowSet, Balanced(r),
         NEW more, more = Append(rows, r), RowsOk(more), FeesOk(rows)
  PROVE  FeesOk(more)
<1>. PICK n, f, f2, ks : /\ n = Len(rows) /\ f = FirstHeld(rows) /\ f2 = FirstHeld(more)
                         /\ ks = HeldOut(rows)
  OBVIOUS
<1>1. /\ n \in Nat /\ Len(more) = n + 1 /\ ks \in SUBSET (1 .. n) /\ f \in 0 .. n
      /\ \/ HeldOut(more) = ks \cup {n + 1} /\ f2 = f
         \/ HeldOut(more) = {} /\ f2 = n + 1
  BY HeldOutGoesOn
<1>2. rows \in Seq(WindowRowSet) /\ more \in Seq(WindowRowSet)
  BY DEF RowsOk
<1>3. /\ \A k \in 0 .. n : AccountAt(more, k) = AccountAt(rows, k)
      /\ AccountAt(more, n + 1) = AfterRow(AccountAt(rows, n), r)
  BY <1>2, AccountsGoOn
<1>4. /\ \A k \in 0 .. n : AccountAt(rows, k) \in Accounts
      /\ \A k \in 0 .. n + 1 : AccountAt(more, k) \in Accounts
  BY <1>1 DEF RowsOk
<1>5. CASE HeldOut(more) = {} /\ f2 = n + 1
  <2>1. AccountAt(more, n + 1).cash \in Int
    BY <1>1, <1>4 DEF Accounts
  <2>. QED  BY <1>1, <1>5, <2>1, FeeSumNone DEF FeesOk
<1>6. CASE HeldOut(more) = ks \cup {n + 1} /\ f2 = f
  <2>1. PICK a, b : a = AccountAt(rows, n) /\ b = AccountAt(rows, f)
    OBVIOUS
  <2>2. a \in Accounts /\ b \in Accounts /\ a.cash \in Int /\ b.cash \in Int
    BY <1>1, <1>4, <2>1 DEF Accounts
  <2>3. AccountAt(more, n + 1) = AfterRow(a, r) /\ AccountAt(more, f) = b
    BY <1>1, <1>3, <2>1
  <2>4. PICK paid, went, fee, refusal :
          /\ paid = FeeSum(rows, "paid", ks) /\ went = FeeSum(rows, "sent", ks)
          /\ fee = FeeSum(rows, "fee", ks) /\ refusal = FeeSum(rows, "refusal", ks)
    OBVIOUS
  <2>5. PICK paid2, went2, fee2, refusal2 :
          /\ paid2 = FeeSum(more, "paid", ks \cup {n + 1})
          /\ went2 = FeeSum(more, "sent", ks \cup {n + 1})
          /\ fee2 = FeeSum(more, "fee", ks \cup {n + 1})
          /\ refusal2 = FeeSum(more, "refusal", ks \cup {n + 1})
    OBVIOUS
  <2>6. \A column \in FeeColumns :
          /\ FeeSum(rows, column, ks) \in Int
          /\ FeeSum(more, column, ks \cup {n + 1})
               = FeeSum(rows, column, ks)
                 + (IF CountsIn(column, r) THEN FeeEntry(column, r) ELSE 0)
    <3>. SUFFICES ASSUME NEW column \in FeeColumns
         PROVE  /\ FeeSum(rows, column, ks) \in Int
                /\ FeeSum(more, column, ks \cup {n + 1})
                     = FeeSum(rows, column, ks)
                       + (IF CountsIn(column, r) THEN FeeEntry(column, r) ELSE 0)
      OBVIOUS
    <3>1. ks \in SUBSET (1 .. Len(rows))
      BY <1>1
    <3>2. /\ FeeSum(rows, column, ks) \in Int
          /\ FeeSum(Append(rows, r), column, ks \cup {Len(rows) + 1})
               = FeeSum(rows, column, ks)
                 + (IF CountsIn(column, r) THEN FeeEntry(column, r) ELSE 0)
      BY <1>2, <3>1, FeeSumNext
    <3>3. n = Len(rows) /\ more = Append(rows, r)
      OBVIOUS
    <3>. QED  BY <3>2, <3>3
  <2>7. paid \in Int /\ went \in Int /\ fee \in Int /\ refusal \in Int
    BY <2>4, <2>6 DEF FeeColumns
  <2>8. /\ paid2 = paid + (IF r.type = "fill" /\ r.side = "sell"
                           THEN r.filled + r.venue + r.network ELSE 0)
        /\ went2 = went + (IF r.type = "fill" /\ r.side = "buy" THEN r.filled - r.venue ELSE 0)
        /\ fee2 = fee + (IF r.type = "fill" THEN r.venue + r.network ELSE 0)
        /\ refusal2 = refusal + (IF r.type = "reject" THEN r.fees ELSE 0)
    BY <2>4, <2>5, <2>6 DEF FeeColumns, CountsIn, FeeEntry
  <2>9. a.cash - b.cash = paid - went - (fee + refusal)
    BY <2>1, <2>4 DEF FeesOk
  <2>10. PICK x, y, z, u, v, w : /\ x = a.cash /\ y = b.cash /\ z = AfterRow(a, r).cash
                                  /\ u = r.filled /\ v = r.venue /\ w = r.network
    OBVIOUS
  <2>11. x \in Int /\ y \in Int /\ x - y = paid - went - (fee + refusal)
    BY <2>2, <2>9, <2>10
  <2>12. z - y = paid2 - went2 - (fee2 + refusal2)
    <3>1. CASE r.type = "fill" /\ r.side = "buy"
      <4>1. u \in Int /\ v \in Int /\ w \in Int /\ r.delta = -(u + w) /\ z = x + r.delta
        BY <2>2, <2>10, <3>1, AfterRowIs, RowKinds DEF Balanced
      <4>2. paid2 = paid /\ went2 = went + (u - v) /\ fee2 = fee + (v + w) /\ refusal2 = refusal
        BY <2>7, <2>8, <2>10, <3>1
      <4>3. z = x - (u + w)
        BY <2>11, <4>1
      <4>. QED  BY <2>7, <2>11, <4>1, <4>2, <4>3
    <3>2. CASE r.type = "fill" /\ r.side = "sell"
      <4>1. u \in Int /\ v \in Int /\ w \in Int /\ z = x + u
        BY <2>2, <2>10, <3>2, AfterRowIs, RowKinds DEF Balanced
      <4>2. paid2 = paid + (u + v + w) /\ went2 = went /\ fee2 = fee + (v + w) /\ refusal2 = refusal
        BY <2>7, <2>8, <2>10, <3>2
      <4>. QED  BY <2>7, <2>11, <4>1, <4>2
    <3>3. CASE r.type = "mark"
      <4>1. z = x
        BY <2>2, <2>10, <3>3, AfterRowIs
      <4>2. paid2 = paid /\ went2 = went /\ fee2 = fee /\ refusal2 = refusal
        BY <2>7, <2>8, <3>3
      <4>. QED  BY <2>11, <4>1, <4>2
    <3>4. CASE r.type = "reject"
      <4>1. PICK fees : fees = r.fees
        OBVIOUS
      <4>2. fees \in Int /\ z = x - fees
        BY <2>2, <2>10, <3>4, <4>1, AfterRowIs, RowKinds
      <4>3. paid2 = paid /\ went2 = went /\ fee2 = fee /\ refusal2 = refusal + fees
        BY <2>7, <2>8, <3>4, <4>1
      <4>. QED  BY <2>7, <2>11, <4>2, <4>3
    <3>. QED  BY <3>1, <3>2, <3>3, <3>4, RowKinds
  <2>. QED  BY <1>1, <1>6, <2>1, <2>3, <2>5, <2>10, <2>12 DEF FeesOk
<1>. QED  BY <1>1, <1>5, <1>6

-----------------------------------------------------------------------------
(* Window figures: the path of the window *)

Path(rows) == [k \in 0 .. Len(rows) |-> EquityOf(AccountAt(rows, k))]
PointsOf(rows) ==
  [i \in 1 .. Len(rows) - FirstHeld(rows) |-> Path(rows)[FirstHeld(rows) + i]]
FallsOf(rows) ==
  FallsFrom([peak |-> Path(rows)[FirstHeld(rows)], fall |-> <<0, 1>>], PointsOf(rows))

\* The fold's peak and fall are those of the path, while nothing falls to zero.
FallsOk(rows) ==
  (\A k \in FirstHeld(rows) .. Len(rows) : Path(rows)[k] > 0)
    => FallOk(Path(rows), FirstHeld(rows), Len(rows), FallsOf(rows))

\* Equity is a whole number.
LEMMA EquityInt == ASSUME NEW a \in Accounts PROVE EquityOf(a) \in Int
<1>1. a.cash \in Int /\ a.cost \in Int /\ a.mark \in Int
  BY DEF Accounts
<1>. QED  BY <1>1 DEF EquityOf

\* What is known of a path depends on its points alone.
LEMMA FallOfEqual ==
  ASSUME NEW P, NEW Q, NEW lo, NEW hi, NEW pf, \A i \in lo .. hi : P[i] = Q[i],
         FallOk(P, lo, hi, pf)
  PROVE  FallOk(Q, lo, hi, pf)
<1>1. \A i \in lo .. hi : Q[i] <= pf.peak
  BY DEF FallOk
<1>2. \E i \in lo .. hi : Q[i] = pf.peak
  BY DEF FallOk
<1>3. \A i, j \in lo .. hi : i < j => (Q[i] - Q[j]) * pf.fall[2] <= pf.fall[1] * Q[i]
  BY DEF FallOk
<1>4. pf.fall[1] > 0 => \E i, j \in lo .. hi :
        i < j /\ pf.fall[1] * Q[i] <= (Q[i] - Q[j]) * pf.fall[2]
  BY DEF FallOk
<1>. QED  BY <1>1, <1>2, <1>3, <1>4 DEF FallOk

\* A row more is a point more of the path, or the point the window will start from.
LEMMA FallsGoOn ==
  ASSUME NEW rows, RowsOk(rows), NEW r \in WindowRowSet,
         NEW more, more = Append(rows, r), RowsOk(more), FallsOk(rows)
  PROVE  FallsOk(more)
<1>. PICK n, f, f2, P, Q : /\ n = Len(rows) /\ f = FirstHeld(rows) /\ f2 = FirstHeld(more)
                           /\ P = Path(rows) /\ Q = Path(more)
  OBVIOUS
<1>1. /\ n \in Nat /\ Len(more) = n + 1 /\ f \in 0 .. n /\ (f2 = f \/ f2 = n + 1)
  BY HeldOutGoesOn
<1>2. rows \in Seq(WindowRowSet) /\ more \in Seq(WindowRowSet)
  BY DEF RowsOk
<1>3. \A k \in 0 .. n : P[k] = Q[k]
  <2>1. \A k \in 0 .. n : AccountAt(more, k) = AccountAt(rows, k)
    BY <1>2, AccountsGoOn
  <2>2. \A k \in 0 .. n : k \in 0 .. n + 1
    BY <1>1
  <2>. QED  BY <1>1, <2>1, <2>2 DEF Path
<1>4. \A k \in 0 .. n + 1 : Q[k] \in Int
  <2>1. \A k \in 0 .. n + 1 : AccountAt(more, k) \in Accounts
    BY <1>1 DEF RowsOk
  <2>. QED  BY <1>1, <2>1, EquityInt DEF Path
<1>5. SUFFICES ASSUME \A k \in f2 .. n + 1 : Q[k] > 0
      PROVE  FallOk(Q, f2, n + 1, FallsOf(more))
  BY <1>1 DEF FallsOk
<1>6. CASE f2 = n + 1
  <2>1. 1 .. Len(more) - f2 = {}
    BY <1>1, <1>6
  <2>2. PointsOf(more) = <<>>
    BY <2>1 DEF PointsOf
  <2>3. PICK pf : pf = [peak |-> Q[n + 1], fall |-> <<0, 1>>]
    OBVIOUS
  <2>4. <<>> \in Seq(Int)
    OBVIOUS
  <2>5. FallsFrom(pf, <<>>) = pf
    BY <2>4, FallsNext
  <2>6. FallsOf(more) = pf
    BY <1>6, <2>2, <2>3, <2>5 DEF FallsOf
  <2>7. n + 1 \in Nat /\ n + 1 \in n + 1 .. n + 1 /\ n + 1 \in 0 .. n + 1
    BY <1>1
  <2>8. Q[n + 1] \in Nat \ {0}
    BY <1>4, <1>5, <1>6, <2>7
  <2>9. FallOk(Q, n + 1, n + 1, pf)
    BY <2>3, <2>7, <2>8, FallStarts
  <2>. QED  BY <1>6, <2>6, <2>9
<1>7. CASE f2 = f
  <2>1. n \in Int /\ f \in Nat /\ f <= n /\ n - f \in Nat /\ (n + 1) - f = (n - f) + 1
    BY <1>1
  <2>2. PICK w, v, x, d : /\ w = PointsOf(rows) /\ v = PointsOf(more) /\ x = Q[n + 1]
                          /\ d = n - f
    OBVIOUS
  <2>3. d \in Nat /\ (n + 1) - f = d + 1 /\ f + (d + 1) = n + 1
    BY <2>1, <2>2
  <2>4. w = [i \in 1 .. d |-> P[f + i]] /\ v = [i \in 1 .. d + 1 |-> Q[f + i]]
    BY <1>1, <1>7, <2>2, <2>3 DEF PointsOf
  <2>5. \A i \in 1 .. d + 1 : f + i \in 0 .. n + 1
    <3>. SUFFICES ASSUME NEW i \in 1 .. d + 1 PROVE f + i \in 0 .. n + 1
      OBVIOUS
    <3>1. i \in Int /\ 1 <= i /\ i <= d + 1
      BY <2>3
    <3>. QED  BY <2>1, <2>2, <3>1
  <2>6. \A i \in 1 .. d : f + i \in 0 .. n
    BY <2>1, <2>2
  <2>7. /\ w \in Seq(Int) /\ Len(w) = d /\ v \in Seq(Int) /\ Len(v) = d + 1
    BY <1>3, <1>4, <2>3, <2>4, <2>5, <2>6
  <2>8. v = Append(w, x)
    <3>1. PICK a : a = Append(w, x)
      OBVIOUS
    <3>2. x \in Int
      BY <1>4, <2>2, <1>1
    <3>3. /\ a \in Seq(Int) /\ Len(a) = d + 1 /\ a[d + 1] = x
          /\ \A i \in 1 .. d : a[i] = w[i]
      BY <2>3, <2>7, <3>1, <3>2
    <3>4. v[d + 1] = x
      BY <2>2, <2>3, <2>4
    <3>5. \A i \in 1 .. d : v[i] = w[i]
      <4>1. \A i \in 1 .. d : i \in 1 .. d + 1
        BY <2>3
      <4>. QED  BY <1>3, <2>4, <2>6, <4>1
    <3>6. \A i \in 1 .. d + 1 : v[i] = a[i]
      <4>1. \A i \in 1 .. d + 1 : i \in 1 .. d \/ i = d + 1
        BY <2>3
      <4>. QED  BY <3>3, <3>4, <3>5, <4>1
    <3>7. v = a
      BY <2>3, <2>7, <3>3, <3>6, SeqEqual
    <3>. QED  BY <3>1, <3>7
  <2>9. P[f] = Q[f] /\ f \in 0 .. n
    BY <1>1, <1>3
  <2>10. PICK base : base = [peak |-> Q[f], fall |-> <<0, 1>>]
    OBVIOUS
  <2>11. FallsFrom(base, v) = PeakFall(FallsFrom(base, w), x)
    BY <2>7, <2>8, FallsNext
  <2>12. FallsOf(rows) = FallsFrom(base, w) /\ FallsOf(more) = FallsFrom(base, v)
    BY <1>7, <2>2, <2>9, <2>10 DEF FallsOf
  <2>13. \A k \in f .. n + 1 : Q[k] \in Nat \ {0}
    <3>1. \A k \in f .. n + 1 : k \in 0 .. n + 1
      BY <2>1
    <3>. QED  BY <1>4, <1>5, <1>7, <3>1
  <2>14. \A k \in f .. n : Q[k] = P[k] /\ k \in f .. n + 1
    <3>1. \A k \in f .. n : k \in 0 .. n /\ k \in f .. n + 1
      BY <2>1
    <3>. QED  BY <1>3, <3>1
  <2>15. \A k \in f .. n : P[k] > 0
    BY <2>13, <2>14
  <2>16. FallOk(P, f, n, FallsOf(rows))
    BY <2>15 DEF FallsOk
  <2>17. FallOk(Q, f, n, FallsOf(rows))
    BY <2>14, <2>16, FallOfEqual
  <2>18. PICK pf : pf = FallsOf(rows)
    OBVIOUS
  <2>19. FallOk(Q, f, n + 1, PeakFall(pf, Q[n + 1]))
    BY <1>1, <2>1, <2>13, <2>17, <2>18, FallGoesOn
  <2>. QED  BY <1>7, <2>2, <2>11, <2>12, <2>18, <2>19
<1>. QED  BY <1>1, <1>6, <1>7

-----------------------------------------------------------------------------
(* Window figures: the steps *)

\* The rows, the instant they are stamped with, and both figures over them.
FiguresInv ==
  /\ RowsOk(windowRows) /\ stampNow \in Nat
  /\ \A k \in DOMAIN windowRows : windowRows[k].stamp <= stampNow
  /\ FeesOk(windowRows) /\ FallsOk(windowRows)

\* A row stamped now joins rows in order.
LEMMA RowLogged ==
  ASSUME NEW rows, RowsOk(rows), NEW moment \in Nat, \A k \in DOMAIN rows : rows[k].stamp <= moment,
         NEW r \in WindowRowSet, Balanced(r), r.stamp = moment, NEW more, more = Append(rows, r)
  PROVE  RowsOk(more) /\ \A k \in DOMAIN more : more[k].stamp <= moment
<1>. PICK n : n = Len(rows)
  OBVIOUS
<1>1. /\ rows \in Seq(WindowRowSet) /\ n \in Nat /\ DOMAIN rows = 1 .. n /\ DOMAIN more = 1 .. n + 1
      /\ more \in Seq(WindowRowSet) /\ Len(more) = n + 1
      /\ more[n + 1] = r /\ \A i \in 1 .. n : more[i] = rows[i]
  BY DEF RowsOk
<1>2. \A k \in 1 .. n + 1 : k \in 1 .. n \/ k = n + 1
  BY <1>1
<1>3. \A k \in 1 .. n + 1 : more[k].stamp <= moment
  BY <1>1, <1>2
<1>4. \A k \in 1 .. n + 1 : Balanced(more[k])
  <2>1. \A k \in 1 .. n : Balanced(rows[k])
    BY <1>1 DEF RowsOk
  <2>. QED  BY <1>1, <1>2, <2>1
<1>5. \A i, j \in 1 .. n + 1 : i <= j => more[i].stamp <= more[j].stamp
  <2>. SUFFICES ASSUME NEW i \in 1 .. n + 1, NEW j \in 1 .. n + 1, i <= j
       PROVE  more[i].stamp <= more[j].stamp
    OBVIOUS
  <2>1. CASE j = n + 1
    BY <1>1, <1>3, <2>1
  <2>2. CASE j \in 1 .. n
    <3>1. i \in 1 .. n
      BY <1>1, <2>2
    <3>2. rows[i].stamp <= rows[j].stamp
      BY <1>1, <2>2, <3>1 DEF RowsOk
    <3>. QED  BY <1>1, <2>2, <3>1, <3>2
  <2>. QED  BY <1>2, <2>1, <2>2
<1>6. \A k \in 0 .. n + 1 : AccountAt(more, k) \in Accounts
  <2>1. /\ \A k \in 0 .. n : AccountAt(more, k) = AccountAt(rows, k)
        /\ AccountAt(more, n + 1) = AfterRow(AccountAt(rows, n), r)
    BY <1>1, AccountsGoOn
  <2>2. \A k \in 0 .. n : AccountAt(rows, k) \in Accounts
    BY <1>1 DEF RowsOk
  <2>3. AccountAt(more, n + 1) \in Accounts
    BY <1>1, <2>1, <2>2, AfterRowIs
  <2>4. \A k \in 0 .. n + 1 : k \in 0 .. n \/ k = n + 1
    BY <1>1
  <2>. QED  BY <2>1, <2>2, <2>3, <2>4
<1>. QED  BY <1>1, <1>3, <1>4, <1>5, <1>6 DEF RowsOk

\* An empty ledger has no figures.
LEMMA FiguresStart == ASSUME FigureInit PROVE FiguresInv
<1>1. windowRows = <<>> /\ stampNow = 0
  BY DEF FigureInit
<1>. PICK rows : rows = windowRows
  OBVIOUS
<1>2. rows = <<>> /\ Len(rows) = 0 /\ DOMAIN rows = {} /\ rows \in Seq(WindowRowSet)
  BY <1>1
<1>3. Opening \in Nat \ {0}
  BY FigureAssumption DEF FigureAssumption
<1>4. \A k \in 0 .. 0 : k = 0
  OBVIOUS
<1>5. AccountAt(rows, 0) = Genesis
  BY <1>2, NoRowsYet
<1>6. Genesis \in Accounts /\ EquityOf(Genesis) = Opening /\ Genesis.cash = Opening
  BY <1>3 DEF Genesis, Accounts, EquityOf
<1>7. RowsOk(rows)
  BY <1>2, <1>4, <1>5, <1>6 DEF RowsOk
<1>8. HeldOut(rows) = {} /\ FirstHeld(rows) = 0
  BY <1>2 DEF HeldOut, FirstHeld
<1>9. FeesOk(rows)
  BY <1>2, <1>3, <1>5, <1>6, <1>8, FeeSumNone DEF FeesOk
<1>10. FallsOk(rows)
  <2>1. PointsOf(rows) = <<>>
    <3>1. 1 .. Len(rows) - FirstHeld(rows) = {}
      BY <1>2, <1>8
    <3>. QED  BY <3>1 DEF PointsOf
  <2>2. Path(rows)[0] = Opening
    BY <1>2, <1>5, <1>6 DEF Path
  <2>3. PICK P, pf : P = Path(rows) /\ pf = [peak |-> P[0], fall |-> <<0, 1>>]
    OBVIOUS
  <2>4. FallOk(P, 0, 0, pf)
    BY <1>3, <2>2, <2>3, FallStarts
  <2>5. FallsFrom(pf, <<>>) = pf
    <3>1. <<>> \in Seq(Int)
      OBVIOUS
    <3>. QED  BY <3>1, FallsNext
  <2>. QED  BY <1>2, <1>8, <2>1, <2>3, <2>4, <2>5 DEF FallsOk, FallsOf
<1>. QED  BY <1>1, <1>2, <1>7, <1>9, <1>10 DEF FiguresInv

\* The row each step writes.
LEMMA StepsLog ==
  ASSUME FiguresInv, FigureNext, windowRows' # windowRows
  PROVE  \E r \in WindowRowSet :
           Balanced(r) /\ r.stamp = stampNow /\ windowRows' = Append(windowRows, r)
           /\ stampNow' = stampNow
<1>1. /\ FeeBps \in Int /\ LandingCost \in Nat /\ BuySizes \subseteq Nat
      /\ Grosses \subseteq Nat /\ MarkedAt \subseteq Nat \ {0}
  BY FigureAssumption DEF FigureAssumption
<1>2. stampNow \in Nat
  BY DEF FiguresInv
<1>3. \A size \in Nat : VenueFee(size) \in Int
  <2>. SUFFICES ASSUME NEW size \in Nat PROVE VenueFee(size) \in Int
    OBVIOUS
  <2>1. PICK product : product = size * FeeBps
    OBVIOUS
  <2>2. product \in Int
    BY <1>1, <2>1
  <2>3. product \div 100 \in Int
    BY <2>2
  <2>. QED  BY <2>1, <2>3 DEF VenueFee
<1>4. ASSUME NEW size \in BuySizes, NEW fraction \in {50, 100}, BuyFills(size, fraction)
      PROVE  \E r \in WindowRowSet :
               Balanced(r) /\ r.stamp = stampNow /\ windowRows' = Append(windowRows, r)
               /\ stampNow' = stampNow
  <2>1. PICK r : r = BuyRowOf(size, fraction, stampNow)
    OBVIOUS
  <2>2. PICK fee, debit : fee = VenueFee(size) /\ debit = -BuyDebit(size)
    OBVIOUS
  <2>3. size \in Int /\ fee \in Int /\ debit \in Int /\ debit = -(size + LandingCost)
    BY <1>1, <1>3, <2>2 DEF BuyDebit
  <2>4. r = [type |-> "fill", side |-> "buy", filled |-> size, venue |-> fee,
             network |-> LandingCost, delta |-> debit, fraction |-> fraction, stamp |-> stampNow]
    BY <2>1, <2>2 DEF BuyRowOf
  <2>5. r \in WindowRowSet
    BY <1>1, <1>2, <2>3, <2>4 DEF WindowRowSet, FillRows
  <2>6. Balanced(r) /\ r.stamp = stampNow
    BY <2>3, <2>4 DEF Balanced
  <2>. QED  BY <1>4, <2>1, <2>5, <2>6 DEF BuyFills, Logs
<1>5. ASSUME NEW gross \in Grosses, SellFills(gross)
      PROVE  \E r \in WindowRowSet :
               Balanced(r) /\ r.stamp = stampNow /\ windowRows' = Append(windowRows, r)
               /\ stampNow' = stampNow
  <2>1. PICK r : r = SellRowOf(gross, stampNow)
    OBVIOUS
  <2>2. PICK fee, proceeds : fee = VenueFee(gross) /\ proceeds = SellProceeds(gross)
    OBVIOUS
  <2>3. gross \in Int /\ fee \in Int /\ proceeds \in Int
    BY <1>1, <1>3, <2>2 DEF SellProceeds
  <2>4. r = [type |-> "fill", side |-> "sell", filled |-> proceeds, venue |-> fee,
             network |-> LandingCost, delta |-> proceeds, fraction |-> 100, stamp |-> stampNow]
    BY <2>1, <2>2 DEF SellRowOf
  <2>5. r \in WindowRowSet
    BY <1>1, <1>2, <2>3, <2>4 DEF WindowRowSet, FillRows
  <2>6. Balanced(r) /\ r.stamp = stampNow
    BY <2>4 DEF Balanced
  <2>. QED  BY <1>5, <2>1, <2>5, <2>6 DEF SellFills, Logs
<1>6. ASSUME NEW value \in MarkedAt, Marks(value)
      PROVE  \E r \in WindowRowSet :
               Balanced(r) /\ r.stamp = stampNow /\ windowRows' = Append(windowRows, r)
               /\ stampNow' = stampNow
  <2>1. PICK r : r = [type |-> "mark", mark |-> value, stamp |-> stampNow]
    OBVIOUS
  <2>2. value \in Int
    BY <1>1
  <2>3. r \in WindowRowSet
    BY <1>2, <2>1, <2>2 DEF WindowRowSet, MarkedRows
  <2>4. Balanced(r) /\ r.stamp = stampNow
    BY <2>1 DEF Balanced
  <2>. QED  BY <1>6, <2>1, <2>3, <2>4 DEF Marks, Logs
<1>7. ASSUME NEW landed \in BOOLEAN, AttemptRefused(landed)
      PROVE  \E r \in WindowRowSet :
               Balanced(r) /\ r.stamp = stampNow /\ windowRows' = Append(windowRows, r)
               /\ stampNow' = stampNow
  <2>1. PICK fees : fees = IF landed THEN LandingCost ELSE 0
    OBVIOUS
  <2>2. PICK r : r = [type |-> "reject", fees |-> fees, stamp |-> stampNow]
    OBVIOUS
  <2>3. fees \in Int
    BY <1>1, <2>1
  <2>4. r \in WindowRowSet
    BY <1>2, <2>2, <2>3 DEF WindowRowSet, RefusalRows
  <2>5. Balanced(r) /\ r.stamp = stampNow
    BY <2>2 DEF Balanced
  <2>. QED  BY <1>7, <2>1, <2>2, <2>4, <2>5 DEF AttemptRefused, Logs
<1>8. ~StampPasses
  BY DEF StampPasses
<1>. QED  BY <1>4, <1>5, <1>6, <1>7, <1>8 DEF FigureNext

\* Every row keeps the figures in order.
LEMMA FiguresGoOn ==
  ASSUME FiguresInv, [FigureNext]_figureVars
  PROVE  FiguresInv'
<1>. PICK rows, more, moment : rows = windowRows /\ more = windowRows' /\ moment = stampNow
  OBVIOUS
<1>1. /\ RowsOk(rows) /\ moment \in Nat /\ \A k \in DOMAIN rows : rows[k].stamp <= moment
      /\ FeesOk(rows) /\ FallsOk(rows)
  BY DEF FiguresInv
<1>2. CASE more = rows
  <2>1. stampNow' \in Nat /\ moment <= stampNow'
    <3>1. stampNow' = stampNow \/ stampNow' = stampNow + 1
      BY Zenon DEF FigureNext, figureVars, BuyFills, SellFills, Marks, AttemptRefused, Logs,
                   StampPasses
    <3>. QED  BY <1>1, <3>1
  <2>2. \A k \in DOMAIN rows : rows[k].stamp \in Nat
    <3>1. \A k \in DOMAIN rows : rows[k] \in WindowRowSet
      BY <1>1 DEF RowsOk
    <3>. QED  BY <3>1, RowKinds
  <2>3. \A k \in DOMAIN rows : rows[k].stamp <= stampNow'
    <3>. SUFFICES ASSUME NEW k \in DOMAIN rows PROVE rows[k].stamp <= stampNow'
      OBVIOUS
    <3>1. PICK stamp : stamp = rows[k].stamp
      OBVIOUS
    <3>2. stamp \in Nat /\ stamp <= moment
      BY <1>1, <2>2, <3>1
    <3>. QED  BY <1>1, <2>1, <3>1, <3>2
  <2>. QED  BY <1>1, <1>2, <2>1, <2>3 DEF FiguresInv
<1>3. CASE more # rows
  <2>1. PICK r \in WindowRowSet :
          Balanced(r) /\ r.stamp = moment /\ more = Append(rows, r) /\ stampNow' = moment
    BY <1>3, StepsLog DEF figureVars
  <2>2. RowsOk(more) /\ \A k \in DOMAIN more : more[k].stamp <= moment
    BY <1>1, <2>1, RowLogged
  <2>3. FeesOk(more)
    BY <1>1, <2>1, <2>2, FeesGoOn
  <2>4. FallsOk(more)
    BY <1>1, <2>1, <2>2, FallsGoOn
  <2>. QED  BY <1>1, <2>1, <2>2, <2>3, <2>4 DEF FiguresInv
<1>. QED  BY <1>2, <1>3

-----------------------------------------------------------------------------
(* Window figures: what they promise *)

\* The sums the report takes are those of the columns.
LEMMA SumsAre ==
  ASSUME NEW column \in FeeColumns, NEW n \in Nat, NEW ks \in SUBSET (1 .. n),
         DOMAIN windowRows = 1 .. n, NEW F,
         F = [k \in Counted(windowRows, column, ks) |-> FeeEntry(column, windowRows[k])]
  PROVE  FeeFold!Total(F, Counted(windowRows, column, ks)) = FeeSum(windowRows, column, ks)
<1>. PICK T, G : T = Counted(windowRows, column, ks) /\ G = FeeEntries(windowRows, column)
  OBVIOUS
<1>1. T \in SUBSET ks /\ FeeFold!IsFiniteSet(T)
  BY CountedFinite
<1>2. \A k \in T : F[k] = G[k]
  BY <1>1 DEF FeeEntries
<1>3. FeeFold!Iterated(0, F, T) = FeeFold!Iterated(0, G, T)
  BY <1>1, <1>2, FigureFolds, FeeFold!IteratedOfEqual
<1>. QED  BY <1>3 DEF FeeSum, FeeFold!Total

\* The window and the path of the report are those of the rows.
LEMMA FigureWindowIs ==
  ASSUME FiguresInv
  PROVE  /\ HeldOutRows = HeldOut(windowRows) /\ FirstRow = FirstHeld(windowRows)
         /\ Len(windowRows) \in Nat /\ DOMAIN windowRows = 1 .. Len(windowRows)
         /\ FirstRow \in 0 .. Len(windowRows) /\ HeldOutRows \in SUBSET (1 .. Len(windowRows))
         /\ \A k : AccountAfter(k) = AccountAt(windowRows, k)
         /\ \A k \in 0 .. Len(windowRows) : PathAt(k) = Path(windowRows)[k] /\ PathAt(k) \in Int
         /\ Falls = FallsOf(windowRows)
<1>1. HeldOutRows = HeldOut(windowRows) /\ FirstRow = FirstHeld(windowRows)
  BY Zenon DEF HeldOutRows, HeldOut, FirstRow, FirstHeld
<1>2. windowRows \in Seq(WindowRowSet)
  BY DEF FiguresInv, RowsOk
<1>3. Len(windowRows) \in Nat /\ DOMAIN windowRows = 1 .. Len(windowRows)
  BY <1>2
<1>4. FirstRow \in 0 .. Len(windowRows)
  BY <1>1, <1>2, HeldOutIs DEF FiguresInv, RowsOk
<1>5. HeldOutRows \in SUBSET (1 .. Len(windowRows))
  BY <1>3 DEF HeldOutRows
<1>6. \A k : AccountAfter(k) = AccountAt(windowRows, k)
  BY Zenon DEF AccountAfter, AccountAt, CashOf
<1>7. \A k \in 0 .. Len(windowRows) : PathAt(k) = Path(windowRows)[k] /\ PathAt(k) \in Int
  <2>1. \A k \in 0 .. Len(windowRows) : AccountAt(windowRows, k) \in Accounts
    BY DEF FiguresInv, RowsOk
  <2>2. \A k : PathAt(k) = EquityOf(AccountAt(windowRows, k))
    BY <1>6 DEF PathAt
  <2>3. \A k \in 0 .. Len(windowRows) : EquityOf(AccountAt(windowRows, k)) \in Int
    BY <2>1, EquityInt
  <2>. QED  BY <2>2, <2>3 DEF Path
<1>8. Falls = FallsOf(windowRows)
  <2>. PICK n, f : n = Len(windowRows) /\ f = FirstRow
    OBVIOUS
  <2>1. n \in Nat /\ f \in 0 .. n
    BY <1>3, <1>4
  <2>2. OpeningEquity = Path(windowRows)[FirstHeld(windowRows)]
    BY <1>1, <1>4, <1>7 DEF OpeningEquity
  <2>3. \A i \in 1 .. n - f : f + i \in 0 .. n
    <3>. SUFFICES ASSUME NEW i \in 1 .. n - f PROVE f + i \in 0 .. n
      OBVIOUS
    <3>1. i \in Int /\ 1 <= i /\ i <= n - f
      BY <2>1
    <3>. QED  BY <2>1, <3>1
  <2>4. WindowPath = [i \in 1 .. n - f |-> PathAt(f + i)]
    BY DEF WindowPath
  <2>5. PointsOf(windowRows) = [i \in 1 .. n - f |-> Path(windowRows)[f + i]]
    BY <1>1 DEF PointsOf
  <2>6. WindowPath = PointsOf(windowRows)
    BY <1>7, <2>3, <2>4, <2>5
  <2>. QED  BY <2>2, <2>6 DEF Falls, FallsOf, FallsFrom
<1>. QED  BY <1>1, <1>3, <1>4, <1>5, <1>6, <1>7, <1>8

\* The sums the report takes, as folds.
LEMMA FeeSums ==
  ASSUME NEW T
  PROVE  /\ MapThenSumSet(LAMBDA k : windowRows[k].filled + windowRows[k].venue
                                       + windowRows[k].network, T)
              = FeeFold!Total([k \in T |-> windowRows[k].filled + windowRows[k].venue
                                             + windowRows[k].network], T)
         /\ MapThenSumSet(LAMBDA k : windowRows[k].filled - windowRows[k].venue, T)
              = FeeFold!Total([k \in T |-> windowRows[k].filled - windowRows[k].venue], T)
         /\ MapThenSumSet(LAMBDA k : windowRows[k].venue + windowRows[k].network, T)
              = FeeFold!Total([k \in T |-> windowRows[k].venue + windowRows[k].network], T)
         /\ MapThenSumSet(LAMBDA k : windowRows[k].fees, T)
              = FeeFold!Total([k \in T |-> windowRows[k].fees], T)
<1>1. MapThenSumSet(LAMBDA k : windowRows[k].filled + windowRows[k].venue + windowRows[k].network, T)
        = FeeFold!Total([k \in T |-> windowRows[k].filled + windowRows[k].venue
                                       + windowRows[k].network], T)
  BY DEF MapThenSumSet, MapThenFoldSet, FeeFold!Total, FeeFold!Iterated, FeeFold!IsIter, PlusFee,
         SomeRow
<1>2. MapThenSumSet(LAMBDA k : windowRows[k].filled - windowRows[k].venue, T)
        = FeeFold!Total([k \in T |-> windowRows[k].filled - windowRows[k].venue], T)
  BY DEF MapThenSumSet, MapThenFoldSet, FeeFold!Total, FeeFold!Iterated, FeeFold!IsIter, PlusFee,
         SomeRow
<1>3. MapThenSumSet(LAMBDA k : windowRows[k].venue + windowRows[k].network, T)
        = FeeFold!Total([k \in T |-> windowRows[k].venue + windowRows[k].network], T)
  BY DEF MapThenSumSet, MapThenFoldSet, FeeFold!Total, FeeFold!Iterated, FeeFold!IsIter, PlusFee,
         SomeRow
<1>4. MapThenSumSet(LAMBDA k : windowRows[k].fees, T)
        = FeeFold!Total([k \in T |-> windowRows[k].fees], T)
  BY DEF MapThenSumSet, MapThenFoldSet, FeeFold!Total, FeeFold!Iterated, FeeFold!IsIter, PlusFee,
         SomeRow
<1>. QED  BY <1>1, <1>2, <1>3, <1>4

\* The fees are those of the columns.
LEMMA FeesPromise == ASSUME FiguresInv PROVE FeesAccounted
<1>. PICK n, ks : n = Len(windowRows) /\ ks = HeldOutRows
  OBVIOUS
<1>1. /\ n \in Nat /\ DOMAIN windowRows = 1 .. n /\ ks \in SUBSET (1 .. n)
      /\ ks = HeldOut(windowRows)
  BY FigureWindowIs
<1>2. FeesOk(windowRows)
  BY DEF FiguresInv
<1>. DEFINE fills == FillsOf(ks)
            sold == {k \in fills : windowRows[k].side = "sell"}
            bought == {k \in fills : windowRows[k].side = "buy"}
            refused == RefusalsOf(ks)
            paidOf == [k \in sold |-> windowRows[k].filled + windowRows[k].venue
                                        + windowRows[k].network]
            sentOf == [k \in bought |-> windowRows[k].filled - windowRows[k].venue]
            feeOf == [k \in fills |-> windowRows[k].venue + windowRows[k].network]
            refusalOf == [k \in refused |-> windowRows[k].fees]
<1>3. /\ sold = Counted(windowRows, "paid", ks) /\ bought = Counted(windowRows, "sent", ks)
      /\ fills = Counted(windowRows, "fee", ks) /\ refused = Counted(windowRows, "refusal", ks)
  BY DEF FillsOf, RefusalsOf, Counted, CountsIn
<1>4. FeeFold!Total(paidOf, sold) = FeeSum(windowRows, "paid", ks)
  <2>1. paidOf = [k \in Counted(windowRows, "paid", ks) |-> FeeEntry("paid", windowRows[k])]
    BY <1>3 DEF FeeEntry
  <2>2. "paid" \in FeeColumns
    BY DEF FeeColumns
  <2>. HIDE DEF paidOf, sold
  <2>. QED  BY <1>1, <1>3, <2>1, <2>2, SumsAre
<1>5. FeeFold!Total(sentOf, bought) = FeeSum(windowRows, "sent", ks)
  <2>1. sentOf = [k \in Counted(windowRows, "sent", ks) |-> FeeEntry("sent", windowRows[k])]
    BY <1>3 DEF FeeEntry
  <2>2. "sent" \in FeeColumns
    BY DEF FeeColumns
  <2>. HIDE DEF sentOf, bought
  <2>. QED  BY <1>1, <1>3, <2>1, <2>2, SumsAre
<1>6. FeeFold!Total(feeOf, fills) = FeeSum(windowRows, "fee", ks)
  <2>1. feeOf = [k \in Counted(windowRows, "fee", ks) |-> FeeEntry("fee", windowRows[k])]
    BY <1>3 DEF FeeEntry
  <2>2. "fee" \in FeeColumns
    BY DEF FeeColumns
  <2>. HIDE DEF feeOf, fills
  <2>. QED  BY <1>1, <1>3, <2>1, <2>2, SumsAre
<1>7. FeeFold!Total(refusalOf, refused) = FeeSum(windowRows, "refusal", ks)
  <2>1. refusalOf = [k \in Counted(windowRows, "refusal", ks) |-> FeeEntry("refusal", windowRows[k])]
    BY <1>3 DEF FeeEntry
  <2>2. "refusal" \in FeeColumns
    BY DEF FeeColumns
  <2>. HIDE DEF refusalOf, refused
  <2>. QED  BY <1>1, <1>3, <2>1, <2>2, SumsAre
<1>8. /\ MapThenSumSet(LAMBDA k : windowRows[k].filled + windowRows[k].venue + windowRows[k].network,
                       sold) = FeeFold!Total(paidOf, sold)
      /\ MapThenSumSet(LAMBDA k : windowRows[k].filled - windowRows[k].venue, bought)
           = FeeFold!Total(sentOf, bought)
      /\ MapThenSumSet(LAMBDA k : windowRows[k].venue + windowRows[k].network, fills)
           = FeeFold!Total(feeOf, fills)
      /\ MapThenSumSet(LAMBDA k : windowRows[k].fees, refused) = FeeFold!Total(refusalOf, refused)
  <2>. HIDE DEF fills, sold, bought, refused
  <2>. QED  BY FeeSums
<1>12. /\ Account.cash = AccountAt(windowRows, n).cash
       /\ AccountAfter(FirstRow).cash = AccountAt(windowRows, FirstHeld(windowRows)).cash
  BY FigureWindowIs DEF Account
<1>13. FeesTotal(ks) = FeeSum(windowRows, "fee", ks) + FeeSum(windowRows, "refusal", ks)
  BY <1>6, <1>7, <1>8 DEF FeesTotal, RejectionFees
<1>. HIDE DEF fills, sold, bought, refused, paidOf, sentOf, feeOf, refusalOf
<1>14. Account.cash - AccountAfter(FirstRow).cash
         = FeeSum(windowRows, "paid", ks) - FeeSum(windowRows, "sent", ks) - FeesTotal(ks)
  BY <1>1, <1>2, <1>12, <1>13 DEF FeesOk
<1>15. FeesAccounted <=>
         (Account.cash - AccountAfter(FirstRow).cash
            = MapThenSumSet(LAMBDA k : windowRows[k].filled + windowRows[k].venue
                                         + windowRows[k].network, sold)
              - MapThenSumSet(LAMBDA k : windowRows[k].filled - windowRows[k].venue, bought)
              - FeesTotal(ks))
  BY DEF FeesAccounted, fills, sold, bought
<1>. QED  BY <1>4, <1>5, <1>8, <1>14, <1>15

\* The drawdown is the fall of the path.
LEMMA DrawdownPromise == ASSUME FiguresInv PROVE DrawdownIsDeepest
<1>. PICK n, f, P : n = Len(windowRows) /\ f = FirstRow /\ P = Path(windowRows)
  OBVIOUS
<1>1. /\ n \in Nat /\ f \in 0 .. n /\ f = FirstHeld(windowRows) /\ Falls = FallsOf(windowRows)
      /\ \A k \in 0 .. n : PathAt(k) = P[k] /\ PathAt(k) \in Int
  BY FigureWindowIs
<1>2. \A k \in f .. n : k \in 0 .. n
  BY <1>1
<1>3. f \in Nat /\ f <= n /\ f \in f .. n /\ n \in f .. n
  BY <1>1
<1>4. SUFFICES ASSUME \A i \in f .. n : PathAt(i) > 0
      PROVE  /\ \A i, j \in f .. n : i < j => ~MoreThan(<<PathAt(i) - PathAt(j), PathAt(i)>>, MaxDrawdown)
             /\ MaxDrawdown[1] > 0 => \E i, j \in f .. n :
                  i < j /\ ~MoreThan(MaxDrawdown, <<PathAt(i) - PathAt(j), PathAt(i)>>)
             /\ ~MoreThan(<<-TotalReturn[1], TotalReturn[2]>>, MaxDrawdown)
  BY DEF DrawdownIsDeepest
<1>5. \A i \in f .. n : P[i] > 0 /\ P[i] \in Int /\ PathAt(i) = P[i]
  BY <1>1, <1>2, <1>4
<1>. PICK a, b : a = MaxDrawdown[1] /\ b = MaxDrawdown[2]
  OBVIOUS
<1>6. FallOk(P, f, n, Falls)
  BY <1>1, <1>5 DEF FiguresInv, FallsOk
<1>7. /\ a \in Nat /\ b \in Nat \ {0}
      /\ \A i, j \in f .. n : i < j => (P[i] - P[j]) * b <= a * P[i]
      /\ a > 0 => \E i, j \in f .. n : i < j /\ a * P[i] <= (P[i] - P[j]) * b
  BY <1>6 DEF FallOk, MaxDrawdown
<1>8. ASSUME NEW i \in f .. n, NEW j \in f .. n
      PROVE  /\ (P[i] - P[j]) * b \in Int /\ a * P[i] \in Int
             /\ MoreThan(<<PathAt(i) - PathAt(j), PathAt(i)>>, MaxDrawdown)
                  <=> (P[i] - P[j]) * b > a * P[i]
             /\ MoreThan(MaxDrawdown, <<PathAt(i) - PathAt(j), PathAt(i)>>)
                  <=> a * P[i] > (P[i] - P[j]) * b
  <2>1. PICK x, y : x = P[i] /\ y = P[j] /\ x \in Int /\ y \in Int
    BY <1>5
  <2>2. (x - y) * b \in Int /\ a * x \in Int
    BY <1>7, <2>1
  <2>3. PICK p : p = <<PathAt(i) - PathAt(j), PathAt(i)>>
    OBVIOUS
  <2>4. p[1] = x - y /\ p[2] = x
    BY <1>5, <2>1, <2>3
  <2>5. (MoreThan(p, MaxDrawdown) <=> (x - y) * b > a * x) /\ (MoreThan(MaxDrawdown, p) <=> a * x > (x - y) * b)
    BY <2>4 DEF MoreThan
  <2>. QED  BY <2>1, <2>2, <2>3, <2>5
<1>9. \A i, j \in f .. n : i < j => ~MoreThan(<<PathAt(i) - PathAt(j), PathAt(i)>>, MaxDrawdown)
  <2>. SUFFICES ASSUME NEW i \in f .. n, NEW j \in f .. n, i < j
       PROVE  ~MoreThan(<<PathAt(i) - PathAt(j), PathAt(i)>>, MaxDrawdown)
    OBVIOUS
  <2>1. PICK u, v : u = (P[i] - P[j]) * b /\ v = a * P[i]
    OBVIOUS
  <2>2. u \in Int /\ v \in Int /\ u <= v
    BY <1>7, <1>8, <2>1
  <2>3. ~(u > v)
    BY <2>2
  <2>. QED  BY <1>8, <2>1, <2>3
<1>10. ASSUME MaxDrawdown[1] > 0
       PROVE  \E i, j \in f .. n :
                i < j /\ ~MoreThan(MaxDrawdown, <<PathAt(i) - PathAt(j), PathAt(i)>>)
  <2>1. PICK i \in f .. n, j \in f .. n : i < j /\ a * P[i] <= (P[i] - P[j]) * b
    BY <1>7, <1>10
  <2>2. PICK u, v : u = a * P[i] /\ v = (P[i] - P[j]) * b
    OBVIOUS
  <2>3. u \in Int /\ v \in Int /\ u <= v
    BY <1>8, <2>1, <2>2
  <2>4. ~(u > v)
    BY <2>3
  <2>5. ~MoreThan(MaxDrawdown, <<PathAt(i) - PathAt(j), PathAt(i)>>)
    BY <1>8, <2>2, <2>4
  <2>. QED  BY <2>1, <2>5
\* The return from the first point to the last is one of those falls.
<1>11. ~MoreThan(<<-TotalReturn[1], TotalReturn[2]>>, MaxDrawdown)
  <2>1. PICK x, y : x = P[f] /\ y = P[n] /\ x \in Int /\ y \in Int /\ x > 0
    BY <1>3, <1>5
  <2>2. OpeningEquity = x /\ PathAt(n) = y
    BY <1>3, <1>5, <2>1 DEF OpeningEquity
  <2>3. TotalReturn = <<y - x, x>>
    BY <2>1, <2>2 DEF TotalReturn
  <2>4. PICK p : p = <<-TotalReturn[1], TotalReturn[2]>>
    OBVIOUS
  <2>5. p[1] = x - y /\ p[2] = x
    BY <2>1, <2>3, <2>4
  <2>6. MoreThan(p, MaxDrawdown) <=> (x - y) * b > a * x
    BY <2>5 DEF MoreThan
  <2>7. (x - y) * b <= a * x
    <3>1. CASE f = n
      <4>1. x - y = 0
        BY <2>1, <3>1
      <4>2. (x - y) * b = 0
        BY <1>7, <4>1
      <4>3. a * x \in Nat
        BY <1>7, <2>1
      <4>. QED  BY <4>2, <4>3
    <3>2. CASE f # n
      <4>1. f < n
        BY <1>1, <1>3, <3>2
      <4>2. (P[f] - P[n]) * b <= a * P[f]
        BY <1>3, <1>7, <4>1
      <4>. QED  BY <2>1, <4>2
    <3>. QED  BY <3>1, <3>2
  <2>8. (x - y) * b \in Int /\ a * x \in Int
    BY <1>7, <2>1
  <2>9. ~((x - y) * b > a * x)
    BY <2>7, <2>8
  <2>. QED  BY <2>4, <2>6, <2>9
<1>. QED  BY <1>9, <1>10, <1>11

\* The window ends past its last row, so the paper rows are those held out.
LEMMA RoutesPromise == ASSUME FiguresInv PROVE RoutesAgree
<1>1. SUFFICES ASSUME HeldOutRows # {}
      PROVE  Matched(Details(FillsOf(HeldOutRows)), Details(FillsOf(PaperRowsIn)))
  BY DEF RoutesAgree
<1>. PICK n, S : n = Len(windowRows) /\ S = {windowRows[k].stamp : k \in HeldOutRows}
  OBVIOUS
<1>2. n \in Nat /\ DOMAIN windowRows = 1 .. n /\ HeldOutRows \in SUBSET (1 .. n)
  BY FigureWindowIs
<1>3. \A k \in 1 .. n : windowRows[k].stamp \in Nat
  <2>1. \A k \in 1 .. n : windowRows[k] \in WindowRowSet
    BY <1>2 DEF FiguresInv, RowsOk
  <2>. QED  BY <2>1, RowKinds
<1>4. IsFiniteSet(S) /\ S \in SUBSET Nat /\ S # {}
  <2>1. IsFiniteSet(1 .. n)
    BY <1>2, FS_Interval
  <2>2. IsFiniteSet(HeldOutRows)
    BY <1>2, <2>1, FS_Subset
  <2>3. IsFiniteSet(S)
    <3>1. PICK g : g = [k \in HeldOutRows |-> windowRows[k].stamp]
      OBVIOUS
    <3>2. g \in Surjection(HeldOutRows, S)
      BY <3>1 DEF Surjection
    <3>. QED  BY <2>2, <3>2, FS_Surjection
  <2>. QED  BY <1>1, <1>2, <1>3, <2>3
<1>5. ClosingStamp = Max(S)
  BY DEF ClosingStamp
<1>6. ClosingStamp \in Nat /\ \A s \in S : s <= ClosingStamp
  BY <1>4, <1>5, EndsAre
<1>7. \A k \in HeldOutRows : windowRows[k].stamp < WindowEnd(ClosingStamp)
  <2>. SUFFICES ASSUME NEW k \in HeldOutRows
       PROVE  windowRows[k].stamp < WindowEnd(ClosingStamp)
    OBVIOUS
  <2>1. windowRows[k].stamp \in S /\ windowRows[k].stamp \in Nat
    BY <1>2, <1>3
  <2>2. PICK stamp, last : stamp = windowRows[k].stamp /\ last = ClosingStamp
    OBVIOUS
  <2>3. stamp \in Nat /\ last \in Nat /\ stamp <= last
    BY <1>6, <2>1, <2>2
  <2>4. stamp < last + 1
    BY <2>3
  <2>. QED  BY <2>2, <2>4 DEF WindowEnd
<1>8. CutAt \in Nat
  BY FigureAssumption DEF FigureAssumption
<1>9. PaperRowsIn = HeldOutRows
  BY <1>2, <1>3, <1>7, <1>8 DEF PaperRowsIn, HeldOutRows, InPaperWindow
<1>. QED  BY <1>9 DEF Matched

\* Fees, drawdown and fills together.
LEMMA FiguresPromise == ASSUME FiguresInv PROVE FiguresSound
BY FeesPromise, DrawdownPromise, RoutesPromise DEF FiguresSound

\* Fees, drawdown and fill details of a window add up, whatever the rows: what
\* the account loses and did not put into the curve is a fee named once
\* (backtest/equity.py, report.py), the drawdown is the deepest fall of the path
\* (metrics.py), and the two ways to the fills agree (results.py).
THEOREM FiguresAreSound == FigureSpec => []FiguresSound
<1>1. FigureInit => FiguresInv
  BY FiguresStart
<1>2. FiguresInv /\ [FigureNext]_figureVars => FiguresInv'
  BY FiguresGoOn
<1>3. FiguresInv => FiguresSound
  BY FiguresPromise
<1>. QED  BY <1>1, <1>2, <1>3, PTL DEF FigureSpec

-----------------------------------------------------------------------------
(* Halts *)

HaltReasons == {"daily_loss", "drawdown", "manual"}
HaltRowSet ==
  [type : {"set"}, reason : HaltReasons, day : Nat, base : {0}]
    \cup [type : {"clear"}, reason : {""}, day : Nat, base : {0}]
    \cup [type : {"roll"}, reason : {""}, day : Nat, base : Nat]
Breaches == {"none", "daily_loss", "drawdown"}
Looks == [breach : Breaches, day : Nat, spared : BOOLEAN]

CheckRecs ==
  [at : {"idle", "loss", "refold", "draw"}, buy : BOOLEAN, first : Looks, last : Looks]

HaltTypes ==
  /\ haltRows \in Seq(HaltRowSet)
  /\ equity \in Nat /\ equityMoves \in Nat /\ haltDay \in Nat
  /\ checks \in [Checkers -> CheckRecs]
  /\ clears \in [Clearers -> [at : {"home", "asked", "done"}, day : Nat]]
  /\ admitted \in [first : Looks, last : Looks]

\* A clear in the ledger is a person's, and so is one that spares a look.
ClearedOn(day) == \E h \in Clearers : clears[h] = [at |-> "done", day |-> day]
ClearsKnown == \A i \in DOMAIN haltRows : haltRows[i].type = "clear" => ClearedOn(haltRows[i].day)
SparedKnown(r) == r.spared => ClearedOn(r.day)

\* A buy that goes on to the second fold was not past the day's loss, or a person
\* excused it; a drawdown its first look saw is in the ledger.
GoneOn(r) ==
  /\ r.breach = "daily_loss" => ClearedOn(r.day)
  /\ r.breach = "drawdown" => ClearedOn(r.day) \/ IsRecorded(r.breach, r.day)
CheckInv(c) ==
  /\ SparedKnown(checks[c].first) /\ SparedKnown(checks[c].last)
  /\ checks[c].at \in {"refold", "draw"} => GoneOn(checks[c].first)

HaltInv ==
  /\ HaltTypes /\ ClearsKnown /\ \A c \in Checkers : CheckInv(c)
  /\ BreachStops /\ OneHaltADay /\ StatusIsEnforced

\* The two readers of the rows.
TakeHalt(row, view) == OnHaltRow(view, row)
HaltFold == INSTANCE FoldFacts WITH Op <- TakeHalt, Choose <- Max
NoHalt == [active |-> FALSE, reason |-> ""]
ViewOf(rows) == FoldLeft(OnHaltRow, NoHalt, rows)
Deciding(rows) == {i \in 1 .. Len(rows) : rows[i].type \in {"set", "clear"}}
StatusOf(rows) ==
  LET i == IF Deciding(rows) # {} THEN Max(Deciding(rows)) ELSE 0
  IN  [active |-> i # 0 /\ rows[i].type = "set",
       reason |-> IF i # 0 THEN rows[i].reason ELSE ""]

LEMMA ReadersAre == HaltView = ViewOf(haltRows) /\ HaltStatus = StatusOf(haltRows)
<1>1. HaltView = ViewOf(haltRows)
  BY DEF HaltView, ViewOf, NoHalt
<1>2. HaltStatus = StatusOf(haltRows)
  BY DEF HaltStatus, StatusOf, SelectLastInSeq, Deciding
<1>. QED  BY <1>1, <1>2


LEMMA MaxChoosesRow == HaltFold!TakesLast /\ \A n \in Nat : HaltFold!Chooses(1 .. n)
<1>1. HaltFold!TakesLast
  <2>. SUFFICES ASSUME NEW n \in Nat \ {0} PROVE Max(1 .. n) = n
    BY DEF HaltFold!TakesLast
  <2>1. n \in Nat /\ 1 .. n \in SUBSET (1 .. n) /\ n \in 1 .. n
    OBVIOUS
  <2>. QED  BY <2>1, MaxUpTo
<1>2. ASSUME NEW n \in Nat PROVE HaltFold!Chooses(1 .. n)
  <2>. SUFFICES ASSUME NEW S \in SUBSET (1 .. n), S # {} PROVE Max(S) \in S
    BY DEF HaltFold!Chooses
  <2>1. IsFiniteSet(1 .. n) /\ 1 .. n \in SUBSET Int
    BY FS_Interval
  <2>2. IsFiniteSet(S) /\ S \in SUBSET Int
    BY <2>1, FS_Subset
  <2>3. \E x \in S : \A y \in S : y <= x
    BY <2>2, Greatest
  <2>4. \E x \in S : \A y \in S : x >= y
    BY <2>2, <2>3
  <2>. QED  BY <2>4 DEF Max
<1>. QED  BY <1>1, <1>2

LEMMA HaltFoldIs ==
  ASSUME NEW rows
  PROVE  ViewOf(rows) = HaltFold!Iterated(NoHalt, rows, DOMAIN rows)
BY DEF ViewOf, FoldLeft, MapThenFoldSet, HaltFold!Iterated, HaltFold!IsIter, TakeHalt

LEMMA ViewNext ==
  ASSUME NEW rows \in Seq(HaltRowSet), NEW row
  PROVE  ViewOf(Append(rows, row)) = OnHaltRow(ViewOf(rows), row)
<1>. DEFINE n == Len(rows)
            more == Append(rows, row)
<1>1. /\ n \in Nat /\ DOMAIN rows = 1 .. n /\ DOMAIN more = 1 .. n + 1
      /\ more[n + 1] = row /\ \A i \in 1 .. n : more[i] = rows[i]
  OBVIOUS
<1>. HIDE DEF n, more
<1>2. HaltFold!Chooses(1 .. n + 1) /\ HaltFold!Chooses(1 .. n) /\ HaltFold!TakesLast
  BY <1>1, MaxChoosesRow
<1>3. HaltFold!IsFiniteSet(1 .. n)
  <2>1. IsFiniteSet(1 .. n)
    BY <1>1, FS_Interval
  <2>. QED  BY <2>1 DEF IsFiniteSet, HaltFold!IsFiniteSet
<1>4. HaltFold!Iterated(NoHalt, more, 1 .. n + 1)
        = TakeHalt(more[n + 1], HaltFold!Iterated(NoHalt, more, 1 .. n))
  BY <1>1, <1>2, HaltFold!IteratedNext
<1>5. HaltFold!Iterated(NoHalt, more, 1 .. n) = HaltFold!Iterated(NoHalt, rows, 1 .. n)
  BY <1>1, <1>2, <1>3, HaltFold!IteratedOfEqual
<1>6. /\ ViewOf(more) = HaltFold!Iterated(NoHalt, more, 1 .. n + 1)
      /\ ViewOf(rows) = HaltFold!Iterated(NoHalt, rows, 1 .. n)
  BY <1>1, HaltFoldIs
<1>. QED  BY <1>1, <1>4, <1>5, <1>6 DEF TakeHalt, more

LEMMA HaltRowIs ==
  ASSUME NEW row \in HaltRowSet
  PROVE  /\ row.type \in {"set", "clear", "roll"} /\ row.day \in Nat
         /\ row.type # "set" => row.reason = ""
BY DEF HaltRowSet

LEMMA StatusNext ==
  ASSUME NEW rows \in Seq(HaltRowSet), NEW row \in HaltRowSet, StatusOf(rows) = ViewOf(rows)
  PROVE  StatusOf(Append(rows, row)) = ViewOf(Append(rows, row))
<1>. DEFINE n == Len(rows)
            more == Append(rows, row)
<1>1. /\ n \in Nat /\ Len(more) = n + 1
      /\ more[n + 1] = row /\ \A i \in 1 .. n : more[i] = rows[i]
  OBVIOUS
<1>2. ViewOf(more) = OnHaltRow(ViewOf(rows), row)
  BY ViewNext
<1>. HIDE DEF n, more
<1>3. Deciding(rows) \in SUBSET (1 .. n) /\ Deciding(more) \in SUBSET (1 .. n + 1)
  BY <1>1 DEF Deciding, n
<1>4. CASE row.type \in {"set", "clear"}
  <2>1. n + 1 \in Deciding(more)
    BY <1>1, <1>4 DEF Deciding
  <2>2. Max(Deciding(more)) = n + 1 /\ n + 1 \in Nat /\ n + 1 # 0
    BY <1>1, <1>3, <2>1, MaxUpTo
  <2>3. StatusOf(more) = [active |-> row.type = "set", reason |-> row.reason]
    BY <1>1, <2>1, <2>2 DEF StatusOf
  <2>. QED  BY <1>2, <1>4, <2>3, HaltRowIs DEF OnHaltRow, more
<1>5. CASE row.type = "roll"
  <2>1. Deciding(more) = Deciding(rows)
    BY <1>1, <1>5 DEF Deciding, n
  <2>2. Deciding(rows) # {} => Max(Deciding(rows)) \in Deciding(rows)
    <3>1. HaltFold!Chooses(1 .. n)
      BY <1>1, MaxChoosesRow
    <3>. QED  BY <1>3, <3>1 DEF HaltFold!Chooses
  <2>3. StatusOf(more) = StatusOf(rows)
    BY <1>1, <1>3, <2>1, <2>2 DEF StatusOf
  <2>. QED  BY <1>2, <1>5, <2>3 DEF OnHaltRow, more
<1>. QED  BY <1>4, <1>5, HaltRowIs

\* What a step leaves of the rows' part of the invariant.
RecordsStand == \A reason, day : IsRecorded(reason, day) => IsRecorded(reason, day)'
RowsKept ==
  /\ haltRows' \in Seq(HaltRowSet) /\ ClearsKnown' /\ OneHaltADay' /\ StatusIsEnforced'
  /\ RecordsStand

LEMMA RowAppended ==
  ASSUME HaltInv, NEW row \in HaltRowSet, haltRows' = Append(haltRows, row),
         row.type = "set" => ~IsRecorded(row.reason, row.day),
         row.type = "clear" => ClearedOn(row.day)',
         \A day : ClearedOn(day) => ClearedOn(day)'
  PROVE  RowsKept
<1>. DEFINE n == Len(haltRows)
<1>1. haltRows \in Seq(HaltRowSet)
  BY DEF HaltInv, HaltTypes
<1>2. /\ n \in Nat /\ DOMAIN haltRows = 1 .. n /\ DOMAIN haltRows' = 1 .. n + 1
      /\ haltRows'[n + 1] = row /\ \A i \in 1 .. n : haltRows'[i] = haltRows[i]
      /\ haltRows' \in Seq(HaltRowSet)
  BY <1>1
<1>. HIDE DEF n
<1>3. \A i \in 1 .. n + 1 : i = n + 1 \/ i \in 1 .. n
  BY <1>2
<1>4. ClearsKnown'
  BY <1>2, <1>3 DEF HaltInv, ClearsKnown
<1>5. RecordsStand
  <2>1. \A i \in 1 .. n : i \in 1 .. n + 1
    BY <1>2
  <2>. QED  BY <1>2, <2>1 DEF RecordsStand, IsRecorded
<1>6. OneHaltADay'
  <2>. SUFFICES ASSUME NEW i \in 1 .. n + 1, NEW j \in 1 .. n + 1,
                       haltRows'[i].type = "set", haltRows'[i] = haltRows'[j]
                PROVE  i = j
    BY <1>2 DEF OneHaltADay
  <2>1. ASSUME NEW k \in 1 .. n, haltRows[k] = row, row.type = "set" PROVE FALSE
    BY <1>2, <2>1 DEF IsRecorded
  <2>2. CASE i \in 1 .. n /\ j \in 1 .. n
    BY <1>2, <2>2 DEF HaltInv, OneHaltADay
  <2>3. CASE i = n + 1 \/ j = n + 1
    BY <1>2, <1>3, <2>1, <2>3
  <2>. QED  BY <1>3, <2>2, <2>3
<1>7. StatusIsEnforced'
  <2>1. StatusOf(haltRows) = ViewOf(haltRows)
    BY ReadersAre DEF HaltInv, StatusIsEnforced
  <2>2. StatusOf(haltRows') = ViewOf(haltRows')
    BY <1>1, <2>1, StatusNext
  <2>3. HaltStatus' = StatusOf(haltRows')
    BY DEF HaltStatus, StatusOf, SelectLastInSeq, Deciding
  <2>4. HaltView' = ViewOf(haltRows')
    BY DEF HaltView, ViewOf, NoHalt
  <2>. QED  BY <2>2, <2>3, <2>4 DEF StatusIsEnforced
<1>. QED  BY <1>2, <1>4, <1>5, <1>6, <1>7 DEF RowsKept

LEMMA RowsAlone ==
  ASSUME HaltInv, haltRows' = haltRows, \A day : ClearedOn(day) => ClearedOn(day)'
  PROVE  RowsKept
<1>1. HaltView' = HaltView
  BY DEF HaltView
<1>2. HaltStatus' = HaltStatus
  BY DEF HaltStatus, SelectLastInSeq
<1>3. StatusIsEnforced'
  BY <1>1, <1>2 DEF HaltInv, StatusIsEnforced
<1>4. haltRows' \in Seq(HaltRowSet) /\ ClearsKnown' /\ OneHaltADay'
  BY DEF HaltInv, HaltTypes, ClearsKnown, OneHaltADay
<1>5. RecordsStand
  BY DEF RecordsStand, IsRecorded
<1>. QED  BY <1>3, <1>4, <1>5 DEF RowsKept

\* An append under a key of reason and day.
LEMMA HaltedOnce ==
  ASSUME HaltInv, NEW reason \in HaltReasons, NEW day \in Nat, Halted(reason, day),
         \A d : ClearedOn(d) => ClearedOn(d)'
  PROVE  RowsKept /\ IsRecorded(reason, day)'
<1>1. CASE IsRecorded(reason, day)
  <2>1. RowsKept
    BY <1>1, RowsAlone DEF Halted
  <2>. QED  BY <1>1, <2>1 DEF RowsKept, RecordsStand
<1>2. CASE ~IsRecorded(reason, day)
  <2>. DEFINE row == SetRow(reason, day)
  <2>1. row \in HaltRowSet /\ row.type = "set" /\ row.reason = reason /\ row.day = day
    BY DEF SetRow, HaltRowSet
  <2>2. haltRows' = Append(haltRows, row)
    BY <1>2 DEF Halted
  <2>. HIDE DEF row
  <2>3. RowsKept
    BY <1>2, <2>1, <2>2, RowAppended
  <2>4. /\ Len(haltRows) + 1 \in DOMAIN haltRows'
        /\ haltRows'[Len(haltRows) + 1] = row
    <3>1. haltRows \in Seq(HaltRowSet)
      BY DEF HaltInv, HaltTypes
    <3>. QED  BY <2>1, <2>2, <3>1
  <2>. QED  BY <2>1, <2>3, <2>4 DEF IsRecorded
<1>. QED  BY <1>1, <1>2

LEMMA DetectKeeps ==
  ASSUME HaltInv, NEW r \in Looks, Detect(r), \A d : ClearedOn(d) => ClearedOn(d)'
  PROVE  RowsKept /\ (Found(r) # "none" => IsRecorded(Found(r), r.day)')
<1>1. Found(r) \in Breaches /\ r.day \in Nat
  BY DEF Found, Looks, Breaches
<1>2. CASE Found(r) = "none"
  BY <1>2, RowsAlone DEF Detect
<1>3. CASE Found(r) # "none"
  <2>1. Found(r) \in HaltReasons /\ Halted(Found(r), r.day)
    BY <1>1, <1>3 DEF Detect, Breaches, HaltReasons
  <2>. QED  BY <1>1, <2>1, HaltedOnce
<1>. QED  BY <1>2, <1>3

\* A look is spared by a clear that is in the ledger.
LEMMA LookIs ==
  ASSUME HaltInv
  PROVE  Look \in Looks /\ SparedKnown(Look)
<1>1. Breach \in Breaches /\ haltDay \in Nat /\ ClearedToday(haltDay) \in BOOLEAN
  BY DEF Breach, Breaches, HaltInv, HaltTypes, ClearedToday
<1>2. ClearedToday(haltDay) => ClearedOn(haltDay)
  BY DEF HaltInv, ClearsKnown, ClearedToday
<1>. QED  BY <1>1, <1>2 DEF Look, Looks, SparedKnown

LEMMA UnreadIs == Unread \in Looks /\ SparedKnown(Unread) /\ Unread.breach = "none"
BY DEF Unread, Looks, Breaches, SparedKnown

\* A step that keeps the rows, leaves or excuses what was admitted, and moves at
\* most one check.
LEMMA HaltStepKeeps ==
  ASSUME HaltInv, RowsKept, HaltTypes', \A d : ClearedOn(d) => ClearedOn(d)',
         \A c \in Checkers : checks'[c] = checks[c] \/ CheckInv(c)',
         admitted' = admitted \/ BreachStops'
  PROVE  HaltInv'
<1>1. ASSUME NEW c \in Checkers PROVE CheckInv(c)'
  <2>1. CASE checks'[c] = checks[c]
    BY <2>1 DEF HaltInv, CheckInv, SparedKnown, GoneOn, RowsKept, RecordsStand
  <2>. QED  BY <2>1
<1>2. BreachStops'
  <2>1. CASE admitted' = admitted
    <3>1. BreachStops /\ RecordsStand
      BY DEF HaltInv, RowsKept
    <3>. QED  BY <2>1, <3>1 DEF BreachStops, ClearedOn, RecordsStand
  <2>. QED  BY <2>1
<1>. QED  BY <1>1, <1>2 DEF HaltInv, RowsKept

LEMMA ClearsAlone == clears' = clears => \A d : ClearedOn(d) => ClearedOn(d)'
BY DEF ClearedOn

LEMMA CheckIs ==
  ASSUME HaltInv, NEW c \in Checkers
  PROVE  /\ checks[c] \in CheckRecs
         /\ CheckInv(c)
BY DEF HaltInv, HaltTypes

LEMMA CheckMadeIs ==
  ASSUME NEW a \in {"idle", "loss", "refold", "draw"}, NEW b \in BOOLEAN, NEW f \in Looks, NEW l \in Looks
  PROVE  [at |-> a, buy |-> b, first |-> f, last |-> l] \in CheckRecs
BY DEF CheckRecs

LEMMA RollIs ==
  ASSUME NEW day \in Nat, NEW base \in Nat
  PROVE  RollRow(day, base) \in HaltRowSet /\ RollRow(day, base).type = "roll"
BY DEF RollRow, HaltRowSet

LEMMA CheckFields ==
  ASSUME NEW was \in CheckRecs
  PROVE  /\ was = [at |-> was.at, buy |-> was.buy, first |-> was.first, last |-> was.last]
         /\ was.buy \in BOOLEAN /\ was.first \in Looks /\ was.last \in Looks
BY DEF CheckRecs

LEMMA BeginCheckKeeps == ASSUME HaltInv, NEW c \in Checkers, BeginCheck(c) PROVE HaltInv'
<1>0. PICK look \in Looks : look = Look /\ SparedKnown(look)
  BY LookIs
<1>1. PICK buy \in BOOLEAN :
        checks' = [checks EXCEPT ![c] = [at |-> "loss", buy |-> buy, first |-> look, last |-> Unread]]
  BY <1>0 DEF BeginCheck
<1>. DEFINE now == [at |-> "loss", buy |-> buy, first |-> look, last |-> Unread]
<1>2. UNCHANGED <<haltRows, equity, equityMoves, haltDay, clears, admitted>>
  BY DEF BeginCheck
<1>3. now.at = "loss" /\ now.buy = buy /\ now.first = look /\ now.last = Unread
      /\ now = [at |-> "loss", buy |-> buy, first |-> look, last |-> Unread]
  OBVIOUS
<1>. HIDE DEF now
<1>4. now \in CheckRecs
  BY <1>0, <1>3, UnreadIs, CheckMadeIs
<1>5. checks' = [checks EXCEPT ![c] = now]
  BY <1>1 DEF now
<1>6. RowsKept /\ \A d : ClearedOn(d) => ClearedOn(d)'
  BY <1>2, RowsAlone, ClearsAlone
<1>7. HaltTypes'
  BY <1>2, <1>4, <1>5 DEF HaltInv, HaltTypes
<1>8. checks'[c] = now /\ \A d \in Checkers : d # c => checks'[d] = checks[d]
  BY <1>5 DEF HaltInv, HaltTypes
<1>9. CheckInv(c)'
  <2>1. SparedKnown(look) /\ ~Unread.spared
    BY <1>0 DEF Unread
  <2>. QED  BY <1>3, <1>6, <1>8, <2>1 DEF CheckInv, SparedKnown, Unread
<1>. QED  BY <1>2, <1>6, <1>7, <1>8, <1>9, HaltStepKeeps

LEMMA JudgeLossKeeps == ASSUME HaltInv, NEW c \in Checkers, JudgeLoss(c) PROVE HaltInv'
<1>0. PICK was \in CheckRecs : was = checks[c] /\ CheckInv(c)
  BY CheckIs
<1>. DEFINE now == IF ~was.buy \/ Found(was.first) = "daily_loss" THEN NoCheck
                   ELSE [was EXCEPT !.at = "refold"]
<1>1. /\ was.at = "loss" /\ Detect(was.first) /\ checks' = [checks EXCEPT ![c] = now]
      /\ UNCHANGED <<equity, equityMoves, haltDay, clears, admitted>>
  BY <1>0 DEF JudgeLoss
<1>2. SparedKnown(was.first) /\ SparedKnown(was.last)
  BY <1>0 DEF CheckInv
<1>3. was.first \in Looks
  BY DEF CheckRecs
<1>4. \A d : ClearedOn(d) => ClearedOn(d)'
  BY <1>1, ClearsAlone
<1>5. RowsKept /\ (Found(was.first) # "none" => IsRecorded(Found(was.first), was.first.day)')
  BY <1>1, <1>3, <1>4, DetectKeeps
<1>6. \/ now = NoCheck
      \/ /\ now = [at |-> "refold", buy |-> was.buy, first |-> was.first, last |-> was.last]
         /\ Found(was.first) # "daily_loss"
  <2>1. was = [at |-> was.at, buy |-> was.buy, first |-> was.first, last |-> was.last]
    BY CheckFields
  <2>2. [was EXCEPT !.at = "refold"]
          = [at |-> "refold", buy |-> was.buy, first |-> was.first, last |-> was.last]
    BY <2>1, CheckFields
  <2>. QED  BY <2>2
<1>7. NoCheck = [at |-> "idle", buy |-> FALSE, first |-> Unread, last |-> Unread]
  BY DEF NoCheck
<1>8. checks'[c] = now /\ \A d \in Checkers : d # c => checks'[d] = checks[d]
  BY <1>1 DEF HaltInv, HaltTypes
<1>. HIDE DEF now
<1>9. HaltTypes'
  <2>1. now \in CheckRecs
    <3>1. was.buy \in BOOLEAN /\ was.first \in Looks /\ was.last \in Looks
      BY CheckFields
    <3>2. [at |-> "refold", buy |-> was.buy, first |-> was.first, last |-> was.last] \in CheckRecs
      BY <3>1, CheckMadeIs, Zenon
    <3>3. NoCheck \in CheckRecs
      BY <1>7, UnreadIs, CheckMadeIs
    <3>. QED  BY <1>6, <3>2, <3>3
  <2>. QED  BY <1>1, <1>5, <2>1 DEF HaltInv, HaltTypes, RowsKept
<1>10. CheckInv(c)'
  <2>1. CASE now = NoCheck
    BY <1>7, <1>8, <2>1 DEF CheckInv, SparedKnown, Unread
  <2>2. CASE now # NoCheck
    <3>1. /\ checks'[c].first = was.first /\ checks'[c].last = was.last
          /\ Found(was.first) # "daily_loss"
      BY <1>6, <1>8, <2>2
    <3>2. was.first.spared => ClearedOn(was.first.day)'
      BY <1>2, <1>4 DEF SparedKnown
    <3>3. was.last.spared => ClearedOn(was.last.day)'
      BY <1>2, <1>4 DEF SparedKnown
    <3>4. ~was.first.spared => Found(was.first) = was.first.breach
      BY DEF Found
    <3>. QED  BY <1>5, <3>1, <3>2, <3>3, <3>4 DEF CheckInv, SparedKnown, GoneOn
  <2>. QED  BY <2>1, <2>2
<1>. QED  BY <1>1, <1>4, <1>5, <1>8, <1>9, <1>10, HaltStepKeeps

LEMMA RefoldKeeps == ASSUME HaltInv, NEW c \in Checkers, Refold(c) PROVE HaltInv'
<1>0. PICK was \in CheckRecs : was = checks[c] /\ CheckInv(c)
  BY CheckIs
<1>9. PICK look \in Looks : look = Look /\ SparedKnown(look)
  BY LookIs
<1>. DEFINE now == [at |-> "draw", buy |-> was.buy, first |-> was.first, last |-> look]
<1>1. was.at = "refold" /\ SparedKnown(was.first) /\ GoneOn(was.first)
  BY <1>0 DEF Refold, CheckInv
<1>2. /\ checks' = [checks EXCEPT ![c] = now]
      /\ UNCHANGED <<haltRows, equity, equityMoves, haltDay, clears, admitted>>
  <2>1. checks' = [checks EXCEPT ![c] = now]
    BY <1>0, <1>9 DEF Refold
  <2>. QED  BY <2>1 DEF Refold
<1>3. now \in CheckRecs
  BY DEF CheckRecs
<1>4. checks'[c] = now /\ \A d \in Checkers : d # c => checks'[d] = checks[d]
  BY <1>2 DEF HaltInv, HaltTypes
<1>5. RowsKept /\ \A d : ClearedOn(d) => ClearedOn(d)'
  BY <1>2, RowsAlone, ClearsAlone
<1>6. HaltTypes'
  BY <1>2, <1>3 DEF HaltInv, HaltTypes
<1>7. CheckInv(c)'
  <2>1. checks'[c].first = was.first /\ checks'[c].last = look
    BY <1>4
  <2>. QED  BY <1>1, <1>5, <1>9, <2>1 DEF CheckInv, SparedKnown, GoneOn, RowsKept, RecordsStand
<1>. QED  BY <1>2, <1>4, <1>5, <1>6, <1>7, HaltStepKeeps

LEMMA JudgeDrawKeeps == ASSUME HaltInv, NEW c \in Checkers, JudgeDraw(c) PROVE HaltInv'
<1>0. PICK was \in CheckRecs : was = checks[c] /\ CheckInv(c)
  BY CheckIs
<1>1. /\ was.at = "draw" /\ Detect(was.last) /\ checks' = [checks EXCEPT ![c] = NoCheck]
      /\ \/ admitted' = admitted
         \/ /\ admitted' = [first |-> was.first, last |-> was.last]
            /\ Found(was.last) # "drawdown"
      /\ UNCHANGED <<equity, equityMoves, haltDay, clears>>
  <2>1. UNCHANGED <<equity, equityMoves, haltDay, clears>>
    BY DEF JudgeDraw
  <2>. QED  BY <1>0, <2>1 DEF JudgeDraw
<1>2. SparedKnown(was.last) /\ GoneOn(was.first)
  BY <1>0, <1>1 DEF CheckInv
<1>3. was.first \in Looks /\ was.last \in Looks
  BY DEF CheckRecs
<1>4. \A d : ClearedOn(d) => ClearedOn(d)'
  BY <1>1, ClearsAlone
<1>5. RowsKept /\ (Found(was.last) # "none" => IsRecorded(Found(was.last), was.last.day)')
  BY <1>1, <1>3, <1>4, DetectKeeps
<1>6. NoCheck = [at |-> "idle", buy |-> FALSE, first |-> Unread, last |-> Unread]
  BY DEF NoCheck
<1>7. checks'[c] = NoCheck /\ \A d \in Checkers : d # c => checks'[d] = checks[d]
  BY <1>1 DEF HaltInv, HaltTypes
<1>8. HaltTypes'
  <2>1. NoCheck \in CheckRecs
    BY <1>6, UnreadIs DEF CheckRecs
  <2>2. admitted' \in [first : Looks, last : Looks]
    BY <1>1, <1>3 DEF HaltInv, HaltTypes
  <2>. QED  BY <1>1, <1>5, <2>1, <2>2 DEF HaltInv, HaltTypes, RowsKept
<1>9. CheckInv(c)'
  BY <1>6, <1>7 DEF CheckInv, SparedKnown, Unread
<1>10. admitted' = admitted \/ BreachStops'
  <2>. SUFFICES ASSUME admitted' = [first |-> was.first, last |-> was.last],
                       Found(was.last) # "drawdown"
                PROVE  BreachStops'
    BY <1>1
  <2>1. admitted'.first = was.first /\ admitted'.last = was.last
    OBVIOUS
  <2>3. /\ was.first.breach = "daily_loss" => ClearedOn(was.first.day)'
        /\ was.first.breach = "drawdown" =>
             ClearedOn(was.first.day)' \/ IsRecorded(was.first.breach, was.first.day)'
    BY <1>2, <1>4, <1>5 DEF GoneOn, RowsKept, RecordsStand
  <2>4. was.last.spared => ClearedOn(was.last.day)'
    BY <1>2, <1>4 DEF SparedKnown
  <2>5. ~was.last.spared => Found(was.last) = was.last.breach
    BY DEF Found
  <2>6. /\ was.last.breach = "drawdown" => ClearedOn(was.last.day)'
        /\ was.last.breach = "daily_loss" =>
             ClearedOn(was.last.day)' \/ IsRecorded(was.last.breach, was.last.day)'
    BY <1>5, <2>4, <2>5
  <2>. QED  BY <2>1, <2>3, <2>6 DEF BreachStops, ClearedOn
<1>. QED  BY <1>4, <1>5, <1>7, <1>8, <1>9, <1>10, HaltStepKeeps

\* Steps that leave the checks and what was admitted alone.
LEMMA RowsOnlyKeeps ==
  ASSUME HaltInv, RowsKept, UNCHANGED <<checks, admitted, clears>>,
         equity' \in Nat, equityMoves' \in Nat, haltDay' \in Nat
  PROVE  HaltInv'
<1>1. HaltTypes'
  BY DEF HaltInv, HaltTypes, RowsKept
<1>2. \A d : ClearedOn(d) => ClearedOn(d)'
  BY ClearsAlone
<1>. QED  BY <1>1, <1>2, HaltStepKeeps

LEMMA MoveEquityKeeps == ASSUME HaltInv, MoveEquity PROVE HaltInv'
<1>1. RowsKept /\ UNCHANGED <<checks, admitted, clears>> /\ haltDay' \in Nat
  BY RowsAlone, ClearsAlone DEF MoveEquity, HaltInv, HaltTypes
<1>2. equityMoves \in Nat /\ equityMoves' = equityMoves + 1 /\ equityMoves < Len(EquityPath)
      /\ equity' = EquityPath[equityMoves']
  BY DEF MoveEquity, HaltInv, HaltTypes
<1>3. EquityPath \in Seq(Nat \ {0})
  BY HaltAssumption
<1>4. equityMoves' \in 1 .. Len(EquityPath)
  BY <1>2, <1>3, LenProperties
<1>5. equity' \in Nat
  BY <1>2, <1>3, <1>4, ElementOfSeq
<1>. QED  BY <1>1, <1>2, <1>5, RowsOnlyKeeps

LEMMA MidnightKeeps == ASSUME HaltInv, Midnight PROVE HaltInv'
<1>1. RowsKept
  BY RowsAlone, ClearsAlone DEF Midnight
<1>2. /\ UNCHANGED <<checks, admitted, clears>>
      /\ equity' \in Nat /\ equityMoves' \in Nat /\ haltDay' \in Nat
  BY DEF Midnight, HaltInv, HaltTypes
<1>. QED  BY <1>1, <1>2, RowsOnlyKeeps

LEMMA RollDayKeeps == ASSUME HaltInv, RollDay PROVE HaltInv'
<1>1. PICK row \in HaltRowSet : row = RollRow(haltDay, equity) /\ row.type = "roll"
  <2>1. haltDay \in Nat /\ equity \in Nat
    BY DEF HaltInv, HaltTypes
  <2>3. RollRow(haltDay, equity) \in HaltRowSet /\ RollRow(haltDay, equity).type = "roll"
    BY <2>1, RollIs
  <2>. QED  BY <2>3
<1>2. haltRows' = Append(haltRows, row) /\ UNCHANGED <<checks, admitted, clears>>
  BY <1>1 DEF RollDay
<1>3. RowsKept
  BY <1>1, <1>2, RowAppended, ClearsAlone
<1>4. equity' \in Nat /\ equityMoves' \in Nat /\ haltDay' \in Nat
  BY DEF RollDay, HaltInv, HaltTypes
<1>. QED  BY <1>2, <1>3, <1>4, RowsOnlyKeeps

LEMMA LatchExitKeeps == ASSUME HaltInv, LatchExit PROVE HaltInv'
<1>1. PICK day \in Nat : day = haltDay /\ "manual" \in HaltReasons
  BY DEF HaltReasons, HaltInv, HaltTypes
<1>2. RowsKept
  BY <1>1, HaltedOnce, ClearsAlone DEF LatchExit
<1>3. /\ UNCHANGED <<checks, admitted, clears>>
      /\ equity' \in Nat /\ equityMoves' \in Nat /\ haltDay' \in Nat
  BY DEF LatchExit, HaltInv, HaltTypes
<1>. QED  BY <1>2, <1>3, RowsOnlyKeeps

LEMMA AskClearKeeps == ASSUME HaltInv, NEW h \in Clearers, AskClear(h) PROVE HaltInv'
<1>1. /\ clears[h].at = "home" /\ haltDay \in Nat
      /\ clears' = [clears EXCEPT ![h] = [at |-> "asked", day |-> haltDay]]
      /\ UNCHANGED <<haltRows, equity, equityMoves, haltDay, checks, admitted>>
  BY DEF AskClear, HaltInv, HaltTypes
<1>2. \A d : ClearedOn(d) => ClearedOn(d)'
  BY <1>1 DEF ClearedOn, HaltInv, HaltTypes
<1>3. RowsKept
  BY <1>1, <1>2, RowsAlone
<1>4. HaltTypes'
  BY <1>1 DEF HaltInv, HaltTypes
<1>. QED  BY <1>1, <1>2, <1>3, <1>4, HaltStepKeeps

LEMMA AppendClearKeeps == ASSUME HaltInv, NEW h \in Clearers, AppendClear(h) PROVE HaltInv'
<1>0. PICK day \in Nat : day = clears[h].day
  BY DEF HaltInv, HaltTypes
<1>. DEFINE row == ClearRow(day)
<1>1. clears \in [Clearers -> [at : {"home", "asked", "done"}, day : Nat]]
  BY DEF HaltInv, HaltTypes
<1>2. /\ clears[h].at = "asked" /\ haltRows' = Append(haltRows, row)
      /\ clears' = [clears EXCEPT ![h].at = "done"]
      /\ UNCHANGED <<equity, equityMoves, haltDay, checks, admitted>>
  BY <1>0 DEF AppendClear
<1>3. row \in HaltRowSet /\ row.type = "clear" /\ row.day = day
  BY <1>1 DEF ClearRow, HaltRowSet
<1>. HIDE DEF row
<1>4. clears'[h] = [at |-> "done", day |-> day]
      /\ \A k \in Clearers : k # h => clears'[k] = clears[k]
  BY <1>0, <1>1, <1>2
<1>5. ClearedOn(day)' /\ \A d : ClearedOn(d) => ClearedOn(d)'
  <2>1. ClearedOn(day)'
    BY <1>4 DEF ClearedOn
  <2>3. ASSUME NEW d, ClearedOn(d) PROVE ClearedOn(d)'
    <3>1. PICK k \in Clearers : clears[k] = [at |-> "done", day |-> d]
      BY <2>3 DEF ClearedOn
    <3>2. k # h
      BY <1>2, <3>1
    <3>. QED  BY <1>4, <3>1, <3>2 DEF ClearedOn
  <2>. QED  BY <2>1, <2>3
<1>6. RowsKept
  BY <1>2, <1>3, <1>5, RowAppended
<1>7. HaltTypes'
  BY <1>1, <1>2, <1>6 DEF HaltInv, HaltTypes, RowsKept
<1>. QED  BY <1>2, <1>5, <1>6, <1>7, HaltStepKeeps

LEMMA HaltsStart == HaltInit => HaltInv
<1>. SUFFICES ASSUME HaltInit PROVE HaltInv
  OBVIOUS
<1>. DEFINE row == RollRow(1, GenesisEquity)
<1>1. row \in HaltRowSet /\ row.type = "roll" /\ GenesisEquity \in Nat
  BY HaltAssumption DEF RollRow, HaltRowSet
<1>2. haltRows = <<row>>
  BY DEF HaltInit
<1>. HIDE DEF row
<1>3. /\ haltRows \in Seq(HaltRowSet) /\ DOMAIN haltRows = {1} /\ haltRows[1] = row
      /\ haltRows = Append(<<>>, row)
  BY <1>1, <1>2
<1>4. HaltTypes
  <2>1. NoCheck \in CheckRecs
    BY UnreadIs DEF NoCheck, CheckRecs
  <2>2. NoPass \in [first : Looks, last : Looks]
    BY UnreadIs DEF NoPass
  <2>. QED  BY <1>1, <1>3, <2>1, <2>2 DEF HaltInit, HaltTypes
<1>5. StatusIsEnforced
  <2>1. StatusOf(<<>>) = NoHalt
    <3>1. Deciding(<<>>) = {}
      BY DEF Deciding
    <3>. QED  BY <3>1 DEF StatusOf, NoHalt
  <2>2. ViewOf(<<>>) = NoHalt
    <3>1. DOMAIN << >> = {}
      OBVIOUS
    <3>. QED  BY <3>1, HaltFoldIs, HaltFold!IteratedEmpty
  <2>3. <<>> \in Seq(HaltRowSet)
    OBVIOUS
  <2>4. StatusOf(haltRows) = ViewOf(haltRows)
    BY <1>1, <1>3, <2>1, <2>2, <2>3, StatusNext
  <2>. QED  BY <2>4, ReadersAre DEF StatusIsEnforced
<1>6. ClearsKnown /\ OneHaltADay
  BY <1>1, <1>3 DEF ClearsKnown, OneHaltADay
<1>7. \A c \in Checkers : CheckInv(c)
  BY UnreadIs DEF HaltInit, NoCheck, CheckInv
<1>8. BreachStops
  BY UnreadIs DEF HaltInit, NoPass, BreachStops
<1>. QED  BY <1>4, <1>5, <1>6, <1>7, <1>8 DEF HaltInv

LEMMA HaltsGoOn == HaltInv /\ [HaltNext]_haltVars => HaltInv'
<1>. SUFFICES ASSUME HaltInv, [HaltNext]_haltVars PROVE HaltInv'
  OBVIOUS
<1>1. CASE HaltNext
  BY <1>1, BeginCheckKeeps, JudgeLossKeeps, RefoldKeeps, JudgeDrawKeeps, AskClearKeeps,
     AppendClearKeeps, MoveEquityKeeps, MidnightKeeps, RollDayKeeps, LatchExitKeeps DEF HaltNext
<1>2. CASE UNCHANGED haltVars
  <2>1. RowsKept
    BY <1>2, RowsAlone, ClearsAlone DEF haltVars
  <2>2. /\ UNCHANGED <<checks, admitted, clears>>
        /\ equity' \in Nat /\ equityMoves' \in Nat /\ haltDay' \in Nat
    BY <1>2 DEF haltVars, HaltInv, HaltTypes
  <2>. QED  BY <2>1, <2>2, RowsOnlyKeeps
<1>. QED  BY <1>1, <1>2

\* For any processes, people, equities, limits and days: a buy goes past a limit
\* only with a person's clear of that day or the halt in the ledger, a halt is set
\* once a day and reason, and the tool reports the halt that is enforced.
THEOREM HaltsAreSound == HaltSpec => []HaltSound
<1>1. HaltInv => HaltSound
  BY DEF HaltInv, HaltSound
<1> QED BY <1>1, HaltsStart, HaltsGoOn, PTL DEF HaltSpec

-----------------------------------------------------------------------------
(* One read over the endpoints *)

RpcPost == [endpoint : 1 .. Endpoints, answer : Answers]
RpcTypes ==
  /\ rpc \in [endpoint : 1 .. Endpoints + 1, tries : Nat, bad : Nat,
              result : {"none", "value", "stale", "failed", "cancelled"}]
  /\ requests \in Seq(RpcPost)

\* x is the last post at an endpoint that the read has left behind.
IsLastAt(x, e) == x \in PostsAt(e) /\ \A j \in PostsAt(e) : j <= x
Behind == {e \in 1 .. Endpoints : e < rpc.endpoint}
LeftBehind(e) ==
  \E x \in Nat :
    /\ IsLastAt(x, e)
    /\ requests[x].answer \in Retriable => Cardinality(PostsAt(e)) = RpcAttempts
BadOnes == {e \in Behind : LastAt(e) = "malformed"}

\* At its endpoint the read has had nothing but busy answers, and asks no endpoint
\* before its turn.
StillBusy ==
  /\ rpc.result # "value" =>
       \A i \in PostsAt(rpc.endpoint) : requests[i].answer \in Retriable
  /\ rpc.result = "none" =>
       /\ Cardinality(PostsAt(rpc.endpoint)) = rpc.tries /\ rpc.tries < RpcAttempts
       /\ rpc.endpoint <= Endpoints
NotYetAsked == \A e \in 1 .. Endpoints : e > rpc.endpoint => PostsAt(e) = {}

\* How a read ends.
ReadEnded ==
  /\ \A i \in DOMAIN requests : requests[i].answer = "value" =>
       rpc.result = "value" /\ i = Len(requests)
  /\ rpc.result = "value" =>
       /\ requests # <<>> /\ requests[Len(requests)].answer = "value"
       /\ requests[Len(requests)].endpoint = rpc.endpoint
  /\ rpc.result \in {"stale", "failed"} =>
       rpc.endpoint = Endpoints + 1 /\ rpc.result = Unanswered(rpc.bad)
  /\ rpc.endpoint = Endpoints + 1 => rpc.result \in {"stale", "failed"}

RpcInv ==
  /\ RpcTypes /\ StillBusy /\ NotYetAsked /\ ReadEnded
  /\ \A e \in Behind : LeftBehind(e)
  /\ rpc.bad = Cardinality(BadOnes)

LEMMA LastIs ==
  ASSUME NEW S \in SUBSET Nat, NEW x \in S, \A j \in S : j <= x
  PROVE  (CHOOSE i \in S : \A j \in S : j <= i) = x
<1>1. \A i \in S : (\A j \in S : j <= i) => i = x
  OBVIOUS
<1>. QED  BY <1>1

LEMMA LastAtIs ==
  ASSUME NEW e, NEW x, IsLastAt(x, e), RpcTypes PROVE LastAt(e) = requests[x].answer
<1>1. PostsAt(e) \subseteq Nat
  BY DEF PostsAt, RpcTypes
<1>. QED  BY <1>1, LastIs DEF LastAt, IsLastAt

\* The same after a step.
LEMMA LastAtNextIs ==
  ASSUME NEW e, NEW x, IsLastAt(x, e)', RpcTypes' PROVE LastAt(e)' = requests'[x].answer
<1>1. PostsAt(e)' \subseteq Nat
  BY DEF PostsAt, RpcTypes
<1>. QED  BY <1>1, LastIs DEF LastAt, IsLastAt

LEMMA RpcStarts == RpcInit => RpcInv
<1>. SUFFICES ASSUME RpcInit PROVE RpcInv
  OBVIOUS
<1>. USE RpcAssumption
<1>1. RpcTypes /\ requests = <<>>
  BY DEF RpcInit, RpcTypes, RpcAssumption
<1>2. \A e : PostsAt(e) = {}
  BY <1>1 DEF PostsAt
<1>3. rpc.endpoint = 1 /\ rpc.tries = 0 /\ rpc.bad = 0 /\ rpc.result = "none"
  BY DEF RpcInit
<1>4. Behind = {} /\ BadOnes = {}
  BY <1>3 DEF Behind, BadOnes
<1>5. Cardinality({}) = 0
  BY FS_EmptySet
<1>6. StillBusy
  BY <1>2, <1>3, <1>5 DEF StillBusy, RpcAssumption
<1>7. ReadEnded
  BY <1>1, <1>3 DEF ReadEnded, RpcAssumption
<1>. QED  BY <1>1, <1>2, <1>3, <1>4, <1>5, <1>6, <1>7 DEF RpcInv, NotYetAsked

\* What one more request adds.
LEMMA PostsNext ==
  ASSUME RpcTypes, NEW e \in 1 .. Endpoints, NEW answer \in Answers,
         requests' = Append(requests, [endpoint |-> e, answer |-> answer])
  PROVE  /\ requests' \in Seq(RpcPost) /\ Len(requests') = Len(requests) + 1
         /\ \A d : d # e => PostsAt(d)' = PostsAt(d)
         /\ PostsAt(e)' = PostsAt(e) \cup {Len(requests) + 1}
         /\ \A d : \A i \in PostsAt(d) : i \in 1 .. Len(requests) /\ requests'[i] = requests[i]
         /\ \A d : IsFiniteSet(PostsAt(d))
         /\ requests'[Len(requests) + 1] = [endpoint |-> e, answer |-> answer]
<1>. DEFINE n == Len(requests)
<1>1. /\ requests \in Seq(RpcPost) /\ n \in Nat /\ requests' \in Seq(RpcPost) /\ Len(requests') = n + 1
      /\ \A i \in 1 .. n : requests'[i] = requests[i]
      /\ requests'[n + 1] = [endpoint |-> e, answer |-> answer]
  BY DEF RpcTypes, RpcPost
<1>2. DOMAIN requests = 1 .. n /\ DOMAIN requests' = 1 .. n + 1
  BY <1>1
<1>. HIDE DEF n
<1>3. 1 .. n + 1 = 1 .. n \cup {n + 1} /\ n + 1 \notin 1 .. n
  BY <1>1
<1>4. \A d : PostsAt(d) = {i \in 1 .. n : requests[i].endpoint = d}
  BY <1>2 DEF PostsAt
<1>5. \A d : PostsAt(d)' = {i \in 1 .. n + 1 : requests'[i].endpoint = d}
  BY <1>2 DEF PostsAt
<1>6. IsFiniteSet(1 .. n)
  BY <1>1, FS_Interval
<1>7. \A d : IsFiniteSet(PostsAt(d))
  BY <1>4, <1>6, FS_Subset
<1>8. ASSUME NEW d, d # e PROVE PostsAt(d)' = PostsAt(d)
  <2>1. \A i \in 1 .. n + 1 : requests'[i].endpoint = d <=> i \in 1 .. n /\ requests[i].endpoint = d
    BY <1>1, <1>3, <1>8
  <2>. QED  BY <1>3, <1>4, <1>5, <2>1
<1>9. PostsAt(e)' = PostsAt(e) \cup {n + 1}
  BY <1>1, <1>3, <1>4, <1>5
<1>10. \A d : \A i \in PostsAt(d) : i \in 1 .. n
  BY <1>4
<1>. QED  BY <1>1, <1>7, <1>8, <1>9, <1>10 DEF n

\* An endpoint left behind stays as it is.
LEMMA BehindStays ==
  ASSUME RpcInv, NEW e \in 1 .. Endpoints, NEW answer \in Answers,
         requests' = Append(requests, [endpoint |-> e, answer |-> answer]), RpcTypes',
         NEW d \in 1 .. Endpoints, d # e, LeftBehind(d)
  PROVE  LeftBehind(d)' /\ LastAt(d)' = LastAt(d)
<1>. USE DEF RpcInv
<1>1. PICK x \in Nat : IsLastAt(x, d) /\ (requests[x].answer \in Retriable => Cardinality(PostsAt(d)) = RpcAttempts)
  BY DEF LeftBehind
<1>2. PostsAt(d)' = PostsAt(d) /\ requests'[x] = requests[x]
  BY <1>1, PostsNext DEF IsLastAt
<1>3. IsLastAt(x, d)'
  BY <1>1, <1>2 DEF IsLastAt
<1>4. LeftBehind(d)'
  BY <1>1, <1>2, <1>3 DEF LeftBehind
<1>5. LastAt(d)' = requests'[x].answer
  BY <1>3, LastAtNextIs
<1>. QED  BY <1>1, <1>2, <1>4, <1>5, LastAtIs

\* What holds of an endpoint asked once more.
LEMMA PostAtIs ==
  ASSUME RpcInv, NEW answer \in Answers, PostOnce(answer),
         NEW e, e = rpc.endpoint, NEW n, n = Len(requests')
  PROVE  /\ e \in 1 .. Endpoints /\ rpc.tries \in Nat /\ rpc.bad \in Nat
         /\ requests' = Append(requests, [endpoint |-> e, answer |-> answer])
         /\ Cardinality(PostsAt(e)') = rpc.tries + 1
         /\ \A i \in PostsAt(e)' : i # n => requests'[i].answer \in Retriable
         /\ IsLastAt(n, e)' /\ n \in Nat \ {0}
         /\ requests'[n] = [endpoint |-> e, answer |-> answer]
         /\ \A i \in DOMAIN requests' : requests'[i].answer = "value" =>
              i = n /\ answer = "value"
<1>. USE DEF RpcInv
<1>0. PICK m : m = Len(requests)
  OBVIOUS
<1>1. rpc.result = "none" /\ requests' = Append(requests, [endpoint |-> e, answer |-> answer])
  BY DEF PostOnce
<1>2. /\ e \in 1 .. Endpoints /\ rpc.tries \in Nat /\ rpc.bad \in Nat
      /\ Cardinality(PostsAt(e)) = rpc.tries
      /\ \A i \in PostsAt(e) : requests[i].answer \in Retriable
  BY <1>1, RpcAssumption DEF RpcTypes, StillBusy, RpcAssumption
<1>3. m \in Nat /\ DOMAIN requests = 1 .. m
  BY <1>0 DEF RpcTypes
<1>4. /\ requests' \in Seq(RpcPost) /\ Len(requests') = m + 1
      /\ PostsAt(e)' = PostsAt(e) \cup {m + 1}
      /\ \A i \in PostsAt(e) : i \in 1 .. m /\ requests'[i] = requests[i]
      /\ IsFiniteSet(PostsAt(e))
      /\ requests'[m + 1] = [endpoint |-> e, answer |-> answer]
  BY <1>0, <1>1, <1>2, PostsNext
<1>5. \A i \in DOMAIN requests : requests[i].answer # "value"
  BY <1>1 DEF ReadEnded
<1>6. \A i \in 1 .. m : requests'[i] = requests[i]
  BY <1>0, <1>1, <1>3 DEF RpcTypes
<1>7. DOMAIN requests' = 1 .. m + 1 /\ n = m + 1
  BY <1>4
<1>8. m + 1 \notin PostsAt(e)
  BY <1>3, <1>4
<1>9. Cardinality(PostsAt(e)') = rpc.tries + 1
  <2>1. Cardinality(PostsAt(e) \cup {m + 1}) = Cardinality(PostsAt(e)) + 1
    BY <1>4, <1>8, FS_AddElement
  <2>. QED  BY <1>2, <1>4, <2>1
<1>10. \A i \in PostsAt(e)' : i # n => requests'[i].answer \in Retriable
  BY <1>2, <1>4, <1>7
<1>11. IsLastAt(n, e)'
  BY <1>3, <1>4, <1>7 DEF IsLastAt
<1>12. \A i \in DOMAIN requests' : requests'[i].answer = "value" => i = n /\ answer = "value"
  BY <1>3, <1>4, <1>5, <1>6, <1>7
<1>. QED  BY <1>1, <1>2, <1>3, <1>4, <1>7, <1>9, <1>10, <1>11, <1>12

\* The endpoints left behind, and those not yet asked, do not change by a post.
LEMMA OthersStay ==
  ASSUME RpcInv, NEW answer \in Answers, PostOnce(answer), RpcTypes'
  PROVE  /\ \A d \in Behind : LeftBehind(d)' /\ LastAt(d)' = LastAt(d)
         /\ \A d \in 1 .. Endpoints : d > rpc.endpoint => PostsAt(d)' = {}
<1>0. PICK e : e = rpc.endpoint
  OBVIOUS
<1>1. e \in 1 .. Endpoints /\ requests' = Append(requests, [endpoint |-> e, answer |-> answer])
  BY <1>0, PostAtIs
<1>2. \A d \in Behind : d \in 1 .. Endpoints /\ d # e /\ LeftBehind(d)
  BY <1>0, <1>1, RpcAssumption DEF Behind, RpcInv, RpcAssumption
<1>3. \A d \in Behind : LeftBehind(d)' /\ LastAt(d)' = LastAt(d)
  BY <1>1, <1>2, BehindStays
<1>4. \A d \in 1 .. Endpoints : d > rpc.endpoint => d # e /\ PostsAt(d) = {}
  BY <1>0, <1>1, RpcAssumption DEF RpcInv, NotYetAsked, RpcAssumption
<1>5. \A d : d # e => PostsAt(d)' = PostsAt(d)
  BY <1>1, PostsNext DEF RpcInv
<1>. QED  BY <1>3, <1>4, <1>5

LEMMA PostKeeps == ASSUME RpcInv, NEW answer \in Answers, PostOnce(answer) PROVE RpcInv'
<1>0. PICK e, n : e = rpc.endpoint /\ n = Len(requests')
  OBVIOUS
<1>1. /\ e \in 1 .. Endpoints /\ rpc.tries \in Nat /\ rpc.bad \in Nat
      /\ requests' = Append(requests, [endpoint |-> e, answer |-> answer])
      /\ Cardinality(PostsAt(e)') = rpc.tries + 1
      /\ \A i \in PostsAt(e)' : i # n => requests'[i].answer \in Retriable
      /\ IsLastAt(n, e)' /\ n \in Nat
      /\ requests'[n] = [endpoint |-> e, answer |-> answer]
      /\ \A i \in DOMAIN requests' : requests'[i].answer = "value" => i = n /\ answer = "value"
  BY <1>0, PostAtIs
<1>2. requests' \in Seq(RpcPost)
  BY <1>1, PostsNext DEF RpcInv
<1>3. rpc \in [endpoint : 1 .. Endpoints + 1, tries : Nat, bad : Nat,
              result : {"none", "value", "stale", "failed", "cancelled"}]
      /\ rpc.result = "none" /\ rpc.tries < RpcAttempts
  BY DEF PostOnce, RpcInv, RpcTypes, StillBusy
<1>4. Endpoints \in Nat \ {0} /\ RpcAttempts \in Nat \ {0}
  BY RpcAssumption DEF RpcAssumption
<1>5. requests' # <<>>
  BY <1>1
<1>6. CASE answer = "value" /\ rpc' = [rpc EXCEPT !.result = "value"]
  <2>1. RpcTypes'
    BY <1>2, <1>3, <1>6 DEF RpcTypes
  <2>2. rpc'.endpoint = e /\ rpc'.bad = rpc.bad /\ rpc'.result = "value"
    BY <1>0, <1>3, <1>6
  <2>3. Behind' = Behind
    BY <1>0, <2>2 DEF Behind
  <2>4. NotYetAsked' /\ \A d \in Behind' : LeftBehind(d)'
    BY <1>0, <2>1, <2>2, <2>3, OthersStay DEF NotYetAsked
  <2>5. BadOnes' = BadOnes
    BY <2>1, <2>3, OthersStay DEF BadOnes
  <2>6. rpc'.bad = Cardinality(BadOnes')
    BY <2>2, <2>5 DEF RpcInv
  <2>7. StillBusy'
    BY <2>2 DEF StillBusy
  <2>8. ReadEnded'
    BY <1>0, <1>1, <1>4, <1>5, <1>6, <2>2 DEF ReadEnded
  <2>. QED  BY <2>1, <2>4, <2>6, <2>7, <2>8 DEF RpcInv
<1>7. CASE answer \in Retriable /\ rpc.tries + 1 < RpcAttempts /\ rpc' = [rpc EXCEPT !.tries = @ + 1]
  <2>1. RpcTypes'
    BY <1>2, <1>3, <1>7 DEF RpcTypes
  <2>2. rpc'.endpoint = e /\ rpc'.bad = rpc.bad /\ rpc'.result = "none" /\ rpc'.tries = rpc.tries + 1
    BY <1>0, <1>3, <1>7
  <2>3. Behind' = Behind
    BY <1>0, <2>2 DEF Behind
  <2>4. NotYetAsked' /\ \A d \in Behind' : LeftBehind(d)'
    BY <1>0, <2>1, <2>2, <2>3, OthersStay DEF NotYetAsked
  <2>5. BadOnes' = BadOnes
    BY <2>1, <2>3, OthersStay DEF BadOnes
  <2>6. rpc'.bad = Cardinality(BadOnes')
    BY <2>2, <2>5 DEF RpcInv
  <2>7. StillBusy'
    <3>1. rpc'.endpoint = e /\ rpc'.endpoint <= Endpoints /\ rpc'.tries < RpcAttempts
      BY <1>1, <1>4, <1>7, <2>2
    <3>2. PostsAt(rpc.endpoint)' = PostsAt(e)'
      BY <3>1 DEF PostsAt
    <3>3. requests'[n].answer \in Retriable
      <4>1. requests'[n] = [endpoint |-> e, answer |-> answer]
        BY <1>1
      <4>2. requests'[n].answer = answer
        BY <4>1
      <4>. QED  BY <1>7, <4>2
    <3>4. \A i \in PostsAt(e)' : requests'[i].answer \in Retriable
      BY <1>1, <3>3
    <3>5. Cardinality(PostsAt(e)') = rpc'.tries
      BY <1>1, <2>2
    <3>. QED  BY <3>1, <3>2, <3>4, <3>5 DEF StillBusy
  <2>8. ReadEnded'
    BY <1>0, <1>1, <1>4, <1>7, <2>2 DEF ReadEnded, Retriable
  <2>. QED  BY <2>1, <2>4, <2>6, <2>7, <2>8 DEF RpcInv
<1>8. CASE /\ answer \in Retriable => rpc.tries + 1 = RpcAttempts
           /\ answer # "value" /\ NextEndpoint(answer)
  <2>0. PICK bad : bad = IF answer = "malformed" THEN rpc.bad + 1 ELSE rpc.bad
    OBVIOUS
  <2>2. /\ rpc'.endpoint = e + 1 /\ rpc'.bad = bad /\ rpc'.tries = 0
        /\ rpc'.result = IF e = Endpoints THEN Unanswered(bad) ELSE "none"
        /\ bad \in Nat
    BY <1>0, <1>1, <1>8, <2>0 DEF NextEndpoint
  <2>1. RpcTypes'
    <3>1. Unanswered(bad) \in {"stale", "failed"}
      BY DEF Unanswered
    <3>. QED  BY <1>0, <1>1, <1>2, <1>4, <1>8, <2>0, <3>1 DEF RpcTypes, NextEndpoint
  <2>3. Behind' = Behind \cup {e} /\ e \notin Behind
    BY <1>0, <1>1, <1>4, <2>2 DEF Behind
  <2>4. LeftBehind(e)'
    BY <1>0, <1>1, <1>8 DEF LeftBehind
  <2>5. \A d \in Behind' : LeftBehind(d)'
    BY <2>1, <2>3, <2>4, OthersStay
  <2>6. \A d \in 1 .. Endpoints : d >= e + 1 => PostsAt(d)' = {}
    BY <1>0, <1>1, <1>4, <2>1, OthersStay
  <2>7. NotYetAsked'
    BY <1>0, <1>1, <1>4, <2>2, <2>6 DEF NotYetAsked
  <2>8. LastAt(e)' = answer
    <3>1. LastAt(e)' = requests'[n].answer
      BY <1>1, <2>1, LastAtNextIs
    <3>. QED  BY <1>1, <3>1
  <2>9. BadOnes' = IF answer = "malformed" THEN BadOnes \cup {e} ELSE BadOnes
    BY <2>1, <2>3, <2>8, OthersStay DEF BadOnes
  <2>10. IsFiniteSet(BadOnes) /\ e \notin BadOnes
    <3>1. IsFiniteSet(1 .. Endpoints) /\ BadOnes \subseteq 1 .. Endpoints
      BY <1>4, FS_Interval DEF BadOnes, Behind
    <3>. QED  BY <2>3, <3>1, FS_Subset DEF BadOnes
  <2>11. rpc'.bad = Cardinality(BadOnes')
    <3>1. Cardinality(BadOnes \cup {e}) = Cardinality(BadOnes) + 1
      BY <2>10, FS_AddElement
    <3>2. Cardinality(BadOnes) = rpc.bad
      BY DEF RpcInv
    <3>. QED  BY <2>0, <2>2, <2>9, <3>1, <3>2
  <2>12. StillBusy'
    <3>1. PostsAt(e + 1)' = {}
      <4>1. CASE e = Endpoints
        <5>1. \A i \in DOMAIN requests' : requests'[i].endpoint \in 1 .. Endpoints
          <6>1. \A i \in DOMAIN requests' : requests'[i] \in RpcPost
            BY <1>2
          <6>. QED  BY <6>1 DEF RpcPost
        <5>2. \A i \in DOMAIN requests' : requests'[i].endpoint # e + 1
          BY <1>1, <1>4, <4>1, <5>1
        <5>. QED  BY <5>2 DEF PostsAt
      <4>. QED  BY <1>0, <1>1, <1>4, <2>6, <4>1
    <3>2. Cardinality({}) = 0
      BY FS_EmptySet
    <3>3. rpc'.result = "none" => e # Endpoints
      BY <2>2 DEF Unanswered
    <3>4. PostsAt(rpc.endpoint)' = PostsAt(e + 1)'
      BY <2>2 DEF PostsAt
    <3>5. rpc'.result = "none" => rpc'.endpoint <= Endpoints
      BY <1>1, <1>4, <2>2, <3>3
    <3>. QED  BY <1>4, <2>2, <3>1, <3>2, <3>4, <3>5 DEF StillBusy
  <2>13. ReadEnded'
    <3>1. \A i \in DOMAIN requests' : requests'[i].answer # "value"
      BY <1>0, <1>1, <1>8
    <3>2. Unanswered(bad) \in {"stale", "failed"}
      BY DEF Unanswered
    <3>. QED  BY <1>0, <1>1, <1>4, <2>2, <3>1, <3>2 DEF ReadEnded, Unanswered
  <2>. QED  BY <2>1, <2>5, <2>7, <2>11, <2>12, <2>13 DEF RpcInv
<1>. QED  BY <1>6, <1>7, <1>8 DEF PostOnce

LEMMA CancelKeeps == ASSUME RpcInv, ReadCancelled PROVE RpcInv'
<1>1. /\ rpc.result = "none" /\ rpc' = [rpc EXCEPT !.result = "cancelled"]
      /\ requests' = requests /\ RpcTypes
  BY DEF ReadCancelled, RpcInv
<1>2. /\ rpc'.endpoint = rpc.endpoint /\ rpc'.bad = rpc.bad /\ rpc'.tries = rpc.tries
      /\ rpc'.result = "cancelled"
  BY <1>1 DEF RpcTypes
<1>3. RpcTypes'
  BY <1>1 DEF RpcTypes
<1>4. \A d : PostsAt(d)' = PostsAt(d) /\ LastAt(d)' = LastAt(d)
  BY <1>1 DEF PostsAt, LastAt
<1>5. Behind' = Behind
  BY <1>2 DEF Behind
<1>6. BadOnes' = BadOnes
  BY <1>4, <1>5 DEF BadOnes
<1>7. \A d \in Behind' : LeftBehind(d)'
  BY <1>1, <1>4, <1>5 DEF RpcInv, LeftBehind, IsLastAt
<1>8. PostsAt(rpc.endpoint)' = PostsAt(rpc.endpoint)
  BY <1>1, <1>2 DEF PostsAt
<1>9. StillBusy' /\ NotYetAsked'
  BY <1>1, <1>2, <1>4, <1>8 DEF RpcInv, StillBusy, NotYetAsked
<1>10. ReadEnded'
  BY <1>1, <1>2 DEF RpcInv, StillBusy, ReadEnded
<1>. QED  BY <1>2, <1>3, <1>6, <1>7, <1>9, <1>10 DEF RpcInv

LEMMA RpcGoesOn == RpcInv /\ [RpcNext]_rpcVars => RpcInv'
<1>. SUFFICES ASSUME RpcInv, [RpcNext]_rpcVars PROVE RpcInv'
  OBVIOUS
<1>1. CASE UNCHANGED rpcVars
  <2>1. requests' = requests /\ rpc' = rpc
    BY <1>1 DEF rpcVars
  <2>2. \A d : PostsAt(d)' = PostsAt(d) /\ LastAt(d)' = LastAt(d)
    BY <2>1 DEF PostsAt, LastAt
  <2>3. Behind' = Behind /\ RpcTypes' /\ ReadEnded' /\ PostsAt(rpc.endpoint)' = PostsAt(rpc.endpoint)
    BY <2>1 DEF Behind, RpcInv, RpcTypes, ReadEnded, PostsAt
  <2>4. BadOnes' = BadOnes
    BY <2>2, <2>3 DEF BadOnes
  <2>5. \A d \in Behind' : LeftBehind(d)'
    BY <2>1, <2>2, <2>3 DEF RpcInv, LeftBehind, IsLastAt
  <2>6. StillBusy' /\ NotYetAsked'
    BY <2>1, <2>2, <2>3 DEF RpcInv, StillBusy, NotYetAsked
  <2>. QED  BY <2>1, <2>3, <2>4, <2>5, <2>6 DEF RpcInv
<1>. QED  BY <1>1, PostKeeps, CancelKeeps DEF RpcNext

LEMMA RpcPromise == RpcInv => FailoverSound
<1>. SUFFICES ASSUME RpcInv PROVE FailoverSound
  OBVIOUS
<1>. USE DEF RpcInv
<1>1. Endpoints \in Nat \ {0} /\ RpcAttempts \in Nat \ {0}
  BY RpcAssumption DEF RpcAssumption
<1>2. rpc.endpoint \in 1 .. Endpoints + 1 /\ requests \in Seq(RpcPost)
  BY DEF RpcTypes
<1>3. ASSUME rpc.endpoint = Endpoints + 1, NEW e \in 1 .. Endpoints
      PROVE  /\ PostsAt(e) # {} /\ e \in Behind
             /\ LastAt(e) \in Retriable => Cardinality(PostsAt(e)) = RpcAttempts
  <2>1. e \in Behind
    BY <1>1, <1>3 DEF Behind
  <2>2. PICK x \in Nat : /\ IsLastAt(x, e)
                         /\ requests[x].answer \in Retriable => Cardinality(PostsAt(e)) = RpcAttempts
    BY <2>1 DEF LeftBehind
  <2>3. LastAt(e) = requests[x].answer
    BY <2>2, LastAtIs
  <2>4. PostsAt(e) # {}
    BY <2>2 DEF IsLastAt
  <2>. QED  BY <2>1, <2>2, <2>3, <2>4
<1>4. \A e : \A i \in PostsAt(e) : i \in DOMAIN requests /\ requests[i].endpoint = e
  BY DEF PostsAt
<1>5. ASSUME rpc.result \in {"stale", "failed"}, NEW e \in 1 .. Endpoints
      PROVE  /\ PostsAt(e) # {} /\ \A i \in PostsAt(e) : requests[i].answer # "value"
             /\ LastAt(e) \in Retriable => Cardinality(PostsAt(e)) = RpcAttempts
  BY <1>3, <1>4, <1>5 DEF ReadEnded
<1>6. ASSUME rpc.result = "stale", NEW e \in 1 .. Endpoints
      PROVE  PostsAt(e) # {} /\ LastAt(e) = "malformed"
  <2>1. rpc.endpoint = Endpoints + 1 /\ rpc.bad = Endpoints
    BY <1>6 DEF ReadEnded, Unanswered
  <2>2. BadOnes \subseteq 1 .. Endpoints /\ IsFiniteSet(1 .. Endpoints)
        /\ Cardinality(1 .. Endpoints) = Endpoints
    BY <1>1, FS_Interval DEF BadOnes, Behind
  <2>3. BadOnes = 1 .. Endpoints
    BY <2>1, <2>2, FS_Subset
  <2>. QED  BY <1>3, <2>1, <2>3 DEF BadOnes
<1>7. ASSUME \A e \in 1 .. Endpoints : PostsAt(e) # {} /\ LastAt(e) = "malformed"
      PROVE  rpc.result = "stale"
  <2>1. rpc.endpoint = Endpoints + 1
    <3>1. SUFFICES ASSUME rpc.endpoint # Endpoints + 1 PROVE FALSE
      OBVIOUS
    <3>2. PICK e : e = rpc.endpoint
      OBVIOUS
    <3>3. e \in 1 .. Endpoints
      BY <1>1, <1>2, <3>1, <3>2
    <3>4. PostsAt(e) # {} /\ LastAt(e) = "malformed"
      BY <1>7, <3>3
    <3>5. PICK n : n = Len(requests)
      OBVIOUS
    <3>6. n \in Nat /\ DOMAIN requests = 1 .. n /\ IsFiniteSet(1 .. n)
      BY <1>2, <3>5, FS_Interval
    <3>7. PostsAt(e) \in SUBSET (1 .. n)
      BY <3>6 DEF PostsAt
    <3>8. PICK x \in PostsAt(e) : \A j \in PostsAt(e) : j <= x
      <4>1. PostsAt(e) \in SUBSET Int /\ IsFiniteSet(PostsAt(e))
        BY <3>6, <3>7, FS_Subset
      <4>. QED  BY <3>4, <4>1, Greatest
    <3>9. LastAt(e) = requests[x].answer
      BY <3>8, LastAtIs DEF IsLastAt
    <3>10. rpc.result = "value"
      BY <3>2, <3>4, <3>8, <3>9 DEF StillBusy, Retriable
    <3>11. n \in PostsAt(e) /\ requests[n].answer = "value"
      BY <3>2, <3>5, <3>6, <3>10 DEF ReadEnded, PostsAt
    <3>12. x = n
      BY <3>6, <3>7, <3>8, <3>11
    <3>. QED  BY <3>4, <3>9, <3>11, <3>12
  <2>2. BadOnes = 1 .. Endpoints
    BY <1>1, <1>7, <2>1 DEF BadOnes, Behind
  <2>3. rpc.bad = Endpoints
    BY <1>1, <2>2, FS_Interval
  <2>. QED  BY <2>1, <2>3 DEF ReadEnded, Unanswered
<1>8. \A i \in DOMAIN requests :
        requests[i].answer = "value" <=> rpc.result = "value" /\ i = Len(requests)
  BY DEF ReadEnded
<1>. QED  BY <1>5, <1>6, <1>7, <1>8 DEF FailoverSound

\* For any endpoints and attempts: a read ends without a value only once every
\* endpoint was left behind, none with an answer worth another post, and it is
\* stale data only when every endpoint's last answer was malformed.
THEOREM ReadsFailOver == RpcSpec => []FailoverSound
<1> QED BY RpcStarts, RpcGoesOn, RpcPromise, PTL DEF RpcSpec

-----------------------------------------------------------------------------
(* Confirmations: a file in place through a shared draft *)

ConfirmerRec ==
  [at : {"new", "refused", "open", "write", "replace", "row", "done", "failed", "dead"},
   holds : Nat]
ConfirmTypes ==
  /\ confirmer \in [Signers -> ConfirmerRec]
  /\ files \in Seq(Signers \cup {Torn})
  /\ draft \in 0 .. Len(files) /\ placed \in 0 .. Len(files)

\* Somebody writes file f, or died while it could.
BeingWritten(f) == \E k \in Signers : confirmer[k].holds = f /\ confirmer[k].at \in {"write", "dead"}

ConfirmInv ==
  /\ ConfirmTypes
  /\ \A f \in 1 .. Len(files) : files[f] = Torn => BeingWritten(f)
  /\ \A k \in Signers :
       /\ confirmer[k].at = "write" => confirmer[k].holds \in 1 .. Len(files)
       /\ confirmer[k].at = "row" => placed # 0
  /\ liveRows # {} => placed # 0

LEMMA ConfirmStarts == DoorInit => ConfirmInv
BY DEF DoorInit, ConfirmInv, ConfirmTypes, ConfirmerRec

\* One confirmer moves on; what it writes stays the same file.
LEMMA MovesOn ==
  ASSUME ConfirmInv, NEW k \in Signers, NEW place \in {"refused", "open", "replace", "row", "done", "failed", "dead"},
         ConfirmerAt(k, place), UNCHANGED files,
         confirmer[k].at # "dead", confirmer[k].at = "write" => place = "dead",
         placed' \in 0 .. Len(files), draft' \in 0 .. Len(files),
         placed # 0 => placed' # 0, place = "row" => placed' # 0,
         liveRows' # {} => placed' # 0
  PROVE  ConfirmInv'
<1>. USE DEF ConfirmInv
<1>1. /\ confirmer' = [confirmer EXCEPT ![k].at = place]
      /\ confirmer \in [Signers -> ConfirmerRec]
  BY DEF ConfirmerAt, ConfirmTypes
<1>2. /\ confirmer' \in [Signers -> ConfirmerRec]
      /\ confirmer'[k].at = place /\ confirmer'[k].holds = confirmer[k].holds
      /\ \A j \in Signers : j # k => confirmer'[j] = confirmer[j]
  BY <1>1 DEF ConfirmerRec
<1>3. ConfirmTypes'
  BY <1>2 DEF ConfirmTypes
<1>4. ASSUME NEW f, BeingWritten(f) PROVE BeingWritten(f)'
  <2>1. PICK j \in Signers : confirmer[j].holds = f /\ confirmer[j].at \in {"write", "dead"}
    BY <1>4 DEF BeingWritten
  <2>2. CASE j # k
    BY <1>2, <2>1, <2>2 DEF BeingWritten
  <2>3. CASE j = k /\ place = "dead"
    BY <1>2, <2>1, <2>3 DEF BeingWritten
  <2>. QED  BY <2>1, <2>2, <2>3
<1>5. \A j \in Signers :
        /\ confirmer'[j].at = "write" => confirmer'[j].holds \in 1 .. Len(files)
        /\ confirmer'[j].at = "row" => placed' # 0
  <2>. SUFFICES ASSUME NEW j \in Signers
                PROVE  /\ confirmer'[j].at = "write" => confirmer'[j].holds \in 1 .. Len(files)
                       /\ confirmer'[j].at = "row" => placed' # 0
    OBVIOUS
  <2>1. CASE j = k
    BY <1>2, <2>1
  <2>2. CASE j # k
    BY <1>2, <2>2
  <2>. QED  BY <2>1, <2>2
<1>6. \A f \in 1 .. Len(files) : files[f] = Torn => BeingWritten(f)'
  BY <1>4
<1>. QED  BY <1>3, <1>5, <1>6

LEMMA OpenDraftKeeps == ASSUME ConfirmInv, NEW k \in Signers, OpenDraft(k) PROVE ConfirmInv'
<1>. USE DEF ConfirmInv
<1>0. PICK n : n = Len(files)
  OBVIOUS
<1>1. /\ n \in Nat /\ files \in Seq(Signers \cup {Torn}) /\ draft \in 0 .. n /\ placed \in 0 .. n
      /\ confirmer \in [Signers -> ConfirmerRec] /\ confirmer[k].at = "open"
      /\ confirmer' = [confirmer EXCEPT ![k] = [at |-> "write", holds |-> draft']]
      /\ UNCHANGED <<placed, liveRows>>
  BY <1>0 DEF ConfirmTypes, OpenDraft
<1>2. /\ files' \in Seq(Signers \cup {Torn}) /\ Len(files') \in {n, n + 1}
      /\ draft' \in 1 .. Len(files')
      /\ \A f \in 1 .. Len(files') : f # draft' => f \in 1 .. n /\ files'[f] = files[f]
  <2>1. CASE draft = 0
    <3>1. files' = Append(files, Torn) /\ draft' = n + 1
      BY <1>0, <2>1 DEF OpenDraft
    <3>2. /\ Append(files, Torn) \in Seq(Signers \cup {Torn}) /\ Len(Append(files, Torn)) = n + 1
          /\ \A f \in 1 .. n : Append(files, Torn)[f] = files[f]
      BY <1>0, <1>1
    <3>. QED  BY <1>1, <3>1, <3>2
  <2>2. CASE draft # 0
    <3>1. files' = [files EXCEPT ![draft] = Torn] /\ draft' = draft /\ draft \in 1 .. n
      BY <1>1, <2>2 DEF OpenDraft
    <3>2. files' \in Seq(Signers \cup {Torn}) /\ Len(files') = n
      BY <1>0, <1>1, <3>1
    <3>3. \A f \in 1 .. n : f # draft => files'[f] = files[f]
      BY <1>0, <1>1, <3>1
    <3>. QED  BY <1>1, <3>1, <3>2, <3>3
  <2>. QED  BY <2>1, <2>2
<1>3. /\ confirmer' \in [Signers -> ConfirmerRec]
      /\ confirmer'[k] = [at |-> "write", holds |-> draft']
      /\ \A j \in Signers : j # k => confirmer'[j] = confirmer[j]
  BY <1>1, <1>2 DEF ConfirmerRec
<1>4. ConfirmTypes'
  BY <1>1, <1>2, <1>3 DEF ConfirmTypes
<1>5. ASSUME NEW f \in 1 .. Len(files'), files'[f] = Torn PROVE BeingWritten(f)'
  <2>1. CASE f = draft'
    BY <1>3, <2>1 DEF BeingWritten
  <2>2. CASE f # draft'
    <3>1. PICK j \in Signers : confirmer[j].holds = f /\ confirmer[j].at \in {"write", "dead"}
      BY <1>0, <1>2, <1>5, <2>2 DEF BeingWritten
    <3>. QED  BY <1>1, <1>3, <3>1 DEF BeingWritten
  <2>. QED  BY <2>1, <2>2
<1>6. \A j \in Signers :
        /\ confirmer'[j].at = "write" => confirmer'[j].holds \in 1 .. Len(files')
        /\ confirmer'[j].at = "row" => placed' # 0
  <2>. SUFFICES ASSUME NEW j \in Signers
                PROVE  /\ confirmer'[j].at = "write" => confirmer'[j].holds \in 1 .. Len(files')
                       /\ confirmer'[j].at = "row" => placed' # 0
    OBVIOUS
  <2>1. CASE j = k
    BY <1>2, <1>3, <2>1
  <2>2. CASE j # k
    BY <1>0, <1>1, <1>2, <1>3, <2>2
  <2>. QED  BY <2>1, <2>2
<1>. QED  BY <1>1, <1>4, <1>5, <1>6

LEMMA WriteDraftKeeps == ASSUME ConfirmInv, NEW k \in Signers, WriteDraft(k) PROVE ConfirmInv'
<1>. USE DEF ConfirmInv
<1>0. PICK n, f0 : n = Len(files) /\ f0 = confirmer[k].holds
  OBVIOUS
<1>1. /\ n \in Nat /\ files \in Seq(Signers \cup {Torn}) /\ draft \in 0 .. n /\ placed \in 0 .. n
      /\ confirmer \in [Signers -> ConfirmerRec] /\ confirmer[k].at = "write" /\ f0 \in 1 .. n
      /\ confirmer' = [confirmer EXCEPT ![k].at = "replace"]
      /\ files' = [files EXCEPT ![f0] = k]
      /\ UNCHANGED <<draft, placed, liveRows>>
  BY <1>0 DEF ConfirmTypes, WriteDraft, ConfirmerAt
<1>2. /\ files' \in Seq(Signers \cup {Torn}) /\ Len(files') = n /\ files'[f0] = k
      /\ \A f \in 1 .. n : f # f0 => files'[f] = files[f]
  BY <1>0, <1>1
<1>3. /\ confirmer' \in [Signers -> ConfirmerRec]
      /\ confirmer'[k].at = "replace" /\ confirmer'[k].holds = f0
      /\ \A j \in Signers : j # k => confirmer'[j] = confirmer[j]
  BY <1>0, <1>1 DEF ConfirmerRec
<1>4. ConfirmTypes'
  BY <1>1, <1>2, <1>3 DEF ConfirmTypes
<1>5. k # Torn
  BY DoorAssumption DEF DoorAssumption, Torn
<1>6. ASSUME NEW f \in 1 .. Len(files'), files'[f] = Torn PROVE BeingWritten(f)'
  <2>1. f # f0 /\ files[f] = Torn /\ f \in 1 .. n
    BY <1>2, <1>5, <1>6
  <2>2. PICK j \in Signers : confirmer[j].holds = f /\ confirmer[j].at \in {"write", "dead"}
    BY <1>0, <2>1 DEF BeingWritten
  <2>. QED  BY <1>0, <1>3, <2>1, <2>2 DEF BeingWritten
<1>7. \A j \in Signers :
        /\ confirmer'[j].at = "write" => confirmer'[j].holds \in 1 .. Len(files')
        /\ confirmer'[j].at = "row" => placed' # 0
  <2>. SUFFICES ASSUME NEW j \in Signers
                PROVE  /\ confirmer'[j].at = "write" => confirmer'[j].holds \in 1 .. Len(files')
                       /\ confirmer'[j].at = "row" => placed' # 0
    OBVIOUS
  <2>1. CASE j = k
    BY <1>3, <2>1
  <2>2. CASE j # k
    BY <1>0, <1>1, <1>2, <1>3, <2>2
  <2>. QED  BY <2>1, <2>2
<1>. QED  BY <1>1, <1>4, <1>6, <1>7

LEMMA ConfirmGoesOn == ConfirmInv /\ [ConfirmNext]_confirmVars => ConfirmInv'
<1>. SUFFICES ASSUME ConfirmInv, [ConfirmNext]_confirmVars PROVE ConfirmInv'
  OBVIOUS
<1>0. draft \in 0 .. Len(files) /\ placed \in 0 .. Len(files) /\ Len(files) \in Nat
  BY DEF ConfirmInv, ConfirmTypes
<1>1. ASSUME NEW k \in Signers, NEW q \in Asks, Confirm(k, q) PROVE ConfirmInv'
  <2>1. PICK place \in {"refused", "open"} : ConfirmerAt(k, place)
    BY <1>1 DEF Confirm
  <2>. QED  BY <1>0, <1>1, <2>1, MovesOn DEF Confirm, ConfirmInv
<1>2. ASSUME NEW k \in Signers, PutInPlace(k) PROVE ConfirmInv'
  <2>1. CASE draft = 0
    BY <1>0, <1>2, <2>1, MovesOn DEF PutInPlace, ConfirmInv
  <2>2. CASE draft # 0
    BY <1>0, <1>2, <2>2, MovesOn DEF PutInPlace, ConfirmInv
  <2>. QED  BY <2>1, <2>2
<1>3. ASSUME NEW k \in Signers, AppendLiveApproval(k) PROVE ConfirmInv'
  BY <1>0, <1>3, MovesOn DEF AppendLiveApproval, ConfirmInv
<1>4. ASSUME NEW k \in Signers, ConfirmerDies(k) PROVE ConfirmInv'
  BY <1>0, <1>4, MovesOn DEF ConfirmerDies, ConfirmInv
<1>5. CASE UNCHANGED confirmVars
  BY <1>5 DEF confirmVars, ConfirmInv, ConfirmTypes, BeingWritten
<1>. QED
  BY <1>1, <1>2, <1>3, <1>4, <1>5, OpenDraftKeeps, WriteDraftKeeps DEF ConfirmNext

LEMMA ConfirmPromise == ConfirmInv => ConfirmationInPlace
<1>. SUFFICES ASSUME ConfirmInv PROVE ConfirmationInPlace
  OBVIOUS
<1>1. placed # 0 => placed \in 1 .. Len(files)
  BY DEF ConfirmInv, ConfirmTypes
<1>. QED  BY <1>1 DEF ConfirmInv, BeingWritten, ConfirmationInPlace

-----------------------------------------------------------------------------
(* The paper window *)

WindowRec ==
  [day : Nat, source : {"paper"}, type : {"PositionClosed"}, n : {-5, 0, 6}]
    \cup [day : Nat, source : {"paper"}, type : {"MarkToMarket"}, n : {84, 85, 100}]
    \cup [day : Nat, source : {"manual", "replay"}, type : {"JournalNote"}, n : {0}]

MarksIn(l) == {i \in DOMAIN l : l[i].type = "MarkToMarket"}
ClosesIn(l) == {i \in DOMAIN l : l[i].type = "PositionClosed"}
WinsIn(l) == {i \in DOMAIN l : l[i].n > 0} \ MarksIn(l)
LostIn(l) == {i \in DOMAIN l : l[i].n < 0}

PerfRec == [closed : Nat, gains : Nat, losses : Nat, peak : Nat, equity : Nat]

\* What the folded figures p say of the rows l.
FiguresOf(l, p) ==
  /\ p \in PerfRec
  /\ p.closed = Cardinality(ClosesIn(l))
  /\ p.gains = 6 * Cardinality(WinsIn(l)) /\ p.losses = 5 * Cardinality(LostIn(l))
  /\ \A i \in MarksIn(l) : l[i].n <= p.peak
  /\ \A j \in MarksIn(l) : (\A k \in MarksIn(l) : k <= j) => l[j].n = p.equity

PerfOf(l) == FoldLeft(AfterPerfRow, NoPerf, l)

WindowInv ==
  paperLog \in Seq(WindowRec) /\ today \in Nat /\ FiguresOf(paperLog, PerfOf(paperLog))

TakePerf(row, was) == AfterPerfRow(was, row)
PerfFold == INSTANCE FoldFacts WITH Op <- TakePerf, Choose <- Max

LEMMA PerfFoldIs ==
  ASSUME NEW l PROVE PerfOf(l) = PerfFold!Iterated(NoPerf, l, DOMAIN l)
BY DEF PerfOf, FoldLeft, MapThenFoldSet, PerfFold!Iterated, PerfFold!IsIter, TakePerf

LEMMA PerfNext ==
  ASSUME NEW l \in Seq(WindowRec), NEW row
  PROVE  PerfOf(Append(l, row)) = AfterPerfRow(PerfOf(l), row)
<1>. DEFINE n == Len(l)
            more == Append(l, row)
<1>1. /\ n \in Nat /\ DOMAIN l = 1 .. n /\ DOMAIN more = 1 .. n + 1
      /\ more[n + 1] = row /\ \A i \in 1 .. n : more[i] = l[i]
  OBVIOUS
<1>. HIDE DEF n, more
<1>2. PerfFold!Chooses(1 .. n + 1) /\ PerfFold!Chooses(1 .. n) /\ PerfFold!TakesLast
  <2>1. n + 1 \in Nat
    BY <1>1
  <2>. QED  BY <1>1, <2>1, MaxChoosesRow
            DEF HaltFold!Chooses, HaltFold!TakesLast, PerfFold!Chooses, PerfFold!TakesLast
<1>3. PerfFold!IsFiniteSet(1 .. n)
  <2>1. IsFiniteSet(1 .. n)
    BY <1>1, FS_Interval
  <2>. QED  BY <2>1 DEF IsFiniteSet, PerfFold!IsFiniteSet
<1>4. PerfFold!Iterated(NoPerf, more, 1 .. n + 1)
        = TakePerf(more[n + 1], PerfFold!Iterated(NoPerf, more, 1 .. n))
  BY <1>1, <1>2, PerfFold!IteratedNext
<1>5. PerfFold!Iterated(NoPerf, more, 1 .. n) = PerfFold!Iterated(NoPerf, l, 1 .. n)
  BY <1>1, <1>2, <1>3, PerfFold!IteratedOfEqual
<1>6. /\ PerfOf(more) = PerfFold!Iterated(NoPerf, more, 1 .. n + 1)
      /\ PerfOf(l) = PerfFold!Iterated(NoPerf, l, 1 .. n)
  BY <1>1, PerfFoldIs
<1>. QED  BY <1>1, <1>4, <1>5, <1>6 DEF TakePerf, more

\* Counting up to one more row.
LEMMA OneMore ==
  ASSUME NEW n \in Nat, NEW S \in SUBSET (1 .. n)
  PROVE  Cardinality(S) \in Nat /\ Cardinality(S \cup {n + 1}) = Cardinality(S) + 1
<1>1. IsFiniteSet(S)
  <2>1. IsFiniteSet(1 .. n)
    BY FS_Interval
  <2>. QED  BY <2>1, FS_Subset
<1>2. n + 1 \notin S
  OBVIOUS
<1>. QED  BY <1>1, <1>2, FS_AddElement, FS_CardinalityType

LEMMA FiguresNext ==
  ASSUME NEW l \in Seq(WindowRec), NEW row \in WindowRec, NEW p, FiguresOf(l, p)
  PROVE  FiguresOf(Append(l, row), AfterPerfRow(p, row))
<1>. DEFINE n == Len(l)
            more == Append(l, row)
            q == AfterPerfRow(p, row)
<1>1. /\ n \in Nat /\ DOMAIN l = 1 .. n /\ DOMAIN more = 1 .. n + 1
      /\ more[n + 1] = row /\ \A i \in 1 .. n : more[i] = l[i]
  OBVIOUS
<1>. HIDE DEF n, more, q
<1>2. 1 .. n + 1 = 1 .. n \cup {n + 1} /\ n + 1 \notin 1 .. n
  BY <1>1
<1>3. /\ MarksIn(more) = IF row.type = "MarkToMarket" THEN MarksIn(l) \cup {n + 1} ELSE MarksIn(l)
      /\ ClosesIn(more) = IF row.type = "PositionClosed" THEN ClosesIn(l) \cup {n + 1} ELSE ClosesIn(l)
      /\ LostIn(more) = IF row.n < 0 THEN LostIn(l) \cup {n + 1} ELSE LostIn(l)
      /\ MarksIn(l) \subseteq 1 .. n /\ ClosesIn(l) \subseteq 1 .. n /\ LostIn(l) \subseteq 1 .. n
      /\ WinsIn(l) \subseteq 1 .. n
  BY <1>1, <1>2 DEF MarksIn, ClosesIn, LostIn, WinsIn
<1>4. WinsIn(more) = IF row.n > 0 /\ row.type # "MarkToMarket" THEN WinsIn(l) \cup {n + 1} ELSE WinsIn(l)
  BY <1>1, <1>2 DEF MarksIn, WinsIn
<1>5. /\ p.closed \in Nat /\ p.gains \in Nat /\ p.losses \in Nat /\ p.peak \in Nat /\ p.equity \in Nat
      /\ p = [closed |-> p.closed, gains |-> p.gains, losses |-> p.losses, peak |-> p.peak,
              equity |-> p.equity]
      /\ p.closed = Cardinality(ClosesIn(l))
      /\ p.gains = 6 * Cardinality(WinsIn(l)) /\ p.losses = 5 * Cardinality(LostIn(l))
      /\ \A i \in MarksIn(l) : l[i].n <= p.peak
      /\ \A j \in MarksIn(l) : (\A k \in MarksIn(l) : k <= j) => l[j].n = p.equity
  BY DEF FiguresOf, PerfRec
<1>6. /\ Cardinality(ClosesIn(l)) \in Nat
      /\ Cardinality(ClosesIn(l) \cup {n + 1}) = Cardinality(ClosesIn(l)) + 1
      /\ Cardinality(WinsIn(l)) \in Nat
      /\ Cardinality(WinsIn(l) \cup {n + 1}) = Cardinality(WinsIn(l)) + 1
      /\ Cardinality(LostIn(l)) \in Nat
      /\ Cardinality(LostIn(l) \cup {n + 1}) = Cardinality(LostIn(l)) + 1
  BY <1>1, <1>3, OneMore
<1>7. CASE row.type = "JournalNote"
  <2>1. row.source # "paper" /\ row.n = 0
    BY <1>7 DEF WindowRec
  <2>2. q = p
    BY <1>7, <2>1 DEF q, AfterPerfRow
  <2>3. /\ MarksIn(more) = MarksIn(l) /\ ClosesIn(more) = ClosesIn(l)
        /\ WinsIn(more) = WinsIn(l) /\ LostIn(more) = LostIn(l)
    BY <1>3, <1>4, <1>7, <2>1
  <2>4. \A i \in MarksIn(more) : more[i] = l[i]
    BY <1>1, <1>3, <2>3
  <2>. QED  BY <2>2, <2>3, <2>4 DEF FiguresOf, more, q
<1>8. CASE row.type = "PositionClosed"
  <2>1. row.source = "paper" /\ row.n \in {-5, 0, 6}
    BY <1>8 DEF WindowRec
  <2>2. q = [closed |-> p.closed + 1, gains |-> IF row.n > 0 THEN p.gains + row.n ELSE p.gains,
             losses |-> IF row.n < 0 THEN p.losses - row.n ELSE p.losses, peak |-> p.peak,
             equity |-> p.equity]
    BY <1>5, <1>8, <2>1 DEF q, AfterPerfRow
  <2>3. MarksIn(more) = MarksIn(l) /\ \A i \in MarksIn(more) : more[i] = l[i]
    BY <1>1, <1>3, <1>8
  <2>4. q.closed = Cardinality(ClosesIn(more))
    BY <1>3, <1>5, <1>6, <1>8, <2>2
  <2>5. q.gains = 6 * Cardinality(WinsIn(more)) /\ q.losses = 5 * Cardinality(LostIn(more))
    <3>1. CASE row.n = 6
      BY <1>3, <1>4, <1>5, <1>6, <1>8, <2>2, <3>1
    <3>2. CASE row.n = 0
      BY <1>3, <1>4, <1>5, <1>6, <1>8, <2>2, <3>2
    <3>3. CASE row.n = -5
      BY <1>3, <1>4, <1>5, <1>6, <1>8, <2>2, <3>3
    <3>. QED  BY <2>1, <3>1, <3>2, <3>3
  <2>6. q \in PerfRec /\ q.peak = p.peak /\ q.equity = p.equity
    BY <1>5, <2>1, <2>2 DEF PerfRec
  <2>7. FiguresOf(more, q)
    BY <1>5, <2>3, <2>4, <2>5, <2>6 DEF FiguresOf
  <2>. QED  BY <2>7 DEF more, q
<1>9. CASE row.type = "MarkToMarket"
  <2>1. row.source = "paper" /\ row.n \in {84, 85, 100}
    BY <1>9 DEF WindowRec
  <2>2. q = [closed |-> p.closed, gains |-> p.gains, losses |-> p.losses,
             peak |-> IF row.n > p.peak THEN row.n ELSE p.peak, equity |-> row.n]
    BY <1>5, <1>9, <2>1 DEF q, AfterPerfRow
  <2>3. MarksIn(more) = MarksIn(l) \cup {n + 1} /\ n + 1 \notin MarksIn(l)
        /\ \A i \in MarksIn(l) : more[i] = l[i] /\ i <= n
    BY <1>1, <1>2, <1>3, <1>9
  <2>4. ClosesIn(more) = ClosesIn(l) /\ WinsIn(more) = WinsIn(l) /\ LostIn(more) = LostIn(l)
    BY <1>3, <1>4, <1>9, <2>1
  <2>5. \A i \in MarksIn(more) : more[i].n <= q.peak
    <3>1. \A i \in MarksIn(l) : l[i].n \in Int
      BY <1>1, <1>3 DEF WindowRec
    <3>2. q.peak = IF row.n > p.peak THEN row.n ELSE p.peak
      BY <2>2
    <3>3. q.peak \in Int /\ q.peak >= p.peak /\ q.peak >= row.n
      BY <1>5, <2>1, <3>2
    <3>4. \A i \in MarksIn(l) : more[i].n <= q.peak
      <4>. SUFFICES ASSUME NEW i \in MarksIn(l) PROVE more[i].n <= q.peak
        OBVIOUS
      <4>1. more[i] = l[i] /\ l[i].n <= p.peak /\ l[i].n \in Int
        BY <1>5, <2>3, <3>1
      <4>. QED  BY <1>5, <3>3, <4>1
    <3>. QED  BY <1>1, <2>3, <3>3, <3>4
  <2>6. \A j \in MarksIn(more) : (\A k \in MarksIn(more) : k <= j) => more[j].n = q.equity
    <3>1. SUFFICES ASSUME NEW j \in MarksIn(more), \A k \in MarksIn(more) : k <= j
                   PROVE  more[j].n = q.equity
      OBVIOUS
    <3>2. n + 1 <= j
      BY <2>3, <3>1
    <3>3. j = n + 1
      BY <1>1, <1>3, <2>3, <3>2
    <3>4. q.equity = row.n
      BY <2>2
    <3>. QED  BY <1>1, <3>3, <3>4
  <2>7. q \in PerfRec /\ q.closed = p.closed /\ q.gains = p.gains /\ q.losses = p.losses
    BY <1>5, <2>1, <2>2 DEF PerfRec
  <2>8. FiguresOf(more, q)
    BY <1>5, <2>4, <2>5, <2>6, <2>7 DEF FiguresOf
  <2>. QED  BY <2>8 DEF more, q
<1>10. row.type \in {"JournalNote", "PositionClosed", "MarkToMarket"}
  BY DEF WindowRec
<1>. QED  BY <1>7, <1>8, <1>9, <1>10

LEMMA WindowStarts == DoorInit => WindowInv
<1>. SUFFICES ASSUME DoorInit PROVE WindowInv
  OBVIOUS
<1>1. paperLog = <<>> /\ today = 0
  BY DEF DoorInit
<1>2. PICK l : l = <<>>
  OBVIOUS
<1>3. DOMAIN l = {}
  BY <1>2
<1>4. PerfOf(l) = NoPerf
  BY <1>3, PerfFoldIs, PerfFold!IteratedEmpty
<1>5. MarksIn(l) = {} /\ ClosesIn(l) = {} /\ WinsIn(l) = {} /\ LostIn(l) = {}
  BY <1>3 DEF MarksIn, ClosesIn, WinsIn, LostIn
<1>6. FiguresOf(l, NoPerf)
  <2>1. Cardinality({}) = 0
    BY FS_EmptySet
  <2>2. NoPerf \in PerfRec /\ NoPerf.closed = 0 /\ NoPerf.gains = 0 /\ NoPerf.losses = 0
    BY DEF NoPerf, PerfRec
  <2>3. 6 * 0 = 0 /\ 5 * 0 = 0
    OBVIOUS
  <2>. QED  BY <1>5, <2>1, <2>2, <2>3 DEF FiguresOf
<1>7. <<>> \in Seq(WindowRec)
  OBVIOUS
<1>. QED  BY <1>1, <1>2, <1>4, <1>6, <1>7 DEF WindowInv

LEMMA WindowGoesOn == WindowInv /\ [WindowNext]_windowVars => WindowInv'
<1>. SUFFICES ASSUME WindowInv, [WindowNext]_windowVars PROVE WindowInv'
  OBVIOUS
<1>1. ASSUME NEW r \in LogRows, LogRow(r) PROVE WindowInv'
  <2>. DEFINE row == [day |-> today, source |-> r.source, type |-> r.type, n |-> r.n]
  <2>1. paperLog' = Append(paperLog, row) /\ today' = today
    BY <1>1 DEF LogRow
  <2>2. row \in WindowRec
    BY DEF WindowInv, LogRows, WindowRec
  <2>. HIDE DEF row
  <2>3. PerfOf(paperLog') = AfterPerfRow(PerfOf(paperLog), row)
    BY <2>1, PerfNext DEF WindowInv
  <2>4. FiguresOf(paperLog', PerfOf(paperLog'))
    BY <2>1, <2>2, <2>3, FiguresNext DEF WindowInv
  <2>5. paperLog' \in Seq(WindowRec)
    BY <2>1, <2>2 DEF WindowInv
  <2>6. FiguresOf(paperLog, PerfOf(paperLog))' 
    BY <2>4 DEF FiguresOf, PerfOf, MarksIn, ClosesIn, WinsIn, LostIn
  <2>. QED  BY <2>1, <2>5, <2>6 DEF WindowInv
<1>2. CASE NextDay
  BY <1>2 DEF NextDay, WindowInv
<1>3. CASE UNCHANGED windowVars
  BY <1>3 DEF windowVars, WindowInv
<1>. QED  BY <1>1, <1>2, <1>3 DEF WindowNext

LEMMA WindowPromise == WindowInv => WindowHonest
<1>. SUFFICES ASSUME WindowInv PROVE WindowHonest
  OBVIOUS
<1>. DEFINE p == PerfOf(paperLog)
<1>1. Perf = p /\ FiguresOf(paperLog, p) /\ paperLog \in Seq(WindowRec) /\ today \in Nat
  BY DEF Perf, PerfOf, WindowInv
<1>. HIDE DEF p
<1>2. /\ p.closed = Cardinality(ClosesIn(paperLog)) /\ p.gains = 6 * Cardinality(WinsIn(paperLog))
      /\ p.losses = 5 * Cardinality(LostIn(paperLog))
      /\ p.closed \in Nat /\ p.gains \in Nat /\ p.losses \in Nat /\ p.peak \in Nat /\ p.equity \in Nat
      /\ \A i \in MarksIn(paperLog) : paperLog[i].n <= p.peak
      /\ \A j \in MarksIn(paperLog) :
           (\A k \in MarksIn(paperLog) : k <= j) => paperLog[j].n = p.equity
  BY <1>1 DEF FiguresOf, PerfRec
<1>3. ASSUME DaysMet
      PROVE  \E i \in DOMAIN paperLog :
               paperLog[i].source = "paper" /\ today - paperLog[i].day >= MinDays
  <2>1. PaperRows # {} /\ PaperRows \subseteq DOMAIN paperLog
    BY <1>3 DEF DaysMet, WindowRead, PaperRows
  <2>2. Min(PaperRows) \in PaperRows
    <3>1. paperLog \in Seq(WindowRec) /\ DOMAIN paperLog = 1 .. Len(paperLog)
      BY <1>1
    <3>2. IsFiniteSet(1 .. Len(paperLog))
      BY <3>1, FS_Interval
    <3>3. IsFiniteSet(PaperRows) /\ PaperRows \in SUBSET Int
      BY <2>1, <3>1, <3>2, FS_Subset
    <3>4. \E m \in PaperRows : \A i \in PaperRows : m <= i
      BY <2>1, <3>3, SmallestOfFinite
    <3>. QED  BY <3>4 DEF Min
  <2>. QED  BY <1>3, <2>2 DEF DaysMet, PaperRows
<1>4. ASSUME PerfMet
      PROVE  /\ Cardinality(ClosesIn(paperLog)) >= MinClosed
             /\ 6 * Cardinality(WinsIn(paperLog)) * 10 >= 5 * Cardinality(LostIn(paperLog)) * 12
             /\ WinsIn(paperLog) # {}
             /\ \A i, j \in MarksIn(paperLog) : (\A k \in MarksIn(paperLog) : k <= j)
                  => 100 * paperLog[j].n >= 85 * paperLog[i].n
  <2>1. p.closed >= MinClosed /\ FactorMet(p) /\ DrawdownMet(p)
    BY <1>1, <1>4 DEF PerfMet
  <2>2. p.gains > 0 /\ 10 * p.gains >= 12 * p.losses
    BY <1>2, <2>1 DEF FactorMet
  <2>3. WinsIn(paperLog) # {}
    <3>1. Cardinality({}) = 0
      BY FS_EmptySet
    <3>. QED  BY <1>2, <2>2, <3>1
  <2>4. 100 * p.equity >= 85 * p.peak
    BY <1>2, <2>1 DEF DrawdownMet
  <2>5. \A i \in MarksIn(paperLog) : paperLog[i].n \in Int
    BY <1>1 DEF MarksIn, WindowRec
  <2>. QED  BY <1>2, <2>1, <2>2, <2>3, <2>4, <2>5
<1>5. Replayed => ~DaysMet /\ ~PerfMet
  BY DEF DaysMet, PerfMet, WindowRead
<1>. QED  BY <1>3, <1>4, <1>5 DEF WindowHonest, MarksIn, ClosesIn, WinsIn, LostIn

-----------------------------------------------------------------------------
(* Approvals *)

HumanKinds == {"human_buy", "human_sell", "exit_rule"}
ApprovalRec ==
  [id : Nat \ {0}, kind : HumanKinds \cup {"autonomous_paper"}, terms : {1, 2},
   size : Amounts, units : Amounts, rule : RuleReasons \cup {"none"}, consumed : BOOLEAN]

ApprovalTypes ==
  /\ engine \in [mode : {"paper", "live"}, autonomy : {"manual-ticket", "autonomous-paper"}]
  /\ apprRows \in Seq(ApprovalRec)
  /\ executed \in Seq([order : Orders, id : Nat])

\* Row x is the newest of its id.
NewestOf(x, id) ==
  /\ x \in DOMAIN apprRows /\ apprRows[x].id = id
  /\ \A j \in DOMAIN apprRows : apprRows[j].id = id => j <= x

\* An approval a person may still use is as the person wrote it.
AsWritten(a) ==
  a.kind \in HumanKinds /\ Wellformed(a)

\* The order that passed on the approval of row x.
PassedOn(x, o) ==
  LET a == apprRows[x] IN
  /\ a.consumed /\ Stated(a) = Moved(o) /\ a.terms = o.terms
  /\ o.exit \in RuleReasons /\ a.kind = "exit_rule" => a.rule = o.exit

\* An order without an approval's id passed on the desk's own authority.
HasApproval(id, o) ==
  IF id = 0 THEN Autonomous(o)
  ELSE \E x \in DOMAIN apprRows : NewestOf(x, id) /\ PassedOn(x, o)
AllApproved == \A i \in DOMAIN executed : HasApproval(executed[i].id, executed[i].order)

ApprovalInv ==
  /\ ApprovalTypes
  /\ \A i \in DOMAIN apprRows : ~apprRows[i].consumed => AsWritten(apprRows[i])
  /\ \A id \in Ids : id <= MaxSigned + Len(executed) /\ (id <= MaxSigned => id <= Cardinality(Ids))
  /\ AllApproved
  /\ \A i, j \in DOMAIN executed : executed[i].id # 0 /\ executed[i].id = executed[j].id => i = j
  /\ LiveNeverPasses

LEMMA NewestIs ==
  ASSUME ApprovalTypes, NEW id, NEW x, NewestOf(x, id) PROVE LatestRow(id) = apprRows[x]
<1>1. DOMAIN apprRows \subseteq Nat
  BY DEF ApprovalTypes
<1>2. \A i \in DOMAIN apprRows :
        (apprRows[i].id = id /\ \A j \in DOMAIN apprRows : apprRows[j].id = id => j <= i) => i = x
  BY <1>1 DEF NewestOf
<1>3. (CHOOSE i \in DOMAIN apprRows :
         apprRows[i].id = id /\ \A j \in DOMAIN apprRows : apprRows[j].id = id => j <= i) = x
  BY <1>2 DEF NewestOf
<1>. QED  BY <1>3 DEF LatestRow

\* Every id has a newest row.
LEMMA NewestExists ==
  ASSUME ApprovalTypes, NEW id \in Ids PROVE \E x : NewestOf(x, id)
<1>. DEFINE S == {i \in DOMAIN apprRows : apprRows[i].id = id}
<1>1. S # {}
  BY DEF Ids
<1>2. DOMAIN apprRows = 1 .. Len(apprRows) /\ Len(apprRows) \in Nat
  BY DEF ApprovalTypes
<1>3. IsFiniteSet(1 .. Len(apprRows))
  BY <1>2, FS_Interval
<1>4. IsFiniteSet(S) /\ S \in SUBSET Int
  BY <1>2, <1>3, FS_Subset
<1>5. PICK x \in S : \A j \in S : j <= x
  <2>. HIDE DEF S
  <2>. QED  BY <1>1, <1>4, Greatest
<1>6. NewestOf(x, id)
  BY <1>5 DEF NewestOf
<1>. QED  BY <1>6

LEMMA IdsFinite ==
  ASSUME ApprovalTypes PROVE IsFiniteSet(Ids) /\ Cardinality(Ids) \in Nat /\ Ids \subseteq Nat \ {0}
<1>1. DOMAIN apprRows = 1 .. Len(apprRows) /\ Len(apprRows) \in Nat
  BY DEF ApprovalTypes
<1>2. IsFiniteSet(DOMAIN apprRows)
  BY <1>1, FS_Interval
<1>3. IsFiniteSet(Ids)
  <2>. DEFINE f == [i \in DOMAIN apprRows |-> apprRows[i].id]
  <2>1. f \in Surjection(DOMAIN apprRows, Ids)
    BY DEF Ids, Surjection
  <2>. HIDE DEF f
  <2>. QED  BY <1>2, <2>1, FS_Surjection
<1>4. Ids \subseteq Nat \ {0}
  <2>1. \A i \in DOMAIN apprRows : apprRows[i] \in ApprovalRec
    BY DEF ApprovalTypes
  <2>2. \A a \in ApprovalRec : a.id \in Nat \ {0}
    BY DEF ApprovalRec
  <2>. QED  BY <2>1, <2>2 DEF Ids
<1>. QED  BY <1>3, <1>4, FS_CardinalityType

LEMMA ApprovalsStart == DoorInit => ApprovalInv
<1>. SUFFICES ASSUME DoorInit PROVE ApprovalInv
  OBVIOUS
<1>1. apprRows = <<>> /\ executed = <<>> /\ ApprovalTypes
  BY DEF DoorInit, ApprovalTypes
<1>2. Ids = {} /\ DOMAIN apprRows = {} /\ DOMAIN executed = {}
  BY <1>1 DEF Ids
<1>. QED  BY <1>1, <1>2 DEF ApprovalInv, AllApproved, LiveNeverPasses

\* A row of a fresh id, or one more of an id that no order passed on, leaves what
\* the orders passed on as it was.
LEMMA RowOfOther ==
  ASSUME ApprovalInv, NEW row, apprRows' = Append(apprRows, row), NEW id, id # row.id, NEW o,
         engine' = engine, HasApproval(id, o)
  PROVE  HasApproval(id, o)'
<1>0. PICK n : n = Len(apprRows)
  OBVIOUS
<1>6. CASE id = 0
  BY <1>6 DEF HasApproval, Autonomous
<1>. SUFFICES ASSUME id # 0 PROVE HasApproval(id, o)'
  BY <1>6
<1>1. PICK x \in DOMAIN apprRows : NewestOf(x, id) /\ PassedOn(x, o)
  BY DEF HasApproval
<1>2. n \in Nat /\ DOMAIN apprRows = 1 .. n /\ DOMAIN apprRows' = 1 .. n + 1
      /\ apprRows'[n + 1] = row /\ \A j \in 1 .. n : apprRows'[j] = apprRows[j]
  BY <1>0 DEF ApprovalInv, ApprovalTypes
<1>3. x \in DOMAIN apprRows' /\ apprRows'[x] = apprRows[x]
  BY <1>1, <1>2
<1>4. NewestOf(x, id)'
  <2>1. \A j \in DOMAIN apprRows' : apprRows'[j].id = id => j \in 1 .. n
    BY <1>0, <1>2
  <2>. QED  BY <1>1, <1>2, <1>3, <2>1 DEF NewestOf
<1>5. PassedOn(x, o)'
  BY <1>1, <1>3 DEF PassedOn
<1>. QED  BY <1>3, <1>4, <1>5 DEF HasApproval

LEMMA IdsNext ==
  ASSUME ApprovalTypes, NEW row, apprRows' = Append(apprRows, row)
  PROVE  Ids' = Ids \cup {row.id}
<1>0. PICK n : n = Len(apprRows)
  OBVIOUS
<1>1. n \in Nat /\ DOMAIN apprRows = 1 .. n /\ DOMAIN apprRows' = 1 .. n + 1
      /\ apprRows'[n + 1] = row /\ \A j \in 1 .. n : apprRows'[j] = apprRows[j]
  BY <1>0 DEF ApprovalTypes
<1>2. 1 .. n + 1 = 1 .. n \cup {n + 1}
  BY <1>1
<1>. QED  BY <1>1, <1>2 DEF Ids

\* What an order passed on has a row, with its id.
LEMMA PassedHasId ==
  ASSUME ApprovalInv, NEW i \in DOMAIN executed, executed[i].id # 0
  PROVE  executed[i].id \in Ids /\ LatestRow(executed[i].id).consumed
<1>1. PICK x \in DOMAIN apprRows : NewestOf(x, executed[i].id) /\ PassedOn(x, executed[i].order)
  BY DEF ApprovalInv, AllApproved, HasApproval
<1>2. executed[i].id \in Ids
  BY <1>1 DEF NewestOf, Ids
<1>3. LatestRow(executed[i].id) = apprRows[x]
  BY <1>1, NewestIs DEF ApprovalInv
<1>. QED  BY <1>1, <1>2, <1>3 DEF PassedOn

LEMMA RecordHumanKeeps == ASSUME ApprovalInv, NEW r \in Records, RecordHuman(r) PROVE ApprovalInv'
<1>0. PICK c, row :
        /\ c = Cardinality(Ids)
        /\ row = [id |-> c + 1, kind |-> r.kind, terms |-> r.terms, size |-> r.size,
                  units |-> r.units, rule |-> r.rule, consumed |-> FALSE]
  OBVIOUS
<1>1. /\ apprRows' = Append(apprRows, row) /\ c < MaxSigned /\ Wellformed(r)
      /\ UNCHANGED <<engine, executed>>
  BY <1>0 DEF RecordHuman
<1>2. c \in Nat /\ IsFiniteSet(Ids) /\ Ids \subseteq Nat \ {0} /\ MaxSigned \in Nat
  BY <1>0, IdsFinite, DoorAssumption DEF ApprovalInv, DoorAssumption
<1>3. row \in ApprovalRec /\ AsWritten(row) /\ row.id = c + 1
  <2>1. /\ r.kind \in HumanKinds /\ r.terms \in {1, 2} /\ r.size \in Amounts /\ r.units \in Amounts
        /\ r.rule \in RuleReasons \cup {"none"}
    BY DEF Records, HumanKinds
  <2>2. row \in ApprovalRec
    BY <1>0, <1>2, <2>1 DEF ApprovalRec
  <2>3. AsWritten(row)
    BY <1>0, <1>1, <2>1 DEF AsWritten, Wellformed
  <2>. QED  BY <1>0, <2>2, <2>3
<1>4. Ids' = Ids \cup {c + 1}
  BY <1>1, <1>3, IdsNext DEF ApprovalInv
<1>5. c + 1 \notin Ids
  BY <1>0, <1>1, <1>2 DEF ApprovalInv
<1>6. Cardinality(Ids') = c + 1
  BY <1>0, <1>2, <1>4, <1>5, FS_AddElement
<1>7. ApprovalTypes'
  BY <1>1, <1>3 DEF ApprovalInv, ApprovalTypes
<1>8. \A i \in DOMAIN apprRows' : ~apprRows'[i].consumed => AsWritten(apprRows'[i])
  <2>1. \A i \in DOMAIN apprRows' : apprRows'[i] # row => i \in DOMAIN apprRows /\ apprRows'[i] = apprRows[i]
    BY <1>1 DEF ApprovalInv, ApprovalTypes
  <2>. QED  BY <1>3, <2>1 DEF ApprovalInv
<1>9. \A id \in Ids' : id <= MaxSigned + Len(executed') /\ (id <= MaxSigned => id <= Cardinality(Ids'))
  <2>1. Len(executed) \in Nat /\ Len(executed') = Len(executed)
    BY <1>1 DEF ApprovalInv, ApprovalTypes
  <2>2. \A id \in Ids : id <= MaxSigned + Len(executed) /\ (id <= MaxSigned => id <= c)
    BY <1>0 DEF ApprovalInv
  <2>. QED  BY <1>1, <1>2, <1>4, <1>6, <2>1, <2>2
<1>10. AllApproved'
  <2>. SUFFICES ASSUME NEW i \in DOMAIN executed' PROVE HasApproval(executed[i].id, executed[i].order)'
    BY DEF AllApproved
  <2>1. PICK id, o : id = executed[i].id /\ o = executed[i].order
    OBVIOUS
  <2>2. i \in DOMAIN executed /\ executed' = executed
    BY <1>1
  <2>3. HasApproval(id, o) /\ (id # 0 => id \in Ids)
    BY <2>1, <2>2, PassedHasId DEF ApprovalInv, AllApproved
  <2>4. 0 # c + 1
    BY <1>2
  <2>5. HasApproval(id, o)'
    BY <1>1, <1>3, <1>5, <2>3, <2>4, RowOfOther
  <2>. QED  BY <2>1, <2>2, <2>5 DEF HasApproval, Autonomous, NewestOf, PassedOn
<1>11. \A i, j \in DOMAIN executed' : executed'[i].id # 0 /\ executed'[i].id = executed'[j].id => i = j
  BY <1>1 DEF ApprovalInv
<1>12. LiveNeverPasses'
  BY <1>1 DEF ApprovalInv, LiveNeverPasses
<1>. QED  BY <1>7, <1>8, <1>9, <1>10, <1>11, <1>12 DEF ApprovalInv

\* An order passes on an approval that no earlier order passed on.
LEMMA OrderPasses ==
  ASSUME ApprovalInv, engine' = engine, engine.mode = "paper", NEW o \in Orders,
         NEW row \in ApprovalRec, row.consumed, Stated(row) = Moved(o), row.terms = o.terms,
         o.exit \in RuleReasons /\ row.kind = "exit_rule" => row.rule = o.exit,
         apprRows' = Append(apprRows, row),
         executed' = Append(executed, [order |-> o, id |-> row.id]),
         \A i \in DOMAIN executed : executed[i].id # row.id,
         row.id <= MaxSigned + Len(executed) + 1,
         row.id <= MaxSigned => row.id \in Ids
  PROVE  ApprovalInv'
<1>0. PICK n, m, id : n = Len(apprRows) /\ m = Len(executed) /\ id = row.id
  OBVIOUS
<1>1. /\ n \in Nat /\ DOMAIN apprRows = 1 .. n /\ DOMAIN apprRows' = 1 .. n + 1
      /\ apprRows'[n + 1] = row /\ \A j \in 1 .. n : apprRows'[j] = apprRows[j]
  BY <1>0 DEF ApprovalInv, ApprovalTypes
<1>2. /\ m \in Nat /\ DOMAIN executed = 1 .. m /\ DOMAIN executed' = 1 .. m + 1
      /\ executed'[m + 1] = [order |-> o, id |-> id] /\ Len(executed') = m + 1
      /\ \A j \in 1 .. m : executed'[j] = executed[j]
  BY <1>0 DEF ApprovalInv, ApprovalTypes
<1>3. id \in Nat \ {0} /\ MaxSigned \in Nat
  BY <1>0, DoorAssumption DEF ApprovalRec, DoorAssumption
<1>4. ApprovalTypes'
  <2>1. executed \in Seq([order : Orders, id : Nat]) /\ apprRows \in Seq(ApprovalRec)
        /\ engine \in [mode : {"paper", "live"}, autonomy : {"manual-ticket", "autonomous-paper"}]
    BY DEF ApprovalInv, ApprovalTypes
  <2>2. [order |-> o, id |-> row.id] \in [order : Orders, id : Nat]
    BY <1>0, <1>3
  <2>. QED  BY <2>1, <2>2 DEF ApprovalTypes
<1>5. Ids' = Ids \cup {id}
  BY <1>0, IdsNext DEF ApprovalInv
<1>6. IsFiniteSet(Ids) /\ Cardinality(Ids) \in Nat /\ Ids \subseteq Nat \ {0}
  BY IdsFinite DEF ApprovalInv
<1>7. Cardinality(Ids') \in Nat /\ Cardinality(Ids) <= Cardinality(Ids')
  <2>1. IsFiniteSet(Ids') /\ Ids \in SUBSET Ids'
    BY <1>5, <1>6, FS_AddElement
  <2>. QED  BY <2>1, FS_Subset, FS_CardinalityType
<1>8. \A i \in Ids' : i <= MaxSigned + Len(executed') /\ (i <= MaxSigned => i <= Cardinality(Ids'))
  <2>1. \A i \in Ids : i <= MaxSigned + m /\ (i <= MaxSigned => i <= Cardinality(Ids))
    BY <1>0 DEF ApprovalInv
  <2>2. id <= MaxSigned + m + 1 /\ (id <= MaxSigned => id <= Cardinality(Ids))
    BY <1>0, <2>1
  <2>. QED  BY <1>2, <1>3, <1>5, <1>6, <1>7, <2>1, <2>2
<1>9. \A i \in DOMAIN apprRows' : ~apprRows'[i].consumed => AsWritten(apprRows'[i])
  BY <1>1 DEF ApprovalInv
<1>10. HasApproval(id, o)'
  <2>1. NewestOf(n + 1, id)'
    BY <1>0, <1>1 DEF NewestOf
  <2>2. PassedOn(n + 1, o)'
    BY <1>1 DEF PassedOn
  <2>3. n + 1 \in DOMAIN apprRows'
    BY <1>1
  <2>. QED  BY <1>3, <2>1, <2>2, <2>3 DEF HasApproval
<1>11. AllApproved'
  <2>. SUFFICES ASSUME NEW i \in DOMAIN executed' PROVE HasApproval(executed[i].id, executed[i].order)'
    BY DEF AllApproved
  <2>1. PICK id1, o1 : id1 = executed'[i].id /\ o1 = executed'[i].order
    OBVIOUS
  <2>2. HasApproval(id1, o1)'
    <3>1. CASE i = m + 1
      <4>1. id1 = id /\ o1 = o
        BY <1>2, <2>1, <3>1
      <4>. QED  BY <1>10, <4>1
    <3>2. CASE i # m + 1
      <4>1. i \in DOMAIN executed /\ id1 = executed[i].id /\ o1 = executed[i].order
        BY <1>2, <2>1, <3>2
      <4>2. HasApproval(id1, o1) /\ id1 # row.id
        BY <4>1 DEF ApprovalInv, AllApproved
      <4>. QED  BY <4>2, RowOfOther
    <3>. QED  BY <3>1, <3>2
  <2>. QED  BY <2>1, <2>2 DEF HasApproval, Autonomous, NewestOf, PassedOn
<1>12. \A i, j \in DOMAIN executed' : executed'[i].id # 0 /\ executed'[i].id = executed'[j].id => i = j
  <2>1. \A i \in 1 .. m : executed'[i].id # id /\ executed'[i].id = executed[i].id
    BY <1>0, <1>2
  <2>2. executed'[m + 1].id = id
    BY <1>2
  <2>3. \A i \in 1 .. m + 1 : i = m + 1 \/ i \in 1 .. m
    BY <1>2
  <2>4. \A i, j \in 1 .. m : executed[i].id # 0 /\ executed[i].id = executed[j].id => i = j
    BY <1>2 DEF ApprovalInv
  <2>. QED  BY <1>2, <2>1, <2>2, <2>3, <2>4
<1>13. LiveNeverPasses'
  BY DEF LiveNeverPasses
<1>. QED  BY <1>4, <1>8, <1>9, <1>11, <1>12, <1>13 DEF ApprovalInv

\* No order passes the gate of a live desk: some preconditions are never met.
LEMMA GateIsPaper == ASSUME ApprovalInv, GateOpen PROVE engine.mode = "paper"
BY DEF GateOpen, Unmet, NeverMet

\* What an approval binds is what it states.
LEMMA BoundIsStated ==
  ASSUME NEW a \in ApprovalRec, AsWritten(a), NEW o \in Orders, Binds(a, o),
         ~NamesOtherRule(a, o)
  PROVE  /\ Stated(a) = Moved(o) /\ a.terms = o.terms
         /\ o.exit \in RuleReasons /\ a.kind = "exit_rule" => a.rule = o.exit
<1>1. /\ o.side \in {"buy", "sell"} /\ o.size \in 0 .. 2 /\ o.units \in 0 .. 2
      /\ a.size \in 0 .. 2 /\ a.units \in 0 .. 2
  BY DEF Orders, ApprovalRec, Amounts
<1>2. a.kind \in HumanKinds /\ Wellformed(a) /\ OrderSide(a.kind) = o.side /\ SizeMatches(a, o)
  BY DEF AsWritten, Binds
<1>3. CASE a.kind = "human_buy"
  BY <1>1, <1>2, <1>3 DEF Wellformed, OrderSide, SizeMatches, Stated, Moved, Binds, NamesOtherRule
<1>4. CASE a.kind = "human_sell"
  BY <1>1, <1>2, <1>4 DEF Wellformed, OrderSide, SizeMatches, Stated, Moved, Binds, NamesOtherRule
<1>5. CASE a.kind = "exit_rule"
  BY <1>1, <1>2, <1>5 DEF Wellformed, OrderSide, SizeMatches, Stated, Moved, Binds, NamesOtherRule
<1>. QED  BY <1>2, <1>3, <1>4, <1>5 DEF HumanKinds

LEMMA MintedIsStated ==
  ASSUME NEW o \in Orders, o.exit \in RuleReasons, NEW id \in Nat \ {0}
  PROVE  LET a == Minted(o, id) IN
         /\ a \in ApprovalRec /\ a.consumed /\ a.id = id /\ a.kind = "autonomous_paper"
         /\ Stated(a) = Moved(o) /\ a.terms = o.terms
<1>1. /\ o.side = "sell" /\ o.size \in 0 .. 2 /\ o.units \in 0 .. 2 /\ o.terms \in {1, 2}
  BY DEF Orders, RuleReasons, Amounts
<1>. QED  BY <1>1 DEF Minted, ApprovalRec, Amounts, RuleReasons, Stated, Moved

LEMMA PlaceAutonomousKeeps ==
  ASSUME ApprovalInv, NEW o \in Orders, PlaceAutonomous(o) PROVE ApprovalInv'
<1>0. PICK id, m : m = Len(executed) /\ id = MaxSigned + m + 1
  OBVIOUS
<1>1. engine' = engine /\ engine.mode = "paper" /\ Autonomous(o)
  BY GateIsPaper DEF PlaceAutonomous
<1>2. m \in Nat /\ MaxSigned \in Nat /\ id \in Nat \ {0}
  BY <1>0, DoorAssumption DEF ApprovalInv, ApprovalTypes, DoorAssumption
<1>3. \A i \in DOMAIN executed : executed[i].id # id
  <2>. SUFFICES ASSUME NEW i \in DOMAIN executed, executed[i].id = id PROVE FALSE
    OBVIOUS
  <2>1. id \in Ids
    BY <1>2, PassedHasId
  <2>2. id <= MaxSigned + m
    BY <1>0, <2>1 DEF ApprovalInv
  <2>. QED  BY <1>0, <1>2, <2>2
<1>4. CASE o.exit \in RuleReasons
  <2>0. PICK row : row = Minted(o, id)
    OBVIOUS
  <2>1. /\ row \in ApprovalRec /\ row.consumed /\ row.id = id /\ row.kind = "autonomous_paper"
        /\ Stated(row) = Moved(o) /\ row.terms = o.terms
    BY <1>2, <1>4, <2>0, MintedIsStated
  <2>2. apprRows' = Append(apprRows, row) /\ executed' = Append(executed, [order |-> o, id |-> id])
    BY <1>0, <1>4, <2>0 DEF PlaceAutonomous
  <2>3. row.id <= MaxSigned + Len(executed) + 1 /\ ~(row.id <= MaxSigned)
    BY <1>0, <1>2, <2>1
  <2>. QED  BY <1>1, <1>3, <2>1, <2>2, <2>3, OrderPasses
<1>5. CASE o.exit \notin RuleReasons
  <2>1. /\ executed' = Append(executed, [order |-> o, id |-> 0]) /\ apprRows' = apprRows
        /\ executed \in Seq([order : Orders, id : Nat])
    BY <1>5 DEF PlaceAutonomous, ApprovalInv, ApprovalTypes
  <2>2. /\ DOMAIN executed = 1 .. m /\ DOMAIN executed' = 1 .. m + 1 /\ Len(executed') = m + 1
        /\ executed'[m + 1] = [order |-> o, id |-> 0] /\ \A j \in 1 .. m : executed'[j] = executed[j]
    BY <1>0, <2>1
  <2>3. ApprovalTypes'
    BY <1>1, <2>1 DEF ApprovalInv, ApprovalTypes
  <2>4. Ids' = Ids
    BY <2>1 DEF Ids
  <2>5. \A i \in Ids' : i <= MaxSigned + Len(executed') /\ (i <= MaxSigned => i <= Cardinality(Ids'))
    <3>1. \A i \in Ids : i <= MaxSigned + m /\ (i <= MaxSigned => i <= Cardinality(Ids))
      BY <1>0 DEF ApprovalInv
    <3>2. Ids \subseteq Nat
      BY IdsFinite DEF ApprovalInv
    <3>. QED  BY <1>2, <2>2, <2>4, <3>1, <3>2
  <2>6. AllApproved'
    <3>. SUFFICES ASSUME NEW i \in DOMAIN executed' PROVE HasApproval(executed[i].id, executed[i].order)'
      BY DEF AllApproved
    <3>1. PICK id1, o1 : id1 = executed'[i].id /\ o1 = executed'[i].order
      OBVIOUS
    <3>2. HasApproval(id1, o1)
      <4>1. CASE i = m + 1
        <5>1. id1 = 0 /\ o1 = o
          BY <2>2, <3>1, <4>1
        <5>. QED  BY <1>1, <5>1 DEF HasApproval
      <4>2. CASE i # m + 1
        <5>1. i \in 1 .. m
          BY <1>2, <2>2, <4>2
        <5>2. i \in DOMAIN executed /\ id1 = executed[i].id /\ o1 = executed[i].order
          BY <2>2, <3>1, <5>1
        <5>. QED  BY <5>2 DEF ApprovalInv, AllApproved
      <4>. QED  BY <4>1, <4>2
    <3>. QED  BY <1>1, <2>1, <3>1, <3>2 DEF HasApproval, Autonomous, NewestOf, PassedOn
  <2>7. \A i, j \in DOMAIN executed' : executed'[i].id # 0 /\ executed'[i].id = executed'[j].id => i = j
    <3>1. executed'[m + 1].id = 0
      BY <2>2
    <3>2. \A i \in 1 .. m + 1 : i = m + 1 \/ i \in 1 .. m
      BY <1>2
    <3>3. \A i, j \in 1 .. m : executed[i].id # 0 /\ executed[i].id = executed[j].id => i = j
      BY <2>2 DEF ApprovalInv
    <3>. QED  BY <2>2, <3>1, <3>2, <3>3
  <2>8. LiveNeverPasses'
    BY <1>1 DEF LiveNeverPasses
  <2>9. \A i \in DOMAIN apprRows' : ~apprRows'[i].consumed => AsWritten(apprRows'[i])
    BY <2>1 DEF ApprovalInv
  <2>. QED  BY <2>3, <2>5, <2>6, <2>7, <2>8, <2>9 DEF ApprovalInv
<1>. QED  BY <1>4, <1>5

LEMMA PlaceApprovedKeeps ==
  ASSUME ApprovalInv, NEW o \in Orders, PlaceApproved(o) PROVE ApprovalInv'
<1>0. PICK id, a, row : id = o.presents /\ a = LatestRow(id) /\ row = [a EXCEPT !.consumed = TRUE]
  OBVIOUS
<1>1. /\ engine' = engine /\ engine.mode = "paper" /\ id \in Usable
      /\ ~NamesOtherRule(a, o) /\ Binds(a, o)
      /\ apprRows' = Append(apprRows, row) /\ executed' = Append(executed, [order |-> o, id |-> id])
  BY <1>0, GateIsPaper DEF PlaceApproved
<1>2. id \in Ids /\ ~a.consumed
  BY <1>0, <1>1 DEF Usable
<1>3. PICK x : NewestOf(x, id)
  BY <1>2, NewestExists DEF ApprovalInv
<1>4. a = apprRows[x] /\ x \in DOMAIN apprRows /\ a.id = id
  BY <1>0, <1>3, NewestIs DEF ApprovalInv, NewestOf
<1>5. a \in ApprovalRec /\ AsWritten(a)
  BY <1>2, <1>4 DEF ApprovalInv, ApprovalTypes
<1>6. /\ Stated(a) = Moved(o) /\ a.terms = o.terms
      /\ o.exit \in RuleReasons /\ a.kind = "exit_rule" => a.rule = o.exit
  BY <1>1, <1>5, BoundIsStated
<1>7. /\ row \in ApprovalRec /\ row.consumed /\ row.id = id /\ row.kind = a.kind
      /\ row.terms = a.terms /\ row.size = a.size /\ row.units = a.units /\ row.rule = a.rule
  BY <1>0, <1>4, <1>5 DEF ApprovalRec
<1>8. Stated(row) = Stated(a)
  BY <1>7 DEF Stated
<1>9. id \in Nat \ {0} /\ id <= MaxSigned + Len(executed) /\ Len(executed) \in Nat /\ MaxSigned \in Nat
  BY <1>2, IdsFinite, DoorAssumption DEF ApprovalInv, ApprovalTypes, DoorAssumption
<1>10. \A i \in DOMAIN executed : executed[i].id # row.id
  BY <1>0, <1>2, <1>7, <1>9, PassedHasId
<1>11. row.id <= MaxSigned + Len(executed) + 1
  BY <1>7, <1>9
<1>. QED  BY <1>1, <1>2, <1>6, <1>7, <1>8, <1>10, <1>11, OrderPasses

LEMMA ApprovalsGoOn == ApprovalInv /\ [ApprovalNext]_approvalVars => ApprovalInv'
<1>. SUFFICES ASSUME ApprovalInv, [ApprovalNext]_approvalVars PROVE ApprovalInv'
  OBVIOUS
<1>1. ASSUME UNCHANGED <<engine, apprRows, executed>> PROVE ApprovalInv'
  <2>1. engine' = engine /\ apprRows' = apprRows /\ executed' = executed
    BY <1>1
  <2>2. ApprovalTypes' /\ Ids' = Ids /\ LiveNeverPasses'
    BY <2>1 DEF ApprovalInv, ApprovalTypes, Ids, LiveNeverPasses
  <2>3. AllApproved'
    <3>. SUFFICES ASSUME NEW i \in DOMAIN executed' PROVE HasApproval(executed[i].id, executed[i].order)'
      BY DEF AllApproved
    <3>1. PICK id, o : id = executed[i].id /\ o = executed[i].order
      OBVIOUS
    <3>2. HasApproval(id, o)
      BY <2>1, <3>1 DEF ApprovalInv, AllApproved
    <3>. QED  BY <2>1, <3>1, <3>2 DEF HasApproval, Autonomous, NewestOf, PassedOn
  <2>. QED  BY <2>1, <2>2, <2>3 DEF ApprovalInv
<1>2. CASE RefuseLive
  BY <1>1, <1>2 DEF RefuseLive
<1>3. CASE UNCHANGED approvalVars
  BY <1>1, <1>3 DEF approvalVars
<1>. QED
  BY <1>2, <1>3, RecordHumanKeeps, PlaceAutonomousKeeps, PlaceApprovedKeeps DEF ApprovalNext

LEMMA ApprovalPromise == ApprovalInv => ApprovedAmountOnly /\ LiveNeverPasses
<1>. SUFFICES ASSUME ApprovalInv PROVE ApprovedAmountOnly
  BY DEF ApprovalInv
<1>. SUFFICES ASSUME NEW i \in DOMAIN executed, NEW o, NEW id, o = executed[i].order, id = executed[i].id
     PROVE  /\ id = 0 => Autonomous(o)
            /\ id # 0 =>
                 /\ LatestRow(id).consumed
                 /\ Stated(LatestRow(id)) = Moved(o) /\ LatestRow(id).terms = o.terms
                 /\ o.exit \in RuleReasons /\ LatestRow(id).kind = "exit_rule"
                      => LatestRow(id).rule = o.exit
                 /\ \A j \in DOMAIN executed : executed[j].id = id => j = i
  BY DEF ApprovedAmountOnly
<1>1. HasApproval(id, o)
  BY DEF ApprovalInv, AllApproved
<1>2. CASE id = 0
  BY <1>1, <1>2 DEF HasApproval
<1>3. CASE id # 0
  <2>1. PICK x \in DOMAIN apprRows : NewestOf(x, id) /\ PassedOn(x, o)
    BY <1>1, <1>3 DEF HasApproval
  <2>2. LatestRow(id) = apprRows[x]
    BY <2>1, NewestIs DEF ApprovalInv
  <2>3. \A j \in DOMAIN executed : executed[j].id = id => j = i
    BY <1>3 DEF ApprovalInv
  <2>. QED  BY <1>3, <2>1, <2>2, <2>3 DEF PassedOn
<1>. QED  BY <1>2, <1>3

\* For any people, approvals, orders, thresholds and days: an order moves what a
\* person's unused approval states or passes on the desk's own authority, none
\* passes on a live desk, the live gate reads the paper window as it is, and an
\* approval of live trading names a file that is in place.
THEOREM DoorIsSound == DoorSpec => []DoorSound
<1>1. DoorInit => ApprovalInv /\ WindowInv /\ ConfirmInv
  BY ApprovalsStart, WindowStarts, ConfirmStarts
<1>2. ApprovalInv /\ WindowInv /\ ConfirmInv /\ [DoorNext]_doorVars
        => ApprovalInv' /\ WindowInv' /\ ConfirmInv'
  <2>. SUFFICES ASSUME ApprovalInv, WindowInv, ConfirmInv, [DoorNext]_doorVars
       PROVE  ApprovalInv' /\ WindowInv' /\ ConfirmInv'
    OBVIOUS
  <2>1. [ApprovalNext]_approvalVars /\ [WindowNext]_windowVars /\ [ConfirmNext]_confirmVars
    <3>1. CASE ApprovalNext
      BY <3>1 DEF ApprovalNext, RecordHuman, PlaceAutonomous, PlaceApproved, RefuseLive
    <3>2. CASE WindowNext
      BY <3>2 DEF WindowNext, NextDay, LogRow
    <3>3. CASE ConfirmNext
      BY <3>3 DEF ConfirmNext, Confirm, OpenDraft, WriteDraft, PutInPlace, AppendLiveApproval,
         ConfirmerDies
    <3>4. CASE UNCHANGED doorVars
      BY <3>4 DEF doorVars
    <3>. QED  BY <3>1, <3>2, <3>3, <3>4 DEF DoorNext
  <2>. QED  BY <2>1, ApprovalsGoOn, WindowGoesOn, ConfirmGoesOn
<1>3. ApprovalInv /\ WindowInv /\ ConfirmInv => DoorSound
  BY ApprovalPromise, WindowPromise, ConfirmPromise DEF DoorSound
<1> QED BY <1>1, <1>2, <1>3, PTL DEF DoorSpec

=============================================================================
