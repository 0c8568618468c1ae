---------------------------- MODULE ServeProofs ----------------------------
(***************************************************************************)
(* Proofs about ServeTimeline, for every recording, sets of rules and      *)
(* latencies, and any number of promotions, deaths and restarts: what a    *)
(* process decided about a candidate or a position stands.  Then the types *)
(* of the desk that composes it with the edges, and ReplayRuns: ledgers,   *)
(* backtests and windows of a recording, each one run's own.  Last the     *)
(* promises of all the edges at once, whose parts are in EdgeProofs.       *)
(***************************************************************************)
EXTENDS MCDesk, DeskProofs

-----------------------------------------------------------------------------
(* The inductive invariant *)

Position == [seq : Nat \ {0}, entry : Nat, peak : Nat, ts : Nat]
Books == [Mints -> Position \cup {Nothing}]

TimeTypes ==
  /\ orders \subseteq [tick : Ticks, mint : Mints, ts : Nat, life : Nat] /\ deaths \in Nat
  /\ open \in Books /\ tracked \in Books /\ seen \in [Mints -> Nat]
  /\ opened \in Nat /\ tail \in Nat /\ resumed \in Nat /\ reloadedAt \in Nat
  /\ phase \in {"placing", "inflight"} => buying \in Ticks
  /\ ServeTypeOK

\* What is marked of a position is seen, and so is what the exit seat tracks of it.
MarkedSeen ==
  \A m \in Mints :
    /\ open[m] # Nothing => open[m].peak <= seen[m]
    /\ open[m] # Nothing /\ tracked[m].seq = open[m].seq => tracked[m].peak <= seen[m]

\* A position under the rules' eyes is one that sync gave, as marked as the book's.
LookedAtIsHeld ==
  \A m \in looking :
    /\ tracked[m] # Nothing
    /\ phase = "look" => open[m] # Nothing /\ tracked[m].seq = open[m].seq
                         /\ open[m].peak <= tracked[m].peak

\* What this life of the process ordered it has attempted, and the candidate it
\* is about to order it has not ordered.
OrderedIsAttempted ==
  \A o \in orders :
    /\ o.life <= deaths /\ (phase = "down" => o.life < deaths)
    /\ phase # "down" /\ o.life = deaths => o.tick \in attempted
    /\ phase = "placing" /\ o.life = deaths => o.tick # buying

\* What the last reload passed is attempted, so it is not what is being bought.
PassedIsAttempted ==
  /\ phase # "down" => \A i \in Ticks : Recording[i].ts <= reloadedAt => i \in attempted
  /\ phase = "placing" => buying \in attempted
  /\ phase \in {"placing", "inflight"} => Recording[buying].ts > reloadedAt

TimelineInv ==
  /\ TimeTypes /\ MarkedSeen /\ LookedAtIsHeld /\ OrderedIsAttempted /\ PassedIsAttempted
  /\ UnknownHeldOut /\ OrderedOncePerLife

-----------------------------------------------------------------------------
(* The recording *)

TickRec == [mint : Mints, ts : Nat \ {0}, price : Nat \ {0}, complete : BOOLEAN]

LEMMA ServeFacts ==
  /\ Ticks = 1 .. Len(Recording) /\ Len(Recording) \in Nat \ {0} /\ IsFiniteSet(Ticks)
  /\ Recording \in [Ticks -> TickRec]
  /\ Passes \in [RuleSets -> SUBSET Ticks]
  /\ Latencies \subseteq Nat \ {0}
  /\ Nothing.seq = 0 /\ Nothing \notin Position
<1>. DEFINE T == [mint : Mints, ts : Nat \ {0}, price : Nat \ {0}, complete : BOOLEAN]
<1>1. Recording \in Seq(T) /\ Recording # <<>>
  BY ServeAssumption
<1>2. Len(Recording) \in Nat /\ Len(Recording) # 0 /\ Recording \in [1 .. Len(Recording) -> T]
  <2>. HIDE DEF T
  <2>. QED  BY <1>1
<1>3. Ticks = 1 .. Len(Recording)
  <2>. HIDE DEF T
  <2>. QED  BY <1>2 DEF Ticks
<1>4. IsFiniteSet(1 .. Len(Recording))
  BY <1>2, FS_Interval
<1>5. Nothing.seq = 0 /\ Nothing \notin Position
  BY DEF Nothing, Position
<1>. QED  BY <1>2, <1>3, <1>4, <1>5, ServeAssumption DEF TickRec

LEMMA StampsOrdered ==
  /\ Stamps \subseteq Nat /\ IsFiniteSet(Stamps) /\ Stamps # {}
<1>1. Ticks # {} /\ Stamps \subseteq Nat /\ Stamps # {}
  BY ServeFacts DEF Stamps, TickRec
<1>2. [i \in Ticks |-> Recording[i].ts] \in Surjection(Ticks, Stamps)
  BY DEF Surjection, Stamps
<1>3. IsFiniteSet(Stamps)
  BY <1>2, ServeFacts, FS_Surjection
<1>. QED  BY <1>1, <1>3

\* Min and Max of FiniteSetsExt choose an element.
LEMMA MinIsIn ==
  ASSUME NEW S \in SUBSET Nat, IsFiniteSet(S), S # {}
  PROVE  Min(S) \in S
<1>1. S \in SUBSET Int
  OBVIOUS
<1>2. \E x \in S : \A y \in S : x <= y
  BY <1>1, SmallestOfFinite
<1>. QED  BY <1>2 DEF Min

LEMMA MaxIsIn ==
  ASSUME NEW S \in SUBSET Nat, IsFiniteSet(S), S # {}
  PROVE  Max(S) \in S
<1>1. S \in SUBSET Int
  OBVIOUS
<1>2. \E x \in S : \A y \in S : y <= x
  BY <1>1, Greatest
<1>3. \E x \in S : \A y \in S : x >= y
  BY <1>1, <1>2
<1>. QED  BY <1>3 DEF Max

LEMMA Priced ==
  ASSUME NEW m, NEW t
  PROVE  Price(m, t) \in Nat
<1>. DEFINE past == {i \in Ticks : Recording[i].mint = m /\ Recording[i].ts <= t}
<1>1. past \subseteq Ticks /\ past \subseteq Nat /\ IsFiniteSet(past)
  BY ServeFacts, FS_Subset
<1>2. past # {} => Max(past) \in Ticks
  <2>. HIDE DEF past
  <2>. QED  BY <1>1, MaxIsIn
<1>3. Latest(m, t) = IF past = {} THEN 0 ELSE Max(past)
  BY DEF Latest
<1>4. Latest(m, t) \in Ticks \cup {0}
  <2>. HIDE DEF past
  <2>. QED  BY <1>2, <1>3
<1>. QED  BY <1>4, ServeFacts DEF Price, TickRec

LEMMA NextStampAhead ==
  ASSUME now \in Nat
  PROVE  NextStamp \in Nat /\ now <= NextStamp
<1>. DEFINE ahead == {s \in Stamps : s >= now /\ s > resumed}
<1>1. ahead \subseteq Nat /\ IsFiniteSet(ahead) /\ \A s \in ahead : now <= s
  BY StampsOrdered, FS_Subset
<1>2. NextStamp = IF ahead = {} THEN now + 1 ELSE Min(ahead)
  BY DEF NextStamp
<1>3. ahead # {} => Min(ahead) \in ahead
  <2>. HIDE DEF ahead
  <2>. QED  BY <1>1, MinIsIn
<1>. HIDE DEF ahead
<1>. QED  BY <1>1, <1>2, <1>3

LEMMA FirstEligible ==
  ASSUME TimeTypes, Eligible # {}
  PROVE  Min(Eligible) \in Ticks /\ Min(Eligible) \in Passes[rules]
         /\ Min(Eligible) \notin attempted /\ Recording[Min(Eligible)].ts <= now
<1>1. Eligible \subseteq Ticks
  BY ServeFacts DEF Eligible, TimeTypes, ServeTypeOK
<1>2. Eligible \subseteq Nat
  BY <1>1, ServeFacts
<1>4. IsFiniteSet(Eligible)
  BY <1>1, ServeFacts, FS_Subset
<1>3. Min(Eligible) \in Eligible
  BY <1>2, <1>4, MinIsIn
<1>. QED  BY <1>1, <1>3 DEF Eligible

-----------------------------------------------------------------------------
(* Marks *)

SeenAt(t) ==
  [m \in Mints |-> IF open[m] = Nothing \/ Graduated(m, t) THEN seen[m]
                   ELSE Larger(seen[m], Price(m, t))]

\* A mark raises peaks and what is seen together; it opens and closes nothing.
LEMMA MarksKeep ==
  ASSUME TimeTypes, MarkedSeen, NEW t \in Nat
  PROVE  /\ Marked(open, t) \in Books /\ SeenAt(t) \in [Mints -> Nat]
         /\ \A m \in Mints :
              /\ Marked(open, t)[m].seq = open[m].seq
              /\ Marked(open, t)[m] = Nothing <=> open[m] = Nothing
              /\ seen[m] <= SeenAt(t)[m]
              /\ open[m] # Nothing => Marked(open, t)[m].peak <= SeenAt(t)[m]
<1>1. ASSUME NEW m \in Mints
      PROVE  /\ Marked(open, t)[m] \in Position \cup {Nothing} /\ SeenAt(t)[m] \in Nat
             /\ Marked(open, t)[m].seq = open[m].seq
             /\ Marked(open, t)[m] = Nothing <=> open[m] = Nothing
             /\ seen[m] <= SeenAt(t)[m]
             /\ open[m] # Nothing => Marked(open, t)[m].peak <= SeenAt(t)[m]
  <2>1. seen[m] \in Nat /\ open[m] \in Position \cup {Nothing}
        /\ (open[m] # Nothing => open[m] \in Position /\ open[m].peak <= seen[m])
    BY DEF TimeTypes, Books, MarkedSeen
  <2>2. Price(m, t) \in Nat
    BY Priced
  <2>3. CASE open[m] = Nothing \/ Graduated(m, t)
    <3>1. Marked(open, t)[m] = open[m] /\ SeenAt(t)[m] = seen[m]
      BY <2>3 DEF Marked, SeenAt
    <3>. QED  BY <2>1, <3>1
  <2>4. CASE ~(open[m] = Nothing \/ Graduated(m, t))
    <3>. DEFINE q == [open[m] EXCEPT !.peak = Larger(open[m].peak, Price(m, t))]
    <3>1. Marked(open, t)[m] = q /\ SeenAt(t)[m] = Larger(seen[m], Price(m, t))
      BY <2>4 DEF Marked, SeenAt
    <3>2. open[m] \in Position /\ open[m] # Nothing
      BY <2>1, <2>4
    <3>3. q \in Position /\ q.seq = open[m].seq /\ q.peak = Larger(open[m].peak, Price(m, t))
      BY <2>2, <3>2 DEF Position, Larger
    <3>4. q # Nothing
      BY <3>3, ServeFacts
    <3>. HIDE DEF q
    <3>. QED  BY <2>1, <2>2, <3>1, <3>2, <3>3, <3>4 DEF Larger, Position
  <2>. QED  BY <2>3, <2>4
<1>2. Marked(open, t) = [m \in Mints |-> Marked(open, t)[m]]
      /\ SeenAt(t) = [m \in Mints |-> SeenAt(t)[m]]
  BY DEF Marked, SeenAt
<1>3. Marked(open, t) \in Books /\ SeenAt(t) \in [Mints -> Nat]
  BY <1>1, <1>2, Zenon DEF Books
<1>. QED  BY <1>1, <1>3

-----------------------------------------------------------------------------
(* Steps *)

LEMMA TimelineStarts == TickInit => TimelineInv
<1>. SUFFICES ASSUME TickInit PROVE TimelineInv
  OBVIOUS
<1>1. now \in Nat
  <2>1. Min(Stamps) \in Nat
    BY StampsOrdered, MinIsIn
  <2>. QED  BY <2>1 DEF TickInit
<1>2. \A m \in Mints : open[m] = Nothing /\ tracked[m] = Nothing
  BY DEF TickInit
<1>3. TimeTypes
  BY <1>1, <1>2, ServeFacts DEF TickInit, TimeTypes, ServeTypeOK, Books, Phases
<1>. QED
  BY <1>2, <1>3 DEF TickInit, TimelineInv, MarkedSeen, LookedAtIsHeld, OrderedIsAttempted,
     PassedIsAttempted, UnknownHeldOut, OrderedOncePerLife

LEMMA ResumeKeeps == TimelineInv /\ Resume => TimelineInv'
<1>. SUFFICES ASSUME TimelineInv, Resume PROVE TimelineInv'
  OBVIOUS
<1>1. now' \in Nat /\ tail <= now'
  <2>1. Min(Stamps) \in Nat
    BY StampsOrdered, MinIsIn
  <2>. QED  BY <2>1 DEF Resume, Larger, TimelineInv, TimeTypes
<1>2. attempted' \subseteq Ticks
  BY ServeFacts DEF Resume, TimelineInv, TimeTypes, ServeTypeOK
<1>3. tracked' = [m \in Mints |-> Nothing]
  BY DEF Resume
<1>4. TimeTypes'
  BY <1>1, <1>2, <1>3, ServeFacts
     DEF Resume, desk, TimelineInv, TimeTypes, ServeTypeOK, Books, Phases
<1>5. MarkedSeen'
  BY <1>3, ServeFacts
     DEF Resume, desk, TimelineInv, TimeTypes, Books, Position, MarkedSeen
<1>6. OrderedIsAttempted'
  <2>1. \A o \in orders : o.life \in Nat /\ o.life < deaths /\ deaths \in Nat
    BY DEF Resume, TimelineInv, TimeTypes, OrderedIsAttempted
  <2>. QED  BY <2>1 DEF Resume, desk, OrderedIsAttempted
<1>7. PassedIsAttempted'
  BY ServeFacts DEF Resume, desk, PassedIsAttempted, TickRec
<1>. QED
  BY <1>4, <1>5, <1>6, <1>7
     DEF Resume, desk, TimelineInv, LookedAtIsHeld, UnknownHeldOut, OrderedOncePerLife

LEMMA DieKeeps == TimelineInv /\ Die => TimelineInv'
  BY DEF Die, desk, memory, TimelineInv, TimeTypes, ServeTypeOK, Phases, MarkedSeen,
     LookedAtIsHeld, OrderedIsAttempted, PassedIsAttempted, UnknownHeldOut, OrderedOncePerLife

LEMMA BeginTickKeeps == TimelineInv /\ BeginTick => TimelineInv'
<1>. SUFFICES ASSUME TimelineInv, BeginTick PROVE TimelineInv'
  OBVIOUS
<1>1. now' \in Nat /\ now <= now' /\ resumed' \in Nat
  BY NextStampAhead DEF BeginTick, Larger, TimelineInv, TimeTypes, ServeTypeOK
<1>2. TimeTypes'
  BY <1>1 DEF BeginTick, desk, memory, TimelineInv, TimeTypes, ServeTypeOK, Phases
<1>. QED
  BY <1>2 DEF BeginTick, desk, memory, TimelineInv, MarkedSeen,
     LookedAtIsHeld, OrderedIsAttempted, PassedIsAttempted, UnknownHeldOut, OrderedOncePerLife

LEMMA SniperObservesKeeps == TimelineInv /\ SniperObserves => TimelineInv'
  BY DEF SniperObserves, desk, memory, TimelineInv, TimeTypes, ServeTypeOK, Phases, MarkedSeen,
     LookedAtIsHeld, OrderedIsAttempted, PassedIsAttempted, UnknownHeldOut, OrderedOncePerLife

\* A step that marks the book, or leaves it.
LEMMA MarkedBook ==
  ASSUME TimelineInv,
         \/ open' = Marked(open, now) /\ seen' = SeenAt(now) /\ tail' \in {tail, now}
         \/ open' = open /\ seen' = seen /\ tail' = tail,
         tracked' = tracked
  PROVE  /\ open' \in Books /\ seen' \in [Mints -> Nat]
         /\ tail' \in Nat /\ tail <= tail' /\ tail' <= now
         /\ \A m \in Mints : open'[m].seq = open[m].seq
         /\ MarkedSeen'
<1>1. now \in Nat /\ tail \in Nat /\ tail <= now
  BY DEF TimelineInv, TimeTypes, ServeTypeOK
<1>2. /\ open' \in Books /\ seen' \in [Mints -> Nat] /\ tail' \in Nat /\ tail <= tail' /\ tail' <= now
      /\ \A m \in Mints :
           /\ open'[m].seq = open[m].seq /\ (open'[m] = Nothing <=> open[m] = Nothing)
           /\ seen[m] <= seen'[m] /\ (open[m] # Nothing => open'[m].peak <= seen'[m])
  <2>1. CASE open' = Marked(open, now) /\ seen' = SeenAt(now) /\ tail' \in {tail, now}
    <3>1. TimeTypes /\ MarkedSeen
      BY DEF TimelineInv
    <3>. QED  BY <1>1, <2>1, <3>1, MarksKeep
  <2>2. CASE open' = open /\ seen' = seen /\ tail' = tail
    BY <1>1, <2>2 DEF TimelineInv, TimeTypes, MarkedSeen
  <2>. QED  BY <2>1, <2>2
<1>3. ASSUME NEW m \in Mints, open'[m] # Nothing, tracked[m].seq = open'[m].seq
      PROVE  tracked[m].peak <= seen'[m]
  <2>1. tracked[m].peak <= seen[m]
    BY <1>2, <1>3 DEF TimelineInv, MarkedSeen
  <2>2. tracked[m] \in Position
    BY <1>2, <1>3, ServeFacts DEF TimelineInv, TimeTypes, Books, Position
  <2>3. seen[m] \in Nat /\ seen'[m] \in Nat /\ seen[m] <= seen'[m] /\ tracked[m].peak \in Nat
    BY <1>2, <2>2 DEF TimelineInv, TimeTypes, Position
  <2>. QED  BY <2>1, <2>3
<1>. QED  BY <1>2, <1>3 DEF MarkedSeen

\* Such a step that goes on to a phase outside the look, or takes a candidate.
LEMMA MarkedOn ==
  ASSUME TimelineInv, phase \notin {"down", "placing", "inflight"},
         \/ open' = Marked(open, now) /\ seen' = SeenAt(now) /\ tail' \in {tail, now}
         \/ open' = open /\ seen' = seen /\ tail' = tail,
         phase' \in {"exit", "boundary", "placing"},
         attempted \subseteq attempted', attempted' \subseteq Ticks,
         buying' \in Ticks \cup {0},
         phase' = "placing" => /\ buying' \in Ticks /\ buying' \in attempted' \ attempted
                               /\ Recording[buying'].ts > reloadedAt,
         UNCHANGED <<orders, opened, target, now, resumed, looking, tracked, heldOut,
                     rules, reloadedAt, deaths>>
  PROVE  TimelineInv'
<1>1. /\ open' \in Books /\ seen' \in [Mints -> Nat]
      /\ tail' \in Nat /\ tail' <= now
      /\ \A m \in Mints : open'[m].seq = open[m].seq
      /\ MarkedSeen'
  BY MarkedBook DEF TimelineInv, TimeTypes
<1>2. TimeTypes'
  BY <1>1 DEF TimelineInv, TimeTypes, ServeTypeOK, Phases
<1>3. OrderedIsAttempted'
  BY DEF TimelineInv, OrderedIsAttempted
<1>4. PassedIsAttempted'
  BY DEF TimelineInv, PassedIsAttempted
<1>. QED
  BY <1>1, <1>2, <1>3, <1>4
     DEF TimelineInv, LookedAtIsHeld, UnknownHeldOut, OrderedOncePerLife

LEMMA MarkRowsIs ==
  ASSUME NEW STATE t, MarkRows(t)
  PROVE  open' = Marked(open, t) /\ seen' = SeenAt(t) /\ tail' \in {tail, t}
  BY DEF MarkRows, SeenAt

LEMMA SniperDoneKeeps == TimelineInv /\ SniperDone => TimelineInv'
<1>. SUFFICES ASSUME TimelineInv, SniperDone PROVE TimelineInv'
  OBVIOUS
<1>1. \/ open' = Marked(open, now) /\ seen' = SeenAt(now) /\ tail' \in {tail, now}
      \/ open' = open /\ seen' = seen /\ tail' = tail
  BY MarkRowsIs DEF SniperDone
<1>2. attempted \subseteq Ticks /\ buying \in Ticks \cup {0}
  BY DEF TimelineInv, TimeTypes, ServeTypeOK
<1>. QED  BY <1>1, <1>2, MarkedOn DEF SniperDone, memory

LEMMA EndOfSeatsKeeps == TimelineInv /\ EndOfSeats => TimelineInv'
<1>. SUFFICES ASSUME TimelineInv, EndOfSeats PROVE TimelineInv'
  OBVIOUS
<1>1. \/ open' = Marked(open, now) /\ seen' = SeenAt(now) /\ tail' \in {tail, now}
      \/ open' = open /\ seen' = seen /\ tail' = tail
  BY MarkRowsIs DEF EndOfSeats
<1>2. attempted \subseteq Ticks /\ buying \in Ticks \cup {0}
  BY DEF TimelineInv, TimeTypes, ServeTypeOK
<1>. QED  BY <1>1, <1>2, MarkedOn DEF EndOfSeats, memory

LEMMA ReloadRulesKeeps == TimelineInv /\ ReloadRules => TimelineInv'
<1>. SUFFICES ASSUME TimelineInv, ReloadRules PROVE TimelineInv'
  OBVIOUS
<1>1. attempted \subseteq attempted' /\ attempted' \subseteq Ticks /\ reloadedAt' \in Nat
      /\ rules' \in RuleSets
  BY DEF ReloadRules, TimelineInv, TimeTypes, ServeTypeOK
<1>2. TimeTypes'
  BY <1>1 DEF ReloadRules, desk, TimelineInv, TimeTypes, ServeTypeOK, Phases
<1>3. OrderedIsAttempted'
  BY <1>1 DEF ReloadRules, desk, TimelineInv, OrderedIsAttempted
<1>4. PassedIsAttempted'
  BY <1>1 DEF ReloadRules, TimelineInv, PassedIsAttempted
<1>. QED
  BY <1>2, <1>3, <1>4
     DEF ReloadRules, desk, TimelineInv, MarkedSeen, LookedAtIsHeld, UnknownHeldOut,
         OrderedOncePerLife

LEMMA PromoteKeeps ==
  ASSUME TimelineInv, NEW r \in RuleSets, Promote(r)
  PROVE  TimelineInv'
  BY DEF Promote, desk, memory, TimelineInv, TimeTypes, ServeTypeOK, MarkedSeen,
     LookedAtIsHeld, OrderedIsAttempted, PassedIsAttempted, UnknownHeldOut, OrderedOncePerLife

LEMMA TakeCandidateKeeps == TimelineInv /\ TakeCandidate => TimelineInv'
<1>. SUFFICES ASSUME TimelineInv, TakeCandidate PROVE TimelineInv'
  OBVIOUS
<1>. DEFINE i == Min(Eligible)
<1>1. i \in Ticks /\ i \notin attempted /\ phase = "sniper"
  BY FirstEligible DEF TakeCandidate, TimelineInv
<1>2. Recording[i].ts > reloadedAt
  BY <1>1, ServeFacts DEF TimelineInv, PassedIsAttempted, TimeTypes, TickRec
<1>3. /\ attempted' = attempted \cup {i} /\ phase' = "placing" /\ buying' = i
      /\ open' = Marked(open, now) /\ seen' = SeenAt(now) /\ tail' \in {tail, now}
      /\ UNCHANGED <<orders, opened, target, now, resumed, looking, tracked, heldOut, rules,
                     reloadedAt, deaths>>
  BY MarkRowsIs DEF TakeCandidate
<1>. HIDE DEF i
<1>4. attempted' \subseteq Ticks
  BY <1>1, <1>3 DEF TimelineInv, TimeTypes, ServeTypeOK
<1>. QED  BY <1>1, <1>2, <1>3, <1>4, MarkedOn

\* What the end of the order check leaves alone, refused or not.
LEMMA Arrives ==
  ASSUME TimelineInv, NEW lag \in Latencies, OrderArrives(lag)
  PROVE  /\ phase = "placing" /\ now' \in Nat /\ tail' \in Nat /\ tail' <= now'
         /\ now' = now + lag /\ MarkedSeen'
         /\ UNCHANGED <<open, opened, target, resumed, attempted, looking, tracked, heldOut,
                        rules, reloadedAt, deaths, seen>>
<1>1. now \in Nat /\ lag \in Nat
  BY ServeFacts DEF TimelineInv, TimeTypes, ServeTypeOK
<1>2. UNCHANGED <<open, opened, target, resumed, attempted, looking, tracked, heldOut,
                  rules, reloadedAt, deaths, seen>>
  BY DEF OrderArrives
<1>3. MarkedSeen'
  BY <1>2 DEF TimelineInv, MarkedSeen
<1>. QED  BY <1>1, <1>2, <1>3 DEF OrderArrives

LEMMA RefuseOrderKeeps == TimelineInv /\ RefuseOrder => TimelineInv'
<1>. SUFFICES ASSUME TimelineInv, RefuseOrder PROVE TimelineInv'
  OBVIOUS
<1>1. PICK lag \in Latencies : OrderArrives(lag)
  BY DEF RefuseOrder
<1>2. /\ phase = "placing" /\ now' \in Nat /\ tail' \in Nat /\ tail' <= now' /\ MarkedSeen'
      /\ UNCHANGED <<open, opened, target, resumed, attempted, looking, tracked, heldOut,
                     rules, reloadedAt, deaths, seen>>
  BY <1>1, Arrives
<1>3. phase' = "sniper" /\ buying' = 0 /\ orders' = orders
  BY DEF RefuseOrder
<1>4. TimeTypes'
  BY <1>2, <1>3 DEF TimelineInv, TimeTypes, ServeTypeOK, Phases
<1>. QED
  BY <1>2, <1>3, <1>4 DEF TimelineInv, LookedAtIsHeld, OrderedIsAttempted, PassedIsAttempted,
     UnknownHeldOut, OrderedOncePerLife

LEMMA SubmitOrderKeeps == TimelineInv /\ SubmitOrder => TimelineInv'
<1>. SUFFICES ASSUME TimelineInv, SubmitOrder PROVE TimelineInv'
  OBVIOUS
<1>1. PICK lag \in Latencies :
        /\ OrderArrives(lag) /\ phase' = "inflight" /\ buying' = buying
        /\ orders' = orders \cup {[tick |-> buying, mint |-> Recording[buying].mint,
                                   ts |-> now + lag, life |-> deaths]}
  BY DEF SubmitOrder
<1>. DEFINE row == [tick |-> buying, mint |-> Recording[buying].mint, ts |-> now + lag,
                    life |-> deaths]
<1>2. /\ phase = "placing" /\ now' \in Nat /\ tail' \in Nat /\ tail' <= now' /\ MarkedSeen'
      /\ now' = now + lag
      /\ UNCHANGED <<open, opened, target, resumed, attempted, looking, tracked, heldOut,
                     rules, reloadedAt, deaths, seen>>
  BY <1>1, Arrives
<1>3. /\ orders' = orders \cup {row} /\ row.tick = buying /\ row.life = deaths
      /\ buying \in Ticks /\ deaths \in Nat
  BY <1>1, <1>2 DEF TimelineInv, TimeTypes
<1>4. row \in [tick : Ticks, mint : Mints, ts : Nat, life : Nat]
  <2>1. Recording[buying].mint \in Mints
    BY <1>3, ServeFacts DEF TickRec
  <2>. QED  BY <1>2, <1>3, <2>1
<1>. HIDE DEF row
<1>5. TimeTypes'
  BY <1>1, <1>2, <1>3, <1>4 DEF TimelineInv, TimeTypes, ServeTypeOK, Phases
<1>6. OrderedIsAttempted'
  BY <1>1, <1>2, <1>3 DEF TimelineInv, OrderedIsAttempted, PassedIsAttempted
<1>7. OrderedOncePerLife'
  BY <1>2, <1>3 DEF TimelineInv, OrderedIsAttempted, OrderedOncePerLife
<1>. QED
  BY <1>1, <1>2, <1>5, <1>6, <1>7
     DEF TimelineInv, LookedAtIsHeld, PassedIsAttempted, UnknownHeldOut

LEMMA SettleBuyKeeps == TimelineInv /\ SettleBuy => TimelineInv'
<1>. SUFFICES ASSUME TimelineInv, SettleBuy PROVE TimelineInv'
  OBVIOUS
<1>. DEFINE m == Recording[buying].mint
<1>1. PICK wait \in Latencies :
        /\ now' = now + wait /\ tail' = now + wait
        /\ \/ UNCHANGED <<open, opened, seen>>
           \/ /\ opened' = opened + 1
              /\ open' = [open EXCEPT ![m] = [seq |-> opened + 1, ts |-> now + wait,
                                              entry |-> Price(m, now + wait),
                                              peak |-> Price(m, now + wait)]]
              /\ seen' = [seen EXCEPT ![m] = Price(m, now + wait)]
  BY DEF SettleBuy
<1>2. /\ phase = "inflight" /\ phase' = "sniper" /\ buying' = 0
      /\ UNCHANGED <<orders, target, resumed, attempted, looking, tracked, heldOut, rules,
                     reloadedAt, deaths>>
  BY DEF SettleBuy
<1>. DEFINE price == Price(m, now + wait)
            new == [seq |-> opened + 1, ts |-> now + wait, entry |-> price, peak |-> price]
<1>3. now \in Nat /\ tail \in Nat /\ tail <= now /\ opened \in Nat /\ now + wait \in Nat
      /\ now <= now + wait /\ m \in Mints /\ price \in Nat
  <2>1. price \in Nat
    BY Priced
  <2>2. buying \in Ticks
    BY <1>2 DEF TimelineInv, TimeTypes
  <2>. QED
    BY <2>1, <2>2, ServeFacts DEF TimelineInv, TimeTypes, ServeTypeOK, Mints
<1>4. new \in Position /\ new # Nothing /\ new.seq = opened + 1 /\ new.peak = price
  BY <1>3, ServeFacts DEF Position
<1>5. \/ UNCHANGED <<open, opened, seen>>
      \/ /\ opened' = opened + 1 /\ open' = [open EXCEPT ![m] = new]
         /\ seen' = [seen EXCEPT ![m] = price]
  BY <1>1
<1>. HIDE DEF m, price, new
<1>6. /\ open' \in Books /\ seen' \in [Mints -> Nat] /\ opened' \in Nat /\ opened <= opened'
      /\ \A n \in Mints : \/ open'[n] = open[n] /\ seen'[n] = seen[n]
                          \/ open'[n] = new /\ seen'[n] = price /\ opened' = opened + 1
  BY <1>3, <1>4, <1>5 DEF TimelineInv, TimeTypes, Books
<1>7. \A n \in Mints : open[n].seq \in Nat /\ open[n].seq <= opened /\ tracked[n].seq \in Nat
                       /\ tracked[n].seq <= opened
  BY ServeFacts DEF TimelineInv, TimeTypes, ServeTypeOK, Books, Position
<1>8. TimeTypes'
  <2>1. \A n \in Mints : open'[n].seq <= opened' /\ tracked[n].seq <= opened'
    BY <1>3, <1>4, <1>6, <1>7
  <2>. QED
    BY <1>1, <1>2, <1>3, <1>6, <2>1 DEF TimelineInv, TimeTypes, ServeTypeOK, Phases
<1>9. MarkedSeen'
  BY <1>2, <1>3, <1>4, <1>6, <1>7 DEF TimelineInv, MarkedSeen
<1>10. OrderedIsAttempted'
  BY <1>1, <1>2, <1>3 DEF TimelineInv, OrderedIsAttempted
<1>. QED
  BY <1>2, <1>8, <1>9, <1>10
     DEF TimelineInv, LookedAtIsHeld, PassedIsAttempted, UnknownHeldOut, OrderedOncePerLife

\* sync gives positions of the book that are not held out, as marked or higher.
LEMMA SyncedIs ==
  ASSUME TimelineInv, NEW held \in Books,
         \A m \in Mints : held[m] = Nothing \/ held[m] = open[m]
  PROVE  /\ Synced(held) \in Books
         /\ \A m \in Mints : Synced(held)[m] # Nothing =>
              /\ held[m] = open[m] /\ held[m] # Nothing
              /\ Synced(held)[m].seq = open[m].seq
              /\ open[m].peak <= Synced(held)[m].peak /\ Synced(held)[m].peak <= seen[m]
              /\ <<m, Synced(held)[m].seq>> \notin heldOut
<1>1. ASSUME NEW m \in Mints
      PROVE  /\ Synced(held)[m] \in Position \cup {Nothing}
             /\ Synced(held)[m] # Nothing =>
                  /\ held[m] = open[m] /\ held[m] # Nothing
                  /\ Synced(held)[m].seq = open[m].seq
                  /\ open[m].peak <= Synced(held)[m].peak /\ Synced(held)[m].peak <= seen[m]
                  /\ <<m, Synced(held)[m].seq>> \notin heldOut
  <2>1. CASE held[m] = Nothing \/ <<m, held[m].seq>> \in heldOut
    BY <2>1 DEF Synced
  <2>2. CASE ~(held[m] = Nothing \/ <<m, held[m].seq>> \in heldOut)
    <3>. DEFINE peak == IF tracked[m].seq = held[m].seq
                        THEN Larger(held[m].peak, tracked[m].peak) ELSE held[m].peak
                p == [held[m] EXCEPT !.peak = peak]
    <3>1. Synced(held)[m] = p
      BY <2>2 DEF Synced
    <3>2. held[m] = open[m] /\ open[m] \in Position /\ open[m].peak <= seen[m] /\ seen[m] \in Nat
      BY <2>2 DEF TimelineInv, TimeTypes, MarkedSeen, Books
    <3>3. tracked[m].seq = open[m].seq => tracked[m] \in Position /\ tracked[m].peak <= seen[m]
      BY <2>2, <3>2, ServeFacts DEF TimelineInv, TimeTypes, MarkedSeen, Books, Position
    <3>4. peak \in Nat /\ open[m].peak <= peak /\ peak <= seen[m]
      BY <3>2, <3>3 DEF Larger, Position
    <3>5. p \in Position /\ p.seq = open[m].seq /\ p.peak = peak
      <4>. HIDE DEF peak
      <4>. QED  BY <3>2, <3>4 DEF Position
    <3>. HIDE DEF peak, p
    <3>. QED  BY <2>2, <3>1, <3>2, <3>4, <3>5
  <2>. QED  BY <2>1, <2>2
<1>2. Synced(held) = [m \in Mints |-> Synced(held)[m]]
  BY DEF Synced
<1>3. Synced(held) \in Books
  BY <1>1, <1>2, Zenon DEF Books
<1>. QED  BY <1>1, <1>3

LEMMA SyncExitsKeeps == TimelineInv /\ SyncExits => TimelineInv'
<1>. SUFFICES ASSUME TimelineInv, SyncExits PROVE TimelineInv'
  OBVIOUS
<1>1. PICK gone \in SUBSET Mints :
        /\ open' = [m \in Mints |-> IF m \in gone THEN Nothing ELSE open[m]]
        /\ tail' = IF gone = {} THEN tail ELSE now
  <2>. DEFINE gone == {m \in Mints : Synced(open)[m] # Nothing /\ Graduated(m, now)
                             /\ \E i \in Ticks : Recording[i].mint = m
                                  /\ Recording[i].ts <= now /\ ~Recording[i].complete}
  <2>. QED  BY DEF SyncExits
<1>2. /\ phase = "exit" /\ phase' = "look"
      /\ tracked' = Synced(open') /\ looking' = {m \in Mints : tracked'[m] # Nothing}
      /\ UNCHANGED <<orders, opened, target, now, resumed, attempted, buying, heldOut, rules,
                     reloadedAt, seen, deaths>>
  BY DEF SyncExits
<1>3. open' \in Books /\ \A m \in Mints : open'[m] = Nothing \/ open'[m] = open[m]
  BY <1>1 DEF TimelineInv, TimeTypes, Books
<1>4. /\ tracked' \in Books
      /\ \A m \in Mints : tracked'[m] # Nothing =>
           /\ open'[m] = open[m] /\ open'[m] # Nothing
           /\ tracked'[m].seq = open[m].seq
           /\ open[m].peak <= tracked'[m].peak /\ tracked'[m].peak <= seen[m]
           /\ <<m, tracked'[m].seq>> \notin heldOut
  BY <1>2, <1>3, SyncedIs
<1>5. now \in Nat /\ tail \in Nat /\ tail <= now /\ tail' \in Nat /\ tail <= tail' /\ tail' <= now
  BY <1>1 DEF TimelineInv, TimeTypes, ServeTypeOK
<1>6. \A m \in Mints : open[m].seq <= opened /\ 0 <= opened
  BY DEF TimelineInv, TimeTypes, ServeTypeOK
<1>7. \A m \in Mints : open'[m].seq <= opened /\ tracked'[m].seq <= opened
  BY <1>3, <1>4, <1>6, ServeFacts
<1>8. TimeTypes'
  BY <1>2, <1>3, <1>4, <1>5, <1>7 DEF TimelineInv, TimeTypes, ServeTypeOK, Phases
<1>9. MarkedSeen'
  <2>1. ASSUME NEW m \in Mints, open'[m] # Nothing
        PROVE  /\ open'[m].peak <= seen[m]
               /\ tracked'[m].seq = open'[m].seq => tracked'[m].peak <= seen[m]
    <3>1. open'[m] = open[m] /\ open[m] \in Position
      BY <1>3, <2>1 DEF TimelineInv, TimeTypes, Books
    <3>2. tracked'[m].seq = open'[m].seq => tracked'[m] # Nothing
      BY <3>1, ServeFacts DEF Position
    <3>. QED  BY <1>4, <2>1, <3>1, <3>2 DEF TimelineInv, MarkedSeen
  <2>. QED  BY <1>2, <2>1 DEF MarkedSeen
<1>10. LookedAtIsHeld' /\ UnknownHeldOut'
  BY <1>2, <1>4 DEF LookedAtIsHeld, UnknownHeldOut
<1>11. OrderedIsAttempted'
  BY <1>2, <1>5 DEF TimelineInv, OrderedIsAttempted
<1>. QED
  BY <1>2, <1>8, <1>9, <1>10, <1>11 DEF TimelineInv, PassedIsAttempted, OrderedOncePerLife

LEMMA LookAtKeeps ==
  ASSUME TimelineInv, NEW m \in Mints, LookAt(m)
  PROVE  TimelineInv'
<1>. DEFINE price == Price(m, now)
            p == [tracked[m] EXCEPT !.peak = Larger(tracked[m].peak, price)]
<1>1. /\ phase = "look" /\ phase' = "look" /\ m \in looking /\ looking' = looking \ {m}
      /\ tracked' = [tracked EXCEPT ![m] = p]
      /\ seen' = [seen EXCEPT ![m] = Larger(seen[m], price)]
      /\ UNCHANGED <<orders, opened, target, resumed, attempted, buying, rules,
                     reloadedAt, deaths>>
  BY DEF LookAt
<1>2. /\ \/ now' = now /\ tail' = tail
         \/ \E wait \in Latencies : now' = now + wait /\ tail' = now + wait
      /\ open' = open \/ open' = [open EXCEPT ![m] = Nothing]
      /\ heldOut' = heldOut \/ heldOut' = heldOut \cup {<<m, tracked[m].seq>>}
  BY DEF LookAt, AnswerSell
<1>3. /\ now \in Nat /\ tail \in Nat /\ tail <= now
      /\ now' \in Nat /\ tail' \in Nat /\ tail <= tail' /\ tail' <= now'
  BY <1>2, ServeFacts DEF TimelineInv, TimeTypes, ServeTypeOK
<1>4. /\ tracked[m] \in Position /\ open[m] \in Position /\ tracked[m].seq = open[m].seq
      /\ open[m].peak <= tracked[m].peak /\ tracked[m].peak <= seen[m] /\ seen[m] \in Nat
  BY <1>1, ServeFacts DEF TimelineInv, TimeTypes, Books, MarkedSeen, LookedAtIsHeld
<1>5. price \in Nat
  BY Priced
<1>6. /\ p \in Position /\ p.seq = tracked[m].seq /\ p.peak = Larger(tracked[m].peak, price)
      /\ tracked[m].peak <= p.peak /\ p.peak <= Larger(seen[m], price)
      /\ Larger(seen[m], price) \in Nat /\ seen[m] <= Larger(seen[m], price)
  <2>1. Larger(tracked[m].peak, price) \in Nat
    BY <1>4, <1>5 DEF Larger, Position
  <2>2. p \in Position /\ p.seq = tracked[m].seq /\ p.peak = Larger(tracked[m].peak, price)
    BY <1>4, <2>1 DEF Position
  <2>. QED  BY <1>4, <1>5, <2>1, <2>2 DEF Larger, Position
<1>. DEFINE s == Larger(seen[m], price)
<1>7. seen' = [seen EXCEPT ![m] = s] /\ s \in Nat /\ seen[m] <= s /\ p.peak <= s
  BY <1>1, <1>6
<1>. HIDE DEF p, price, s
<1>8. /\ tracked' \in Books /\ open' \in Books /\ seen' \in [Mints -> Nat]
      /\ tracked'[m] = p /\ seen'[m] = s /\ (open'[m] = open[m] \/ open'[m] = Nothing)
      /\ \A n \in Mints \ {m} :
           tracked'[n] = tracked[n] /\ seen'[n] = seen[n] /\ open'[n] = open[n]
  BY <1>1, <1>2, <1>6, <1>7 DEF TimelineInv, TimeTypes, Books
<1>9. \A n \in Mints : open'[n].seq <= opened /\ tracked'[n].seq <= opened
  <2>1. \A n \in Mints : open[n].seq <= opened /\ tracked[n].seq <= opened /\ 0 <= opened
    BY DEF TimelineInv, TimeTypes, ServeTypeOK
  <2>. QED  BY <1>4, <1>6, <1>8, <2>1, ServeFacts
<1>10. TimeTypes'
  BY <1>1, <1>3, <1>8, <1>9 DEF TimelineInv, TimeTypes, ServeTypeOK, Phases
<1>11. MarkedSeen'
  <2>1. open[m].peak <= s
    BY <1>4, <1>7 DEF Position
  <2>. QED  BY <1>4, <1>7, <1>8, <2>1 DEF TimelineInv, MarkedSeen
<1>12. LookedAtIsHeld' /\ UnknownHeldOut'
  <2>1. ASSUME NEW n \in looking'
        PROVE  n \in looking /\ n # m /\ n \in Mints
               /\ (<<n, tracked[n].seq>> \in heldOut' => <<n, tracked[n].seq>> \in heldOut)
    BY <1>1, <1>2, <2>1 DEF TimelineInv, TimeTypes, ServeTypeOK
  <2>. QED
    BY <1>1, <1>8, <2>1 DEF TimelineInv, LookedAtIsHeld, UnknownHeldOut
<1>13. OrderedIsAttempted'
  BY <1>1, <1>3 DEF TimelineInv, OrderedIsAttempted
<1>. QED
  BY <1>1, <1>10, <1>11, <1>12, <1>13 DEF TimelineInv, PassedIsAttempted, OrderedOncePerLife

LEMMA TimelineGoesOn == TimelineInv /\ [TickNext]_serveTimeVars => TimelineInv'
<1>. SUFFICES ASSUME TimelineInv, [TickNext]_serveTimeVars PROVE TimelineInv'
  OBVIOUS
<1>1. CASE TickNext
  BY <1>1, ResumeKeeps, DieKeeps, BeginTickKeeps, SniperObservesKeeps, SniperDoneKeeps,
     TakeCandidateKeeps, RefuseOrderKeeps, SubmitOrderKeeps, SettleBuyKeeps, SyncExitsKeeps,
     LookAtKeeps, EndOfSeatsKeeps, ReloadRulesKeeps, PromoteKeeps DEF TickNext
<1>2. CASE UNCHANGED serveTimeVars
  BY <1>2 DEF serveTimeVars, desk, memory, TimelineInv, TimeTypes, ServeTypeOK, MarkedSeen,
     LookedAtIsHeld, OrderedIsAttempted, PassedIsAttempted, UnknownHeldOut, OrderedOncePerLife
<1>. QED  BY <1>1, <1>2

\* Over any reloads of the rules a process orders a candidate at most once, never
\* buys what the clock had passed at a reload and does not offer again a sell left
\* unknown; and also over restarts a trailing stop is measured from a peak of this
\* very position (scheduler/orders.py, _ServeRules, LedgerExitBook.sync).
THEOREM DecisionsAreKept == TimelineSpec => []DecisionsStand
<1>1. TimelineInv => DecisionsStand
  <2>. SUFFICES ASSUME TimelineInv PROVE DecisionsStand
    OBVIOUS
  <2>1. ReloadNeverBuysPast
    BY DEF TimelineInv, PassedIsAttempted, ReloadNeverBuysPast
  <2>2. PeakOfThisPosition
    BY DEF TimelineInv, TimeTypes, ServeTypeOK, LookedAtIsHeld, MarkedSeen, PeakOfThisPosition
  <2>. QED  BY <2>1, <2>2 DEF TimelineInv, DecisionsStand
<1>. QED  BY <1>1, TimelineStarts, TimelineGoesOn, PTL DEF TimelineSpec

-----------------------------------------------------------------------------
\* Upgrades, the timeline and tool calls keep their types in one desk, whichever
\* of them moves.
THEOREM DeskIsTyped == MCSpec => []DeskTypeOK
<1>. DEFINE DeskInv == UpInv /\ TimelineInv /\ ToolsFit
<1>1. MCInit => DeskInv
  BY UpgradesStart, TimelineStarts, ToolsFitFirst DEF MCInit
<1>2. DeskInv /\ [MCNext]_deskVars => DeskInv'
  <2>1. [MCNext]_deskVars => [UpNext]_upVars /\ [TickNext]_serveTimeVars /\ [ToolsNext]_toolVars
    BY DEF MCNext, deskVars
  <2>. QED  BY <2>1, UpgradesGoOn, TimelineGoesOn, ToolsKeepFitting
<1>3. DeskInv => DeskTypeOK
  BY FittingIsTyped DEF UpInv, UpTypes, TimelineInv, TimeTypes, DeskTypeOK
<1>. QED  BY <1>1, <1>2, <1>3, PTL DEF MCSpec

-----------------------------------------------------------------------------
(* Replay ledgers *)

TradeRow(id, n, k) == <<"trade", id, n, k>>
ChainRows ==
  {VerdictOf(id, n) : id \in Replays, n \in Versions}
    \cup {TradeRow(id, n, k) : id \in Replays, n \in Versions, k \in Nat}

RunSteps ==
  {"idle", "manifest", "bytes", "judge", "create", "verdict", "again", "runtime", "trade"}
RunRec ==
  [kind : {"none", "once", "serve"}, id : Replays \cup {""}, step : RunSteps,
   listed : Versions \cup {0}, bytes : Versions \cup {0}, fresh : BOOLEAN]

\* Steps at which the recording has been read, and at which it has been judged.
HasRead == {"judge", "create", "verdict", "again", "runtime", "trade"}
HasJudged == {"again", "runtime", "trade"}

ReplayTypes ==
  /\ disk \in [events : Versions, listed : Versions]
  /\ book = Absent \/ book \in Seq(ChainRows)
  /\ run \in RunRec /\ judged \in Versions \cup {0}
  /\ kept \in Seq(ChainRows)

\* Where the process stands, and what the ledger at its path is by then.
RunInv ==
  /\ run.step # "idle" => run.id \in Replays /\ run.kind \in {"once", "serve"}
  /\ run.step \in HasRead => run.bytes \in Versions
  /\ run.step \in {"create", "verdict"} =>
       /\ run.bytes \notin Gappy
       /\ run.fresh => kept = <<>>
       /\ run.kind = "once" => run.fresh
  /\ run.step = "create" => run.fresh
  /\ run.step = "verdict" => IF run.fresh THEN book = <<>> ELSE book # Absent
  /\ run.step \in HasJudged =>
       /\ judged \in Versions \ Gappy
       /\ book # Absent /\ book # <<>> /\ book[1][2] = run.id

\* The ledger of a --once run: its verdict, then the orders of the timeline so far.
Printed(rows, m) ==
  /\ rows # Absent /\ Len(rows) = m + 1 /\ rows[1] = VerdictOf(run.id, judged)
  /\ \A k \in 1 .. m : rows[k + 1] = TradeRow(run.id, run.bytes, k)
OnceInv ==
  run.kind = "once" =>
    /\ run.step \in {"again", "runtime"} => Printed(book, 0)
    /\ run.step = "trade" => \E m \in 0 .. run.bytes : Printed(book, m)

ReplayInv ==
  /\ ReplayTypes /\ RunInv /\ OnceInv
  /\ ChainOfOneReplay /\ ServeKeepsRows /\ ResultExact

LEMMA VersionsAreNat == Versions \subseteq Nat
  BY RunsAssumption

LEMMA RowIs ==
  ASSUME NEW row \in ChainRows
  PROVE  /\ Len(row) \in {3, 4} /\ row # <<"absent">>
         /\ row[1] \in {"verdict", "trade"}
<1>1. CASE row \in {VerdictOf(id, n) : id \in Replays, n \in Versions}
  BY <1>1 DEF VerdictOf
<1>2. CASE row \in {TradeRow(id, n, k) : id \in Replays, n \in Versions, k \in Nat}
  BY <1>2 DEF TradeRow
<1>. QED  BY <1>1, <1>2 DEF ChainRows

LEMMA RowsArePresent == ASSUME NEW b \in Seq(ChainRows) PROVE b # Absent
<1>. SUFFICES ASSUME b = Absent PROVE FALSE
  OBVIOUS
<1>1. Len(b) = 1 /\ b[1] = <<"absent">>
  BY DEF Absent
<1>2. b[1] \in ChainRows
  BY <1>1
<1>. QED  BY <1>1, <1>2, RowIs

\* A row on top of a chain: the rows below stay, and the prefixes with them.
LEMMA ChainGrows ==
  ASSUME NEW b \in Seq(ChainRows), NEW row \in ChainRows
  PROVE  /\ Append(b, row) \in Seq(ChainRows) /\ Append(b, row) # <<>>
         /\ Len(b) \in Nat /\ Len(Append(b, row)) = Len(b) + 1
         /\ DOMAIN b = 1 .. Len(b)
         /\ DOMAIN Append(b, row) = 1 .. Len(b) + 1
         /\ \A i \in 1 .. Len(b) : Append(b, row)[i] = b[i] /\ b[i] \in ChainRows
         /\ Append(b, row)[Len(b) + 1] = row
  OBVIOUS

LEMMA PrefixGrows ==
  ASSUME NEW b \in Seq(ChainRows), NEW row \in ChainRows, NEW s \in Seq(ChainRows), IsPrefix(s, b)
  PROVE  IsPrefix(s, Append(b, row))
<1>1. Len(s) \in Nat /\ Len(b) \in Nat /\ Len(s) <= Len(b)
  BY DEF IsPrefix
<1>2. Len(Append(b, row)) = Len(b) + 1 /\ \A i \in 1 .. Len(b) : Append(b, row)[i] = b[i]
  BY ChainGrows
<1>3. SubSeq(Append(b, row), 1, Len(s)) = SubSeq(b, 1, Len(s))
  <2>. DEFINE top == SubSeq(Append(b, row), 1, Len(s))
              low == SubSeq(b, 1, Len(s))
  <2>1. /\ top \in Seq(ChainRows) /\ Len(top) = Len(s)
        /\ \A i \in 1 .. Len(s) : top[i] = Append(b, row)[i]
    BY <1>1, <1>2, ChainGrows, SubSeqProperties
  <2>2. /\ low \in Seq(ChainRows) /\ Len(low) = Len(s)
        /\ \A i \in 1 .. Len(s) : low[i] = b[i]
    BY <1>1, SubSeqProperties
  <2>. HIDE DEF top, low
  <2>. QED  BY <1>1, <1>2, <2>1, <2>2, SeqEqual
<1>. QED  BY <1>1, <1>2, <1>3 DEF IsPrefix

LEMMA PrefixOfItself == ASSUME NEW b \in Seq(ChainRows) PROVE IsPrefix(b, b)
  BY DEF IsPrefix

LEMMA IdleIs == NoRun \in RunRec /\ NoRun.step = "idle" /\ NoRun.kind = "none"
  BY DEF NoRun, RunRec, RunSteps

LEMMA ReplayStarts == RunsInit => ReplayInv
<1>. SUFFICES ASSUME RunsInit PROVE ReplayInv
  OBVIOUS
<1>1. ReplayTypes
  <2>1. disk \in [events : Versions, listed : Versions] /\ book = Absent /\ run = NoRun
        /\ judged = 0 /\ kept = <<>>
    BY DEF RunsInit
  <2>. QED  BY <2>1, IdleIs, EmptySeq DEF ReplayTypes
<1>2. RunInv /\ OnceInv
  BY IdleIs DEF RunsInit, RunInv, OnceInv, HasRead, HasJudged
<1>. QED
  BY <1>1, <1>2 DEF RunsInit, ReplayInv, ChainOfOneReplay, ServeKeepsRows, ResultExact

\* A step that leaves the ledger at the path alone.
LEMMA BookStands ==
  ASSUME ReplayInv, UNCHANGED <<book, kept, results>>,
         disk' \in [events : Versions, listed : Versions],
         run' \in RunRec, judged' \in Versions \cup {0}, RunInv', OnceInv'
  PROVE  ReplayInv'
  BY DEF ReplayInv, ReplayTypes, ChainOfOneReplay, ServeKeepsRows, ResultExact

LEMMA IdleRun == run' = NoRun => run' \in RunRec /\ RunInv' /\ OnceInv'
  BY IdleIs DEF RunInv, OnceInv, HasRead, HasJudged

LEMMA EditsKeep ==
  ASSUME ReplayInv, (\E v \in Versions : EditEvents(v)) \/ EditManifest
  PROVE  ReplayInv'
<1>1. /\ UNCHANGED <<book, run, kept, results, judged>>
      /\ disk' \in [events : Versions, listed : Versions]
  BY DEF EditEvents, EditManifest, ReplayInv, ReplayTypes
<1>2. RunInv' /\ OnceInv'
  BY <1>1 DEF ReplayInv, RunInv, OnceInv, Printed, VerdictOf, TradeRow
<1>. QED  BY <1>1, <1>2, BookStands DEF ReplayInv, ReplayTypes

LEMMA EndsKeep ==
  ASSUME ReplayInv, SilentGap \/ NoRecordedAnswer \/ DieReplaying
  PROVE  ReplayInv'
<1>1. UNCHANGED <<disk, book, kept, results, judged>> /\ run' = NoRun
  BY DEF SilentGap, NoRecordedAnswer, DieReplaying
<1>. QED  BY <1>1, IdleRun, BookStands DEF ReplayInv, ReplayTypes

LEMMA BeginKeeps ==
  ASSUME ReplayInv, NEW kind \in {"once", "serve"}, NEW id \in Replays, BeginReplay(kind, id)
  PROVE  ReplayInv'
<1>1. /\ UNCHANGED <<disk, book, kept, results>> /\ judged' = 0
      /\ run' = [NoRun EXCEPT !.kind = kind, !.id = id, !.step = "manifest"]
  BY DEF BeginReplay
<1>2. run' \in RunRec /\ run'.step = "manifest" /\ run'.kind = kind /\ run'.id = id
  BY <1>1 DEF NoRun, RunRec, RunSteps
<1>3. RunInv' /\ OnceInv'
  BY <1>2 DEF RunInv, OnceInv, HasRead, HasJudged
<1>. QED  BY <1>1, <1>2, <1>3, BookStands DEF ReplayInv, ReplayTypes

LEMMA ReadManifestKeeps == ASSUME ReplayInv, ReadManifest PROVE ReplayInv'
<1>. DEFINE next == IF run.step = "manifest" THEN "bytes" ELSE "runtime"
<1>1. /\ UNCHANGED <<disk, book, kept, results, judged>> /\ run.step \in {"manifest", "again"}
      /\ run' = [run EXCEPT !.listed = disk.listed, !.step = next]
      /\ run \in RunRec /\ disk.listed \in Versions
  BY DEF ReadManifest, ReplayInv, ReplayTypes
<1>2. next \in {"bytes", "runtime"} /\ (next = "runtime" => run.step = "again")
  BY <1>1
<1>. HIDE DEF next
<1>3. /\ run' \in RunRec /\ run'.step = next /\ run'.kind = run.kind /\ run'.id = run.id
      /\ run'.bytes = run.bytes /\ run'.fresh = run.fresh
  BY <1>1, <1>2 DEF RunRec, RunSteps
<1>4. RunInv'
  BY <1>1, <1>2, <1>3 DEF ReplayInv, RunInv, HasRead, HasJudged
<1>5. OnceInv'
  BY <1>1, <1>2, <1>3 DEF ReplayInv, OnceInv, Printed, VerdictOf
<1>. QED  BY <1>1, <1>3, <1>4, <1>5, BookStands DEF ReplayInv, ReplayTypes

LEMMA ReadBytesKeeps == ASSUME ReplayInv, ReadBytes PROVE ReplayInv'
<1>1. /\ UNCHANGED <<disk, book, kept, results, judged>> /\ run.step = "bytes"
      /\ run \in RunRec /\ disk.events \in Versions
  BY DEF ReadBytes, ReplayInv, ReplayTypes
<1>2. CASE run' = NoRun
  BY <1>1, <1>2, IdleRun, BookStands DEF ReplayInv, ReplayTypes
<1>3. CASE run' = [run EXCEPT !.bytes = disk.events, !.step = "judge"]
  <2>1. /\ run' \in RunRec /\ run'.step = "judge" /\ run'.kind = run.kind /\ run'.id = run.id
        /\ run'.bytes \in Versions
    BY <1>1, <1>3 DEF RunRec, RunSteps
  <2>2. RunInv' /\ OnceInv'
    BY <1>1, <2>1 DEF ReplayInv, RunInv, OnceInv, HasRead, HasJudged
  <2>. QED  BY <1>1, <2>1, <2>2, BookStands DEF ReplayInv, ReplayTypes
<1>. QED  BY <1>2, <1>3 DEF ReadBytes

LEMMA OpenRuntimeKeeps == ASSUME ReplayInv, OpenRuntime PROVE ReplayInv'
<1>1. /\ UNCHANGED <<disk, book, kept, results, judged>> /\ run.step = "runtime"
      /\ run \in RunRec /\ disk.events \in Versions
  BY DEF OpenRuntime, ReplayInv, ReplayTypes
<1>2. CASE run' = NoRun
  BY <1>1, <1>2, IdleRun, BookStands DEF ReplayInv, ReplayTypes
<1>3. CASE run' = [run EXCEPT !.bytes = disk.events, !.step = "trade"]
  <2>1. /\ run' \in RunRec /\ run'.step = "trade" /\ run'.kind = run.kind /\ run'.id = run.id
        /\ run'.bytes \in Versions
    BY <1>1, <1>3 DEF RunRec, RunSteps
  <2>2. RunInv'
    BY <1>1, <2>1 DEF ReplayInv, RunInv, HasRead, HasJudged
  <2>3. OnceInv'
    <3>1. run.kind = "once" => Printed(book, 0)'
      BY <1>1, <2>1 DEF ReplayInv, OnceInv, Printed, VerdictOf
    <3>2. 0 \in 0 .. run'.bytes
      <4>1. run'.bytes \in Nat
        BY <2>1, VersionsAreNat
      <4>. QED  BY <4>1
    <3>. QED  BY <2>1, <3>1, <3>2 DEF OnceInv
  <2>. QED  BY <1>1, <2>1, <2>2, <2>3, BookStands DEF ReplayInv, ReplayTypes
<1>. QED  BY <1>2, <1>3 DEF OpenRuntime

LEMMA OpenLedgerKeeps == ASSUME ReplayInv, OpenReplayLedger PROVE ReplayInv'
<1>1. /\ UNCHANGED <<disk, results, judged>> /\ run.step = "judge" /\ run.bytes \notin Gappy
      /\ run \in RunRec /\ run.bytes \in Versions
  BY DEF OpenReplayLedger, ReplayInv, ReplayTypes, RunInv, HasRead
<1>2. CASE Resuming
  <2>1. /\ UNCHANGED <<book, kept>> /\ run' = [run EXCEPT !.step = "verdict", !.fresh = FALSE]
        /\ run.kind = "serve" /\ book # Absent
    BY <1>2 DEF OpenReplayLedger, Resuming
  <2>2. /\ run' \in RunRec /\ run'.step = "verdict" /\ run'.kind = run.kind /\ run'.id = run.id
        /\ run'.bytes = run.bytes /\ ~run'.fresh
    BY <1>1, <2>1 DEF RunRec, RunSteps
  <2>3. RunInv' /\ OnceInv'
    BY <1>1, <2>1, <2>2 DEF ReplayInv, RunInv, OnceInv, HasRead, HasJudged
  <2>. QED  BY <1>1, <2>1, <2>2, <2>3, BookStands DEF ReplayInv, ReplayTypes
<1>3. CASE ~Resuming
  <2>1. /\ book' = Absent /\ kept' = <<>> /\ run' = [run EXCEPT !.step = "create", !.fresh = TRUE]
    BY <1>3 DEF OpenReplayLedger
  <2>2. /\ run' \in RunRec /\ run'.step = "create" /\ run'.kind = run.kind /\ run'.id = run.id
        /\ run'.bytes = run.bytes /\ run'.fresh
    BY <1>1, <2>1 DEF RunRec, RunSteps
  <2>3. RunInv' /\ OnceInv'
    BY <1>1, <2>1, <2>2 DEF ReplayInv, RunInv, OnceInv, HasRead, HasJudged
  <2>. QED
    BY <1>1, <2>1, <2>2, <2>3, EmptySeq
    DEF ReplayInv, ReplayTypes, ChainOfOneReplay, ServeKeepsRows, ResultExact
<1>. QED  BY <1>2, <1>3

LEMMA CreateKeeps == ASSUME ReplayInv, CreateLedger PROVE ReplayInv'
<1>1. /\ UNCHANGED <<disk, kept, results, judged>> /\ run.step = "create" /\ run \in RunRec
      /\ book' = <<>> /\ run' = [run EXCEPT !.step = "verdict"]
      /\ run.bytes \in Versions /\ run.bytes \notin Gappy /\ run.fresh /\ kept = <<>>
  BY DEF CreateLedger, ReplayInv, ReplayTypes, RunInv, HasRead
<1>2. /\ run' \in RunRec /\ run'.step = "verdict" /\ run'.kind = run.kind /\ run'.id = run.id
      /\ run'.bytes = run.bytes /\ run'.fresh
  BY <1>1 DEF RunRec, RunSteps
<1>3. RunInv' /\ OnceInv'
  BY <1>1, <1>2 DEF ReplayInv, RunInv, OnceInv, HasRead, HasJudged
<1>4. book' \in Seq(ChainRows) /\ DOMAIN book' = {}
  BY <1>1
<1>. QED
  BY <1>1, <1>2, <1>3, <1>4
  DEF ReplayInv, ReplayTypes, ChainOfOneReplay, ServeKeepsRows, ResultExact

\* A failure takes away a ledger that this run made, in which no serve has written yet.
LEMMA FailureKeeps ==
  ASSUME ReplayInv, run.step = "verdict", book' = AfterFailure(book), run' = NoRun,
         UNCHANGED <<disk, kept, results, judged>>
  PROVE  ReplayInv'
<1>1. CASE run.fresh
  <2>1. book' = Absent /\ kept = <<>>
    BY <1>1 DEF AfterFailure, ReplayInv, RunInv
  <2>. QED
    BY <2>1, IdleRun DEF ReplayInv, ReplayTypes, ChainOfOneReplay, ServeKeepsRows, ResultExact
<1>2. CASE ~run.fresh
  BY <1>2, IdleRun, BookStands DEF AfterFailure, ReplayInv, ReplayTypes
<1>. QED  BY <1>1, <1>2

\* The verdict of a run is the first row, and the only verdict, of its chain.
LEMMA VerdictKeeps == ASSUME ReplayInv, RecordVerdict PROVE ReplayInv'
<1>1. /\ UNCHANGED <<disk, kept, results>> /\ run.step = "verdict" /\ run \in RunRec
      /\ run.id \in Replays /\ run.bytes \in Versions /\ run.bytes \notin Gappy
  BY DEF RecordVerdict, ReplayInv, ReplayTypes, RunInv, HasRead
<1>2. CASE ~(run.fresh \/ MineAlready)
  BY <1>1, <1>2, FailureKeeps DEF RecordVerdict
<1>3. CASE run.fresh \/ MineAlready
  <2>. DEFINE row == VerdictOf(run.id, run.bytes)
  <2>1. /\ run' = [run EXCEPT !.step = "again"] /\ judged' = run.bytes
        /\ book' = IF run.fresh THEN Append(book, row) ELSE book
    BY <1>3 DEF RecordVerdict
  <2>2. /\ run' \in RunRec /\ run'.step = "again" /\ run'.kind = run.kind /\ run'.id = run.id
        /\ run'.bytes = run.bytes
    BY <1>1, <2>1 DEF RunRec, RunSteps
  <2>3. row \in ChainRows /\ row[1] = "verdict" /\ row[2] = run.id
    BY <1>1 DEF ChainRows, VerdictOf
  <2>4. CASE run.fresh
    <3>1. book = <<>> /\ kept = <<>>
      BY <1>1, <2>4 DEF ReplayInv, RunInv
    <3>2. book' \in Seq(ChainRows) /\ Len(book') = 1 /\ DOMAIN book' = {1} /\ book'[1] = row
      <4>. HIDE DEF row
      <4>1. book' = <<row>>
        BY <2>1, <2>4, <3>1
      <4>. QED  BY <2>3, <4>1
    <3>. HIDE DEF row
    <3>3. book' # Absent /\ book' # <<>>
      <4>1. book' # Absent
        BY <3>2, RowsArePresent
      <4>2. book' # <<>>
        BY <3>2
      <4>. QED  BY <4>1, <4>2
    <3>4. RunInv'
      BY <1>1, <2>1, <2>2, <2>3, <3>2, <3>3 DEF RunInv, HasRead, HasJudged, ReplayInv
    <3>5. OnceInv'
      BY <1>1, <2>1, <2>2, <3>2, <3>3 DEF OnceInv, Printed, row
    <3>6. ChainOfOneReplay'
      BY <2>3, <3>2 DEF ChainOfOneReplay
    <3>. QED
      BY <1>1, <2>1, <2>2, <3>1, <3>2, <3>4, <3>5, <3>6
      DEF ReplayInv, ReplayTypes, ServeKeepsRows, ResultExact
  <2>5. CASE ~run.fresh
    <3>1. book' = book /\ book # Absent /\ run.kind = "serve" /\ Contains(book, row)
      BY <1>1, <1>3, <2>1, <2>5 DEF ReplayInv, RunInv, MineAlready
    <3>2. book \in Seq(ChainRows)
      BY <3>1 DEF ReplayInv, ReplayTypes
    <3>3. PICK i \in DOMAIN book : book[i] = row
      BY <3>1, <3>2 DEF Contains
    <3>4. book[1][2] = run.id /\ book # <<>>
      BY <2>3, <3>1, <3>2, <3>3 DEF ReplayInv, ChainOfOneReplay
    <3>5. RunInv' /\ OnceInv'
      BY <1>1, <2>1, <2>2, <3>1, <3>4 DEF ReplayInv, RunInv, OnceInv, HasRead, HasJudged
    <3>. QED  BY <1>1, <2>1, <2>2, <3>1, <3>5, BookStands DEF ReplayInv, ReplayTypes
  <2>. QED  BY <2>4, <2>5
<1>. QED  BY <1>2, <1>3

LEMMA VerdictFailsKeeps == ASSUME ReplayInv, VerdictFails PROVE ReplayInv'
  BY FailureKeeps DEF VerdictFails

\* The next order of the timeline is the first one that the ledger does not hold.
LEMMA NextTrade ==
  ASSUME ReplayInv, run.step = "trade", Untraded # {}
  PROVE  /\ Min(Untraded) \in Untraded /\ Min(Untraded) \in 1 .. run.bytes
         /\ \A k \in Untraded : Min(Untraded) <= k
<1>1. run.bytes \in Nat
  BY VersionsAreNat DEF ReplayInv, RunInv, HasRead
<1>2. Untraded \subseteq 1 .. run.bytes
  BY DEF Untraded
<1>3. IsFiniteSet(Untraded) /\ Untraded \in SUBSET Int
  <2>. HIDE DEF Untraded
  <2>1. IsFiniteSet(1 .. run.bytes) /\ 1 .. run.bytes \subseteq Int
    BY <1>1, FS_Interval
  <2>. QED  BY <1>2, <2>1, FS_Subset
<1>4. \E k \in Untraded : \A j \in Untraded : k <= j
  BY <1>3, SmallestOfFinite
<1>5. Min(Untraded) \in Untraded /\ \A j \in Untraded : Min(Untraded) <= j
  <2>. HIDE DEF Untraded
  <2>. QED  BY <1>4 DEF Min
<1>. QED  BY <1>2, <1>5

LEMMA UntradedIs ==
  ASSUME NEW m \in Nat, book \in Seq(ChainRows), Printed(book, m), run.bytes \in Nat
  PROVE  Untraded = {k \in 1 .. run.bytes : k > m}
<1>1. /\ Len(book) = m + 1 /\ book[1] = VerdictOf(run.id, judged)
      /\ \A k \in 1 .. m : book[k + 1] = TradeRow(run.id, run.bytes, k)
  BY DEF Printed
<1>2. ASSUME NEW k \in 1 .. run.bytes
      PROVE  Contains(book, TradeRow(run.id, run.bytes, k)) <=> k <= m
  <2>1. ASSUME k <= m PROVE Contains(book, TradeRow(run.id, run.bytes, k))
    <3>1. book[k + 1] = TradeRow(run.id, run.bytes, k) /\ k + 1 \in 1 .. Len(book)
      BY <1>1, <2>1
    <3>. QED  BY <3>1 DEF Contains
  <2>2. ASSUME NEW i \in 1 .. Len(book), book[i] = TradeRow(run.id, run.bytes, k)
        PROVE  k <= m
    <3>1. i # 1
      BY <1>1, <2>2 DEF VerdictOf, TradeRow
    <3>2. i - 1 \in 1 .. m /\ book[(i - 1) + 1] = book[i]
      BY <1>1, <3>1
    <3>3. book[i] = TradeRow(run.id, run.bytes, i - 1)
      BY <1>1, <3>2
    <3>4. k = i - 1
      BY <2>2, <3>3 DEF TradeRow
    <3>. QED  BY <3>2, <3>4
  <2>. QED  BY <2>1, <2>2 DEF Contains
<1>. QED  BY <1>2 DEF Untraded, TradeRow

LEMMA TradeKeeps == ASSUME ReplayInv, TradeNext PROVE ReplayInv'
<1>. DEFINE row == TradeRow(run.id, run.bytes, Min(Untraded))
            n == Len(book)
<1>1. /\ UNCHANGED <<disk, run, results, judged>> /\ run.step = "trade" /\ run \in RunRec
      /\ run.id \in Replays /\ run.bytes \in Versions /\ run.bytes \in Nat
      /\ book' = Append(book, row) /\ kept' = IF run.kind = "serve" THEN book' ELSE kept
      /\ book # Absent /\ book # <<>> /\ book[1][2] = run.id /\ kept \in Seq(ChainRows)
  BY VersionsAreNat DEF TradeNext, ReplayInv, ReplayTypes, RunInv, HasRead, HasJudged, TradeRow
<1>2. book \in Seq(ChainRows)
  BY <1>1 DEF ReplayInv, ReplayTypes
<1>3. /\ Min(Untraded) \in Untraded /\ Min(Untraded) \in 1 .. run.bytes
      /\ \A k \in Untraded : Min(Untraded) <= k
  BY <1>1, NextTrade DEF TradeNext
<1>4. row \in ChainRows /\ row[1] = "trade" /\ row[2] = run.id
  <2>1. Min(Untraded) \in Nat
    BY <1>1, <1>3
  <2>. HIDE DEF Untraded
  <2>. QED  BY <1>1, <2>1 DEF ChainRows, TradeRow
<1>5. row = TradeRow(run.id, run.bytes, Min(Untraded))
  OBVIOUS
<1>. HIDE DEF row
<1>6. /\ book' \in Seq(ChainRows) /\ book' # <<>> /\ n \in Nat /\ n >= 1
      /\ Len(book') = n + 1 /\ DOMAIN book = 1 .. n /\ DOMAIN book' = 1 .. n + 1
      /\ \A i \in 1 .. n : book'[i] = book[i]
      /\ book'[n + 1] = row
  <2>1. n >= 1 /\ n \in Nat
    BY <1>1, <1>2, EmptySeq
  <2>. QED  BY <1>1, <1>2, <1>4, <2>1, ChainGrows
<1>7. book' # Absent /\ book'[1] = book[1]
  BY <1>6, RowsArePresent
<1>8. ReplayTypes' /\ RunInv'
  BY <1>1, <1>6, <1>7 DEF ReplayInv, ReplayTypes, RunInv, HasRead, HasJudged
<1>9. OnceInv'
  <2>. SUFFICES ASSUME run.kind = "once" PROVE \E m \in 0 .. run.bytes : Printed(book, m)'
    BY <1>1 DEF OnceInv
  <2>1. PICK m \in 0 .. run.bytes : Printed(book, m)
    BY <1>1 DEF ReplayInv, OnceInv
  <2>2. Untraded = {k \in 1 .. run.bytes : k > m}
    BY <1>1, <1>2, <2>1, UntradedIs
  <2>3. Min(Untraded) = m + 1 /\ m + 1 \in 0 .. run.bytes
    <3>1. Min(Untraded) > m /\ Min(Untraded) <= run.bytes /\ Min(Untraded) \in Nat
      BY <1>1, <1>3, <2>2
    <3>2. m + 1 \in Untraded
      BY <1>1, <2>2, <3>1
    <3>3. Min(Untraded) <= m + 1
      BY <1>3, <3>2
    <3>. HIDE DEF Untraded
    <3>. QED  BY <1>1, <2>1, <3>1, <3>3
  <2>4. row = TradeRow(run.id, run.bytes, m + 1)
    BY <1>5, <2>3
  <2>5. n = m + 1 /\ \A k \in 1 .. m : book[k + 1] = TradeRow(run.id, run.bytes, k)
    BY <2>1 DEF Printed
  <2>6. ASSUME NEW k \in 1 .. m + 1 PROVE book'[k + 1] = TradeRow(run.id, run.bytes, k)
    <3>1. CASE k = m + 1
      BY <1>6, <2>4, <2>5, <3>1
    <3>2. CASE k # m + 1
      BY <1>6, <2>1, <2>5, <3>2
    <3>. QED  BY <3>1, <3>2
  <2>7. Printed(book, m + 1)'
    BY <1>1, <1>6, <1>7, <2>1, <2>5, <2>6 DEF Printed
  <2>. QED  BY <2>3, <2>7
<1>10. ChainOfOneReplay'
  <2>. SUFFICES ASSUME NEW i \in DOMAIN book'
                PROVE  ((book'[i][1] = "verdict") <=> (i = 1)) /\ book'[i][2] = book'[1][2]
    BY DEF ChainOfOneReplay
  <2>1. CASE i \in 1 .. n
    BY <1>1, <1>6, <1>7, <2>1 DEF ReplayInv, ChainOfOneReplay
  <2>2. CASE i = n + 1
    BY <1>1, <1>4, <1>6, <1>7, <2>2
  <2>. QED  BY <1>6, <2>1, <2>2
<1>11. ServeKeepsRows'
  <2>1. CASE run.kind = "serve"
    BY <1>1, <1>6, <1>7, <2>1, PrefixOfItself DEF ServeKeepsRows
  <2>2. CASE run.kind # "serve"
    BY <1>1, <1>2, <1>4, <1>7, <2>2, PrefixGrows DEF ReplayInv, ServeKeepsRows
  <2>. QED  BY <2>1, <2>2
<1>. QED
  BY <1>1, <1>8, <1>9, <1>10, <1>11 DEF ReplayInv, ResultExact

LEMMA PrintKeeps == ASSUME ReplayInv, PrintResult PROVE ReplayInv'
<1>. DEFINE r == [id |-> run.id, judged |-> judged, traded |-> run.bytes, rows |-> book]
<1>1. /\ UNCHANGED <<disk, book, kept, judged>> /\ run.step = "trade" /\ run.kind = "once"
      /\ Untraded = {} /\ run' = NoRun /\ results' = results \cup {r}
      /\ run.id \in Replays /\ run.bytes \in Versions /\ run.bytes \in Nat
      /\ book # Absent /\ judged \in Versions /\ judged \notin Gappy
  BY VersionsAreNat DEF PrintResult, ReplayInv, RunInv, HasRead, HasJudged
<1>2. book \in Seq(ChainRows)
  BY <1>1 DEF ReplayInv, ReplayTypes
<1>3. PICK m \in 0 .. run.bytes : Printed(book, m)
  BY <1>1 DEF ReplayInv, OnceInv
<1>4. m = run.bytes
  <2>1. Untraded = {k \in 1 .. run.bytes : k > m}
    BY <1>1, <1>2, <1>3, UntradedIs
  <2>2. run.bytes > m => run.bytes \in Untraded
    BY <1>1, <1>3, <2>1
  <2>. QED  BY <1>1, <1>3, <2>2
<1>5. book = <<VerdictOf(run.id, judged)>> \o Traded(run.id, run.bytes)
  <2>. DEFINE head == <<VerdictOf(run.id, judged)>>
              rest == Traded(run.id, run.bytes)
  <2>1. head \in Seq(ChainRows) /\ Len(head) = 1 /\ head[1] = VerdictOf(run.id, judged)
    <3>1. VerdictOf(run.id, judged) \in ChainRows
      BY <1>1 DEF ChainRows
    <3>. QED  BY <3>1
  <2>2. /\ rest \in Seq(ChainRows) /\ Len(rest) = run.bytes
        /\ \A k \in 1 .. run.bytes : rest[k] = TradeRow(run.id, run.bytes, k)
    <3>1. \A k \in 1 .. run.bytes : TradeRow(run.id, run.bytes, k) \in ChainRows
      BY <1>1 DEF ChainRows
    <3>2. rest = [k \in 1 .. run.bytes |-> TradeRow(run.id, run.bytes, k)]
      BY DEF Traded, TradeRow
    <3>. HIDE DEF rest
    <3>3. rest \in [1 .. run.bytes -> ChainRows]
      BY <3>1, <3>2
    <3>. QED  BY <1>1, <3>2, <3>3
  <2>. DEFINE all == head \o rest
  <2>. HIDE DEF head, rest
  <2>3. /\ all \in Seq(ChainRows) /\ Len(all) = 1 + run.bytes
        /\ \A i \in 1 .. 1 + run.bytes : all[i] = IF i <= 1 THEN head[i] ELSE rest[i - 1]
    <3>1. /\ all \in Seq(ChainRows) /\ Len(all) = Len(head) + Len(rest)
          /\ \A i \in 1 .. Len(head) + Len(rest) :
               all[i] = IF i <= Len(head) THEN head[i] ELSE rest[i - Len(head)]
      BY <2>1, <2>2, ConcatProperties
    <3>. HIDE DEF all
    <3>. QED  BY <2>1, <2>2, <3>1
  <2>. HIDE DEF all
  <2>4. /\ Len(book) = run.bytes + 1 /\ book[1] = VerdictOf(run.id, judged)
        /\ \A k \in 1 .. run.bytes : book[k + 1] = TradeRow(run.id, run.bytes, k)
    BY <1>3, <1>4 DEF Printed
  <2>5. ASSUME NEW i \in 1 .. Len(book) PROVE book[i] = all[i]
    <3>1. CASE i = 1
      BY <1>1, <2>1, <2>3, <2>4, <3>1
    <3>2. CASE i # 1
      <4>1. i - 1 \in 1 .. run.bytes /\ (i - 1) + 1 = i /\ ~(i <= 1) /\ i \in 1 .. 1 + run.bytes
        BY <1>1, <2>4, <3>2
      <4>2. book[i] = TradeRow(run.id, run.bytes, i - 1)
        BY <2>4, <4>1
      <4>3. all[i] = rest[i - 1]
        BY <2>3, <4>1
      <4>. QED  BY <2>2, <4>1, <4>2, <4>3
    <3>. QED  BY <3>1, <3>2
  <2>6. Len(book) = Len(all) /\ \A i \in 1 .. Len(book) : book[i] = all[i]
    BY <1>1, <2>3, <2>4, <2>5
  <2>7. book = all
    BY <1>2, <2>3, <2>6, SeqEqual
  <2>. QED  BY <2>7 DEF all, head, rest
<1>6. r.rows = <<VerdictOf(r.id, r.judged)>> \o Traded(r.id, r.traded) /\ r.judged \notin Gappy
  BY <1>1, <1>5
<1>. HIDE DEF r
<1>7. ResultExact'
  BY <1>1, <1>6 DEF ReplayInv, ResultExact
<1>. QED
  BY <1>1, <1>7, IdleRun DEF ReplayInv, ReplayTypes, ChainOfOneReplay, ServeKeepsRows

LEMMA ReplaysGoOn == ReplayInv /\ [ReplayNext]_replayVars => ReplayInv'
<1>. SUFFICES ASSUME ReplayInv, [ReplayNext]_replayVars PROVE ReplayInv'
  OBVIOUS
<1>1. CASE ReplayNext
  BY <1>1, EditsKeep, EndsKeep, BeginKeeps, ReadManifestKeeps, ReadBytesKeeps, OpenRuntimeKeeps,
     OpenLedgerKeeps, CreateKeeps, VerdictKeeps, VerdictFailsKeeps, TradeKeeps, PrintKeeps
  DEF ReplayNext
<1>2. CASE UNCHANGED replayVars
  BY <1>2, BookStands DEF replayVars, ReplayInv, ReplayTypes, RunInv, OnceInv, Printed
<1>. QED  BY <1>1, <1>2

-----------------------------------------------------------------------------
(* Backtests *)

\* The paper ledger when it had n rows, and a report that read it then.
First(n) == SubSeq(PaperFeed, 1, n)
ReportAt(n, compared) ==
  [trials |-> 1, rows |-> HoldoutRows, paper |-> PaperWindow(First(n)),
   compared |-> compared, seen |-> n,
   promoted |-> Promoted(1, NetOf(PaperWindow(First(n)).inside), compared)]
Reported == {ReportAt(n, c) : n \in 0 .. Len(PaperFeed), c \in BOOLEAN}

TestSteps == {"idle", "unlink", "trial", "wipe", "holdout", "settle"}

TestTypes ==
  /\ trialFile \in Nat /\ tester \in [Testers -> [step : TestSteps, trials : Nat]]
  /\ Len(paperRows) \in 0 .. Len(PaperFeed) /\ paperRows = First(Len(paperRows))
  /\ reports \in Seq(Reported)

\* Whoever is in the run directory holds its lock, and finds its own files there.
TesterInv(p) ==
  /\ tester[p].step # "idle" => runLock = <<p>>
  /\ tester[p].step = "trial" => trialFile = 0
  /\ tester[p].step \in {"wipe", "holdout", "settle"} => tester[p].trials = 1
  /\ tester[p].step = "holdout" => holdoutFile \in {<<>>, <<HoldoutRow(1)>>}
  /\ tester[p].step = "settle" => holdoutFile = HoldoutRows

TestInv == TestTypes /\ \A p \in Testers : TesterInv(p)

\* The desk's feed: a sequence of rows in order of time.
LEMMA FeedIs ==
  /\ PaperFeed \in Seq([ts : Nat, net : Int]) /\ Len(PaperFeed) \in Nat
  /\ DOMAIN PaperFeed = 1 .. Len(PaperFeed)
  /\ \A k \in 1 .. Len(PaperFeed) : PaperFeed[k] \in [ts : Nat, net : Int]
  /\ \A i, j \in 1 .. Len(PaperFeed) : i <= j => PaperFeed[i].ts <= PaperFeed[j].ts
  /\ Cutoff \in Nat /\ HoldoutEnd \in Nat /\ Cutoff <= HoldoutEnd
<1>1. /\ PaperFeed \in Seq([ts : Nat, net : Int])
      /\ \A i, j \in DOMAIN PaperFeed : i <= j => PaperFeed[i].ts <= PaperFeed[j].ts
      /\ Cutoff \in Nat /\ HoldoutEnd \in Nat /\ Cutoff <= HoldoutEnd
  BY RunsAssumption, Zenon DEF RunsAssumption
<1>2. Len(PaperFeed) \in Nat /\ DOMAIN PaperFeed = 1 .. Len(PaperFeed)
  BY <1>1, LenProperties
<1>3. \A k \in 1 .. Len(PaperFeed) : PaperFeed[k] \in [ts : Nat, net : Int]
  BY <1>1, ElementOfSeq
<1>. QED  BY <1>1, <1>2, <1>3

\* A prefix of the paper ledger, and its window by places.
LEMMA FirstIs ==
  ASSUME NEW n \in 0 .. Len(PaperFeed)
  PROVE  /\ First(n) \in Seq([ts : Nat, net : Int]) /\ Len(First(n)) = n
         /\ DOMAIN First(n) = 1 .. n
         /\ \A k \in 1 .. n : First(n)[k] = PaperFeed[k]
<1>1. /\ PaperFeed \in Seq([ts : Nat, net : Int]) /\ Len(PaperFeed) \in Nat
      /\ \A k \in 1 .. Len(PaperFeed) : PaperFeed[k] \in [ts : Nat, net : Int]
  BY FeedIs
<1>2. \A k \in 1 .. n : PaperFeed[k] \in [ts : Nat, net : Int]
  BY <1>1
<1>3. /\ First(n) \in Seq([ts : Nat, net : Int]) /\ Len(First(n)) = n
      /\ \A k \in 1 .. n : First(n)[k] = PaperFeed[k]
  BY <1>1, <1>2, SubSeqProperties DEF First
<1>. QED  BY <1>3, LenProperties

LEMMA WindowIs ==
  ASSUME NEW n \in 0 .. Len(PaperFeed)
  PROVE  PaperWindow(First(n)) =
           [opening |-> [k \in {j \in 1 .. n : PaperFeed[j].ts < Cutoff} |-> PaperFeed[k]],
            inside |-> [k \in {j \in 1 .. n : InsideWindow(PaperFeed[j])} |-> PaperFeed[k]]]
<1>. DEFINE rows == First(n)
            S == {j \in DOMAIN rows : rows[j].ts < Cutoff}
            T == {j \in DOMAIN rows : InsideWindow(rows[j])}
<1>1. DOMAIN rows = 1 .. n /\ \A k \in 1 .. n : rows[k] = PaperFeed[k]
  BY FirstIs
<1>2. PaperWindow(rows) = [opening |-> [k \in S |-> rows[k]], inside |-> [k \in T |-> rows[k]]]
  BY DEF PaperWindow
<1>. HIDE DEF rows
<1>3. S = {j \in 1 .. n : PaperFeed[j].ts < Cutoff} /\ T = {j \in 1 .. n : InsideWindow(PaperFeed[j])}
  BY <1>1
<1>4. [k \in S |-> rows[k]] = [k \in {j \in 1 .. n : PaperFeed[j].ts < Cutoff} |-> PaperFeed[k]]
  BY <1>1, <1>3
<1>5. [k \in T |-> rows[k]] = [k \in {j \in 1 .. n : InsideWindow(PaperFeed[j])} |-> PaperFeed[k]]
  BY <1>1, <1>3
<1>. QED  BY <1>2, <1>4, <1>5 DEF rows

\* Once a row is past the window's end, no later row gets into the comparison.
LEMMA WindowStands ==
  ASSUME NEW n \in 0 .. Len(PaperFeed), NEW m \in 0 .. Len(PaperFeed), n <= m,
         NEW k \in 1 .. n, PaperFeed[k].ts >= HoldoutEnd
  PROVE  PaperWindow(First(n)) = PaperWindow(First(m))
<1>1. ASSUME NEW j \in 1 .. m, j \notin 1 .. n
      PROVE  ~(PaperFeed[j].ts < Cutoff) /\ ~InsideWindow(PaperFeed[j])
  <2>1. k \in 1 .. Len(PaperFeed) /\ j \in 1 .. Len(PaperFeed) /\ k <= j
    <3>1. Len(PaperFeed) \in Nat
      BY FeedIs
    <3>. QED  BY <1>1, <3>1
  <2>2. PaperFeed[k].ts <= PaperFeed[j].ts /\ PaperFeed[k].ts \in Nat /\ PaperFeed[j].ts \in Nat
    BY <2>1, FeedIs
  <2>3. PaperFeed[k].ts >= HoldoutEnd /\ Cutoff \in Nat /\ HoldoutEnd \in Nat /\ Cutoff <= HoldoutEnd
    BY FeedIs
  <2>. QED  BY <2>2, <2>3 DEF InsideWindow
<1>2. /\ {j \in 1 .. n : PaperFeed[j].ts < Cutoff} = {j \in 1 .. m : PaperFeed[j].ts < Cutoff}
      /\ {j \in 1 .. n : InsideWindow(PaperFeed[j])} = {j \in 1 .. m : InsideWindow(PaperFeed[j])}
  BY <1>1
<1>. QED  BY <1>2, WindowIs

LEMMA TestsStart == RunsInit => TestInv
<1>. SUFFICES ASSUME RunsInit PROVE TestInv
  OBVIOUS
<1>1. 0 \in 0 .. Len(PaperFeed) /\ First(0) = <<>>
  BY FeedIs, SubSeqEmpty DEF First
<1>2. Len(paperRows) = 0 /\ paperRows = <<>> /\ reports = <<>>
  BY DEF RunsInit
<1>3. TestTypes
  BY <1>1, <1>2 DEF RunsInit, TestTypes, TestSteps
<1>. QED  BY <1>3 DEF RunsInit, TestInv, TesterInv

\* A step of one process, which keeps its lock or gives it up: the others are idle.
LEMMA OneTester ==
  ASSUME TestInv, NEW p \in Testers, TestTypes', TesterInv(p)',
         \A q \in Testers \ {p} : tester'[q] = tester[q],
         runLock = <<p>> \/ runLock = <<>>
  PROVE  TestInv'
<1>1. ASSUME NEW q \in Testers, q # p PROVE tester'[q].step = "idle"
  <2>1. <<q>> # <<p>> /\ <<q>> # <<>>
    BY <1>1
  <2>. QED  BY <1>1, <2>1 DEF TestInv, TesterInv
<1>2. ASSUME NEW q \in Testers, q # p PROVE TesterInv(q)'
  BY <1>1, <1>2 DEF TesterInv
<1>. QED  BY <1>2 DEF TestInv

LEMMA TesterIs ==
  ASSUME TestInv, NEW p \in Testers
  PROVE  /\ tester \in [Testers -> [step : TestSteps, trials : Nat]]
         /\ tester[p] \in [step : TestSteps, trials : Nat] /\ TestTypes /\ TesterInv(p)
  BY DEF TestInv, TestTypes

LEMMA BeginTestKeeps == ASSUME TestInv, NEW p \in Testers, BeginTest(p) PROVE TestInv'
  BY TesterIs, OneTester DEF BeginTest, Lock, TestTypes, TesterInv, TestSteps

LEMMA UnlinkKeeps == ASSUME TestInv, NEW p \in Testers, UnlinkTrials(p) PROVE TestInv'
  BY TesterIs, OneTester DEF UnlinkTrials, TestTypes, TesterInv, TestSteps

LEMMA RecordTrialKeeps == ASSUME TestInv, NEW p \in Testers, RecordTrial(p) PROVE TestInv'
  BY TesterIs, OneTester DEF RecordTrial, TestTypes, TesterInv, TestSteps

LEMMA WipeKeeps == ASSUME TestInv, NEW p \in Testers, WipeHoldout(p) PROVE TestInv'
  BY TesterIs, OneTester DEF WipeHoldout, TestTypes, TesterInv, TestSteps

LEMMA AppendedPair ==
  ASSUME NEW a, NEW b
  PROVE  Len(<< a >>) = 1 /\ Append(<< a >>, b) = << a, b >>
<1>1. << a >> \in Seq({a, b}) /\ << a, b >> \in Seq({a, b}) /\ Len(<< a >>) = 1 /\ Len(<< a, b >>) = 2
  OBVIOUS
<1>2. /\ Append(<< a >>, b) \in Seq({a, b}) /\ Len(Append(<< a >>, b)) = 2
      /\ \A i \in 1 .. 2 : Append(<< a >>, b)[i] = << a, b >>[i]
  BY <1>1, AppendProperties
<1>. QED  BY <1>1, <1>2, SeqEqual

LEMMA HoldoutKeeps == ASSUME TestInv, NEW p \in Testers, ReplayHoldout(p) PROVE TestInv'
<1>. DEFINE next == IF Len(holdoutFile) + 1 < Len(HoldoutRows) THEN "holdout" ELSE "settle"
<1>1. /\ tester[p].step = "holdout" /\ tester[p].trials = 1 /\ runLock = <<p>>
      /\ holdoutFile' = Append(holdoutFile, HoldoutRow(Len(holdoutFile) + 1))
      /\ tester' = [tester EXCEPT ![p].step = next]
      /\ UNCHANGED <<trialFile, runLock, reports, paperRows>>
  BY TesterIs DEF ReplayHoldout, TesterInv
<1>2. \/ next = "holdout" /\ holdoutFile' = <<HoldoutRow(1)>>
      \/ next = "settle" /\ holdoutFile' = HoldoutRows
  <2>. DEFINE one == HoldoutRow(1)
              two == HoldoutRow(2)
  <2>. HIDE DEF one, two
  <2>3. HoldoutRows = << one, two >> /\ Len(<< one, two >>) = 2
    BY DEF HoldoutRows, one, two
  <2>1. CASE holdoutFile = <<>>
    <3>1. Len(holdoutFile) = 0 /\ Append(<<>>, one) = << one >>
      BY <2>1
    <3>. QED  BY <1>1, <2>1, <2>3, <3>1 DEF one
  <2>2. CASE holdoutFile = <<HoldoutRow(1)>>
    <3>1. Len(<< one >>) = 1 /\ Append(<< one >>, two) = << one, two >>
      BY AppendedPair
    <3>. QED  BY <1>1, <2>2, <2>3, <3>1 DEF one, two
  <2>. QED  BY <1>1, <2>1, <2>2, TesterIs DEF TesterInv
<1>. HIDE DEF next
<1>3. /\ tester'[p].step = next /\ tester'[p].trials = 1
      /\ \A q \in Testers \ {p} : tester'[q] = tester[q]
  BY <1>1, TesterIs
<1>4. TestTypes'
  BY <1>1, <1>2, TesterIs DEF TestTypes, TestSteps
<1>5. TesterInv(p)'
  BY <1>1, <1>2, <1>3 DEF TesterInv
<1>. QED  BY <1>1, <1>3, <1>4, <1>5, OneTester

LEMMA SettleKeeps == ASSUME TestInv, NEW p \in Testers, SettleTest(p) PROVE TestInv'
<1>1. /\ tester[p].step = "settle" /\ tester[p].trials = 1 /\ holdoutFile = HoldoutRows
      /\ runLock = <<p>> /\ runLock' = <<>>
      /\ tester' = [tester EXCEPT ![p] = [step |-> "idle", trials |-> 0]]
      /\ UNCHANGED <<trialFile, holdoutFile, paperRows>>
  BY TesterIs DEF SettleTest, TesterInv
<1>2. PICK compared \in BOOLEAN : reports' = Append(reports, TestReport(p, compared))
  BY DEF SettleTest
<1>. DEFINE n == Len(paperRows)
<1>3. n \in 0 .. Len(PaperFeed) /\ paperRows = First(n) /\ reports \in Seq(Reported)
  BY DEF TestInv, TestTypes
<1>4. TestReport(p, compared) = ReportAt(n, compared)
  BY <1>1, <1>3 DEF TestReport, ReportAt
<1>5. reports' \in Seq(Reported)
  <2>1. TestReport(p, compared) \in Reported
    BY <1>3, <1>4 DEF Reported
  <2>. QED  BY <1>2, <1>3, <2>1
<1>6. TestTypes'
  BY <1>1, <1>5, TesterIs DEF TestTypes, TestSteps
<1>7. TesterInv(p)' /\ \A q \in Testers \ {p} : tester'[q] = tester[q]
  BY <1>1, TesterIs DEF TesterInv
<1>. QED  BY <1>1, <1>6, <1>7, OneTester

LEMMA DieTestingKeeps == ASSUME TestInv, NEW p \in Testers, DieTesting(p) PROVE TestInv'
  BY TesterIs, OneTester DEF DieTesting, TestTypes, TesterInv, TestSteps

LEMMA DeskTradesKeeps == ASSUME TestInv, DeskTradesOn PROVE TestInv'
<1>. DEFINE n == Len(paperRows)
<1>1. /\ n \in 0 .. Len(PaperFeed) /\ paperRows = First(n) /\ n < Len(PaperFeed)
      /\ paperRows' = Append(paperRows, PaperFeed[n + 1])
      /\ UNCHANGED <<trialFile, holdoutFile, runLock, tester, reports>>
  BY DEF DeskTradesOn, TestInv, TestTypes
<1>2. PaperFeed \in Seq([ts : Nat, net : Int]) /\ Len(PaperFeed) \in Nat
  BY FeedIs
<1>3. n \in Nat /\ n + 1 \in 0 .. Len(PaperFeed) /\ PaperFeed[n + 1] \in [ts : Nat, net : Int]
  <2>. HIDE DEF n
  <2>1. n \in Nat /\ n + 1 \in 1 .. Len(PaperFeed)
    BY <1>1, <1>2
  <2>. QED  BY <2>1, FeedIs
<1>. HIDE DEF n
<1>4. /\ paperRows' \in Seq([ts : Nat, net : Int]) /\ Len(paperRows') = n + 1
      /\ \A k \in 1 .. n + 1 : paperRows'[k] = PaperFeed[k]
  <2>1. /\ First(n) \in Seq([ts : Nat, net : Int]) /\ Len(First(n)) = n
        /\ \A k \in 1 .. n : First(n)[k] = PaperFeed[k]
    BY <1>1, FirstIs
  <2>. QED  BY <1>1, <1>3, <2>1
<1>5. paperRows' = First(n + 1)
  <2>1. /\ First(n + 1) \in Seq([ts : Nat, net : Int]) /\ Len(First(n + 1)) = n + 1
        /\ \A k \in 1 .. n + 1 : First(n + 1)[k] = PaperFeed[k]
    BY <1>3, FirstIs
  <2>. QED  BY <1>4, <2>1, SeqEqual
<1>6. TestTypes'
  BY <1>1, <1>3, <1>4, <1>5 DEF TestInv, TestTypes
<1>. QED  BY <1>1, <1>6 DEF TestInv, TesterInv

LEMMA TestsGoOn == TestInv /\ [TestNext]_testVars => TestInv'
<1>. SUFFICES ASSUME TestInv, [TestNext]_testVars PROVE TestInv'
  OBVIOUS
<1>1. CASE TestNext
  BY <1>1, BeginTestKeeps, UnlinkKeeps, RecordTrialKeeps, WipeKeeps, HoldoutKeeps, SettleKeeps,
     DieTestingKeeps, DeskTradesKeeps DEF TestNext
<1>2. CASE UNCHANGED testVars
  BY <1>2 DEF testVars, TestInv, TestTypes, TesterInv
<1>. QED  BY <1>1, <1>2

LEMMA TestsRepeat == TestInv => ReportsRepeat
<1>. SUFFICES ASSUME TestInv PROVE ReportsRepeat
  OBVIOUS
<1>1. ASSUME NEW i \in DOMAIN reports
      PROVE  \E n \in 0 .. Len(PaperFeed), c \in BOOLEAN : reports[i] = ReportAt(n, c)
  <2>1. reports[i] \in Reported
    BY ElementOfSeq, LenProperties DEF TestInv, TestTypes
  <2>. QED  BY <2>1 DEF Reported
<1>2. \A i \in DOMAIN reports : reports[i].trials = 1 /\ reports[i].rows = HoldoutRows
  BY <1>1 DEF ReportAt
<1>3. ASSUME NEW i \in DOMAIN reports, NEW j \in DOMAIN reports,
             PastEnd(reports[i]), PastEnd(reports[j])
      PROVE  /\ reports[i].paper = reports[j].paper
             /\ reports[i].compared /\ reports[j].compared =>
                  reports[i].promoted = reports[j].promoted
  <2>1. PICK n \in 0 .. Len(PaperFeed), c \in BOOLEAN : reports[i] = ReportAt(n, c)
    BY <1>1
  <2>2. PICK m \in 0 .. Len(PaperFeed), d \in BOOLEAN : reports[j] = ReportAt(m, d)
    BY <1>1
  <2>3. PICK k \in 1 .. n : PaperFeed[k].ts >= HoldoutEnd
    BY <1>3, <2>1 DEF PastEnd, ReportAt
  <2>4. PICK l \in 1 .. m : PaperFeed[l].ts >= HoldoutEnd
    BY <1>3, <2>2 DEF PastEnd, ReportAt
  <2>5. PaperWindow(First(n)) = PaperWindow(First(m))
    <3>1. CASE n <= m
      BY <2>3, <3>1, WindowStands
    <3>2. CASE m <= n
      BY <2>4, <3>2, WindowStands
    <3>. QED  BY <3>1, <3>2
  <2>6. /\ reports[i].paper = PaperWindow(First(n)) /\ reports[i].compared = c
        /\ reports[i].promoted = Promoted(1, NetOf(PaperWindow(First(n)).inside), c)
        /\ reports[j].paper = PaperWindow(First(m)) /\ reports[j].compared = d
        /\ reports[j].promoted = Promoted(1, NetOf(PaperWindow(First(m)).inside), d)
    BY <2>1, <2>2 DEF ReportAt
  <2>. QED  BY <2>5, <2>6
<1>. QED  BY <1>2, <1>3 DEF ReportsRepeat

-----------------------------------------------------------------------------
(* Cutting a recording *)

LEMMA MinIs ==
  ASSUME NEW T \in SUBSET Nat, NEW m \in T, \A t \in T : m <= t
  PROVE  Min(T) = m
<1>1. \A x \in T : (\A y \in T : x <= y) => x = m
  <2>. SUFFICES ASSUME NEW x \in T, \A y \in T : x <= y PROVE x = m
    OBVIOUS
  <2>1. x \in Nat /\ m \in Nat /\ x <= m /\ m <= x
    OBVIOUS
  <2>. QED  BY <2>1
<1>2. \E x \in T : \A y \in T : x <= y
  BY Zenon
<1>. QED  BY <1>1, <1>2, Zenon DEF Min

\* The number of smaller elements numbers a finite set from 0, in order.
LEMMA RankIs ==
  ASSUME NEW S \in SUBSET Nat, IsFiniteSet(S)
  PROVE  /\ Cardinality(S) \in Nat
         /\ \A s \in S : Cardinality({t \in S : t < s}) \in 0 .. Cardinality(S) - 1
         /\ \A s, u \in S : s < u =>
              Cardinality({t \in S : t < s}) < Cardinality({t \in S : t < u})
         /\ \A k \in 0 .. Cardinality(S) - 1 :
              \E s \in S : Cardinality({t \in S : t < s}) = k
<1>. DEFINE n == Cardinality(S)
            Below(s) == {t \in S : t < s}
            Rank(s) == Cardinality(Below(s))
<1>1. n \in Nat
  BY FS_CardinalityType
<1>2. ASSUME NEW s \in S
      PROVE  IsFiniteSet(Below(s)) /\ Rank(s) \in 0 .. n - 1
  <2>1. Below(s) \in SUBSET (S \ {s})
    OBVIOUS
  <2>2. IsFiniteSet(S \ {s}) /\ Cardinality(S \ {s}) = n - 1
    BY FS_RemoveElement
  <2>. HIDE DEF Below
  <2>3. IsFiniteSet(Below(s)) /\ Cardinality(Below(s)) <= n - 1
    BY <2>1, <2>2, FS_Subset
  <2>4. Cardinality(Below(s)) \in Nat
    BY <2>3, FS_CardinalityType
  <2>. QED  BY <1>1, <2>3, <2>4
<1>3. ASSUME NEW s \in S, NEW u \in S, s < u
      PROVE  Rank(s) < Rank(u)
  <2>1. Below(s) \in SUBSET (Below(u) \ {s}) /\ s \in Below(u)
    <3>1. \A t \in S : t < s => t < u /\ t # s
      <4>. SUFFICES ASSUME NEW t \in S, t < s PROVE t < u /\ t # s
        OBVIOUS
      <4>1. t \in Nat /\ s \in Nat /\ u \in Nat
        OBVIOUS
      <4>. QED  BY <1>3, <4>1
    <3>. QED  BY <1>3, <3>1
  <2>. HIDE DEF Below
  <2>2. IsFiniteSet(Below(u)) /\ Rank(s) \in Nat /\ Rank(u) \in Nat
    BY <1>1, <1>2
  <2>3. IsFiniteSet(Below(u) \ {s}) /\ Cardinality(Below(u) \ {s}) = Rank(u) - 1
    BY <2>1, <2>2, FS_RemoveElement
  <2>4. Rank(s) <= Rank(u) - 1
    BY <2>1, <2>3, FS_Subset
  <2>. QED  BY <2>2, <2>4
<1>4. ASSUME NEW k \in 0 .. n - 1
      PROVE  \E s \in S : Rank(s) = k
  <2>. DEFINE f == [s \in S |-> Rank(s)]
  <2>. HIDE DEF Rank, n
  <2>1. f \in [S -> 0 .. n - 1]
    BY <1>2
  <2>2. \A s, u \in S : f[s] = f[u] => s = u
    <3>. SUFFICES ASSUME NEW s \in S, NEW u \in S, Rank(s) = Rank(u), s # u PROVE FALSE
      OBVIOUS
    <3>1. s \in Nat /\ u \in Nat /\ Rank(s) \in Nat /\ Rank(u) \in Nat
      <4>1. Rank(s) \in 0 .. n - 1 /\ Rank(u) \in 0 .. n - 1
        BY <1>2
      <4>. QED  BY <1>1, <4>1
    <3>2. CASE s < u
      BY <1>3, <3>1, <3>2
    <3>3. CASE u < s
      BY <1>3, <3>1, <3>3
    <3>. QED  BY <3>1, <3>2, <3>3
  <2>3. f \in Injection(S, 0 .. n - 1)
    BY <2>1, <2>2, Zenon DEF Injection, IsInjective
  <2>4. IsFiniteSet(0 .. n - 1) /\ Cardinality(0 .. n - 1) = n
    BY <1>1, FS_Interval
  <2>5. f \in Surjection(S, 0 .. n - 1)
    BY <2>3, <2>4, FS_Injection DEF n
  <2>6. \E s \in S : f[s] = k
    BY <2>5 DEF Surjection
  <2>. QED  BY <2>6
<1>. QED  BY <1>1, <1>2, <1>3, <1>4

\* Distinct lists the instants before the cutoff, each once, in order.
LEMMA DistinctIs ==
  ASSUME NEW S \in SUBSET Nat, IsFiniteSet(S), NEW n, n = Cardinality(PreHoldout(S)),
         NEW d, d = Distinct(S)
  PROVE  /\ n \in Nat /\ Len(d) = n /\ \A i \in 1 .. n : d[i] \in PreHoldout(S)
         /\ \A i, j \in 1 .. n : i < j => d[i] < d[j]
         /\ \A s \in PreHoldout(S) : \E i \in 1 .. n : d[i] = s
<1>. DEFINE pre == PreHoldout(S)
            Rank(s) == Cardinality({t \in pre : t < s})
<1>1. pre \in SUBSET Nat /\ IsFiniteSet(pre)
  BY FS_Subset DEF PreHoldout
<1>. HIDE DEF pre
<1>2. /\ n \in Nat /\ \A s \in pre : Rank(s) \in 0 .. n - 1
      /\ \A s, u \in pre : s < u => Rank(s) < Rank(u)
      /\ \A k \in 0 .. n - 1 : \E s \in pre : Rank(s) = k
  BY <1>1, RankIs DEF pre
<1>3. d = [k \in 1 .. n |-> CHOOSE s \in pre : Rank(s) = k - 1]
  BY DEF Distinct, pre
<1>. HIDE DEF Rank
<1>4. ASSUME NEW k \in 1 .. n PROVE d[k] \in pre /\ Rank(d[k]) = k - 1
  <2>1. k - 1 \in 0 .. n - 1
    BY <1>2
  <2>2. \E s \in pre : Rank(s) = k - 1
    BY <1>2, <2>1
  <2>. QED  BY <1>3, <2>2
<1>5. Len(d) = n
  <2>1. d \in [1 .. n -> pre]
    BY <1>3, <1>4
  <2>2. d \in Seq(pre)
    BY <1>2, <2>1, IsASeq
  <2>3. Len(d) \in Nat /\ 1 .. Len(d) = 1 .. n
    BY <2>1, <2>2, LenProperties
  <2>. QED  BY <1>2, <2>3
<1>6. ASSUME NEW i \in 1 .. n, NEW j \in 1 .. n, i < j PROVE d[i] < d[j]
  <2>1. /\ d[i] \in Nat /\ d[j] \in Nat /\ d[i] \in pre /\ d[j] \in pre
        /\ Rank(d[i]) < Rank(d[j]) /\ Rank(d[i]) \in Int /\ Rank(d[j]) \in Int
    <3>1. d[i] \in pre /\ d[j] \in pre /\ Rank(d[i]) = i - 1 /\ Rank(d[j]) = j - 1
      BY <1>4
    <3>2. d[i] \in Nat /\ d[j] \in Nat
      BY <1>1, <3>1
    <3>. QED  BY <1>6, <3>1, <3>2
  <2>2. ~(d[j] < d[i])
    BY <1>2, <2>1
  <2>. QED  BY <2>1, <2>2
<1>7. ASSUME NEW s \in pre PROVE \E i \in 1 .. n : d[i] = s
  <2>1. Rank(s) \in 0 .. n - 1
    BY <1>2
  <2>. DEFINE i == Rank(s) + 1
  <2>2. i \in 1 .. n /\ i - 1 = Rank(s)
    BY <1>2, <2>1
  <2>. HIDE DEF i
  <2>3. d[i] \in pre /\ Rank(d[i]) = Rank(s)
    BY <1>4, <2>2
  <2>4. d[i] \in Nat /\ s \in Nat /\ Rank(s) \in Int
    <3>1. d[i] \in Nat /\ s \in Nat
      BY <1>1, <2>3
    <3>. QED  BY <1>2, <2>1, <3>1
  <2>5. ~(d[i] < s) /\ ~(s < d[i])
    BY <1>2, <2>3, <2>4
  <2>. QED  BY <2>2, <2>4, <2>5
<1>. QED  BY <1>2, <1>4, <1>5, <1>6, <1>7 DEF pre

\* Multiplication by a natural keeps the order, and the quotient's two bounds.
LEMMA ProductsKeepOrder ==
  ASSUME NEW a \in Int, NEW b \in Int, NEW c \in Nat, a <= b
  PROVE  a * c <= b * c
<1>1. (b - a) * c >= 0
  OBVIOUS
<1>2. (b - a) * c = b * c - a * c
  OBVIOUS
<1>. QED  BY <1>1, <1>2

LEMMA QuotientIs ==
  ASSUME NEW a \in Nat, NEW c \in Nat \ {0}
  PROVE  /\ a \div c \in Nat
         /\ (a \div c) * c <= a /\ a < (a \div c) * c + c
<1>1. a \div c \in Int /\ a % c \in 0 .. c - 1 /\ a = c * (a \div c) + (a % c)
  OBVIOUS
<1>. QED  BY <1>1

\* Enough instants make no empty block: the boundaries go up to the last of them.
LEMMA BlocksAre ==
  ASSUME NEW n \in Nat, n >= NFolds + 1
  PROVE  /\ \A j \in 0 .. NFolds + 1 : Boundary(n, j) \in 0 .. n
         /\ \A j, k \in 0 .. NFolds + 1 : j < k => Boundary(n, j) < Boundary(n, k)
         /\ Boundary(n, NFolds + 1) = n
<1>. DEFINE c == NFolds + 1
            q(j) == Boundary(n, j)
<1>1. c \in Nat \ {0} /\ NFolds \in Nat /\ n >= c
  <2>1. NFolds \in Nat \ {0}
    BY RunsAssumption, Zenon DEF RunsAssumption
  <2>. QED  BY <2>1
<1>. HIDE DEF c
<1>2. ASSUME NEW j \in 0 .. c
      PROVE  j * n \in Nat /\ q(j) \in Nat /\ q(j) * c <= j * n /\ j * n < q(j) * c + c
  <2>1. j * n \in Nat
    OBVIOUS
  <2>. QED  BY <1>1, <2>1, QuotientIs DEF Boundary, c
<1>. HIDE DEF q
<1>3. ASSUME NEW j \in 0 .. c, NEW k \in 0 .. c, j < k PROVE q(j) < q(k)
  <2>1. q(j) * c + c <= j * n + n
    BY <1>1, <1>2
  <2>2. (j + 1) * n <= k * n /\ (j + 1) * n = j * n + n
    BY <1>1, <1>3, ProductsKeepOrder
  <2>3. (q(j) + 1) * c = q(j) * c + c /\ (q(k) + 1) * c = q(k) * c + c
    BY <1>1, <1>2
  <2>4. (q(j) + 1) * c < (q(k) + 1) * c
    <3>. DEFINE qj == q(j) * c
                qk == q(k) * c
                jn == j * n
                kn == k * n
    <3>1. qj \in Int /\ qk \in Int /\ jn \in Int /\ kn \in Int
      BY <1>1, <1>2
    <3>2. qj + c <= jn + n /\ jn + n <= kn /\ kn < qk + c
      BY <1>2, <2>1, <2>2
    <3>3. (q(j) + 1) * c = qj + c /\ (q(k) + 1) * c = qk + c
      BY <2>3
    <3>. HIDE DEF qj, qk, jn, kn
    <3>4. qj + c < qk + c
      BY <1>1, <3>1, <3>2
    <3>. QED  BY <3>3, <3>4
  <2>5. q(j) \in Nat /\ q(k) \in Nat
    BY <1>2
  <2>6. ~(q(k) + 1 <= q(j) + 1)
    <3>. SUFFICES ASSUME q(k) + 1 <= q(j) + 1 PROVE FALSE
      OBVIOUS
    <3>1. (q(k) + 1) * c <= (q(j) + 1) * c
      BY <1>1, <2>5, ProductsKeepOrder
    <3>. QED  BY <1>1, <2>4, <2>5, <3>1
  <2>. QED  BY <2>5, <2>6
<1>4. q(c) = n
  <2>1. q(c) \in Nat /\ q(c) * c <= c * n /\ c * n < q(c) * c + c
    BY <1>1, <1>2
  <2>2. c * n = n * c /\ (q(c) + 1) * c = q(c) * c + c /\ (n + 1) * c = n * c + c
    BY <1>1, <2>1
  <2>3. ~(q(c) + 1 <= n)
    <3>. SUFFICES ASSUME q(c) + 1 <= n PROVE FALSE
      OBVIOUS
    <3>1. (q(c) + 1) * c <= n * c
      BY <1>1, <2>1, ProductsKeepOrder
    <3>. QED  BY <1>1, <2>1, <2>2, <3>1
  <2>4. ~(n + 1 <= q(c))
    <3>. SUFFICES ASSUME n + 1 <= q(c) PROVE FALSE
      OBVIOUS
    <3>1. (n + 1) * c <= q(c) * c
      BY <1>1, <2>1, ProductsKeepOrder
    <3>. QED  BY <1>1, <2>1, <2>2, <3>1
  <2>. QED  BY <2>1, <2>3, <2>4
<1>5. ASSUME NEW j \in 0 .. c PROVE q(j) \in 0 .. n
  <2>1. j = c \/ j < c
    BY <1>1
  <2>2. q(j) <= n
    BY <1>1, <1>2, <1>3, <1>4, <2>1
  <2>. QED  BY <1>2, <2>2
<1>. QED  BY <1>3, <1>4, <1>5 DEF c, q

\* Every place past the first boundary lies in the block of exactly one fold.
LEMMA BlockOf ==
  ASSUME NEW n \in Nat, n >= NFolds + 1,
         NEW i \in 1 .. n, Boundary(n, 1) < i
  PROVE  \E k \in 1 .. NFolds : Boundary(n, k) < i /\ i <= Boundary(n, k + 1)
<1>. DEFINE Begun == {k \in 1 .. NFolds : Boundary(n, k) < i}
<1>1. NFolds \in Nat /\ NFolds >= 1
  <2>1. NFolds \in Nat \ {0}
    BY RunsAssumption, Zenon DEF RunsAssumption
  <2>. QED  BY <2>1
<1>2. Begun \in SUBSET Int /\ 1 \in Begun
  BY <1>1
<1>3. IsFiniteSet(Begun)
  <2>1. IsFiniteSet(1 .. NFolds) /\ Begun \in SUBSET (1 .. NFolds)
    BY <1>1, FS_Interval
  <2>. HIDE DEF Begun
  <2>. QED  BY <2>1, FS_Subset
<1>4. PICK k \in Begun : \A j \in Begun : j <= k
  <2>. HIDE DEF Begun
  <2>. QED  BY <1>2, <1>3, Greatest
<1>5. k \in 1 .. NFolds /\ Boundary(n, k) < i
  BY <1>4
<1>6. i <= Boundary(n, k + 1)
  <2>1. CASE k = NFolds
    BY <2>1, BlocksAre
  <2>2. CASE k # NFolds
    <3>1. k + 1 \in 1 .. NFolds /\ k + 1 \in 0 .. NFolds + 1
      BY <1>1, <1>5, <2>2
    <3>2. Boundary(n, k + 1) \in 0 .. n
      BY <3>1, BlocksAre
    <3>3. ~(k + 1 <= k)
      BY <1>5
    <3>4. k + 1 \notin Begun
      BY <1>4, <3>3
    <3>. QED  BY <3>1, <3>2, <3>4
  <2>. QED  BY <2>1, <2>2
<1>. QED  BY <1>5, <1>6

\* A fold replays the instants of its block, and no others.
LEMMA TestIs ==
  ASSUME NEW S \in SUBSET Nat, IsFiniteSet(S), S # {}, CanFold(S),
         NEW n, n = Cardinality(PreHoldout(S)), NEW d, d = Distinct(S),
         NEW k \in 1 .. NFolds
  PROVE  InTest(S, k) = {d[i] : i \in (Boundary(n, k) + 1) .. Boundary(n, k + 1)}
<1>. DEFINE first == Boundary(n, k) + 1
            last == Boundary(n, k + 1)
<1>1. /\ n \in Nat /\ Len(d) = n /\ \A i \in 1 .. n : d[i] \in PreHoldout(S)
      /\ \A i, j \in 1 .. n : i < j => d[i] < d[j]
      /\ \A s \in PreHoldout(S) : \E i \in 1 .. n : d[i] = s
  BY DistinctIs
<1>2. first \in 1 .. n /\ last \in 1 .. n /\ first <= last
  <2>1. NFolds \in Nat /\ n >= NFolds + 1
    <3>1. NFolds \in Nat \ {0}
      BY RunsAssumption, Zenon DEF RunsAssumption
    <3>. QED  BY <3>1 DEF CanFold
  <2>2. k \in 0 .. NFolds + 1 /\ k + 1 \in 0 .. NFolds + 1 /\ k < k + 1
    BY <2>1
  <2>3. /\ Boundary(n, k) \in 0 .. n /\ Boundary(n, k + 1) \in 0 .. n
        /\ Boundary(n, k) < Boundary(n, k + 1)
    BY <1>1, <2>1, <2>2, BlocksAre
  <2>. QED  BY <1>1, <2>3
<1>3. /\ TestWindow(S, k).start = 5 * d[first]
      /\ TestWindow(S, k).end = IF last < n THEN 5 * d[last + 1] ELSE CutoffOf(S)
  BY <1>1 DEF TestWindow
<1>4. InTest(S, k) = {s \in S : 5 * d[first] <= 5 * s /\ 5 * s < TestWindow(S, k).end}
  BY <1>3 DEF InTest
<1>. HIDE DEF first, last
<1>5. CutoffOf(S) \in Int
  <2>1. Max(S) \in Nat /\ Min(S) \in Nat
    BY EndsAre
  <2>. QED  BY <2>1 DEF CutoffOf
<1>6. \A i \in 1 .. n : d[i] \in S /\ d[i] \in Nat /\ 5 * d[i] < CutoffOf(S)
  BY <1>1 DEF PreHoldout
<1>7. ASSUME NEW i \in 1 .. n
      PROVE  d[i] \in InTest(S, k) <=> i \in first .. last
  <2>1. 5 * d[first] <= 5 * d[i] <=> first <= i
    <3>1. d[first] \in Nat /\ d[i] \in Nat
      BY <1>2, <1>6
    <3>2. CASE first < i
      BY <1>1, <1>2, <3>1, <3>2
    <3>3. CASE i < first
      BY <1>1, <1>2, <3>1, <3>3
    <3>4. CASE i = first
      BY <3>1, <3>4
    <3>. QED  BY <1>2, <3>2, <3>3, <3>4
  <2>2. 5 * d[i] < TestWindow(S, k).end <=> i <= last
    <3>1. CASE last < n
      <4>1. last + 1 \in 1 .. n /\ d[last + 1] \in Nat /\ d[i] \in Nat
        BY <1>1, <1>2, <1>6, <3>1
      <4>2. CASE i < last + 1
        <5>1. d[i] < d[last + 1]
          BY <1>1, <4>1, <4>2
        <5>2. 5 * d[i] < 5 * d[last + 1]
          BY <4>1, <5>1
        <5>. QED  BY <1>2, <1>3, <3>1, <4>2, <5>2
      <4>3. CASE last + 1 < i
        <5>1. d[last + 1] < d[i]
          BY <1>1, <4>1, <4>3
        <5>2. ~(5 * d[i] < 5 * d[last + 1])
          BY <4>1, <5>1
        <5>. QED  BY <1>2, <1>3, <3>1, <4>3, <5>2
      <4>4. CASE i = last + 1
        <5>1. ~(5 * d[i] < 5 * d[last + 1])
          BY <4>1, <4>4
        <5>. QED  BY <1>2, <1>3, <3>1, <4>4, <5>1
      <4>. QED  BY <1>2, <4>2, <4>3, <4>4
    <3>2. CASE ~(last < n)
      <4>1. last = n /\ i <= last
        BY <1>1, <1>2, <3>2
      <4>. QED  BY <1>3, <1>6, <3>2, <4>1
    <3>. QED  BY <3>1, <3>2
  <2>. QED  BY <1>2, <1>4, <1>6, <2>1, <2>2
<1>8. \A s \in InTest(S, k) : \E i \in 1 .. n : d[i] = s
  <2>. SUFFICES ASSUME NEW s \in InTest(S, k) PROVE \E i \in 1 .. n : d[i] = s
    OBVIOUS
  <2>1. s \in S /\ s \in Nat /\ 5 * s < TestWindow(S, k).end
    BY <1>4
  <2>2. 5 * s < CutoffOf(S)
    <3>1. CASE last < n
      <4>1. last + 1 \in 1 .. n
        BY <1>1, <1>2, <3>1
      <4>2. d[last + 1] \in Nat /\ 5 * d[last + 1] < CutoffOf(S) /\ 5 * s < 5 * d[last + 1]
        BY <1>3, <1>6, <2>1, <3>1, <4>1
      <4>. QED  BY <1>5, <2>1, <4>2
    <3>2. CASE ~(last < n)
      BY <1>3, <2>1, <3>2
    <3>. QED  BY <3>1, <3>2
  <2>3. s \in PreHoldout(S)
    BY <2>1, <2>2 DEF PreHoldout
  <2>. QED  BY <1>1, <2>3
<1>9. \A i \in first .. last : i \in 1 .. n
  BY <1>1, <1>2
<1>10. InTest(S, k) = {d[i] : i \in first .. last}
  <2>1. \A s \in InTest(S, k) : \E i \in first .. last : d[i] = s
    BY <1>7, <1>8
  <2>2. \A i \in first .. last : d[i] \in InTest(S, k)
    BY <1>7, <1>9
  <2>. QED  BY <2>1, <2>2
<1>. QED  BY <1>10 DEF first, last

\* The windows cut from any finite recording with enough instants.
LEMMA FoldsAreSound ==
  ASSUME recording \in SUBSET Nat, IsFiniteSet(recording)
  PROVE  FoldsSound
<1>. SUFFICES ASSUME recording # {}, CanFold(recording)
              PROVE  LET tested == [k \in 1..NFolds |-> InTest(recording, k)]
                     IN /\ \A k \in 1..NFolds :
                             tested[k] # {} /\ tested[k] \cap HoldoutOf(recording) = {}
                        /\ \A j, k \in 1..NFolds : j # k => tested[j] \cap tested[k] = {}
                        /\ UNION {tested[k] : k \in 1..NFolds}
                             = {s \in PreHoldout(recording) : s >= Min(tested[1])}
                        /\ HoldoutOf(recording) # {}
  BY DEF FoldsSound
<1>. DEFINE S == recording
            pre == PreHoldout(S)
            n == Cardinality(pre)
            d == Distinct(S)
            b(j) == Boundary(n, j)
            test(k) == InTest(S, k)
<1>1. /\ n \in Nat /\ \A i \in 1 .. n : d[i] \in pre
      /\ \A i, j \in 1 .. n : i < j => d[i] < d[j]
      /\ \A s \in pre : \E i \in 1 .. n : d[i] = s
  BY DistinctIs
<1>2. NFolds \in Nat /\ NFolds >= 1 /\ n >= NFolds + 1
  <2>1. NFolds \in Nat \ {0}
    BY RunsAssumption, Zenon DEF RunsAssumption
  <2>. QED  BY <2>1 DEF CanFold
<1>3. /\ \A j \in 0 .. NFolds + 1 : b(j) \in 0 .. n
      /\ \A j, k \in 0 .. NFolds + 1 : j < k => b(j) < b(k)
  BY <1>1, <1>2, BlocksAre
<1>4. \A k \in 1 .. NFolds : test(k) = {d[i] : i \in b(k) + 1 .. b(k + 1)}
  BY TestIs
<1>5. \A i \in 1 .. n : b(1) < i => \E k \in 1 .. NFolds : b(k) < i /\ i <= b(k + 1)
  BY <1>1, <1>2, BlockOf
<1>6. pre \in SUBSET Nat /\ pre \cap HoldoutOf(S) = {}
  BY DEF PreHoldout, HoldoutOf
<1>7. HoldoutOf(S) # {}
  <2>1. Max(S) \in S /\ Max(S) \in Nat /\ Min(S) \in Nat /\ Min(S) <= Max(S)
    BY EndsAre
  <2>2. ~(5 * Max(S) < CutoffOf(S))
    BY <2>1 DEF CutoffOf
  <2>. QED  BY <2>1, <2>2 DEF PreHoldout, HoldoutOf
<1>. HIDE DEF pre, n, d, b, test, S
<1>8. ASSUME NEW k \in 1 .. NFolds
      PROVE  /\ b(k) \in 0 .. n /\ b(k + 1) \in 0 .. n /\ b(k) < b(k + 1)
             /\ b(k) + 1 \in 1 .. n /\ b(k) + 1 \in b(k) + 1 .. b(k + 1)
             /\ \A i \in b(k) + 1 .. b(k + 1) : i \in 1 .. n
  <2>1. k \in 0 .. NFolds + 1 /\ k + 1 \in 0 .. NFolds + 1 /\ k < k + 1
    BY <1>2
  <2>2. b(k) \in 0 .. n /\ b(k + 1) \in 0 .. n /\ b(k) < b(k + 1)
    BY <1>3, <2>1
  <2>. QED  BY <1>1, <2>2
<1>9. \A k \in 1 .. NFolds : test(k) # {} /\ test(k) \subseteq pre
  BY <1>1, <1>4, <1>8
<1>10. ASSUME NEW j \in 1 .. NFolds, NEW k \in 1 .. NFolds, j < k
       PROVE  test(j) \cap test(k) = {}
  <2>1. b(j + 1) <= b(k) /\ b(j + 1) \in 0 .. n /\ b(k) \in 0 .. n
    <3>1. j + 1 \in 0 .. NFolds + 1 /\ k \in 0 .. NFolds + 1 /\ (j + 1 = k \/ j + 1 < k)
      BY <1>2, <1>10
    <3>2. b(j + 1) \in 0 .. n /\ b(k) \in 0 .. n
      BY <1>3, <3>1
    <3>3. CASE j + 1 = k
      BY <1>1, <3>2, <3>3
    <3>4. CASE j + 1 < k
      <4>1. b(j + 1) < b(k)
        BY <1>3, <3>1, <3>4
      <4>. QED  BY <1>1, <3>2, <4>1
    <3>. QED  BY <3>1, <3>3, <3>4
  <2>2. ASSUME NEW x \in test(j), x \in test(k) PROVE FALSE
    <3>1. PICK i \in b(j) + 1 .. b(j + 1) : x = d[i]
      BY <1>4
    <3>2. PICK l \in b(k) + 1 .. b(k + 1) : x = d[l]
      BY <1>4, <2>2
    <3>3. i \in 1 .. n /\ l \in 1 .. n
      BY <1>8
    <3>4. i < l
      BY <1>1, <1>8, <2>1
    <3>5. d[i] < d[l] /\ d[i] \in Nat
      BY <1>1, <1>6, <3>3, <3>4
    <3>. QED  BY <3>1, <3>2, <3>5
  <2>. QED  BY <2>2
<1>11. Min(test(1)) = d[b(1) + 1]
  <2>1. 1 \in 1 .. NFolds
    BY <1>2
  <2>2. test(1) \in SUBSET Nat /\ d[b(1) + 1] \in test(1)
    BY <1>4, <1>6, <1>8, <1>9, <2>1
  <2>3. ASSUME NEW t \in test(1) PROVE d[b(1) + 1] <= t
    <3>1. PICK i \in b(1) + 1 .. b(1 + 1) : t = d[i]
      BY <1>4, <2>1
    <3>2. i \in 1 .. n /\ b(1) + 1 \in 1 .. n /\ b(1) \in 0 .. n
      BY <1>8, <2>1, <3>1
    <3>3. d[i] \in Nat /\ d[b(1) + 1] \in Nat
      BY <1>1, <1>6, <3>2
    <3>4. i = b(1) + 1 \/ b(1) + 1 < i
      BY <1>1, <3>2
    <3>5. CASE i = b(1) + 1
      BY <3>1, <3>3, <3>5
    <3>6. CASE b(1) + 1 < i
      <4>1. d[b(1) + 1] < d[i]
        BY <1>1, <3>2, <3>6
      <4>. QED  BY <3>1, <3>3, <4>1
    <3>. QED  BY <3>4, <3>5, <3>6
  <2>. QED  BY <2>2, <2>3, MinIs
<1>12. UNION {test(k) : k \in 1 .. NFolds} = {s \in pre : s >= Min(test(1))}
  <2>1. 1 \in 1 .. NFolds
    BY <1>2
  <2>2. b(1) \in 0 .. n /\ b(1) + 1 \in 1 .. n /\ d[b(1) + 1] \in Nat
    BY <1>1, <1>6, <1>8, <2>1
  <2>3. ASSUME NEW k \in 1 .. NFolds, NEW s \in test(k)
        PROVE  s \in pre /\ s >= d[b(1) + 1]
    <3>1. PICK i \in b(k) + 1 .. b(k + 1) : s = d[i]
      BY <1>4, <2>3
    <3>2. i \in 1 .. n /\ d[i] \in Nat /\ s \in pre
      BY <1>1, <1>6, <1>8, <1>9, <3>1
    <3>3. b(1) + 1 <= i
      <4>1. k = 1 \/ 1 < k
        BY <1>2
      <4>2. CASE k = 1
        BY <2>2, <3>1, <4>2
      <4>3. CASE 1 < k
        <5>1. 1 \in 0 .. NFolds + 1 /\ k \in 0 .. NFolds + 1
          BY <1>2
        <5>2. b(1) < b(k) /\ b(k) \in 0 .. n
          BY <1>3, <4>3, <5>1
        <5>. QED  BY <1>1, <2>2, <3>1, <5>2
      <4>. QED  BY <4>1, <4>2, <4>3
    <3>4. CASE i = b(1) + 1
      BY <3>1, <3>2, <3>4
    <3>5. CASE b(1) + 1 < i
      <4>1. d[b(1) + 1] < d[i]
        BY <1>1, <2>2, <3>2, <3>5
      <4>. QED  BY <2>2, <3>1, <3>2, <4>1
    <3>. QED  BY <1>1, <2>2, <3>2, <3>3, <3>4, <3>5
  <2>4. ASSUME NEW s \in pre, s >= d[b(1) + 1]
        PROVE  \E k \in 1 .. NFolds : s \in test(k)
    <3>1. PICK i \in 1 .. n : d[i] = s
      BY <1>1
    <3>2. d[i] \in Nat /\ ~(i < b(1) + 1)
      <4>1. d[i] \in Nat
        BY <1>6, <3>1
      <4>2. ASSUME i < b(1) + 1 PROVE FALSE
        <5>1. d[i] < d[b(1) + 1]
          BY <1>1, <2>2, <4>2
        <5>. QED  BY <2>2, <2>4, <3>1, <4>1, <5>1
      <4>. QED  BY <4>1, <4>2
    <3>3. b(1) < i
      BY <1>1, <2>2, <3>2
    <3>4. PICK k \in 1 .. NFolds : b(k) < i /\ i <= b(k + 1)
      BY <1>5, <3>3
    <3>5. i \in b(k) + 1 .. b(k + 1)
      BY <1>8, <3>4
    <3>. QED  BY <1>4, <3>1, <3>4, <3>5
  <2>. QED  BY <1>11, <2>3, <2>4
<1>. DEFINE tested == [k \in 1 .. NFolds |-> test(k)]
<1>13. \A k \in 1 .. NFolds : tested[k] = test(k)
  OBVIOUS
<1>14. tested[1] = test(1) /\ {tested[k] : k \in 1 .. NFolds} = {test(k) : k \in 1 .. NFolds}
  BY <1>2, <1>13
<1>15. \A k \in 1 .. NFolds : tested[k] # {} /\ tested[k] \cap HoldoutOf(S) = {}
  BY <1>6, <1>9, <1>13
<1>16. \A j, k \in 1 .. NFolds : j # k => tested[j] \cap tested[k] = {}
  <2>. SUFFICES ASSUME NEW j \in 1 .. NFolds, NEW k \in 1 .. NFolds, j # k
                PROVE  test(j) \cap test(k) = {}
    BY <1>13
  <2>1. j < k \/ k < j
    BY <1>2
  <2>. QED  BY <1>10, <2>1
<1>17. UNION {tested[k] : k \in 1 .. NFolds} = {s \in pre : s >= Min(tested[1])}
  BY <1>12, <1>14
<1>. QED  BY <1>7, <1>15, <1>16, <1>17 DEF test, S, pre

\* No step of a replay, a backtest or the desk breaks them, and none touches the
\* recording that is cut.
LEMMA RunsGoOn ==
  ReplayInv /\ TestInv /\ [RunsNext]_runsVars => ReplayInv' /\ TestInv'
<1>1. [RunsNext]_runsVars => [ReplayNext]_replayVars /\ [TestNext]_testVars
  BY DEF RunsNext, runsVars
<1>. QED  BY <1>1, ReplaysGoOn, TestsGoOn

\* Whatever replays, backtests and the desk do side by side, die in or leave
\* behind: a replay ledger is one replay's and keeps what a serve wrote, a printed
\* result is the replay it names, a backtest repeats, and the folds cut from any
\* finite recording are full, disjoint and clear of the holdout (runner.py,
\* evaluate.py, split.py).
THEOREM ReplaysAreSound == RunsSpec => []ReplaySound
<1>. DEFINE Finite == recording \in SUBSET Nat /\ IsFiniteSet(recording)
            RunsInv == ReplayInv /\ TestInv /\ Finite
<1>1. RunsInit /\ Finite => RunsInv
  BY ReplayStarts, TestsStart
<1>2. RunsInv /\ [RunsNext]_runsVars => RunsInv'
  <2>1. [RunsNext]_runsVars => UNCHANGED recording
    BY DEF RunsNext, runsVars
  <2>2. Finite /\ UNCHANGED recording => Finite'
    OBVIOUS
  <2>. QED  BY <2>1, <2>2, RunsGoOn
<1>3. RunsInv => ReplaySound
  BY TestsRepeat, FoldsAreSound DEF ReplayInv, ReplaySound
<1>. QED  BY <1>1, <1>2, <1>3, PTL DEF RunsSpec

-----------------------------------------------------------------------------
(* The promises of the desk's edges *)

\* Whichever component moves, in whichever scene: its promise holds, for every
\* value of the constants of all of them.
THEOREM EdgesAreSound == MCSpec => []EdgesSound
<1>. DEFINE DoorInv == ApprovalInv /\ WindowInv /\ ConfirmInv
            EdgesInv == DoorInv /\ GuardedInv /\ RpcInv /\ FiguresInv /\ HaltInv
<1>1. MCInit => EdgesInv
  <2>1. DoorInit => DoorInv
    BY ApprovalsStart, WindowStarts, ConfirmStarts
  <2>. QED  BY <2>1, GuardedStarts, RpcStarts, FiguresStart, HaltsStart DEF MCInit
<1>2. EdgesInv /\ [MCNext]_deskVars => EdgesInv'
  <2>. SUFFICES ASSUME EdgesInv, [MCNext]_deskVars PROVE EdgesInv'
    OBVIOUS
  <2>1. /\ [ApprovalNext]_approvalVars /\ [WindowNext]_windowVars /\ [ConfirmNext]_confirmVars
        /\ [GuardedNext]_guardedVars /\ [RpcNext]_rpcVars /\ [FigureNext]_figureVars
        /\ [HaltNext]_haltVars
    BY DEF MCNext, deskVars, doorVars
  <2>2. DoorInv'
    BY <2>1, ApprovalsGoOn, WindowGoesOn, ConfirmGoesOn
  <2>. QED  BY <2>1, <2>2, GuardedGoesOn, RpcGoesOn, FiguresGoOn, HaltsGoOn
<1>3. EdgesInv => EdgesSound
  <2>1. DoorInv => DoorSound
    BY ApprovalPromise, WindowPromise, ConfirmPromise DEF DoorSound
  <2>2. HaltInv => HaltSound
    BY DEF HaltInv, HaltSound
  <2>. QED  BY <2>1, <2>2, GuardedPromises, RpcPromise, FiguresPromise DEF EdgesSound
<1>. QED  BY <1>1, <1>2, <1>3, PTL DEF MCSpec
=============================================================================
