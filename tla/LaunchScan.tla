----------------------------- MODULE LaunchScan -----------------------------
(***************************************************************************)
(* What a launch passes before any order: the create events of the socket  *)
(* (engine/monitor.py), the candidates of a replay (engine/pipeline.py)    *)
(* and the creator book (engine/reputation.py) with its file and its       *)
(* degraded marker.  Time is counted in sweeper delays of ten seconds.     *)
(***************************************************************************)
EXTENDS Integers, Sequences, FiniteSets, SequencesExt

CONSTANTS
  Launched,        \* mints the socket may announce
  Carries,         \* Carries[m]: the [meta, curve] its create event carries; dated: its
                   \* creation time, if it has one, is not zero
  MaxPending,      \* MAX_PENDING
  MaxRemembered,   \* MAX_REMEMBERED of the seen set
  MinAge, Ttl, MaxCurve, MinBuyers,
  MaxNews,         \* bound: create events heard
  LastBeat,        \* bound: sweeper delays that pass
  Deployers,       \* creator addresses
  MaxCreators,     \* MAX_CREATORS
  Desks,           \* processes that load the book
  Writers,         \* bound: the ones that note trades in it and save it
  Fills,           \* the PositionOpened and PositionClosed rows of the ledger
  MaxNotes         \* bound: notes taken in the books

NoAddress == ""   \* what a row without a creator reads as

ASSUME ScanAssumption ==
  /\ Ttl \in Nat /\ MinAge \in Nat \ {0} /\ MaxCurve \in Nat /\ MinBuyers \in Nat
  /\ MaxPending \in Nat \ {0} /\ MaxRemembered \in Nat \ {0} /\ MaxCreators \in Nat \ {0}
  /\ NoAddress \notin Deployers /\ Writers \subseteq Desks
  /\ Carries \in [Launched -> [meta : BOOLEAN, curve : Nat, dated : BOOLEAN]]
  /\ Fills \in Seq([type : {"open", "close"}, mint : Launched,
                   creator : Deployers \cup {NoAddress}, rug : BOOLEAN])

VARIABLES
  beat, socket, swept, buffer, remembered, skips, yielded, heard, news,
  ticksIn,                     \* the ticks of one replay
  shelf, marked, desks, entries, lost, hidden

monitorVars == <<beat, socket, swept, buffer, remembered, skips, yielded, heard, news>>
bookVars == <<shelf, marked, desks, entries, lost, hidden>>
scanVars == <<monitorVars, ticksIn, bookVars>>

Unknown == -1
Least(S) == CHOOSE x \in S : \A y \in S : x <= y

(*************************** the launch filter *****************************)
AgeOf(token, at) ==
  IF token.born = 0 \/ at < token.born THEN 0 ELSE at - token.born

Gates(token, at) ==
  <<[why |-> "no_metadata", shut |-> ~token.meta],
    [why |-> "curve_too_full", shut |-> token.curve >= MaxCurve],
    [why |-> "too_young", shut |-> AgeOf(token, at) < MinAge],
    [why |-> "data_unavailable", shut |-> token.buyers = Unknown],
    [why |-> "few_buyers", shut |-> token.buyers < MinBuyers],
    [why |-> "ok", shut |-> TRUE]>>

PassesFilter(token, at) ==
  LET gates == Gates(token, at)
  IN gates[Least({i \in DOMAIN gates : gates[i].shut})].why

(***************************** the monitor *********************************)
\* The stream subscribes to creations only: no token it parses has buyers.
Parsed(mint, born) ==
  [mint |-> mint, born |-> IF Carries[mint].dated THEN born ELSE 0, buyers |-> Unknown,
   meta |-> Carries[mint].meta, curve |-> Carries[mint].curve]

Remember(seen, mint) ==
  LET kept == Append(RemoveFirst(seen, mint), mint)
  IN IF Len(kept) > MaxRemembered THEN Tail(kept) ELSE kept

Forget(tokens, mint) == RemoveFirstMatch(tokens, LAMBDA t : t.mint = mint)
Out(m, mint) == [m EXCEPT !.buffer = Forget(@, mint), !.remembered = Remember(@, mint)]
SkipKept(m, mint, why) ==
  [m EXCEPT !.skips = Append(@, [mint |-> mint, why |-> why]),
            !.buffer = Forget(@, mint)]
Skip(m, mint, why) ==
  [Out(m, mint) EXCEPT !.skips = Append(@, [mint |-> mint, why |-> why])]

Monitor == [buffer |-> buffer, remembered |-> remembered, skips |-> skips,
            yielded |-> yielded]

OldestOf(tokens) ==
  tokens[Least({i \in DOMAIN tokens :
    \A j \in DOMAIN tokens : tokens[i].born <= tokens[j].born})].mint
EvictIfCrowded(m) ==
  IF Len(m.buffer) < MaxPending THEN m
  ELSE Skip(m, OldestOf(m.buffer), "buffer_overflow")

\* A mint already buffered keeps its place and takes the later event's data.
Buffered(m, token) ==
  IF \E i \in DOMAIN m.buffer : m.buffer[i].mint = token.mint
  THEN [m EXCEPT !.buffer = [i \in DOMAIN @ |->
          IF @[i].mint = token.mint THEN token ELSE @[i]]]
  ELSE [m EXCEPT !.buffer = Append(@, token)]

HandleEvent(m, token) ==
  IF \E i \in DOMAIN m.remembered : m.remembered[i] = token.mint THEN m
  ELSE Buffered(EvictIfCrowded(m), token)

\* A verdict other than too_young and few_buyers is final; the age check runs
\* on every token that was not yielded, the ones just decided included.  A token
\* created at zero stays too young and is over the limit at once.
Swept(m, token, at) ==
  LET why == PassesFilter(token, at)
      decided ==
        IF why = "ok" THEN [Out(m, token.mint) EXCEPT !.yielded = Append(@, token.mint)]
        ELSE IF why \in {"too_young", "few_buyers"} THEN m
        ELSE Skip(m, token.mint, why)
  IN IF why # "ok" /\ at - token.born > Ttl
     THEN Skip(decided, token.mint, "stale_no_traction") ELSE decided

Sweep(m, at) == FoldLeft(LAMBDA done, token : Swept(done, token, at), m, m.buffer)

SweepIfDue(m) == IF beat > swept THEN Sweep(m, beat) ELSE m

Become(m) ==
  /\ buffer' = m.buffer /\ remembered' = m.remembered
  /\ skips' = m.skips /\ yielded' = m.yielded

Hear(mint, born) ==
  /\ socket = "up" /\ news < MaxNews
  /\ Become(SweepIfDue(HandleEvent(Monitor, Parsed(mint, born))))
  /\ swept' = beat /\ news' = news + 1 /\ heard' = heard \cup {mint}
  /\ UNCHANGED <<beat, socket>>

\* The receive timed out: nothing to handle, the buffer is swept when due.
Quiet ==
  /\ socket = "up" /\ beat > swept
  /\ Become(SweepIfDue(Monitor)) /\ swept' = beat
  /\ UNCHANGED <<beat, socket, heard, news>>

Sever ==
  /\ socket = "up" /\ socket' = "down"
  /\ UNCHANGED <<beat, swept, buffer, remembered, skips, yielded, heard, news>>

\* The buffer outlives the connection; the sweep timer starts again.
Reconnect ==
  /\ socket = "down" /\ socket' = "up" /\ swept' = beat
  /\ UNCHANGED <<beat, buffer, remembered, skips, yielded, heard, news>>

Beat ==
  /\ beat < LastBeat /\ beat' = beat + 1
  /\ UNCHANGED <<socket, swept, buffer, remembered, skips, yielded, heard, news>>

\* An event may carry a creation time of its own, long past; one without is
\* dated when it is heard.
MonitorNext ==
  \/ \E m \in Launched : \E born \in {1, beat} : Hear(m, born)
  \/ Quiet \/ Sever \/ Reconnect \/ Beat

\* Clocks stand further from zero than the age limit.
MonitorInit ==
  /\ beat = Ttl + 1 /\ socket = "down" /\ swept = 0 /\ buffer = <<>> /\ remembered = <<>>
  /\ skips = <<>> /\ yielded = <<>> /\ heard = {} /\ news = 0

(************************* candidates of a replay **************************)
\* What one tick records; an absent field is Unknown (FALSE for metadata).
TicksSeen == [meta : BOOLEAN, born : {Unknown, 1, 3}, buyers : {Unknown, 0, MinBuyers},
              reserves : {Unknown, 0, MaxCurve}]

\* Unknown reserves read as a full curve, an unknown creation time as none.
TickToCandidate(tick) ==
  [meta |-> tick.meta, buyers |-> tick.buyers,
   born |-> IF tick.born = Unknown THEN 0 ELSE tick.born,
   curve |-> IF tick.reserves = Unknown THEN MaxCurve ELSE tick.reserves]

EvaluateCandidates(ticks, at) ==
  [i \in DOMAIN ticks |-> PassesFilter(TickToCandidate(ticks[i]), at)]

DecideReplay(ticks, at) ==
  LET verdicts == EvaluateCandidates(ticks, at)
      bought == {i \in DOMAIN verdicts : verdicts[i] = "ok"}
  IN IF ticks = <<>> THEN [buy |-> FALSE, why |-> "no_events", tick |-> 0]
     ELSE IF bought # {} THEN [buy |-> TRUE, why |-> "ok", tick |-> Least(bought)]
     ELSE [buy |-> FALSE, why |-> verdicts[1], tick |-> 1]

(**************************** the creator book *****************************)
EmptyBook == [c \in {} |-> [rugs |-> 0, seen |-> 0]]
Bad(record) == record.rugs > 0

\* Clean addresses go first, the stalest of them first.
GoesBefore(a, b) ==
  \/ ~Bad(a) /\ Bad(b)
  \/ (Bad(a) <=> Bad(b)) /\ a.seen < b.seen
Evictee(book) == CHOOSE c \in DOMAIN book :
                   \A d \in DOMAIN book \ {c} : GoesBefore(book[c], book[d])
Without(book, C) == [c \in DOMAIN book \ C |-> book[c]]

\* A new address stands in the book with no last_seen when the crowd is thinned.
Record(book, creator, rugs, stamp) ==
  LET entered == IF creator \in DOMAIN book THEN book
                 ELSE [c \in DOMAIN book \cup {creator} |->
                         IF c \in DOMAIN book THEN book[c] ELSE [rugs |-> 0, seen |-> 0]]
      thinned == IF Cardinality(DOMAIN entered) <= MaxCreators THEN entered
                 ELSE Without(entered, {Evictee(entered)})
  IN IF creator \notin DOMAIN thinned THEN thinned
     ELSE [thinned EXCEPT ![creator] =
             [rugs |-> @.rugs + rugs, seen |-> stamp]]

\* The first opener of a mint is its creator; a close without one is skipped.
OpenerOf(mint) ==
  LET openings == {i \in DOMAIN Fills :
        Fills[i].type = "open" /\ Fills[i].mint = mint /\ Fills[i].creator # NoAddress}
  IN IF openings = {} THEN NoAddress ELSE Fills[Least(openings)].creator
Attributed(row) == IF row.type = "open" THEN row.creator ELSE OpenerOf(row.mint)

ReplayEvent(book, row) ==
  IF Attributed(row) = NoAddress THEN book
  ELSE Record(book, Attributed(row), IF row.type = "close" /\ row.rug THEN 1 ELSE 0, 1)
RebuildFromLedger ==
  [book |-> FoldLeft(ReplayEvent, EmptyBook, Fills),
   degraded |-> \A i \in DOMAIN Fills : Attributed(Fills[i]) = NoAddress]

BadOf(book) == {c \in DOMAIN book : Bad(book[c])}
DeskAt(stage, degraded, book) ==
  [stage |-> stage, degraded |-> degraded, book |-> book, rugged |-> BadOf(book)]
NoProcess == DeskAt("out", FALSE, EmptyBook)
Loaded(d, degraded, book) == desks' = [desks EXCEPT ![d] = DeskAt("up", degraded, book)]

LoadMarked(d) ==
  /\ desks[d].stage = "out" /\ marked
  /\ Loaded(d, TRUE, EmptyBook)
  /\ UNCHANGED <<shelf, marked, entries, lost, hidden>>

LoadMissing(d) ==
  /\ desks[d].stage = "out" /\ ~marked /\ shelf.file = "none"
  /\ Loaded(d, FALSE, EmptyBook)
  /\ UNCHANGED <<shelf, marked, entries, lost, hidden>>

LoadBook(d) ==
  /\ desks[d].stage = "out" /\ ~marked /\ shelf.file = "book"
  /\ Loaded(d, FALSE, shelf.book)
  /\ UNCHANGED <<shelf, marked, entries, lost, hidden>>

\* The corrupt file is set aside, or the rename fails, before the marker.
Quarantine(d) ==
  /\ desks[d].stage = "out" /\ ~marked /\ shelf.file = "torn"
  /\ desks' = [desks EXCEPT ![d] = DeskAt("marking", TRUE, EmptyBook)]
  /\ \/ shelf' = [file |-> "none", book |-> EmptyBook] /\ hidden' = TRUE
     \/ UNCHANGED <<shelf, hidden>>
  /\ UNCHANGED <<marked, entries, lost>>

WriteMarker(d) ==
  /\ desks[d].stage = "marking"
  /\ marked' = TRUE /\ hidden' = FALSE
  /\ desks' = [desks EXCEPT ![d].stage = "up"]
  /\ UNCHANGED <<shelf, entries, lost>>

\* The marker cannot be written, or the process dies: nothing starts.
StopDesk(d) ==
  /\ desks[d].stage # "out"
  /\ desks' = [desks EXCEPT ![d] = NoProcess]
  /\ UNCHANGED <<shelf, marked, entries, lost, hidden>>

\* observe and record_open without a rug, record_close of a deep loss with one.
Note(d, creator, rugs) ==
  /\ desks[d].stage = "up" /\ entries < MaxNotes
  /\ LET book == Record(desks[d].book, creator, rugs, entries + 2)
     IN desks' = [desks EXCEPT ![d] =
          [stage |-> "up", degraded |-> @.degraded, book |-> book,
           rugged |-> @.rugged \cup ({creator} \cap BadOf(book))]]
  /\ entries' = entries + 1
  /\ UNCHANGED <<shelf, marked, lost, hidden>>

ForgetOlder(d, cutoff) ==
  /\ desks[d].stage = "up"
  /\ desks' = [desks EXCEPT ![d].book =
       Without(@, {c \in DOMAIN @ : @[c].seen < cutoff /\ ~Bad(@[c])})]
  /\ UNCHANGED <<shelf, marked, entries, lost, hidden>>

\* A healthy process still holds the history: its save heals a torn file.  One
\* that stays degraded after the marker is gone writes an empty book over it.
SaveBook(d) ==
  /\ desks[d].stage = "up"
  /\ shelf' = [file |-> "book", book |-> desks[d].book]
  /\ lost' = (lost /\ (desks[d].degraded \/ shelf.file # "torn"))
  /\ hidden' = (hidden \/ (lost' /\ ~marked))
  /\ UNCHANGED <<marked, desks, entries>>

Damage ==
  /\ shelf.file = "book" /\ shelf' = [file |-> "torn", book |-> EmptyBook]
  /\ lost' = TRUE
  /\ UNCHANGED <<marked, desks, entries, hidden>>

\* A human restores the book from the ledger and then removes the marker.
HumanRestores ==
  /\ marked /\ ~RebuildFromLedger.degraded
  /\ shelf' = [file |-> "book", book |-> RebuildFromLedger.book]
  /\ marked' = FALSE /\ lost' = FALSE
  /\ UNCHANGED <<desks, entries, hidden>>

BookNext ==
  \/ \E d \in Desks :
       \/ LoadMarked(d) \/ LoadMissing(d) \/ LoadBook(d)
       \/ Quarantine(d) \/ WriteMarker(d) \/ StopDesk(d)
  \/ \E d \in Writers :
       \/ \E c \in Deployers, rugs \in 0..1 : Note(d, c, rugs)
       \/ ForgetOlder(d, entries + 1) \/ SaveBook(d)
  \/ Damage \/ HumanRestores

BookInit ==
  /\ shelf = [file |-> "none", book |-> EmptyBook] /\ marked = FALSE
  /\ desks = [d \in Desks |-> NoProcess] /\ entries = 0 /\ lost = FALSE /\ hidden = FALSE

\* The monitor, the book and a replay share no state: each moves on its own.
ScanInit == MonitorInit /\ BookInit
ScanSpec ==
  /\ ScanInit /\ ticksIn \in Seq(TicksSeen)
  /\ [][MonitorNext]_monitorVars /\ [][BookNext]_bookVars /\ [][UNCHANGED ticksIn]_ticksIn

(******************************* properties ********************************)
\* Every launch heard is in the bounded buffer or was skipped with a reason,
\* and no launch leaves the buffer for an order: the stream has no buyers
\* (monitor.py sweep, _promote, _evict_if_crowded).
LaunchesAccounted ==
  /\ Len(buffer) <= MaxPending /\ yielded = <<>>
  /\ \A i, j \in DOMAIN buffer : buffer[i].mint = buffer[j].mint => i = j
  /\ heard = {buffer[i].mint : i \in DOMAIN buffer} \cup {skips[i].mint : i \in DOMAIN skips}

\* Skips that come after a verdict of the filter.
Judged(i) == skips[i].why \notin {"stale_no_traction", "buffer_overflow"}

\* A launch the filter can judge before the age limit drops it.
Matures(mint) == MinAge <= Ttl /\ Carries[mint].dated

\* The filter judges a launch again only after as many other launches were
\* remembered as the seen set holds.  The age limit never drops a launch the
\* filter has not just judged, if a launch is old enough to be judged by then and
\* has a creation time: one without ends unjudged (monitor.py SeenSet, sweep).
VerdictsOnce ==
  /\ \A i, j \in DOMAIN skips :
       (i < j /\ skips[i].mint = skips[j].mint /\ Judged(i) /\ Judged(j))
         => Cardinality({skips[k].mint : k \in i..j} \ {skips[i].mint}) >= MaxRemembered
  /\ \A i \in DOMAIN skips : skips[i].why = "stale_no_traction" /\ Matures(skips[i].mint)
       => i > 1 /\ skips[i - 1].mint = skips[i].mint /\ Judged(i - 1)

\* No tick becomes a buy because a field is missing: a candidate that passes
\* fails once any one of its records is absent, and the summary buys exactly
\* when a candidate does, the first one (pipeline.py tick_to_candidate,
\* decide_replay).
CandidatesFailClosed ==
  LET at == MinAge + 1
      verdicts == EvaluateCandidates(ticksIn, at)
      blind(i) == {[ticksIn[i] EXCEPT !.meta = FALSE], [ticksIn[i] EXCEPT !.born = Unknown],
                   [ticksIn[i] EXCEPT !.buyers = Unknown],
                   [ticksIn[i] EXCEPT !.reserves = Unknown]}
      decision == DecideReplay(ticksIn, at)
  IN /\ \A i \in DOMAIN verdicts : verdicts[i] = "ok"
          => \A t \in blind(i) : PassesFilter(TickToCandidate(t), at) # "ok"
     /\ decision.buy <=> \E i \in DOMAIN verdicts : verdicts[i] = "ok"
     /\ decision.buy => \A i \in 1..(decision.tick - 1) : verdicts[i] # "ok"

\* An address whose rug was written in a book stays in it, however crowded the
\* book is and whatever is forgotten: a newcomer that finds no room is the first
\* to go (reputation.py _evict_if_crowded, forget_older_than).
RugsKept == \A d \in Desks : desks[d].rugged \subseteq DOMAIN desks[d].book

\* Lost history stays visible to the next load until a human restores it,
\* except while a process is, or has stopped, between the rename and the
\* marker, and after a process still degraded saves (reputation.py load).
LossVisible == lost => marked \/ shelf.file = "torn" \/ hidden

\* The rebuilt book holds one rug for each deep loss of a mint its address
\* opened first (reputation.py rebuild_from_ledger).
RebuildExact ==
  LET rebuilt == RebuildFromLedger
      lossesOf(c) == {i \in DOMAIN Fills : /\ Fills[i].type = "close" /\ Fills[i].rug
                                           /\ OpenerOf(Fills[i].mint) = c}
  IN \A c \in DOMAIN rebuilt.book : rebuilt.book[c].rugs = Cardinality(lossesOf(c))

ScanSound ==
  /\ LaunchesAccounted /\ VerdictsOnce /\ CandidatesFailClosed
  /\ RugsKept /\ LossVisible /\ RebuildExact
=============================================================================
