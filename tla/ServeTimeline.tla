--------------------------- MODULE ServeTimeline ---------------------------
(***************************************************************************)
(* pumpgrok serve over a recorded timeline: a tick per recorded stamp, in  *)
(* which the sniper seat places the candidates that pass the filter and    *)
(* the exit seat runs the exit rules over the positions in the ledger;     *)
(* then the rules are reloaded from the operator's active set.  Virtual    *)
(* time moves on while an order is in flight.  The process may die at any  *)
(* point and a new one resumes from the rows the old one wrote.            *)
(* The order check is PaperOrders: an order here is refused, or placed and  *)
(* then filled or rejected.                                                *)
(***************************************************************************)
EXTENDS Naturals, Integers, Sequences, FiniteSets, FiniteSetsExt

CONSTANTS
  Recording,     \* the recorded ticks in stored order: [mint, ts, price, complete]
  RuleSets,      \* parameter sets
  Passes,        \* [RuleSets -> SUBSET DOMAIN Recording]: the filter's verdicts
  ExitCfg,       \* [RuleSets -> [stop, profit, trail, hold]], percentages and time
  Latencies,     \* how far virtual time moves up to an order's row, and behind it
  MaxNow, MaxPromotions, MaxDeaths

Ticks == DOMAIN Recording
Mints == {Recording[i].mint : i \in Ticks}
Stamps == {Recording[i].ts : i \in Ticks}
Nothing == [seq |-> 0]     \* no position in this mint

ASSUME ServeAssumption ==
  /\ Recording # <<>>
  /\ Recording \in Seq([mint : Mints, ts : Nat \ {0}, price : Nat \ {0}, complete : BOOLEAN])
  /\ \A i, j \in Ticks : i < j => Recording[i].ts <= Recording[j].ts
  /\ Passes \in [RuleSets -> SUBSET Ticks] /\ Latencies \subseteq Nat \ {0}

VARIABLES
  \* the ledger and the operator ledger's active set
  orders,        \* the OrderPlaced rows of buys: [tick, mint, ts] and the life that wrote it
  open,          \* [Mints -> Nothing or [seq, entry, peak, ts]]
  opened,        \* PositionOpened rows so far
  tail,          \* the ts of the last timeline row, 0 when there is none
  target,        \* the active set
  \* the process
  phase, now, resumed, attempted, buying, looking, tracked, heldOut, rules,
  \* bounds and history
  promotions, deaths, reloadedAt, seen

desk == <<orders, open, opened, tail>>
memory == <<attempted, buying, looking, tracked, heldOut, rules>>
serveTimeVars == <<desk, target, phase, now, resumed, memory, promotions, deaths,
                   reloadedAt, seen>>

Phases == {"down", "between", "sniper", "placing", "inflight", "exit", "look", "boundary"}

TickInit ==
  /\ orders = {} /\ open = [m \in Mints |-> Nothing] /\ opened = 0 /\ tail = 0
  /\ target \in RuleSets
  /\ phase = "down" /\ now = Min(Stamps) /\ resumed = 0
  /\ attempted = {} /\ buying = 0 /\ looking = {}
  /\ tracked = [m \in Mints |-> Nothing] /\ heldOut = {} /\ rules = target
  /\ promotions = 0 /\ deaths = 0 /\ reloadedAt = 0
  /\ seen = [m \in Mints |-> 0]

-----------------------------------------------------------------------------
\* The recording as the curve source serves it at a moment.

Latest(m, t) ==
  LET past == {i \in Ticks : Recording[i].mint = m /\ Recording[i].ts <= t}
  IN  IF past = {} THEN 0 ELSE Max(past)

Price(m, t) == IF Latest(m, t) = 0 THEN 0 ELSE Recording[Latest(m, t)].price
Graduated(m, t) == Latest(m, t) # 0 /\ Recording[Latest(m, t)].complete

Larger(a, b) == IF a > b THEN a ELSE b

\* mark_open_positions: one MarkToMarket row prices every held mint whose
\* curve is still open, and the fold ratchets the peak from it.
Marked(book, t) ==
  [m \in Mints |-> IF book[m] = Nothing \/ Graduated(m, t) THEN book[m]
                   ELSE [book[m] EXCEPT !.peak = Larger(@, Price(m, t))]]

MarkRows(t) ==
  /\ open' = Marked(open, t)
  /\ tail' = IF \E m \in Mints : open[m] # Nothing /\ ~Graduated(m, t) THEN t ELSE tail
  /\ seen' = [m \in Mints |-> IF open[m] = Nothing \/ Graduated(m, t) THEN seen[m]
                              ELSE Larger(seen[m], Price(m, t))]

\* The first rule that fires, in this order; a zero setting is off.
Signal(p, price, t, cfg) ==
  LET change == price - p.entry
      fires == <<cfg.stop # 0 /\ (-change) * 100 >= cfg.stop * p.entry,
                 cfg.profit # 0 /\ change * 100 >= cfg.profit * p.entry,
                 cfg.trail # 0 /\ p.peak > p.entry
                               /\ (p.peak - price) * 100 >= cfg.trail * p.peak,
                 cfg.hold # 0 /\ t - p.ts >= cfg.hold>>
  IN  \E k \in 1 .. 4 : fires[k]

-----------------------------------------------------------------------------
\* A start resumes the ledger: the clock from its last row, the candidates
\* placed from the OrderPlaced rows that carry a candidate's own stamp.  The
\* row of a candidate's order is later than that (SubmitOrder).
Resume ==
  /\ phase = "down" /\ phase' = "between"
  /\ resumed' = tail /\ now' = Larger(Min(Stamps), tail)
  /\ attempted' = {i \in Passes[target] : \E o \in orders :
                     o.mint = Recording[i].mint /\ o.ts = Recording[i].ts}
  /\ rules' = target
  /\ tracked' = [m \in Mints |-> Nothing] /\ heldOut' = {}
  /\ buying' = 0 /\ looking' = {} /\ reloadedAt' = 0
  /\ UNCHANGED <<desk, target, promotions, deaths, seen>>

Die ==
  /\ phase # "down" /\ deaths < MaxDeaths
  /\ phase' = "down" /\ deaths' = deaths + 1
  /\ UNCHANGED <<desk, target, now, resumed, memory, promotions, reloadedAt, seen>>

\* Stamps an order's latency overtook, and those the dead process had reached,
\* are skipped; after the last one serve holds and ticks on.
NextStamp ==
  LET ahead == {s \in Stamps : s >= now /\ s > resumed}
  IN  IF ahead = {} THEN now + 1 ELSE Min(ahead)

BeginTick ==
  /\ phase = "between" /\ NextStamp <= MaxNow
  /\ phase' = "sniper" /\ now' = NextStamp /\ resumed' = Larger(resumed, NextStamp)
  /\ UNCHANGED <<desk, target, memory, promotions, deaths, reloadedAt, seen>>

-----------------------------------------------------------------------------
\* The sniper seat.

Eligible == {i \in Passes[rules] : i \notin attempted /\ Recording[i].ts <= now}

\* Observe-only, the seat does nothing; it does not refresh the marks either.
SniperObserves ==
  /\ phase = "sniper" /\ phase' = "exit"
  /\ UNCHANGED <<desk, target, now, resumed, memory, promotions, deaths, reloadedAt,
                 seen>>

\* The seat marks the book when it begins and before each candidate, so not
\* again once a candidate has taken time (resumed is the tick's own stamp).
SniperDone ==
  /\ phase = "sniper" /\ Eligible = {} /\ phase' = "exit"
  /\ IF now = resumed THEN MarkRows(now) ELSE UNCHANGED <<open, tail, seen>>
  /\ UNCHANGED <<orders, opened, target, now, resumed, memory, promotions, deaths,
                 reloadedAt>>

\* The next candidate counts as attempted before anything else is done for it.
TakeCandidate ==
  LET i == Min(Eligible) IN
  /\ phase = "sniper" /\ Eligible # {} /\ phase' = "placing"
  /\ attempted' = attempted \cup {i} /\ buying' = i
  /\ MarkRows(now)
  /\ UNCHANGED <<orders, opened, target, now, resumed, looking, tracked, heldOut, rules,
                 promotions, deaths, reloadedAt>>

\* Virtual time has moved on by a stride or more when the order's call first runs.
OrderArrives(lag) ==
  /\ phase = "placing" /\ now' = now + lag /\ tail' = now + lag
  /\ UNCHANGED <<open, opened, target, resumed, attempted, looking, tracked, heldOut, rules,
                 promotions, deaths, reloadedAt, seen>>

\* The order check may refuse for any of its reasons; the candidate stays attempted.
RefuseOrder ==
  /\ \E lag \in Latencies : OrderArrives(lag)
  /\ phase' = "sniper" /\ buying' = 0
  /\ UNCHANGED orders

\* A second position in a mint is refused; otherwise the order gets its row.
SubmitOrder ==
  LET m == Recording[buying].mint IN
  \E lag \in Latencies :
    /\ OrderArrives(lag)
    /\ open[m] = Nothing
    /\ phase' = "inflight"
    /\ orders' = orders \cup
         {[tick |-> buying, mint |-> m, ts |-> now + lag, life |-> deaths]}
    /\ UNCHANGED buying

\* The fill is priced where virtual time stands when the order settles.
SettleBuy ==
  LET m == Recording[buying].mint IN
  /\ phase = "inflight" /\ phase' = "sniper" /\ buying' = 0
  /\ \E wait \in Latencies :
       /\ now' = now + wait /\ tail' = now + wait
       /\ \/ UNCHANGED <<open, opened, seen>>                  \* rejected
          \/ /\ ~Graduated(m, now + wait)
             /\ opened' = opened + 1
             /\ open' = [open EXCEPT ![m] = [seq |-> opened + 1, ts |-> now + wait,
                                             entry |-> Price(m, now + wait),
                                             peak |-> Price(m, now + wait)]]
             /\ seen' = [seen EXCEPT ![m] = Price(m, now + wait)]
  /\ UNCHANGED <<orders, target, resumed, attempted, looking, tracked, heldOut, rules,
                 promotions, deaths, reloadedAt>>

-----------------------------------------------------------------------------

\* The exit seat.

\* LedgerExitBook.sync: what is held and not held out; a peak carries over
\* only while the opening row is the same.
Synced(book) ==
  [m \in Mints |->
     IF book[m] = Nothing \/ <<m, book[m].seq>> \in heldOut THEN Nothing
     ELSE [book[m] EXCEPT !.peak =
             IF tracked[m].seq = book[m].seq THEN Larger(@, tracked[m].peak) ELSE @]]

\* Graduated positions are closed at their last open reserves, and the book is
\* synced again before the rules look at each position that is left.
SyncExits ==
  LET gone == {m \in Mints : Synced(open)[m] # Nothing /\ Graduated(m, now)
                             /\ \E i \in Ticks : Recording[i].mint = m
                                  /\ Recording[i].ts <= now /\ ~Recording[i].complete}
      left == [m \in Mints |-> IF m \in gone THEN Nothing ELSE open[m]]
  IN
  /\ phase = "exit" /\ phase' = "look"
  /\ open' = left /\ tail' = IF gone = {} THEN tail ELSE now
  /\ tracked' = Synced(left)
  /\ looking' = {m \in Mints : Synced(left)[m] # Nothing}
  /\ UNCHANGED <<orders, opened, target, now, resumed, attempted, buying, heldOut, rules,
                 promotions, deaths, reloadedAt, seen>>

\* The venue's answer to a rule's sell; "unknown" holds the position out.
AnswerSell(m) ==
  \E wait \in Latencies :
    /\ now' = now + wait /\ tail' = now + wait
    /\ \/ open' = [open EXCEPT ![m] = Nothing] /\ UNCHANGED heldOut
       \/ UNCHANGED <<open, heldOut>>
       \/ heldOut' = heldOut \cup {<<m, tracked[m].seq>>} /\ UNCHANGED open

LookAt(m) ==
  LET price == Price(m, now)
      p == [tracked[m] EXCEPT !.peak = Larger(@, price)]
  IN
  /\ phase = "look" /\ m \in looking /\ looking' = looking \ {m}
  /\ tracked' = [tracked EXCEPT ![m] = p]
  /\ seen' = [seen EXCEPT ![m] = Larger(@, price)]
  /\ IF Signal(p, price, now, ExitCfg[rules]) THEN AnswerSell(m)
     ELSE UNCHANGED <<now, tail, open, heldOut>>
  /\ UNCHANGED <<orders, opened, target, phase, resumed, attempted, buying, rules,
                 promotions, deaths, reloadedAt>>

\* The journal seat marks the book when its cadence has come.
EndOfSeats ==
  /\ phase = "look" /\ looking = {} /\ phase' = "boundary"
  /\ MarkRows(now) \/ UNCHANGED <<open, tail, seen>>
  /\ UNCHANGED <<orders, opened, target, now, resumed, memory, promotions, deaths,
                 reloadedAt>>

\* Bug: a reload judges the recording again and drops the placed marks with it.
ReloadForgets ==
  /\ phase = "boundary" /\ phase' = "between"
  /\ IF rules = target THEN UNCHANGED <<rules, attempted, reloadedAt>>
     ELSE rules' = target /\ reloadedAt' = now /\ attempted' = {}
  /\ UNCHANGED <<desk, target, now, resumed, buying, looking, tracked, heldOut,
                 promotions, deaths, seen>>

\* The rules follow the active set; every candidate up to now counts as placed.
ReloadRules ==
  /\ phase = "boundary" /\ phase' = "between"
  /\ IF rules = target THEN UNCHANGED <<rules, attempted, reloadedAt>>
     ELSE /\ rules' = target /\ reloadedAt' = now
          /\ attempted' = attempted \cup {i \in Ticks : Recording[i].ts <= now}
  /\ UNCHANGED <<desk, target, now, resumed, buying, looking, tracked, heldOut,
                 promotions, deaths, seen>>

\* The promotion check or an operator, see ParamUpgrades.
Promote(s) ==
  /\ s # target /\ promotions < MaxPromotions
  /\ target' = s /\ promotions' = promotions + 1
  /\ UNCHANGED <<desk, phase, now, resumed, memory, deaths, reloadedAt, seen>>

TickNext ==
  \/ Resume \/ Die \/ BeginTick \/ SniperObserves \/ SniperDone \/ TakeCandidate
  \/ RefuseOrder \/ SubmitOrder \/ SettleBuy \/ SyncExits \/ (\E m \in Mints : LookAt(m)) \/ EndOfSeats
  \/ ReloadRules \/ (\E s \in RuleSets : Promote(s))

TimelineSpec == TickInit /\ [][TickNext]_serveTimeVars

-----------------------------------------------------------------------------
ServeTypeOK ==
  /\ phase \in Phases /\ now \in Nat /\ tail <= now
  /\ attempted \subseteq Ticks /\ buying \in Ticks \cup {0} /\ looking \subseteq Mints
  /\ \A m \in Mints : open[m].seq <= opened /\ tracked[m].seq <= opened
  /\ rules \in RuleSets /\ target \in RuleSets

\* The peak a trailing stop is measured from is at least every price the
\* ledger marked for the position, also after a restart, and never a price
\* of an earlier position in the same mint.
PeakOfThisPosition ==
  phase = "look" => \A m \in looking :
    /\ tracked[m].seq = open[m].seq
    /\ open[m].peak <= tracked[m].peak /\ tracked[m].peak <= seen[m]

\* "a reload never buys a past tick": within one life of the process no order
\* is placed for a candidate the clock had passed at the last reload.
ReloadNeverBuysPast ==
  \A o \in orders : phase = "inflight" /\ o.tick = buying => Recording[o.tick].ts > reloadedAt

\* A sell the venue left unknown is not offered again by this process: neither
\* a sync nor a reload of the rules brings the position back.
UnknownHeldOut ==
  \A m \in looking : tracked[m] = Nothing \/ <<m, tracked[m].seq>> \notin heldOut

\* "Place each BUY candidate once, when the recorded timeline reaches its tick"
\* (orders.py).  A process keeps this over its reloads of the rules ...
OrderedOncePerLife ==
  \A o, p \in orders : o.tick = p.tick /\ o.life = p.life => o = p

\* ... and a start is to keep it from the rows ("a BUY is attempted only when the
\* resumed ledger already holds its OrderPlaced row", serve.py), which it does not:
\* the row was stamped after the candidate.
PlacedOnce == \A o, p \in orders : o.tick = p.tick => o = p

\* What the process decided about a candidate or a position stands after a
\* reload, and what the ledger shows of a position also after a restart.
DecisionsStand ==
  OrderedOncePerLife /\ UnknownHeldOut /\ ReloadNeverBuysPast /\ PeakOfThisPosition
=============================================================================
