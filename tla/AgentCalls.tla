----------------------------- MODULE AgentCalls -----------------------------
(***************************************************************************)
(* The Grok calls of the screening agents (engine/agents, core/llm.py): a  *)
(* shared daily budget and call slots, retries with a backoff, fallbacks,  *)
(* the timing verdict's cache; and what the analyzer (engine/analyzer.py)  *)
(* and the scoring matrix (engine/scoring.py) make of the answers.         *)
(***************************************************************************)
EXTENDS Integers, FiniteSets

CONSTANTS
  Askers,          \* agent runs, each made once
  Timers,          \* the ones that go through TimingAgent.get
  MaxPerDay,       \* the daily call budget
  MaxConcurrency, MaxRetries,
  CacheSpan,       \* cache_seconds, in hours of the model
  HoursPerDay, LastHour,
  MaxRisk          \* max_risk_score, in hundredths

ASSUME AgentAssumption ==
  /\ IsFiniteSet(Askers) /\ Timers \subseteq Askers
  /\ MaxPerDay \in Nat \ {0} /\ MaxConcurrency \in Nat \ {0} /\ MaxRetries \in Nat \ {0}
  /\ CacheSpan \in Nat /\ HoursPerDay \in Nat \ {0} /\ LastHour \in Nat
  /\ MaxRisk \in 0..999

VARIABLES
  hour,
  quota,           \* CallBudget: [day, spent]
  asks,            \* each run: where it is, its time, its tries and its result
  posts,           \* requests sent: who, which try, day charged
  cached,          \* TimingAgent._cached: the run that answered, and its time
  reading,         \* the token fetched, if any: what its sources hold, and which fail
  panel            \* the verdicts scored, if any

callVars == <<hour, quota, asks, posts, cached>>
agentVars == <<callVars, reading, panel>>

Nobody == "nobody"
Today == hour \div HoursPerDay

(******************************* the calls *********************************)
Rolled == IF quota.day = Today THEN quota ELSE [day |-> Today, spent |-> 0]

CacheIsFresh(at) == cached.by # Nobody /\ at - cached.at < CacheSpan

Ended(a, result) == asks' = [asks EXCEPT ![a].at = "done", ![a].result = result]

\* get: the cached verdict when it is fresh at the caller's own time.
BeginAsk(a) ==
  /\ asks[a].at = "new"
  /\ IF a \in Timers /\ CacheIsFresh(hour)
     THEN asks' = [asks EXCEPT ![a] = [@ EXCEPT !.at = "done", !.now = hour,
                                                !.result = "cached", !.from = cached]]
     ELSE asks' = [asks EXCEPT ![a].at = "asking", ![a].now = hour]
  /\ UNCHANGED <<hour, quota, posts, cached>>

\* The budget is asked before the backoff of a retry, not after it.
PrecheckAsk(a) ==
  /\ asks[a].at = "asking"
  /\ IF Rolled.spent + 1 > MaxPerDay
     THEN quota' = Rolled /\ Ended(a, "fallback")
     ELSE /\ quota' = [Rolled EXCEPT !.spent = @ + 1]
          /\ asks' = [asks EXCEPT ![a].charged = Today,
                        ![a].at = IF asks[a].tries = 0 THEN "queued" ELSE "backing"]
  /\ UNCHANGED <<hour, posts, cached>>

BackedOff(a) ==
  /\ asks[a].at = "backing"
  /\ asks' = [asks EXCEPT ![a].at = "queued"]
  /\ UNCHANGED <<hour, quota, posts, cached>>

\* One of the slots, then the request; the slot is held until the answer.
PostAsk(a) ==
  /\ asks[a].at = "queued"
  /\ Cardinality({b \in Askers : asks[b].at = "posted"}) < MaxConcurrency
  /\ asks' = [asks EXCEPT ![a].at = "posted"]
  /\ posts' = posts \cup {[who |-> a, try |-> asks[a].tries, charged |-> asks[a].charged]}
  /\ UNCHANGED <<hour, quota, cached>>

\* A result the timing agent got is stamped with its caller's time and cached.
AnswerGood(a) ==
  /\ asks[a].at = "posted" /\ Ended(a, "verdict")
  /\ cached' = IF a \in Timers THEN [by |-> a, at |-> asks[a].now] ELSE cached
  /\ UNCHANGED <<hour, quota, posts>>

\* The slip: a fallback cached for the whole window.
AnswerUselessKept(a) ==
  /\ asks[a].at = "posted" /\ Ended(a, "fallback")
  /\ cached' = IF a \in Timers THEN [by |-> a, at |-> asks[a].now] ELSE cached
  /\ UNCHANGED <<hour, quota, posts>>

\* Not JSON, or not the schema; or a refusal no retry can help.  The timing
\* agent does not cache a fallback.
AnswerUseless(a) ==
  /\ asks[a].at = "posted" /\ Ended(a, "fallback")
  /\ UNCHANGED <<hour, quota, posts, cached>>

\* A timeout, a server error, too many requests or an unexpected shape.
Retries(a) ==
  /\ asks[a].at = "posted"
  /\ IF asks[a].tries + 1 < MaxRetries
     THEN asks' = [asks EXCEPT ![a].at = "asking", ![a].tries = @ + 1]
     ELSE Ended(a, "fallback")
  /\ UNCHANGED <<hour, quota, posts, cached>>

\* The task is cancelled where it stands; a slot it held is free again.
CancelAsk(a) ==
  /\ asks[a].at \in {"backing", "queued", "posted"} /\ Ended(a, "cancelled")
  /\ UNCHANGED <<hour, quota, posts, cached>>

Invalidate ==
  /\ cached' = [by |-> Nobody, at |-> 0]
  /\ UNCHANGED <<hour, quota, asks, posts>>

Hour ==
  /\ hour < LastHour /\ hour' = hour + 1
  /\ UNCHANGED <<quota, asks, posts, cached>>

CallsNext ==
  \/ \E a \in Askers :
       \/ BeginAsk(a) \/ PrecheckAsk(a) \/ BackedOff(a) \/ PostAsk(a)
       \/ AnswerGood(a) \/ AnswerUseless(a) \/ Retries(a) \/ CancelAsk(a)
  \/ Invalidate \/ Hour

CallsInit ==
  /\ hour = 0 /\ quota = [day |-> 0, spent |-> 0] /\ posts = {}
  /\ cached = [by |-> Nobody, at |-> 0]
  /\ asks = [a \in Askers |-> [at |-> "new", now |-> 0, tries |-> 0, charged |-> 0,
                               result |-> "none", from |-> cached]]

(***************************** the analyzer ********************************)
Capped(n, top) == IF n > top THEN top ELSE IF n < 0 THEN 0 ELSE n

\* Shares and qualities in percent; the top five holders and the creator come
\* from the holders, the rest from the trades and the card.
Readings ==
  [top : {25, 85}, creator : {0, 20, 25}, snipers : {0, 10}, diversity : {0, 100},
   health : {0, 100}, socials : {0, 100}, trades : {0, 5, 50},
   failed : SUBSET {"card", "holders", "trades"}]

\* A source that fails reads as one that holds nothing.
Fetched(r) ==
  [top |-> IF "holders" \in r.failed THEN 0 ELSE r.top,
   creator |-> IF "holders" \in r.failed THEN 0 ELSE r.creator,
   trades |-> IF "trades" \in r.failed THEN 0 ELSE r.trades,
   snipers |-> IF "trades" \in r.failed THEN 0 ELSE r.snipers,
   diversity |-> IF "trades" \in r.failed THEN 0 ELSE r.diversity,
   health |-> IF "trades" \in r.failed THEN 0 ELSE r.health,
   socials |-> IF "card" \in r.failed THEN 0 ELSE r.socials]

Vetoed(m) == m.creator >= 25 \/ m.top >= 80

\* Hundredths of a risk point.
RiskScore(m) ==
  Capped(Capped((m.top * 375) \div 100, 300) + Capped(m.creator * 10, 300)
         + Capped(m.snipers * 25, 200) + ((100 - m.diversity) * 150) \div 100
         + (100 - m.health) + (100 - m.socials) \div 2
         + (IF m.trades < 10 THEN 100 ELSE 0), 1000)
Risk(m) == IF Vetoed(m) THEN 1000 ELSE RiskScore(m)

Passed(m) == m.trades > 0 /\ Risk(m) <= MaxRisk

(****************************** the scoring ********************************)
NoAudit == [organic |-> -1, flags |-> 0]
NoNarrative == [mean |-> -1]
NoTiming == [base |-> -1, anomalies |-> 0]
Panels ==
  [audit : {NoAudit} \cup [organic : {0, 60, 100}, flags : {0, 1, 4}],
   narrative : {NoNarrative} \cup [mean : {0, 50, 100}],
   timing : {NoTiming} \cup [base : {0, 50, 90}, anomalies : {0, 2}],
   quality : {0, 50, 100},
   weights : {<<30, 20, 20, 30>>, <<10, -5, 10, 0>>, <<0, -1, 0, 0>>}]

AuditScore(v) == IF v = NoAudit THEN 0 ELSE Capped(v.organic - 25 * v.flags, 100)
NarrativeScore(v) == IF v = NoNarrative THEN 0 ELSE Capped(v.mean, 100)
TimingScore(v) == IF v = NoTiming THEN 0 ELSE Capped(v.base - 10 * v.anomalies, 100)

\* Negative weights count as zero; without any weight all four are equal.
Weight(w, i) ==
  IF \A j \in DOMAIN w : w[j] <= 0 THEN 1 ELSE IF w[i] < 0 THEN 0 ELSE w[i]

\* The total times the sum of the weights, which normalising divides by.
Total(p) ==
  Weight(p.weights, 1) * AuditScore(p.audit)
  + Weight(p.weights, 2) * NarrativeScore(p.narrative)
  + Weight(p.weights, 3) * TimingScore(p.timing)
  + Weight(p.weights, 4) * p.quality

\* What each agent's run returns when its call failed.
PessimisticAudit == [organic |-> 0, flags |-> 4]
PessimisticNarrative == [mean |-> 0]
PessimisticTiming == [base |-> 0, anomalies |-> 1]

\* One token fetched and judged; one panel of verdicts scored.
Analyze == reading = {} /\ \E r \in Readings : reading' = {r}
ScorePanel == panel = {} /\ \E p \in Panels : panel' = {p}

AgentsInit == CallsInit /\ reading = {} /\ panel = {}
AgentsNext ==
  \/ CallsNext /\ UNCHANGED <<reading, panel>>
  \/ Analyze /\ UNCHANGED <<callVars, panel>>
  \/ ScorePanel /\ UNCHANGED <<callVars, reading>>
AgentsSpec == AgentsInit /\ [][AgentsNext]_agentVars

(******************************* properties ********************************)
\* No more requests are ever charged to a day than its budget, whatever the
\* retries and the midnight between a charge and its request, and a run sends
\* at most one request per try (budget.py try_spend, base.py _call).
BudgetKept ==
  /\ \A d \in 0..Today : Cardinality({p \in posts : p.charged = d}) <= MaxPerDay
  /\ \A p, q \in posts : (p.who = q.who /\ p.try = q.try) => p = q
  /\ \A p \in posts : p.try < MaxRetries

\* A verdict served from the cache is the answer another run really got, from
\* less than the cache span before the caller's own time: a fallback is never
\* served twice (timing.py get).
CacheHonest ==
  \A a \in Askers : asks[a].result = "cached" =>
    LET from == asks[a].from
    IN /\ asks[from.by].result = "verdict" /\ from.at = asks[from.by].now
       /\ asks[a].now - from.at < CacheSpan

\* A token passes only on trades that were fetched, and never with a vetoed
\* holding that was fetched; the failure of the trades or of the card never
\* lowers the risk of a token the veto spares (analyzer.py compute_metrics).
AnalysisFailsClosed ==
  \A r \in reading :
    LET whole == Fetched([r EXCEPT !.failed = @ \cap {"holders"}])
        seen == Fetched(r)
    IN /\ Passed(seen) => "trades" \notin r.failed /\ r.trades > 0
       /\ ("holders" \notin r.failed /\ Vetoed(r)) => ~Passed(seen)
       /\ "trades" \notin r.failed => Risk(whole) <= Risk(seen)

\* No missing verdict and no failed call ever raises a score (scoring.py
\* compute_scores, models.py pessimistic).
PessimismNeverHelps ==
  \A full \in panel :
    \A p \in {[full EXCEPT !.audit = NoAudit], [full EXCEPT !.narrative = NoNarrative],
              [full EXCEPT !.timing = NoTiming], [full EXCEPT !.audit = PessimisticAudit],
              [full EXCEPT !.narrative = PessimisticNarrative],
              [full EXCEPT !.timing = PessimisticTiming]} :
      Total(p) <= Total(full)

AgentsSound ==
  BudgetKept /\ CacheHonest /\ AnalysisFailsClosed /\ PessimismNeverHelps
=============================================================================
