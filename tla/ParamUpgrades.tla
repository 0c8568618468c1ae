--------------------------- MODULE ParamUpgrades ---------------------------
(***************************************************************************)
(* How a parameter set becomes the one the desk trades under.  Every serve *)
(* process checks at its tick boundaries whether the hourly promotion      *)
(* check is due, searches the declared space under a lock on the run       *)
(* directory, puts the winner through the gate, and either escalates it or *)
(* records evidence, a note, the set's content and at last the             *)
(* ConfigChanged row that makes it active.  Operators in processes of      *)
(* their own change the autonomy level and restore earlier sets, and a     *)
(* process may die between any two of these steps.                         *)
(***************************************************************************)
EXTENDS Naturals, Integers, Sequences, FiniteSets

CONSTANTS
  Runners,       \* serve processes over one operator ledger
  ParamSets,     \* parameter sets, by content hash
  NoSet,
  Spaces,        \* declared spaces: sequences of sets, in hash order
  InBounds,      \* the sets inside the bounds file
  Diverging,     \* the sets whose paper window diverges from the backtest
  Mean,          \* [ParamSets -> Int]: mean net over the tuning folds
  HoldoutNet,    \* [ParamSets -> Int]: net over the holdout window
  MaxEligible, MaxAllowed,
  Interval,      \* ticks between two promotion checks
  MaxEdits, MaxCrashes

ASSUME UpgradesAssumption ==
  /\ NoSet \notin ParamSets /\ NoSet \notin Runners /\ NoSet \notin Spaces
  /\ Mean \in [ParamSets -> Int]
  /\ Spaces \subseteq Seq(ParamSets)
  /\ InBounds \subseteq ParamSets /\ Diverging \subseteq ParamSets
  /\ MaxEligible \in Nat /\ MaxAllowed \in Nat /\ MaxEligible < MaxAllowed
  /\ \A space \in Spaces : Len(space) <= MaxEligible
  /\ Interval \in Nat \ {0}

VARIABLES
  \* the operator ledger and the files beside it
  autonomy, active, content, evidence, noted, escalated,
  locks, trials,           \* per run directory, named by the space searched
  observed,                \* the paper ledger covers the holdout window
  \* each serve process
  at, conf, pos, best, loaded, since,
  \* bounds and history
  edits, crashes, granted, promoted

ledgerVars == <<autonomy, active, content, evidence, noted, escalated>>
fileVars == <<locks, trials, observed>>
serveVars == <<at, conf, pos, best, loaded, since>>
upVars == <<ledgerVars, fileVars, serveVars, edits, crashes, granted, promoted>>

Levels == {"manual-ticket", "autonomous-paper"}
Locked == {"search", "settle", "judge", "escalate", "evidence", "note",
           "content", "activate"}
Places == Locked \cup {"down", "tick", "check", "mark", "reload"}

UpInit ==
  /\ autonomy = "manual-ticket" /\ active = NoSet /\ content = {}
  /\ evidence = [s \in ParamSets |-> NoSet] /\ noted = {} /\ escalated = {}
  /\ locks = [space \in Spaces |-> NoSet]
  /\ trials = [space \in Spaces |-> <<>>] /\ observed = FALSE
  /\ at = [r \in Runners |-> "down"]
  /\ conf = [r \in Runners |-> <<>>]
  /\ pos = [r \in Runners |-> 0]
  /\ best = [r \in Runners |-> NoSet]
  /\ loaded = [r \in Runners |-> NoSet]
  /\ since = [r \in Runners |-> Interval]   \* no check marked yet: due
  /\ edits = 0 /\ crashes = 0
  /\ granted = [r \in Runners |-> FALSE] /\ promoted = {}

Go(r, place) == at' = [at EXCEPT ![r] = place]

\* The check ends: the lock goes with the `with` block.
Finish(r) ==
  /\ Go(r, "mark")
  /\ locks' = [locks EXCEPT ![conf[r]] = NoSet]

-----------------------------------------------------------------------------
\* The serve process outside the search.

Tick(r) ==
  /\ at[r] = "tick" /\ Go(r, "check")
  /\ since' = [since EXCEPT ![r] = IF @ < Interval THEN @ + 1 ELSE @]
  /\ UNCHANGED <<ledgerVars, fileVars, conf, pos, best, loaded, edits, crashes,
                 granted, promoted>>

Due(r) == since[r] >= Interval

\* Not due: nothing is marked.  Due, but no space is declared or a human
\* holds the desk at manual-ticket: skipped, and marked all the same.
SkipCheck(r) ==
  /\ at[r] = "check"
  /\ \/ ~Due(r) /\ Go(r, "reload")
     \/ Due(r) /\ (conf[r] = <<>> \/ autonomy # "autonomous-paper") /\ Go(r, "mark")
  /\ UNCHANGED <<ledgerVars, fileVars, conf, pos, best, loaded, since, edits,
                 crashes, granted, promoted>>

\* The lock is tried without waiting; a busy run directory fails the check.
\* Under the lock the trials of earlier runs of this directory are dropped.
OpenRun(r) ==
  /\ at[r] = "check" /\ Due(r)
  /\ conf[r] # <<>> /\ autonomy = "autonomous-paper"
  /\ IF locks[conf[r]] = NoSet
     THEN /\ locks' = [locks EXCEPT ![conf[r]] = r]
          /\ trials' = [trials EXCEPT ![conf[r]] = <<>>]
          /\ pos' = [pos EXCEPT ![r] = 0]
          /\ Go(r, "search")
     ELSE Go(r, "mark") /\ UNCHANGED <<locks, trials, pos>>
  /\ UNCHANGED <<ledgerVars, observed, conf, best, loaded, since, edits, crashes,
                 granted, promoted>>

Mark(r) ==
  /\ at[r] = "mark" /\ Go(r, "reload")
  /\ since' = [since EXCEPT ![r] = 0]
  /\ best' = [best EXCEPT ![r] = NoSet] /\ pos' = [pos EXCEPT ![r] = 0]
  /\ UNCHANGED <<ledgerVars, fileVars, conf, loaded, edits, crashes, granted,
                 promoted>>
\* A mutant: a serve follows only what it promoted itself.
ReloadOwn(r) ==
  /\ at[r] = "reload" /\ Go(r, "tick")
  /\ loaded' = [loaded EXCEPT ![r] =
                  IF \E p \in promoted : p.set = active /\ p.run = conf[r] THEN active ELSE @]
  /\ UNCHANGED <<ledgerVars, fileVars, conf, pos, best, since, edits, crashes,
                 granted, promoted>>

\* Content that is missing under the active hash ends serve (CorruptState).
Reload(r) ==
  /\ at[r] = "reload"
  /\ IF active \in {NoSet, loaded[r]} THEN Go(r, "tick") /\ UNCHANGED loaded
     ELSE IF active \in content
          THEN Go(r, "tick") /\ loaded' = [loaded EXCEPT ![r] = active]
          ELSE Go(r, "down") /\ UNCHANGED loaded
  /\ UNCHANGED <<ledgerVars, fileVars, conf, pos, best, since, edits, crashes,
                 granted, promoted>>

-----------------------------------------------------------------------------
\* The search and the gate, under the lock.
\* A mutant: a candidate is recorded for each of two tuning folds.
TrialPerFold(r) ==
  LET run == conf[r] IN
  /\ at[r] = "search" /\ pos[r] < Len(run)
  /\ trials' = [trials EXCEPT ![run] = @ \o <<run[pos[r] + 1], run[pos[r] + 1]>>]
  /\ pos' = [pos EXCEPT ![r] = @ + 1]
  /\ Go(r, IF pos[r] + 1 = Len(run) THEN "settle" ELSE "search")
  /\ UNCHANGED <<ledgerVars, locks, observed, conf, best, loaded, since, edits,
                 crashes, granted, promoted>>

Trial(r) ==
  LET run == conf[r] IN
  /\ at[r] = "search" /\ pos[r] < Len(run)
  /\ IF Len(trials[run]) < MaxAllowed
     THEN /\ trials' = [trials EXCEPT ![run] = Append(@, run[pos[r] + 1])]
          /\ pos' = [pos EXCEPT ![r] = @ + 1]
          /\ Go(r, IF pos[r] + 1 = Len(run) THEN "settle" ELSE "search")
          /\ UNCHANGED locks
     ELSE Finish(r) /\ UNCHANGED <<trials, pos>>
  /\ UNCHANGED <<ledgerVars, observed, conf, best, loaded, since, edits, crashes,
                 granted, promoted>>

\* The first of the best means wins.
Winner(run) ==
  CHOOSE s \in ParamSets : \E i \in DOMAIN run :
    /\ run[i] = s
    /\ \A j \in DOMAIN run : Mean[run[j]] <= Mean[s]
    /\ \A j \in 1 .. (i - 1) : Mean[run[j]] < Mean[s]

\* The holdout is scored once, for the winner; a winner already active and a
\* paper window not yet complete both skip the rest.
Settle(r) ==
  LET winner == Winner(conf[r]) IN
  /\ at[r] = "settle"
  /\ IF winner = active \/ ~observed
     THEN Finish(r) /\ UNCHANGED <<best, granted>>
     ELSE /\ best' = [best EXCEPT ![r] = winner] /\ Go(r, "judge")
          /\ granted' = [granted EXCEPT ![r] = (autonomy = "autonomous-paper")]
          /\ UNCHANGED locks
  /\ UNCHANGED <<ledgerVars, trials, observed, conf, pos, loaded, since, edits,
                 crashes, promoted>>

\* evaluate_candidate: the first refusal in this order.  The autonomy level is
\* read again here, after the minutes a search takes.
Verdict(r) ==
  IF best[r] \notin InBounds THEN "out_of_bounds"
  ELSE IF Len(trials[conf[r]]) > MaxEligible THEN "too_many_trials"
  ELSE IF autonomy # "autonomous-paper" THEN "below_autonomy_level"
  ELSE IF HoldoutNet[best[r]] <= 0 THEN "holdout_failed"
  ELSE IF best[r] \in Diverging THEN "divergence_breach" ELSE "pass"

Judge(r) ==
  /\ at[r] = "judge"
  /\ IF Verdict(r) = "pass" THEN Go(r, "evidence") /\ UNCHANGED <<locks, escalated>>
     ELSE /\ escalated' = escalated \cup {<<best[r], Verdict(r)>>}
          /\ Finish(r)
  /\ UNCHANGED <<autonomy, active, content, evidence, noted, trials, observed, conf,
                 pos, best, loaded, since, edits, crashes, granted, promoted>>
\* A mutant: an evidence file that exists is good enough.
WriteEvidenceOnce(r) ==
  /\ at[r] = "evidence" /\ Go(r, "note")
  /\ evidence' = [evidence EXCEPT ![best[r]] = IF @ = NoSet THEN conf[r] ELSE @]
  /\ UNCHANGED <<autonomy, active, content, noted, escalated, fileVars, conf, pos,
                 best, loaded, since, edits, crashes, granted, promoted>>

\* The evidence file is created exclusively; one of another run is a conflict
\* that fails the check, one of this run was left by a check that died.
WriteEvidence(r) ==
  /\ at[r] = "evidence"
  /\ IF evidence[best[r]] \in {NoSet, conf[r]}
     THEN /\ evidence' = [evidence EXCEPT ![best[r]] = conf[r]]
          /\ Go(r, "note") /\ UNCHANGED locks
     ELSE Finish(r) /\ UNCHANGED evidence
  /\ UNCHANGED <<autonomy, active, content, noted, escalated, trials, observed, conf,
                 pos, best, loaded, since, edits, crashes, granted, promoted>>

NoteEvidence(r) ==
  /\ at[r] = "note" /\ Go(r, "content") /\ noted' = noted \cup {best[r]}
  /\ UNCHANGED <<autonomy, active, content, evidence, escalated, fileVars, conf, pos,
                 best, loaded, since, edits, crashes, granted, promoted>>

\* record_active_set: the content is stored before the row that names it.
StoreContent(r) ==
  /\ at[r] = "content" /\ Go(r, "activate")
  /\ content' = content \cup {best[r]}
  /\ UNCHANGED <<autonomy, active, evidence, noted, escalated, fileVars, conf, pos,
                 best, loaded, since, edits, crashes, granted, promoted>>

Activate(r) ==
  /\ at[r] = "activate"
  /\ active' = best[r]
  /\ promoted' = promoted \cup {[set |-> best[r], run |-> conf[r], granted |-> granted[r]]}
  /\ Finish(r)
  /\ UNCHANGED <<autonomy, content, evidence, noted, escalated, trials, observed, conf,
                 pos, best, loaded, since, edits, crashes, granted>>

-----------------------------------------------------------------------------
\* Operators, the recording and the machine.

SetAutonomy(level) ==
  /\ level # autonomy /\ edits < MaxEdits
  /\ autonomy' = level /\ edits' = edits + 1
  /\ granted' = [r \in Runners |-> granted[r] \/ (at[r] = "judge" /\ level = "autonomous-paper")]
  /\ UNCHANGED <<active, content, evidence, noted, escalated, fileVars, serveVars,
                 crashes, promoted>>

Restore(s) ==
  /\ s \in content /\ edits < MaxEdits
  /\ active' = s /\ edits' = edits + 1
  /\ UNCHANGED <<autonomy, content, evidence, noted, escalated, fileVars, serveVars,
                 crashes, granted, promoted>>

PaperWindowCompletes ==
  /\ ~observed /\ observed' = TRUE
  /\ UNCHANGED <<ledgerVars, locks, trials, serveVars, edits, crashes, granted, promoted>>

\* A dead process drops its file lock and whatever it had in memory.
Crash(r) ==
  /\ at[r] # "down" /\ crashes < MaxCrashes
  /\ crashes' = crashes + 1 /\ Go(r, "down")
  /\ locks' = IF at[r] \in Locked THEN [locks EXCEPT ![conf[r]] = NoSet] ELSE locks
  /\ pos' = [pos EXCEPT ![r] = 0] /\ best' = [best EXCEPT ![r] = NoSet]
  /\ UNCHANGED <<ledgerVars, trials, observed, conf, loaded, since, edits, granted,
                 promoted>>

\* A start reads the active set of the operator ledger and the space declared
\* by then; the last check is remembered in the ledger's meta table.
Start(r) ==
  /\ at[r] = "down" /\ active \in content \cup {NoSet}
  /\ \E space \in Spaces : conf' = [conf EXCEPT ![r] = space]
  /\ loaded' = [loaded EXCEPT ![r] = active]
  /\ Go(r, "tick")
  /\ UNCHANGED <<ledgerVars, fileVars, pos, best, since, edits, crashes, granted,
                 promoted>>

Serve(r) ==
  \/ Tick(r) \/ SkipCheck(r) \/ OpenRun(r) \/ Mark(r) \/ Reload(r)
  \/ Trial(r) \/ Settle(r) \/ Judge(r) \/ WriteEvidence(r) \/ NoteEvidence(r)
  \/ StoreContent(r) \/ Activate(r)

UpNext ==
  \/ \E r \in Runners : Serve(r) \/ Crash(r) \/ Start(r)
  \/ \E level \in Levels : SetAutonomy(level)
  \/ \E s \in ParamSets : Restore(s)
  \/ PaperWindowCompletes

\* The serve loop runs on; nobody has to start it, edit or restore anything.
UpFairness == \A r \in Runners : WF_upVars(Serve(r))

UpSpec == UpInit /\ [][UpNext]_upVars /\ UpFairness

-----------------------------------------------------------------------------
UpTypeOK ==
  /\ autonomy \in Levels /\ active \in ParamSets \cup {NoSet}
  /\ content \subseteq ParamSets /\ noted \subseteq ParamSets
  /\ evidence \in [ParamSets -> Spaces \cup {NoSet}]
  /\ locks \in [Spaces -> Runners \cup {NoSet}]
  /\ \A space \in Spaces : Len(trials[space]) <= MaxAllowed
  /\ at \in [Runners -> Places] /\ since \in [Runners -> 0 .. Interval]
  /\ \A r \in Runners : pos[r] <= Len(conf[r])
  /\ best \in [Runners -> ParamSets \cup {NoSet}]

\* The active hash always has its content stored, whatever process died
\* between the two writes: a reload or a start never meets a set it cannot load.
ActiveContentStored == active # NoSet => active \in content

\* A set a check made active has the evidence file of the very run that
\* promoted it, and its note: restarts under another declared space and a
\* second serve process never promote on another run's evidence.
PromotionEvidenced ==
  \A p \in promoted : evidence[p.set] = p.run /\ p.set \in noted

\* The trial count the gate judges is the number of candidates this search
\* tried: neither a search that died nor another process adds to it.
OwnTrialsCounted ==
  \A r \in Runners : at[r] = "judge" => Len(trials[conf[r]]) = Len(conf[r])

\* "manual-ticket never upgrades": a desk that was back at manual-ticket from
\* before the search was settled until the verdict is not promoted.
ManualNeverUpgrades == \A p \in promoted : p.granted

\* A running serve loop comes to trade under the active set again and again,
\* also after an operator's rollback in another process.
RulesFollowActive ==
  \A r \in Runners :
    []<>(at[r] = "down" \/ active = NoSet \/ loaded[r] = active)

\* What makes a parameter set active is a settled search of its own, permitted
\* and counted as it was, and stored before it is named.
ActivationJustified ==
  ActiveContentStored /\ PromotionEvidenced /\ OwnTrialsCounted /\ ManualNeverUpgrades
=============================================================================
