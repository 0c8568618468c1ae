----------------------------- MODULE ReplayRuns -----------------------------
(***************************************************************************)
(* What replays leave on disk.  One dataset name has one replay ledger:    *)
(* run --once and verify start it afresh, serve keeps the one it finds if  *)
(* the same replay wrote it.  A dataset is read under its manifest twice   *)
(* in a run.  A backtest owns a run directory named after its inputs, and  *)
(* compares its holdout with the paper ledger over the same window.        *)
(***************************************************************************)
EXTENDS Integers, Sequences, FiniteSets, FiniteSetsExt, SequencesExt

CONSTANTS
  Replays,        \* replays of one dataset name: their seeds differ
  Versions,       \* what events.jsonl may hold, a set of numbers of events
  Gappy,          \* the versions with a silence longer than STALE_GAP_S
  MaxReplayRuns, MaxDataEdits, MaxReplayDeaths,
  Testers,        \* processes that run one backtest with identical inputs
  MaxReports, MaxTesterDeaths,
  PaperFeed,      \* the desk's paper rows in order, Seq of [ts, net]
  Cutoff, HoldoutEnd, HoldoutNetGain, Gap,
  NFolds

ASSUME RunsAssumption ==
  /\ Versions \subseteq Nat
  /\ PaperFeed \in Seq([ts : Nat, net : Int])
  /\ \A i, j \in DOMAIN PaperFeed : i <= j => PaperFeed[i].ts <= PaperFeed[j].ts
  /\ Cutoff \in Nat /\ HoldoutEnd \in Nat /\ Cutoff <= HoldoutEnd
  /\ NFolds \in Nat \ {0}

VARIABLES
  disk,           \* [events, listed]: the data file and the digest listed for it
  book,           \* the replay ledger's rows, Absent when there is no file
  run,            \* the replay process: [kind, id, step, listed, bytes, fresh]
  kept,           \* rows of serves since a --once run last wiped the ledger
  results,        \* what --once runs printed: [id, judged, traded, rows]
  replayRuns, dataEdits, replayDeaths,
  judged,         \* the version whose verdict this process recorded
  trialFile, holdoutFile, runLock,    \* the run directory
  tester,         \* per backtest process: [step, trials]
  reports,        \* [trials, rows, paper, compared, seen, promoted]
  paperRows, testerDeaths,
  recording       \* stamps of a recording to be cut into windows

replayVars == <<disk, book, run, kept, results, replayRuns, dataEdits,
                replayDeaths, judged>>
testVars == <<trialFile, holdoutFile, runLock, tester, reports, paperRows,
              testerDeaths>>
runsVars == <<replayVars, testVars, recording>>

Absent == <<<<"absent">>>>
NoRun == [kind |-> "none", id |-> "", step |-> "idle", listed |-> 0,
          bytes |-> 0, fresh |-> FALSE]

-----------------------------------------------------------------------------
\* One dataset, one replay ledger.

\* The verdict's key: the seed, and the number of events it judged.
VerdictOf(id, n) == <<"verdict", id, n>>
Traded(id, n) == [k \in 1..n |-> <<"trade", id, n, k>>]

\* Somebody else rewrites the recording: the data file, then its manifest.
EditEvents(v) ==
  /\ dataEdits < MaxDataEdits /\ disk.events = disk.listed /\ v # disk.events
  /\ disk' = [disk EXCEPT !.events = v]
  /\ dataEdits' = dataEdits + 1
  /\ UNCHANGED <<book, run, kept, results, replayRuns, replayDeaths, judged>>

EditManifest ==
  /\ disk.events # disk.listed
  /\ disk' = [disk EXCEPT !.listed = disk.events]
  /\ UNCHANGED <<book, run, kept, results, replayRuns, dataEdits, replayDeaths, judged>>

BeginReplay(kind, id) ==
  /\ run.step = "idle" /\ replayRuns < MaxReplayRuns
  /\ run' = [NoRun EXCEPT !.kind = kind, !.id = id, !.step = "manifest"]
  /\ replayRuns' = replayRuns + 1
  /\ judged' = 0
  /\ UNCHANGED <<disk, book, kept, results, dataEdits, replayDeaths>>

\* A load reads the manifest, then each listed file once.
ReadManifest ==
  /\ run.step \in {"manifest", "again"}
  /\ run' = [run EXCEPT !.listed = disk.listed,
                        !.step = IF run.step = "manifest" THEN "bytes" ELSE "runtime"]
  /\ UNCHANGED <<disk, book, kept, results, replayRuns, dataEdits, replayDeaths, judged>>

\* The digest is taken of the bytes that are parsed: a mismatch ends the run.
ReadBytes ==
  /\ run.step = "bytes"
  /\ run' = IF disk.events # run.listed THEN NoRun
            ELSE [run EXCEPT !.bytes = disk.events, !.step = "judge"]
  /\ UNCHANGED <<disk, book, kept, results, replayRuns, dataEdits, replayDeaths, judged>>

\* The runtime loads the recording again, then opens the ledger at the path.
OpenRuntime ==
  /\ run.step = "runtime"
  /\ run' = IF disk.events # run.listed THEN NoRun
            ELSE [run EXCEPT !.bytes = disk.events, !.step = "trade"]
  /\ UNCHANGED <<disk, book, kept, results, replayRuns, dataEdits, replayDeaths, judged>>

\* The gap check, and a model call without a recorded answer, fail the run
\* before any file is made.
SilentGap ==
  /\ run.step = "judge" /\ run.bytes \in Gappy
  /\ run' = NoRun
  /\ UNCHANGED <<disk, book, kept, results, replayRuns, dataEdits, replayDeaths, judged>>

NoRecordedAnswer ==
  /\ run.step = "judge" /\ run.bytes \notin Gappy
  /\ run' = NoRun
  /\ UNCHANGED <<disk, book, kept, results, replayRuns, dataEdits, replayDeaths, judged>>

Resuming == run.kind = "serve" /\ book # Absent

\* recreate_ledger_db, unless a serve finds a ledger to resume.
OpenReplayLedger ==
  /\ run.step = "judge" /\ run.bytes \notin Gappy
  /\ run' = [run EXCEPT !.step = IF Resuming THEN "verdict" ELSE "create",
                        !.fresh = ~Resuming]
  /\ book' = IF Resuming THEN book ELSE Absent
  /\ kept' = IF Resuming THEN kept ELSE <<>>
  /\ UNCHANGED <<disk, results, replayRuns, dataEdits, replayDeaths, judged>>

CreateLedger ==
  /\ run.step = "create"
  /\ book' = <<>>
  /\ run' = [run EXCEPT !.step = "verdict"]
  /\ UNCHANGED <<disk, kept, results, replayRuns, dataEdits, replayDeaths, judged>>

MineAlready == Contains(book, VerdictOf(run.id, run.bytes))

AfterFailureWiped(rows) == Absent
\* What a failure leaves: a ledger this run created goes, a resumed one stays.
AfterFailure(rows) == IF run.fresh THEN Absent ELSE rows

\* A fresh ledger gets the verdict; a resumed one must hold this very verdict.
RecordVerdict ==
  /\ run.step = "verdict"
  /\ IF run.fresh \/ MineAlready
     THEN /\ book' = IF run.fresh THEN Append(book, VerdictOf(run.id, run.bytes)) ELSE book
          /\ run' = [run EXCEPT !.step = "again"]
          /\ judged' = run.bytes
     ELSE /\ book' = AfterFailure(book)
          /\ run' = NoRun
          /\ UNCHANGED judged
  /\ UNCHANGED <<disk, kept, results, replayRuns, dataEdits, replayDeaths>>

\* The append or the verification fails: the exception leaves the cleanup.
VerdictFails ==
  /\ run.step = "verdict"
  /\ book' = AfterFailure(book)
  /\ run' = NoRun
  /\ UNCHANGED <<disk, kept, results, replayRuns, dataEdits, replayDeaths, judged>>

\* The next order of the timeline that the ledger does not hold yet.
Untraded == {k \in 1..run.bytes : ~Contains(book, <<"trade", run.id, run.bytes, k>>)}

TradeNext ==
  /\ run.step = "trade" /\ Untraded # {}
  /\ book' = Append(book, <<"trade", run.id, run.bytes, Min(Untraded)>>)
  /\ kept' = IF run.kind = "serve" THEN book' ELSE kept
  /\ UNCHANGED <<disk, run, results, replayRuns, dataEdits, replayDeaths, judged>>

\* --once verifies the chain and prints its hash; a serve holds until stopped.
PrintResult ==
  /\ run.step = "trade" /\ Untraded = {} /\ run.kind = "once"
  /\ results' = results \cup {[id |-> run.id, judged |-> judged,
                               traded |-> run.bytes, rows |-> book]}
  /\ run' = NoRun
  /\ UNCHANGED <<disk, book, kept, replayRuns, dataEdits, replayDeaths, judged>>

DieReplaying ==
  /\ run.step # "idle" /\ replayDeaths < MaxReplayDeaths
  /\ run' = NoRun
  /\ replayDeaths' = replayDeaths + 1
  /\ UNCHANGED <<disk, book, kept, results, replayRuns, dataEdits, judged>>

ReplayNext ==
  \/ \E v \in Versions : EditEvents(v)
  \/ EditManifest
  \/ \E kind \in {"once", "serve"}, id \in Replays : BeginReplay(kind, id)
  \/ ReadManifest \/ ReadBytes \/ OpenRuntime \/ SilentGap \/ NoRecordedAnswer
  \/ OpenReplayLedger \/ CreateLedger \/ RecordVerdict \/ VerdictFails
  \/ TradeNext \/ PrintResult \/ DieReplaying

-----------------------------------------------------------------------------
\* One run directory, several backtests of the same inputs.

HoldoutRow(k) == <<"holdout", k>>
HoldoutRows == <<HoldoutRow(1), HoldoutRow(2)>>

\* flock, without waiting: a second identical run is refused and exits.
Lock(p) == runLock = <<>> /\ runLock' = <<p>>

BeginTest(p) ==
  /\ tester[p].step = "idle" /\ Len(reports) < MaxReports
  /\ Lock(p)
  /\ tester' = [tester EXCEPT ![p] = [step |-> "unlink", trials |-> 0]]
  /\ UNCHANGED <<trialFile, holdoutFile, reports, paperRows, testerDeaths>>

UnlinkTrials(p) ==
  /\ tester[p].step = "unlink"
  /\ trialFile' = 0
  /\ tester' = [tester EXCEPT ![p].step = "trial"]
  /\ UNCHANGED <<holdoutFile, runLock, reports, paperRows, testerDeaths>>

\* The single trial is recorded, then its folds are scored in scratch ledgers.
RecordTrial(p) ==
  /\ tester[p].step = "trial"
  /\ trialFile' = trialFile + 1
  /\ tester' = [tester EXCEPT ![p] = [step |-> "wipe", trials |-> trialFile + 1]]
  /\ UNCHANGED <<holdoutFile, runLock, reports, paperRows, testerDeaths>>

WipeHoldout(p) ==
  /\ tester[p].step = "wipe"
  /\ holdoutFile' = <<>>
  /\ tester' = [tester EXCEPT ![p].step = "holdout"]
  /\ UNCHANGED <<trialFile, runLock, reports, paperRows, testerDeaths>>

\* The holdout replay appends row by row; the last row hands over to settling.
ReplayHoldout(p) ==
  /\ tester[p].step = "holdout"
  /\ holdoutFile' = Append(holdoutFile, HoldoutRow(Len(holdoutFile) + 1))
  /\ tester' = [tester EXCEPT ![p].step =
                  IF Len(holdoutFile) + 1 < Len(HoldoutRows) THEN "holdout" ELSE "settle"]
  /\ UNCHANGED <<trialFile, runLock, reports, paperRows, testerDeaths>>

NetOf(rows) == MapThenSumSet(LAMBDA k : rows[k].net, DOMAIN rows)

\* Paper rows before the window set its opening, rows past its end are left out;
\* each keeps its place in the ledger.
InsideWindow(r) == Cutoff <= r.ts /\ r.ts < HoldoutEnd
PaperWindow(rows) ==
  [opening |-> [k \in {j \in DOMAIN rows : rows[j].ts < Cutoff} |-> rows[k]],
   inside |-> [k \in {j \in DOMAIN rows : InsideWindow(rows[j])} |-> rows[k]]]

\* The D7 check: a gap at the limit blocks, and so does a missing comparison.
Diverges(net) == net - HoldoutNetGain >= Gap \/ HoldoutNetGain - net >= Gap
Promoted(trials, net, compared) == trials <= 1 /\ compared /\ ~Diverges(net)

TestReport(p, compared) ==
  LET paper == PaperWindow(paperRows)
      net == NetOf(paper.inside)
  IN [trials |-> tester[p].trials, rows |-> holdoutFile, paper |-> paper,
      compared |-> compared, seen |-> Len(paperRows),
      promoted |-> Promoted(tester[p].trials, net, compared)]

\* The holdout ledger is read back, the paper ledger if one was named.
SettleTest(p) ==
  /\ tester[p].step = "settle"
  /\ \E compared \in BOOLEAN : reports' = Append(reports, TestReport(p, compared))
  /\ tester' = [tester EXCEPT ![p] = [step |-> "idle", trials |-> 0]]
  /\ runLock' = IF runLock = <<p>> THEN <<>> ELSE runLock
  /\ UNCHANGED <<trialFile, holdoutFile, paperRows, testerDeaths>>

DieTesting(p) ==
  /\ tester[p].step # "idle" /\ testerDeaths < MaxTesterDeaths
  /\ tester' = [tester EXCEPT ![p] = [step |-> "idle", trials |-> 0]]
  /\ runLock' = IF runLock = <<p>> THEN <<>> ELSE runLock
  /\ testerDeaths' = testerDeaths + 1
  /\ UNCHANGED <<trialFile, holdoutFile, reports, paperRows>>

\* Meanwhile the desk trades on paper.
DeskTradesOn ==
  /\ Len(paperRows) < Len(PaperFeed)
  /\ paperRows' = Append(paperRows, PaperFeed[Len(paperRows) + 1])
  /\ UNCHANGED <<trialFile, holdoutFile, runLock, tester, reports, testerDeaths>>

TestNext ==
  \/ \E p \in Testers :
       \/ BeginTest(p) \/ UnlinkTrials(p) \/ RecordTrial(p) \/ WipeHoldout(p)
       \/ ReplayHoldout(p) \/ SettleTest(p) \/ DieTesting(p)
  \/ DeskTradesOn

-----------------------------------------------------------------------------
\* Cutting a recording.  Stamps are compared at five times their value, so
\* that the cutoff, a fifth of the span before the end, is a whole number.

CutoffOf(S) == 4 * Max(S) + Min(S)
PreHoldout(S) == {s \in S : 5 * s < CutoffOf(S)}
HoldoutOf(S) == S \ PreHoldout(S)

\* Distinct instants before the cutoff, in order; too few of them is an error.
Distinct(S) ==
  LET pre == PreHoldout(S)
  IN [k \in 1..Cardinality(pre) |-> CHOOSE s \in pre : Cardinality({t \in pre : t < s}) = k - 1]
CanFold(S) == Cardinality(PreHoldout(S)) >= NFolds + 1

Boundary(n, j) == (j * n) \div (NFolds + 1)

\* Fold k is tested on block k + 1; the last block ends at the cutoff.
TestWindow(S, k) ==
  LET d == Distinct(S)
      to == Boundary(Len(d), k + 1)
  IN [start |-> 5 * d[Boundary(Len(d), k) + 1],
      end |-> IF to < Len(d) THEN 5 * d[to + 1] ELSE CutoffOf(S)]

\* The events one evaluation replays: the start is in, the end is out.
InTest(S, k) ==
  LET w == TestWindow(S, k) IN {s \in S : w.start <= 5 * s /\ 5 * s < w.end}

-----------------------------------------------------------------------------

RunsInit ==
  /\ disk \in {[events |-> v, listed |-> v] : v \in Versions}
  /\ book = Absent /\ run = NoRun /\ kept = <<>> /\ results = {}
  /\ replayRuns = 0 /\ dataEdits = 0 /\ replayDeaths = 0 /\ judged = 0
  /\ trialFile = 0 /\ holdoutFile = <<>> /\ runLock = <<>>
  /\ tester = [p \in Testers |-> [step |-> "idle", trials |-> 0]]
  /\ reports = <<>> /\ paperRows = <<>> /\ testerDeaths = 0

RunsNext ==
  /\ \/ ReplayNext /\ UNCHANGED testVars
     \/ TestNext /\ UNCHANGED replayVars
  /\ UNCHANGED recording

\* The recording to be cut is any finite set of stamps.
RunsSpec ==
  /\ RunsInit /\ recording \in SUBSET Nat /\ IsFiniteSet(recording)
  /\ [][RunsNext]_runsVars

-----------------------------------------------------------------------------
\* Two replays never share one chain: its first row is the only verdict and
\* its orders are of that seed (runner.py refuses a foreign ledger).
ChainOfOneReplay ==
  book # Absent =>
    \A i \in DOMAIN book :
      /\ (book[i][1] = "verdict") <=> (i = 1)
      /\ book[i][2] = book[1][2]

\* What a serve wrote outlives every crash, refused start, failed run and
\* corrupt recording, until a --once run starts the ledger afresh.
ServeKeepsRows == kept # <<>> => book # Absent /\ IsPrefix(kept, book)

\* A --once result is the replay it names and nothing an earlier run left; a
\* recording with a silent gap never gets as far as a verdict.
ResultExact ==
  \A r \in results :
    /\ r.rows = <<VerdictOf(r.id, r.judged)>> \o Traded(r.id, r.traded)
    /\ r.judged \notin Gappy

\* The paper ledger the report read went past the window.
PastEnd(r) == \E k \in 1..r.seen : PaperFeed[k].ts >= HoldoutEnd

\* A backtest repeats: whatever ran, died or traded on the desk meanwhile,
\* every report counts its one trial and its own holdout rows, and once the
\* paper ledger is past the window's end the comparison stays the same.
ReportsRepeat ==
  /\ \A i \in DOMAIN reports : reports[i].trials = 1 /\ reports[i].rows = HoldoutRows
  /\ \A i, j \in DOMAIN reports :
       PastEnd(reports[i]) /\ PastEnd(reports[j]) =>
         /\ reports[i].paper = reports[j].paper
         /\ reports[i].compared /\ reports[j].compared =>
              reports[i].promoted = reports[j].promoted

\* No fold is empty or overlaps another or the holdout, and the folds cover
\* every instant from the second block on (split.py, evaluate.py).
FoldsSound ==
  recording # {} /\ CanFold(recording) =>
    LET tested == [k \in 1..NFolds |-> InTest(recording, k)]
    IN /\ \A k \in 1..NFolds : tested[k] # {} /\ tested[k] \cap HoldoutOf(recording) = {}
       /\ \A j, k \in 1..NFolds : j # k => tested[j] \cap tested[k] = {}
       /\ UNION {tested[k] : k \in 1..NFolds}
            = {s \in PreHoldout(recording) : s >= Min(tested[1])}
       /\ HoldoutOf(recording) # {}

\* Replay ledgers, backtest reports and search windows are each one run's own.
ReplaySound ==
  ChainOfOneReplay /\ ServeKeepsRows /\ ResultExact /\ ReportsRepeat /\ FoldsSound
=============================================================================
