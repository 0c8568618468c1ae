------------------------------ MODULE LiveDoor ------------------------------
(***************************************************************************)
(* What stands between a person and an order.  Approvals: a phrase becomes *)
(* a ledger row, the risk engine rebuilds the row and lets it pass one     *)
(* order it binds (core/approvals.py, risk/engine).  The live gate: the    *)
(* paper window it folds from the ledger, and the adapter that refuses     *)
(* every call (execution/live).  `live confirm`: a signed file put in      *)
(* place through a draft all confirmers share, then a row.                 *)
(***************************************************************************)
EXTENDS Integers, Sequences, FiniteSets, FiniteSetsExt, SequencesExt

CONSTANTS
  MaxSigned,       \* approvals recorded
  MaxExecuted,     \* orders passed
  MinDays, MinClosed,   \* 14 days, 50 closed trades
  MaxLog,          \* rows of the paper window
  LastDay,
  Signers          \* people (processes) running `live confirm`

ASSUME DoorAssumption ==
  /\ MinDays \in Nat /\ MinClosed \in Nat \ {0} /\ LastDay \in Nat
  /\ MaxSigned \in Nat /\ "torn" \notin Signers

VARIABLES
  engine,          \* [mode, autonomy] of the engine, fixed when it is built
  apprRows,        \* ApprovalRecorded rows
  executed,        \* orders passed: [order, id]; id 0 without an approval row
  attempts,        \* LiveWriteAttempted rows
  paperLog,        \* the paper ledger: [day, source, type, n]
  today,
  confirmer,       \* per signer: where it is, the file it holds open
  files,           \* contents of the files created: a signer, or Torn
  draft, placed,   \* the file behind each name, 0 for none
  liveRows         \* signers whose approval row is written

approvalVars == <<engine, apprRows, executed, attempts>>
windowVars == <<paperLog, today>>
confirmVars == <<confirmer, files, draft, placed, liveRows>>
doorVars == <<approvalVars, windowVars, confirmVars>>

(***************************** the live gate *******************************)
LogRows ==
  {[source |-> "paper", type |-> "PositionClosed", n |-> n] : n \in {-5, 0, 6}}
  \cup {[source |-> "paper", type |-> "MarkToMarket", n |-> n] : n \in {84, 85, 100}}
  \cup {[source |-> s, type |-> "JournalNote", n |-> 0] : s \in {"manual", "replay"}}

PaperRows == {i \in DOMAIN paperLog : paperLog[i].source = "paper"}
Replayed == \E i \in DOMAIN paperLog : paperLog[i].source = "replay"

\* Folded row by row: closed trades, gains, losses, the peak and the last equity;
\* rows of no paper source are left out.
NoPerf == [closed |-> 0, gains |-> 0, losses |-> 0, peak |-> 0, equity |-> 0]
AfterPerfRow(was, row) ==
  CASE row.source # "paper" -> was
    [] row.type = "PositionClosed" ->
         [was EXCEPT !.closed = @ + 1,
                     !.gains = IF row.n > 0 THEN @ + row.n ELSE @,
                     !.losses = IF row.n < 0 THEN @ - row.n ELSE @]
    [] row.type = "MarkToMarket" ->
         [was EXCEPT !.equity = row.n, !.peak = IF row.n > @ THEN row.n ELSE @]
    [] OTHER -> was
Perf == FoldLeft(AfterPerfRow, NoPerf, paperLog)

\* A profit factor of at least 1.2; no loss at all needs a gain.
FactorMet(p) ==
  IF p.losses = 0 THEN p.gains > 0 ELSE 10 * p.gains >= 12 * p.losses
\* The drawdown of the last mark from the peak, at most 15 percent.
DrawdownMet(p) == 100 * (p.peak - p.equity) <= 15 * p.peak

WindowRead == ~Replayed /\ PaperRows # {}
DaysMet == WindowRead /\ today - paperLog[Min(PaperRows)].day >= MinDays
PerfMet == WindowRead /\ Perf.closed >= MinClosed /\ FactorMet(Perf) /\ DrawdownMet(Perf)

\* The rows of this release that no state of the desk can meet.
NeverMet == {"confirmation_record", "adapter_registered", "no_active_stop"}
Unmet ==
  NeverMet \cup (IF DaysMet THEN {} ELSE {"min_paper_days"})
           \cup (IF PerfMet THEN {} ELSE {"performance_thresholds"})

\* The engine's live step; `run` refuses to start on the same condition.
GateOpen == engine.mode = "paper" \/ Unmet = {}

LogRow(r) ==
  /\ Len(paperLog) < MaxLog
  /\ paperLog' = Append(paperLog, [day |-> today, source |-> r.source, type |-> r.type,
                                   n |-> r.n])
  /\ UNCHANGED <<today, approvalVars, confirmVars>>

NextDay ==
  /\ today < LastDay /\ today' = today + 1
  /\ UNCHANGED <<paperLog, approvalVars, confirmVars>>

(******************************* approvals *********************************)
\* Ticket, mint and slippage are compared together: `terms`.  0 is an amount
\* or an approval id that is not given; rows hold it as 0 as well.
Amounts == 0 .. 2
RuleReasons == {"stop", "profit"}

Records ==
  [kind : {"human_buy", "human_sell"}, terms : {1, 2}, size : Amounts, units : Amounts,
   rule : {"none"}]
  \cup [kind : {"exit_rule"}, terms : {1, 2}, size : Amounts, units : Amounts,
        rule : RuleReasons]

\* The record's validator.
Wellformed(r) ==
  CASE r.kind = "human_buy" -> r.size # 0
    [] r.kind = "human_sell" -> r.size # 0 \/ r.units # 0
    [] r.kind = "exit_rule" -> r.units # 0

Orders ==
  {o \in [side : {"buy", "sell"}, terms : {1}, size : Amounts, units : Amounts,
          presents : 0 .. MaxSigned, exit : RuleReasons \cup {"none", "kill_flatten"}] :
     /\ o.side = "buy" => o.size # 0 /\ o.exit = "none"
     /\ o.side = "sell" => o.size # 0 \/ o.units # 0}

Ids == {apprRows[i].id : i \in DOMAIN apprRows}
LatestRow(id) ==
  apprRows[CHOOSE i \in DOMAIN apprRows :
    apprRows[i].id = id /\ \A j \in DOMAIN apprRows : apprRows[j].id = id => j <= i]

\* The engine rebuilds the approvals from the rows at every check.
Usable == {id \in Ids : ~LatestRow(id).consumed}

OrderSide(kind) == IF kind = "human_buy" THEN "buy" ELSE "sell"

\* Mutant: units of the request are not looked at when the approval has none.
SizeMatchesLoose(a, o) ==
  IF o.side = "buy" \/ a.kind = "human_sell"
  THEN (a.size = 0 \/ a.size = o.size) /\ (a.units # 0 => a.units = o.units)
  ELSE a.units = o.units

\* Every leg the approval states; one stated in SOL binds requests in SOL only.
SizeMatches(a, o) ==
  IF o.side = "buy" \/ a.kind = "human_sell"
  THEN (a.size = 0 \/ a.size = o.size) /\ a.units = o.units
  ELSE a.units = o.units

Binds(a, o) ==
  OrderSide(a.kind) = o.side /\ a.terms = o.terms /\ SizeMatches(a, o)

\* An exit under a rule needs that rule's approval.
NamesOtherRule(a, o) ==
  a.kind = "exit_rule" /\ o.exit \in RuleReasons /\ a.rule # o.exit

\* The engine issues the approval itself, for the order as it stands.
Autonomous(o) == o.exit = "kill_flatten" \/ engine.autonomy = "autonomous-paper"
Minted(o, id) ==
  [id |-> id, kind |-> "autonomous_paper", terms |-> o.terms,
   size |-> IF o.side = "sell" /\ o.units # 0 THEN 0 ELSE o.size,
   units |-> IF o.side = "sell" THEN o.units ELSE 0,
   rule |-> IF o.exit \in RuleReasons THEN o.exit ELSE "none", consumed |-> TRUE]

\* record_human_approval: one row for each record, in the order of their ids.
RecordHuman(r) ==
  /\ Wellformed(r) /\ Cardinality(Ids) < MaxSigned
  /\ apprRows' = Append(apprRows, [id |-> Cardinality(Ids) + 1, kind |-> r.kind,
                                   terms |-> r.terms, size |-> r.size, units |-> r.units,
                                   rule |-> r.rule, consumed |-> FALSE])
  /\ UNCHANGED <<engine, executed, attempts, windowVars, confirmVars>>

\* The engine's minted approvals are recorded, consumed, for rule exits only.
PlaceAutonomous(o) ==
  LET id == MaxSigned + Len(executed) + 1 IN
  /\ GateOpen /\ Len(executed) < MaxExecuted /\ Autonomous(o)
  /\ IF o.exit \in RuleReasons
     THEN /\ apprRows' = Append(apprRows, Minted(o, id))
          /\ executed' = Append(executed, [order |-> o, id |-> id])
     ELSE /\ executed' = Append(executed, [order |-> o, id |-> 0])
          /\ UNCHANGED apprRows
  /\ UNCHANGED <<engine, attempts, windowVars, confirmVars>>

\* A consumption row goes into the batch of the order it authorises.
PlaceApproved(o) ==
  /\ GateOpen /\ Len(executed) < MaxExecuted /\ ~Autonomous(o)
  /\ o.presents \in Usable
  /\ LET a == LatestRow(o.presents)
     IN /\ ~NamesOtherRule(a, o) /\ Binds(a, o)
        /\ apprRows' = Append(apprRows, [a EXCEPT !.consumed = TRUE])
  /\ executed' = Append(executed, [order |-> o, id |-> o.presents])
  /\ UNCHANGED <<engine, attempts, windowVars, confirmVars>>

\* The live adapter writes down the attempt, with what is unmet, and raises.
RefuseLive ==
  /\ engine.mode = "live" /\ Len(attempts) < MaxExecuted
  /\ attempts' = Append(attempts, Unmet)
  /\ UNCHANGED <<engine, apprRows, executed, windowVars, confirmVars>>

(****************************** live confirm *******************************)
Torn == "torn"

\* A human name, a cap of at most one SOL, an expiry still to come, the key.
Asks == [human : BOOLEAN, cap : 0 .. 2, ahead : BOOLEAN, key : BOOLEAN]
Acceptable(q) == q.human /\ q.cap = 1 /\ q.ahead /\ q.key

ConfirmerAt(k, place) == confirmer' = [confirmer EXCEPT ![k].at = place]

Confirm(k, q) ==
  /\ confirmer[k].at = "new"
  /\ ConfirmerAt(k, IF Acceptable(q) THEN "open" ELSE "refused")
  /\ UNCHANGED <<files, draft, placed, liveRows, approvalVars, windowVars>>

\* write_text truncates what the name stands for, or creates it.
OpenDraft(k) ==
  /\ confirmer[k].at = "open"
  /\ IF draft = 0 THEN files' = Append(files, Torn) /\ draft' = Len(files) + 1
     ELSE files' = [files EXCEPT ![draft] = Torn] /\ UNCHANGED draft
  /\ confirmer' = [confirmer EXCEPT ![k] = [at |-> "write", holds |-> draft']]
  /\ UNCHANGED <<placed, liveRows, approvalVars, windowVars>>

\* The file held is written, whatever name it has by then.
WriteDraft(k) ==
  /\ confirmer[k].at = "write" /\ ConfirmerAt(k, "replace")
  /\ files' = [files EXCEPT ![confirmer[k].holds] = k]
  /\ UNCHANGED <<draft, placed, liveRows, approvalVars, windowVars>>

\* The name moves; a draft another confirmer has moved ends this one.
PutInPlace(k) ==
  /\ confirmer[k].at = "replace"
  /\ IF draft = 0 THEN ConfirmerAt(k, "failed") /\ UNCHANGED <<draft, placed>>
     ELSE placed' = draft /\ draft' = 0 /\ ConfirmerAt(k, "row")
  /\ UNCHANGED <<files, liveRows, approvalVars, windowVars>>

AppendLiveApproval(k) ==
  /\ confirmer[k].at = "row" /\ ConfirmerAt(k, "done")
  /\ liveRows' = liveRows \cup {k}
  /\ UNCHANGED <<files, draft, placed, approvalVars, windowVars>>

ConfirmerDies(k) ==
  /\ confirmer[k].at \in {"write", "replace", "row"} /\ ConfirmerAt(k, "dead")
  /\ UNCHANGED <<files, draft, placed, liveRows, approvalVars, windowVars>>

ApprovalNext ==
  \/ \E r \in Records : RecordHuman(r)
  \/ \E o \in Orders : PlaceAutonomous(o) \/ PlaceApproved(o)
  \/ RefuseLive

WindowNext == NextDay \/ \E r \in LogRows : LogRow(r)

ConfirmNext ==
  \E k \in Signers :
    \/ OpenDraft(k) \/ WriteDraft(k) \/ PutInPlace(k) \/ AppendLiveApproval(k)
    \/ ConfirmerDies(k) \/ \E q \in Asks : Confirm(k, q)

DoorInit ==
  /\ engine \in [mode : {"paper", "live"}, autonomy : {"manual-ticket", "autonomous-paper"}]
  /\ apprRows = <<>> /\ executed = <<>> /\ attempts = <<>>
  /\ paperLog = <<>> /\ today = 0
  /\ confirmer = [k \in Signers |-> [at |-> "new", holds |-> 0]]
  /\ files = <<>> /\ draft = 0 /\ placed = 0 /\ liveRows = {}

DoorNext == ApprovalNext \/ WindowNext \/ ConfirmNext
DoorSpec == DoorInit /\ [][DoorNext]_doorVars

(******************************* properties ********************************)
\* What an order moves: units where it carries them, else the SOL it names.
Moved(o) ==
  IF o.side = "sell" /\ o.units # 0 THEN <<"units", o.units>> ELSE <<"sol", o.size>>
Stated(a) ==
  IF a.kind # "human_buy" /\ a.units # 0 THEN <<"units", a.units>> ELSE <<"sol", a.size>>

\* An order that passed on a person's approval moves exactly the amount the
\* approval states, on its side and terms, and no approval passes two orders,
\* whatever legs record and request carry and however the row was stored and
\* rebuilt (approvals.py matches, core.py _approvals).  Outside that, only
\* autonomous paper trading and system exits pass.
ApprovedAmountOnly ==
  \A i \in DOMAIN executed :
    LET o == executed[i].order
        id == executed[i].id
    IN /\ id = 0 => Autonomous(o)
       /\ id # 0 =>
            /\ LatestRow(id).consumed
            /\ Stated(LatestRow(id)) = Moved(o) /\ LatestRow(id).terms = o.terms
            /\ o.exit \in RuleReasons /\ LatestRow(id).kind = "exit_rule"
                 => LatestRow(id).rule = o.exit
            /\ \A j \in DOMAIN executed : executed[j].id = id => j = i

\* No order passes on a live desk, whatever the window shows.
LiveNeverPasses == engine.mode = "live" => executed = <<>>

\* The folded thresholds are those of the window read at once: a replayed row
\* anywhere refuses both, and the drawdown is from the highest mark to the last
\* (live_gate.py _paper_window, _fold_perf_row).
WindowHonest ==
  LET marks == {i \in DOMAIN paperLog : paperLog[i].type = "MarkToMarket"}
      wins == {i \in DOMAIN paperLog : paperLog[i].n > 0} \ marks
      lost == {i \in DOMAIN paperLog : paperLog[i].n < 0}
  IN
  /\ DaysMet => \E i \in DOMAIN paperLog :
                  paperLog[i].source = "paper" /\ today - paperLog[i].day >= MinDays
  /\ PerfMet =>
       /\ Cardinality({i \in DOMAIN paperLog : paperLog[i].type = "PositionClosed"}) >= MinClosed
       /\ 6 * Cardinality(wins) * 10 >= 5 * Cardinality(lost) * 12 /\ wins # {}
       /\ \A i, j \in marks : (\A k \in marks : k <= j)
            => 100 * paperLog[j].n >= 85 * paperLog[i].n
  /\ Replayed => ~DaysMet /\ ~PerfMet

\* Confirmers that share the draft: an approval row is written only after some
\* record was put in place, and the record is whole once nobody is writing,
\* unless one died while it wrote (verbs_ops.py _live_confirm).
ConfirmationInPlace ==
  /\ liveRows # {} => placed # 0
  /\ placed # 0 /\ (\A k \in Signers : confirmer[k].at \notin {"write", "dead"})
       => files[placed] # Torn

DoorSound == ApprovedAmountOnly /\ LiveNeverPasses /\ WindowHonest /\ ConfirmationInPlace
=============================================================================
