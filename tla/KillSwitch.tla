----------------------------- MODULE KillSwitch -----------------------------
(***************************************************************************)
(* The kill switch and its alert channel: KillSwitch.absorb_alerts, poll,  *)
(* observe and request_clear (src/pumpgrok/risk/killswitch.py) with the    *)
(* Telegram offset of alert_channel.py.  The desk is one event loop and    *)
(* runs                                                                    *)
(*                                                                         *)
(*   absorb_alerts -> poll -> observe (-> poll)                            *)
(*                                                                         *)
(* without an await, in poll_kill_sources and in every RiskEngine.check;   *)
(* its steps below are separate because the latch file and the ledger are  *)
(* shared with the operator's commands, which run in other processes.      *)
(*                                                                         *)
(* A switch, a command and a request are "plain" or "flatten".  One reason *)
(* and one UTC day stand for all: the case in which idempotency keys       *)
(* collide; that rows of other reasons do not is AppendRow's free choice.  *)
(***************************************************************************)
EXTENDS Integers, Sequences

CONSTANTS
  MaxLines,    \* KILL commands sent to the channel
  MaxClears,   \* clears by a human
  MaxCrashes,  \* crashes of the desk process
  Operators,   \* what operators do: a subset of {"set", "remove", "clear"}
  Outages      \* may a getUpdates call fail?

ASSUME BoundsAssumption == MaxLines \in Nat /\ MaxClears \in Nat /\ MaxCrashes \in Nat
ASSUME OperatorsAssumption ==
  Operators \subseteq {"set", "remove", "clear"} /\ Outages \in BOOLEAN

VARIABLES
  \* what outlives the desk
  sent,       \* the KILL commands sent by allowlisted chats, in order
  offset,     \* the committed offset: commands the channel will not deliver again
  file,       \* the latch file
  row,        \* the latest KillSwitchSet without a later KillSwitchCleared
  epoch,      \* KillSwitchCleared rows
  keys,       \* idempotency keys of the rows observe appended
  recent,     \* actions whose tool row may still be of this minute
  env,        \* PUMPGROK_KILLSWITCH, the same at every start
  \* memory of the desk
  pending,    \* _pending_line
  escalated,  \* _flatten_escalated
  next,       \* _next: where the lines of the last poll end
  \* the turn the desk is in
  pc, at, upto, st, epoch0,
  \* the operators' commands between their two writes, or their check and write
  setting, clearing,
  \* history
  crashes,
  excused,    \* commands sent before the last thing an operator did
  asked,      \* a flatten was asked for and not cleared since
  seen        \* observe recorded an engaged switch and no clear came since

world == <<sent, offset, file, row, epoch, keys, recent, env>>
memory == <<pending, escalated, next>>
turn == <<pc, at, upto, st, epoch0>>
operator == <<setting, clearing>>
history == <<crashes, excused, asked, seen>>
vars == <<sent, offset, file, row, epoch, keys, recent, env, pending, escalated, next,
          pc, at, upto, st, epoch0, setting, clearing, crashes, excused, asked, seen>>

Kinds == {"plain", "flatten"}
Switch == Kinds \cup {"none"}

-----------------------------------------------------------------------------
(* Reading the sources *)

\* env beats the file beats a pending line beats the ledger; under env a
\* FLATTEN file still requests the flatten.
EngagedState ==
  CASE env -> (IF file = "flatten" THEN "flatten" ELSE "plain")
    [] ~env /\ file # "none" -> file
    [] ~env /\ file = "none" /\ pending # "none" -> pending
    [] OTHER -> row

\* KillSwitch.poll: an escalation outlives its file until a poll finds nothing
\* engaged.
Poll ==
  /\ st' = IF EngagedState # "none" /\ escalated THEN "flatten" ELSE EngagedState
  /\ escalated' = (escalated /\ EngagedState # "none")

-----------------------------------------------------------------------------
(* absorb_alerts *)

\* A line that could not be saved is saved before the channel is polled again.
StartTurn ==
  /\ pc = "idle"
  /\ pc' = IF pending # "none" THEN "save" ELSE "fetch"
  /\ at' = 0 /\ upto' = 0
  /\ UNCHANGED <<world, memory, st, epoch0, operator, history>>

\* getUpdates from the committed offset, so at least all it returned before;
\* _accept moves _next past the batch.
Fetch ==
  /\ pc = "fetch"
  /\ \E k \in next..Len(sent) :
       /\ upto' = k
       /\ at' = offset + 1
       /\ next' = k
       /\ pc' = IF k > offset THEN "line" ELSE "commit"
  /\ UNCHANGED <<world, pending, escalated, st, epoch0, operator, history>>

\* A failed getUpdates returns no lines, which absorb_alerts takes for a poll
\* whose lines are all handled.
FetchFails ==
  /\ pc = "fetch"
  /\ Outages
  /\ pc' = "commit"
  /\ UNCHANGED <<world, memory, at, upto, st, epoch0, operator, history>>

\* On to the next line of the batch, or to the retry's poll, or to the commit.
Advance ==
  /\ pc' = CASE at = 0 -> "fetch" [] at > 0 /\ at < upto -> "line" [] OTHER -> "commit"
  /\ at' = IF at > 0 /\ at < upto THEN at + 1 ELSE at

Engaged == env \/ file # "none"

LineIgnored ==
  /\ pc = "line"
  /\ Engaged /\ (sent[at] = "plain" \/ escalated)
  /\ Advance
  /\ UNCHANGED <<world, memory, upto, st, epoch0, operator, history>>

LineEscalates ==
  /\ pc = "line"
  /\ Engaged /\ sent[at] = "flatten" /\ ~escalated
  /\ pc' = "escalate"
  /\ UNCHANGED <<world, memory, at, upto, st, epoch0, operator, history>>

LineLatches ==
  /\ pc = "line"
  /\ ~Engaged
  /\ pending' = sent[at]
  /\ asked' = (asked \/ sent[at] = "flatten")
  /\ pc' = "save"
  /\ UNCHANGED <<world, escalated, next, at, upto, st, epoch0, operator, crashes, excused,
                 seen>>

\* Bug: a saved line stays pending and is saved for ever.
SaveKeepsPending ==
  /\ pc = "save"
  /\ file' = pending
  /\ pc' = "save"
  /\ UNCHANGED <<sent, offset, row, epoch, keys, recent, env, memory, at, upto, st,
                 epoch0, operator, history>>

Save ==
  /\ pc = "save"
  /\ file' = pending
  /\ pending' = "none"
  /\ Advance
  /\ UNCHANGED <<sent, offset, row, epoch, keys, recent, env, escalated, next, upto, st,
                 epoch0, operator, history>>

\* An OSError, before or after write_text truncated the file: an empty file
\* still engages.  absorb_alerts returns without a commit.
SaveFails ==
  /\ pc = "save"
  /\ file' \in {file, "plain"}
  /\ pc' = "look"
  /\ UNCHANGED <<sent, offset, row, epoch, keys, recent, env, memory, at, upto, st,
                 epoch0, operator, history>>

\* Bug: the escalation of an env switch is kept in memory only.
EscalateInMemory ==
  /\ pc = "escalate"
  /\ file' = IF env THEN file ELSE "flatten"
  /\ escalated' = TRUE
  /\ asked' = TRUE
  /\ Advance
  /\ UNCHANGED <<sent, offset, row, epoch, keys, recent, env, pending, next, upto, st,
                 epoch0, operator, crashes, excused, seen>>

\* The file is replaced atomically, then the escalation is remembered.
Escalate ==
  /\ pc = "escalate"
  /\ file' = "flatten"
  /\ escalated' = TRUE
  /\ asked' = TRUE
  /\ Advance
  /\ UNCHANGED <<sent, offset, row, epoch, keys, recent, env, pending, next, upto, st,
                 epoch0, operator, crashes, excused, seen>>

EscalateFails ==
  /\ pc = "escalate"
  /\ pc' = "look"
  /\ UNCHANGED <<world, memory, at, upto, st, epoch0, operator, history>>

Commit ==
  /\ pc = "commit"
  /\ offset' = next
  /\ pc' = "look"
  /\ UNCHANGED <<sent, file, row, epoch, keys, recent, env, memory, at, upto, st, epoch0,
                 operator, history>>

CommitFails ==
  /\ pc = "commit"
  /\ pc' = "look"
  /\ UNCHANGED <<world, memory, at, upto, st, epoch0, operator, history>>

-----------------------------------------------------------------------------
(* poll and observe *)

\* The poll of poll_kill_sources, whose flatten request runs the flatten hook,
\* or the one in the cache key of check, whose hit ends the turn.
Look ==
  /\ pc = "look"
  /\ Poll
  /\ pc' \in {"epoch", "idle"}
  /\ UNCHANGED <<world, pending, next, at, upto, epoch0, operator, history>>

ReadEpoch ==
  /\ pc = "epoch"
  /\ epoch0' = epoch
  /\ pc' = "poll"
  /\ UNCHANGED <<world, memory, at, upto, st, operator, history>>

ObservePoll ==
  /\ pc = "poll"
  /\ Poll
  /\ pc' = "decide"
  /\ UNCHANGED <<world, pending, next, at, upto, epoch0, operator, history>>

\* Record a switch the ledger does not show, or a flatten it does not show,
\* unless a clear came since the epoch was read.
Records ==
  /\ st # "none"
  /\ row = "none" \/ (row = "plain" /\ st = "flatten")
  /\ epoch = epoch0

Decide ==
  /\ pc = "decide"
  /\ pc' = IF Records THEN "append" ELSE "last"
  /\ seen' = (seen \/ (st # "none" /\ row # "none" /\ epoch = epoch0))
  /\ UNCHANGED <<world, memory, at, upto, st, epoch0, operator, crashes, excused, asked>>

\* Bug: the key of a set row does not name the clears before it.
KeyOfDay == <<st, 0>>

Key == <<st, epoch0>>

AppendRow ==
  /\ pc = "append"
  /\ row' = st
  /\ keys' = keys \cup {Key}
  /\ seen' = (seen \/ epoch = epoch0)
  /\ pc' = "last"
  /\ UNCHANGED <<sent, offset, file, epoch, recent, env, memory, at, upto, st, epoch0,
                 operator, crashes, excused, asked>>

\* The UNIQUE key is taken: _SuppressIntegrity takes the row for recorded.
AppendSuppressed ==
  /\ pc = "append"
  /\ Key \in keys
  /\ seen' = (seen \/ epoch = epoch0)
  /\ pc' = "last"
  /\ UNCHANGED <<world, memory, at, upto, st, epoch0, operator, crashes, excused, asked>>

\* poll_kill_sources ends, or check polls once more for its answer.
EndTurn ==
  /\ pc = "last"
  /\ pc' = "idle"
  /\ \/ Poll
     \/ UNCHANGED <<st, escalated>>
  /\ UNCHANGED <<world, pending, next, at, upto, epoch0, operator, history>>

-----------------------------------------------------------------------------
(* Everyone else *)

Send ==
  /\ Len(sent) < MaxLines
  /\ \E k \in Kinds : sent' = Append(sent, k)
  /\ UNCHANGED <<offset, file, row, epoch, keys, recent, env, memory, turn, operator,
                 history>>

\* risk.kill_switch: the row (a repeat within the minute finds it stored), then
\* the file.
SetRow ==
  /\ "set" \in Operators
  /\ setting = "none"
  /\ \E k \in Kinds :
       /\ setting' = k
       /\ \/ row' = k
          \/ k \in recent /\ UNCHANGED row
       /\ recent' = recent \cup {k}
       /\ asked' = (asked \/ k = "flatten")
  /\ excused' = Len(sent)
  /\ UNCHANGED <<sent, offset, file, epoch, keys, env, memory, turn, clearing, crashes,
                 seen>>

SetFile ==
  /\ setting # "none"
  /\ file' = setting
  /\ setting' = "none"
  /\ excused' = Len(sent)
  /\ UNCHANGED <<sent, offset, row, epoch, keys, recent, env, memory, turn, clearing,
                 crashes, asked, seen>>

\* The command dies, or cannot write the file.
SetDies ==
  /\ setting # "none"
  /\ setting' = "none"
  /\ UNCHANGED <<world, memory, turn, clearing, history>>

RemoveFile ==
  /\ "remove" \in Operators
  /\ file # "none"
  /\ file' = "none"
  /\ excused' = Len(sent)
  /\ UNCHANGED <<sent, offset, row, epoch, keys, recent, env, memory, turn, operator,
                 crashes, asked, seen>>

\* request_clear in the operator's shell: refused while the file exists, then one
\* batch.  The shell has its own environment and knows no pending line.
ClearCheck ==
  /\ "clear" \in Operators
  /\ epoch < MaxClears
  /\ ~clearing
  /\ file = "none"
  /\ clearing' = TRUE
  /\ UNCHANGED <<world, memory, turn, setting, history>>

ClearAppend ==
  /\ clearing
  /\ clearing' = FALSE
  /\ row' = "none"
  /\ epoch' = epoch + 1
  /\ excused' = Len(sent)
  /\ asked' = (file = "flatten" \/ pending = "flatten" \/ setting = "flatten")
  /\ seen' = FALSE
  /\ UNCHANGED <<sent, offset, file, keys, recent, env, memory, turn, setting, crashes>>

\* The desk dies, perhaps while write_text has the file open, and starts again:
\* the channel reads its committed offset.
Crash ==
  /\ crashes < MaxCrashes
  /\ crashes' = crashes + 1
  /\ file' \in {file} \cup (CASE pc = "save" -> {"plain", pending}
                              [] pc = "escalate" -> {"flatten"}
                              [] OTHER -> {})
  /\ pending' = "none" /\ escalated' = FALSE /\ next' = offset
  /\ pc' = "idle" /\ at' = 0 /\ upto' = 0 /\ st' = "none" /\ epoch0' = 0
  /\ asked' = (asked \/ file' = "flatten")
  /\ UNCHANGED <<sent, offset, row, epoch, keys, recent, env, operator, excused, seen>>

-----------------------------------------------------------------------------
Init ==
  /\ sent = <<>> /\ offset = 0
  /\ file = "none" /\ row = "none" /\ epoch = 0 /\ keys = {} /\ recent = {}
  /\ env \in BOOLEAN
  /\ pending = "none" /\ escalated = FALSE /\ next = 0
  /\ pc = "idle" /\ at = 0 /\ upto = 0 /\ st = "none" /\ epoch0 = 0
  /\ setting = "none" /\ clearing = FALSE
  /\ crashes = 0 /\ excused = 0 /\ asked = FALSE /\ seen = FALSE

Line == LineIgnored \/ LineEscalates \/ LineLatches

Observe == ReadEpoch \/ ObservePoll \/ Decide \/ AppendRow \/ AppendSuppressed

DeskStep ==
  \/ StartTurn \/ Fetch \/ FetchFails \/ Line
  \/ Save \/ SaveFails \/ Escalate \/ EscalateFails \/ Commit \/ CommitFails
  \/ Look \/ Observe \/ EndTurn

OperatorStep == SetRow \/ SetFile \/ SetDies \/ RemoveFile \/ ClearCheck \/ ClearAppend

Next == DeskStep \/ OperatorStep \/ Send \/ Crash

Spec == Init /\ [][Next]_vars

\* The supervisor ticks and the gateway's owner loop polls every few seconds; an
\* outage of the channel or of the disk does not last for ever, and a poll made
\* over and over at some time returns all that was sent.
FetchAll == Fetch /\ upto' = Len(sent)

Fairness ==
  /\ WF_vars(DeskStep)
  /\ SF_vars(FetchAll) /\ SF_vars(Save) /\ SF_vars(Escalate) /\ SF_vars(Commit)

FairSpec == Spec /\ Fairness

-----------------------------------------------------------------------------
(* What the kill switch promises *)

\* Every variable stays in its domain; the committed offset never passes what was
\* sent, nor the end of the last batch.
TypeOK ==
  /\ sent \in Seq(Kinds)
  /\ offset \in 0..Len(sent) /\ next \in offset..Len(sent)
  /\ file \in Switch /\ row \in Switch /\ pending \in Switch /\ st \in Switch
  /\ setting \in Switch
  /\ epoch \in Nat /\ epoch0 \in Nat /\ crashes \in Nat
  /\ keys \subseteq Kinds \X Nat /\ recent \subseteq Kinds
  /\ env \in BOOLEAN /\ escalated \in BOOLEAN /\ clearing \in BOOLEAN
  /\ asked \in BOOLEAN /\ seen \in BOOLEAN
  /\ pc \in {"idle", "save", "fetch", "line", "escalate", "commit", "look", "epoch",
             "poll", "decide", "append", "last"}
  /\ at \in Nat /\ upto \in 0..Len(sent)
  /\ excused \in 0..Len(sent)

\* What a desk that starts now would find engaged.
Durable ==
  IF file = "flatten" \/ row = "flatten" THEN "flatten"
  ELSE IF env \/ file = "plain" \/ row = "plain" THEN "plain" ELSE "none"

\* A command whose offset is committed (it is never delivered again) is in force
\* for every process that starts from here: the desk is switched off, and asked
\* to flatten if the command was a KILL FLATTEN (absorb_alerts: "the channel's
\* offset is not committed, so Telegram redelivers the command").  Commands that
\* came before an operator intervened are that operator's business.
KillTakesEffect ==
  \A i \in (excused + 1)..offset :
    /\ Durable # "none"
    /\ sent[i] = "flatten" => Durable = "flatten"

\* A switch the desk saw engaged is in the ledger until a human clears it, even
\* if the latch file is deleted and the day saw the same switch cleared before
\* (kill_switch_key: "never collides with the set that was cleared").
RecordedUntilCleared == seen => row # "none"

\* Every command is consumed, whatever full disks, failed commits and crashes delay it.
CommandsConsumed ==
  \A i \in 1..MaxLines : i <= Len(sent) ~> offset >= i
=============================================================================
