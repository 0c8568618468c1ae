------------------------------ MODULE DeskTools ------------------------------
(***************************************************************************)
(* Tool calls of the seats.  A call reaches the registry from the desk     *)
(* gateway (an HTTP handler thread waits while the owner loop runs it) or  *)
(* from a serve process; the registry resolves it against the seat's       *)
(* roster, waits for the rate limiter and runs the tool under a timeout.   *)
(* Journal notes go to the ledger and to a day file shared by the          *)
(* processes, memories to a bank file indexed in memory, alerts to a file  *)
(* and to network sinks.  A caller that is told nothing may call again.    *)
(***************************************************************************)
EXTENDS Naturals, Sequences, FiniteSets

CONSTANTS
  Hosts,         \* processes that run a registry over the same data directory
  Requests,      \* [seat, token, tool, body]: path seat, seat of the bearer token
  Granted,       \* set of <<seat, tool>>: the rosters
  Sinks,         \* per host, the allowlisted alert destinations: none at the gateway
  MaxCalls, MaxRestarts

ASSUME ToolsAssumption ==
  /\ IsFiniteSet(Hosts)
  /\ Requests \subseteq [seat : STRING, token : STRING,
                         tool : {"note", "retain", "alert"}, body : STRING]
  /\ \A q \in Requests : q.body # "torn"   \* the name of a partial bank line

VARIABLES
  calls,         \* Seq of [host, req, pc, seq, todo, answer], one per call so far
  notes,         \* the ledger's notes: Seq of [req, seat]
  dayFile, torn, fileLock,   \* the exported lines, the partial last one, the flock
  bank, index,   \* the bank file's lines, "torn" for a partial one; per host
  sent, written, delivered,  \* what went out; what each host knows of it
  restarts

journalVars == <<notes, dayFile, torn, fileLock>>
bankVars == <<bank, index>>
alertVars == <<sent, written, delivered>>
toolVars == <<calls, journalVars, bankVars, alertVars, restarts>>

InSeq(x, s) == \E i \in DOMAIN s : s[i] = x

ToolsInit ==
  /\ calls = <<>> /\ notes = <<>> /\ dayFile = <<>> /\ torn = 0 /\ fileLock = 0
  /\ bank = <<>> /\ index = [h \in Hosts |-> {}]
  /\ sent = {} /\ written = [h \in Hosts |-> {}]
  /\ delivered = [h \in Hosts |-> {}]
  /\ restarts = 0

-----------------------------------------------------------------------------
\* The registry.

\* The token is compared with every seat's and must be the path seat's own.
Authenticated(q) == q.token = q.seat

\* A seat's own roster decides; nothing else is resolved for it.
Resolved(q) == <<q.seat, q.tool>> \in Granted

\* A refused call is answered at once and leaves nothing behind.
Arrive(h, q) ==
  /\ Len(calls) < MaxCalls /\ Authenticated(q) /\ Resolved(q)
  /\ calls' = Append(calls, [host |-> h, req |-> q, pc |-> "limit", seq |-> 0,
                             todo |-> {}, answer |-> "none"])
  /\ UNCHANGED <<journalVars, bankVars, alertVars, restarts>>

\* A call whose caller gave up keeps its first answer.
Answered(k, what) == IF calls[k].answer = "none" THEN what ELSE calls[k].answer
Move(k, place) == calls' = [calls EXCEPT ![k].pc = place]
End(k, what) == calls' = [calls EXCEPT ![k].pc = "end", ![k].answer = Answered(k, what)]

\* One limiter for a rate key of a registry: a call waits for its turn.
Acquire(k) ==
  /\ calls[k].pc = "limit" /\ Move(k, calls[k].req.tool)
  /\ UNCHANGED <<journalVars, bankVars, alertVars, restarts>>

\* The tool's timeout, or the handler's: the caller gets an error.  What waits
\* in the loop is cancelled; a file write in a worker thread runs on.
TimeOut(k) ==
  /\ calls[k].answer = "none" /\ calls[k].pc \in {"limit", "export", "line", "deliver"}
  /\ calls' = [calls EXCEPT ![k].answer = "error",
                            ![k].pc = IF @ \in {"export", "line"} THEN @ ELSE "end"]
  /\ UNCHANGED <<journalVars, bankVars, alertVars, restarts>>

-----------------------------------------------------------------------------
\* journal.append and desk.event_emit.

RowOf(q) == CHOOSE i \in DOMAIN notes : notes[i].req = q

\* The key is the seat and the content: a call made again gets the first row.
AppendNote(k) ==
  LET q == calls[k].req
      known == \E i \in DOMAIN notes : notes[i].req = q
  IN
  /\ calls[k].pc = "note"
  /\ notes' = IF known THEN notes ELSE Append(notes, [req |-> q, seat |-> q.seat])
  /\ calls' = [calls EXCEPT ![k].pc = "export",
                            ![k].seq = IF known THEN RowOf(q) ELSE Len(notes) + 1]
  /\ UNCHANGED <<dayFile, torn, fileLock, bankVars, alertVars, restarts>>

\* Mutant: a partial line with the sequence number counts as the line.
OpenDayFileTorn(k) ==
  /\ calls[k].pc = "export" /\ fileLock = 0
  /\ IF InSeq(calls[k].seq, dayFile) \/ torn = calls[k].seq
     THEN End(k, "ok") /\ UNCHANGED <<torn, fileLock>>
     ELSE Move(k, "line") /\ torn' = 0 /\ fileLock' = k
  /\ UNCHANGED <<notes, dayFile, bankVars, alertVars, restarts>>

\* Under the lock: a line that is there is enough; a partial last line is cut.
OpenDayFile(k) ==
  /\ calls[k].pc = "export" /\ fileLock = 0
  /\ IF InSeq(calls[k].seq, dayFile) THEN End(k, "ok") /\ UNCHANGED <<torn, fileLock>>
     ELSE Move(k, "line") /\ torn' = 0 /\ fileLock' = k
  /\ UNCHANGED <<notes, dayFile, bankVars, alertVars, restarts>>

WriteLine(k) ==
  /\ calls[k].pc = "line"
  /\ dayFile' = Append(dayFile, calls[k].seq) /\ fileLock' = 0
  /\ End(k, "ok")
  /\ UNCHANGED <<notes, torn, bankVars, alertVars, restarts>>

-----------------------------------------------------------------------------
\* desk.memory_retain.

\* What a new MemoryBank knows: the complete lines of the file.
Indexed(file) == {file[i] : i \in {n \in DOMAIN file : file[n] # "torn"}}

\* A partial last line is ended first, so that it swallows no record.
WithLine(file, key) == Append(file, key)

Retain(k) ==
  LET h == calls[k].host
      key == calls[k].req.body
  IN
  /\ calls[k].pc = "retain"
  /\ IF key \in index[h] THEN UNCHANGED bankVars
     ELSE /\ bank' = WithLine(bank, key)
          /\ index' = [index EXCEPT ![h] = @ \cup {key}]
  /\ End(k, "ok")
  /\ UNCHANGED <<journalVars, alertVars, restarts>>

-----------------------------------------------------------------------------
\* notify.alert: the file once, each sink once, as far as this process knows.

Pending(h, key) == {s \in Sinks[h] : <<key, s>> \notin delivered[h]}

SendAlert(k) ==
  LET h == calls[k].host
      key == calls[k].req.body
      unwritten == key \notin written[h]
  IN
  /\ calls[k].pc = "alert"
  /\ IF Pending(h, key) = {} /\ ~unwritten
     THEN End(k, "suppressed") /\ UNCHANGED alertVars
     ELSE /\ calls' = [calls EXCEPT ![k].pc = "deliver", ![k].todo = Pending(h, key)]
          /\ \/ /\ unwritten
                /\ sent' = sent \cup {<<h, key, "file">>}
                /\ written' = [written EXCEPT ![h] = @ \cup {key}]
             \/ UNCHANGED <<sent, written>>   \* written before, or the disk fails
          /\ UNCHANGED delivered
  /\ UNCHANGED <<journalVars, bankVars, restarts>>

\* A pending sink is reached within its retries and its four seconds, or fails.
Reach(k, s) ==
  LET h == calls[k].host
      key == calls[k].req.body
  IN
  /\ calls[k].pc = "deliver" /\ s \in calls[k].todo
  /\ calls' = [calls EXCEPT ![k].todo = @ \ {s}]
  /\ \/ /\ delivered' = [delivered EXCEPT ![h] = @ \cup {<<key, s>>}]
        /\ sent' = sent \cup {<<h, key, s>>}
     \/ UNCHANGED <<delivered, sent>>
  /\ UNCHANGED <<journalVars, bankVars, written, restarts>>

Delivered(k) ==
  /\ calls[k].pc = "deliver" /\ calls[k].todo = {} /\ End(k, "ok")
  /\ UNCHANGED <<journalVars, bankVars, alertVars, restarts>>

-----------------------------------------------------------------------------

\* Processes.

Restarted(h, ended) ==
  /\ index' = [index EXCEPT ![h] = Indexed(bank')]
  /\ written' = [written EXCEPT ![h] = {}] /\ delivered' = [delivered EXCEPT ![h] = {}]
  /\ calls' = [k \in DOMAIN calls |->
                 IF calls[k].host = h /\ calls[k].pc \in ended
                 THEN [calls[k] EXCEPT !.pc = "end", !.answer = Answered(k, "lost")]
                 ELSE calls[k]]
  /\ restarts < MaxRestarts /\ restarts' = restarts + 1

InLoop == {"limit", "note", "retain", "alert", "deliver"}

\* close_server and a new start: the loop stops where it is, its callers hear
\* nothing, and the interpreter waits for the worker threads.
StopAndStart(h) ==
  /\ UNCHANGED <<journalVars, bank, sent>>
  /\ Restarted(h, InLoop)

\* A crash may leave half of the line being written.
CrashAndStart(h) ==
  LET writing == {k \in DOMAIN calls : calls[k].host = h /\ calls[k].pc = "line"} IN
  /\ torn' \in {torn} \cup {calls[k].seq : k \in writing}
  /\ fileLock' = IF fileLock \in writing THEN 0 ELSE fileLock
  /\ bank' \in {bank} \cup
       (IF \E k \in DOMAIN calls : calls[k].host = h /\ calls[k].pc = "retain"
                                    /\ calls[k].req.body \notin index[h]
        THEN {Append(bank, "torn")} ELSE {})
  /\ Restarted(h, InLoop \cup {"export", "line"})
  /\ UNCHANGED <<notes, dayFile, sent>>

CallStep(k) ==
  \/ Acquire(k) \/ TimeOut(k)
  \/ AppendNote(k) \/ OpenDayFile(k) \/ WriteLine(k)
  \/ Retain(k) \/ SendAlert(k) \/ Delivered(k)
  \/ \E s \in calls[k].todo : Reach(k, s)

ToolsNext ==
  \/ \E h \in Hosts : StopAndStart(h) \/ CrashAndStart(h)
                      \/ \E q \in Requests : Arrive(h, q)
  \/ \E k \in DOMAIN calls : CallStep(k)

ToolsSpec == ToolsInit /\ [][ToolsNext]_toolVars

-----------------------------------------------------------------------------
ToolsTypeOK ==
  /\ \A k \in DOMAIN calls : calls[k].host \in Hosts /\ calls[k].seq <= Len(notes)
                             /\ <<calls[k].req.token, calls[k].req.tool>> \in Granted
  /\ torn <= Len(notes)
  /\ fileLock \in DOMAIN calls \cup {0}
  /\ \A h \in Hosts : delivered[h] \subseteq ({q.body : q \in Requests} \X Sinks[h])

\* journal.append is idempotent to the day file as well: however calls are
\* repeated, time out, run on in threads of two processes or are cut by a
\* crash, a note has one row and at most one line.
OneLinePerNote ==
  /\ \A i, j \in DOMAIN notes : notes[i].req = notes[j].req => i = j
  /\ \A i, j \in DOMAIN dayFile : dayFile[i] = dayFile[j] => i = j

\* A call answered with a sequence number has its line in the file; one told
\* of an error may have it too, and may simply be made again.
AnsweredIsExported ==
  \A k \in DOMAIN calls :
    calls[k].req.tool = "note" /\ calls[k].answer = "ok" => InSeq(calls[k].seq, dayFile)

\* Every memory a call was told is retained is on a line of its own, also when
\* a crash left a partial line before it.
RetainedIsKept ==
  \A k \in DOMAIN calls :
    calls[k].req.tool = "retain" /\ calls[k].answer = "ok"
      => calls[k].req.body \in Indexed(bank)

\* One process retains a memory once and restarts know what was retained: a
\* second line is the doing of another process.
RetainedOncePerHost ==
  \A x \in Indexed(bank) :
    Cardinality({i \in DOMAIN bank : bank[i] = x}) <= Cardinality(Hosts)

\* An alert is answered "suppressed" only when this process wrote it to the
\* file and reached every sink: a sink that failed is tried at the next send.
SuppressedWasSent ==
  \A k \in DOMAIN calls : calls[k].answer = "suppressed" =>
    \A what \in {"file"} \cup Sinks[calls[k].host] : <<calls[k].host, calls[k].req.body, what>> \in sent

\* What a tool call was answered is so, and is so once, whatever is repeated,
\* run on after a timeout, cut by a crash or done by the other process.
AnswersStand ==
  /\ OneLinePerNote /\ AnsweredIsExported
  /\ RetainedIsKept /\ RetainedOncePerHost /\ SuppressedWasSent
=============================================================================
