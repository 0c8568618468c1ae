-------------------------- MODULE KillSwitchProofs --------------------------
(***************************************************************************)
(* Proofs about KillSwitch, for any number of commands, clears and         *)
(* crashes: its types; that a switch the desk saw engaged stays in the     *)
(* ledger until a human clears it; and that a command the channel will not *)
(* deliver again is in force, while getUpdates answers and operators clear *)
(* but do not set or remove switches.                                      *)
(***************************************************************************)
EXTENDS KillSwitch, TLAPS

\* The line being handled lies in the batch.
LineInBatch == pc = "line" => at \in 1..upto

\* observe appends only states it found engaged, under an epoch it read.
AppendsEngaged == /\ epoch0 <= epoch
                  /\ pc = "append" => st \in Kinds

TypeInv == TypeOK /\ LineInBatch /\ AppendsEngaged

\* A key of this epoch was used for a row that no clear followed: while the ledger
\* shows no set row, observe's key is free.
KeysFresh ==
  /\ \A k \in keys : k[2] <= epoch
  /\ row = "none" => \A k \in keys : k[2] # epoch

IInv == TypeInv /\ KeysFresh /\ RecordedUntilCleared

-----------------------------------------------------------------------------
\* The state a poll returns is a switch.
LEMMA PollTyped ==
  ASSUME TypeOK
  PROVE  EngagedState \in Switch
  BY DEF TypeOK, EngagedState, Switch, Kinds

\* On to the next line keeps the line in the batch.
LEMMA AdvanceTyped ==
  ASSUME TypeOK, Advance, UNCHANGED upto
  PROVE  /\ pc' \in {"fetch", "line", "commit"}
         /\ at' \in Nat
         /\ LineInBatch'
  <1>. at \in Nat /\ upto \in Nat
    BY DEF TypeOK
  <1>1. CASE at = 0
    BY <1>1 DEF Advance, LineInBatch
  <1>2. CASE at > 0 /\ at < upto
    BY <1>2 DEF Advance, LineInBatch
  <1>3. CASE at > 0 /\ ~(at < upto)
    BY <1>3 DEF Advance, LineInBatch
  <1>. QED  BY <1>1, <1>2, <1>3

\* Types: the initial states and every step.
LEMMA TypeInit == Init => TypeInv
  <1>. SUFFICES ASSUME Init
                PROVE  TypeInv
    OBVIOUS
  <1>1. sent \in Seq(Kinds) /\ Len(sent) = 0
    BY DEF Init
  <1>2. offset \in 0..Len(sent) /\ next \in offset..Len(sent) /\ upto \in 0..Len(sent)
          /\ excused \in 0..Len(sent)
    BY <1>1 DEF Init
  <1>3. keys \subseteq Kinds \X Nat /\ recent \subseteq Kinds
    BY DEF Init
  <1>4. env \in BOOLEAN /\ escalated \in BOOLEAN /\ clearing \in BOOLEAN
          /\ asked \in BOOLEAN /\ seen \in BOOLEAN
    BY DEF Init
  <1>5. pc = "idle" /\ file = "none" /\ row = "none" /\ pending = "none" /\ st = "none"
          /\ setting = "none" /\ epoch = 0 /\ epoch0 = 0 /\ crashes = 0 /\ at = 0
    BY DEF Init
  <1>6. TypeOK
    BY <1>1, <1>2, <1>3, <1>4, <1>5 DEF TypeOK, Switch
  <1>7. LineInBatch /\ AppendsEngaged
    BY <1>5 DEF LineInBatch, AppendsEngaged
  <1>. QED
    BY <1>6, <1>7 DEF TypeInv

LEMMA TypeStep == TypeInv /\ [Next]_vars => TypeInv'
  <1>. SUFFICES ASSUME TypeInv, [Next]_vars
                PROVE  TypeInv'
    OBVIOUS
  <1>. USE DEF TypeInv
  <1>. TypeOK /\ LineInBatch /\ AppendsEngaged
    OBVIOUS
  <1>s. Len(sent) \in Nat /\ offset \in Nat /\ next \in Nat /\ upto \in Nat /\ at \in Nat
    BY DEF TypeOK
  <1>1. CASE StartTurn
    BY <1>1, <1>s DEF StartTurn, TypeOK, LineInBatch, AppendsEngaged, world, memory, operator, history
  <1>2. CASE Fetch
    BY <1>2, <1>s DEF Fetch, TypeOK, LineInBatch, AppendsEngaged, world, operator, history
  <1>3. CASE FetchFails
    BY <1>3, <1>s DEF FetchFails, TypeOK, LineInBatch, AppendsEngaged, world, memory, operator, history
  <1>4. CASE LineIgnored
    BY <1>4, <1>s, AdvanceTyped DEF LineIgnored, TypeOK, AppendsEngaged, world, memory, operator, history
  <1>5. CASE LineEscalates
    BY <1>5, <1>s DEF LineEscalates, TypeOK, LineInBatch, AppendsEngaged, world, memory, operator, history
  <1>6. CASE LineLatches
    <2>1. sent[at] \in Kinds
      BY <1>6, <1>s DEF LineLatches, TypeOK, LineInBatch
    <2>. QED
      BY <2>1, <1>6, <1>s DEF LineLatches, TypeOK, LineInBatch, AppendsEngaged, Switch, world, operator
  <1>7. CASE Save
    BY <1>7, <1>s, AdvanceTyped DEF Save, TypeOK, AppendsEngaged, Switch, operator, history
  <1>8. CASE SaveFails
    BY <1>8, <1>s DEF SaveFails, TypeOK, LineInBatch, AppendsEngaged, Switch, Kinds, memory, operator, history
  <1>9. CASE Escalate
    BY <1>9, <1>s, AdvanceTyped DEF Escalate, TypeOK, AppendsEngaged, Switch, Kinds, operator
  <1>10. CASE EscalateFails
    BY <1>10, <1>s DEF EscalateFails, TypeOK, LineInBatch, AppendsEngaged, world, memory, operator, history
  <1>11. CASE Commit
    BY <1>11, <1>s DEF Commit, TypeOK, LineInBatch, AppendsEngaged, memory, operator, history
  <1>12. CASE CommitFails
    BY <1>12, <1>s DEF CommitFails, TypeOK, LineInBatch, AppendsEngaged, world, memory, operator, history
  <1>13. CASE Look
    BY <1>13, <1>s, PollTyped DEF Look, Poll, TypeOK, LineInBatch, AppendsEngaged, Switch, Kinds, world, operator, history
  <1>14. CASE ReadEpoch
    BY <1>14, <1>s DEF ReadEpoch, TypeOK, LineInBatch, AppendsEngaged, world, memory, operator, history
  <1>15. CASE ObservePoll
    BY <1>15, <1>s, PollTyped DEF ObservePoll, Poll, TypeOK, LineInBatch, AppendsEngaged, Switch, Kinds, world, operator, history
  <1>16. CASE Decide
    BY <1>16, <1>s DEF Decide, Records, Switch, Records, TypeOK, LineInBatch, AppendsEngaged, Switch, world, memory, operator
  <1>17. CASE AppendRow
    <2>1. Key \in Kinds \X Nat
      BY <1>17 DEF AppendRow, Key, AppendsEngaged, TypeOK
    <2>2. keys' \subseteq Kinds \X Nat
      BY <2>1, <1>17 DEF AppendRow, TypeOK
    <2>3. seen' \in BOOLEAN
      BY <1>17 DEF AppendRow, TypeOK
    <2>. QED
      BY <2>2, <2>3, <1>17, <1>s DEF AppendRow, TypeOK, LineInBatch, AppendsEngaged, Switch, memory, operator
  <1>18. CASE AppendSuppressed
    BY <1>18, <1>s DEF AppendSuppressed, TypeOK, LineInBatch, AppendsEngaged, world, memory, operator
  <1>19. CASE EndTurn
    <2>1. CASE Poll
      BY <2>1, <1>19, <1>s, PollTyped DEF EndTurn, Poll, TypeOK, LineInBatch, AppendsEngaged, Switch, Kinds, world, operator, history
    <2>2. CASE UNCHANGED <<st, escalated>>
      BY <2>2, <1>19, <1>s DEF EndTurn, TypeOK, LineInBatch, AppendsEngaged, world, operator, history
    <2>. QED  BY <2>1, <2>2, <1>19 DEF EndTurn
  <1>20. CASE Send
    <2>. PICK k \in Kinds : sent' = Append(sent, k)
      BY <1>20 DEF Send
    <2>1. sent' \in Seq(Kinds) /\ Len(sent') = Len(sent) + 1
      BY DEF TypeOK
    <2>. QED
      BY <2>1, <1>20, <1>s DEF Send, TypeOK, LineInBatch, AppendsEngaged, memory, turn, operator, history
  <1>21. CASE SetRow
    <2>. PICK k \in Kinds : /\ setting' = k
                            /\ row' = k \/ UNCHANGED row
                            /\ recent' = recent \cup {k}
                            /\ asked' = (asked \/ k = "flatten")
      BY <1>21 DEF SetRow
    <2>1. row' \in Switch /\ setting' \in Switch /\ recent' \subseteq Kinds
      BY DEF TypeOK, Switch
    <2>2. asked' \in BOOLEAN
      OBVIOUS
    <2>. QED
      BY <2>1, <2>2, <1>21, <1>s DEF SetRow, TypeOK, LineInBatch, AppendsEngaged, memory, turn
  <1>22. CASE SetFile
    BY <1>22, <1>s DEF SetFile, TypeOK, LineInBatch, AppendsEngaged, Switch, memory, turn
  <1>23. CASE SetDies
    BY <1>23, <1>s DEF SetDies, TypeOK, LineInBatch, AppendsEngaged, Switch, world, memory, turn, history
  <1>24. CASE RemoveFile
    BY <1>24, <1>s DEF RemoveFile, TypeOK, LineInBatch, AppendsEngaged, Switch, memory, turn, operator
  <1>25. CASE ClearCheck
    BY <1>25, <1>s DEF ClearCheck, TypeOK, LineInBatch, AppendsEngaged, world, memory, turn, history
  <1>26. CASE ClearAppend
    <2>1. asked' \in BOOLEAN /\ seen' \in BOOLEAN /\ clearing' \in BOOLEAN
      BY <1>26 DEF ClearAppend
    <2>2. epoch' = epoch + 1 /\ row' = "none" /\ excused' = Len(sent)
          /\ UNCHANGED <<sent, offset, file, keys, recent, env, memory, turn, setting, crashes>>
      BY <1>26 DEF ClearAppend
    <2>. QED
      BY <2>1, <2>2, <1>s DEF TypeOK, LineInBatch, AppendsEngaged, Switch, memory, turn
  <1>27. CASE Crash
    <2>1. file' \in Switch
      BY <1>27 DEF Crash, TypeOK, Switch, Kinds
    <2>2. asked' \in BOOLEAN /\ escalated' \in BOOLEAN
      BY <1>27 DEF Crash
    <2>3. crashes' \in Nat
      BY <1>27 DEF Crash, TypeOK
    <2>. QED
      BY <2>1, <2>2, <2>3, <1>27, <1>s DEF Crash, TypeOK, LineInBatch, AppendsEngaged, Switch, operator
  <1>28. CASE UNCHANGED vars
    BY <1>28 DEF vars, TypeOK, LineInBatch, AppendsEngaged
  <1>. QED
    BY <1>1, <1>2, <1>3, <1>4, <1>5, <1>6, <1>7, <1>8, <1>9, <1>10, <1>11, <1>12, <1>13,
       <1>14, <1>15, <1>16, <1>17, <1>18, <1>19, <1>20, <1>21, <1>22, <1>23, <1>24, <1>25,
       <1>26, <1>27, <1>28
    DEF Next, DeskStep, Line, Observe, OperatorStep

\* Types hold: the committed offset never passes what was sent, whatever fails.
THEOREM KillTypeCorrect == Spec => []TypeOK
  <1>. QED
    BY TypeInit, TypeStep, PTL DEF Spec, TypeInv

-----------------------------------------------------------------------------
\* Steps that write no KillSwitchSet or KillSwitchCleared row and do not touch
\* the observation keep both facts.
LEMMA Untouched ==
  ASSUME KeysFresh, RecordedUntilCleared, UNCHANGED <<row, epoch, keys, seen>>
  PROVE  KeysFresh' /\ RecordedUntilCleared'
  BY DEF KeysFresh, RecordedUntilCleared

LEMMA RecordedStep == IInv /\ [Next]_vars => KeysFresh' /\ RecordedUntilCleared'
  <1>. SUFFICES ASSUME IInv, [Next]_vars
                PROVE  KeysFresh' /\ RecordedUntilCleared'
    OBVIOUS
  <1>. TypeOK /\ AppendsEngaged /\ KeysFresh /\ RecordedUntilCleared
    BY DEF IInv, TypeInv
  <1>n. epoch \in Nat /\ epoch0 \in Nat /\ epoch0 <= epoch
    BY DEF TypeOK, AppendsEngaged
  <1>k. \A k \in keys : k[2] \in Nat
    BY DEF TypeOK
  <1>1. CASE Decide
    BY <1>1 DEF Decide, KeysFresh, RecordedUntilCleared, world
  <1>2. CASE AppendRow
    <2>1. row' # "none"
      BY <1>2 DEF AppendRow, AppendsEngaged, Kinds
    <2>2. \A k \in keys' : k[2] <= epoch'
      BY <1>2, <1>n DEF AppendRow, Key, KeysFresh
    <2>. QED
      BY <2>1, <2>2 DEF KeysFresh, RecordedUntilCleared
  <1>3. CASE AppendSuppressed
    <2>1. epoch = epoch0 => row # "none"
      <3>. SUFFICES ASSUME epoch = epoch0
                    PROVE  row # "none"
        OBVIOUS
      <3>1. Key \in keys /\ Key[2] = epoch
        BY <1>3 DEF AppendSuppressed, Key
      <3>. QED  BY <3>1 DEF KeysFresh
    <2>. QED
      BY <2>1, <1>3 DEF AppendSuppressed, KeysFresh, RecordedUntilCleared, world
  <1>4. CASE SetRow
    BY <1>4 DEF SetRow, KeysFresh, RecordedUntilCleared, Kinds
  <1>5. CASE ClearAppend
    BY <1>5, <1>n, <1>k DEF ClearAppend, KeysFresh, RecordedUntilCleared
  <1>6. CASE UNCHANGED <<row, epoch, keys, seen>>
    BY <1>6, Untouched
  <1>7. CASE \/ StartTurn \/ Fetch \/ FetchFails \/ LineIgnored \/ LineEscalates
             \/ LineLatches \/ Save \/ SaveFails \/ Escalate \/ EscalateFails
             \/ Commit \/ CommitFails \/ Look \/ ReadEpoch \/ ObservePoll \/ EndTurn
             \/ Send \/ SetFile \/ SetDies \/ RemoveFile \/ ClearCheck \/ Crash
    <2>1. UNCHANGED <<row, epoch, keys, seen>>
      BY <1>7, Zenon
      DEF StartTurn, Fetch, FetchFails, LineIgnored, LineEscalates, LineLatches, Save,
          SaveFails, Escalate, EscalateFails, Commit, CommitFails, Look, ReadEpoch,
          ObservePoll, EndTurn, Send, SetFile, SetDies, RemoveFile, ClearCheck, Crash,
          world, history
    <2>. QED  BY <2>1, Untouched
  <1>8. CASE UNCHANGED vars
    BY <1>8, Untouched DEF vars
  <1>. QED
    BY <1>1, <1>2, <1>3, <1>4, <1>5, <1>7, <1>8
    DEF Next, DeskStep, Line, Observe, OperatorStep

\* A switch the desk saw engaged stays in the ledger until a human clears it.
THEOREM StaysRecorded == Spec => []RecordedUntilCleared
  <1>1. Init => IInv
    BY TypeInit DEF Init, IInv, KeysFresh, RecordedUntilCleared
  <1>2. IInv /\ [Next]_vars => IInv'
    BY TypeStep, RecordedStep DEF IInv
  <1>. QED
    BY <1>1, <1>2, PTL DEF Spec, IInv

-----------------------------------------------------------------------------
\* A command of this kind is in force for every process that starts from here.
InForce(k) == Durable # "none" /\ (k = "flatten" => Durable = "flatten")

\* A line of the batch is under way; the commands up to Handled are dealt with.
OnLine == pc \in {"line", "escalate"} \/ (pc = "save" /\ at > 0)
Handled == IF OnLine THEN at - 1 ELSE IF pc = "commit" THEN next ELSE offset

BatchBounds == OnLine => at \in (offset + 1)..upto /\ next = upto

\* A line waits in memory only until the file takes it, and an escalation is
\* remembered only while the file holds it.
PendingLine ==
  /\ pc = "save" => pending # "none"
  /\ pc \in {"fetch", "line", "escalate", "commit"} => pending = "none"
  /\ pc = "save" /\ at > 0 => pending = sent[at]
  /\ pending # "none" => file \in {"none", "plain"}

EscalatedInFile == escalated => file = "flatten"

\* A row observe is about to append never shows less than the one it replaces.
AppendsMore == pc = "append" => row = "none" \/ st = "flatten"

NobodySets == setting = "none"

HandledInForce == \A i \in (excused + 1)..Handled : InForce(sent[i])

CommandInv ==
  /\ BatchBounds /\ PendingLine /\ EscalatedInFile /\ AppendsMore /\ NobodySets
  /\ HandledInForce

\* What is in force stays in force while file and row only gain.
Gains(old, new) == old \in {"none", new} \/ new = "flatten"

LEMMA DurableCases ==
  ASSUME TypeOK
  PROVE  /\ Durable = "flatten" <=> file = "flatten" \/ row = "flatten"
         /\ Durable # "none" <=> env \/ file # "none" \/ row # "none"
  BY DEF Durable, TypeOK, Switch, Kinds

LEMMA CommandsTyped ==
  ASSUME TypeOK
  PROVE  \A i \in 1..Len(sent) : sent[i] \in Kinds
  <1>1. sent \in Seq(Kinds)
    BY DEF TypeOK
  <1>. QED  BY <1>1

LEMMA StaysInForce ==
  ASSUME TypeOK, TypeOK', Gains(file, file'), Gains(row, row'), env' = env
  PROVE  \A k \in Kinds : InForce(k) => InForce(k)'
  <1>1. /\ Durable' = "flatten" <=> file' = "flatten" \/ row' = "flatten"
        /\ Durable' # "none" <=> env' \/ file' # "none" \/ row' # "none"
    BY DEF Durable, TypeOK, Switch, Kinds
  <1>2. Durable # "none" => Durable' # "none"
    BY <1>1, DurableCases DEF Gains
  <1>3. Durable = "flatten" => Durable' = "flatten"
    BY <1>1, DurableCases DEF Gains, TypeOK
  <1>. QED
    BY <1>2, <1>3 DEF InForce

\* A step keeps the handled commands in force when it handles no more of them,
\* or only more that are in force after it.
LEMMA HandledKept ==
  ASSUME TypeOK, TypeOK', HandledInForce, Handled \in Int, Handled' \in Int,
         Handled <= Len(sent),
         Gains(file, file'), Gains(row, row'), UNCHANGED <<env, sent, excused>>,
         \A i \in (Handled + 1)..Handled' : i \in 1..Len(sent) /\ InForce(sent[i])'
  PROVE  HandledInForce'
  <1>. SUFFICES ASSUME NEW i \in (excused + 1)..Handled'
                PROVE  InForce(sent[i])'
    BY DEF HandledInForce
  <1>. excused \in Nat /\ Len(sent) \in Nat
    BY DEF TypeOK
  <1>1. CASE i \in (Handled + 1)..Handled'
    BY <1>1
  <1>2. CASE i <= Handled
    <2>1. i \in (excused + 1)..Handled /\ i \in 1..Len(sent)
      BY <1>2
    <2>2. InForce(sent[i])
      BY <2>1 DEF HandledInForce
    <2>3. sent[i] \in Kinds
      BY <2>1, CommandsTyped
    <2>4. InForce(sent[i])'
      BY <2>2, <2>3, StaysInForce DEF InForce
    <2>. QED  BY <2>4
  <1>. QED  BY <1>1, <1>2

\* The channel answers, and operators clear at most.
OnlyClears == ~Outages /\ Operators \subseteq {"clear"}

LEMMA GainsSelf == \A x : Gains(x, x)
  BY DEF Gains

\* Once the line under way is dealt with, Handled moves over it.
LEMMA AdvanceHandled ==
  ASSUME TypeOK, at \in (offset + 1)..upto, next = upto, Advance,
         UNCHANGED <<upto, next, offset>>
  PROVE  Handled' = at /\ BatchBounds' /\ pc' \in {"line", "commit"}
  <1>. offset \in Nat /\ at \in Nat /\ upto \in Nat
    BY DEF TypeOK
  <1>1. CASE at < upto
    BY <1>1 DEF Advance, Handled, BatchBounds, OnLine
  <1>2. CASE ~(at < upto)
    BY <1>2 DEF Advance, Handled, BatchBounds, OnLine
  <1>. QED  BY <1>1, <1>2

LEMMA CommandStep ==
  ASSUME OnlyClears, TypeInv, TypeInv', CommandInv, [Next]_vars
  PROVE  CommandInv'
  <1>. TypeOK /\ TypeOK' /\ LineInBatch /\ AppendsEngaged
    BY DEF TypeInv
  <1>. BatchBounds /\ PendingLine /\ EscalatedInFile /\ AppendsMore /\ NobodySets /\ HandledInForce
    BY DEF CommandInv
  <1>s. /\ Len(sent) \in Nat /\ offset \in Nat /\ next \in Nat /\ upto \in Nat /\ at \in Nat
        /\ offset <= next /\ next <= Len(sent) /\ upto <= Len(sent)
        /\ excused \in Nat /\ excused <= Len(sent)
    <2>1. Len(sent) \in Nat
      BY DEF TypeOK
    <2>. QED  BY <2>1 DEF TypeOK
  <1>h. Handled \in Int /\ Handled <= Len(sent) /\ Handled >= offset
    BY <1>s DEF Handled, BatchBounds, OnLine
  <1>1. CASE StartTurn
    <2>1. BatchBounds' /\ PendingLine' /\ EscalatedInFile' /\ AppendsMore' /\ NobodySets'
      BY <1>1, <1>s DEF StartTurn, BatchBounds, OnLine, PendingLine, EscalatedInFile, AppendsMore, NobodySets, world, memory, operator, history
    <2>2. UNCHANGED <<row, env, sent, excused>> /\ Gains(file, file')
      BY <1>1 DEF StartTurn, Gains, PendingLine, world, memory, operator, history
    <2>3. Handled' \in Int /\ Handled' <= Handled
      BY <1>1, <1>s DEF StartTurn, Handled, OnLine, BatchBounds, world, memory, operator, history
    <2>. QED
      BY <2>1, <2>2, <2>3, <1>h, HandledKept, GainsSelf DEF CommandInv
  <1>2. CASE LineEscalates
    <2>1. BatchBounds' /\ PendingLine' /\ EscalatedInFile' /\ AppendsMore' /\ NobodySets'
      BY <1>2, <1>s DEF LineEscalates, BatchBounds, OnLine, PendingLine, EscalatedInFile, AppendsMore, NobodySets, world, memory, operator, history
    <2>2. UNCHANGED <<row, env, sent, excused>> /\ Gains(file, file')
      BY <1>2 DEF LineEscalates, Gains, PendingLine, world, memory, operator, history
    <2>3. Handled' \in Int /\ Handled' <= Handled
      BY <1>2, <1>s DEF LineEscalates, Handled, OnLine, BatchBounds, world, memory, operator, history
    <2>. QED
      BY <2>1, <2>2, <2>3, <1>h, HandledKept, GainsSelf DEF CommandInv
  <1>3. CASE LineLatches
    <2>1. BatchBounds' /\ PendingLine' /\ EscalatedInFile' /\ AppendsMore' /\ NobodySets'
      <3>1. sent[at] \in Kinds
        BY <1>3, <1>s, CommandsTyped DEF LineLatches, LineInBatch
      <3>. QED
        BY <3>1, <1>3, <1>s DEF LineLatches, Engaged, Kinds, BatchBounds, OnLine, PendingLine, EscalatedInFile, AppendsMore, NobodySets,
           world, operator
    <2>2. UNCHANGED <<row, env, sent, excused>> /\ Gains(file, file')
      BY <1>3 DEF LineLatches, Gains, PendingLine, world, operator
    <2>3. Handled' \in Int /\ Handled' <= Handled
      BY <1>3, <1>s DEF LineLatches, Handled, OnLine, BatchBounds, world, operator
    <2>. QED
      BY <2>1, <2>2, <2>3, <1>h, HandledKept, GainsSelf DEF CommandInv
  <1>4. CASE SaveFails
    <2>1. BatchBounds' /\ PendingLine' /\ EscalatedInFile' /\ AppendsMore' /\ NobodySets'
      BY <1>4, <1>s DEF SaveFails, BatchBounds, OnLine, PendingLine, EscalatedInFile, AppendsMore, NobodySets, memory, operator, history
    <2>2. UNCHANGED <<row, env, sent, excused>> /\ Gains(file, file')
      BY <1>4 DEF SaveFails, Gains, PendingLine, memory, operator, history
    <2>3. Handled' \in Int /\ Handled' <= Handled
      BY <1>4, <1>s DEF SaveFails, Handled, OnLine, BatchBounds, memory, operator, history
    <2>. QED
      BY <2>1, <2>2, <2>3, <1>h, HandledKept, GainsSelf DEF CommandInv
  <1>5. CASE EscalateFails
    <2>1. BatchBounds' /\ PendingLine' /\ EscalatedInFile' /\ AppendsMore' /\ NobodySets'
      BY <1>5, <1>s DEF EscalateFails, BatchBounds, OnLine, PendingLine, EscalatedInFile, AppendsMore, NobodySets, world, memory, operator, history
    <2>2. UNCHANGED <<row, env, sent, excused>> /\ Gains(file, file')
      BY <1>5 DEF EscalateFails, Gains, PendingLine, world, memory, operator, history
    <2>3. Handled' \in Int /\ Handled' <= Handled
      BY <1>5, <1>s DEF EscalateFails, Handled, OnLine, BatchBounds, world, memory, operator, history
    <2>. QED
      BY <2>1, <2>2, <2>3, <1>h, HandledKept, GainsSelf DEF CommandInv
  <1>6. CASE Commit
    <2>1. BatchBounds' /\ PendingLine' /\ EscalatedInFile' /\ AppendsMore' /\ NobodySets'
      BY <1>6, <1>s DEF Commit, BatchBounds, OnLine, PendingLine, EscalatedInFile, AppendsMore, NobodySets, memory, operator, history
    <2>2. UNCHANGED <<row, env, sent, excused>> /\ Gains(file, file')
      BY <1>6 DEF Commit, Gains, PendingLine, memory, operator, history
    <2>3. Handled' \in Int /\ Handled' <= Handled
      BY <1>6, <1>s DEF Commit, Handled, OnLine, BatchBounds, memory, operator, history
    <2>. QED
      BY <2>1, <2>2, <2>3, <1>h, HandledKept, GainsSelf DEF CommandInv
  <1>7. CASE CommitFails
    <2>1. BatchBounds' /\ PendingLine' /\ EscalatedInFile' /\ AppendsMore' /\ NobodySets'
      BY <1>7, <1>s DEF CommitFails, BatchBounds, OnLine, PendingLine, EscalatedInFile, AppendsMore, NobodySets, world, memory, operator, history
    <2>2. UNCHANGED <<row, env, sent, excused>> /\ Gains(file, file')
      BY <1>7 DEF CommitFails, Gains, PendingLine, world, memory, operator, history
    <2>3. Handled' \in Int /\ Handled' <= Handled
      BY <1>7, <1>s DEF CommitFails, Handled, OnLine, BatchBounds, world, memory, operator, history
    <2>. QED
      BY <2>1, <2>2, <2>3, <1>h, HandledKept, GainsSelf DEF CommandInv
  <1>8. CASE ReadEpoch
    <2>1. BatchBounds' /\ PendingLine' /\ EscalatedInFile' /\ AppendsMore' /\ NobodySets'
      BY <1>8, <1>s DEF ReadEpoch, BatchBounds, OnLine, PendingLine, EscalatedInFile, AppendsMore, NobodySets, world, memory, operator, history
    <2>2. UNCHANGED <<row, env, sent, excused>> /\ Gains(file, file')
      BY <1>8 DEF ReadEpoch, Gains, PendingLine, world, memory, operator, history
    <2>3. Handled' \in Int /\ Handled' <= Handled
      BY <1>8, <1>s DEF ReadEpoch, Handled, OnLine, BatchBounds, world, memory, operator, history
    <2>. QED
      BY <2>1, <2>2, <2>3, <1>h, HandledKept, GainsSelf DEF CommandInv
  <1>9. CASE Decide
    <2>1. BatchBounds' /\ PendingLine' /\ EscalatedInFile' /\ AppendsMore' /\ NobodySets'
      <3>1. pc' = "append" => Records
        BY <1>9 DEF Decide
      <3>2. AppendsMore'
        BY <3>1, <1>9 DEF Decide, Records, AppendsMore, world
      <3>. QED
        BY <3>2, <1>9, <1>s DEF Decide, BatchBounds, OnLine, PendingLine, EscalatedInFile, NobodySets, world, memory,
           operator
    <2>2. UNCHANGED <<row, env, sent, excused>> /\ Gains(file, file')
      BY <1>9 DEF Decide, Gains, PendingLine, world, memory, operator
    <2>3. Handled' \in Int /\ Handled' <= Handled
      BY <1>9, <1>s DEF Decide, Handled, OnLine, BatchBounds, world, memory, operator
    <2>. QED
      BY <2>1, <2>2, <2>3, <1>h, HandledKept, GainsSelf DEF CommandInv
  <1>10. CASE AppendSuppressed
    <2>1. BatchBounds' /\ PendingLine' /\ EscalatedInFile' /\ AppendsMore' /\ NobodySets'
      BY <1>10, <1>s DEF AppendSuppressed, BatchBounds, OnLine, PendingLine, EscalatedInFile, AppendsMore, NobodySets, world, memory, operator
    <2>2. UNCHANGED <<row, env, sent, excused>> /\ Gains(file, file')
      BY <1>10 DEF AppendSuppressed, Gains, PendingLine, world, memory, operator
    <2>3. Handled' \in Int /\ Handled' <= Handled
      BY <1>10, <1>s DEF AppendSuppressed, Handled, OnLine, BatchBounds, world, memory, operator
    <2>. QED
      BY <2>1, <2>2, <2>3, <1>h, HandledKept, GainsSelf DEF CommandInv
  <1>11. CASE ClearCheck
    <2>1. BatchBounds' /\ PendingLine' /\ EscalatedInFile' /\ AppendsMore' /\ NobodySets'
      BY <1>11, <1>s DEF ClearCheck, BatchBounds, OnLine, PendingLine, EscalatedInFile, AppendsMore, NobodySets, world, memory, turn, history
    <2>2. UNCHANGED <<row, env, sent, excused>> /\ Gains(file, file')
      BY <1>11 DEF ClearCheck, Gains, PendingLine, world, memory, turn, history
    <2>3. Handled' \in Int /\ Handled' <= Handled
      BY <1>11, <1>s DEF ClearCheck, Handled, OnLine, BatchBounds, world, memory, turn, history
    <2>. QED
      BY <2>1, <2>2, <2>3, <1>h, HandledKept, GainsSelf DEF CommandInv
  <1>12. CASE Fetch
    <2>1. BatchBounds' /\ PendingLine' /\ EscalatedInFile' /\ AppendsMore' /\ NobodySets'
      BY <1>12, <1>s DEF Fetch, BatchBounds, OnLine, PendingLine, EscalatedInFile, AppendsMore, NobodySets, world, operator, history
    <2>2. UNCHANGED <<row, env, sent, excused>> /\ Gains(file, file')
      BY <1>12 DEF Fetch, Gains, PendingLine, world, operator, history
    <2>3. Handled' \in Int /\ Handled' <= Handled
      BY <1>12, <1>s DEF Fetch, Handled, OnLine, BatchBounds, world, operator, history
    <2>. QED
      BY <2>1, <2>2, <2>3, <1>h, HandledKept, GainsSelf DEF CommandInv
  <1>13. CASE Look
    <2>1. BatchBounds' /\ PendingLine' /\ EscalatedInFile' /\ AppendsMore' /\ NobodySets'
      BY <1>13, <1>s DEF Look, Poll, BatchBounds, OnLine, PendingLine, EscalatedInFile, AppendsMore, NobodySets, world, operator, history
    <2>2. UNCHANGED <<row, env, sent, excused>> /\ Gains(file, file')
      BY <1>13 DEF Look, Gains, PendingLine, world, operator, history
    <2>3. Handled' \in Int /\ Handled' <= Handled
      BY <1>13, <1>s DEF Look, Handled, OnLine, BatchBounds, world, operator, history
    <2>. QED
      BY <2>1, <2>2, <2>3, <1>h, HandledKept, GainsSelf DEF CommandInv
  <1>14. CASE ObservePoll
    <2>1. BatchBounds' /\ PendingLine' /\ EscalatedInFile' /\ AppendsMore' /\ NobodySets'
      BY <1>14, <1>s DEF ObservePoll, Poll, BatchBounds, OnLine, PendingLine, EscalatedInFile, AppendsMore, NobodySets, world, operator, history
    <2>2. UNCHANGED <<row, env, sent, excused>> /\ Gains(file, file')
      BY <1>14 DEF ObservePoll, Gains, PendingLine, world, operator, history
    <2>3. Handled' \in Int /\ Handled' <= Handled
      BY <1>14, <1>s DEF ObservePoll, Handled, OnLine, BatchBounds, world, operator, history
    <2>. QED
      BY <2>1, <2>2, <2>3, <1>h, HandledKept, GainsSelf DEF CommandInv
  <1>15. CASE EndTurn
    <2>1. BatchBounds' /\ PendingLine' /\ EscalatedInFile' /\ AppendsMore' /\ NobodySets'
      <3>1. (escalated' => escalated) /\ pc' = "idle"
            /\ UNCHANGED <<world, pending, next, at, upto, operator>>
        <4>1. escalated' => escalated
          <5>1. CASE Poll
            BY <5>1, Zenon DEF Poll
          <5>2. CASE UNCHANGED <<st, escalated>>
            BY <5>2
          <5>. QED  BY <1>15, <5>1, <5>2 DEF EndTurn
        <4>. QED  BY <4>1, <1>15 DEF EndTurn
      <3>. QED
        BY <3>1 DEF BatchBounds, OnLine, PendingLine, EscalatedInFile, AppendsMore, NobodySets, world, operator
    <2>2. UNCHANGED <<row, env, sent, excused>> /\ Gains(file, file')
      BY <1>15 DEF EndTurn, Gains, PendingLine, world, operator, history
    <2>3. Handled' \in Int /\ Handled' <= Handled
      BY <1>15, <1>s DEF EndTurn, Handled, OnLine, BatchBounds, world, operator, history
    <2>. QED
      BY <2>1, <2>2, <2>3, <1>h, HandledKept, GainsSelf DEF CommandInv
  <1>16. CASE FetchFails
    BY <1>16 DEF FetchFails, OnlyClears
  <1>17. CASE LineIgnored
    <2>1. at \in (offset + 1)..upto /\ next = upto /\ at \in 1..Len(sent) /\ Handled = at - 1
      BY <1>17, <1>s DEF LineIgnored, BatchBounds, OnLine, Handled
    <2>2. Handled' = at /\ BatchBounds' /\ pc' \in {"line", "commit"}
      BY <2>1, <1>17, AdvanceHandled DEF LineIgnored, world, memory
    <2>3. PendingLine' /\ EscalatedInFile' /\ AppendsMore' /\ NobodySets'
      BY <2>2, <1>17 DEF LineIgnored, PendingLine, EscalatedInFile, AppendsMore, NobodySets,
         world, memory, operator
    <2>4. UNCHANGED <<row, env, sent, excused, file>>
      BY <1>17 DEF LineIgnored, world, history
    <2>5. InForce(sent[at])
      <3>1. sent[at] \in Kinds
        BY <2>1, CommandsTyped
      <3>. QED
        BY <3>1, <1>17, DurableCases DEF LineIgnored, Engaged, EscalatedInFile, InForce, Kinds
    <2>6. \A i \in (Handled + 1)..Handled' : i \in 1..Len(sent) /\ InForce(sent[i])'
      BY <2>1, <2>2, <2>4, <2>5 DEF InForce, Durable
    <2>7. HandledInForce'
      BY <2>1, <2>2, <2>4, <2>6, <1>h, HandledKept, GainsSelf
    <2>. QED
      BY <2>2, <2>3, <2>7 DEF CommandInv
  <1>18. CASE Escalate
    <2>1. at \in (offset + 1)..upto /\ next = upto /\ at \in 1..Len(sent) /\ Handled = at - 1
      BY <1>18, <1>s DEF Escalate, BatchBounds, OnLine, Handled
    <2>2. Handled' = at /\ BatchBounds' /\ pc' \in {"line", "commit"}
      BY <2>1, <1>18, AdvanceHandled DEF Escalate
    <2>3. PendingLine' /\ EscalatedInFile' /\ AppendsMore' /\ NobodySets'
      BY <2>2, <1>18 DEF Escalate, PendingLine, EscalatedInFile, AppendsMore, NobodySets, operator
    <2>4. UNCHANGED <<row, env, sent, excused>> /\ file' = "flatten"
      BY <1>18 DEF Escalate
    <2>5. Gains(file, file')
      BY <2>4 DEF Gains
    <2>6. \A i \in (Handled + 1)..Handled' : i \in 1..Len(sent) /\ InForce(sent[i])'
      BY <2>1, <2>2, <2>4 DEF InForce, Durable
    <2>7. HandledInForce'
      BY <2>1, <2>2, <2>4, <2>5, <2>6, <1>h, HandledKept, GainsSelf
    <2>. QED
      BY <2>2, <2>3, <2>7 DEF CommandInv
  <1>19. CASE Save /\ at > 0
    <2>1. at \in (offset + 1)..upto /\ next = upto /\ at \in 1..Len(sent) /\ Handled = at - 1
      BY <1>19, <1>s DEF Save, BatchBounds, OnLine, Handled
    <2>2. Handled' = at /\ BatchBounds' /\ pc' \in {"line", "commit"}
      BY <2>1, <1>19, AdvanceHandled DEF Save
    <2>3. PendingLine' /\ EscalatedInFile' /\ AppendsMore' /\ NobodySets'
      BY <2>2, <1>19 DEF Save, PendingLine, EscalatedInFile, AppendsMore, NobodySets, operator
    <2>4. /\ UNCHANGED <<row, env, sent, excused>> /\ file' = sent[at]
          /\ file \in {"none", "plain"} /\ sent[at] \in Kinds
      BY <2>1, <1>19, CommandsTyped DEF Save, PendingLine, history
    <2>5. Gains(file, file')
      BY <2>4 DEF Gains, Kinds
    <2>6. \A i \in (Handled + 1)..Handled' : i \in 1..Len(sent) /\ InForce(sent[i])'
      BY <2>1, <2>2, <2>4 DEF InForce, Durable, Kinds
    <2>7. HandledInForce'
      BY <2>1, <2>2, <2>4, <2>5, <2>6, <1>h, HandledKept, GainsSelf
    <2>. QED
      BY <2>2, <2>3, <2>7 DEF CommandInv
  <1>20. CASE Save /\ ~(at > 0)
    <2>1. at = 0 /\ at' = 0 /\ pc' = "fetch"
      BY <1>20, <1>s DEF Save, Advance
    <2>2. BatchBounds' /\ PendingLine' /\ EscalatedInFile' /\ AppendsMore' /\ NobodySets'
      BY <2>1, <1>20 DEF Save, BatchBounds, OnLine, PendingLine, EscalatedInFile, AppendsMore,
         NobodySets, operator
    <2>3. UNCHANGED <<row, env, sent, excused>> /\ Gains(file, file')
      BY <1>20 DEF Save, PendingLine, TypeOK, Switch, Kinds, Gains, history
    <2>4. Handled' = Handled
      BY <2>1, <1>20 DEF Save, Handled, OnLine
    <2>. QED
      BY <2>2, <2>3, <2>4, <1>h, HandledKept, GainsSelf DEF CommandInv
  <1>21. CASE AppendRow
    <2>1. BatchBounds' /\ PendingLine' /\ EscalatedInFile' /\ AppendsMore' /\ NobodySets'
      BY <1>21, <1>s DEF AppendRow, BatchBounds, OnLine, PendingLine, EscalatedInFile, AppendsMore, NobodySets, memory, operator
    <2>2. UNCHANGED <<file, env, sent, excused>> /\ Gains(row, row')
      BY <1>21 DEF AppendRow, AppendsMore, Gains
    <2>3. Handled' = Handled
      BY <1>21, <1>s DEF AppendRow, Handled, OnLine, memory
    <2>. QED
      BY <2>1, <2>2, <2>3, <1>h, HandledKept, GainsSelf DEF CommandInv
  <1>22. CASE Send
    <2>. PICK k \in Kinds : sent' = Append(sent, k)
      BY <1>22 DEF Send
    <2>1. /\ Len(sent') = Len(sent) + 1
          /\ \A i \in 1..Len(sent) : sent'[i] = sent[i]
      BY DEF TypeOK
    <2>2. BatchBounds' /\ PendingLine' /\ EscalatedInFile' /\ AppendsMore' /\ NobodySets'
      BY <2>1, <1>22, <1>s DEF Send, BatchBounds, OnLine, PendingLine, EscalatedInFile, AppendsMore, NobodySets, memory, turn, operator
    <2>3. Handled' = Handled /\ UNCHANGED <<file, row, env, excused>>
      BY <1>22 DEF Send, Handled, OnLine, memory, turn, history
    <2>4. HandledInForce'
      BY <2>1, <2>3, <1>h, <1>s DEF HandledInForce, InForce, Durable
    <2>. QED
      BY <2>2, <2>4 DEF CommandInv
  <1>23. CASE ClearAppend
    <2>1. BatchBounds' /\ PendingLine' /\ EscalatedInFile' /\ AppendsMore' /\ NobodySets'
      BY <1>23, <1>s DEF ClearAppend, BatchBounds, OnLine, PendingLine, EscalatedInFile, AppendsMore, NobodySets, memory, turn
    <2>2. Handled' = Handled /\ excused' = Len(sent)
      BY <1>23 DEF ClearAppend, Handled, OnLine, memory, turn
    <2>3. HandledInForce'
      BY <2>2, <1>h, <1>s DEF HandledInForce
    <2>. QED
      BY <2>1, <2>3 DEF CommandInv
  <1>24. CASE Crash
    <2>1. BatchBounds' /\ PendingLine' /\ EscalatedInFile' /\ AppendsMore' /\ NobodySets'
      BY <1>24 DEF Crash, BatchBounds, OnLine, PendingLine, EscalatedInFile, AppendsMore, NobodySets, operator
    <2>2. UNCHANGED <<row, env, sent, excused>> /\ Gains(file, file')
      BY <1>24 DEF Crash, Gains, PendingLine, TypeOK, Switch, Kinds
    <2>3. Handled' = offset
      BY <1>24 DEF Crash, Handled, OnLine
    <2>. QED
      BY <2>1, <2>2, <2>3, <1>h, <1>s, HandledKept, GainsSelf DEF CommandInv
  <1>25. CASE SetRow \/ SetFile \/ SetDies \/ RemoveFile
    BY <1>25 DEF SetRow, SetFile, SetDies, RemoveFile, NobodySets, OnlyClears
  <1>26. CASE UNCHANGED vars
    BY <1>26 DEF vars, CommandInv, BatchBounds, OnLine, PendingLine, EscalatedInFile, AppendsMore,
       NobodySets, HandledInForce, Handled, InForce, Durable
  <1>. QED
    BY <1>1, <1>2, <1>3, <1>4, <1>5, <1>6, <1>7, <1>8, <1>9, <1>10, <1>11, <1>12, <1>13, <1>14, <1>15, <1>16, <1>17, <1>18, <1>19, <1>20, <1>21, <1>22, <1>23, <1>24, <1>25, <1>26
    DEF Next, DeskStep, Line, Observe, OperatorStep

\* No KILL is lost: a command whose offset is committed is in force for every
\* process that starts from here, whatever full disks, failed commits, crashes
\* and clears come between (absorb_alerts, "so Telegram redelivers the command").
THEOREM CommandsTakeEffect ==
  ASSUME OnlyClears
  PROVE  Spec => []KillTakesEffect
  <1>1. Init => CommandInv
    BY DEF Init, CommandInv, BatchBounds, OnLine, PendingLine, EscalatedInFile, AppendsMore,
       NobodySets, HandledInForce, Handled
  <1>2. TypeInv /\ TypeInv' /\ CommandInv /\ [Next]_vars => CommandInv'
    BY CommandStep
  <1>3. TypeInv /\ CommandInv => KillTakesEffect
    <2>. SUFFICES ASSUME TypeInv, CommandInv
                  PROVE  KillTakesEffect
      OBVIOUS
    <2>1. offset \in Nat /\ offset <= Handled /\ Handled \in Int /\ excused \in Nat
      BY DEF TypeInv, TypeOK, CommandInv, BatchBounds, OnLine, Handled
    <2>. QED
      BY <2>1 DEF CommandInv, HandledInForce, InForce, KillTakesEffect
  <1>. QED
    BY TypeInit, TypeStep, <1>1, <1>2, <1>3, PTL DEF Spec
=============================================================================
