---------------------------- MODULE LedgerStore ----------------------------
(***************************************************************************)
(* LedgerStore.append, append_batch and verify (src/pumpgrok/ledger/store) *)
(* over several handles on one SQLite file: the desk, the CLI, operators.  *)
(*                                                                         *)
(* A handle is one connection used by one thread.  append is append_batch  *)
(* of one row.  SQLite is external: BEGIN IMMEDIATE admits one writer, its *)
(* rows are seen by others from COMMIT on, a constraint that fails raises, *)
(* and a process that dies leaves no uncommitted row.                      *)
(***************************************************************************)
EXTENDS Integers, Sequences

CONSTANTS
  Handles, Batches, Keys,
  KeysOf,      \* [Batches -> Seq(Keys)]: the idempotency keys of a batch's rows
  NoHandle, NoBatch,
  MaxRows      \* bound on the table, for TLC

ASSUME StoreAssumption ==
  /\ KeysOf \in [Batches -> Seq(Keys)]
  /\ \A b \in Batches : KeysOf[b] # <<>>
  /\ NoHandle \notin Handles /\ NoBatch \notin Batches
  /\ MaxRows \in Nat

VARIABLES
  events,    \* the committed rows, by seq
  pending,   \* the rows the open transaction has inserted
  head,      \* the writer's prev_hash: the hash its next row chains to
  writer,    \* the handle whose transaction is open
  batch,     \* the batch it appends
  refusing   \* handles with _inconsistent set

vars == <<events, pending, head, writer, batch, refusing>>

-----------------------------------------------------------------------------
(* The chain *)

Items == {"whole", "torn"}

\* sha256 of the canonical row, taken as injective: the hash is its own preimage.
Hashes == Seq(Nat \X Keys \X Items)
Genesis == <<>>
RowHash(seq, key, item, prev) == Append(prev, <<seq, key, item>>)

Rows == [key: Keys, item: Items, prev: Hashes, hash: Hashes]

\* The hash that a row after s chains to, where g is the hash before s.
Tip(s, g) == IF s = <<>> THEN g ELSE s[Len(s)].hash

\* verify: every row chains to the one before it and hashes to what it stores.
Verifies(s) ==
  \A i \in 1..Len(s) :
    /\ s[i].prev = (IF i = 1 THEN Genesis ELSE s[i - 1].hash)
    /\ s[i].hash = RowHash(i, s[i].key, s[i].item, s[i].prev)

-----------------------------------------------------------------------------
(* append and append_batch *)

CloseTransaction == writer' = NoHandle /\ batch' = NoBatch /\ pending' = <<>> /\ head' = Genesis

\* BEGIN IMMEDIATE and the read of the head, unless the handle refuses.  A lock
\* that stays busy for 5 s makes BEGIN raise and changes nothing.
Begin(h, b) ==
  /\ writer = NoHandle
  /\ h \notin refusing
  /\ Len(events) + Len(KeysOf[b]) <= MaxRows
  /\ writer' = h
  /\ batch' = b
  /\ head' = Tip(events, Genesis)
  /\ UNCHANGED <<events, pending, refusing>>

NextKey == KeysOf[batch][Len(pending) + 1]

Unfinished == writer # NoHandle /\ Len(pending) < Len(KeysOf[batch])

\* idempotency_key is UNIQUE, over committed and uncommitted rows.
KeyFree(k) ==
  /\ \A i \in 1..Len(events) : events[i].key # k
  /\ \A i \in 1..Len(pending) : pending[i].key # k

NewRow ==
  [key |-> NextKey, item |-> "whole", prev |-> head,
   hash |-> RowHash(Len(events) + Len(pending) + 1, NextKey, "whole", head)]

\* Bug: idempotency_key is not UNIQUE.
InsertRowUnkeyed ==
  /\ Unfinished
  /\ pending' = Append(pending, NewRow)
  /\ head' = NewRow.hash
  /\ UNCHANGED <<events, writer, batch, refusing>>

\* Bug: prev_hash is not carried from one row of a batch to the next.
InsertRowOldHead ==
  /\ Unfinished
  /\ KeyFree(NextKey)
  /\ pending' = Append(pending, NewRow)
  /\ UNCHANGED <<events, head, writer, batch, refusing>>

InsertRow ==
  /\ Unfinished
  /\ KeyFree(NextKey)
  /\ pending' = Append(pending, NewRow)
  /\ head' = NewRow.hash
  /\ UNCHANGED <<events, writer, batch, refusing>>

Commit ==
  /\ writer # NoHandle
  /\ Len(pending) = Len(KeysOf[batch])
  /\ events' = events \o pending
  /\ CloseTransaction
  /\ UNCHANGED refusing

\* Bug: a batch that fails midway commits the rows it has inserted.
RollbackKeepsRows ==
  /\ writer # NoHandle
  /\ events' = events \o pending
  /\ CloseTransaction
  /\ UNCHANGED refusing

\* A duplicate key, a row that is not valid or a disk error raises: ROLLBACK.
Rollback ==
  /\ writer # NoHandle
  /\ CloseTransaction
  /\ UNCHANGED <<events, refusing>>

-----------------------------------------------------------------------------
(* verify, restarts, and the file under other hands *)

\* verify reads the committed rows and sets or clears the handle's _inconsistent.
Verify(h) ==
  /\ h # writer
  /\ refusing' = IF Verifies(events) THEN refusing \ {h} ELSE refusing \cup {h}
  /\ UNCHANGED <<events, pending, head, writer, batch>>

\* The process dies and reopens the file: _inconsistent starts FALSE.
Reopen(h) ==
  /\ h = writer \/ h \in refusing
  /\ IF h = writer THEN CloseTransaction ELSE UNCHANGED <<pending, head, writer, batch>>
  /\ refusing' = refusing \ {h}
  /\ UNCHANGED events

\* The triggers block UPDATE and DELETE; a raw connection that drops them may
\* edit a row's content, or put it back.
Edit(i, t) ==
  /\ events[i].item # t
  /\ events' = [events EXCEPT ![i] = [@ EXCEPT !.item = t]]
  /\ UNCHANGED <<pending, head, writer, batch, refusing>>

-----------------------------------------------------------------------------
Init ==
  /\ events = <<>> /\ pending = <<>> /\ head = Genesis
  /\ writer = NoHandle /\ batch = NoBatch
  /\ refusing = {}

Next ==
  \/ \E h \in Handles, b \in Batches : Begin(h, b)
  \/ InsertRow \/ Commit \/ Rollback
  \/ \E h \in Handles : Verify(h) \/ Reopen(h)
  \/ \E i \in 1..Len(events), t \in Items : Edit(i, t)

Spec == Init /\ [][Next]_vars

-----------------------------------------------------------------------------
(* What the store promises *)

\* Every variable stays in its domain; a transaction is open exactly for a writer.
TypeOK ==
  /\ events \in Seq(Rows) /\ pending \in Seq(Rows) /\ head \in Hashes
  /\ writer \in Handles \cup {NoHandle} /\ batch \in Batches \cup {NoBatch}
  /\ (writer = NoHandle <=> batch = NoBatch)
  /\ refusing \subseteq Handles

\* verify is exact: whoever appended, rolled back or died in between, on a damaged
\* chain too, the stored chain verifies if and only if no row's content is altered.
VerifyExact ==
  Verifies(events) <=> \A i \in 1..Len(events) : events[i].item = "whole"

\* A key is stored once, over all handles and batches (the UNIQUE column that
\* every idempotent handler of the desk relies on).
KeyStoredOnce ==
  \A i, j \in 1..Len(events) : events[i].key = events[j].key => i = j

\* The key and the content of each row.
LogOf(s) == [i \in 1..Len(s) |-> [key |-> s[i].key, item |-> s[i].item]]

\* The store implements the log: a batch is appended whole or not at all.
Log == INSTANCE LedgerLog WITH log <- LogOf(events)
ImplementsLog == Log!Spec
=============================================================================
