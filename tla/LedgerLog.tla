----------------------------- MODULE LedgerLog -----------------------------
(***************************************************************************)
(* What the ledger promises its writers: a log that only grows, by whole   *)
(* batches, in which a key occurs once.  Someone with access to the file   *)
(* may alter the content of a row, but not remove or reorder rows.         *)
(***************************************************************************)
EXTENDS Integers, Sequences

CONSTANTS
  Batches, Keys,
  KeysOf       \* [Batches -> Seq(Keys)]: the idempotency keys of a batch's rows

VARIABLE log   \* the rows in order: their keys and their content

Items == {"whole", "torn"}

\* The rows of batch b as its caller passed them.
RowsOf(b) == [i \in 1..Len(KeysOf[b]) |-> [key |-> KeysOf[b][i], item |-> "whole"]]

\* No key of batch b is in the log, nor twice in the batch.
Fresh(b) ==
  \A i \in 1..Len(KeysOf[b]) :
    /\ \A j \in 1..Len(log) : log[j].key # KeysOf[b][i]
    /\ \A j \in 1..Len(KeysOf[b]) : KeysOf[b][i] = KeysOf[b][j] => i = j

AppendBatch(b) ==
  /\ Fresh(b)
  /\ log' = log \o RowsOf(b)

Alter(i) ==
  \E t \in Items : log' = [log EXCEPT ![i] = [key |-> log[i].key, item |-> t]]

Init == log = <<>>

Next == (\E b \in Batches : AppendBatch(b)) \/ (\E i \in 1..Len(log) : Alter(i))

Spec == Init /\ [][Next]_log
=============================================================================
