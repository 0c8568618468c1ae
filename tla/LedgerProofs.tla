--------------------------- MODULE LedgerProofs ---------------------------
(***************************************************************************)
(* Theorems about the ledger: first LedgerStore, for every set of handles  *)
(* and every family of batches; then LedgerAccounts and LedgerReports, for *)
(* every set of mints, units and prices and any number of rows, days and   *)
(* restarts; then JournalExport, for any rows, days and broken off exports.*)
(***************************************************************************)
EXTENDS LedgerStore, LedgerReports, JournalExport, SequenceTheorems, FiniteSetTheorems, TLAPS

-----------------------------------------------------------------------------
(* The chain *)

\* Row i of s is the row that append built: it chains to the row before it, and
\* hashes its content as it was when it was appended.
RowGenuine(s, i, g, n) ==
  /\ s[i].prev = (IF i = 1 THEN g ELSE s[i - 1].hash)
  /\ s[i].hash = RowHash(n + i, s[i].key, "whole", s[i].prev)

\* The rows of s, appended after n rows of which the last hashes to g.
Genuine(s, g, n) == \A i \in 1..Len(s) : RowGenuine(s, i, g, n)

DistinctKeys(s) == \A i, j \in 1..Len(s) : s[i].key = s[j].key => i = j

\* The open transaction: its rows are those of its batch, in order, whole, with
\* keys that are fresh, chained from the committed tip up to head.
OpenRows ==
  /\ writer # NoHandle => Len(pending) <= Len(KeysOf[batch])
  /\ writer = NoHandle => pending = <<>>
  /\ \A i \in 1..Len(pending) :
       pending[i].key = KeysOf[batch][i] /\ pending[i].item = "whole"
  /\ \A i \in 1..Len(pending), j \in 1..Len(events) : events[j].key # pending[i].key
  /\ writer # NoHandle => head = Tip(pending, Tip(events, Genesis))

Chained ==
  /\ Genuine(events, Genesis, 0)
  /\ Genuine(pending, Tip(events, Genesis), Len(events))

IInv ==
  /\ TypeOK
  /\ Chained
  /\ DistinctKeys(events) /\ DistinctKeys(pending)
  /\ OpenRows

\* Rows that hash to the same value have the same content.
LEMMA HashInjective ==
  ASSUME NEW n \in Nat, NEW k \in Keys, NEW x \in Items, NEW y \in Items, NEW p \in Hashes
  PROVE  RowHash(n, k, x, p) = RowHash(n, k, y, p) <=> x = y
<1>1. <<n, k, x>> \in Nat \X Keys \X Items /\ <<n, k, y>> \in Nat \X Keys \X Items
  OBVIOUS
<1>2. RowHash(n, k, x, p) = RowHash(n, k, y, p) <=> <<n, k, x>> = <<n, k, y>>
  BY <1>1, AppendInjective DEF RowHash, Hashes
<1> QED
  BY <1>2

\* On a chain of genuine rows, verify finds exactly the altered rows.
LEMMA GenuineVerifies ==
  ASSUME NEW s \in Seq(Rows), Genuine(s, Genesis, 0)
  PROVE  Verifies(s) <=> \A i \in 1..Len(s) : s[i].item = "whole"
<1>1. ASSUME NEW i \in 1..Len(s)
      PROVE  s[i].hash = RowHash(i, s[i].key, s[i].item, s[i].prev) <=> s[i].item = "whole"
  <2>1. s[i] \in Rows
    BY ElementOfSeq
  <2>2. /\ s[i].key \in Keys /\ s[i].item \in Items /\ s[i].prev \in Hashes
        /\ "whole" \in Items /\ i \in Nat
    BY <2>1 DEF Rows, Items
  <2>3. s[i].hash = RowHash(i, s[i].key, "whole", s[i].prev)
    BY DEF Genuine, RowGenuine
  <2> QED
    BY <2>2, <2>3, HashInjective
<1>2. \A i \in 1..Len(s) : s[i].prev = (IF i = 1 THEN Genesis ELSE s[i - 1].hash)
  BY DEF Genuine, RowGenuine
<1> QED
  BY <1>1, <1>2 DEF Verifies

LEMMA TipType ==
  ASSUME NEW s \in Seq(Rows), NEW g \in Hashes
  PROVE  Tip(s, g) \in Hashes
<1>1. CASE s = <<>>
  BY <1>1 DEF Tip
<1>2. CASE s # <<>>
  <2>1. Len(s) \in 1..Len(s)
    BY <1>2, EmptySeq, LenProperties
  <2>2. s[Len(s)] \in Rows
    BY <2>1, ElementOfSeq
  <2> QED
    BY <1>2, <2>2 DEF Tip, Rows
<1> QED
  BY <1>1, <1>2

LEMMA GenesisType == Genesis \in Hashes
BY DEF Genesis, Hashes

\* A genuine continuation of a genuine chain.
LEMMA GenuineConcat ==
  ASSUME NEW s \in Seq(Rows), NEW t \in Seq(Rows), NEW g \in Hashes,
         Genuine(s, g, 0), Genuine(t, Tip(s, g), Len(s))
  PROVE  Genuine(s \o t, g, 0)
<1> DEFINE u == s \o t
<1>1. /\ u \in Seq(Rows) /\ Len(u) = Len(s) + Len(t)
      /\ \A i \in 1..(Len(s) + Len(t)) : u[i] = IF i <= Len(s) THEN s[i] ELSE t[i - Len(s)]
  BY ConcatProperties
<1>2. Len(s) \in Nat /\ Len(t) \in Nat
  BY LenProperties
<1> SUFFICES ASSUME NEW i \in 1..Len(u) PROVE RowGenuine(u, i, g, 0)
  BY DEF Genuine
<1> HIDE DEF u
<1>3. CASE i <= Len(s)
  <2>1. RowGenuine(s, i, g, 0)
    BY <1>2, <1>3 DEF Genuine
  <2>2. u[i] = s[i] /\ (i # 1 => u[i - 1] = s[i - 1])
    BY <1>1, <1>2, <1>3
  <2> QED
    BY <2>1, <2>2 DEF RowGenuine
<1>4. CASE i > Len(s)
  <2> DEFINE j == i - Len(s)
  <2>1. j \in 1..Len(t) /\ u[i] = t[j]
    BY <1>1, <1>2, <1>4
  <2>2. RowGenuine(t, j, Tip(s, g), Len(s))
    BY <2>1 DEF Genuine
  <2>3. Len(s) + j = 0 + i
    BY <1>2
  <2>4. CASE j # 1
    <3>1. i \in Nat /\ i <= Len(s) + Len(t) /\ i > Len(s) + 1
      BY <1>1, <1>2, <1>4, <2>4
    <3>2. i - 1 \in 1..(Len(s) + Len(t)) /\ ~(i - 1 <= Len(s)) /\ (i - 1) - Len(s) = j - 1
      BY <1>2, <3>1
    <3>3. u[i - 1] = t[(i - 1) - Len(s)]
      BY <1>1, <3>2
    <3>4. u[i - 1] = t[j - 1] /\ i # 1
      BY <1>2, <3>1, <3>2, <3>3
    <3> QED
      BY <2>1, <2>2, <2>3, <2>4, <3>4 DEF RowGenuine
  <2>5. CASE j = 1 /\ s # <<>>
    <3>1. Len(s) \in Nat \ {0}
      BY <2>5, EmptySeq
    <3>2. i # 1 /\ u[i - 1] = s[Len(s)] /\ Tip(s, g) = s[Len(s)].hash
      BY <1>1, <1>2, <2>5, <3>1 DEF Tip
    <3> QED
      BY <2>1, <2>2, <2>3, <2>5, <3>2 DEF RowGenuine
  <2>6. CASE j = 1 /\ s = <<>>
    <3>1. Len(s) = 0
      BY <2>6, EmptySeq
    <3>2. i = 1 /\ Tip(s, g) = g
      BY <2>6, <3>1 DEF Tip
    <3> QED
      BY <2>1, <2>2, <2>3, <2>6, <3>2 DEF RowGenuine
  <2> QED
    BY <2>4, <2>5, <2>6
<1> QED
  BY <1>1, <1>2, <1>3, <1>4

\* Appending one genuine row.
LEMMA GenuineAppend ==
  ASSUME NEW t \in Seq(Rows), NEW g \in Hashes, NEW n \in Nat, Genuine(t, g, n),
         NEW r \in Rows, r.prev = Tip(t, g),
         r.hash = RowHash(n + Len(t) + 1, r.key, "whole", r.prev)
  PROVE  Genuine(Append(t, r), g, n) /\ Tip(Append(t, r), g) = r.hash
<1> DEFINE u == Append(t, r)
<1>1. /\ u \in Seq(Rows) /\ u # <<>> /\ Len(u) = Len(t) + 1
      /\ \A i \in 1..Len(t) : u[i] = t[i]
      /\ u[Len(t) + 1] = r
  BY AppendProperties
<1>2. Len(t) \in Nat
  BY LenProperties
<1> HIDE DEF u
<1>3. Tip(u, g) = r.hash
  BY <1>1 DEF Tip
<1>4. ASSUME NEW i \in 1..Len(u) PROVE RowGenuine(u, i, g, n)
  <2>1. CASE i <= Len(t)
    <3>1. RowGenuine(t, i, g, n)
      BY <1>2, <2>1 DEF Genuine
    <3>2. u[i] = t[i] /\ (i # 1 => u[i - 1] = t[i - 1])
      BY <1>1, <1>2, <2>1
    <3> QED
      BY <3>1, <3>2 DEF RowGenuine
  <2>2. CASE i = Len(t) + 1
    <3>1. u[i] = r /\ n + i = n + Len(t) + 1
      BY <1>1, <1>2, <2>2
    <3>2. r.prev = (IF i = 1 THEN g ELSE u[i - 1].hash)
      <4>1. CASE t = <<>>
        <5>1. i = 1
          BY <2>2, <4>1, EmptySeq
        <5> QED
          BY <4>1, <5>1 DEF Tip
      <4>2. CASE t # <<>>
        <5>1. Len(t) \in 1..Len(t) /\ i # 1 /\ i - 1 = Len(t)
          BY <1>2, <2>2, <4>2, EmptySeq
        <5> QED
          BY <1>1, <4>2, <5>1 DEF Tip
      <4> QED
        BY <4>1, <4>2
    <3> QED
      BY <3>1, <3>2 DEF RowGenuine
  <2> QED
    BY <1>1, <1>2, <2>1, <2>2
<1> QED
  BY <1>3, <1>4 DEF u, Genuine

\* Rows that differ from genuine rows in their content only are genuine, and end
\* in the same hash: whoever alters a row's content does not rechain the ledger.
LEMMA GenuineEdit ==
  ASSUME NEW s \in Seq(Rows), NEW u \in Seq(Rows), Len(u) = Len(s),
         \A j \in 1..Len(s) :
           u[j].key = s[j].key /\ u[j].prev = s[j].prev /\ u[j].hash = s[j].hash,
         NEW g \in Hashes, Genuine(s, g, 0)
  PROVE  Genuine(u, g, 0) /\ Tip(u, g) = Tip(s, g)
<1>1. Len(s) \in Nat
  BY LenProperties
<1>2. Genuine(u, g, 0)
  <2> SUFFICES ASSUME NEW j \in 1..Len(s) PROVE RowGenuine(u, j, g, 0)
    BY DEF Genuine
  <2>1. RowGenuine(s, j, g, 0)
    BY DEF Genuine
  <2>2. j # 1 => u[j - 1].hash = s[j - 1].hash
    BY <1>1
  <2> QED
    BY <2>1, <2>2 DEF RowGenuine
<1>3. Tip(u, g) = Tip(s, g)
  <2>1. CASE s = <<>>
    <3>1. u = <<>>
      BY <2>1, EmptySeq
    <3> QED
      BY <2>1, <3>1
  <2>2. CASE s # <<>>
    <3>1. Len(s) \in 1..Len(s) /\ u # <<>>
      BY <2>2, <1>1, EmptySeq
    <3> QED
      BY <2>2, <3>1 DEF Tip
  <2> QED
    BY <2>1, <2>2
<1> QED
  BY <1>2, <1>3

-----------------------------------------------------------------------------
(* The invariant *)

LEMMA InitInv == Init => IInv
<1> SUFFICES ASSUME Init PROVE IInv
  OBVIOUS
<1>1. events = <<>> /\ pending = <<>> /\ writer = NoHandle /\ batch = NoBatch
      /\ refusing = {} /\ head = Genesis
  BY DEF Init
<1>2. <<>> \in Seq(Rows) /\ Len(<<>>) = 0
  BY EmptySeq
<1>3. TypeOK
  BY <1>1, <1>2, GenesisType DEF TypeOK
<1>4. 1..0 = {}
  OBVIOUS
<1> QED
  BY <1>1, <1>2, <1>3, <1>4 DEF IInv, Chained, Genuine, DistinctKeys, OpenRows

\* The open transaction has a batch, of at least one row.
LEMMA BatchOpen ==
  ASSUME TypeOK, writer # NoHandle
  PROVE  batch \in Batches /\ KeysOf[batch] \in Seq(Keys) /\ Len(KeysOf[batch]) \in Nat
<1>1. batch \in Batches
  BY DEF TypeOK
<1>2. KeysOf[batch] \in Seq(Keys)
  BY <1>1, StoreAssumption
<1> QED
  BY <1>1, <1>2, LenProperties

\* A transaction that ends without a commit leaves the committed rows.
LEMMA CloseInv ==
  ASSUME IInv, CloseTransaction, UNCHANGED events, refusing' \subseteq Handles
  PROVE  IInv'
<1>1. pending' = <<>> /\ writer' = NoHandle /\ batch' = NoBatch /\ head' = Genesis
  BY DEF CloseTransaction
<1>2. <<>> \in Seq(Rows) /\ Len(<<>>) = 0 /\ 1..0 = {}
  BY EmptySeq
<1>3. TypeOK'
  BY <1>1, <1>2, GenesisType DEF TypeOK, IInv
<1>4. Chained'
  BY <1>1, <1>2 DEF Chained, Genuine, RowGenuine, IInv
<1>5. DistinctKeys(events)' /\ DistinctKeys(pending)'
  BY <1>1, <1>2 DEF DistinctKeys, IInv
<1>6. OpenRows'
  BY <1>1, <1>2 DEF OpenRows
<1> QED
  BY <1>3, <1>4, <1>5, <1>6 DEF IInv

LEMMA BeginInv ==
  ASSUME IInv, NEW h \in Handles, NEW b \in Batches, Begin(h, b)
  PROVE  IInv'
<1>1. /\ writer = NoHandle /\ writer' = h /\ batch' = b /\ head' = Tip(events, Genesis)
      /\ events' = events /\ pending' = pending /\ refusing' = refusing
  BY DEF Begin
<1>2. pending = <<>> /\ Len(<<>>) = 0 /\ 1..0 = {}
  BY <1>1, EmptySeq DEF IInv, OpenRows
<1>3. h # NoHandle /\ b # NoBatch
  BY StoreAssumption
<1>4. events \in Seq(Rows)
  BY DEF IInv, TypeOK
<1>5. head' \in Hashes
  BY <1>1, <1>4, TipType, GenesisType
<1>6. TypeOK'
  BY <1>1, <1>3, <1>5 DEF TypeOK, IInv
<1>7. Len(KeysOf[b]) \in Nat
  BY StoreAssumption, LenProperties
<1>8. head' = Tip(pending', Tip(events', Genesis))
  BY <1>1, <1>2 DEF Tip
<1>9. OpenRows'
  BY <1>1, <1>2, <1>3, <1>7, <1>8 DEF OpenRows
<1>10. Chained' /\ DistinctKeys(events)' /\ DistinctKeys(pending)'
  BY <1>1 DEF Chained, Genuine, RowGenuine, DistinctKeys, IInv
<1> QED
  BY <1>6, <1>9, <1>10 DEF IInv

LEMMA InsertInv ==
  ASSUME IInv, InsertRow
  PROVE  IInv'
<1> DEFINE k == NextKey
           n == Len(events) + Len(pending) + 1
           g == Tip(events, Genesis)
<1>1. /\ pending' = Append(pending, NewRow) /\ head' = NewRow.hash /\ events' = events
      /\ writer' = writer /\ batch' = batch /\ refusing' = refusing
      /\ writer # NoHandle /\ Len(pending) < Len(KeysOf[batch]) /\ KeyFree(k)
  BY DEF InsertRow, Unfinished
<1>2. /\ TypeOK /\ events \in Seq(Rows) /\ pending \in Seq(Rows) /\ head \in Hashes
      /\ Len(events) \in Nat /\ Len(pending) \in Nat /\ Len(KeysOf[batch]) \in Nat
  BY <1>1, BatchOpen, LenProperties DEF IInv, TypeOK
<1>3. k \in Keys
  <2>1. KeysOf[batch] \in Seq(Keys) /\ Len(pending) + 1 \in 1..Len(KeysOf[batch])
    BY <1>1, <1>2, BatchOpen
  <2> QED
    BY <2>1, ElementOfSeq DEF NextKey
<1>4. /\ NewRow.key = k /\ NewRow.item = "whole" /\ NewRow.prev = head
      /\ NewRow.hash = RowHash(n, k, "whole", head)
  BY DEF NewRow
<1>5. RowHash(n, k, "whole", head) \in Hashes
  <2>1. <<n, k, "whole">> \in Nat \X Keys \X Items
    BY <1>2, <1>3 DEF Items
  <2> QED
    BY <1>2, <2>1, AppendProperties DEF RowHash, Hashes
<1>6. NewRow \in Rows
  BY <1>2, <1>3, <1>5 DEF NewRow, Rows, Items
<1>7. head = Tip(pending, g) /\ Genuine(pending, g, Len(events)) /\ g \in Hashes
  BY <1>1, <1>2, TipType, GenesisType DEF IInv, OpenRows, Chained
<1>8. Genuine(pending', g, Len(events)) /\ head' = Tip(pending', g)
  BY <1>1, <1>2, <1>4, <1>6, <1>7, GenuineAppend
<1>9. /\ pending' \in Seq(Rows) /\ Len(pending') = Len(pending) + 1
      /\ \A i \in 1..Len(pending) : pending'[i] = pending[i]
      /\ pending'[Len(pending) + 1] = NewRow
  BY <1>1, <1>2, <1>6, AppendProperties
<1>10. \A i \in 1..Len(pending') : i \in 1..Len(pending) \/ i = Len(pending) + 1
  BY <1>2, <1>9
<1>11. TypeOK'
  BY <1>1, <1>2, <1>4, <1>5, <1>9 DEF TypeOK
<1>12. Chained'
  BY <1>1, <1>8 DEF Chained, Genuine, RowGenuine, IInv, Tip
<1>13. DistinctKeys(events)'
  BY <1>1 DEF DistinctKeys, IInv
<1>14. DistinctKeys(pending)'
  <2>1. \A i \in 1..Len(pending) : pending[i].key # k
    BY <1>1 DEF KeyFree
  <2> SUFFICES ASSUME NEW i \in 1..Len(pending'), NEW j \in 1..Len(pending'),
                      pending'[i].key = pending'[j].key
               PROVE  i = j
    BY DEF DistinctKeys
  <2>2. CASE i \in 1..Len(pending) /\ j \in 1..Len(pending)
    BY <1>9, <2>2 DEF IInv, DistinctKeys
  <2>3. CASE i = Len(pending) + 1 /\ j \in 1..Len(pending)
    BY <1>4, <1>9, <2>1, <2>3
  <2>4. CASE i \in 1..Len(pending) /\ j = Len(pending) + 1
    BY <1>4, <1>9, <2>1, <2>4
  <2> QED
    BY <1>10, <2>2, <2>3, <2>4
<1>15. OpenRows'
  <2>1. Len(pending') <= Len(KeysOf[batch'])
    BY <1>1, <1>2, <1>9
  <2>2. \A i \in 1..Len(pending') :
          pending'[i].key = KeysOf[batch'][i] /\ pending'[i].item = "whole"
    BY <1>1, <1>4, <1>9, <1>10 DEF NextKey, IInv, OpenRows
  <2>3. \A i \in 1..Len(pending'), j \in 1..Len(events') : events'[j].key # pending'[i].key
    BY <1>1, <1>4, <1>9, <1>10 DEF IInv, OpenRows, KeyFree
  <2>4. head' = Tip(pending', Tip(events', Genesis))
    BY <1>1, <1>8
  <2> QED
    BY <1>1, <2>1, <2>2, <2>3, <2>4 DEF OpenRows
<1> QED
  BY <1>11, <1>12, <1>13, <1>14, <1>15 DEF IInv

LEMMA CommitInv ==
  ASSUME IInv, Commit
  PROVE  IInv'
<1>1. /\ events' = events \o pending /\ pending' = <<>> /\ writer' = NoHandle
      /\ batch' = NoBatch /\ head' = Genesis /\ refusing' = refusing
  BY DEF Commit, CloseTransaction
<1>2. events \in Seq(Rows) /\ pending \in Seq(Rows)
  BY DEF IInv, TypeOK
<1>3. /\ events' \in Seq(Rows) /\ Len(events') = Len(events) + Len(pending)
      /\ \A i \in 1..(Len(events) + Len(pending)) :
           events'[i] = IF i <= Len(events) THEN events[i] ELSE pending[i - Len(events)]
  BY <1>1, <1>2, ConcatProperties
<1>4. Len(events) \in Nat /\ Len(pending) \in Nat
  BY <1>2, LenProperties
<1>5. <<>> \in Seq(Rows) /\ Len(<<>>) = 0 /\ 1..0 = {}
  BY EmptySeq
<1>6. TypeOK'
  BY <1>1, <1>3, <1>5, GenesisType DEF IInv, TypeOK
<1>7. Chained'
  <2>1. Genuine(events \o pending, Genesis, 0)
    BY <1>2, GenuineConcat, GenesisType DEF IInv, Chained
  <2>2. Genuine(events', Genesis, 0)
    BY <1>1, <2>1
  <2> QED
    BY <1>1, <1>5, <2>2 DEF Chained, Genuine, RowGenuine
<1>8. DistinctKeys(events)'
  <2> SUFFICES ASSUME NEW i \in 1..Len(events'), NEW j \in 1..Len(events'),
                      events'[i].key = events'[j].key
               PROVE  i = j
    BY DEF DistinctKeys
  <2>1. CASE i <= Len(events) /\ j <= Len(events)
    <3>1. i \in 1..Len(events) /\ j \in 1..Len(events)
      BY <1>3, <1>4, <2>1
    <3>2. events[i].key = events[j].key
      BY <1>3, <2>1
    <3> QED
      BY <3>1, <3>2 DEF IInv, DistinctKeys
  <2>2. CASE i <= Len(events) /\ ~(j <= Len(events))
    <3>1. i \in 1..Len(events) /\ j - Len(events) \in 1..Len(pending)
      BY <1>3, <1>4, <2>2
    <3>2. events[i].key = pending[j - Len(events)].key
      BY <1>3, <2>2
    <3> QED
      BY <3>1, <3>2 DEF IInv, OpenRows
  <2>3. CASE ~(i <= Len(events)) /\ j <= Len(events)
    <3>1. j \in 1..Len(events) /\ i - Len(events) \in 1..Len(pending)
      BY <1>3, <1>4, <2>3
    <3>2. events[j].key = pending[i - Len(events)].key
      BY <1>3, <2>3
    <3> QED
      BY <3>1, <3>2 DEF IInv, OpenRows
  <2>4. CASE ~(i <= Len(events)) /\ ~(j <= Len(events))
    <3>1. i - Len(events) \in 1..Len(pending) /\ j - Len(events) \in 1..Len(pending)
      BY <1>3, <1>4, <2>4
    <3>2. pending[i - Len(events)].key = pending[j - Len(events)].key
      BY <1>3, <2>4
    <3>3. i - Len(events) = j - Len(events)
      BY <3>1, <3>2 DEF IInv, DistinctKeys
    <3> QED
      BY <1>3, <1>4, <3>3
  <2> QED
    BY <2>1, <2>2, <2>3, <2>4
<1>9. DistinctKeys(pending)' /\ OpenRows'
  BY <1>1, <1>5 DEF DistinctKeys, OpenRows
<1> QED
  BY <1>6, <1>7, <1>8, <1>9 DEF IInv

\* An edit replaces a row by one of the same key and hashes.
LEMMA EditRow ==
  ASSUME TypeOK, NEW i \in 1..Len(events), NEW t \in Items, Edit(i, t)
  PROVE  \E r \in Rows :
           /\ r.key = events[i].key /\ r.prev = events[i].prev
           /\ r.hash = events[i].hash /\ r.item = t
           /\ events' = [events EXCEPT ![i] = r]
<1> DEFINE r == [events[i] EXCEPT !.item = t]
<1>1. events[i] \in Rows
  BY ElementOfSeq DEF TypeOK
<1>2. /\ r \in Rows /\ r.key = events[i].key /\ r.prev = events[i].prev
      /\ r.hash = events[i].hash /\ r.item = t
  BY <1>1 DEF Rows
<1>3. events' = [events EXCEPT ![i] = r]
  BY DEF Edit
<1> HIDE DEF r
<1> QED
  BY <1>2, <1>3

LEMMA EditInv ==
  ASSUME IInv, NEW i \in 1..Len(events), NEW t \in Items, Edit(i, t)
  PROVE  IInv'
<1>1. /\ pending' = pending /\ head' = head /\ writer' = writer /\ batch' = batch
      /\ refusing' = refusing
  BY DEF Edit
<1>2. events \in Seq(Rows) /\ Genuine(events, Genesis, 0)
  BY DEF IInv, TypeOK, Chained
<1>3. /\ events' \in Seq(Rows) /\ Len(events') = Len(events)
      /\ \A j \in 1..Len(events) : events'[j].key = events[j].key
      /\ Genuine(events', Genesis, 0) /\ Tip(events', Genesis) = Tip(events, Genesis)
  <2>1. PICK r \in Rows :
          /\ r.key = events[i].key /\ r.prev = events[i].prev /\ r.hash = events[i].hash
          /\ events' = [events EXCEPT ![i] = r]
    BY EditRow DEF IInv
  <2>2. /\ events' \in Seq(Rows) /\ Len(events') = Len(events)
        /\ \A j \in 1..Len(events) : events'[j] = IF j = i THEN r ELSE events[j]
    BY <1>2, <2>1, ExceptSeq
  <2>3. \A j \in 1..Len(events) :
          /\ events'[j].key = events[j].key /\ events'[j].prev = events[j].prev
          /\ events'[j].hash = events[j].hash
    BY <2>1, <2>2
  <2> QED
    BY <1>2, <2>2, <2>3, GenuineEdit, GenesisType
<1>4. TypeOK'
  BY <1>1, <1>3 DEF IInv, TypeOK
<1>5. Genuine(pending', Tip(events', Genesis), Len(events'))
  BY <1>1, <1>3 DEF IInv, Chained
<1>6. Chained'
  BY <1>3, <1>5 DEF Chained, Genuine, RowGenuine, Tip
<1>7. DistinctKeys(events)' /\ DistinctKeys(pending)'
  BY <1>1, <1>3 DEF IInv, DistinctKeys
<1>8. writer # NoHandle => head' = Tip(pending', Tip(events', Genesis))
  BY <1>1, <1>3 DEF IInv, OpenRows
<1>9. OpenRows'
  BY <1>1, <1>3, <1>8 DEF IInv, OpenRows
<1> QED
  BY <1>4, <1>6, <1>7, <1>9 DEF IInv

\* A step that leaves the rows and the transaction as they are.
LEMMA QuietInv ==
  ASSUME IInv, UNCHANGED <<events, pending, head, writer, batch>>, refusing' \subseteq Handles
  PROVE  IInv'
<1>1. TypeOK'
  BY DEF IInv, TypeOK
<1>2. Chained' /\ DistinctKeys(events)' /\ DistinctKeys(pending)'
  BY DEF IInv, Chained, Genuine, RowGenuine, DistinctKeys, Tip
<1>3. OpenRows'
  BY DEF IInv, OpenRows, Tip
<1> QED
  BY <1>1, <1>2, <1>3 DEF IInv

LEMMA NextInv ==
  ASSUME IInv, [Next]_vars
  PROVE  IInv'
<1>0. refusing \subseteq Handles
  BY DEF IInv, TypeOK
<1>1. ASSUME NEW h \in Handles, Verify(h) PROVE IInv'
  BY <1>0, <1>1, QuietInv DEF Verify
<1>2. ASSUME NEW h \in Handles, Reopen(h) PROVE IInv'
  <2>1. refusing' \subseteq Handles /\ events' = events
    BY <1>0, <1>2 DEF Reopen
  <2>2. CASE h = writer
    BY <1>2, <2>1, <2>2, CloseInv DEF Reopen
  <2>3. CASE h # writer
    BY <1>2, <2>1, <2>3, QuietInv DEF Reopen
  <2> QED
    BY <2>2, <2>3
<1>3. CASE Rollback
  BY <1>0, <1>3, CloseInv DEF Rollback
<1>4. CASE UNCHANGED vars
  BY <1>0, <1>4, QuietInv DEF vars
<1> QED
  BY <1>1, <1>2, <1>3, <1>4, BeginInv, InsertInv, CommitInv, EditInv DEF Next

\* The store's inductive invariant.
THEOREM Invariance == Spec => []IInv
BY InitInv, NextInv, PTL DEF Spec

\* Every reachable state of the store is well typed.
THEOREM StoreTypeCorrect == Spec => []TypeOK
<1>1. IInv => TypeOK
  BY DEF IInv
<1> QED
  BY <1>1, Invariance, PTL

\* verify reports a chain if and only if some row's content was altered, whatever
\* the handles appended, rolled back or lost in a crash before and after.
THEOREM VerifyIsExact == Spec => []VerifyExact
<1>1. IInv => VerifyExact
  BY GenuineVerifies DEF IInv, TypeOK, Chained, VerifyExact
<1> QED
  BY <1>1, Invariance, PTL

\* No idempotency key is ever stored twice.
THEOREM KeysStoredOnce == Spec => []KeyStoredOnce
<1>1. IInv => KeyStoredOnce
  BY DEF IInv, DistinctKeys, KeyStoredOnce
<1> QED
  BY <1>1, Invariance, PTL

-----------------------------------------------------------------------------
(* The store implements the log *)

\* A commit appends the rows of its batch, which were fresh.
LEMMA CommitAppends ==
  ASSUME IInv, Commit
  PROVE  Log!AppendBatch(batch) /\ batch \in Batches
<1> DEFINE ks == KeysOf[batch]
           l == LogOf(events)
           R == [key: Keys, item: Items]
<1>1. events' = events \o pending /\ writer # NoHandle /\ Len(pending) = Len(ks)
  BY DEF Commit
<1>2. /\ events \in Seq(Rows) /\ pending \in Seq(Rows)
      /\ Len(events) \in Nat /\ Len(pending) \in Nat
  BY LenProperties DEF IInv, TypeOK
<1>3. batch \in Batches
  BY <1>1, BatchOpen DEF IInv
<1>4. \A i \in 1..Len(ks) : pending[i].key = ks[i] /\ pending[i].item = "whole"
  BY <1>1 DEF IInv, OpenRows
<1>5. Len(l) = Len(events) /\ \A j \in 1..Len(events) : l[j] = [key |-> events[j].key, item |-> events[j].item] /\ l[j].key = events[j].key
  BY <1>2 DEF LogOf
<1>6. l \in Seq(R)
  <2>1. \A i \in 1..Len(events) : events[i] \in Rows
    BY <1>2, ElementOfSeq
  <2>2. \A i \in 1..Len(events) : [key |-> events[i].key, item |-> events[i].item] \in R
    BY <2>1 DEF Rows, R
  <2> QED
    BY <1>2, <2>2 DEF LogOf
<1> HIDE DEF l, R
<1>7. Log!Fresh(batch)
  <2>1. \A i \in 1..Len(ks) : \A j \in 1..Len(l) : l[j].key # ks[i]
    BY <1>1, <1>4, <1>5 DEF IInv, OpenRows
  <2>2. \A i, j \in 1..Len(ks) : ks[i] = ks[j] => i = j
    BY <1>1, <1>4 DEF IInv, DistinctKeys
  <2> QED
    BY <2>1, <2>2 DEF Log!Fresh, l
<1>8. LogOf(events') = l \o Log!RowsOf(batch)
  <2> DEFINE r == Log!RowsOf(batch)
  <2>1. /\ Len(events') = Len(events) + Len(pending)
        /\ \A i \in 1..(Len(events) + Len(pending)) :
             events'[i] = IF i <= Len(events) THEN events[i] ELSE pending[i - Len(events)]
    BY <1>1, <1>2, ConcatProperties
  <2>2. /\ \A i \in 1..Len(events) : events[i] \in Rows
        /\ \A i \in 1..Len(pending) : pending[i] \in Rows
    BY <1>2, ElementOfSeq
  <2>3. /\ r \in Seq(R) /\ Len(r) = Len(pending)
        /\ \A i \in 1..Len(pending) : r[i] = [key |-> pending[i].key, item |-> pending[i].item]
    <3>1. r = [i \in 1..Len(pending) |-> [key |-> pending[i].key, item |-> pending[i].item]]
      BY <1>1, <1>4 DEF Log!RowsOf
    <3>2. \A i \in 1..Len(pending) : [key |-> pending[i].key, item |-> pending[i].item] \in R
      BY <2>2 DEF Rows, R
    <3> QED
      BY <1>2, <3>1, <3>2
  <2>4. Len(l) = Len(events)
    BY <1>5
  <2> HIDE DEF r
  <2>5. /\ l \o r \in Seq(R) /\ Len(l \o r) = Len(events) + Len(pending)
        /\ \A i \in 1..(Len(events) + Len(pending)) :
             (l \o r)[i] = IF i <= Len(events) THEN l[i] ELSE r[i - Len(events)]
    <3>1. /\ l \o r \in Seq(R) /\ Len(l \o r) = Len(l) + Len(r)
          /\ \A i \in 1..(Len(l) + Len(r)) :
               (l \o r)[i] = IF i <= Len(l) THEN l[i] ELSE r[i - Len(l)]
      <4>1. r \in Seq(R)
        BY <2>3
      <4> QED
        BY <1>6, <4>1, ConcatProperties
    <3> QED
      BY <2>3, <2>4, <3>1
  <2>6. \A i \in 1..(Len(events) + Len(pending)) :
          (l \o r)[i] = [key |-> events'[i].key, item |-> events'[i].item]
    <3> SUFFICES ASSUME NEW i \in 1..(Len(events) + Len(pending))
                 PROVE  (l \o r)[i] = [key |-> events'[i].key, item |-> events'[i].item]
      OBVIOUS
    <3>1. CASE i <= Len(events)
      <4>1. i \in 1..Len(events)
        BY <1>2, <3>1
      <4> QED
        BY <1>5, <2>1, <2>5, <3>1, <4>1
    <3>2. CASE ~(i <= Len(events))
      <4>1. i - Len(events) \in 1..Len(pending)
        BY <1>2, <3>2
      <4> QED
        BY <2>1, <2>3, <2>5, <3>2, <4>1
    <3> QED
      BY <3>1, <3>2
  <2>7. l \o r = [i \in 1..(Len(events) + Len(pending)) |-> (l \o r)[i]]
    BY <2>5, LenProperties
  <2>8. LogOf(events') = [i \in 1..(Len(events) + Len(pending)) |->
                            [key |-> events'[i].key, item |-> events'[i].item]]
    BY <2>1 DEF LogOf
  <2>9. LogOf(events') = l \o r
    BY <2>6, <2>7, <2>8
  <2> QED
    BY <2>9 DEF r
<1> QED
  BY <1>3, <1>7, <1>8 DEF Log!AppendBatch, LogOf, l

\* An edit alters one row of the log.
LEMMA EditAlters ==
  ASSUME IInv, NEW i \in 1..Len(events), NEW t \in Items, Edit(i, t)
  PROVE  Log!Alter(i) /\ i \in 1..Len(LogOf(events))
<1> DEFINE l == LogOf(events)
           u == [l EXCEPT ![i] = [key |-> l[i].key, item |-> t]]
<1>1. events \in Seq(Rows) /\ Len(events) \in Nat
  BY LenProperties DEF IInv, TypeOK
<1>2. \A j \in 1..Len(events) : events[j] \in Rows
  BY <1>1, ElementOfSeq
<1>3. PICK r \in Rows : /\ r.key = events[i].key /\ r.item = t
                       /\ events' = [events EXCEPT ![i] = r]
  BY EditRow DEF IInv
<1>4. /\ Len(events') = Len(events)
      /\ \A j \in 1..Len(events) : events'[j] = IF j = i THEN r ELSE events[j]
  BY <1>1, <1>3, ExceptSeq
<1>7. Len(l) = Len(events)
  BY <1>1 DEF LogOf
<1>8. LogOf(events') = u
  BY <1>3, <1>4 DEF LogOf
<1>9. LogOf(events)' = u /\ t \in Log!Items
  BY <1>8 DEF LogOf, Items, Log!Items
<1> QED
  BY <1>7, <1>9 DEF Log!Alter

\* Batches are appended whole or not at all, in one order, with fresh keys: the
\* store, with its transactions, crashes and handles, implements the log.
THEOREM StoreImplementsLog == Spec => ImplementsLog
<1>1. Init => Log!Init
  <2> SUFFICES ASSUME Init PROVE LogOf(events) = <<>>
    BY DEF Log!Init
  <2>1. events = <<>> /\ Len(<<>>) = 0 /\ 1..0 = {}
    BY EmptySeq DEF Init
  <2> QED
    BY <2>1 DEF LogOf
<1>2. ASSUME IInv, [Next]_vars
      PROVE  [Log!Next]_(LogOf(events))
  <2>1. ASSUME UNCHANGED events PROVE UNCHANGED LogOf(events)
    BY <2>1 DEF LogOf
  <2>2. CASE Commit
    BY <1>2, <2>2, CommitAppends DEF Log!Next
  <2>3. ASSUME NEW i \in 1..Len(events), NEW t \in Items, Edit(i, t)
        PROVE  Log!Next
    BY <1>2, <2>3, EditAlters DEF Log!Next
  <2>4. CASE InsertRow \/ Rollback \/ UNCHANGED vars
    BY <2>1, <2>4 DEF InsertRow, Rollback, vars
  <2>5. ASSUME NEW h \in Handles, Verify(h) \/ Reopen(h) \/ \E b \in Batches : Begin(h, b)
        PROVE  UNCHANGED LogOf(events)
    BY <2>1, <2>5 DEF Verify, Reopen, Begin
  <2> QED
    BY <1>2, <2>2, <2>3, <2>4, <2>5 DEF Next
<1> QED
  BY <1>1, <1>2, Invariance, PTL DEF Spec, ImplementsLog, Log!Spec

-----------------------------------------------------------------------------
(* The accounts: folds and sums *)

Plus(x, y) == x + y
AnyOf(S) == CHOOSE x \in S : TRUE
ReduceInto(r, b) == Reduce(b, r)

SumFold == INSTANCE FoldFacts WITH Op <- Plus, Choose <- AnyOf
RowFold == INSTANCE FoldFacts WITH Op <- ReduceInto, Choose <- Max

\* The instances' finite sets are the finite sets.
LEMMA FiniteIs ==
  \A S : (SumFold!IsFiniteSet(S) <=> IsFiniteSet(S)) /\ (RowFold!IsFiniteSet(S) <=> IsFiniteSet(S))
BY DEF IsFiniteSet, SumFold!IsFiniteSet, RowFold!IsFiniteSet

\* The positions of a sequence are finitely many.
LEMMA PlacesFinite == \A n \in Nat : IsFiniteSet(1 .. n)
<1> SUFFICES ASSUME NEW n \in Nat PROVE IsFiniteSet(1 .. n)
  OBVIOUS
<1>1. 1 \in Int /\ n \in Int
  OBVIOUS
<1> QED BY <1>1, FS_Interval

\* A family of subsets of a finite set has a minimal member.
LEMMA MinimalIn ==
  ASSUME NEW S, IsFiniteSet(S), NEW Family \in SUBSET (SUBSET S), Family # {}
  PROVE  \E m \in Family : \A s \in Family : s \subseteq m => s = m
<1>1. SumFold!IsFiniteSet(S)
  BY FiniteIs
<1> QED BY <1>1, SumFold!MinimalSet

\* SumFold adds integers, and chooses an element of every set that has one.
LEMMA SumsAdd == SumFold!Adds /\ \A T : SumFold!Chooses(T)
BY DEF SumFold!Adds, SumFold!Chooses, Plus, AnyOf

\* A finite set of integers that is not empty has a greatest element.
LEMMA GreatestOf ==
  ASSUME NEW S, IsFiniteSet(S), S # {}, \A x \in S : x \in Int
  PROVE  \E x \in S : \A y \in S : x >= y
<1> DEFINE Above(x) == {y \in S : y > x}
           Family == {Above(x) : x \in S}
<1>1. Family \in SUBSET (SUBSET S)
  OBVIOUS
<1>2. Family # {}
  OBVIOUS
<1> HIDE DEF Family
<1>3. PICK T \in Family : \A U \in Family : U \subseteq T => U = T
  BY <1>1, <1>2, MinimalIn
<1>4. PICK x \in S : T = Above(x)
  BY DEF Family
<1>5. ASSUME NEW y \in S, y > x PROVE FALSE
  <2>1. Above(y) \in Family
    BY DEF Family
  <2>2. \A z \in S : z > y => z > x
    BY <1>5
  <2>3. y \in T /\ y \notin Above(y)
    BY <1>4, <1>5
  <2> QED BY <1>3, <1>4, <2>1, <2>2, <2>3
<1> QED BY <1>5

\* The last of 1 .. n is n, and a finite set of integers has a greatest.
LEMMA RowsTakeLast == RowFold!TakesLast /\ \A n \in Nat : RowFold!Chooses(1 .. n)
<1>1. RowFold!TakesLast
  <2> SUFFICES ASSUME NEW n \in Nat \ {0} PROVE Max(1 .. n) = n
    BY DEF RowFold!TakesLast
  <2>1. n \in 1 .. n /\ \A y \in 1 .. n : n >= y
    OBVIOUS
  <2>2. \A x \in 1 .. n : (\A y \in 1 .. n : x >= y) => x = n
    OBVIOUS
  <2> QED BY <2>1, <2>2 DEF Max
<1>2. ASSUME NEW n \in Nat PROVE RowFold!Chooses(1 .. n)
  <2> SUFFICES ASSUME NEW S \in SUBSET (1 .. n), S # {} PROVE Max(S) \in S
    BY DEF RowFold!Chooses
  <2>1. IsFiniteSet(S) /\ S \in SUBSET Int
    <3>1. IsFiniteSet(1 .. n)
      BY PlacesFinite
    <3>2. IsFiniteSet(S)
      BY <3>1, FS_Subset
    <3> QED BY <3>2
  <2>2. \E x \in S : \A y \in S : x >= y
    BY <2>1, GreatestOf
  <2> QED BY <2>2 DEF Max
<1> QED BY <1>1, <1>2

\* The reducer's fold over the rows is an iteration of reduce.
LEMMA FoldIs ==
  ASSUME NEW b, NEW rs
  PROVE  Fold(b, rs) = RowFold!Iterated(b, rs, DOMAIN rs)
BY DEF Fold, FoldLeft, MapThenFoldSet, RowFold!Iterated, RowFold!IsIter, ReduceInto

\* The reader's fold of one more row is the reducer's next step.
LEMMA FoldNext ==
  ASSUME NEW R, NEW rs \in Seq(R), NEW b, NEW r
  PROVE  /\ Fold(b, <<>>) = b
         /\ Fold(b, Append(rs, r)) = Reduce(Fold(b, rs), r)
<1>1. Fold(b, <<>>) = b
  <2>1. DOMAIN << >> = {}
    OBVIOUS
  <2> QED BY <2>1, FoldIs, RowFold!IteratedEmpty
<1>2. Fold(b, Append(rs, r)) = Reduce(Fold(b, rs), r)
  <2> DEFINE n == Len(rs)
             more == Append(rs, r)
  <2>1. /\ n \in Nat /\ DOMAIN rs = 1 .. n /\ DOMAIN more = 1 .. n + 1
        /\ more[n + 1] = r /\ \A i \in 1 .. n : more[i] = rs[i]
    OBVIOUS
  <2> HIDE DEF n, more
  <2>2. RowFold!Chooses(1 .. n + 1) /\ RowFold!Chooses(1 .. n) /\ RowFold!TakesLast /\ IsFiniteSet(1 .. n)
    BY <2>1, RowsTakeLast, PlacesFinite
  <2>6. RowFold!IsFiniteSet(1 .. n)
    BY <2>2, FiniteIs
  <2>3. RowFold!Iterated(b, more, 1 .. n + 1)
          = ReduceInto(more[n + 1], RowFold!Iterated(b, more, 1 .. n))
    BY <2>1, <2>2, RowFold!IteratedNext
  <2>4. RowFold!Iterated(b, more, 1 .. n) = RowFold!Iterated(b, rs, 1 .. n)
    BY <2>1, <2>2, <2>6, RowFold!IteratedOfEqual
  <2>5. Fold(b, more) = RowFold!Iterated(b, more, 1 .. n + 1)
        /\ Fold(b, rs) = RowFold!Iterated(b, rs, 1 .. n)
    BY <2>1, FoldIs
  <2> QED BY <2>1, <2>3, <2>4, <2>5 DEF ReduceInto, more
<1> QED BY <1>1, <1>2

\* One row is reduced once.
LEMMA FoldOnce == ASSUME NEW b, NEW r PROVE Fold(b, <<r>>) = Reduce(b, r)
<1>1. <<>> \in Seq({r}) /\ Append(<<>>, r) = <<r>>
  OBVIOUS
<1>2. Fold(b, Append(<<>>, r)) = Reduce(Fold(b, <<>>), r) /\ Fold(b, <<>>) = b
  BY <1>1, FoldNext
<1> QED BY <1>1, <1>2

\* Two rows are reduced in their order.
LEMMA FoldTwice ==
  ASSUME NEW b, NEW r, NEW s
  PROVE  Fold(b, <<r, s>>) = Reduce(Reduce(b, r), s)
<1> DEFINE rs == <<r, s>>
<1>1. rs \in Seq({r, s}) /\ DOMAIN rs = 1 .. 2 /\ rs[1] = r /\ rs[2] = s
  OBVIOUS
<1>2. Append(<<>>, r) = <<r>> /\ <<>> \in Seq({r, s}) /\ <<r>> \in Seq({r, s})
  OBVIOUS
<1>3. Append(<<r>>, s) \in Seq({r, s}) /\ Len(Append(<<r>>, s)) = 2 /\ Len(rs) = 2
      /\ \A i \in 1 .. 2 : Append(<<r>>, s)[i] = rs[i]
  BY <1>1, <1>2
<1>4. Append(<<r>>, s) = rs
  BY <1>1, <1>3, SeqEqual
<1>5. Fold(b, Append(<<r>>, s)) = Reduce(Fold(b, <<r>>), s)
  BY <1>2, FoldNext
<1> QED BY <1>4, <1>5, FoldOnce

-----------------------------------------------------------------------------
(* The accounts: types and sums over rows *)

Positions == [units : Nat, cost : Nat, mark : Nat, marked : BOOLEAN]
Books == [cash : Int, peak : Int, dayStart : Int, realized : Int, trades : Nat, fees : Nat,
          pos : [Mints -> Positions]]

Row == [type : {"BuyFill", "SellFill"}, mint : Mints, units : Nat, cash : Int]
       \cup [type : {"PositionOpened"}, mint : Mints, units : Nat, cost : Nat]
       \cup [type : {"PositionClosed"}, mint : Mints, realized : Int]
       \cup [type : {"OrderRejected"}, fees : Nat]
       \cup [type : {"MarkToMarket"}, marks : UNION {[S -> Nat] : S \in SUBSET Mints}, equity : Int]
       \cup [type : {"DailyRollover"}, day : Nat, dayStart : Int]

\* What a row of a type adds to the sum of a column; units are a mint's.
Entry(r, column, m) ==
  CASE column = "fees" -> r.fees
    [] column = "cash" -> r.cash
    [] column = "units" -> IF r.mint = m THEN r.units ELSE 0

Column(rs, column, m) == [i \in DOMAIN rs |-> Entry(rs[i], column, m)]
Summed(rs, type, column, m) ==
  SumFold!Total(Column(rs, column, m), {i \in DOMAIN rs : rs[i].type = type})

Columns(type) == CASE type \in {"BuyFill", "SellFill"} -> {"cash", "units"}
                   [] type = "OrderRejected" -> {"fees"}

\* What a row of this kind enters in one of its columns is a whole number.
LEMMA EntryInt ==
  ASSUME NEW type \in {"BuyFill", "SellFill", "OrderRejected"}, NEW column \in Columns(type),
         NEW m, NEW r \in Row, r.type = type
  PROVE  Entry(r, column, m) \in Int
<1>1. CASE type \in {"BuyFill", "SellFill"}
  <2>1. r.cash \in Int /\ r.units \in Nat
    BY <1>1 DEF Row
  <2>2. column \in {"cash", "units"}
    BY <1>1 DEF Columns
  <2> QED BY <2>1, <2>2 DEF Entry
<1>2. CASE type = "OrderRejected"
  <2>1. r.fees \in Nat
    BY <1>2 DEF Row
  <2>2. column = "fees"
    BY <1>2 DEF Columns
  <2> QED BY <2>1, <2>2 DEF Entry
<1> QED BY <1>1, <1>2

\* A row of the kind adds its entry to the sum; another row leaves it.
LEMMA SummedNext ==
  ASSUME NEW rs \in Seq(Row), NEW r \in Row,
         NEW type \in {"BuyFill", "SellFill", "OrderRejected"}, NEW column \in Columns(type), NEW m
  PROVE  /\ Summed(rs, type, column, m) \in Int
         /\ Summed(Append(rs, r), type, column, m)
              = Summed(rs, type, column, m) + (IF r.type = type THEN Entry(r, column, m) ELSE 0)
<1> DEFINE n == Len(rs)
           more == Append(rs, r)
           F == Column(rs, column, m)
           G == Column(more, column, m)
           T == {i \in DOMAIN rs : rs[i].type = type}
           U == {i \in DOMAIN more : more[i].type = type}
<1>1. /\ n \in Nat /\ DOMAIN rs = 1 .. n /\ DOMAIN more = 1 .. n + 1
      /\ more[n + 1] = r /\ \A i \in 1 .. n : more[i] = rs[i]
      /\ \A i \in 1 .. n : rs[i] \in Row
  OBVIOUS
<1> HIDE DEF n, more
<1>2. IsFiniteSet(T) /\ SumFold!IsFiniteSet(T) /\ T \subseteq 1 .. n /\ n + 1 \notin T
  <2>1. T \in SUBSET (1 .. n)
    BY <1>1
  <2>2. IsFiniteSet(1 .. n)
    BY <1>1, PlacesFinite
  <2> HIDE DEF T
  <2>3. IsFiniteSet(T) /\ SumFold!IsFiniteSet(T)
    BY <2>1, <2>2, FS_Subset, FiniteIs
  <2> QED BY <1>1, <2>1, <2>3
<1>3. /\ \A i \in T : F[i] \in Int /\ G[i] = F[i]
      /\ r.type = type => G[n + 1] = Entry(r, column, m) /\ G[n + 1] \in Int
  <2>1. \A i \in T : F[i] = Entry(rs[i], column, m) /\ G[i] = Entry(rs[i], column, m)
    BY <1>1 DEF Column
  <2>2. \A i \in T : Entry(rs[i], column, m) \in Int
    BY <1>1, EntryInt
  <2>3. G[n + 1] = Entry(r, column, m)
    BY <1>1 DEF Column
  <2>4. r.type = type => Entry(r, column, m) \in Int
    BY EntryInt
  <2> QED BY <2>1, <2>2, <2>3, <2>4
<1>4. U = IF r.type = type THEN T \cup {n + 1} ELSE T
  BY <1>1
<1> HIDE DEF T, U, F, G
<1>5. SumFold!Total(F, T) \in Int /\ SumFold!Total(G, T) = SumFold!Total(F, T)
  <2>1. SumFold!Total(F, T) \in Int
    BY <1>2, <1>3, SumsAdd, SumFold!TotalInt
  <2>2. SumFold!Iterated(0, G, T) = SumFold!Iterated(0, F, T)
    BY <1>2, <1>3, SumsAdd, SumFold!IteratedOfEqual
  <2> QED BY <2>1, <2>2 DEF SumFold!Total
<1>6. CASE r.type = type
  <2>1. \A i \in T \cup {n + 1} : G[i] \in Int
    BY <1>3, <1>6
  <2>2. SumFold!Total(G, T \cup {n + 1}) = SumFold!Total(G, T) + G[n + 1]
    BY <1>2, <2>1, SumsAdd, SumFold!TotalAdd
  <2> QED BY <1>3, <1>4, <1>5, <1>6, <2>2 DEF Summed, T, U, F, G, more
<1>7. CASE r.type # type
  <2>1. Summed(more, type, column, m) = SumFold!Total(G, T)
    BY <1>4, <1>7 DEF Summed, U, G
  <2>2. Summed(rs, type, column, m) = SumFold!Total(F, T)
    BY DEF Summed, T, F
  <2> QED BY <1>5, <1>7, <2>1, <2>2 DEF more
<1> QED BY <1>6, <1>7

\* The rows of a kind are finitely many.
LEMMA RowsFinite ==
  ASSUME log \in Seq(Row), NEW type
  PROVE  /\ RowsOf(type) \subseteq DOMAIN log
         /\ IsFiniteSet(RowsOf(type)) /\ SumFold!IsFiniteSet(RowsOf(type))
<1>1. DOMAIN log = 1 .. Len(log) /\ Len(log) \in Nat
  OBVIOUS
<1>2. IsFiniteSet(DOMAIN log) /\ RowsOf(type) \in SUBSET (DOMAIN log)
  BY <1>1, PlacesFinite DEF RowsOf
<1>3. IsFiniteSet(RowsOf(type))
  BY <1>2, FS_Subset
<1> QED BY <1>2, <1>3, FiniteIs

\* The sums the properties speak of, each over the rows of its type.
LEMMA FeesSum ==
  ASSUME log \in Seq(Row), NEW m
  PROVE  SumOf(LAMBDA r : r.fees, "OrderRejected") = Summed(log, "OrderRejected", "fees", m)
<1> DEFINE T == RowsOf("OrderRejected")
           F == [i \in T |-> log[i].fees]
           G == Column(log, "fees", m)
<1>1. SumOf(LAMBDA r : r.fees, "OrderRejected") = SumFold!Total(F, T)
  BY DEF SumOf, MapThenSumSet, MapThenFoldSet, SumFold!Total, SumFold!Iterated, SumFold!IsIter,
         Plus, AnyOf
<1>2. \A i \in T : F[i] = G[i]
  BY RowsFinite DEF Column, Entry
<1>3. Summed(log, "OrderRejected", "fees", m) = SumFold!Total(G, T)
  BY DEF Summed, RowsOf
<1> HIDE DEF T, F, G
<1>4. SumFold!Iterated(0, F, T) = SumFold!Iterated(0, G, T)
  BY <1>2, RowsFinite, SumsAdd, SumFold!IteratedOfEqual DEF T
<1> QED BY <1>1, <1>3, <1>4 DEF SumFold!Total

\* The sum of a kind's cash, taken as the column is.
LEMMA CashSum ==
  ASSUME log \in Seq(Row), NEW m, NEW type
  PROVE  SumOf(LAMBDA r : r.cash, type) = Summed(log, type, "cash", m)
<1> DEFINE T == RowsOf(type)
           F == [i \in T |-> log[i].cash]
           G == Column(log, "cash", m)
<1>1. SumOf(LAMBDA r : r.cash, type) = SumFold!Total(F, T)
  BY DEF SumOf, MapThenSumSet, MapThenFoldSet, SumFold!Total, SumFold!Iterated, SumFold!IsIter,
         Plus, AnyOf
<1>2. \A i \in T : F[i] = G[i]
  BY RowsFinite DEF Column, Entry
<1>3. Summed(log, type, "cash", m) = SumFold!Total(G, T)
  BY DEF Summed, RowsOf
<1> HIDE DEF T, F, G
<1>4. SumFold!Iterated(0, F, T) = SumFold!Iterated(0, G, T)
  BY <1>2, RowsFinite, SumsAdd, SumFold!IteratedOfEqual DEF T
<1> QED BY <1>1, <1>3, <1>4 DEF SumFold!Total

\* The sum of a kind's units of one mint, taken as the column is.
LEMMA UnitsSum ==
  ASSUME log \in Seq(Row), NEW m, NEW type
  PROVE  SumOf(LAMBDA r : IF r.mint = m THEN r.units ELSE 0, type) = Summed(log, type, "units", m)
<1> DEFINE T == RowsOf(type)
           F == [i \in T |-> IF log[i].mint = m THEN log[i].units ELSE 0]
           G == Column(log, "units", m)
<1>1. SumOf(LAMBDA r : IF r.mint = m THEN r.units ELSE 0, type) = SumFold!Total(F, T)
  BY DEF SumOf, MapThenSumSet, MapThenFoldSet, SumFold!Total, SumFold!Iterated, SumFold!IsIter,
         Plus, AnyOf
<1>2. \A i \in T : F[i] = G[i]
  BY RowsFinite DEF Column, Entry
<1>3. Summed(log, type, "units", m) = SumFold!Total(G, T)
  BY DEF Summed, RowsOf
<1> HIDE DEF T, F, G
<1>4. SumFold!Iterated(0, F, T) = SumFold!Iterated(0, G, T)
  BY <1>2, RowsFinite, SumsAdd, SumFold!IteratedOfEqual DEF T
<1> QED BY <1>1, <1>3, <1>4 DEF SumFold!Total

\* The worth of a book's positions, and their cost.
LEMMA WorthSum ==
  ASSUME NEW pos
  PROVE  MapThenSumSet(LAMBDA m : PositionValue(pos[m]), Held(pos))
           = SumFold!Total([m \in Held(pos) |-> PositionValue(pos[m])], Held(pos))
BY DEF MapThenSumSet, MapThenFoldSet, SumFold!Total, SumFold!Iterated, SumFold!IsIter, Plus, AnyOf

Costs(pos) == SumFold!Total([m \in Mints |-> pos[m].cost], Mints)

\* The sum of the open costs, over the mints.
LEMMA CostSum ==
  ASSUME NEW pos
  PROVE  MapThenSumSet(LAMBDA m : pos[m].cost, Mints) = Costs(pos)
BY DEF MapThenSumSet, MapThenFoldSet, Costs, SumFold!Total, SumFold!Iterated, SumFold!IsIter,
       Plus, AnyOf

-----------------------------------------------------------------------------
(* The accounts: what a row does to a book *)

\* The equity of a book is a whole number.
LEMMA EquityInt ==
  ASSUME NEW b, b.cash \in Int, b.pos \in [Mints -> Positions]
  PROVE  Equity(b) \in Int
<1> DEFINE H == Held(b.pos)
           F == [m \in H |-> PositionValue(b.pos[m])]
<1>1. IsFiniteSet(H) /\ SumFold!IsFiniteSet(H)
  <2>1. H \in SUBSET Mints
    BY DEF Held
  <2>2. IsFiniteSet(H)
    BY <2>1, AccountsAssumption, FS_Subset
  <2> QED BY <2>2, FiniteIs
<1>2. \A m \in H : F[m] \in Int
  BY DEF Held, Positions, PositionValue
<1>3. Equity(b) = b.cash + SumFold!Total(F, H)
  BY WorthSum DEF Equity
<1> HIDE DEF H, F
<1>4. SumFold!Total(F, H) \in Int
  BY <1>1, <1>2, SumsAdd, SumFold!TotalInt
<1> QED BY <1>3, <1>4

\* All that a book's rows must keep but its peak.
Alike(b, c) ==
  /\ c.cash = b.cash /\ c.pos = b.pos /\ c.realized = b.realized
  /\ c.dayStart = b.dayStart /\ c.trades = b.trades /\ c.fees = b.fees

\* _track_peak moves the peak and nothing else.
LEMMA Tracked ==
  ASSUME NEW b \in Books
  PROVE  TrackPeak(b) \in Books /\ Alike(b, TrackPeak(b))
<1>1. Equity(b) \in Int
  BY EquityInt DEF Books
<1> DEFINE p == Larger(b.peak, Equity(b))
<1>2. p \in Int
  BY <1>1 DEF Larger, Books
<1>3. TrackPeak(b) = [b EXCEPT !.peak = p]
  BY DEF TrackPeak
<1> HIDE DEF p
<1>4. [b EXCEPT !.peak = p] \in Books
  BY <1>2 DEF Books
<1> QED BY <1>3, <1>4 DEF Alike, Books

Flats(pos) == \A m \in Mints : pos[m].units = 0 => pos[m] = Flat

\* A closed position is one.
LEMMA FlatTyped == Flat \in Positions
BY DEF Flat, Positions

\* The fill of a buy takes the debit from the cash and counts a trade.
LEMMA BuyFilled ==
  ASSUME NEW b \in Books, NEW m \in Mints, b.pos[m].units = 0, NEW u, NEW debit \in Nat
  PROVE  LET c == Reduce(b, BuyRows(m, u, debit)[1])
         IN  /\ c \in Books
             /\ c.cash = b.cash - debit /\ c.pos = b.pos /\ c.realized = b.realized
             /\ c.trades = b.trades + 1 /\ c.dayStart = b.dayStart
<1> DEFINE r == BuyRows(m, u, debit)[1]
           x == [b EXCEPT !.cash = @ - debit, !.trades = @ + 1, !.fees = @ + Network]
<1>1. r.type = "BuyFill" /\ r.mint = m /\ r.cash = -debit
  BY DEF BuyRows
<1>2. Reduce(b, r) = OnBuyFill(b, r)
  BY <1>1 DEF Reduce
<1>3. OnBuyFill(b, r) = TrackPeak(x)
  <2> HIDE DEF r
  <2>1. [b.pos EXCEPT ![m] = b.pos[m]] = b.pos
    BY DEF Books
  <2>2. b.cash + r.cash = b.cash - debit
    BY <1>1 DEF Books
  <2>3. [b EXCEPT !.cash = @ + r.cash, !.trades = @ + 1, !.fees = @ + Network,
                  !.pos[m] = b.pos[m]] = x
    BY <2>1, <2>2 DEF Books
  <2> QED BY <1>1, <2>3 DEF OnBuyFill
<1>4. x \in Books
  <2>1. b.cash - debit \in Int /\ b.trades + 1 \in Nat /\ b.fees + Network \in Nat
    BY AccountsAssumption DEF Books
  <2> QED BY <2>1 DEF Books
<1>5. /\ x.cash = b.cash - debit /\ x.pos = b.pos /\ x.realized = b.realized
      /\ x.trades = b.trades + 1 /\ x.dayStart = b.dayStart
  BY DEF Books
<1> HIDE DEF r, x
<1> QED BY <1>2, <1>3, <1>4, <1>5, Tracked DEF Alike, r

\* _on_position_opened stores the units and what they cost.
LEMMA Opened ==
  ASSUME NEW b \in Books, NEW m \in Mints, NEW u \in Nat, NEW debit \in Nat
  PROVE  LET c == Reduce(b, BuyRows(m, u, debit)[2])
         IN  /\ c \in Books
             /\ c.cash = b.cash /\ c.realized = b.realized
             /\ c.trades = b.trades /\ c.dayStart = b.dayStart
             /\ c.pos = [b.pos EXCEPT ![m] = [units |-> u, cost |-> debit, mark |-> 0, marked |-> FALSE]]
<1> DEFINE r == BuyRows(m, u, debit)[2]
           p == [units |-> u, cost |-> debit, mark |-> 0, marked |-> FALSE]
           x == [b EXCEPT !.pos[m] = p]
<1>1. r.type = "PositionOpened" /\ r.mint = m /\ r.cost = debit /\ r.units = u
  BY DEF BuyRows
<1>2. Reduce(b, r) = OnOpened(b, r)
  BY <1>1 DEF Reduce
<1>3. OnOpened(b, r) = TrackPeak(x)
  BY <1>1 DEF OnOpened
<1>4. p \in Positions
  BY DEF Positions
<1> HIDE DEF p, r
<1>5. x \in Books
  BY <1>4 DEF Books
<1>6. /\ x.cash = b.cash /\ x.pos = [b.pos EXCEPT ![m] = p] /\ x.realized = b.realized
      /\ x.trades = b.trades /\ x.dayStart = b.dayStart
  BY DEF Books
<1> HIDE DEF x
<1> QED BY <1>2, <1>3, <1>5, <1>6, Tracked DEF Alike, r, p

\* A slice of the cost, and a share of the mark, are between nothing and all.
LEMMA SliceBounds ==
  ASSUME NEW c \in Nat, NEW u \in Nat, NEW n \in Nat \ {0}, u <= n
  PROVE  (c * u) \div n \in 0 .. c
<1>1. c * u \in Nat /\ c * n \in Nat /\ c * u <= c * n
  OBVIOUS
<1>2. (c * u) \div n \in Nat
  BY <1>1
<1>3. (c * u) \div n <= c
  OBVIOUS
<1> QED BY <1>2, <1>3



\* The fill of u of the units held, of which left are left.
SellFill(m, u, proceeds) == [type |-> "SellFill", mint |-> m, units |-> u, cash |-> proceeds]
Slice(p, u) == (p.cost * u) \div p.units

\* What the fill of a sell leaves of a position.
LEMMA LeftAfter ==
  ASSUME NEW p \in Positions, NEW n, NEW c, NEW k
  PROVE  [p EXCEPT !.units = n, !.cost = @ - c, !.mark = k]
           = [units |-> n, cost |-> p.cost - c, mark |-> k, marked |-> p.marked]
<1> DEFINE d == p.cost - c
           q == [p EXCEPT !.units = n, !.cost = d, !.mark = k]
<1> HIDE DEF d
<1>1. q \in [units : {n}, cost : {d}, mark : {k}, marked : {p.marked}]
  BY DEF Positions
<1>2. q.units = n /\ q.cost = d /\ q.mark = k /\ q.marked = p.marked
  BY DEF Positions
<1> HIDE DEF q
<1>3. q = [units |-> q.units, cost |-> q.cost, mark |-> q.mark, marked |-> q.marked]
  BY <1>1
<1>4. q = [units |-> n, cost |-> d, mark |-> k, marked |-> p.marked]
  BY <1>2, <1>3
<1> QED BY <1>4 DEF d, q

Sold(b, c, m, u, proceeds) ==
  LET p == b.pos[m] IN
  /\ c \in Books
  /\ c.cash = b.cash + proceeds
  /\ c.realized = IF p.units - u > 0 THEN b.realized + proceeds - Slice(p, u) ELSE b.realized
  /\ c.trades = b.trades /\ c.dayStart = b.dayStart
  /\ Slice(p, u) \in 0 .. p.cost
  /\ \E k \in Nat :
       /\ k = MarkLeft(p, p.units - u, proceeds + Network)
       /\ c.pos = [b.pos EXCEPT ![m] = [units |-> p.units - u, cost |-> p.cost - Slice(p, u),
                                       mark |-> k, marked |-> p.marked]]

\* The fill of a sell takes the units and the slice of their cost, and pays the proceeds in.
LEMMA SellFilled ==
  ASSUME NEW b \in Books, NEW m \in Mints, NEW u \in 1 .. b.pos[m].units, NEW proceeds \in Int
  PROVE  Sold(b, Reduce(b, SellFill(m, u, proceeds)), m, u, proceeds)
<1> DEFINE p == b.pos[m]
           r == SellFill(m, u, proceeds)
           left == p.units - u
           slice == Slice(p, u)
           k == MarkLeft(p, left, proceeds + Network)
           q == [units |-> left, cost |-> p.cost - slice, mark |-> k, marked |-> p.marked]
           gain == IF left > 0 THEN b.realized + proceeds - slice ELSE b.realized
           x == [b EXCEPT !.cash = @ + proceeds, !.fees = @ + Network, !.realized = gain, !.pos[m] = q]
<1>1. r.type = "SellFill" /\ r.mint = m /\ r.units = u /\ r.cash = proceeds
  BY DEF SellFill
<1>2. Reduce(b, r) = OnSellFill(b, r)
  BY <1>1 DEF Reduce
<1>3. /\ p \in Positions /\ p.units \in Nat \ {0} /\ p.cost \in Nat /\ p.mark \in Nat
      /\ p.marked \in BOOLEAN /\ u \in Nat /\ u <= p.units
      /\ b.cash \in Int /\ b.realized \in Int /\ b.fees \in Nat
  <2>1. p \in Positions /\ b.cash \in Int /\ b.realized \in Int /\ b.fees \in Nat
    BY DEF Books
  <2>2. p.units \in Nat /\ p.cost \in Nat /\ p.mark \in Nat /\ p.marked \in BOOLEAN
    BY <2>1 DEF Positions
  <2> QED BY <2>1, <2>2
<1>4. [p EXCEPT !.units = left, !.cost = @ - slice, !.mark = k] = q
  <2>1. p \in Positions
    BY <1>3
  <2> HIDE DEF p, left, slice, k
  <2>2. \A n, c, j : [p EXCEPT !.units = n, !.cost = @ - c, !.mark = j]
           = [units |-> n, cost |-> p.cost - c, mark |-> j, marked |-> p.marked]
    BY <2>1, LeftAfter
  <2>3. [p EXCEPT !.units = left, !.cost = @ - slice, !.mark = k]
           = [units |-> left, cost |-> p.cost - slice, mark |-> k, marked |-> p.marked]
    BY <2>2
  <2> QED BY <2>3
<1>5. OnSellFill(b, r) = TrackPeak(x)
  <2>1. OnSellFill(b, r) =
          TrackPeak([b EXCEPT !.cash = @ + r.cash, !.fees = @ + Network,
            !.realized = IF p.units - r.units > 0
                         THEN @ + r.cash - ((p.cost * r.units) \div p.units) ELSE @,
            !.pos[m] = [p EXCEPT !.units = p.units - r.units,
                                 !.cost = @ - ((p.cost * r.units) \div p.units),
                                 !.mark = MarkLeft(p, p.units - r.units, r.cash + Network)]])
    BY <1>1 DEF OnSellFill
  <2>2. OnSellFill(b, r) =
          TrackPeak([b EXCEPT !.cash = @ + proceeds, !.fees = @ + Network,
            !.realized = IF left > 0 THEN @ + proceeds - slice ELSE @,
            !.pos[m] = [p EXCEPT !.units = left, !.cost = @ - slice, !.mark = k]])
    BY <1>1, <2>1 DEF Slice
  <2> HIDE DEF q, p, left, slice, k, r
  <2>3. [b EXCEPT !.cash = @ + proceeds, !.fees = @ + Network,
            !.realized = IF left > 0 THEN @ + proceeds - slice ELSE @,
            !.pos[m] = [p EXCEPT !.units = left, !.cost = @ - slice, !.mark = k]] = x
    BY <1>4 DEF Books
  <2> QED BY <2>2, <2>3
<1>6. slice \in 0 .. p.cost
  BY <1>3, SliceBounds DEF Slice
<1>7. k \in Nat
  <2>1. (p.mark * left) \div p.units \in 0 .. p.mark
    <3> HIDE DEF p
    <3>1. left \in Nat /\ left <= p.units
      BY <1>3
    <3> HIDE DEF left
    <3> QED BY <1>3, <3>1, SliceBounds
  <2>2. proceeds + Network \in Int
    BY AccountsAssumption
  <2> DEFINE share == (p.mark * left) \div p.units
             received == proceeds + Network
  <2>3. Larger(p.mark - received, 0) \in Nat
    <3> HIDE DEF received
    <3> QED BY <1>3, <2>2 DEF Larger, received
  <2>4. share \in Nat
    BY <2>1
  <2>5. k = Smaller(share, Larger(p.mark - received, 0))
    BY DEF MarkLeft
  <2> HIDE DEF share, received
  <2> QED BY <2>3, <2>4, <2>5 DEF Smaller
<1>8. q \in Positions
  <2>1. left \in Nat /\ p.cost - slice \in Nat
    <3> HIDE DEF slice
    <3> QED BY <1>3, <1>6
  <2> HIDE DEF left, slice, k
  <2> QED BY <1>3, <1>7, <2>1 DEF Positions
<1>9. gain \in Int /\ b.cash + proceeds \in Int /\ b.fees + Network \in Nat
  <2> HIDE DEF slice
  <2> QED BY <1>3, <1>6, AccountsAssumption
<1> HIDE DEF q, gain, r, k
<1>10. x \in Books
  BY <1>8, <1>9 DEF Books
<1>11. /\ x.cash = b.cash + proceeds /\ x.pos = [b.pos EXCEPT ![m] = q] /\ x.realized = gain
       /\ x.trades = b.trades /\ x.dayStart = b.dayStart
  BY DEF Books
<1> HIDE DEF x
<1>12. LET c == Reduce(b, r)
       IN  /\ c \in Books
           /\ c.cash = b.cash + proceeds /\ c.pos = [b.pos EXCEPT ![m] = q] /\ c.realized = gain
           /\ c.trades = b.trades /\ c.dayStart = b.dayStart
  BY <1>2, <1>5, <1>10, <1>11, Tracked DEF Alike
<1> QED BY <1>6, <1>7, <1>12 DEF gain, q, r, k, Sold

CloseRow(m, gain) == [type |-> "PositionClosed", mint |-> m, realized |-> gain]

\* _on_position_closed flattens the position and realizes the gain.
LEMMA Closed ==
  ASSUME NEW b \in Books, NEW m \in Mints, NEW gain \in Int
  PROVE  LET c == Reduce(b, CloseRow(m, gain))
         IN  /\ c \in Books
             /\ c.cash = b.cash /\ c.realized = b.realized + gain
             /\ c.trades = b.trades /\ c.dayStart = b.dayStart
             /\ c.pos = [b.pos EXCEPT ![m] = Flat]
<1> DEFINE r == CloseRow(m, gain)
           x == [b EXCEPT !.pos[m] = Flat, !.realized = @ + gain]
<1>1. r.type = "PositionClosed" /\ r.mint = m /\ r.realized = gain
  BY DEF CloseRow
<1>2. Reduce(b, r) = OnClosed(b, r)
  BY <1>1 DEF Reduce
<1>3. OnClosed(b, r) = TrackPeak(x)
  BY <1>1 DEF OnClosed
<1> HIDE DEF r
<1>4. x \in Books
  <2>1. b.realized + gain \in Int
    BY DEF Books
  <2> QED BY <2>1, FlatTyped DEF Books
<1>5. /\ x.cash = b.cash /\ x.pos = [b.pos EXCEPT ![m] = Flat] /\ x.realized = b.realized + gain
      /\ x.trades = b.trades /\ x.dayStart = b.dayStart
  BY DEF Books
<1> HIDE DEF x
<1> QED BY <1>2, <1>3, <1>4, <1>5, Tracked DEF Alike, r

RefusalRow(fees) == [type |-> "OrderRejected", fees |-> fees]

\* _on_rejected takes the fees of a refused order from the cash.
LEMMA Rejected ==
  ASSUME NEW b \in Books, NEW fees \in Nat
  PROVE  LET c == Reduce(b, RefusalRow(fees))
         IN  /\ c \in Books
             /\ c.cash = b.cash - fees /\ c.realized = b.realized
             /\ c.trades = b.trades /\ c.dayStart = b.dayStart /\ c.pos = b.pos
<1> DEFINE r == RefusalRow(fees)
           x == [b EXCEPT !.cash = @ - fees, !.fees = @ + fees]
<1>1. r.type = "OrderRejected" /\ r.fees = fees
  BY DEF RefusalRow
<1>2. Reduce(b, r) = OnRejected(b, r)
  BY <1>1 DEF Reduce
<1>3. OnRejected(b, r) = x
  BY <1>1 DEF OnRejected
<1>4. b.cash - fees \in Int /\ b.fees + fees \in Nat
  BY DEF Books
<1>5. x \in Books
  BY <1>4 DEF Books
<1>6. /\ x.cash = b.cash - fees /\ x.pos = b.pos /\ x.realized = b.realized
      /\ x.trades = b.trades /\ x.dayStart = b.dayStart
  BY DEF Books
<1> HIDE DEF r, x
<1> QED BY <1>2, <1>3, <1>5, <1>6 DEF r

Remarked(p, q) ==
  \A m \in Mints : q[m].units = p[m].units /\ q[m].cost = p[m].cost /\ (p[m].units = 0 => q[m] = p[m])

\* _on_mtm changes marks and nothing that was paid or held.
LEMMA Marked ==
  ASSUME NEW b \in Books, NEW r, r.type = "MarkToMarket",
         NEW S \in SUBSET Mints, r.marks \in [S -> Nat]
  PROVE  LET c == Reduce(b, r)
         IN  /\ c \in Books
             /\ c.cash = b.cash /\ c.realized = b.realized
             /\ c.trades = b.trades /\ c.dayStart = b.dayStart
             /\ Remarked(b.pos, c.pos)
<1> DEFINE newPos == [m \in Mints |->
               IF m \in DOMAIN r.marks /\ b.pos[m].units > 0
               THEN [b.pos[m] EXCEPT !.mark = r.marks[m], !.marked = TRUE] ELSE b.pos[m]]
           x == [b EXCEPT !.pos = newPos]
<1>1. Reduce(b, r) = OnMark(b, r)
  BY DEF Reduce
<1>2. OnMark(b, r) = TrackPeak(x)
  BY DEF OnMark
<1>3. newPos \in [Mints -> Positions] /\ Remarked(b.pos, newPos)
  <2>1. ASSUME NEW m \in Mints
        PROVE  /\ newPos[m] \in Positions
               /\ newPos[m].units = b.pos[m].units /\ newPos[m].cost = b.pos[m].cost
               /\ b.pos[m].units = 0 => newPos[m] = b.pos[m]
    <3>1. b.pos[m] \in Positions
      BY DEF Books
    <3>2. CASE m \in DOMAIN r.marks /\ b.pos[m].units > 0
      <4>1. r.marks[m] \in Nat
        BY <3>2
      <4>2. newPos[m] = [b.pos[m] EXCEPT !.mark = r.marks[m], !.marked = TRUE]
        BY <3>2
      <4> DEFINE p == b.pos[m]
                 k == r.marks[m]
                 q == [p EXCEPT !.mark = k, !.marked = TRUE]
      <4>3. p \in Positions /\ k \in Nat
        BY <3>1, <4>1
      <4> HIDE DEF newPos, p, k
      <4>4. q \in Positions
        BY <4>3 DEF Positions
      <4>5. q.units = p.units /\ q.cost = p.cost
        BY <4>3 DEF Positions
      <4>6. newPos[m] = q
        BY <4>2 DEF p, k
      <4> HIDE DEF q
      <4>7. newPos[m] \in Positions /\ newPos[m].units = p.units /\ newPos[m].cost = p.cost
        BY <4>4, <4>5, <4>6
      <4>8. p.units # 0
        BY <3>2 DEF p
      <4> QED BY <4>7, <4>8 DEF p
    <3>3. CASE ~(m \in DOMAIN r.marks /\ b.pos[m].units > 0)
      BY <3>1, <3>3
    <3> QED BY <3>2, <3>3
  <2>2. newPos \in [Mints -> Positions]
    BY <2>1
  <2> HIDE DEF newPos
  <2> QED BY <2>1, <2>2 DEF Remarked
<1> HIDE DEF newPos
<1>4. x \in Books
  BY <1>3 DEF Books
<1>5. /\ x.cash = b.cash /\ x.pos = newPos /\ x.realized = b.realized
      /\ x.trades = b.trades /\ x.dayStart = b.dayStart
  BY DEF Books
<1> HIDE DEF x
<1> QED BY <1>1, <1>2, <1>3, <1>4, <1>5, Tracked DEF Alike

RolloverRow(day, equity) == [type |-> "DailyRollover", day |-> day, dayStart |-> equity]

\* _on_rollover starts the day's figures again.
LEMMA RolledBook ==
  ASSUME NEW b \in Books, NEW day, NEW equity \in Int
  PROVE  LET c == Reduce(b, RolloverRow(day, equity))
         IN  /\ c \in Books
             /\ c.cash = b.cash /\ c.realized = 0
             /\ c.trades = 0 /\ c.dayStart = equity /\ c.pos = b.pos
<1> DEFINE r == RolloverRow(day, equity)
           x == [b EXCEPT !.dayStart = equity, !.realized = 0, !.trades = 0, !.fees = 0]
<1>1. r.type = "DailyRollover" /\ r.dayStart = equity
  BY DEF RolloverRow
<1>2. Reduce(b, r) = OnRollover(b, r)
  BY <1>1 DEF Reduce
<1>3. OnRollover(b, r) = x
  BY <1>1 DEF OnRollover
<1>4. x \in Books
  <2>1. 0 \in Int /\ 0 \in Nat
    OBVIOUS
  <2> QED BY <2>1 DEF Books
<1>5. /\ x.cash = b.cash /\ x.pos = b.pos /\ x.realized = 0
      /\ x.trades = 0 /\ x.dayStart = equity
  BY DEF Books
<1> HIDE DEF r, x
<1> QED BY <1>2, <1>3, <1>4, <1>5 DEF r

-----------------------------------------------------------------------------
(* The accounts: what the rows explain *)

\* Cash and fees are of no mint.
NoMint == CHOOSE m : m \notin Mints

CashOf(l) == Initial + Summed(l, "BuyFill", "cash", NoMint) + Summed(l, "SellFill", "cash", NoMint)
                     - Summed(l, "OrderRejected", "fees", NoMint)
RefusedOf(l) == Summed(l, "OrderRejected", "fees", NoMint)
UnitsOf(l, m) == Summed(l, "BuyFill", "units", m) - Summed(l, "SellFill", "units", m)

\* What one more row adds to the cash, the refusals and the units.
LEMMA RowSums ==
  ASSUME NEW l \in Seq(Row), NEW r \in Row
  PROVE  /\ CashOf(l) \in Int /\ RefusedOf(l) \in Int
         /\ CashOf(Append(l, r)) = CashOf(l) + (IF r.type \in {"BuyFill", "SellFill"} THEN r.cash
                                                ELSE IF r.type = "OrderRejected" THEN -r.fees ELSE 0)
         /\ RefusedOf(Append(l, r)) = RefusedOf(l) + (IF r.type = "OrderRejected" THEN r.fees ELSE 0)
         /\ \A m : /\ UnitsOf(l, m) \in Int
                   /\ UnitsOf(Append(l, r), m) = UnitsOf(l, m) +
                        (IF r.type \in {"BuyFill", "SellFill"} /\ r.mint = m
                         THEN IF r.type = "BuyFill" THEN r.units ELSE -r.units ELSE 0)
<1>1. \A t \in {"BuyFill", "SellFill"}, c \in {"cash", "units"} : \A m :
        /\ Summed(l, t, c, m) \in Int
        /\ Summed(Append(l, r), t, c, m)
             = Summed(l, t, c, m) + (IF r.type = t THEN Entry(r, c, m) ELSE 0)
  BY SummedNext DEF Columns
<1>2. \A m :
        /\ Summed(l, "OrderRejected", "fees", m) \in Int
        /\ Summed(Append(l, r), "OrderRejected", "fees", m)
             = Summed(l, "OrderRejected", "fees", m)
                 + (IF r.type = "OrderRejected" THEN Entry(r, "fees", m) ELSE 0)
  BY SummedNext DEF Columns
<1>3. /\ r.type \in {"BuyFill", "SellFill"} => r.cash \in Int /\ r.units \in Nat
      /\ r.type = "OrderRejected" => r.fees \in Nat
  BY DEF Row
<1>4. \A m : /\ Entry(r, "fees", m) = r.fees /\ Entry(r, "cash", m) = r.cash
             /\ Entry(r, "units", m) = IF r.mint = m THEN r.units ELSE 0
  BY DEF Entry
<1>5. CashOf(l) \in Int /\ RefusedOf(l) \in Int /\ \A m : UnitsOf(l, m) \in Int
  BY <1>1, <1>2, AccountsAssumption DEF CashOf, RefusedOf, UnitsOf
<1>6. CASE r.type \in {"BuyFill", "SellFill"}
  <2>1. r.cash \in Int /\ r.units \in Nat /\ r.type # "OrderRejected"
    BY <1>3, <1>6
  <2>2. CashOf(Append(l, r)) = CashOf(l) + r.cash /\ RefusedOf(Append(l, r)) = RefusedOf(l)
    <3>1. CASE r.type = "BuyFill"
      BY <1>1, <1>2, <1>4, <2>1, <3>1, AccountsAssumption DEF CashOf, RefusedOf
    <3>2. CASE r.type = "SellFill"
      BY <1>1, <1>2, <1>4, <2>1, <3>2, AccountsAssumption DEF CashOf, RefusedOf
    <3> QED BY <1>6, <3>1, <3>2
  <2>3. ASSUME NEW m
        PROVE  UnitsOf(Append(l, r), m) = UnitsOf(l, m) +
                 (IF r.mint = m THEN IF r.type = "BuyFill" THEN r.units ELSE -r.units ELSE 0)
    <3>1. CASE r.type = "BuyFill"
      BY <1>1, <1>4, <2>1, <3>1 DEF UnitsOf
    <3>2. CASE r.type = "SellFill"
      BY <1>1, <1>4, <2>1, <3>2 DEF UnitsOf
    <3> QED BY <1>6, <3>1, <3>2
  <2> QED BY <1>5, <1>6, <2>1, <2>2, <2>3
<1>7. CASE r.type = "OrderRejected"
  BY <1>1, <1>2, <1>3, <1>4, <1>5, <1>7, AccountsAssumption DEF CashOf, RefusedOf, UnitsOf
<1>8. CASE r.type \notin {"BuyFill", "SellFill", "OrderRejected"}
  BY <1>1, <1>2, <1>5, <1>8, AccountsAssumption DEF CashOf, RefusedOf, UnitsOf
<1> QED BY <1>6, <1>7, <1>8

\* With no rows there is the initial cash and nothing else.
LEMMA NoRows ==
  /\ CashOf(<<>>) = Initial /\ RefusedOf(<<>>) = 0
  /\ \A m : UnitsOf(<<>>, m) = 0
<1>1. \A t, c, m : Summed(<<>>, t, c, m) = 0
  <2> SUFFICES ASSUME NEW t, NEW c, NEW m PROVE Summed(<<>>, t, c, m) = 0
    OBVIOUS
  <2>1. {i \in DOMAIN <<>> : <<>>[i].type = t} = {}
    OBVIOUS
  <2>2. Summed(<<>>, t, c, m) = SumFold!Iterated(0, Column(<<>>, c, m), {})
    BY <2>1 DEF Summed, SumFold!Total
  <2> QED BY <2>2, SumFold!IteratedEmpty
<1> QED BY <1>1, AccountsAssumption DEF CashOf, RefusedOf, UnitsOf

\* A sum of which one term changed.
LEMMA SumChange ==
  ASSUME NEW T, IsFiniteSet(T), NEW F, NEW G, NEW y \in T,
         \A x \in T : F[x] \in Int, \A x \in T : G[x] \in Int,
         \A x \in T : x # y => F[x] = G[x]
  PROVE  SumFold!Total(G, T) = SumFold!Total(F, T) - F[y] + G[y]
<1>1. SumFold!IsFiniteSet(T)
  BY FiniteIs
<1> QED BY <1>1, SumsAdd, SumFold!TotalChange

CostsCount(p) == \A m \in Mints : p[m].cost \in Int
CostsElsewhere(p, q, m) == \A n \in Mints : n # m => q[n].cost = p[n].cost

\* One position's cost moves the sum of the costs by as much.
LEMMA CostsMove ==
  ASSUME NEW p, NEW q, NEW m \in Mints, CostsCount(p), CostsCount(q),
         CostsElsewhere(p, q, m)
  PROVE  Costs(p) \in Int /\ Costs(q) = Costs(p) - p[m].cost + q[m].cost
<1> DEFINE F == [n \in Mints |-> p[n].cost]
           G == [n \in Mints |-> q[n].cost]
<1>1. \A n \in Mints : F[n] \in Int
  BY DEF CostsCount
<1>2. \A n \in Mints : G[n] \in Int
  BY DEF CostsCount
<1>3. \A n \in Mints : n # m => F[n] = G[n]
  BY DEF CostsElsewhere
<1>4. F[m] = p[m].cost /\ G[m] = q[m].cost
  OBVIOUS
<1>5. IsFiniteSet(Mints) /\ SumFold!IsFiniteSet(Mints)
  BY AccountsAssumption, FiniteIs
<1>6. Costs(p) = SumFold!Total(F, Mints) /\ Costs(q) = SumFold!Total(G, Mints)
  BY DEF Costs
<1> HIDE DEF F, G
<1>7. SumFold!Total(G, Mints) = SumFold!Total(F, Mints) - F[m] + G[m]
  BY <1>1, <1>2, <1>3, <1>5, SumChange
<1>8. SumFold!Total(F, Mints) \in Int
  BY <1>1, <1>5, SumsAdd, SumFold!TotalInt
<1> QED BY <1>4, <1>6, <1>7, <1>8

\* Positions of the same costs have the same sum of them.
LEMMA CostsStay ==
  ASSUME NEW p \in [Mints -> Positions], NEW q \in [Mints -> Positions],
         \A n \in Mints : q[n].cost = p[n].cost
  PROVE  Costs(q) = Costs(p)
<1>1. [n \in Mints |-> p[n].cost] = [n \in Mints |-> q[n].cost]
  OBVIOUS
<1> QED BY <1>1 DEF Costs

\* No mint is held after its last close.
OpenedSince(l, pos) ==
  \A m \in Mints : pos[m].units > 0 =>
    \A i \in DOMAIN l : l[i].type = "PositionClosed" /\ l[i].mint = m =>
      \E j \in DOMAIN l : l[j].type = "PositionOpened" /\ l[j].mint = m /\ j > i

\* A holding is open since a row: one more row opens it, or left it open.
LEMMA OpenedNext ==
  ASSUME NEW l \in Seq(Row), NEW r \in Row, NEW p, NEW q, OpenedSince(l, p),
         \A m \in Mints : q[m].units > 0 =>
           \/ r.type = "PositionOpened" /\ r.mint = m
           \/ p[m].units > 0 /\ ~(r.type = "PositionClosed" /\ r.mint = m)
  PROVE  OpenedSince(Append(l, r), q)
<1> DEFINE k == Append(l, r)
           n == Len(l)
<1>1. /\ n \in Nat /\ DOMAIN l = 1 .. n /\ DOMAIN k = 1 .. n + 1
      /\ k[n + 1] = r /\ \A i \in 1 .. n : k[i] = l[i]
  OBVIOUS
<1> HIDE DEF k, n
<1> SUFFICES ASSUME NEW m \in Mints, q[m].units > 0,
                    NEW i \in DOMAIN k, k[i].type = "PositionClosed" /\ k[i].mint = m
             PROVE  \E j \in DOMAIN k : k[j].type = "PositionOpened" /\ k[j].mint = m /\ j > i
  BY DEF OpenedSince, k
<1>2. CASE r.type = "PositionOpened" /\ r.mint = m
  <2>1. i # n + 1
    BY <1>1, <1>2
  <2>2. n + 1 \in DOMAIN k /\ n + 1 > i
    BY <1>1, <2>1
  <2> QED BY <1>1, <1>2, <2>2
<1>3. CASE p[m].units > 0 /\ ~(r.type = "PositionClosed" /\ r.mint = m)
  <2>1. i # n + 1
    BY <1>1, <1>3
  <2>2. i \in 1 .. n /\ l[i].type = "PositionClosed" /\ l[i].mint = m
    BY <1>1, <2>1
  <2>3. PICK j \in 1 .. n : l[j].type = "PositionOpened" /\ l[j].mint = m /\ j > i
    BY <1>1, <1>3, <2>2 DEF OpenedSince
  <2> QED BY <1>1, <2>3
<1> QED BY <1>2, <1>3

\* A book and the rows that explain it; s is what earlier days realized.
Explained(l, b, s) ==
  /\ l \in Seq(Row) /\ b \in Books /\ Flats(b.pos)
  /\ b.cash = CashOf(l)
  /\ \A m \in Mints : b.pos[m].units = UnitsOf(l, m)
  /\ b.cash + Costs(b.pos) = Initial + s + b.realized - RefusedOf(l)
  /\ OpenedSince(l, b.pos)

\* The rows a buy and a sell append are rows.
LEMMA RowsTyped ==
  ASSUME NEW m \in Mints
  PROVE  /\ \A u \in Nat, debit \in Nat :
              BuyRows(m, u, debit)[1] \in Row /\ BuyRows(m, u, debit)[2] \in Row
         /\ \A u \in Nat, proceeds \in Int : SellFill(m, u, proceeds) \in Row
         /\ \A gain \in Int : CloseRow(m, gain) \in Row
BY DEF BuyRows, SellFill, CloseRow, Row

\* Units and costs of a book are counts.
LEMMA BookCosts ==
  ASSUME NEW b \in Books
  PROVE  CostsCount(b.pos) /\ \A m \in Mints : b.pos[m].units \in Nat /\ b.pos[m].cost \in Nat
BY DEF Books, Positions, CostsCount

\* One position changed.
Moved(b, c, m, p) ==
  /\ c.pos[m] = p /\ \A n \in Mints : n # m => c.pos[n] = b.pos[n]
  /\ Costs(c.pos) = Costs(b.pos) - b.pos[m].cost + p.cost /\ Costs(b.pos) \in Int

\* A book of which one position changed.
LEMMA PosAt ==
  ASSUME NEW b \in Books, NEW c \in Books, NEW m \in Mints, NEW p, c.pos = [b.pos EXCEPT ![m] = p]
  PROVE  Moved(b, c, m, p)
<1>1. c.pos[m] = p /\ \A n \in Mints : n # m => c.pos[n] = b.pos[n]
  BY DEF Books
<1>2. CostsElsewhere(b.pos, c.pos, m)
  BY <1>1 DEF CostsElsewhere
<1>3. CostsCount(b.pos) /\ CostsCount(c.pos)
  BY BookCosts
<1>4. Costs(b.pos) \in Int /\ Costs(c.pos) = Costs(b.pos) - b.pos[m].cost + c.pos[m].cost
  <2> DEFINE x == b.pos
             y == c.pos
  <2>1. CostsElsewhere(x, y, m) /\ CostsCount(x) /\ CostsCount(y)
    BY <1>2, <1>3
  <2> HIDE DEF x, y
  <2>2. Costs(x) \in Int /\ Costs(y) = Costs(x) - x[m].cost + y[m].cost
    BY <2>1, CostsMove
  <2> QED BY <2>2 DEF x, y
<1> QED BY <1>1, <1>4 DEF Moved

\* The sum of the costs is a whole number.
LEMMA CostsInt == ASSUME NEW b \in Books PROVE Costs(b.pos) \in Int
<1> DEFINE F == [m \in Mints |-> b.pos[m].cost]
<1>1. \A m \in Mints : F[m] \in Int
  BY BookCosts
<1>2. Costs(b.pos) = SumFold!Total(F, Mints) /\ IsFiniteSet(Mints) /\ SumFold!IsFiniteSet(Mints)
  BY AccountsAssumption, FiniteIs DEF Costs
<1> HIDE DEF F
<1> QED BY <1>1, <1>2, SumsAdd, SumFold!TotalInt

\* What a buy's fill adds to the sums.
LEMMA BuyRowSums ==
  ASSUME NEW l \in Seq(Row), NEW r \in Row, r.type = "BuyFill"
  PROVE  /\ CashOf(Append(l, r)) = CashOf(l) + r.cash /\ RefusedOf(Append(l, r)) = RefusedOf(l)
         /\ \A n : UnitsOf(Append(l, r), n) = UnitsOf(l, n) + (IF r.mint = n THEN r.units ELSE 0)
         /\ CashOf(l) \in Int /\ RefusedOf(l) \in Int /\ \A n : UnitsOf(l, n) \in Int
<1>1. r.type \in {"BuyFill", "SellFill"} /\ r.type # "OrderRejected"
  OBVIOUS
<1>2. /\ CashOf(l) \in Int /\ RefusedOf(l) \in Int /\ \A n : UnitsOf(l, n) \in Int
      /\ CashOf(Append(l, r)) = CashOf(l) + r.cash /\ RefusedOf(Append(l, r)) = RefusedOf(l) + 0
  BY <1>1, RowSums
<1>3. \A n : UnitsOf(Append(l, r), n) = UnitsOf(l, n) + (IF r.mint = n THEN r.units ELSE 0)
  BY <1>1, RowSums
<1> QED BY <1>2, <1>3

\* What a sell's fill adds to the sums.
LEMMA SellRowSums ==
  ASSUME NEW l \in Seq(Row), NEW r \in Row, r.type = "SellFill"
  PROVE  /\ CashOf(Append(l, r)) = CashOf(l) + r.cash /\ RefusedOf(Append(l, r)) = RefusedOf(l)
         /\ \A n : UnitsOf(Append(l, r), n) = UnitsOf(l, n) + (IF r.mint = n THEN -r.units ELSE 0)
         /\ CashOf(l) \in Int /\ RefusedOf(l) \in Int /\ \A n : UnitsOf(l, n) \in Int
<1>1. r.type \in {"BuyFill", "SellFill"} /\ r.type # "OrderRejected" /\ r.type # "BuyFill"
  OBVIOUS
<1>2. /\ CashOf(l) \in Int /\ RefusedOf(l) \in Int /\ \A n : UnitsOf(l, n) \in Int
      /\ CashOf(Append(l, r)) = CashOf(l) + r.cash /\ RefusedOf(Append(l, r)) = RefusedOf(l) + 0
  BY <1>1, RowSums
<1>3. \A n : UnitsOf(Append(l, r), n) = UnitsOf(l, n) + (IF r.mint = n THEN -r.units ELSE 0)
  BY <1>1, RowSums
<1> QED BY <1>2, <1>3

\* A row that is neither a fill nor a refusal adds to no sum.
LEMMA OtherRowSums ==
  ASSUME NEW l \in Seq(Row), NEW r \in Row, r.type \notin {"BuyFill", "SellFill", "OrderRejected"}
  PROVE  /\ CashOf(Append(l, r)) = CashOf(l) /\ RefusedOf(Append(l, r)) = RefusedOf(l)
         /\ \A n : UnitsOf(Append(l, r), n) = UnitsOf(l, n)
         /\ CashOf(l) \in Int /\ RefusedOf(l) \in Int /\ \A n : UnitsOf(l, n) \in Int
<1>1. r.type \notin {"BuyFill", "SellFill"} /\ r.type # "OrderRejected"
  OBVIOUS
<1>2. /\ CashOf(l) \in Int /\ RefusedOf(l) \in Int /\ \A n : UnitsOf(l, n) \in Int
      /\ CashOf(Append(l, r)) = CashOf(l) + 0 /\ RefusedOf(Append(l, r)) = RefusedOf(l) + 0
  BY <1>1, RowSums
<1>3. \A n : UnitsOf(Append(l, r), n) = UnitsOf(l, n) + 0
  BY <1>1, RowSums
<1> QED BY <1>2, <1>3

\* What a refusal adds to the sums.
LEMMA RefusalSums ==
  ASSUME NEW l \in Seq(Row), NEW r \in Row, r.type = "OrderRejected"
  PROVE  /\ CashOf(Append(l, r)) = CashOf(l) + -r.fees /\ RefusedOf(Append(l, r)) = RefusedOf(l) + r.fees
         /\ \A n : UnitsOf(Append(l, r), n) = UnitsOf(l, n)
         /\ CashOf(l) \in Int /\ RefusedOf(l) \in Int /\ \A n : UnitsOf(l, n) \in Int
<1>1. r.type \notin {"BuyFill", "SellFill"}
  OBVIOUS
<1>2. /\ CashOf(l) \in Int /\ RefusedOf(l) \in Int /\ \A n : UnitsOf(l, n) \in Int
      /\ CashOf(Append(l, r)) = CashOf(l) + -r.fees /\ RefusedOf(Append(l, r)) = RefusedOf(l) + r.fees
  BY <1>1, RowSums
<1>3. \A n : UnitsOf(Append(l, r), n) = UnitsOf(l, n) + 0
  BY <1>1, RowSums
<1> QED BY <1>2, <1>3

\* The two rows of a buy keep the book explained.
LEMMA BuyExplained ==
  ASSUME NEW l, NEW b, NEW s \in Int, Explained(l, b, s),
         NEW m \in Mints, b.pos[m].units = 0, NEW u \in Nat \ {0}, NEW debit \in Nat
  PROVE  LET rs == BuyRows(m, u, debit)
         IN  Explained(Append(Append(l, rs[1]), rs[2]),
                       Reduce(Reduce(b, rs[1]), rs[2]), s)
<1> DEFINE r == BuyRows(m, u, debit)[1]
           o == BuyRows(m, u, debit)[2]
           k == Append(l, r)
           j == Append(k, o)
           c == Reduce(b, r)
           d == Reduce(c, o)
           p == [units |-> u, cost |-> debit, mark |-> 0, marked |-> FALSE]
<1>1. l \in Seq(Row) /\ b \in Books /\ r \in Row /\ o \in Row
  BY RowsTyped DEF Explained
<1>2. /\ r.type = "BuyFill" /\ r.mint = m /\ r.units = u /\ r.cash = -debit
      /\ o.type = "PositionOpened" /\ o.mint = m
  BY DEF BuyRows
<1>3. c \in Books /\ c.cash = b.cash - debit /\ c.pos = b.pos /\ c.realized = b.realized
  BY <1>1, BuyFilled
<1> HIDE DEF c
<1>4. d \in Books /\ d.cash = c.cash /\ d.realized = c.realized /\ d.pos = [c.pos EXCEPT ![m] = p]
  BY <1>3, Opened
<1> HIDE DEF r, o, c, d, p, k, j
<1>5. k \in Seq(Row) /\ j \in Seq(Row)
  BY <1>1 DEF k, j
<1>6. /\ CashOf(k) = CashOf(l) - debit /\ RefusedOf(k) = RefusedOf(l)
      /\ \A n : UnitsOf(k, n) = UnitsOf(l, n) + (IF m = n THEN u ELSE 0)
      /\ CashOf(l) \in Int /\ RefusedOf(l) \in Int /\ \A n : UnitsOf(l, n) \in Int
  BY <1>1, <1>2, BuyRowSums DEF k
<1>7. /\ CashOf(j) = CashOf(k) /\ RefusedOf(j) = RefusedOf(k)
      /\ \A n : UnitsOf(j, n) = UnitsOf(k, n)
      /\ CashOf(k) \in Int /\ RefusedOf(k) \in Int /\ \A n : UnitsOf(k, n) \in Int
  BY <1>1, <1>2, <1>5, OtherRowSums DEF j
<1>8. /\ d.pos[m] = p /\ \A n \in Mints : n # m => d.pos[n] = b.pos[n]
      /\ Costs(d.pos) = Costs(b.pos) - b.pos[m].cost + p.cost /\ Costs(b.pos) \in Int
  <2>1. d \in Books /\ d.pos = [b.pos EXCEPT ![m] = p]
    BY <1>3, <1>4
  <2> QED BY <1>1, <2>1, PosAt DEF Moved
<1>9. p.units = u /\ p.cost = debit
  BY DEF p
<1>10. b.pos[m].cost = 0
  BY DEF Explained, Flats, Flat
<1>11. d.cash = CashOf(j)
  <2>1. b.cash = CashOf(l)
    BY DEF Explained
  <2> QED BY <1>3, <1>4, <1>6, <1>7, <2>1
<1>12. ASSUME NEW n \in Mints PROVE d.pos[n].units = UnitsOf(j, n)
  <2>1. b.pos[n].units = UnitsOf(l, n)
    BY DEF Explained
  <2>2. CASE n = m
    BY <1>6, <1>7, <1>8, <1>9, <2>1, <2>2
  <2>3. CASE n # m
    BY <1>6, <1>7, <1>8, <2>1, <2>3
  <2> QED BY <2>2, <2>3
<1>13. d.cash + Costs(d.pos) = Initial + s + d.realized - RefusedOf(j)
  <2>1. b.cash + Costs(b.pos) = Initial + s + b.realized - RefusedOf(l)
    BY DEF Explained
  <2>2. b.cash \in Int /\ b.realized \in Int /\ Initial \in Int
    BY <1>1, AccountsAssumption DEF Books
  <2> QED BY <1>3, <1>4, <1>6, <1>7, <1>8, <1>9, <1>10, <2>1, <2>2
<1>14. Flats(d.pos)
  BY <1>8, <1>9 DEF Explained, Flats
<1>15. OpenedSince(j, d.pos)
  <2>1. OpenedSince(l, b.pos)
    BY DEF Explained
  <2>2. OpenedSince(k, b.pos)
    BY <1>1, <1>2, <2>1, OpenedNext DEF k
  <2>3. \A n \in Mints : d.pos[n].units > 0 =>
          \/ o.type = "PositionOpened" /\ o.mint = n
          \/ b.pos[n].units > 0 /\ ~(o.type = "PositionClosed" /\ o.mint = n)
    BY <1>2, <1>8
  <2> QED BY <1>1, <1>5, <2>2, <2>3, OpenedNext DEF j
<1>16. Explained(j, d, s)
  BY <1>4, <1>5, <1>11, <1>12, <1>13, <1>14, <1>15 DEF Explained
<1> QED BY <1>16 DEF r, o, c, d, k, j
\* A sale of part of a holding.
LEMMA PartExplained ==
  ASSUME NEW l, NEW b, NEW s \in Int, Explained(l, b, s),
         NEW m \in Mints, NEW u \in 1 .. b.pos[m].units, u < b.pos[m].units, NEW proceeds \in Int
  PROVE  LET r == SellFill(m, u, proceeds)
         IN  Explained(Append(l, r), Reduce(b, r), s)
<1> DEFINE r == SellFill(m, u, proceeds)
           k == Append(l, r)
           c == Reduce(b, r)
           p == b.pos[m]
           slice == Slice(p, u)
<1>1. l \in Seq(Row) /\ b \in Books /\ p.units \in Nat /\ p.cost \in Nat
  BY BookCosts DEF Explained
<1>2. u \in Nat /\ u > 0 /\ p.units - u > 0 /\ r \in Row
  <2>1. u \in Nat /\ u > 0 /\ p.units - u > 0
    BY <1>1
  <2> QED BY <2>1, RowsTyped
<1>3. r.type = "SellFill" /\ r.mint = m /\ r.units = u /\ r.cash = proceeds
  BY DEF SellFill
<1>4. /\ c \in Books /\ c.cash = b.cash + proceeds
      /\ c.realized = IF p.units - u > 0 THEN b.realized + proceeds - slice ELSE b.realized
      /\ slice \in 0 .. p.cost
      /\ \E j \in Nat : c.pos = [b.pos EXCEPT ![m] = [units |-> p.units - u, cost |-> p.cost - slice,
                                                      mark |-> j, marked |-> p.marked]]
  <2>1. Sold(b, c, m, u, proceeds)
    BY <1>1, SellFilled
  <2> QED BY <2>1 DEF Sold
<1>5. PICK j \in Nat : c.pos = [b.pos EXCEPT ![m] = [units |-> p.units - u, cost |-> p.cost - slice,
                                                   mark |-> j, marked |-> p.marked]]
  BY <1>4
<1> DEFINE q == [units |-> p.units - u, cost |-> p.cost - slice, mark |-> j, marked |-> p.marked]
<1>6. c.realized = b.realized + proceeds - slice /\ slice \in Int
  BY <1>1, <1>2, <1>4
<1>7. q.units = p.units - u /\ q.cost = p.cost - slice
  OBVIOUS
<1>8. c.pos = [b.pos EXCEPT ![m] = q]
  BY <1>5
<1> HIDE DEF r, c, k, slice, q
<1>9. k \in Seq(Row)
  BY <1>1, <1>2 DEF k
<1>10. /\ CashOf(k) = CashOf(l) + proceeds /\ RefusedOf(k) = RefusedOf(l)
       /\ \A n : UnitsOf(k, n) = UnitsOf(l, n) + (IF m = n THEN -u ELSE 0)
       /\ CashOf(l) \in Int /\ RefusedOf(l) \in Int /\ \A n : UnitsOf(l, n) \in Int
  BY <1>1, <1>2, <1>3, SellRowSums DEF k
<1>11. /\ c.pos[m] = q /\ \A n \in Mints : n # m => c.pos[n] = b.pos[n]
       /\ Costs(c.pos) = Costs(b.pos) - p.cost + q.cost /\ Costs(b.pos) \in Int
  <2>1. c \in Books /\ c.pos = [b.pos EXCEPT ![m] = q]
    BY <1>4, <1>8
  <2> QED BY <1>1, <2>1, PosAt DEF Moved
<1>12. ASSUME NEW n \in Mints PROVE c.pos[n].units = UnitsOf(k, n)
  <2>1. b.pos[n].units = UnitsOf(l, n)
    BY DEF Explained
  <2>2. CASE n = m
    BY <1>1, <1>2, <1>7, <1>10, <1>11, <2>1, <2>2
  <2>3. CASE n # m
    BY <1>10, <1>11, <2>1, <2>3
  <2> QED BY <2>2, <2>3
<1>13. c.cash + Costs(c.pos) = Initial + s + c.realized - RefusedOf(k)
  <2>1. b.cash + Costs(b.pos) = Initial + s + b.realized - RefusedOf(l)
    BY DEF Explained
  <2>2. b.cash \in Int /\ b.realized \in Int /\ Initial \in Int
    BY <1>1, AccountsAssumption DEF Books
  <2>3. c.cash = b.cash + proceeds /\ CashOf(k) = CashOf(l) + proceeds /\ RefusedOf(k) = RefusedOf(l)
    BY <1>4, <1>10
  <2>4. Costs(c.pos) = Costs(b.pos) - p.cost + (p.cost - slice) /\ Costs(b.pos) \in Int /\ p.cost \in Int
    BY <1>1, <1>7, <1>11
  <2>5. RefusedOf(l) \in Int
    BY <1>10
  <2> HIDE DEF p
  <2> QED BY <1>6, <2>1, <2>2, <2>3, <2>4, <2>5
<1>14. Flats(c.pos)
  BY <1>2, <1>7, <1>11 DEF Explained, Flats
<1>15. OpenedSince(k, c.pos)
  <2>1. OpenedSince(l, b.pos)
    BY DEF Explained
  <2>2. \A n \in Mints : c.pos[n].units > 0 =>
          b.pos[n].units > 0 /\ ~(r.type = "PositionClosed" /\ r.mint = n)
    <3>1. p.units > 0
      BY <1>1, <1>2
    <3> QED BY <1>3, <1>11, <3>1
  <2> QED BY <1>1, <1>2, <2>1, <2>2, OpenedNext DEF k
<1>16. c.cash = CashOf(k)
  BY <1>4, <1>10 DEF Explained
<1>17. Explained(k, c, s)
  BY <1>4, <1>9, <1>12, <1>13, <1>14, <1>15, <1>16 DEF Explained
<1> QED BY <1>17 DEF k, c, r

\* A sale of all of it, with the row that closes the position.
LEMMA CloseExplained ==
  ASSUME NEW l, NEW b, NEW s \in Int, Explained(l, b, s),
         NEW m \in Mints, b.pos[m].units > 0, NEW proceeds \in Int
  PROVE  LET r == SellFill(m, b.pos[m].units, proceeds)
             o == CloseRow(m, proceeds - b.pos[m].cost)
         IN  Explained(Append(Append(l, r), o), Reduce(Reduce(b, r), o), s)
<1> DEFINE p == b.pos[m]
           r == SellFill(m, p.units, proceeds)
           o == CloseRow(m, proceeds - p.cost)
           k == Append(l, r)
           j == Append(k, o)
           c == Reduce(b, r)
           d == Reduce(c, o)
<1>1. l \in Seq(Row) /\ b \in Books /\ p.units \in Nat /\ p.cost \in Nat /\ p.units > 0
  BY BookCosts DEF Explained
<1>2. p.units \in 1 .. p.units /\ ~(p.units - p.units > 0) /\ proceeds - p.cost \in Int
  <2> HIDE DEF p
  <2> QED BY <1>1
<1>3. r \in Row /\ o \in Row
  BY <1>1, <1>2, RowsTyped
<1>4. /\ r.type = "SellFill" /\ r.mint = m /\ r.units = p.units /\ r.cash = proceeds
      /\ o.type = "PositionClosed" /\ o.mint = m
  BY DEF SellFill, CloseRow
<1>5. /\ c \in Books /\ c.cash = b.cash + proceeds
      /\ c.realized = IF p.units - p.units > 0 THEN b.realized + proceeds - Slice(p, p.units)
                       ELSE b.realized
      /\ \E i \in Nat : c.pos = [b.pos EXCEPT ![m] =
               [units |-> p.units - p.units, cost |-> p.cost - Slice(p, p.units),
                mark |-> i, marked |-> p.marked]]
  <2>1. Sold(b, c, m, p.units, proceeds)
    BY <1>1, <1>2, SellFilled
  <2> QED BY <2>1 DEF Sold
<1>6. PICK q : c.pos = [b.pos EXCEPT ![m] = q]
  BY <1>5
<1>7. c.realized = b.realized
  BY <1>2, <1>5
<1> HIDE DEF c
<1>8. d \in Books /\ d.cash = c.cash /\ d.realized = c.realized + (proceeds - p.cost)
      /\ d.pos = [c.pos EXCEPT ![m] = Flat]
  BY <1>2, <1>5, Closed
<1>9. d.pos = [b.pos EXCEPT ![m] = Flat]
  BY <1>1, <1>6, <1>8 DEF Books
<1> HIDE DEF r, o, d, k, j
<1>10. k \in Seq(Row) /\ j \in Seq(Row)
  BY <1>1, <1>3 DEF k, j
<1>11. /\ CashOf(k) = CashOf(l) + proceeds /\ RefusedOf(k) = RefusedOf(l)
       /\ \A n : UnitsOf(k, n) = UnitsOf(l, n) + (IF m = n THEN -p.units ELSE 0)
       /\ CashOf(l) \in Int /\ RefusedOf(l) \in Int /\ \A n : UnitsOf(l, n) \in Int
  BY <1>1, <1>3, <1>4, SellRowSums DEF k
<1>12. /\ CashOf(j) = CashOf(k) /\ RefusedOf(j) = RefusedOf(k)
       /\ \A n : UnitsOf(j, n) = UnitsOf(k, n)
  BY <1>3, <1>4, <1>10, OtherRowSums DEF j
<1>13. /\ d.pos[m] = Flat /\ \A n \in Mints : n # m => d.pos[n] = b.pos[n]
       /\ Costs(d.pos) = Costs(b.pos) - p.cost + Flat.cost /\ Costs(b.pos) \in Int
  <2>1. d \in Books
    BY <1>8
  <2>2. Moved(b, d, m, Flat)
    BY <1>1, <1>9, <2>1, PosAt
  <2> QED BY <2>2 DEF Moved
<1>14. Flat.units = 0 /\ Flat.cost = 0
  BY DEF Flat
<1>15. ASSUME NEW n \in Mints PROVE d.pos[n].units = UnitsOf(j, n)
  <2>1. b.pos[n].units = UnitsOf(l, n)
    BY DEF Explained
  <2>2. CASE n = m
    BY <1>1, <1>11, <1>12, <1>13, <1>14, <2>1, <2>2
  <2>3. CASE n # m
    BY <1>11, <1>12, <1>13, <2>1, <2>3
  <2> QED BY <2>2, <2>3
<1>16. d.cash + Costs(d.pos) = Initial + s + d.realized - RefusedOf(j)
  <2>1. b.cash + Costs(b.pos) = Initial + s + b.realized - RefusedOf(l)
    BY DEF Explained
  <2>2. b.cash \in Int /\ b.realized \in Int /\ Initial \in Int
    BY <1>1, AccountsAssumption DEF Books
  <2>3. d.cash = b.cash + proceeds /\ d.realized = b.realized + (proceeds - p.cost)
        /\ RefusedOf(j) = RefusedOf(l)
    BY <1>5, <1>7, <1>8, <1>11, <1>12
  <2>4. Costs(d.pos) = Costs(b.pos) - p.cost + 0 /\ Costs(b.pos) \in Int /\ p.cost \in Int
    BY <1>1, <1>13, <1>14
  <2>5. RefusedOf(l) \in Int
    BY <1>11
  <2> HIDE DEF p
  <2> QED BY <2>1, <2>2, <2>3, <2>4, <2>5
<1>17. Flats(d.pos)
  BY <1>13 DEF Explained, Flats
<1>18. OpenedSince(j, d.pos)
  <2>1. OpenedSince(l, b.pos)
    BY DEF Explained
  <2>2. OpenedSince(k, b.pos)
    BY <1>1, <1>3, <1>4, <2>1, OpenedNext DEF k
  <2>3. \A n \in Mints : d.pos[n].units > 0 => b.pos[n].units > 0 /\ n # m
    BY <1>13, <1>14
  <2> QED BY <1>3, <1>4, <1>10, <2>2, <2>3, OpenedNext DEF j
<1>19. d.cash = CashOf(j)
  BY <1>5, <1>8, <1>11, <1>12 DEF Explained
<1>20. Explained(j, d, s)
  BY <1>8, <1>10, <1>15, <1>16, <1>17, <1>18, <1>19 DEF Explained
<1> QED BY <1>20 DEF r, o, c, d, k, j, p

\* The row of a refusal keeps the book explained.
LEMMA RefusalExplained ==
  ASSUME NEW l, NEW b, NEW s \in Int, Explained(l, b, s), NEW fees \in Nat
  PROVE  Explained(Append(l, RefusalRow(fees)), Reduce(b, RefusalRow(fees)), s)
<1> DEFINE r == RefusalRow(fees)
           k == Append(l, r)
           c == Reduce(b, r)
<1>1. l \in Seq(Row) /\ b \in Books
  BY DEF Explained
<1>2. r \in Row /\ r.type = "OrderRejected" /\ r.fees = fees
  BY DEF RefusalRow, Row
<1>3. c \in Books /\ c.cash = b.cash - fees /\ c.realized = b.realized /\ c.pos = b.pos
  BY <1>1, Rejected
<1> HIDE DEF r, k, c
<1>4. /\ CashOf(k) = CashOf(l) + -fees /\ RefusedOf(k) = RefusedOf(l) + fees
      /\ \A n : UnitsOf(k, n) = UnitsOf(l, n)
      /\ CashOf(l) \in Int /\ RefusedOf(l) \in Int
  BY <1>1, <1>2, RefusalSums DEF k
<1>5. k \in Seq(Row)
  BY <1>1, <1>2 DEF k
<1>6. c.cash + Costs(c.pos) = Initial + s + c.realized - RefusedOf(k)
  <2>1. b.cash + Costs(b.pos) = Initial + s + b.realized - RefusedOf(l)
    BY DEF Explained
  <2>2. b.cash \in Int /\ b.realized \in Int /\ Initial \in Int
    BY <1>1, AccountsAssumption DEF Books
  <2>3. Costs(b.pos) \in Int
    BY <1>1, CostsInt
  <2> QED BY <1>3, <1>4, <2>1, <2>2, <2>3
<1>7. OpenedSince(k, c.pos)
  <2>1. OpenedSince(l, b.pos)
    BY DEF Explained
  <2> QED BY <1>1, <1>2, <1>3, <2>1, OpenedNext DEF k
<1>8. c.cash = CashOf(k)
  <2>1. b.cash = CashOf(l)
    BY DEF Explained
  <2> QED BY <1>3, <1>4, <2>1
<1>9. Explained(k, c, s)
  BY <1>3, <1>4, <1>5, <1>6, <1>7, <1>8 DEF Explained
<1> QED BY <1>9 DEF k, c, r

MarkKind(r) == /\ r.type = "MarkToMarket" /\ r \in Row
               /\ \E S \in SUBSET Mints : r.marks \in [S -> Nat]

\* A row of marks keeps the book explained.
LEMMA MarkExplained ==
  ASSUME NEW l, NEW b, NEW s \in Int, Explained(l, b, s), NEW r, MarkKind(r)
  PROVE  Explained(Append(l, r), Reduce(b, r), s)
<1> DEFINE k == Append(l, r)
           c == Reduce(b, r)
<1>1. l \in Seq(Row) /\ b \in Books
  BY DEF Explained
<1>2. r \in Row /\ r.type = "MarkToMarket"
  BY DEF MarkKind
<1>3. PICK S \in SUBSET Mints : r.marks \in [S -> Nat]
  BY DEF MarkKind
<1>4. c \in Books /\ c.cash = b.cash /\ c.realized = b.realized /\ Remarked(b.pos, c.pos)
  BY <1>1, <1>2, <1>3, Marked
<1> HIDE DEF k, c
<1>5. /\ CashOf(k) = CashOf(l) /\ RefusedOf(k) = RefusedOf(l)
      /\ \A n : UnitsOf(k, n) = UnitsOf(l, n)
  BY <1>1, <1>2, OtherRowSums DEF k
<1>6. k \in Seq(Row)
  BY <1>1, <1>2 DEF k
<1>7. Costs(c.pos) = Costs(b.pos)
  BY <1>1, <1>4, CostsStay DEF Remarked, Books
<1>8. OpenedSince(k, c.pos)
  <2>1. OpenedSince(l, b.pos)
    BY DEF Explained
  <2>2. \A n \in Mints : c.pos[n].units > 0 => b.pos[n].units > 0
    BY <1>4 DEF Remarked
  <2> QED BY <1>1, <1>2, <2>1, <2>2, OpenedNext DEF k
<1>9. Flats(c.pos)
  BY <1>4 DEF Remarked, Flats, Explained
<1>10. \A n \in Mints : c.pos[n].units = UnitsOf(k, n)
  BY <1>4, <1>5 DEF Remarked, Explained
<1>11. c.cash + Costs(c.pos) = Initial + s + c.realized - RefusedOf(k) /\ c.cash = CashOf(k)
  BY <1>4, <1>5, <1>7 DEF Explained
<1>12. Explained(k, c, s)
  BY <1>4, <1>6, <1>8, <1>9, <1>10, <1>11 DEF Explained
<1> QED BY <1>12 DEF k, c

\* A rollover keeps the book explained, and settles what the day realized.
LEMMA RolloverExplained ==
  ASSUME NEW l, NEW b, NEW s \in Int, Explained(l, b, s), NEW day \in Nat, NEW equity \in Int
  PROVE  Explained(Append(l, RolloverRow(day, equity)), Reduce(b, RolloverRow(day, equity)),
                   s + b.realized)
<1> DEFINE r == RolloverRow(day, equity)
           k == Append(l, r)
           c == Reduce(b, r)
<1>1. l \in Seq(Row) /\ b \in Books
  BY DEF Explained
<1>2. r \in Row /\ r.type = "DailyRollover"
  BY DEF RolloverRow, Row
<1>3. c \in Books /\ c.cash = b.cash /\ c.realized = 0 /\ c.pos = b.pos
  BY <1>1, RolledBook
<1> HIDE DEF r, k, c
<1>4. /\ CashOf(k) = CashOf(l) /\ RefusedOf(k) = RefusedOf(l)
      /\ \A n : UnitsOf(k, n) = UnitsOf(l, n) /\ RefusedOf(l) \in Int
  BY <1>1, <1>2, OtherRowSums DEF k
<1>5. k \in Seq(Row)
  BY <1>1, <1>2 DEF k
<1>6. c.cash + Costs(c.pos) = Initial + (s + b.realized) + c.realized - RefusedOf(k)
  <2>1. b.cash + Costs(b.pos) = Initial + s + b.realized - RefusedOf(l)
    BY DEF Explained
  <2>2. b.cash \in Int /\ b.realized \in Int /\ Initial \in Int
    BY <1>1, AccountsAssumption DEF Books
  <2>3. Costs(b.pos) \in Int
    BY <1>1, CostsInt
  <2> QED BY <1>3, <1>4, <2>1, <2>2, <2>3
<1>7. OpenedSince(k, c.pos)
  <2>1. OpenedSince(l, b.pos)
    BY DEF Explained
  <2> QED BY <1>1, <1>2, <1>3, <2>1, OpenedNext DEF k
<1>8. Explained(k, c, s + b.realized)
  BY <1>3, <1>4, <1>5, <1>6, <1>7 DEF Explained
<1> QED BY <1>8 DEF k, c, r

\* The book is the fold of all rows, and of the snapshot with the rows after it.
Kept(snap, l, b) ==
  /\ snap.seq \in 0 .. Len(l)
  /\ Fold(InitialState, l) = b
  /\ Fold(snap.book, SubSeq(l, snap.seq + 1, Len(l))) = b

\* One more row keeps the snapshot with the rows after it equal to the book.
LEMMA KeptNext ==
  ASSUME NEW snap, NEW l \in Seq(Row), NEW b, NEW r \in Row, Kept(snap, l, b)
  PROVE  Kept(snap, Append(l, r), Reduce(b, r))
<1> DEFINE n == Len(l)
           k == Append(l, r)
           i == snap.seq + 1
           rest == SubSeq(l, i, n)
           more == SubSeq(k, i, n + 1)
<1>1. n \in Nat /\ k \in Seq(Row) /\ Len(k) = n + 1 /\ k[n + 1] = r /\ \A j \in 1 .. n : k[j] = l[j]
  OBVIOUS
<1>2. snap.seq \in 0 .. n /\ i \in Nat /\ i > 0 /\ i <= n + 1
  <2>1. snap.seq \in 0 .. n
    BY DEF Kept
  <2> QED BY <1>1, <2>1
<1>3. Fold(InitialState, k) = Reduce(b, r)
  BY FoldNext DEF Kept
<1>4. rest \in Seq(Row) /\ more \in Seq(Row) /\ more = Append(rest, r)
  <2> HIDE DEF k, n, i
  <2>1. i \in Int /\ n \in Int /\ n + 1 \in Int
    BY <1>1, <1>2
  <2>2. (\A j \in i .. n : l[j] \in Row) /\ (\A j \in i .. n + 1 : k[j] \in Row)
    <3>1. \A j \in 1 .. n : l[j] \in Row
      BY DEF n
    <3>2. \A j \in 1 .. n + 1 : k[j] \in Row
      BY <1>1
    <3> QED BY <1>1, <1>2, <3>1, <3>2
  <2>3. /\ rest \in Seq(Row) /\ Len(rest) = IF i <= n THEN n - i + 1 ELSE 0
        /\ \A j \in 1 .. n - i + 1 : rest[j] = l[i + j - 1]
    BY <2>1, <2>2, SubSeqProperties
  <2>4. /\ more \in Seq(Row) /\ Len(more) = IF i <= n + 1 THEN n + 1 - i + 1 ELSE 0
        /\ \A j \in 1 .. n + 1 - i + 1 : more[j] = k[i + j - 1]
    BY <2>1, <2>2, SubSeqProperties
  <2> DEFINE len == n - i + 1
  <2>5. len \in Nat /\ Len(rest) = len /\ Len(more) = len + 1 /\ n + 1 - i + 1 = len + 1
    BY <1>1, <1>2, <2>3, <2>4
  <2>6. \A j \in 1 .. len : more[j] = rest[j]
    <3> SUFFICES ASSUME NEW j \in 1 .. len PROVE more[j] = rest[j]
      OBVIOUS
    <3>1. i + j - 1 \in 1 .. n /\ j \in 1 .. n + 1 - i + 1
      BY <1>1, <1>2
    <3> HIDE DEF rest, more
    <3> QED BY <1>1, <2>3, <2>4, <3>1
  <2>7. more[len + 1] = r
    <3>1. i + (len + 1) - 1 = n + 1 /\ len + 1 \in 1 .. n + 1 - i + 1
      BY <1>1, <1>2
    <3> HIDE DEF rest, more, len
    <3> QED BY <1>1, <2>4, <3>1
  <2> HIDE DEF rest, more, len
  <2>8. Append(rest, r) \in Seq(Row) /\ Len(Append(rest, r)) = len + 1
        /\ \A j \in 1 .. len + 1 : Append(rest, r)[j] = IF j = len + 1 THEN r ELSE rest[j]
    BY <2>3, <2>5
  <2>9. \A j \in 1 .. len + 1 : more[j] = Append(rest, r)[j]
    BY <2>5, <2>6, <2>7, <2>8
  <2> QED BY <2>3, <2>4, <2>5, <2>8, <2>9, SeqEqual
<1>5. Fold(snap.book, rest) = b
  BY DEF Kept
<1>6. Fold(snap.book, more) = Reduce(b, r)
  <2> HIDE DEF rest, more
  <2> QED BY <1>4, <1>5, FoldNext
<1>7. snap.seq \in 0 .. Len(k)
  <2> HIDE DEF k, n
  <2> QED BY <1>1, <1>2
<1> QED BY <1>1, <1>3, <1>6, <1>7 DEF Kept

\* A batch of one row is one step of the fold.
LEMMA PostOne ==
  ASSUME NEW l \in Seq(Row), NEW b, NEW r \in Row
  PROVE  l \o <<r>> = Append(l, r) /\ Fold(b, <<r>>) = Reduce(b, r)
<1>1. <<r>> \in Seq(Row) /\ Len(<<r>>) = 1 /\ <<r>>[1] = r
  OBVIOUS
<1>2. l \o <<r>> \in Seq(Row) /\ Append(l, r) \in Seq(Row)
  BY <1>1
<1>3. Len(l \o <<r>>) = Len(l) + 1 /\ Len(Append(l, r)) = Len(l) + 1
  BY <1>1
<1>4. \A i \in 1 .. Len(l) + 1 : (l \o <<r>>)[i] = Append(l, r)[i]
  BY <1>1, ConcatProperties
<1>5. l \o <<r>> = Append(l, r)
  BY <1>2, <1>3, <1>4, SeqEqual
<1> QED BY <1>5, FoldOnce

\* A batch of two rows is two steps of the fold.
LEMMA PostTwo ==
  ASSUME NEW l \in Seq(Row), NEW b, NEW r \in Row, NEW s \in Row
  PROVE  /\ l \o <<r, s>> = Append(Append(l, r), s)
         /\ Fold(b, <<r, s>>) = Reduce(Reduce(b, r), s)
<1> DEFINE j == l \o <<r, s>>
           k == Append(Append(l, r), s)
<1>1. <<r, s>> \in Seq(Row) /\ Len(<<r, s>>) = 2 /\ <<r, s>>[1] = r /\ <<r, s>>[2] = s
  OBVIOUS
<1>2. j \in Seq(Row) /\ k \in Seq(Row)
  BY <1>1
<1>3. Len(j) = Len(l) + 2 /\ Len(k) = Len(l) + 2
  BY <1>1
<1>4. \A i \in 1 .. Len(l) + 2 : j[i] = k[i]
  BY <1>1, ConcatProperties
<1>5. j = k
  BY <1>2, <1>3, <1>4, SeqEqual
<1> QED BY <1>5, FoldTwice

Readings == [cash : Int, pos : [Mints -> Positions]]

AccountsInv ==
  /\ Explained(log, book, settled)
  /\ Kept(snapshot, log, book)
  /\ reading \in Readings
  /\ settled \in Int /\ today \in Nat /\ rolled \in 0 .. today

\* An empty ledger keeps the accounts.
LEMMA AccountsInitInv == AccountsInit => AccountsInv
<1> SUFFICES ASSUME AccountsInit PROVE AccountsInv
  OBVIOUS
<1> USE DEF AccountsInit
<1>1. InitialState \in Books /\ InitialState.cash = Initial /\ InitialState.realized = 0
      /\ InitialState.pos = [m \in Mints |-> Flat]
  BY FlatTyped, AccountsAssumption DEF InitialState, Books
<1>2. Flats(InitialState.pos) /\ OpenedSince(<<>>, InitialState.pos)
  BY <1>1 DEF Flats, OpenedSince
<1>3. Costs(InitialState.pos) = 0
  <2> DEFINE F == [m \in Mints |-> InitialState.pos[m].cost]
  <2>1. \A m \in Mints : F[m] = 0
    BY <1>1 DEF Flat
  <2>2. IsFiniteSet(Mints) /\ SumFold!IsFiniteSet(Mints)
    BY AccountsAssumption, FiniteIs
  <2>3. Costs(InitialState.pos) = SumFold!Total(F, Mints)
    BY DEF Costs
  <2> HIDE DEF F
  <2> QED BY <2>1, <2>2, <2>3, SumsAdd, SumFold!TotalZero
<1>4. \A m \in Mints : InitialState.pos[m].units = 0
  BY <1>1 DEF Flat
<1>5. <<>> \in Seq(Row)
  OBVIOUS
<1>6. Explained(<<>>, InitialState, 0)
  BY <1>1, <1>2, <1>3, <1>4, <1>5, NoRows, AccountsAssumption DEF Explained
<1>7. Kept([seq |-> 0, book |-> InitialState], <<>>, InitialState)
  <2> DEFINE snap == [seq |-> 0, book |-> InitialState]
  <2>1. snap.seq = 0 /\ snap.book = InitialState /\ Len(<<>>) = 0
    OBVIOUS
  <2>2. Fold(InitialState, <<>>) = InitialState
    BY <1>5, FoldNext
  <2> HIDE DEF snap
  <2>3. SubSeq(<<>>, snap.seq + 1, Len(<<>>)) = <<>>
    <3>1. snap.seq + 1 \in Int /\ Len(<<>>) \in Int /\ Len(<<>>) < snap.seq + 1
      BY <2>1
    <3> QED BY <3>1, SubSeqEmpty
  <2>4. snap.seq \in 0 .. Len(<<>>)
    BY <2>1
  <2>5. Kept(snap, <<>>, InitialState)
    BY <2>1, <2>2, <2>3, <2>4 DEF Kept
  <2> QED BY <2>5 DEF snap
<1>8. NoReading \in Readings
  BY FlatTyped DEF NoReading, Readings
<1> QED BY <1>6, <1>7, <1>8 DEF AccountsInv

\* A buy keeps them.
LEMMA BuyInv ==
  ASSUME AccountsInv, NEW m \in Mints, NEW u \in Units, NEW price \in Prices, Buy(m, u, price)
  PROVE  AccountsInv'
<1> DEFINE debit == u * price + Network
           r == BuyRows(m, u, debit)[1]
           o == BuyRows(m, u, debit)[2]
<1>1. u \in Nat \ {0} /\ price \in Nat /\ debit \in Nat
  <2>1. u \in Nat \ {0} /\ price \in Nat /\ Network \in Nat
    BY AccountsAssumption
  <2> QED BY <2>1
<1>2. BuyRows(m, u, debit) = <<r, o>> /\ r \in Row /\ o \in Row
  <2>1. BuyRows(m, u, debit) = <<r, o>>
    BY DEF BuyRows
  <2> QED BY <1>1, <2>1, RowsTyped
<1>3. /\ log' = log \o BuyRows(m, u, debit) /\ book' = Fold(book, BuyRows(m, u, debit))
      /\ UNCHANGED <<reading, snapshot, today, rolled, stops, settled>>
  BY DEF Buy, Post
<1>4. book.pos[m].units = 0
  <2>1. book.pos[m].units \in Nat
    BY BookCosts DEF AccountsInv, Explained
  <2> QED BY <2>1 DEF Buy, Held
<1>5. log \in Seq(Row) /\ settled \in Int
  BY DEF AccountsInv, Explained
<1>6. Explained(Append(Append(log, r), o), Reduce(Reduce(book, r), o), settled)
  <2>1. Explained(log, book, settled)
    BY DEF AccountsInv
  <2> HIDE DEF debit
  <2> QED BY <1>1, <1>4, <1>5, <2>1, BuyExplained
<1> HIDE DEF r, o, debit
<1>7. log' = Append(Append(log, r), o) /\ book' = Reduce(Reduce(book, r), o)
  BY <1>2, <1>3, <1>5, PostTwo
<1>8. Kept(snapshot, Append(Append(log, r), o), Reduce(Reduce(book, r), o))
  <2>1. Kept(snapshot, Append(log, r), Reduce(book, r)) /\ Append(log, r) \in Seq(Row)
    BY <1>2, <1>5, KeptNext DEF AccountsInv
  <2> QED BY <1>2, <2>1, KeptNext
<1> QED BY <1>3, <1>6, <1>7, <1>8 DEF AccountsInv

\* A sale at any price, of part or all, forced or not.
LEMMA SaleInv ==
  ASSUME AccountsInv, NEW m \in Mints, NEW u \in 1 .. book.pos[m].units, NEW proceeds \in Int,
         Post(SellRows(m, u, proceeds)),
         UNCHANGED <<reading, snapshot, today, rolled, stops, settled>>
  PROVE  AccountsInv'
<1> DEFINE p == book.pos[m]
           r == SellFill(m, u, proceeds)
           o == CloseRow(m, proceeds - p.cost)
<1>1. /\ log \in Seq(Row) /\ settled \in Int /\ book \in Books
      /\ Explained(log, book, settled) /\ Kept(snapshot, log, book)
  BY DEF AccountsInv, Explained
<1>2. p.units \in Nat /\ p.cost \in Nat /\ u \in Nat /\ u > 0 /\ u <= p.units
  BY <1>1, BookCosts
<1>3. r \in Row /\ o \in Row
  BY <1>2, RowsTyped
<1>4. log' = log \o SellRows(m, u, proceeds) /\ book' = Fold(book, SellRows(m, u, proceeds))
  BY DEF Post
<1>5. CASE u >= p.units
  <2>1. u = p.units /\ p.units > 0
    BY <1>2, <1>5
  <2>2. SellRows(m, u, proceeds) = <<r, o>>
    BY <1>5 DEF SellRows, SellFill, CloseRow
  <2>3. Explained(Append(Append(log, r), o), Reduce(Reduce(book, r), o), settled)
    BY <1>1, <2>1, CloseExplained
  <2> HIDE DEF r, o
  <2>4. log' = Append(Append(log, r), o) /\ book' = Reduce(Reduce(book, r), o)
    BY <1>1, <1>3, <1>4, <2>2, PostTwo
  <2>5. Kept(snapshot, Append(Append(log, r), o), Reduce(Reduce(book, r), o))
    <3>1. Kept(snapshot, Append(log, r), Reduce(book, r)) /\ Append(log, r) \in Seq(Row)
      BY <1>1, <1>3, KeptNext
    <3> QED BY <1>3, <3>1, KeptNext
  <2> QED BY <2>3, <2>4, <2>5 DEF AccountsInv
<1>6. CASE ~(u >= p.units)
  <2>1. u < p.units
    BY <1>2, <1>6
  <2>2. SellRows(m, u, proceeds) = <<r>>
    BY <1>6 DEF SellRows, SellFill
  <2>3. Explained(Append(log, r), Reduce(book, r), settled)
    BY <1>1, <2>1, PartExplained
  <2> HIDE DEF r, o
  <2>4. log' = Append(log, r) /\ book' = Reduce(book, r)
    BY <1>1, <1>3, <1>4, <2>2, PostOne
  <2>5. Kept(snapshot, Append(log, r), Reduce(book, r))
    BY <1>1, <1>3, KeptNext
  <2> QED BY <2>3, <2>4, <2>5 DEF AccountsInv
<1> QED BY <1>5, <1>6

\* So does a sell, of a part or of the whole,
LEMMA SellInv ==
  ASSUME AccountsInv, NEW m \in Mints, NEW u \in 1 .. book.pos[m].units, NEW price \in Prices,
         Sell(m, u, price)
  PROVE  AccountsInv'
<1> DEFINE proceeds == u * price - Network
<1>1. proceeds \in Int
  <2>1. u \in Int /\ price \in Int /\ Network \in Int
    BY AccountsAssumption
  <2> QED BY <2>1
<1>2. Post(SellRows(m, u, proceeds)) /\ UNCHANGED <<reading, snapshot, today, rolled, stops, settled>>
  BY DEF Sell
<1> HIDE DEF proceeds
<1> QED BY <1>1, <1>2, SaleInv

\* a position closed at its mark or for nothing,
LEMMA ForceCloseInv ==
  ASSUME AccountsInv, NEW m \in Mints, ForceClose(m)
  PROVE  AccountsInv'
<1> DEFINE proceeds == book.pos[m].mark - Network
           u == book.pos[m].units
<1>1. proceeds \in Int /\ u \in 1 .. book.pos[m].units
  <2>1. book.pos[m] \in Positions
    BY DEF AccountsInv, Explained, Books
  <2>2. book.pos[m].mark \in Nat /\ u \in Nat /\ u > 0
    BY <2>1 DEF Positions, ForceClose, Held
  <2> QED BY <2>2, AccountsAssumption
<1>2. Post(SellRows(m, u, proceeds)) /\ UNCHANGED <<reading, snapshot, today, rolled, stops, settled>>
  BY DEF ForceClose
<1> HIDE DEF proceeds, u
<1> QED BY <1>1, <1>2, SaleInv

\* One row of another kind.
LEMMA OneRowInv ==
  ASSUME AccountsInv, NEW r \in Row, Post(<<r>>), NEW s \in Int,
         Explained(Append(log, r), Reduce(book, r), s)
  PROVE  /\ Explained(log', book', s) /\ Kept(snapshot, log', book')
<1>1. log \in Seq(Row) /\ Kept(snapshot, log, book)
  BY DEF AccountsInv, Explained
<1>2. log' = Append(log, r) /\ book' = Reduce(book, r)
  BY <1>1, PostOne DEF Post
<1> QED BY <1>1, <1>2, KeptNext

\* a refusal,
LEMMA RejectInv == ASSUME AccountsInv, Reject PROVE AccountsInv'
<1>1. PICK fees \in {0, Network} : Post(<<[type |-> "OrderRejected", fees |-> fees]>>)
  BY DEF Reject
<1> DEFINE r == RefusalRow(fees)
<1>2. fees \in Nat /\ r \in Row
  <2>1. fees \in Nat
    BY AccountsAssumption
  <2> QED BY <2>1 DEF RefusalRow, Row
<1>3. Post(<<r>>)
  BY <1>1 DEF RefusalRow
<1>4. Explained(Append(log, r), Reduce(book, r), settled) /\ settled \in Int
  BY <1>2, RefusalExplained DEF AccountsInv
<1> HIDE DEF r
<1>5. Explained(log', book', settled) /\ Kept(snapshot, log', book')
  BY <1>2, <1>3, <1>4, OneRowInv
<1> QED BY <1>5 DEF Reject, AccountsInv

\* A mark that priced something posts one row of its kind.
LEMMA EndMarkRow ==
  ASSUME AccountsInv, EndMark
  PROVE  UNCHANGED <<log, book>> \/ \E r : MarkKind(r) /\ Post(<<r>>)
<1>2. PICK priced \in SUBSET Held(reading.pos), price \in Prices :
        IF priced = {} THEN UNCHANGED <<log, book>>
        ELSE Post(<<MarkRow([m \in priced |-> reading.pos[m].units * price])>>)
  BY DEF EndMark
<1>3. CASE priced = {}
  BY <1>2, <1>3
<1>4. CASE priced # {}
  <2> DEFINE marks == [m \in priced |-> reading.pos[m].units * price]
             r == MarkRow(marks)
             H == Held(reading.pos)
             F == [m \in H |-> IF m \in DOMAIN marks THEN marks[m] ELSE reading.pos[m].mark]
  <2>1. priced \in SUBSET Mints /\ H \in SUBSET Mints
    BY DEF Held
  <2>2. \A m \in Mints : reading.pos[m].units \in Nat /\ reading.pos[m].mark \in Nat
    BY DEF AccountsInv, Readings, Positions
  <2>3. marks \in [priced -> Nat]
    <3>1. price \in Nat
      BY AccountsAssumption
    <3>2. \A m \in priced : reading.pos[m].units * price \in Nat
      BY <2>1, <2>2, <3>1
    <3> QED BY <3>2
  <2>4. r = [type |-> "MarkToMarket", marks |-> marks,
             equity |-> reading.cash + SumFold!Total(F, H)]
    <3>1. MapThenSumSet(LAMBDA m : IF m \in DOMAIN marks THEN marks[m] ELSE reading.pos[m].mark, H)
            = SumFold!Total(F, H)
      <4> HIDE DEF marks
      <4> QED BY DEF MapThenSumSet, MapThenFoldSet, SumFold!Total, SumFold!Iterated,
                     SumFold!IsIter, Plus, AnyOf
    <3> HIDE DEF marks, F
    <3> QED BY <3>1 DEF MarkRow
  <2>5. SumFold!Total(F, H) \in Int
    <3>1. \A m \in H : F[m] \in Int
      <4> HIDE DEF marks
      <4> QED BY <2>1, <2>2, <2>3
    <3>2. IsFiniteSet(H) /\ SumFold!IsFiniteSet(H)
      <4>1. IsFiniteSet(H)
        BY <2>1, AccountsAssumption, FS_Subset
      <4> QED BY <4>1, FiniteIs
    <3> HIDE DEF F, H
    <3> QED BY <3>1, <3>2, SumsAdd, SumFold!TotalInt
  <2>6. reading.cash \in Int
    BY DEF AccountsInv, Readings
  <2> HIDE DEF marks, H, F
  <2>7. r \in Row /\ MarkKind(r)
    <3> DEFINE total == reading.cash + SumFold!Total(F, H)
    <3>1. total \in Int
      BY <2>5, <2>6
    <3> HIDE DEF total
    <3>2. r = [type |-> "MarkToMarket", marks |-> marks, equity |-> total]
      BY <2>4 DEF total
    <3>3. marks \in UNION {[S -> Nat] : S \in SUBSET Mints}
      BY <2>1, <2>3
    <3> HIDE DEF r
    <3>4. r \in Row
      BY <3>1, <3>2, <3>3 DEF Row
    <3> QED BY <2>1, <2>3, <3>2, <3>4 DEF MarkKind
  <2>8. Post(<<r>>)
    BY <1>2, <1>4 DEF marks
  <2> HIDE DEF r
  <2> QED BY <2>7, <2>8
<1> QED BY <1>3, <1>4

\* the marks of an end of day, read before other rows came,
LEMMA EndMarkInv == ASSUME AccountsInv, EndMark PROVE AccountsInv'
<1>1. NoReading \in Readings
  BY FlatTyped DEF NoReading, Readings
<1>2. CASE UNCHANGED <<log, book>>
  BY <1>1, <1>2 DEF AccountsInv, EndMark
<1>3. ASSUME NEW r, MarkKind(r), Post(<<r>>) PROVE AccountsInv'
  <2>1. Explained(Append(log, r), Reduce(book, r), settled) /\ settled \in Int /\ r \in Row
    BY <1>3, MarkExplained DEF AccountsInv, MarkKind
  <2>2. Explained(log', book', settled) /\ Kept(snapshot, log', book')
    BY <1>3, <2>1, OneRowInv
  <2> QED BY <1>1, <2>2 DEF EndMark, AccountsInv
<1> QED BY <1>2, <1>3, EndMarkRow

\* a rollover whose equity was read before other rows came,
LEMMA RolloverInv == ASSUME AccountsInv, Rollover PROVE AccountsInv'
<1>1. rolled' = today /\ today \in Nat /\ UNCHANGED <<reading, snapshot, today, stops>>
  BY DEF Rollover, AccountsInv
<1>2. CASE RolledOver(today)
  <2>1. UNCHANGED <<log, book, settled>>
    BY <1>2 DEF Rollover
  <2> QED BY <1>1, <2>1 DEF AccountsInv
<1>3. CASE ~RolledOver(today)
  <2> DEFINE r == RolloverRow(today, Equity(book))
  <2>1. Post(<<r>>) /\ settled' = settled + book.realized
    BY <1>3 DEF Rollover, RolloverRow
  <2>2. book \in Books /\ Explained(log, book, settled) /\ settled \in Int
    BY DEF AccountsInv, Explained
  <2>3. book.realized \in Int /\ Equity(book) \in Int
    BY <2>2, EquityInt DEF Books
  <2>4. Explained(Append(log, r), Reduce(book, r), settled + book.realized)
    BY <1>1, <2>2, <2>3, RolloverExplained
  <2>5. r \in Row
    BY <1>1, <2>3 DEF RolloverRow, Row
  <2> HIDE DEF r
  <2>6. settled + book.realized \in Int
    BY <2>2, <2>3
  <2>7. Explained(log', book', settled + book.realized) /\ Kept(snapshot, log', book')
    BY <2>1, <2>4, <2>5, <2>6, OneRowInv
  <2> QED BY <1>1, <2>1, <2>6, <2>7 DEF AccountsInv
<1> QED BY <1>2, <1>3

\* and a shutdown, whose snapshot the next process starts from.
LEMMA ShutdownInv == ASSUME AccountsInv, Shutdown PROVE AccountsInv'
<1>1. NoReading \in Readings
  BY FlatTyped DEF NoReading, Readings
<1>2. log \in Seq(Row) /\ Fold(InitialState, log) = book
  BY DEF AccountsInv, Explained, Kept
<1>3. snapshot'.seq = Len(log) /\ snapshot'.book = book /\ Len(log) \in Nat
  BY <1>2 DEF Shutdown
<1>4. SubSeq(log, snapshot'.seq + 1, Len(log)) = <<>>
  <2> DEFINE i == snapshot'.seq + 1
  <2>1. i \in Int /\ Len(log) \in Int /\ Len(log) < i
    BY <1>3
  <2> HIDE DEF i
  <2>2. SubSeq(log, i, Len(log)) = <<>>
    BY <2>1, SubSeqEmpty
  <2> QED BY <2>2 DEF i
<1>5. Fold(book, <<>>) = book
  BY <1>2, FoldNext
<1>6. Kept(snapshot', log, book)
  <2>1. snapshot'.seq \in 0 .. Len(log)
    BY <1>3
  <2>2. Fold(snapshot'.book, SubSeq(log, snapshot'.seq + 1, Len(log))) = book
    BY <1>3, <1>4, <1>5
  <2> QED BY <1>2, <2>1, <2>2 DEF Kept
<1>7. UNCHANGED <<log, book, today, settled>> /\ reading' = NoReading /\ rolled' = 0
  BY DEF Shutdown
<1>8. 0 \in 0 .. today
  BY DEF AccountsInv
<1> QED BY <1>1, <1>6, <1>7, <1>8 DEF AccountsInv

\* Every step keeps them.
LEMMA AccountsNextInv == ASSUME AccountsInv, [AccountsNext]_accountVars PROVE AccountsInv'
<1>1. NoReading \in Readings /\ today \in Nat
  BY FlatTyped DEF NoReading, Readings, AccountsInv
<1>2. ASSUME NEW m \in Mints, NEW price \in Prices, NEW u \in Units, Buy(m, u, price)
      PROVE  AccountsInv'
  BY <1>2, BuyInv
<1>3. ASSUME NEW m \in Mints, NEW price \in Prices, NEW u \in 1 .. book.pos[m].units, Sell(m, u, price)
      PROVE  AccountsInv'
  BY <1>3, SellInv
<1>4. ASSUME NEW m \in Mints, ForceClose(m) PROVE AccountsInv'
  BY <1>4, ForceCloseInv
<1>5. CASE Reject
  BY <1>5, RejectInv
<1>6. CASE BeginMark
  <2>1. reading' \in Readings
    BY <1>6 DEF BeginMark, AccountsInv, Explained, Books, Readings
  <2> QED BY <1>6, <2>1 DEF BeginMark, AccountsInv
<1>7. CASE EndMark
  BY <1>7, EndMarkInv
<1>8. CASE NewDay
  <2>1. today' \in Nat /\ rolled' \in 0 .. today'
    BY <1>8 DEF NewDay, AccountsInv
  <2> QED BY <1>8, <2>1 DEF NewDay, AccountsInv
<1>9. CASE Rollover
  BY <1>9, RolloverInv
<1>10. CASE Shutdown
  BY <1>10, ShutdownInv
<1>11. CASE Die
  <2>1. 0 \in 0 .. today
    BY <1>1
  <2> QED BY <1>1, <1>11, <2>1 DEF Die, AccountsInv
<1>12. CASE UNCHANGED accountVars
  BY <1>12 DEF accountVars, AccountsInv
<1> QED BY <1>2, <1>3, <1>4, <1>5, <1>6, <1>7, <1>8, <1>9, <1>10, <1>11, <1>12 DEF AccountsNext

\* The accounts' inductive invariant.
THEOREM AccountsInvariance == AccountsSpec => []AccountsInv
BY AccountsInitInv, AccountsNextInv, PTL DEF AccountsSpec

\* No lamport is unaccounted for.
THEOREM LamportsExplained == AccountsSpec => []EveryLamportExplained
<1>1. AccountsInv => EveryLamportExplained
  <2> SUFFICES ASSUME AccountsInv PROVE EveryLamportExplained
    OBVIOUS
  <2>1. log \in Seq(Row) /\ book.cash + Costs(book.pos) = Initial + settled + book.realized - RefusedOf(log)
    BY DEF AccountsInv, Explained
  <2>2. SumOf(LAMBDA r : r.fees, "OrderRejected") = RefusedOf(log)
    BY <2>1, FeesSum DEF RefusedOf
  <2>3. MapThenSumSet(LAMBDA m : book.pos[m].cost, Mints) = Costs(book.pos)
    BY CostSum
  <2> QED BY <2>1, <2>2, <2>3 DEF EveryLamportExplained
<1> QED BY <1>1, AccountsInvariance, PTL

\* What the next start checks holds.
THEOREM StartsReconcile == AccountsSpec => []Reconciles
<1>1. AccountsInv => Reconciles
  <2> SUFFICES ASSUME AccountsInv PROVE Reconciles
    OBVIOUS
  <2>1. log \in Seq(Row) /\ book \in Books /\ Flats(book.pos) /\ OpenedSince(log, book.pos)
    BY DEF AccountsInv, Explained
  <2>2. AccountsTypeOK
    <3>1. \A m \in Mints : book.pos[m].units \in Nat /\ book.pos[m].cost \in Nat /\ book.pos[m].mark \in Nat
      BY <2>1 DEF Books, Positions
    <3>2. book.trades \in Nat /\ book.fees \in Nat
      BY <2>1 DEF Books
    <3>3. snapshot.seq \in 0 .. Len(log) /\ rolled \in 0 .. today
      BY DEF AccountsInv, Kept
    <3> QED BY <2>1, <3>1, <3>2, <3>3 DEF AccountsTypeOK, Flats
  <2>3. Fold(snapshot.book, SubSeq(log, snapshot.seq + 1, Len(log))) = Fold(InitialState, log)
    BY DEF AccountsInv, Kept
  <2>4. book.cash = Initial + SumOf(LAMBDA r : r.cash, "BuyFill")
                      + SumOf(LAMBDA r : r.cash, "SellFill")
                      - SumOf(LAMBDA r : r.fees, "OrderRejected")
    <3>1. /\ SumOf(LAMBDA r : r.cash, "BuyFill") = Summed(log, "BuyFill", "cash", NoMint)
          /\ SumOf(LAMBDA r : r.cash, "SellFill") = Summed(log, "SellFill", "cash", NoMint)
          /\ SumOf(LAMBDA r : r.fees, "OrderRejected") = Summed(log, "OrderRejected", "fees", NoMint)
      BY <2>1, CashSum, FeesSum
    <3>2. book.cash = CashOf(log)
      BY DEF AccountsInv, Explained
    <3> QED BY <3>1, <3>2 DEF CashOf
  <2>5. ASSUME NEW m \in Mints
        PROVE  book.pos[m].units = SumOf(LAMBDA r : IF r.mint = m THEN r.units ELSE 0, "BuyFill")
                                     - SumOf(LAMBDA r : IF r.mint = m THEN r.units ELSE 0, "SellFill")
    <3>1. book.pos[m].units = UnitsOf(log, m)
      BY DEF AccountsInv, Explained
    <3>2. /\ SumOf(LAMBDA r : IF r.mint = m THEN r.units ELSE 0, "BuyFill")
               = Summed(log, "BuyFill", "units", m)
          /\ SumOf(LAMBDA r : IF r.mint = m THEN r.units ELSE 0, "SellFill")
               = Summed(log, "SellFill", "units", m)
      BY <2>1, UnitsSum
    <3> QED BY <3>1, <3>2 DEF UnitsOf
  <2>6. ASSUME NEW m \in Mints, book.pos[m].units > 0,
               NEW i \in {i \in RowsOf("PositionClosed") : log[i].mint = m}
        PROVE  \E j \in RowsOf("PositionOpened") : log[j].mint = m /\ j > i
    BY <2>1, <2>6 DEF OpenedSince, RowsOf
  <2> QED BY <2>2, <2>3, <2>4, <2>5, <2>6 DEF Reconciles
<1> QED BY <1>1, AccountsInvariance, PTL

-----------------------------------------------------------------------------
(* The accounts: what a sale does to equity *)

Values(pos) == [m \in Held(pos) |-> PositionValue(pos[m])]
Worth(pos) == SumFold!Total(Values(pos), Held(pos))

\* Equity is the cash and the worth of what is held.
LEMMA EquityIs == ASSUME NEW b PROVE Equity(b) = b.cash + Worth(b.pos)
BY WorthSum DEF Equity, Worth, Values

\* Each holding's value is a whole number, and so is the worth of all.
LEMMA ValuesCount ==
  ASSUME NEW pos \in [Mints -> Positions]
  PROVE  /\ \A m \in Held(pos) : Values(pos)[m] \in Int
         /\ IsFiniteSet(Held(pos)) /\ SumFold!IsFiniteSet(Held(pos))
         /\ Worth(pos) \in Int
<1>1. \A m \in Held(pos) : Values(pos)[m] \in Int
  BY DEF Held, Positions, PositionValue, Values
<1>2. IsFiniteSet(Held(pos)) /\ SumFold!IsFiniteSet(Held(pos))
  <2>1. Held(pos) \in SUBSET Mints
    BY DEF Held
  <2>2. IsFiniteSet(Held(pos))
    BY <2>1, AccountsAssumption, FS_Subset
  <2> QED BY <2>2, FiniteIs
<1>3. Worth(pos) \in Int
  <2> DEFINE F == Values(pos)
             H == Held(pos)
  <2>1. (\A m \in H : F[m] \in Int) /\ IsFiniteSet(H) /\ SumFold!IsFiniteSet(H)
    BY <1>1, <1>2
  <2> HIDE DEF F, H
  <2>2. SumFold!Total(F, H) \in Int
    BY <2>1, SumsAdd, SumFold!TotalInt
  <2> QED BY <2>2 DEF F, H, Worth
<1> QED BY <1>1, <1>2, <1>3

\* The sum without one of its elements.
LEMMA SumSplit ==
  ASSUME NEW T, IsFiniteSet(T), NEW F, NEW y \in T, \A x \in T : F[x] \in Int
  PROVE  SumFold!Total(F, T) = SumFold!Total(F, T \ {y}) + F[y] /\ SumFold!Total(F, T \ {y}) \in Int
<1>1. SumFold!IsFiniteSet(T)
  BY FiniteIs
<1> QED BY <1>1, SumsAdd, SumFold!TotalSplit

\* Sums of equal terms are equal.
LEMMA SumSame ==
  ASSUME NEW T, IsFiniteSet(T), NEW F, NEW G, \A x \in T : F[x] = G[x]
  PROVE  SumFold!Total(F, T) = SumFold!Total(G, T)
<1>1. SumFold!IsFiniteSet(T)
  BY FiniteIs
<1>2. SumFold!Iterated(0, F, T) = SumFold!Iterated(0, G, T)
  BY <1>1, SumsAdd, SumFold!IteratedOfEqual
<1> QED BY <1>2 DEF SumFold!Total

SameElsewhere(p, q, m) == \A n \in Mints : n # m => q[n] = p[n]
PositionsTyped(p) == p \in [Mints -> Positions]

\* One position less: what the others are worth is left.
LEMMA WorthWithout ==
  ASSUME NEW p, PositionsTyped(p), NEW m \in Held(p)
  PROVE  /\ Worth(p) = SumFold!Total(Values(p), Held(p) \ {m}) + PositionValue(p[m])
         /\ SumFold!Total(Values(p), Held(p) \ {m}) \in Int
<1> DEFINE F == Values(p)
           H == Held(p)
<1>1. (\A n \in H : F[n] \in Int) /\ IsFiniteSet(H) /\ F[m] = PositionValue(p[m]) /\ m \in H
  BY ValuesCount DEF PositionsTyped, Values
<1> HIDE DEF F, H
<1>2. SumFold!Total(F, H) = SumFold!Total(F, H \ {m}) + F[m] /\ SumFold!Total(F, H \ {m}) \in Int
  BY <1>1, SumSplit
<1> QED BY <1>1, <1>2 DEF F, H, Worth

\* One position's change moves the worth by its own change of value.
LEMMA WorthMoved ==
  ASSUME NEW p, NEW q, NEW m \in Held(p), PositionsTyped(p), PositionsTyped(q), SameElsewhere(p, q, m)
  PROVE  /\ Worth(p) \in Int
         /\ m \in Held(q) => Worth(q) = Worth(p) - PositionValue(p[m]) + PositionValue(q[m])
         /\ m \notin Held(q) => Worth(q) = Worth(p) - PositionValue(p[m])
<1> DEFINE R == Held(p) \ {m}
           F == Values(p)
           G == Values(q)
           x == PositionValue(p[m])
           y == PositionValue(q[m])
<1>1. Held(q) \ {m} = R
  BY DEF Held, SameElsewhere
<1>2. IsFiniteSet(R) /\ \A n \in R : F[n] = G[n]
  <2>1. IsFiniteSet(R)
    <3>1. IsFiniteSet(Held(p)) /\ R \in SUBSET Held(p)
      BY ValuesCount DEF PositionsTyped
    <3> HIDE DEF R
    <3> QED BY <3>1, FS_Subset
  <2>2. ASSUME NEW n \in R PROVE F[n] = G[n]
    <3>1. n \in Held(p) /\ n \in Held(q) /\ n \in Mints /\ n # m
      BY <1>1 DEF Held
    <3> QED BY <3>1 DEF Values, SameElsewhere
  <2> QED BY <2>1, <2>2
<1>3. Worth(p) = SumFold!Total(F, R) + x /\ SumFold!Total(F, R) \in Int /\ Worth(p) \in Int
  <2>1. Worth(p) = SumFold!Total(F, R) + x /\ SumFold!Total(F, R) \in Int
    BY WorthWithout
  <2>2. Worth(p) \in Int
    BY ValuesCount DEF PositionsTyped
  <2> QED BY <2>1, <2>2
<1>4. x \in Int /\ y \in Int
  BY DEF PositionsTyped, Positions, PositionValue, Held
<1>5. SumFold!Total(F, R) = SumFold!Total(G, R)
  <2> HIDE DEF R, F, G
  <2> QED BY <1>2, SumSame
<1>6. CASE m \in Held(q)
  <2>1. Worth(q) = SumFold!Total(G, R) + y
    BY <1>1, <1>6, WorthWithout
  <2> HIDE DEF R, F, G, x, y
  <2>2. Worth(q) = Worth(p) - x + y
    BY <1>3, <1>4, <1>5, <2>1
  <2> QED BY <1>3, <1>6, <2>2 DEF x, y
<1>7. CASE m \notin Held(q)
  <2>1. Held(q) = R
    BY <1>1, <1>7
  <2>2. Worth(q) = SumFold!Total(G, R)
    BY <2>1 DEF Worth
  <2> HIDE DEF R, F, G, x, y
  <2>3. Worth(q) = Worth(p) - x
    BY <1>3, <1>4, <1>5, <2>2
  <2> QED BY <1>3, <1>7, <2>3 DEF x
<1> QED BY <1>6, <1>7

\* What the property asks of a step from book b to book c.
NoLift(b, c) ==
  \A m \in Mints :
    LET p == b.pos[m]
        sold == p.units - c.pos[m].units
        received == c.cash - b.cash + Network
    IN  sold > 0 /\ p.marked => Equity(c) - Equity(b) <= Larger(received - p.mark, 0)

\* When no holding shrank, no sale lifted equity.
LEMMA NothingSold ==
  ASSUME NEW b \in Books, NEW c \in Books, \A m \in Mints : c.pos[m].units >= b.pos[m].units
  PROVE  NoLift(b, c)
<1>1. \A m \in Mints : c.pos[m].units \in Nat /\ b.pos[m].units \in Nat
  BY BookCosts
<1>2. \A m \in Mints : ~(b.pos[m].units - c.pos[m].units > 0)
  BY <1>1
<1> QED BY <1>2 DEF NoLift

\* A sale of a part lifts equity by no more than it was paid above the mark.
LEMMA PartNoLift ==
  ASSUME NEW b \in Books, NEW m \in Mints, NEW u \in 1 .. b.pos[m].units, u < b.pos[m].units,
         NEW proceeds \in Int
  PROVE  NoLift(b, Reduce(b, SellFill(m, u, proceeds)))
<1> DEFINE c == Reduce(b, SellFill(m, u, proceeds))
           p == b.pos[m]
           received == proceeds + Network
<1>1. Sold(b, c, m, u, proceeds)
  BY SellFilled
<1> HIDE DEF c
<1>2. PICK k \in Nat :
         /\ k = MarkLeft(p, p.units - u, received)
         /\ c.pos = [b.pos EXCEPT ![m] = [units |-> p.units - u, cost |-> p.cost - Slice(p, u),
                                         mark |-> k, marked |-> p.marked]]
  BY <1>1 DEF Sold
<1>3. c \in Books /\ c.cash = b.cash + proceeds
  BY <1>1 DEF Sold
<1> DEFINE q == c.pos[m]
<1>4. q.units = p.units - u /\ q.mark = k /\ q.marked = p.marked /\ SameElsewhere(b.pos, c.pos, m)
  BY <1>2 DEF Books, SameElsewhere
<1>5. p.units \in Nat /\ p.mark \in Nat /\ b.cash \in Int /\ c.cash \in Int /\ Network \in Nat
  <2>1. p \in Positions
    BY DEF Books
  <2> QED BY <1>3, <2>1, AccountsAssumption DEF Positions, Books
<1>6. m \in Held(b.pos) /\ m \in Held(c.pos)
  <2>1. p.units > 0 /\ q.units > 0
    BY <1>4, <1>5
  <2> QED BY <2>1 DEF Held
<1>7. PositionsTyped(b.pos) /\ PositionsTyped(c.pos)
  BY <1>3 DEF Books, PositionsTyped
<1>8. /\ Worth(b.pos) \in Int
      /\ Worth(c.pos) = Worth(b.pos) - PositionValue(p) + PositionValue(q)
  BY <1>4, <1>6, <1>7, WorthMoved
<1>9. Equity(c) = c.cash + Worth(c.pos) /\ Equity(b) = b.cash + Worth(b.pos)
  BY EquityIs
<1>10. k <= Larger(p.mark - received, 0)
  <2> DEFINE share == (p.mark * (p.units - u)) \div p.units
             rest == Larger(p.mark - received, 0)
  <2>1. share \in Nat
    <3>1. p.units - u \in Nat /\ p.units - u <= p.units /\ p.units \in Nat \ {0}
      BY <1>5
    <3> DEFINE left == p.units - u
    <3> HIDE DEF p, left
    <3>2. (p.mark * left) \div p.units \in 0 .. p.mark
      BY <1>5, <3>1, SliceBounds DEF left
    <3> QED BY <3>2 DEF left
  <2>2. received \in Int
    BY <1>5
  <2>3. rest \in Int
    <3> HIDE DEF received, p
    <3> QED BY <1>5, <2>2 DEF Larger
  <2>4. k = Smaller(share, rest)
    BY <1>2 DEF MarkLeft
  <2> HIDE DEF share, rest
  <2>5. k <= rest
    BY <2>1, <2>3, <2>4 DEF Smaller
  <2> QED BY <2>5 DEF rest
<1>11. p.marked => Equity(c) - Equity(b) <= Larger((c.cash - b.cash + Network) - p.mark, 0)
  <2> SUFFICES ASSUME p.marked PROVE Equity(c) - Equity(b) <= Larger((c.cash - b.cash + Network) - p.mark, 0)
    OBVIOUS
  <2>1. PositionValue(p) = p.mark /\ PositionValue(q) = k
    BY <1>4 DEF PositionValue
  <2>2. Equity(c) - Equity(b) = proceeds - p.mark + k
    <3> DEFINE w == Worth(b.pos)
               x == p.mark
    <3>1. /\ w \in Int /\ x \in Int /\ Worth(c.pos) = w - x + k
          /\ Equity(c) = c.cash + Worth(c.pos) /\ Equity(b) = b.cash + w
          /\ c.cash = b.cash + proceeds
      BY <1>3, <1>5, <1>8, <1>9, <2>1
    <3> HIDE DEF w, p, q
    <3> QED BY <1>5, <3>1
  <2>3. c.cash - b.cash + Network = received
    BY <1>3, <1>5
  <2>4. proceeds - p.mark + k <= Larger(received - p.mark, 0)
    <3> DEFINE x == p.mark
               y == received
    <3>1. x \in Nat /\ y \in Int /\ proceeds = y - Network /\ k <= Larger(x - y, 0)
      BY <1>5, <1>10
    <3> HIDE DEF x, y, p, received
    <3>2. proceeds - x + k <= Larger(y - x, 0)
      BY <1>5, <3>1 DEF Larger
    <3> QED BY <3>2 DEF x, y
  <2> HIDE DEF received, p
  <2> QED BY <2>2, <2>3, <2>4
<1>12. \A n \in Mints : n # m => c.pos[n].units = b.pos[n].units
  BY <1>4 DEF SameElsewhere
<1>13. \A n \in Mints : n # m => ~(b.pos[n].units - c.pos[n].units > 0)
  BY <1>12, BookCosts
<1> QED BY <1>11, <1>13 DEF NoLift, c

\* A sale of the whole lifts equity by no more than it was paid above the mark.
LEMMA CloseNoLift ==
  ASSUME NEW b \in Books, NEW m \in Mints, b.pos[m].units > 0, NEW proceeds \in Int
  PROVE  NoLift(b, Reduce(Reduce(b, SellFill(m, b.pos[m].units, proceeds)),
                          CloseRow(m, proceeds - b.pos[m].cost)))
<1> DEFINE p == b.pos[m]
           c == Reduce(b, SellFill(m, p.units, proceeds))
           d == Reduce(c, CloseRow(m, proceeds - p.cost))
<1>1. p.units \in Nat /\ p.cost \in Nat /\ p.mark \in Nat /\ b.cash \in Int /\ Network \in Nat
  <2>1. p \in Positions
    BY DEF Books
  <2> QED BY <2>1, AccountsAssumption DEF Positions, Books
<1>2. Sold(b, c, m, p.units, proceeds)
  BY <1>1, SellFilled
<1>3. c \in Books /\ c.cash = b.cash + proceeds /\ \E q : c.pos = [b.pos EXCEPT ![m] = q]
  BY <1>2 DEF Sold
<1> HIDE DEF c
<1>4. d \in Books /\ d.cash = c.cash /\ d.pos = [c.pos EXCEPT ![m] = Flat]
  <2>1. proceeds - p.cost \in Int
    BY <1>1
  <2> QED BY <1>3, <2>1, Closed
<1> HIDE DEF d
<1>5. d.pos[m] = Flat /\ SameElsewhere(b.pos, d.pos, m)
  BY <1>3, <1>4 DEF Books, SameElsewhere
<1>6. m \in Held(b.pos) /\ m \notin Held(d.pos)
  BY <1>5 DEF Held, Flat
<1>7. PositionsTyped(b.pos) /\ PositionsTyped(d.pos)
  BY <1>4 DEF Books, PositionsTyped
<1>8. Worth(b.pos) \in Int /\ Worth(d.pos) = Worth(b.pos) - PositionValue(p)
  BY <1>5, <1>6, <1>7, WorthMoved
<1>9. Equity(d) = d.cash + Worth(d.pos) /\ Equity(b) = b.cash + Worth(b.pos)
  BY EquityIs
<1>10. p.marked => Equity(d) - Equity(b) <= Larger((d.cash - b.cash + Network) - p.mark, 0)
  <2> SUFFICES ASSUME p.marked PROVE Equity(d) - Equity(b) <= Larger((d.cash - b.cash + Network) - p.mark, 0)
    OBVIOUS
  <2> DEFINE w == Worth(b.pos)
             x == p.mark
  <2>1. /\ w \in Int /\ x \in Nat /\ Worth(d.pos) = w - x
        /\ Equity(d) = d.cash + Worth(d.pos) /\ Equity(b) = b.cash + w
        /\ d.cash = b.cash + proceeds
    BY <1>1, <1>3, <1>4, <1>8, <1>9 DEF PositionValue
  <2> DEFINE gain == Equity(d) - Equity(b)
             paid == d.cash - b.cash + Network
  <2> HIDE DEF w, x, p
  <2>2. gain = proceeds - x /\ paid = proceeds + Network
    BY <1>1, <2>1
  <2> HIDE DEF gain, paid
  <2>3. gain <= Larger(paid - x, 0)
    BY <1>1, <2>1, <2>2 DEF Larger
  <2> QED BY <2>3 DEF x, gain, paid
<1>11. \A n \in Mints : n # m => d.pos[n].units = b.pos[n].units
  BY <1>5 DEF SameElsewhere
<1>12. \A n \in Mints : n # m => ~(b.pos[n].units - d.pos[n].units > 0)
  BY <1>11, BookCosts
<1> QED BY <1>10, <1>12 DEF NoLift, d, c

\* Any step of the accounts.
LEMMA SaleNoLift ==
  ASSUME AccountsInv, NEW m \in Mints, NEW u \in 1 .. book.pos[m].units, NEW proceeds \in Int,
         Post(SellRows(m, u, proceeds))
  PROVE  NoLift(book, book')
<1> DEFINE p == book.pos[m]
           r == SellFill(m, u, proceeds)
           o == CloseRow(m, proceeds - p.cost)
<1>1. log \in Seq(Row) /\ book \in Books
  BY DEF AccountsInv, Explained
<1>2. p.units \in Nat /\ p.cost \in Nat /\ u \in Nat /\ u > 0 /\ u <= p.units
  BY <1>1, BookCosts
<1>3. r \in Row /\ o \in Row
  BY <1>2, RowsTyped
<1>4. book' = Fold(book, SellRows(m, u, proceeds))
  BY DEF Post
<1>5. CASE u >= p.units
  <2>1. u = p.units /\ p.units > 0
    BY <1>2, <1>5
  <2>2. SellRows(m, u, proceeds) = <<r, o>>
    BY <1>5 DEF SellRows, SellFill, CloseRow
  <2>3. NoLift(book, Reduce(Reduce(book, r), o))
    BY <1>1, <2>1, CloseNoLift
  <2> HIDE DEF r, o
  <2>4. book' = Reduce(Reduce(book, r), o)
    BY <1>1, <1>3, <1>4, <2>2, PostTwo
  <2> QED BY <2>3, <2>4
<1>6. CASE ~(u >= p.units)
  <2>1. u < p.units
    BY <1>2, <1>6
  <2>2. SellRows(m, u, proceeds) = <<r>>
    BY <1>6 DEF SellRows, SellFill
  <2>3. NoLift(book, Reduce(book, r))
    BY <1>1, <2>1, PartNoLift
  <2> HIDE DEF r, o
  <2>4. book' = Reduce(book, r)
    BY <1>1, <1>3, <1>4, <2>2, PostOne
  <2> QED BY <2>3, <2>4
<1> QED BY <1>5, <1>6

\* A buy is no sale.
LEMMA BuyNoLift ==
  ASSUME AccountsInv, NEW m \in Mints, NEW u \in Units, NEW price \in Prices, Buy(m, u, price)
  PROVE  NoLift(book, book')
<1> DEFINE debit == u * price + Network
           r == BuyRows(m, u, debit)[1]
           o == BuyRows(m, u, debit)[2]
           c == Reduce(book, r)
           q == [units |-> u, cost |-> debit, mark |-> 0, marked |-> FALSE]
<1>1. u \in Nat \ {0} /\ price \in Nat /\ debit \in Nat
  <2>1. u \in Nat \ {0} /\ price \in Nat /\ Network \in Nat
    BY AccountsAssumption
  <2> QED BY <2>1
<1>2. BuyRows(m, u, debit) = <<r, o>> /\ r \in Row /\ o \in Row
  <2>1. BuyRows(m, u, debit) = <<r, o>>
    BY DEF BuyRows
  <2> QED BY <1>1, <2>1, RowsTyped
<1>3. log \in Seq(Row) /\ book \in Books
  BY DEF AccountsInv, Explained
<1>4. book.pos[m].units = 0
  <2>1. book.pos[m].units \in Nat
    BY <1>3, BookCosts
  <2> QED BY <2>1 DEF Buy, Held
<1> HIDE DEF debit
<1>5. c \in Books /\ c.pos = book.pos
  BY <1>1, <1>3, <1>4, BuyFilled
<1> HIDE DEF c
<1>6. Reduce(c, o).pos = [c.pos EXCEPT ![m] = q] /\ Reduce(c, o) \in Books
  <2>1. c \in Books /\ u \in Nat /\ debit \in Nat
    BY <1>1, <1>5
  <2>2. /\ Reduce(c, BuyRows(m, u, debit)[2]) \in Books
        /\ Reduce(c, BuyRows(m, u, debit)[2]).pos
             = [c.pos EXCEPT ![m] = [units |-> u, cost |-> debit, mark |-> 0, marked |-> FALSE]]
    BY <2>1, Opened
  <2> QED BY <2>2
<1>7. q.units = u
  OBVIOUS
<1> HIDE DEF q, r, o
<1>8. book' = Reduce(c, o)
  <2>1. book' = Fold(book, <<r, o>>)
    BY <1>2 DEF Buy, Post, debit
  <2> QED BY <1>2, <1>3, <2>1, PostTwo DEF c
<1>9. \A n \in Mints : Reduce(c, o).pos[n].units >= book.pos[n].units
  <2>1. Reduce(c, o).pos[m] = q /\ \A n \in Mints : n # m => Reduce(c, o).pos[n] = book.pos[n]
    BY <1>5, <1>6 DEF Books
  <2>2. \A n \in Mints : book.pos[n].units \in Nat
    BY <1>3, BookCosts
  <2> QED BY <1>1, <1>4, <1>7, <2>1, <2>2
<1>10. NoLift(book, Reduce(c, o))
  BY <1>3, <1>6, <1>9, NothingSold
<1> QED BY <1>8, <1>10

\* Nor is a step that leaves every holding its units.
LEMMA SameUnits ==
  ASSUME NEW b \in Books, NEW c \in Books, \A m \in Mints : c.pos[m].units = b.pos[m].units
  PROVE  NoLift(b, c)
<1>1. \A m \in Mints : c.pos[m].units \in Nat
  BY BookCosts
<1>2. \A m \in Mints : c.pos[m].units >= b.pos[m].units
  BY <1>1
<1> QED BY <1>2, NothingSold

\* Refusals, marks and rollovers are no sales.
LEMMA OtherNoLift ==
  ASSUME AccountsInv, Reject \/ EndMark \/ Rollover \/ UNCHANGED book
  PROVE  NoLift(book, book')
<1>1. log \in Seq(Row) /\ book \in Books
  BY DEF AccountsInv, Explained
<1>2. CASE UNCHANGED book
  BY <1>1, <1>2, SameUnits
<1>3. CASE Reject
  <2>1. PICK fees \in {0, Network} : Post(<<[type |-> "OrderRejected", fees |-> fees]>>)
    BY <1>3 DEF Reject
  <2> DEFINE r == RefusalRow(fees)
  <2>2. fees \in Nat /\ r \in Row
    <3>1. fees \in Nat
      BY AccountsAssumption
    <3> QED BY <3>1 DEF RefusalRow, Row
  <2>3. Reduce(book, r) \in Books /\ Reduce(book, r).pos = book.pos
    BY <1>1, <2>2, Rejected
  <2>4. Post(<<r>>)
    BY <2>1 DEF RefusalRow
  <2> HIDE DEF r
  <2>5. book' = Reduce(book, r)
    BY <1>1, <2>2, <2>4, PostOne DEF Post
  <2>6. NoLift(book, Reduce(book, r))
    BY <1>1, <2>3, SameUnits
  <2> QED BY <2>5, <2>6
<1>4. CASE EndMark
  <2>1. CASE UNCHANGED book
    BY <1>1, <2>1, SameUnits
  <2>2. ASSUME NEW r, MarkKind(r), Post(<<r>>) PROVE NoLift(book, book')
    <3>1. r \in Row /\ r.type = "MarkToMarket"
      BY <2>2 DEF MarkKind
    <3>2. PICK S \in SUBSET Mints : r.marks \in [S -> Nat]
      BY <2>2 DEF MarkKind
    <3>3. Reduce(book, r) \in Books /\ Remarked(book.pos, Reduce(book, r).pos)
      BY <1>1, <3>1, <3>2, Marked
    <3>4. book' = Reduce(book, r)
      BY <1>1, <2>2, <3>1, PostOne DEF Post
    <3>5. NoLift(book, Reduce(book, r))
      BY <1>1, <3>3, SameUnits DEF Remarked
    <3> QED BY <3>4, <3>5
  <2> QED BY <1>4, <2>1, <2>2, EndMarkRow
<1>5. CASE Rollover
  <2>1. CASE UNCHANGED book
    BY <1>1, <2>1, SameUnits
  <2>2. CASE Post(<<RolloverRow(today, Equity(book))>>)
    <3> DEFINE r == RolloverRow(today, Equity(book))
    <3>1. Equity(book) \in Int /\ today \in Nat
      BY <1>1, EquityInt DEF Books, AccountsInv
    <3>2. r \in Row
      BY <3>1 DEF RolloverRow, Row
    <3>3. Reduce(book, r) \in Books /\ Reduce(book, r).pos = book.pos
      BY <1>1, <3>1, RolledBook
    <3> HIDE DEF r
    <3>4. Post(<<r>>)
      BY <2>2 DEF r
    <3>5. book' = Reduce(book, r)
      BY <1>1, <3>2, <3>4, PostOne DEF Post
    <3>6. NoLift(book, Reduce(book, r))
      BY <1>1, <3>3, SameUnits
    <3> QED BY <3>5, <3>6
  <2> QED BY <1>5, <2>1, <2>2 DEF Rollover, RolloverRow
<1> QED BY <1>2, <1>3, <1>4, <1>5

\* No step lifts equity by a sale beyond what it was paid above the mark.
LEMMA NextNoLift == ASSUME AccountsInv, [AccountsNext]_accountVars PROVE NoLift(book, book')
<1>1. ASSUME NEW m \in Mints, NEW price \in Prices, NEW u \in Units, Buy(m, u, price)
      PROVE  NoLift(book, book')
  BY <1>1, BuyNoLift
<1>2. ASSUME NEW m \in Mints, NEW price \in Prices, NEW u \in 1 .. book.pos[m].units, Sell(m, u, price)
      PROVE  NoLift(book, book')
  <2> DEFINE proceeds == u * price - Network
  <2>1. proceeds \in Int
    <3>1. u \in Int /\ price \in Int /\ Network \in Int
      BY AccountsAssumption
    <3> QED BY <3>1
  <2>2. Post(SellRows(m, u, proceeds))
    BY <1>2 DEF Sell
  <2> HIDE DEF proceeds
  <2> QED BY <2>1, <2>2, SaleNoLift
<1>3. ASSUME NEW m \in Mints, ForceClose(m) PROVE NoLift(book, book')
  <2> DEFINE proceeds == book.pos[m].mark - Network
             u == book.pos[m].units
  <2>1. proceeds \in Int /\ u \in 1 .. book.pos[m].units
    <3>1. book.pos[m] \in Positions
      BY DEF AccountsInv, Explained, Books
    <3>2. book.pos[m].mark \in Nat /\ u \in Nat /\ u > 0
      BY <1>3, <3>1 DEF Positions, ForceClose, Held
    <3> QED BY <3>2, AccountsAssumption
  <2>2. Post(SellRows(m, u, proceeds))
    BY <1>3 DEF ForceClose
  <2> HIDE DEF proceeds, u
  <2> QED BY <2>1, <2>2, SaleNoLift
<1>4. CASE Reject \/ EndMark \/ Rollover \/ UNCHANGED book
  BY <1>4, OtherNoLift
<1>5. CASE BeginMark \/ NewDay \/ Shutdown \/ Die \/ UNCHANGED accountVars
  <2>1. UNCHANGED book
    BY <1>5 DEF BeginMark, NewDay, Shutdown, Die, accountVars
  <2> QED BY <2>1, OtherNoLift
<1> QED BY <1>1, <1>2, <1>3, <1>4, <1>5 DEF AccountsNext

\* Turning part of a marked position into cash does not lift equity.
THEOREM SalesDoNotLift == AccountsSpec => SaleNeverLifts
<1>1. AccountsInv /\ [AccountsNext]_accountVars => NoLift(book, book')
  BY NextNoLift
<1>2. NoLift(book, book') =>
        \A m \in Mints :
          LET p == book.pos[m]
              sold == p.units - book'.pos[m].units
              received == book'.cash - book.cash + Network
          IN  sold > 0 /\ p.marked =>
                Equity(book') - Equity(book) <= Larger(received - p.mark, 0)
  BY DEF NoLift
<1> QED BY <1>1, <1>2, AccountsInvariance, PTL DEF AccountsSpec, SaleNeverLifts

-----------------------------------------------------------------------------
(* The reports: the equity path *)

PathNext(r, past) == Append(past, Reduce(Last(past), r))
PathFold == INSTANCE FoldFacts WITH Op <- PathNext, Choose <- Max

\* The books the equity path is taken from: before the rows, and after each.
BooksAlong(l) == FoldLeft(LAMBDA past, r : Append(past, Reduce(Last(past), r)), <<InitialState>>, l)

\* The path's fold is an iteration of one more book.
LEMMA BooksIterate ==
  ASSUME NEW l
  PROVE  BooksAlong(l) = PathFold!Iterated(<<InitialState>>, l, DOMAIN l)
BY DEF BooksAlong, FoldLeft, MapThenFoldSet, PathFold!Iterated, PathFold!IsIter, PathNext

\* With no rows the path is the book it starts from; one more row adds its book.
LEMMA BooksNext ==
  ASSUME NEW R, NEW l \in Seq(R), NEW r
  PROVE  /\ BooksAlong(<<>>) = <<InitialState>>
         /\ BooksAlong(Append(l, r)) = Append(BooksAlong(l), Reduce(Last(BooksAlong(l)), r))
<1>1. BooksAlong(<<>>) = <<InitialState>>
  <2>1. DOMAIN << >> = {}
    OBVIOUS
  <2> QED BY <2>1, BooksIterate, PathFold!IteratedEmpty
<1>2. BooksAlong(Append(l, r)) = Append(BooksAlong(l), Reduce(Last(BooksAlong(l)), r))
  <2> DEFINE n == Len(l)
             more == Append(l, r)
             b == <<InitialState>>
  <2>1. /\ n \in Nat /\ DOMAIN l = 1 .. n /\ DOMAIN more = 1 .. n + 1
        /\ more[n + 1] = r /\ \A i \in 1 .. n : more[i] = l[i]
    OBVIOUS
  <2> HIDE DEF n, more, b
  <2>2. PathFold!Chooses(1 .. n + 1) /\ PathFold!Chooses(1 .. n) /\ PathFold!TakesLast
    <3>1. RowFold!Chooses(1 .. n + 1) /\ RowFold!Chooses(1 .. n) /\ RowFold!TakesLast
      BY <2>1, RowsTakeLast
    <3> QED BY <3>1 DEF RowFold!Chooses, RowFold!TakesLast, PathFold!Chooses, PathFold!TakesLast
  <2>3. PathFold!IsFiniteSet(1 .. n)
    <3>1. IsFiniteSet(1 .. n)
      BY <2>1, PlacesFinite
    <3> QED BY <3>1 DEF IsFiniteSet, PathFold!IsFiniteSet
  <2>4. PathFold!Iterated(b, more, 1 .. n + 1)
          = PathNext(more[n + 1], PathFold!Iterated(b, more, 1 .. n))
    BY <2>1, <2>2, PathFold!IteratedNext
  <2>5. PathFold!Iterated(b, more, 1 .. n) = PathFold!Iterated(b, l, 1 .. n)
    BY <2>1, <2>2, <2>3, PathFold!IteratedOfEqual
  <2>6. BooksAlong(more) = PathFold!Iterated(b, more, 1 .. n + 1)
        /\ BooksAlong(l) = PathFold!Iterated(b, l, 1 .. n)
    BY <2>1, BooksIterate DEF b
  <2> QED BY <2>1, <2>4, <2>5, <2>6 DEF PathNext, more
<1> QED BY <1>1, <1>2

\* Equity after row i, 0 for before the first.
EquityAt(l, i) == Equity(BooksAlong(l)[i + 1])

\* The path starts at the genesis and ends at the book of all rows.
PathEnds(l, b) ==
  /\ BooksAlong(l) \in Seq(Books) /\ Len(BooksAlong(l)) = Len(l) + 1
  /\ Last(BooksAlong(l)) = b /\ EquityAt(l, 0) = Equity(InitialState)

\* The initial book is one.
LEMMA GenesisBook == InitialState \in Books
BY FlatTyped, AccountsAssumption DEF InitialState, Books

\* One more row adds a point to the path and leaves the others.
LEMMA PathGrows ==
  ASSUME NEW l \in Seq(Row), NEW b, PathEnds(l, b), NEW r, Reduce(b, r) \in Books
  PROVE  /\ PathEnds(Append(l, r), Reduce(b, r))
         /\ \A i \in 0 .. Len(l) : EquityAt(Append(l, r), i) = EquityAt(l, i)
         /\ EquityAt(Append(l, r), Len(l) + 1) = Equity(Reduce(b, r))
<1> DEFINE w == BooksAlong(l)
           v == BooksAlong(Append(l, r))
           c == Reduce(b, r)
           n == Len(l)
<1>1. n \in Nat /\ Len(Append(l, r)) = n + 1
  OBVIOUS
<1>2. w \in Seq(Books) /\ Len(w) = n + 1 /\ Last(w) = b /\ EquityAt(l, 0) = Equity(InitialState)
  BY DEF PathEnds
<1>3. v = Append(w, c)
  BY <1>2, BooksNext
<1>4. c \in Books
  OBVIOUS
<1> HIDE DEF c, v, w, n
<1>5. v \in Seq(Books) /\ Len(v) = n + 2 /\ v[n + 2] = c /\ \A i \in 1 .. n + 1 : v[i] = w[i]
  BY <1>1, <1>2, <1>3, <1>4
<1>6. Last(v) = c
  BY <1>1, <1>5 DEF Last
<1>7. \A i \in 0 .. n : v[i + 1] = w[i + 1]
  BY <1>1, <1>5
<1>8. \A i \in 0 .. n : EquityAt(Append(l, r), i) = EquityAt(l, i)
  BY <1>7 DEF EquityAt, v, w
<1>9. EquityAt(Append(l, r), n + 1) = Equity(c)
  <2>1. n + 1 + 1 = n + 2
    BY <1>1
  <2> QED BY <1>5, <2>1 DEF EquityAt, v
<1>10. 0 \in 0 .. n
  BY <1>1
<1>11. PathEnds(Append(l, r), c)
  <2>1. Len(v) = Len(Append(l, r)) + 1
    BY <1>1, <1>5
  <2> QED BY <1>2, <1>5, <1>6, <1>8, <1>10, <2>1 DEF PathEnds, v
<1> QED BY <1>8, <1>9, <1>11 DEF c, n

Purchases == {"BuyFill", "PositionOpened"}

\* The book's peak is the highest equity of the path.
PeakIs(l, b) ==
  /\ \E i \in SettledPoints(l) : EquityAt(l, i) = b.peak
  /\ \A i \in SettledPoints(l) : EquityAt(l, i) <= b.peak

\* Between points with nothing but purchases between them equity stays.
StaysFlat(l) ==
  \A i, j \in SettledPoints(l) :
    i < j /\ (\A k \in i + 1 .. j : l[k].type \in Purchases) => EquityAt(l, i) = EquityAt(l, j)

\* The points are places of the rows, the start and the end among them.
LEMMA PointsAre ==
  ASSUME NEW l \in Seq(Row)
  PROVE  SettledPoints(l) \subseteq 0 .. Len(l) /\ Len(l) \in SettledPoints(l) /\ 0 \in SettledPoints(l)
<1>1. DOMAIN l = 1 .. Len(l) /\ Len(l) \in Nat
  OBVIOUS
<1>2. Len(l) \in SettledPoints(l)
  BY <1>1 DEF SettledPoints
<1> QED BY <1>1, <1>2 DEF SettledPoints

\* k has the rows of l, and of the places after them only its last is a point.
Lengthens(l, k) ==
  /\ k \in Seq(Row) /\ Len(k) > Len(l)
  /\ \A i \in 1 .. Len(l) : k[i] = l[i]
  /\ SettledPoints(k) = SettledPoints(l) \cup {Len(k)}

\* A batch of one row that settles no fill makes one point.
LEMMA OnePoint ==
  ASSUME NEW l \in Seq(Row), NEW r \in Row, ~IsSettlement(r)
  PROVE  Lengthens(l, Append(l, r))
<1> DEFINE n == Len(l)
           k == Append(l, r)
<1>1. /\ n \in Nat /\ DOMAIN l = 1 .. n /\ DOMAIN k = 1 .. n + 1 /\ Len(k) = n + 1
      /\ k[n + 1] = r /\ k \in Seq(Row) /\ \A i \in 1 .. n : k[i] = l[i]
  OBVIOUS
<1> HIDE DEF n, k
<1>2. ASSUME NEW i \in 1 .. n
      PROVE  i \in SettledPoints(k) <=> i \in SettledPoints(l)
  <2>1. CASE i = n
    <3>1. n \in SettledPoints(l)
      BY PointsAre DEF n
    <3>2. n \in SettledPoints(k)
      BY <1>1, <1>2, <2>1 DEF SettledPoints
    <3> QED BY <2>1, <3>1, <3>2
  <2>2. CASE i # n
    <3>1. i + 1 \in 1 .. n /\ i # n + 1 /\ i \in DOMAIN l /\ i \in DOMAIN k
      BY <1>1, <2>2
    <3>2. k[i] = l[i] /\ k[i + 1] = l[i + 1]
      BY <1>1, <3>1
    <3> QED BY <1>1, <2>2, <3>1, <3>2 DEF SettledPoints, n
  <2> QED BY <2>1, <2>2
<1>3. n + 1 \in SettledPoints(k) /\ 0 \in SettledPoints(k) /\ 0 \in SettledPoints(l)
  BY <1>1, PointsAre
<1>4. SettledPoints(k) \subseteq 0 .. n + 1 /\ SettledPoints(l) \subseteq 0 .. n
  BY <1>1, PointsAre DEF n
<1>5. SettledPoints(k) = SettledPoints(l) \cup {n + 1}
  <2>1. \A i \in 0 .. n + 1 : i = 0 \/ i = n + 1 \/ i \in 1 .. n
    BY <1>1
  <2>2. \A i \in 0 .. n : i \in 0 .. n + 1 /\ i # n + 1
    BY <1>1
  <2> QED BY <1>2, <1>3, <1>4, <2>1, <2>2
<1>6. Len(k) > n /\ \A i \in 1 .. n : k[i] = l[i]
  BY <1>1
<1> QED BY <1>1, <1>5, <1>6 DEF Lengthens, n, k

\* A fill with the row that settles it makes one point, after both.
LEMMA PairPoint ==
  ASSUME NEW l \in Seq(Row), NEW r \in Row, NEW o \in Row, IsFill(r), IsSettlement(o)
  PROVE  Lengthens(l, Append(Append(l, r), o))
<1> DEFINE n == Len(l)
           j == Append(l, r)
           k == Append(j, o)
<1>1. /\ n \in Nat /\ DOMAIN j = 1 .. n + 1 /\ Len(j) = n + 1
      /\ j[n + 1] = r /\ j \in Seq(Row) /\ \A i \in 1 .. n : j[i] = l[i]
  OBVIOUS
<1>2. ~IsSettlement(r)
  BY DEF IsFill, IsSettlement
<1>3. Lengthens(l, j)
  BY <1>2, OnePoint
<1> HIDE DEF n, j
<1>4. /\ DOMAIN k = 1 .. n + 2 /\ Len(k) = n + 2
      /\ k[n + 2] = o /\ k \in Seq(Row) /\ \A i \in 1 .. n + 1 : k[i] = j[i]
  BY <1>1
<1> HIDE DEF k
<1>5. ASSUME NEW i \in 1 .. n
      PROVE  i \in SettledPoints(k) <=> i \in SettledPoints(j)
  <2>1. i + 1 \in 1 .. n + 1 /\ i # n + 1 /\ i # n + 2 /\ i \in DOMAIN j /\ i \in DOMAIN k
    BY <1>1, <1>4
  <2>2. k[i] = j[i] /\ k[i + 1] = j[i + 1]
    BY <1>1, <1>4, <2>1
  <2> QED BY <1>1, <1>4, <2>1, <2>2 DEF SettledPoints
<1>6. n + 1 \notin SettledPoints(k)
  <2>1. n + 1 \in DOMAIN k /\ n + 1 # 0 /\ n + 1 # n + 2 /\ k[n + 1] = r /\ k[n + 1 + 1] = o
    <3>1. n + 1 + 1 = n + 2 /\ n + 1 \in 1 .. n + 1 /\ n + 1 \in 1 .. n + 2
      BY <1>1
    <3> QED BY <1>1, <1>4, <3>1
  <2> QED BY <1>4, <2>1 DEF SettledPoints
<1>7. /\ SettledPoints(k) \subseteq 0 .. n + 2 /\ n + 2 \in SettledPoints(k) /\ 0 \in SettledPoints(k)
      /\ SettledPoints(j) = SettledPoints(l) \cup {n + 1} /\ SettledPoints(l) \subseteq 0 .. n
      /\ 0 \in SettledPoints(l)
  <2>1. /\ SettledPoints(k) \subseteq 0 .. n + 2 /\ n + 2 \in SettledPoints(k) /\ 0 \in SettledPoints(k)
    BY <1>4, PointsAre
  <2>2. SettledPoints(l) \subseteq 0 .. n /\ 0 \in SettledPoints(l)
    BY PointsAre DEF n
  <2>3. SettledPoints(j) = SettledPoints(l) \cup {n + 1}
    BY <1>1, <1>3 DEF Lengthens
  <2> QED BY <2>1, <2>2, <2>3
<1>8. SettledPoints(k) = SettledPoints(l) \cup {n + 2}
  <2>1. \A i \in 0 .. n + 2 : i = 0 \/ i = n + 2 \/ i = n + 1 \/ i \in 1 .. n
    BY <1>1
  <2>2. \A i \in 0 .. n : i \in 0 .. n + 2 /\ i # n + 1 /\ i # n + 2 /\ (i = 0 \/ i \in 1 .. n)
    BY <1>1
  <2>3. \A i \in 1 .. n : i # n + 1
    BY <1>1
  <2> QED BY <1>5, <1>6, <1>7, <2>1, <2>2, <2>3
<1>9. Len(k) > n /\ \A i \in 1 .. n : k[i] = l[i]
  <2>1. \A i \in 1 .. n : i \in 1 .. n + 1
    BY <1>1
  <2> QED BY <1>1, <1>4, <2>1
<1> QED BY <1>4, <1>8, <1>9 DEF Lengthens, n, k, j

\* The path of more rows goes on from that of the rows so far.
GoesOn(l, k, c) ==
  /\ \A i \in 0 .. Len(l) : EquityAt(k, i) = EquityAt(l, i)
  /\ EquityAt(k, Len(k)) = Equity(c)

\* Equities along the path are whole numbers.
LEMMA EquityAtInt ==
  ASSUME NEW l \in Seq(Row), NEW b, PathEnds(l, b), NEW i \in 0 .. Len(l)
  PROVE  EquityAt(l, i) \in Int
<1>1. Len(l) \in Nat /\ i + 1 \in 1 .. Len(l) + 1
  OBVIOUS
<1>2. BooksAlong(l)[i + 1] \in Books
  BY <1>1 DEF PathEnds
<1> QED BY <1>2, EquityInt DEF EquityAt, Books

\* The last equity of the path is the book's.
LEMMA EquityAtEnd ==
  ASSUME NEW l \in Seq(Row), NEW b, PathEnds(l, b)
  PROVE  EquityAt(l, Len(l)) = Equity(b)
BY DEF PathEnds, EquityAt, Last

\* A new point raises the peak by what the reducer raises it by.
LEMMA PeakNext ==
  ASSUME NEW l \in Seq(Row), NEW k, NEW b \in Books, NEW c \in Books, PathEnds(l, b),
         Lengthens(l, k), GoesOn(l, k, c), PeakIs(l, b), c.peak = Larger(b.peak, Equity(c))
  PROVE  PeakIs(k, c)
<1>1. b.peak \in Int /\ Equity(c) \in Int
  BY EquityInt DEF Books
<1>2. \A i \in SettledPoints(l) : EquityAt(k, i) = EquityAt(l, i) /\ EquityAt(l, i) \in Int
  BY PointsAre, EquityAtInt DEF GoesOn
<1>3. SettledPoints(k) = SettledPoints(l) \cup {Len(k)} /\ EquityAt(k, Len(k)) = Equity(c)
  BY DEF Lengthens, GoesOn
<1>4. \A i \in SettledPoints(k) : EquityAt(k, i) <= c.peak
  BY <1>1, <1>2, <1>3 DEF PeakIs, Larger
<1>5. \E i \in SettledPoints(k) : EquityAt(k, i) = c.peak
  <2>1. CASE b.peak >= Equity(c)
    BY <1>2, <1>3, <2>1 DEF PeakIs, Larger
  <2>2. CASE ~(b.peak >= Equity(c))
    BY <1>3, <2>2 DEF Larger
  <2> QED BY <2>1, <2>2
<1> QED BY <1>4, <1>5 DEF PeakIs

\* A purchase leaves equity where it was; another batch does not end in a purchase's row.
LEMMA FlatNext ==
  ASSUME NEW l \in Seq(Row), NEW k, NEW b, NEW c, PathEnds(l, b),
         Lengthens(l, k), GoesOn(l, k, c), StaysFlat(l),
         Equity(c) = Equity(b) \/ k[Len(k)].type \notin Purchases
  PROVE  StaysFlat(k)
<1> DEFINE n == Len(l)
           h == Len(k)
<1>1. /\ n \in Nat /\ h \in Nat /\ h > n /\ \A i \in 1 .. n : k[i] = l[i]
      /\ SettledPoints(k) = SettledPoints(l) \cup {h}
      /\ SettledPoints(l) \subseteq 0 .. n /\ n \in SettledPoints(l)
  BY PointsAre DEF Lengthens
<1>2. /\ \A i \in 0 .. n : EquityAt(k, i) = EquityAt(l, i)
      /\ EquityAt(k, h) = Equity(c) /\ EquityAt(l, n) = Equity(b)
  BY EquityAtEnd DEF GoesOn
<1> HIDE DEF n, h
<1> SUFFICES ASSUME NEW i \in SettledPoints(k), NEW j \in SettledPoints(k), i < j,
                    \A x \in i + 1 .. j : k[x].type \in Purchases
             PROVE  EquityAt(k, i) = EquityAt(k, j)
  BY DEF StaysFlat
<1>3. i \in SettledPoints(l) /\ i \in 0 .. n
  <2>1. j <= h
    BY <1>1
  <2> QED BY <1>1, <2>1
<1>4. CASE j \in SettledPoints(l)
  <2>1. \A x \in i + 1 .. j : l[x].type \in Purchases
    <3>1. \A x \in i + 1 .. j : x \in 1 .. n
      BY <1>1, <1>3, <1>4
    <3> QED BY <1>1, <3>1
  <2>2. EquityAt(l, i) = EquityAt(l, j)
    BY <1>3, <1>4, <2>1 DEF StaysFlat
  <2> QED BY <1>1, <1>2, <1>3, <1>4, <2>2
<1>5. CASE j = h
  <2>1. h \in i + 1 .. j
    BY <1>1, <1>3, <1>5
  <2>2. Equity(c) = Equity(b)
    BY <2>1 DEF h
  <2>3. EquityAt(l, i) = EquityAt(l, n)
    <3>1. CASE i = n
      BY <3>1
    <3>2. CASE i # n
      <4>1. i < n
        BY <1>1, <1>3, <3>2
      <4>2. \A x \in i + 1 .. n : l[x].type \in Purchases
        <5>1. \A x \in i + 1 .. n : x \in 1 .. n /\ x \in i + 1 .. j
          BY <1>1, <1>3, <1>5
        <5> QED BY <1>1, <5>1
      <4> QED BY <1>1, <1>3, <4>1, <4>2 DEF StaysFlat
    <3> QED BY <3>1, <3>2
  <2> QED BY <1>2, <1>3, <1>5, <2>2, <2>3
<1> QED BY <1>1, <1>4, <1>5

-----------------------------------------------------------------------------
(* The reports: counts of rows *)

\* The rows of a type.
Kind(l, type) == {i \in DOMAIN l : l[i].type = type}

\* One more row joins the rows of its type.
LEMMA KindNext ==
  ASSUME NEW l \in Seq(Row), NEW r \in Row, NEW type
  PROVE  /\ Kind(l, type) \subseteq 1 .. Len(l) /\ IsFiniteSet(Kind(l, type))
         /\ Cardinality(Kind(l, type)) \in Nat
         /\ Kind(Append(l, r), type)
              = IF r.type = type THEN Kind(l, type) \cup {Len(l) + 1} ELSE Kind(l, type)
         /\ Cardinality(Kind(Append(l, r), type))
              = IF r.type = type THEN Cardinality(Kind(l, type)) + 1 ELSE Cardinality(Kind(l, type))
<1> DEFINE n == Len(l)
           k == Append(l, r)
           S == Kind(l, type)
<1>1. /\ n \in Nat /\ DOMAIN l = 1 .. n /\ DOMAIN k = 1 .. n + 1
      /\ k[n + 1] = r /\ \A i \in 1 .. n : k[i] = l[i]
  OBVIOUS
<1> HIDE DEF n, k
<1>2. S \in SUBSET (1 .. n) /\ n + 1 \notin S
  BY <1>1 DEF Kind
<1>3. Kind(k, type) = IF r.type = type THEN S \cup {n + 1} ELSE S
  BY <1>1 DEF Kind
<1>4. IsFiniteSet(S) /\ Cardinality(S) \in Nat
  <2>1. IsFiniteSet(1 .. n)
    BY <1>1, PlacesFinite
  <2> HIDE DEF S
  <2>2. IsFiniteSet(S)
    BY <1>2, <2>1, FS_Subset
  <2> QED BY <2>2, FS_CardinalityType
<1>5. Cardinality(Kind(k, type)) = IF r.type = type THEN Cardinality(S) + 1 ELSE Cardinality(S)
  <2> HIDE DEF S
  <2>1. Cardinality(S \cup {n + 1}) = Cardinality(S) + 1
    BY <1>2, <1>4, FS_AddElement
  <2> QED BY <1>3, <2>1
<1> QED BY <1>2, <1>3, <1>4, <1>5 DEF n, k

FillPlaces(l) == {i \in DOMAIN l : IsFill(l[i])}

\* The curve has a point for each fill.
CurveCounts(l) == Cardinality(CurvePoints(l)) = Cardinality(FillPlaces(l))

\* One more row keeps the curve at a point a fill: a fill begins a point, another
\* row moves the last point to itself.
LEMMA CurveNext ==
  ASSUME NEW l \in Seq(Row), NEW r \in Row, CurveCounts(l)
  PROVE  CurveCounts(Append(l, r))
<1> DEFINE n == Len(l)
           k == Append(l, r)
           C == CurvePoints(l)
           F == FillPlaces(l)
<1>1. /\ n \in Nat /\ DOMAIN l = 1 .. n /\ DOMAIN k = 1 .. n + 1 /\ Len(k) = n + 1
      /\ k[n + 1] = r /\ \A i \in 1 .. n : k[i] = l[i]
  OBVIOUS
<1> HIDE DEF k
<1>2. C \in SUBSET (1 .. n) /\ F \in SUBSET (1 .. n) /\ n + 1 \notin C /\ n + 1 \notin F
  <2>1. C \in SUBSET (1 .. n) /\ F \in SUBSET (1 .. n)
    BY <1>1 DEF CurvePoints, FillPlaces
  <2> HIDE DEF C, F, n
  <2>2. n + 1 \notin 1 .. n
    BY <1>1
  <2> QED BY <2>1, <2>2
<1>3. IsFiniteSet(C) /\ IsFiniteSet(F) /\ Cardinality(C) = Cardinality(F) /\ Cardinality(C) \in Nat
  <2>1. IsFiniteSet(1 .. n)
    BY <1>1, PlacesFinite
  <2>2. IsFiniteSet(C) /\ IsFiniteSet(F)
    <3> HIDE DEF C, F
    <3> QED BY <1>2, <2>1, FS_Subset
  <2> QED BY <2>2, FS_CardinalityType DEF CurveCounts
<1>4. ASSUME NEW i \in 1 .. n
      PROVE  /\ (\E j \in 1 .. i : IsFill(k[j])) <=> (\E j \in 1 .. i : IsFill(l[j]))
             /\ i # n => (i \in CurvePoints(k) <=> i \in C)
             /\ i = n => /\ i \in C <=> F # {}
                         /\ i \in CurvePoints(k) <=> IsFill(r) /\ F # {}
  <2>1. \A j \in 1 .. i : j \in 1 .. n /\ k[j] = l[j]
    BY <1>1
  <2>2. (\E j \in 1 .. i : IsFill(k[j])) <=> (\E j \in 1 .. i : IsFill(l[j]))
    BY <2>1
  <2>3. ASSUME i # n PROVE i \in CurvePoints(k) <=> i \in C
    <3>1. i + 1 \in 1 .. n /\ i # n + 1 /\ i \in 1 .. n + 1
      <4> HIDE DEF n, C, F
      <4> QED BY <1>1, <2>3
    <3>2. k[i + 1] = l[i + 1]
      BY <1>1, <3>1
    <3> QED BY <1>1, <2>2, <2>3, <3>1, <3>2 DEF CurvePoints
  <2>4. ASSUME i = n PROVE /\ i \in C <=> F # {}
                           /\ i \in CurvePoints(k) <=> IsFill(r) /\ F # {}
    <3>1. (\E j \in 1 .. i : IsFill(l[j])) <=> F # {}
      BY <1>1, <2>4 DEF FillPlaces
    <3>2. i \in 1 .. n + 1 /\ i # n + 1
      BY <1>1
    <3> QED BY <1>1, <2>2, <2>4, <3>1, <3>2 DEF CurvePoints
  <2> QED BY <2>2, <2>3, <2>4
<1>5. CurvePoints(k) \in SUBSET (1 .. n + 1)
  BY <1>1 DEF CurvePoints
<1>6. \A i \in 1 .. n + 1 : i = n + 1 \/ (i # n + 1 /\ i \in 1 .. n)
  BY <1>1
<1>7. n + 1 \in CurvePoints(k) <=> IsFill(r) \/ F # {}
  <2>1. n + 1 \in 1 .. n + 1 /\ \A j \in 1 .. n : j \in 1 .. n + 1
    BY <1>1
  <2>2. (\E j \in 1 .. n + 1 : IsFill(k[j])) <=> IsFill(r) \/ F # {}
    BY <1>1, <1>6, <2>1 DEF FillPlaces
  <2> QED BY <1>1, <2>1, <2>2 DEF CurvePoints
<1>8. FillPlaces(k) = IF IsFill(r) THEN F \cup {n + 1} ELSE F
  BY <1>1, <1>6 DEF FillPlaces
<1>9. n = 0 => F = {}
  BY <1>1, <1>2
<1> HIDE DEF C, F, n
<1>10. CASE IsFill(r)
  <2>1. CurvePoints(k) = C \cup {n + 1}
    <3>1. \A i \in 1 .. n : i \in CurvePoints(k) <=> i \in C
      BY <1>4, <1>10
    <3> QED BY <1>1, <1>2, <1>5, <1>6, <1>7, <1>10, <3>1
  <2>2. Cardinality(C \cup {n + 1}) = Cardinality(C) + 1 /\ Cardinality(F \cup {n + 1}) = Cardinality(F) + 1
    BY <1>2, <1>3, FS_AddElement
  <2> QED BY <1>3, <1>8, <1>10, <2>1, <2>2 DEF CurveCounts, k
<1>11. CASE ~IsFill(r) /\ F = {}
  <2>1. CurvePoints(k) = C
    <3>1. \A i \in 1 .. n : i \in CurvePoints(k) <=> i \in C
      BY <1>4, <1>11
    <3> QED BY <1>1, <1>2, <1>5, <1>6, <1>7, <1>11, <3>1
  <2> QED BY <1>3, <1>8, <1>11, <2>1 DEF CurveCounts, k
<1>12. CASE ~IsFill(r) /\ F # {}
  <2>1. n \in 1 .. n /\ n \in C
    <3>1. n \in 1 .. n
      BY <1>1, <1>9, <1>12
    <3> QED BY <1>4, <1>12, <3>1
  <2> DEFINE D == C \ {n}
  <2>2. CurvePoints(k) = D \cup {n + 1}
    <3>1. \A i \in 1 .. n : i \in CurvePoints(k) <=> i \in D
      BY <1>4, <1>12
    <3> QED BY <1>1, <1>2, <1>5, <1>6, <1>7, <1>12, <3>1
  <2>3. IsFiniteSet(D) /\ Cardinality(D) = Cardinality(C) - 1 /\ n + 1 \notin D
    BY <1>2, <1>3, <2>1, FS_RemoveElement
  <2> HIDE DEF D
  <2>4. Cardinality(D \cup {n + 1}) = Cardinality(D) + 1
    BY <2>3, FS_AddElement
  <2> QED BY <1>3, <1>8, <1>12, <2>2, <2>3, <2>4 DEF CurveCounts, k
<1> QED BY <1>10, <1>11, <1>12

\* As many openings as closes and holdings.
OpenCounts(l, b) ==
  Cardinality(Kind(l, "PositionOpened"))
    = Cardinality(Kind(l, "PositionClosed")) + Cardinality(Held(b.pos))

\* The rollovers are of different days, and the book's trades those since the last.
DaysOnce(l) == \A i, j \in Kind(l, "DailyRollover") : l[i].day = l[j].day => i = j
TradesSince(l, b) ==
  \E last \in {0} \cup Kind(l, "DailyRollover") :
    /\ \A x \in {0} \cup Kind(l, "DailyRollover") : x <= last
    /\ b.trades = Cardinality({i \in Kind(l, "BuyFill") : i > last})

\* One more row leaves the rollovers of different days, if it is of none of theirs.
LEMMA DaysNext ==
  ASSUME NEW l \in Seq(Row), NEW r \in Row, DaysOnce(l),
         r.type = "DailyRollover" => \A i \in Kind(l, "DailyRollover") : l[i].day # r.day
  PROVE  DaysOnce(Append(l, r))
<1> DEFINE n == Len(l)
           k == Append(l, r)
           D == Kind(l, "DailyRollover")
<1>1. /\ n \in Nat /\ k[n + 1] = r /\ \A i \in 1 .. n : k[i] = l[i]
  OBVIOUS
<1>2. D \subseteq 1 .. n /\ Kind(k, "DailyRollover") = IF r.type = "DailyRollover" THEN D \cup {n + 1} ELSE D
  BY KindNext
<1> HIDE DEF n, k, D
<1>3. \A i \in D : k[i] = l[i]
  BY <1>1, <1>2
<1>4. \A i, j \in D : l[i].day = l[j].day => i = j
  BY DEF DaysOnce, D
<1>5. r.type = "DailyRollover" => \A i \in D : l[i].day # r.day
  BY DEF D
<1>6. \A i, j \in Kind(k, "DailyRollover") : k[i].day = k[j].day => i = j
  <2>1. CASE r.type = "DailyRollover"
    <3>1. /\ Kind(k, "DailyRollover") = D \cup {n + 1} /\ k[n + 1] = r
          /\ \A i \in D : k[i].day # k[n + 1].day
      BY <1>1, <1>2, <1>3, <1>5, <2>1
    <3> QED BY <1>3, <1>4, <3>1
  <2>2. CASE r.type # "DailyRollover"
    BY <1>2, <1>3, <1>4, <2>2
  <2> QED BY <2>1, <2>2
<1> QED BY <1>6 DEF DaysOnce, k

\* One more row: a purchase is a trade, a rollover starts the count again.
LEMMA TradesNext ==
  ASSUME NEW l \in Seq(Row), NEW r \in Row, NEW b, NEW c, TradesSince(l, b),
         c.trades = IF r.type = "DailyRollover" THEN 0
                    ELSE IF r.type = "BuyFill" THEN b.trades + 1 ELSE b.trades
  PROVE  TradesSince(Append(l, r), c)
<1> DEFINE n == Len(l)
           k == Append(l, r)
           D == Kind(l, "DailyRollover")
           B == Kind(l, "BuyFill")
<1>1. /\ n \in Nat /\ k[n + 1] = r /\ \A i \in 1 .. n : k[i] = l[i]
  OBVIOUS
<1>2. /\ D \subseteq 1 .. n /\ B \subseteq 1 .. n /\ IsFiniteSet(B)
      /\ Kind(k, "DailyRollover") = IF r.type = "DailyRollover" THEN D \cup {n + 1} ELSE D
      /\ Kind(k, "BuyFill") = IF r.type = "BuyFill" THEN B \cup {n + 1} ELSE B
  BY KindNext
<1>3. PICK last \in {0} \cup D : /\ \A x \in {0} \cup D : x <= last
                                 /\ b.trades = Cardinality({i \in B : i > last})
  BY DEF TradesSince
<1> HIDE DEF n, k, D, B
<1>4. CASE r.type = "DailyRollover"
  <2>1. {i \in Kind(k, "BuyFill") : i > n + 1} = {}
    BY <1>1, <1>2, <1>4
  <2>2. c.trades = Cardinality({i \in Kind(k, "BuyFill") : i > n + 1})
    BY <1>4, <2>1, FS_EmptySet
  <2>3. n + 1 \in {0} \cup Kind(k, "DailyRollover") /\ \A x \in {0} \cup Kind(k, "DailyRollover") : x <= n + 1
    BY <1>1, <1>2, <1>4
  <2> QED BY <2>2, <2>3 DEF TradesSince, k
<1>5. CASE r.type # "DailyRollover"
  <2> DEFINE T == {i \in B : i > last}
  <2>1. last \in 0 .. n
    BY <1>1, <1>2
  <2>2. Kind(k, "DailyRollover") = D
    BY <1>2, <1>5
  <2>3. CASE r.type = "BuyFill"
    <3>1. {i \in Kind(k, "BuyFill") : i > last} = T \cup {n + 1}
      BY <1>1, <1>2, <2>1, <2>3
    <3>2. n + 1 \notin T /\ T \in SUBSET B
      BY <1>1, <1>2
    <3> HIDE DEF T
    <3>3. IsFiniteSet(T)
      BY <1>2, <3>2, FS_Subset
    <3>4. Cardinality(T \cup {n + 1}) = Cardinality(T) + 1
      BY <3>2, <3>3, FS_AddElement
    <3>5. c.trades = Cardinality({i \in Kind(k, "BuyFill") : i > last})
      BY <1>3, <2>3, <3>1, <3>4 DEF T
    <3> QED BY <1>3, <2>2, <3>5 DEF TradesSince, k
  <2>4. CASE r.type # "BuyFill"
    <3>1. Kind(k, "BuyFill") = B /\ c.trades = b.trades
      BY <1>2, <1>5, <2>4
    <3> QED BY <1>3, <2>2, <3>1 DEF TradesSince, k
  <2> QED BY <2>3, <2>4
<1> QED BY <1>4, <1>5

-----------------------------------------------------------------------------
(* The reports: peaks *)

Tracks(b, c) == c.peak = Larger(b.peak, Equity(c))

\* _track_peak raises the peak to the equity it finds.
LEMMA PeakTracked ==
  ASSUME NEW y, {"peak", "cash", "pos"} \subseteq DOMAIN y
  PROVE  Tracks(y, TrackPeak(y))
<1> DEFINE p == Larger(y.peak, Equity(y))
           c == [y EXCEPT !.peak = p]
<1>1. TrackPeak(y) = c
  BY DEF TrackPeak
<1> HIDE DEF p
<1>2. c.peak = p /\ c.cash = y.cash /\ c.pos = y.pos
  OBVIOUS
<1> HIDE DEF c
<1>3. Equity(c) = Equity(y)
  BY <1>2, EquityIs
<1> QED BY <1>1, <1>2, <1>3 DEF p, Tracks

\* Every row that moves a position or pays for one is tracked, from the peak there was.
LEMMA RowTracks ==
  ASSUME NEW b \in Books, NEW r, r.type \in {"BuyFill", "SellFill", "PositionOpened", "PositionClosed", "MarkToMarket"}
  PROVE  Tracks(b, Reduce(b, r))
<1>1. DOMAIN b = {"cash", "peak", "dayStart", "realized", "trades", "fees", "pos"}
  BY DEF Books
<1>2. ASSUME NEW y, DOMAIN y = DOMAIN b, y.peak = b.peak, Reduce(b, r) = TrackPeak(y)
      PROVE  Tracks(b, Reduce(b, r))
  <2>1. {"peak", "cash", "pos"} \subseteq DOMAIN y
    BY <1>1, <1>2
  <2>2. Tracks(y, TrackPeak(y))
    BY <2>1, PeakTracked
  <2> QED BY <1>2, <2>2 DEF Tracks
<1>3. CASE r.type = "BuyFill"
  <2> DEFINE p == b.pos[r.mint]
             q == IF p.units = 0 THEN p ELSE [p EXCEPT !.units = @ + r.units, !.cost = @ - r.cash]
             y == [b EXCEPT !.cash = @ + r.cash, !.trades = @ + 1, !.fees = @ + Network, !.pos[r.mint] = q]
  <2>1. Reduce(b, r) = OnBuyFill(b, r)
    BY <1>3 DEF Reduce
  <2>2. OnBuyFill(b, r) = TrackPeak(y)
    BY DEF OnBuyFill
  <2> HIDE DEF q
  <2>3. DOMAIN y = DOMAIN b /\ y.peak = b.peak
    BY <1>1
  <2> HIDE DEF y
  <2> QED BY <1>2, <2>1, <2>2, <2>3
<1>4. CASE r.type = "SellFill"
  <2> DEFINE p == b.pos[r.mint]
             left == p.units - r.units
             slice == (p.cost * r.units) \div p.units
             q == [p EXCEPT !.units = left, !.cost = @ - slice, !.mark = MarkLeft(p, left, r.cash + Network)]
             gain == IF left > 0 THEN b.realized + r.cash - slice ELSE b.realized
             y == [b EXCEPT !.cash = @ + r.cash, !.fees = @ + Network, !.realized = gain, !.pos[r.mint] = q]
  <2>1. Reduce(b, r) = OnSellFill(b, r)
    BY <1>4 DEF Reduce
  <2>2. OnSellFill(b, r) = TrackPeak(y)
    BY DEF OnSellFill
  <2> HIDE DEF q, gain
  <2>3. DOMAIN y = DOMAIN b /\ y.peak = b.peak
    BY <1>1
  <2> HIDE DEF y
  <2> QED BY <1>2, <2>1, <2>2, <2>3
<1>5. CASE r.type = "PositionOpened"
  <2> DEFINE y == [b EXCEPT !.pos[r.mint] = [units |-> r.units, cost |-> r.cost, mark |-> 0, marked |-> FALSE]]
  <2>1. Reduce(b, r) = TrackPeak(y)
    BY <1>5 DEF Reduce, OnOpened
  <2>2. DOMAIN y = DOMAIN b /\ y.peak = b.peak
    BY <1>1
  <2> HIDE DEF y
  <2> QED BY <1>2, <2>1, <2>2
<1>6. CASE r.type = "PositionClosed"
  <2> DEFINE y == [b EXCEPT !.pos[r.mint] = Flat, !.realized = @ + r.realized]
  <2>1. Reduce(b, r) = TrackPeak(y)
    BY <1>6 DEF Reduce, OnClosed
  <2>2. DOMAIN y = DOMAIN b /\ y.peak = b.peak
    BY <1>1
  <2> HIDE DEF y
  <2> QED BY <1>2, <2>1, <2>2
<1>7. CASE r.type = "MarkToMarket"
  <2> DEFINE q == [m \in Mints |-> IF m \in DOMAIN r.marks /\ b.pos[m].units > 0
                                   THEN [b.pos[m] EXCEPT !.mark = r.marks[m], !.marked = TRUE] ELSE b.pos[m]]
             y == [b EXCEPT !.pos = q]
  <2>1. Reduce(b, r) = OnMark(b, r)
    BY <1>7 DEF Reduce
  <2>2. OnMark(b, r) = TrackPeak(y)
    BY DEF OnMark
  <2> HIDE DEF q
  <2>3. DOMAIN y = DOMAIN b /\ y.peak = b.peak
    BY <1>1
  <2> HIDE DEF y
  <2> QED BY <1>2, <2>1, <2>2, <2>3
<1> QED BY <1>3, <1>4, <1>5, <1>6, <1>7

\* A book no richer than its peak.
AtMostPeak(b) == b \in Books /\ Equity(b) <= b.peak

\* A refusal and a rollover leave the peak, which equity does not pass by them.
LEMMA RefusalTracks ==
  ASSUME NEW b, AtMostPeak(b), NEW fees \in Nat
  PROVE  Tracks(b, Reduce(b, RefusalRow(fees)))
<1> DEFINE r == RefusalRow(fees)
           c == Reduce(b, r)
<1>1. b \in Books /\ c \in Books /\ c.cash = b.cash - fees /\ c.pos = b.pos
  BY Rejected DEF AtMostPeak
<1>2. c = [b EXCEPT !.cash = @ - fees, !.fees = @ + fees]
  BY DEF RefusalRow, Reduce, OnRejected
<1>3. c.peak = b.peak
  BY <1>1, <1>2 DEF Books
<1> HIDE DEF c
<1>4. Equity(c) = c.cash + Worth(c.pos) /\ Equity(b) = b.cash + Worth(b.pos) /\ Worth(b.pos) \in Int
  BY <1>1, EquityIs, ValuesCount DEF Books
<1>5. b.cash \in Int /\ b.peak \in Int
  BY <1>1 DEF Books
<1>6. Equity(c) <= b.peak /\ Equity(c) \in Int
  BY <1>1, <1>4, <1>5 DEF AtMostPeak
<1>7. Larger(b.peak, Equity(c)) = b.peak
  BY <1>5, <1>6 DEF Larger
<1> QED BY <1>3, <1>7 DEF Tracks, c

\* A rollover likewise.
LEMMA RolloverTracks ==
  ASSUME NEW b, AtMostPeak(b), NEW day, NEW equity \in Int
  PROVE  Tracks(b, Reduce(b, RolloverRow(day, equity)))
<1> DEFINE r == RolloverRow(day, equity)
           c == Reduce(b, r)
<1>1. b \in Books /\ c \in Books /\ c.cash = b.cash /\ c.pos = b.pos
  BY RolledBook DEF AtMostPeak
<1>2. c = [b EXCEPT !.dayStart = equity, !.realized = 0, !.trades = 0, !.fees = 0]
  BY DEF RolloverRow, Reduce, OnRollover
<1>3. c.peak = b.peak
  BY <1>1, <1>2 DEF Books
<1> HIDE DEF c
<1>4. Equity(c) = Equity(b)
  BY <1>1, EquityIs
<1>5. b.peak \in Int /\ Equity(b) \in Int
  BY <1>1, EquityInt DEF Books
<1>6. Larger(b.peak, Equity(c)) = b.peak
  BY <1>4, <1>5 DEF Larger, AtMostPeak
<1> QED BY <1>3, <1>6 DEF Tracks, c

\* A buy pays in units what it pays out in cash: equity and peak are what they were.
LEMMA BuyTracks ==
  ASSUME NEW b, AtMostPeak(b), NEW m \in Mints, b.pos[m].units = 0, NEW u \in Nat \ {0}, NEW debit \in Nat
  PROVE  LET c == Reduce(Reduce(b, BuyRows(m, u, debit)[1]), BuyRows(m, u, debit)[2])
         IN  /\ Tracks(b, c) /\ Equity(c) = Equity(b) /\ c.trades = b.trades + 1
             /\ Held(c.pos) = Held(b.pos) \cup {m} /\ m \notin Held(b.pos)
<1> DEFINE r == BuyRows(m, u, debit)[1]
           o == BuyRows(m, u, debit)[2]
           a == Reduce(b, r)
           c == Reduce(a, o)
           q == [units |-> u, cost |-> debit, mark |-> 0, marked |-> FALSE]
<1>1. b \in Books
  BY DEF AtMostPeak
<1>2. a \in Books /\ a.cash = b.cash - debit /\ a.pos = b.pos /\ a.trades = b.trades + 1
  BY <1>1, BuyFilled
<1>3. r.type = "BuyFill" /\ o.type = "PositionOpened"
  BY DEF BuyRows
<1>4. Tracks(b, a)
  BY <1>1, <1>3, RowTracks
<1> HIDE DEF a
<1>5. c \in Books /\ c.cash = a.cash /\ c.trades = a.trades /\ c.pos = [a.pos EXCEPT ![m] = q]
  <2>1. a \in Books /\ u \in Nat /\ debit \in Nat
    BY <1>2
  <2>2. LET e == Reduce(a, BuyRows(m, u, debit)[2])
        IN  /\ e \in Books
            /\ e.cash = a.cash /\ e.realized = a.realized
            /\ e.trades = a.trades /\ e.dayStart = a.dayStart
            /\ e.pos = [a.pos EXCEPT ![m] = [units |-> u, cost |-> debit, mark |-> 0, marked |-> FALSE]]
    BY <2>1, Opened
  <2> QED BY <2>2
<1>6. Tracks(a, c)
  BY <1>2, <1>3, RowTracks
<1> HIDE DEF c
<1>7. c.pos[m] = q /\ SameElsewhere(c.pos, b.pos, m)
  BY <1>1, <1>2, <1>5 DEF Books, SameElsewhere
<1>8. m \in Held(c.pos) /\ m \notin Held(b.pos) /\ Held(c.pos) = Held(b.pos) \cup {m}
  BY <1>7 DEF Held, SameElsewhere
<1>9. PositionsTyped(b.pos) /\ PositionsTyped(c.pos)
  BY <1>1, <1>5 DEF Books, PositionsTyped
<1>10. Worth(c.pos) \in Int /\ Worth(b.pos) = Worth(c.pos) - PositionValue(c.pos[m])
  BY <1>7, <1>8, <1>9, WorthMoved
<1>11. PositionValue(c.pos[m]) = debit
  BY <1>7 DEF PositionValue
<1>12. /\ Equity(b) = b.cash + Worth(b.pos) /\ Equity(a) = a.cash + Worth(a.pos)
       /\ Equity(c) = c.cash + Worth(c.pos) /\ b.cash \in Int /\ b.peak \in Int
  BY <1>1, EquityIs DEF Books
<1> DEFINE w == Worth(c.pos)
           e == Equity(b)
<1>13. /\ e = b.cash + (w - debit) /\ w \in Int /\ b.cash \in Int /\ b.peak \in Int
       /\ Equity(a) = (b.cash - debit) + (w - debit) /\ Equity(c) = (b.cash - debit) + w
  BY <1>2, <1>5, <1>10, <1>11, <1>12
<1>14. e <= b.peak
  BY DEF AtMostPeak
<1>15. a.peak = Larger(b.peak, Equity(a)) /\ c.peak = Larger(a.peak, Equity(c))
  BY <1>4, <1>6 DEF Tracks
<1> HIDE DEF w, e
<1>16. Equity(a) <= b.peak /\ Equity(a) \in Int /\ Equity(c) = e /\ e \in Int
  BY <1>13, <1>14
<1>17. a.peak = b.peak
  BY <1>13, <1>15, <1>16 DEF Larger
<1>18. Tracks(b, c)
  BY <1>15, <1>17 DEF Tracks
<1> QED BY <1>2, <1>5, <1>8, <1>16, <1>18 DEF e, c, a

\* The close that follows the last fill changes no equity, so the peak is the fill's.
LEMMA CloseTracks ==
  ASSUME NEW b \in Books, NEW m \in Mints, b.pos[m].units > 0, NEW proceeds \in Int
  PROVE  LET c == Reduce(Reduce(b, SellFill(m, b.pos[m].units, proceeds)),
                         CloseRow(m, proceeds - b.pos[m].cost))
         IN  /\ Tracks(b, c) /\ c.trades = b.trades
             /\ Held(c.pos) = Held(b.pos) \ {m} /\ m \in Held(b.pos)
<1> DEFINE p == b.pos[m]
           r == SellFill(m, p.units, proceeds)
           o == CloseRow(m, proceeds - p.cost)
           a == Reduce(b, r)
           c == Reduce(a, o)
<1>1. p.units \in Nat /\ p.cost \in Nat
  BY BookCosts
<1>2. Sold(b, a, m, p.units, proceeds)
  BY <1>1, SellFilled
<1>3. /\ a \in Books /\ a.trades = b.trades
      /\ \E q : q.units = p.units - p.units /\ a.pos = [b.pos EXCEPT ![m] = q]
  BY <1>2 DEF Sold
<1>4. r.type = "SellFill" /\ o.type = "PositionClosed"
  BY DEF SellFill, CloseRow
<1>5. Tracks(b, a)
  BY <1>4, RowTracks
<1> HIDE DEF a
<1>6. c \in Books /\ c.cash = a.cash /\ c.trades = a.trades /\ c.pos = [a.pos EXCEPT ![m] = Flat]
  <2>1. proceeds - p.cost \in Int
    BY <1>1
  <2> QED BY <1>3, <2>1, Closed
<1>7. Tracks(a, c)
  BY <1>3, <1>4, RowTracks
<1> HIDE DEF c
<1>8. /\ a.pos[m].units = 0 /\ c.pos[m] = Flat
      /\ \A n \in Mints : n # m => a.pos[n] = b.pos[n] /\ c.pos[n] = b.pos[n]
  BY <1>1, <1>3, <1>6 DEF Books
<1>9. Held(a.pos) = Held(b.pos) \ {m} /\ Held(c.pos) = Held(b.pos) \ {m} /\ m \in Held(b.pos)
  BY <1>8 DEF Held, Flat
<1>10. Worth(c.pos) = Worth(a.pos)
  <2> DEFINE H == Held(a.pos)
             F == Values(a.pos)
             G == Values(c.pos)
  <2>1. Held(c.pos) = H /\ \A n \in H : F[n] = G[n]
    BY <1>8, <1>9 DEF Values, Held
  <2>2. IsFiniteSet(H)
    BY <1>3, ValuesCount DEF Books
  <2> HIDE DEF H, F, G
  <2>3. SumFold!Total(F, H) = SumFold!Total(G, H)
    BY <2>1, <2>2, SumSame
  <2> QED BY <2>1, <2>3 DEF Worth, H, F, G
<1>11. Equity(c) = Equity(a)
  BY <1>6, <1>10, EquityIs
<1>12. a.peak = Larger(b.peak, Equity(a)) /\ c.peak = Larger(a.peak, Equity(a)) /\ b.peak \in Int /\ Equity(a) \in Int
  BY <1>3, <1>5, <1>7, <1>11, EquityInt DEF Tracks, Books
<1>13. c.peak = Larger(b.peak, Equity(c))
  BY <1>11, <1>12 DEF Larger
<1> QED BY <1>3, <1>6, <1>9, <1>13 DEF Tracks, c, a

-----------------------------------------------------------------------------
(* The reports: every batch of rows *)

\* What the readers take from rows l whose book is b.
Reads(l, b) ==
  /\ PathEnds(l, b) /\ PeakIs(l, b) /\ StaysFlat(l)
  /\ CurveCounts(l) /\ OpenCounts(l, b) /\ DaysOnce(l) /\ TradesSince(l, b)

\* The last point of the path is no higher than the peak.
LEMMA ReadsAtPeak ==
  ASSUME NEW l \in Seq(Row), NEW b \in Books, Reads(l, b)
  PROVE  AtMostPeak(b)
BY PointsAre, EquityAtEnd DEF Reads, PeakIs, AtMostPeak

\* The holdings are finitely many.
LEMMA HeldFinite ==
  ASSUME NEW b \in Books
  PROVE  IsFiniteSet(Held(b.pos)) /\ Cardinality(Held(b.pos)) \in Nat
<1>1. IsFiniteSet(Held(b.pos))
  BY ValuesCount DEF Books
<1> QED BY <1>1, FS_CardinalityType

\* A row that opens and closes nothing.
LEMMA LoneReads ==
  ASSUME NEW l \in Seq(Row), NEW b \in Books, Reads(l, b), NEW r \in Row,
         r.type \notin {"BuyFill", "PositionOpened", "PositionClosed"},
         Reduce(b, r) \in Books, Tracks(b, Reduce(b, r)), Held(Reduce(b, r).pos) = Held(b.pos),
         Reduce(b, r).trades = IF r.type = "DailyRollover" THEN 0 ELSE b.trades,
         r.type = "DailyRollover" => \A i \in Kind(l, "DailyRollover") : l[i].day # r.day
  PROVE  Reads(Append(l, r), Reduce(b, r))
<1> DEFINE k == Append(l, r)
           c == Reduce(b, r)
<1>1. PathEnds(k, c) /\ GoesOn(l, k, c)
  <2>1. PathEnds(l, b) /\ Len(k) = Len(l) + 1
    BY DEF Reads
  <2> QED BY <2>1, PathGrows DEF GoesOn
<1>2. Lengthens(l, k)
  <2>1. ~IsSettlement(r)
    BY DEF IsSettlement
  <2> QED BY <2>1, OnePoint
<1>3. k[Len(k)].type \notin Purchases
  BY DEF Purchases
<1>4. OpenCounts(k, c)
  <2>1. /\ Cardinality(Kind(k, "PositionOpened")) = Cardinality(Kind(l, "PositionOpened"))
        /\ Cardinality(Kind(k, "PositionClosed")) = Cardinality(Kind(l, "PositionClosed"))
    BY KindNext
  <2> QED BY <2>1 DEF Reads, OpenCounts
<1>5. CurveCounts(k) /\ DaysOnce(k)
  BY CurveNext, DaysNext DEF Reads
<1>6. TradesSince(k, c)
  <2>1. c.trades = IF r.type = "DailyRollover" THEN 0
                   ELSE IF r.type = "BuyFill" THEN b.trades + 1 ELSE b.trades
    OBVIOUS
  <2> HIDE DEF c
  <2> QED BY <2>1, TradesNext DEF Reads
<1> HIDE DEF k, c
<1>7. PeakIs(k, c)
  <2>1. c.peak = Larger(b.peak, Equity(c)) /\ c \in Books
    BY DEF Tracks, c
  <2> QED BY <1>1, <1>2, <2>1, PeakNext DEF Reads
<1>8. StaysFlat(k)
  BY <1>1, <1>2, <1>3, FlatNext DEF Reads
<1> QED BY <1>1, <1>4, <1>5, <1>6, <1>7, <1>8 DEF Reads, k, c

\* A fill with the row that opens or closes its position.
LEMMA PairReads ==
  ASSUME NEW l \in Seq(Row), NEW b \in Books, Reads(l, b), NEW r \in Row, NEW o \in Row,
         Reduce(b, r) \in Books, NEW c \in Books, c = Reduce(Reduce(b, r), o), Tracks(b, c),
         Reduce(b, r).trades = IF r.type = "BuyFill" THEN b.trades + 1 ELSE b.trades,
         c.trades = Reduce(b, r).trades,
         \/ /\ r.type = "BuyFill" /\ o.type = "PositionOpened" /\ Equity(c) = Equity(b)
            /\ Cardinality(Held(c.pos)) = Cardinality(Held(b.pos)) + 1
         \/ /\ r.type = "SellFill" /\ o.type = "PositionClosed"
            /\ Cardinality(Held(b.pos)) = Cardinality(Held(c.pos)) + 1
  PROVE  Reads(Append(Append(l, r), o), c)
<1> DEFINE j == Append(l, r)
           k == Append(j, o)
           a == Reduce(b, r)
           n == Len(l)
<1>1. n \in Nat /\ j \in Seq(Row) /\ Len(j) = n + 1 /\ k \in Seq(Row) /\ Len(k) = n + 2
  OBVIOUS
<1>2. PathEnds(j, a) /\ (\A i \in 0 .. n : EquityAt(j, i) = EquityAt(l, i))
  BY PathGrows DEF Reads
<1>3. Lengthens(l, k)
  <2>1. IsFill(r) /\ IsSettlement(o)
    BY DEF IsFill, IsSettlement
  <2> QED BY <2>1, PairPoint
<1>4. k[Len(k)].type = o.type
  BY <1>1
<1>5. CurveCounts(k)
  <2>1. CurveCounts(j)
    BY CurveNext DEF Reads
  <2> HIDE DEF j
  <2> QED BY <1>1, <2>1, CurveNext
<1>6. DaysOnce(k)
  <2>1. DaysOnce(j)
    BY DaysNext DEF Reads
  <2> HIDE DEF j
  <2> QED BY <1>1, <2>1, DaysNext
<1>7. TradesSince(k, c)
  <2>1. TradesSince(j, a)
    <3>1. a.trades = IF r.type = "DailyRollover" THEN 0
                     ELSE IF r.type = "BuyFill" THEN b.trades + 1 ELSE b.trades
      OBVIOUS
    <3> HIDE DEF a
    <3> QED BY <3>1, TradesNext DEF Reads
  <2>2. c.trades = IF o.type = "DailyRollover" THEN 0
                   ELSE IF o.type = "BuyFill" THEN a.trades + 1 ELSE a.trades
    OBVIOUS
  <2> HIDE DEF j, a
  <2> QED BY <1>1, <2>1, <2>2, TradesNext
<1>8. OpenCounts(k, c)
  <2> DEFINE opened(s) == Cardinality(Kind(s, "PositionOpened"))
             closed(s) == Cardinality(Kind(s, "PositionClosed"))
  <2>1. opened(j) = opened(l) /\ closed(j) = closed(l) /\ opened(l) \in Nat /\ closed(l) \in Nat
    BY KindNext
  <2>2. /\ opened(k) = IF o.type = "PositionOpened" THEN opened(j) + 1 ELSE opened(j)
        /\ closed(k) = IF o.type = "PositionClosed" THEN closed(j) + 1 ELSE closed(j)
    <3> HIDE DEF j
    <3> QED BY <1>1, KindNext
  <2>3. opened(l) = closed(l) + Cardinality(Held(b.pos))
    BY DEF Reads, OpenCounts
  <2>4. Cardinality(Held(b.pos)) \in Nat /\ Cardinality(Held(c.pos)) \in Nat
    BY HeldFinite
  <2> HIDE DEF opened, closed
  <2>5. opened(k) = closed(k) + Cardinality(Held(c.pos))
    BY <2>1, <2>2, <2>3, <2>4
  <2> QED BY <2>5 DEF OpenCounts, opened, closed
<1>9. PathEnds(k, c) /\ GoesOn(l, k, c)
  <2> HIDE DEF j, a
  <2>1. /\ PathEnds(k, Reduce(a, o)) /\ \A i \in 0 .. Len(j) : EquityAt(k, i) = EquityAt(j, i)
        /\ EquityAt(k, Len(j) + 1) = Equity(Reduce(a, o))
    <3>1. Reduce(a, o) \in Books
      BY DEF a
    <3> QED BY <1>1, <1>2, <3>1, PathGrows
  <2>2. Reduce(a, o) = c
    BY DEF a
  <2>3. \A i \in 0 .. n : i \in 0 .. n + 1
    BY <1>1
  <2>4. \A i \in 0 .. n : EquityAt(k, i) = EquityAt(l, i)
    BY <1>1, <1>2, <2>1, <2>3
  <2>5. Len(j) + 1 = Len(k)
    BY <1>1
  <2> QED BY <2>1, <2>2, <2>4, <2>5 DEF GoesOn
<1> HIDE DEF k, j, a, n
<1>10. PeakIs(k, c)
  BY <1>3, <1>9, PeakNext DEF Reads, Tracks
<1>11. StaysFlat(k)
  <2>1. Equity(c) = Equity(b) \/ k[Len(k)].type \notin Purchases
    BY <1>4 DEF Purchases
  <2> QED BY <1>3, <1>9, <2>1, FlatNext DEF Reads
<1> QED BY <1>5, <1>6, <1>7, <1>8, <1>9, <1>10, <1>11 DEF Reads, k, j

ReadersInv == AccountsInv /\ Reads(log, book)

\* What is known before a batch.
LEMMA BeforeBatch ==
  ASSUME ReadersInv
  PROVE  log \in Seq(Row) /\ book \in Books /\ Reads(log, book) /\ AtMostPeak(book)
BY ReadsAtPeak DEF ReadersInv, AccountsInv, Explained

\* With no rows the path is a point at the genesis.
LEMMA ReadsInit == AccountsInit => Reads(log, book)
<1> SUFFICES ASSUME AccountsInit PROVE Reads(<<>>, InitialState)
  BY DEF AccountsInit
<1>1. <<>> \in Seq(Row) /\ Len(<<>>) = 0 /\ DOMAIN <<>> = {} /\ InitialState \in Books
  BY GenesisBook
<1>2. BooksAlong(<<>>) = <<InitialState>>
  BY <1>1, BooksNext
<1>3. PathEnds(<<>>, InitialState)
  <2>1. <<InitialState>> \in Seq(Books) /\ Len(<<InitialState>>) = 1 /\ <<InitialState>>[1] = InitialState
    BY <1>1
  <2>2. Last(<<InitialState>>) = InitialState
    BY <2>1 DEF Last
  <2>3. 0 + 1 = 1 /\ BooksAlong(<<>>)[1] = InitialState
    BY <1>2, <2>1
  <2>4. EquityAt(<<>>, 0) = Equity(InitialState)
    BY <2>3 DEF EquityAt
  <2>5. Len(BooksAlong(<<>>)) = Len(<<>>) + 1 /\ BooksAlong(<<>>) \in Seq(Books)
    <3> DEFINE w == <<InitialState>>
    <3>1. w \in Seq(Books) /\ Len(w) = 1 /\ BooksAlong(<<>>) = w
      BY <1>2, <2>1
    <3>2. Len(<<>>) + 1 = 1
      OBVIOUS
    <3> HIDE DEF w
    <3> QED BY <3>1, <3>2
  <2>6. Last(BooksAlong(<<>>)) = InitialState
    BY <1>2, <2>2
  <2> QED BY <2>4, <2>5, <2>6 DEF PathEnds
<1>4. SettledPoints(<<>>) = {0}
  BY <1>1 DEF SettledPoints
<1>5. Held(InitialState.pos) = {}
  BY DEF Held, InitialState, Flat
<1>6. Equity(InitialState) = Initial /\ InitialState.peak = Initial /\ InitialState.trades = 0
  <2>1. Worth(InitialState.pos) = 0
    BY <1>5, SumFold!IteratedEmpty DEF Worth, SumFold!Total
  <2>2. InitialState.cash = Initial
    BY DEF InitialState
  <2> QED BY <2>1, <2>2, EquityIs, AccountsAssumption DEF InitialState
<1>7. PeakIs(<<>>, InitialState)
  <2>1. EquityAt(<<>>, 0) = Initial /\ Initial \in Nat
    BY <1>3, <1>6, AccountsAssumption DEF PathEnds
  <2> QED BY <1>4, <1>6, <2>1 DEF PeakIs
<1>8. StaysFlat(<<>>)
  BY <1>4 DEF StaysFlat
<1>9. \A t : Kind(<<>>, t) = {}
  BY <1>1 DEF Kind
<1>10. CurveCounts(<<>>) /\ OpenCounts(<<>>, InitialState) /\ DaysOnce(<<>>) /\ TradesSince(<<>>, InitialState)
  <2>1. CurvePoints(<<>>) = {} /\ FillPlaces(<<>>) = {}
    BY <1>1 DEF CurvePoints, FillPlaces
  <2>2. CurveCounts(<<>>) /\ DaysOnce(<<>>)
    BY <1>9, <2>1 DEF CurveCounts, DaysOnce
  <2>3. OpenCounts(<<>>, InitialState)
    <3>1. Cardinality({}) = 0
      BY FS_EmptySet
    <3>2. Cardinality({}) = Cardinality({}) + Cardinality({})
      BY <3>1
    <3> QED BY <1>5, <1>9, <3>2 DEF OpenCounts
  <2>4. TradesSince(<<>>, InitialState)
    <3>1. {i \in Kind(<<>>, "BuyFill") : i > 0} = {} /\ {0} \cup Kind(<<>>, "DailyRollover") = {0}
      BY <1>9
    <3>2. InitialState.trades = Cardinality({i \in Kind(<<>>, "BuyFill") : i > 0})
      BY <1>6, <3>1, FS_EmptySet
    <3>3. 0 \in {0} /\ \A x \in {0} : x <= 0
      OBVIOUS
    <3> QED BY <3>1, <3>2, <3>3 DEF TradesSince
  <2> QED BY <2>2, <2>3, <2>4
<1> QED BY <1>3, <1>7, <1>8, <1>10 DEF Reads

\* A buy, whose two rows open a position,
LEMMA BuyReads ==
  ASSUME ReadersInv, NEW m \in Mints, NEW u \in Units, NEW price \in Prices, Buy(m, u, price)
  PROVE  Reads(log', book')
<1> DEFINE debit == u * price + Network
           r == BuyRows(m, u, debit)[1]
           o == BuyRows(m, u, debit)[2]
           a == Reduce(book, r)
           c == Reduce(a, o)
<1>1. u \in Nat \ {0} /\ debit \in Nat
  <2>1. u \in Nat \ {0} /\ price \in Nat /\ Network \in Nat
    BY AccountsAssumption
  <2> QED BY <2>1
<1>2. BuyRows(m, u, debit) = <<r, o>> /\ r \in Row /\ o \in Row /\ r.type = "BuyFill" /\ o.type = "PositionOpened"
  <2>1. BuyRows(m, u, debit) = <<r, o>> /\ r.type = "BuyFill" /\ o.type = "PositionOpened"
    BY DEF BuyRows
  <2> QED BY <1>1, <2>1, RowsTyped
<1>3. log' = log \o BuyRows(m, u, debit) /\ book' = Fold(book, BuyRows(m, u, debit))
  BY DEF Buy, Post
<1>4. log \in Seq(Row) /\ book \in Books /\ Reads(log, book) /\ AtMostPeak(book)
  BY BeforeBatch
<1>5. book.pos[m].units = 0
  <2>1. book.pos[m].units \in Nat
    BY <1>4, BookCosts
  <2> QED BY <2>1 DEF Buy, Held
<1> HIDE DEF debit
<1>6. a \in Books /\ a.trades = book.trades + 1
  BY <1>1, <1>4, <1>5, BuyFilled
<1>7. /\ Tracks(book, c) /\ Equity(c) = Equity(book) /\ c.trades = book.trades + 1
      /\ Held(c.pos) = Held(book.pos) \cup {m} /\ m \notin Held(book.pos)
  BY <1>1, <1>4, <1>5, BuyTracks
<1>8. c \in Books
  <2>1. a \in Books /\ u \in Nat /\ debit \in Nat
    BY <1>1, <1>6
  <2> HIDE DEF a
  <2>2. Reduce(a, BuyRows(m, u, debit)[2]) \in Books
    BY <2>1, Opened
  <2> QED BY <2>2
<1>9. Cardinality(Held(c.pos)) = Cardinality(Held(book.pos)) + 1
  BY <1>4, <1>7, HeldFinite, FS_AddElement
<1> HIDE DEF r, o
<1>10. Reads(Append(Append(log, r), o), c)
  <2>1. a = Reduce(book, r) /\ c = Reduce(Reduce(book, r), o)
    OBVIOUS
  <2> HIDE DEF a, c
  <2> QED BY <1>2, <1>4, <1>6, <1>7, <1>8, <1>9, <2>1, PairReads
<1>11. log' = Append(Append(log, r), o) /\ book' = c
  BY <1>2, <1>3, <1>4, PostTwo
<1> QED BY <1>10, <1>11

\* a sale, which closes one or leaves a part,
LEMMA SaleReads ==
  ASSUME ReadersInv, NEW m \in Mints, NEW u \in 1 .. book.pos[m].units, NEW proceeds \in Int,
         Post(SellRows(m, u, proceeds))
  PROVE  Reads(log', book')
<1> DEFINE p == book.pos[m]
           r == SellFill(m, u, proceeds)
           o == CloseRow(m, proceeds - p.cost)
           a == Reduce(book, r)
           c == Reduce(a, o)
<1>1. log \in Seq(Row) /\ book \in Books /\ Reads(log, book)
  BY BeforeBatch
<1>2. p.units \in Nat /\ p.cost \in Nat /\ u \in Nat /\ u > 0 /\ u <= p.units
  BY <1>1, BookCosts
<1>3. r \in Row /\ o \in Row /\ r.type = "SellFill" /\ o.type = "PositionClosed"
  <2>1. r \in Row /\ o \in Row
    BY <1>2, RowsTyped
  <2> QED BY <2>1 DEF SellFill, CloseRow
<1>4. log' = log \o SellRows(m, u, proceeds) /\ book' = Fold(book, SellRows(m, u, proceeds))
  BY DEF Post
<1>5. Sold(book, a, m, u, proceeds)
  BY <1>1, SellFilled
<1>6. a \in Books /\ a.trades = book.trades
  BY <1>5 DEF Sold
<1>7. CASE u >= p.units
  <2>1. u = p.units /\ p.units > 0
    BY <1>2, <1>7
  <2>2. SellRows(m, u, proceeds) = <<r, o>>
    BY <1>7 DEF SellRows, SellFill, CloseRow
  <2>3. /\ Tracks(book, c) /\ c.trades = book.trades
        /\ Held(c.pos) = Held(book.pos) \ {m} /\ m \in Held(book.pos)
    BY <1>1, <2>1, CloseTracks
  <2>4. c \in Books
    <3>1. proceeds - p.cost \in Int
      BY <1>2
    <3> HIDE DEF a
    <3> QED BY <1>6, <3>1, Closed
  <2>5. Cardinality(Held(book.pos)) = Cardinality(Held(c.pos)) + 1
    <3>1. Cardinality(Held(book.pos)) \in Nat /\ Cardinality(Held(c.pos)) = Cardinality(Held(book.pos)) - 1
      BY <1>1, <2>3, HeldFinite, FS_RemoveElement
    <3> QED BY <3>1
  <2> HIDE DEF r, o
  <2>6. Reads(Append(Append(log, r), o), c)
    <3>1. a = Reduce(book, r) /\ c = Reduce(Reduce(book, r), o)
      OBVIOUS
    <3> HIDE DEF a, c
    <3> QED BY <1>1, <1>3, <1>6, <2>3, <2>4, <2>5, <3>1, PairReads
  <2>7. log' = Append(Append(log, r), o) /\ book' = c
    BY <1>1, <1>3, <1>4, <2>2, PostTwo
  <2> QED BY <2>6, <2>7
<1>8. CASE ~(u >= p.units)
  <2>1. p.units - u > 0
    BY <1>2, <1>8
  <2>2. SellRows(m, u, proceeds) = <<r>>
    BY <1>8 DEF SellRows, SellFill
  <2>3. Tracks(book, a)
    BY <1>1, <1>3, RowTracks
  <2>4. Held(a.pos) = Held(book.pos)
    <3>1. \E q : q.units = p.units - u /\ a.pos = [book.pos EXCEPT ![m] = q]
      BY <1>5 DEF Sold
    <3>2. a.pos[m].units = p.units - u /\ \A n \in Mints : n # m => a.pos[n] = book.pos[n]
      BY <1>1, <3>1 DEF Books
    <3>3. \A n \in Mints : n \in Held(a.pos) <=> n \in Held(book.pos)
      BY <1>2, <2>1, <3>2 DEF Held
    <3> QED BY <3>3 DEF Held
  <2> HIDE DEF r, o, p
  <2>5. Reads(Append(log, r), a)
    <3>1. a = Reduce(book, r)
      OBVIOUS
    <3> HIDE DEF a
    <3> QED BY <1>1, <1>3, <1>6, <2>3, <2>4, <3>1, LoneReads
  <2>6. log' = Append(log, r) /\ book' = a
    BY <1>1, <1>3, <1>4, <2>2, PostOne
  <2> QED BY <2>5, <2>6
<1> QED BY <1>7, <1>8

\* a batch of one row of another kind,
LEMMA OneRowReads ==
  ASSUME ReadersInv, NEW r \in Row, Post(<<r>>),
         r.type \in {"OrderRejected", "MarkToMarket", "DailyRollover"},
         Reduce(book, r) \in Books, Tracks(book, Reduce(book, r)),
         Held(Reduce(book, r).pos) = Held(book.pos),
         Reduce(book, r).trades = IF r.type = "DailyRollover" THEN 0 ELSE book.trades,
         r.type = "DailyRollover" => \A i \in Kind(log, "DailyRollover") : log[i].day # r.day
  PROVE  Reads(log', book')
<1>1. log \in Seq(Row) /\ book \in Books /\ Reads(log, book)
  BY BeforeBatch
<1>2. log' = Append(log, r) /\ book' = Reduce(book, r)
  BY <1>1, PostOne DEF Post
<1>3. r.type \notin {"BuyFill", "PositionOpened", "PositionClosed"}
  OBVIOUS
<1>4. Reads(Append(log, r), Reduce(book, r))
  BY <1>1, <1>3, LoneReads
<1> QED BY <1>2, <1>4

\* a refusal, a mark and a rollover.
LEMMA OtherReads ==
  ASSUME ReadersInv, Reject \/ EndMark \/ Rollover
  PROVE  Reads(log', book')
<1>1. log \in Seq(Row) /\ book \in Books /\ Reads(log, book) /\ AtMostPeak(book) /\ AccountsInv
  BY BeforeBatch DEF ReadersInv
<1>2. CASE UNCHANGED <<log, book>>
  BY <1>1, <1>2
<1>3. CASE Reject
  <2>1. PICK fees \in {0, Network} : Post(<<[type |-> "OrderRejected", fees |-> fees]>>)
    BY <1>3 DEF Reject
  <2> DEFINE r == RefusalRow(fees)
  <2>2. fees \in Nat /\ r \in Row /\ r.type = "OrderRejected"
    <3>1. fees \in Nat
      BY AccountsAssumption
    <3> QED BY <3>1 DEF RefusalRow, Row
  <2>3. Reduce(book, r) \in Books /\ Reduce(book, r).pos = book.pos /\ Reduce(book, r).trades = book.trades
    BY <1>1, <2>2, Rejected
  <2>4. Tracks(book, Reduce(book, r))
    BY <1>1, <2>2, RefusalTracks
  <2>5. Post(<<r>>)
    BY <2>1 DEF RefusalRow
  <2> HIDE DEF r
  <2> QED BY <2>2, <2>3, <2>4, <2>5, OneRowReads
<1>4. ASSUME NEW r, MarkKind(r), Post(<<r>>) PROVE Reads(log', book')
  <2>1. r \in Row /\ r.type = "MarkToMarket"
    BY <1>4 DEF MarkKind
  <2>2. PICK S \in SUBSET Mints : r.marks \in [S -> Nat]
    BY <1>4 DEF MarkKind
  <2>3. /\ Reduce(book, r) \in Books /\ Remarked(book.pos, Reduce(book, r).pos)
        /\ Reduce(book, r).trades = book.trades
    BY <1>1, <2>1, <2>2, Marked
  <2>4. Held(Reduce(book, r).pos) = Held(book.pos)
    BY <2>3 DEF Held, Remarked
  <2>5. Tracks(book, Reduce(book, r))
    BY <1>1, <2>1, RowTracks
  <2> QED BY <1>4, <2>1, <2>3, <2>4, <2>5, OneRowReads
<1>5. CASE EndMark
  BY <1>1, <1>2, <1>4, <1>5, EndMarkRow
<1>6. CASE Rollover /\ ~UNCHANGED <<log, book>>
  <2> DEFINE r == RolloverRow(today, Equity(book))
  <2>1. Post(<<r>>) /\ ~RolledOver(today)
    BY <1>6 DEF Rollover, RolloverRow
  <2>2. Equity(book) \in Int /\ today \in Nat
    BY <1>1, EquityInt DEF Books, AccountsInv
  <2>3. r \in Row /\ r.type = "DailyRollover" /\ r.day = today
    BY <2>2 DEF RolloverRow, Row
  <2>4. Reduce(book, r) \in Books /\ Reduce(book, r).pos = book.pos /\ Reduce(book, r).trades = 0
    BY <1>1, <2>2, RolledBook
  <2>5. Tracks(book, Reduce(book, r))
    BY <1>1, <2>2, RolloverTracks
  <2> HIDE DEF r
  <2>6. \A i \in Kind(log, "DailyRollover") : log[i].day # r.day
    BY <2>1, <2>3 DEF RolledOver, Kind
  <2> QED BY <2>1, <2>3, <2>4, <2>5, <2>6, OneRowReads
<1> QED BY <1>2, <1>3, <1>5, <1>6

\* Every step of the accounts.
LEMMA NextReads == ASSUME ReadersInv, [AccountsNext]_accountVars PROVE ReadersInv'
<1>1. AccountsInv'
  BY AccountsNextInv DEF ReadersInv
<1>2. ASSUME NEW m \in Mints, NEW price \in Prices, NEW u \in Units, Buy(m, u, price)
      PROVE  Reads(log', book')
  BY <1>2, BuyReads
<1>3. ASSUME NEW m \in Mints, NEW price \in Prices, NEW u \in 1 .. book.pos[m].units, Sell(m, u, price)
      PROVE  Reads(log', book')
  <2> DEFINE proceeds == u * price - Network
  <2>1. proceeds \in Int
    <3>1. u \in Int /\ price \in Int /\ Network \in Int
      BY AccountsAssumption
    <3> QED BY <3>1
  <2>2. Post(SellRows(m, u, proceeds))
    BY <1>3 DEF Sell
  <2> HIDE DEF proceeds
  <2> QED BY <2>1, <2>2, SaleReads
<1>4. ASSUME NEW m \in Mints, ForceClose(m) PROVE Reads(log', book')
  <2> DEFINE proceeds == book.pos[m].mark - Network
             u == book.pos[m].units
  <2>1. proceeds \in Int /\ u \in 1 .. book.pos[m].units
    <3>1. book.pos[m] \in Positions
      BY DEF ReadersInv, AccountsInv, Explained, Books
    <3>2. book.pos[m].mark \in Nat /\ u \in Nat /\ u > 0
      BY <1>4, <3>1 DEF Positions, ForceClose, Held
    <3> QED BY <3>2, AccountsAssumption
  <2>2. Post(SellRows(m, u, proceeds))
    BY <1>4 DEF ForceClose
  <2> HIDE DEF proceeds, u
  <2> QED BY <2>1, <2>2, SaleReads
<1>5. CASE Reject \/ EndMark \/ Rollover
  BY <1>1, <1>5, OtherReads DEF ReadersInv
<1>6. CASE BeginMark \/ NewDay \/ Shutdown \/ Die \/ UNCHANGED accountVars
  <2>1. UNCHANGED <<log, book>>
    BY <1>6 DEF BeginMark, NewDay, Shutdown, Die, accountVars
  <2>2. Reads(log, book)
    BY DEF ReadersInv
  <2>3. log' = log /\ book' = book
    BY <2>1
  <2>4. Reads(log', book')
    BY <2>2, <2>3
  <2> QED BY <1>1, <2>4 DEF ReadersInv
<1> QED BY <1>1, <1>2, <1>3, <1>4, <1>5, <1>6 DEF AccountsNext, ReadersInv

-----------------------------------------------------------------------------
(* The reports: windows that add up *)

\* A sum over two sets without a common element is that of their sums.
LEMMA SumUnion ==
  ASSUME NEW A, NEW B, IsFiniteSet(A), IsFiniteSet(B), A \cap B = {}, NEW F,
         \A x \in A \cup B : F[x] \in Int
  PROVE  SumFold!Total(F, A \cup B) = SumFold!Total(F, A) + SumFold!Total(F, B)
<1> DEFINE sum(S) == SumFold!Total(F, S)
           Bad == {S \in SUBSET B : sum(A \cup S) # sum(A) + sum(S)}
<1>1. SUFFICES ASSUME Bad # {} PROVE FALSE
  OBVIOUS
<1>2. PICK S \in Bad : \A T \in Bad : T \subseteq S => T = S
  <2> HIDE DEF Bad
  <2>1. Bad \in SUBSET (SUBSET B)
    BY DEF Bad
  <2> QED BY <1>1, <2>1, MinimalIn
<1>3. sum(A) \in Int /\ sum({}) = 0
  <2>1. SumFold!IsFiniteSet(A)
    BY FiniteIs
  <2>2. SumFold!Total(F, A) \in Int
    BY <2>1, SumsAdd, SumFold!TotalInt
  <2>3. SumFold!Total(F, {}) = 0
    BY SumFold!IteratedEmpty DEF SumFold!Total
  <2> QED BY <2>2, <2>3
<1>4. S \in SUBSET B /\ sum(A \cup S) # sum(A) + sum(S)
  <2> HIDE DEF sum
  <2> QED BY <1>2
<1>5. S # {}
  <2> HIDE DEF sum
  <2>1. A \cup {} = A
    OBVIOUS
  <2>2. sum(A) = sum(A) + sum({})
    BY <1>3
  <2> QED BY <1>4, <2>1, <2>2
<1>6. PICK y \in S : TRUE
  BY <1>5
<1> DEFINE T == S \ {y}
           U == A \cup S
<1>7. T \in SUBSET B /\ T \subseteq S /\ T # S /\ U \ {y} = A \cup T /\ y \in U
  BY <1>4, <1>6
<1>8. IsFiniteSet(S) /\ IsFiniteSet(U) /\ \A x \in U : F[x] \in Int
  BY <1>4, FS_Subset, FS_Union
<1>9. sum(A \cup T) = sum(A) + sum(T)
  <2> HIDE DEF sum
  <2>1. T \notin Bad
    <3> HIDE DEF Bad, T
    <3> QED BY <1>2, <1>7
  <2> QED BY <1>7, <2>1
<1>10. sum(U) = sum(U \ {y}) + F[y] /\ sum(U \ {y}) \in Int
  <2> HIDE DEF U
  <2> QED BY <1>7, <1>8, SumSplit
<1>11. sum(S) = sum(T) + F[y] /\ sum(T) \in Int
  BY <1>6, <1>8, SumSplit
<1>12. F[y] \in Int
  BY <1>7, <1>8
<1> DEFINE rest == U \ {y}
<1>13. sum(U) = sum(rest) + F[y] /\ sum(rest) = sum(A) + sum(T)
  <2> HIDE DEF sum, T
  <2>1. sum(rest) = sum(A) + sum(T)
    BY <1>7, <1>9
  <2> QED BY <1>10, <2>1
<1>14. sum(U) # sum(A) + sum(S)
  BY <1>4
<1> HIDE DEF sum, T, U, rest
<1> QED BY <1>3, <1>11, <1>12, <1>13, <1>14

\* The rows of some types in a window.
Within(types, from, to) == {i \in DOMAIN log : InWindow(i, from, to) /\ log[i].type \in types}

Fills == {"BuyFill", "SellFill"}
Gains(S) == SumFold!Total([i \in S |-> log[i].realized], S)
Charges(S) == SumFold!Total([i \in S |-> log[i].fees], S)

\* A report's figures, over the rows they count.
LEMMA ReportIs ==
  ASSUME NEW from, NEW to
  PROVE  LET fills == Within(Fills, from, to)
             closes == Within({"PositionClosed"}, from, to)
             refusals == Within({"OrderRejected"}, from, to)
         IN  Report(from, to) =
               [fills |-> Cardinality(fills), closed |-> Cardinality(closes),
                rejected |-> Cardinality(refusals), realized |-> Gains(closes),
                won |-> Cardinality({i \in closes : log[i].realized > 0}),
                fees |-> Network * Cardinality(fills) + Charges(refusals)]
<1> DEFINE fills == Within(Fills, from, to)
           closes == Within({"PositionClosed"}, from, to)
           refusals == Within({"OrderRejected"}, from, to)
           allFills == {i \in DOMAIN log : InWindow(i, from, to) /\ IsFill(log[i])}
           allCloses == {i \in DOMAIN log : InWindow(i, from, to) /\ log[i].type = "PositionClosed"}
           allRefusals == {i \in DOMAIN log : InWindow(i, from, to) /\ log[i].type = "OrderRejected"}
<1>1. Report(from, to) =
        [fills |-> Cardinality(allFills), closed |-> Cardinality(allCloses),
         rejected |-> Cardinality(allRefusals),
         realized |-> MapThenSumSet(LAMBDA i : log[i].realized, allCloses),
         won |-> Cardinality({i \in allCloses : log[i].realized > 0}),
         fees |-> Network * Cardinality(allFills)
                    + MapThenSumSet(LAMBDA i : log[i].fees, allRefusals)]
  BY DEF Report
<1>2. fills = allFills /\ closes = allCloses /\ refusals = allRefusals
  BY DEF Within, Fills, IsFill
<1> HIDE DEF fills, closes, refusals, allFills, allCloses, allRefusals
<1>3. MapThenSumSet(LAMBDA i : log[i].realized, closes) = Gains(closes)
  BY DEF MapThenSumSet, MapThenFoldSet, Gains, SumFold!Total, SumFold!Iterated, SumFold!IsIter, Plus, AnyOf
<1>4. MapThenSumSet(LAMBDA i : log[i].fees, refusals) = Charges(refusals)
  BY DEF MapThenSumSet, MapThenFoldSet, Charges, SumFold!Total, SumFold!Iterated, SumFold!IsIter, Plus, AnyOf
<1>5. Report(from, to) =
        [fills |-> Cardinality(fills), closed |-> Cardinality(closes),
         rejected |-> Cardinality(refusals), realized |-> Gains(closes),
         won |-> Cardinality({i \in closes : log[i].realized > 0}),
         fees |-> Network * Cardinality(fills) + Charges(refusals)]
  BY <1>1, <1>2, <1>3, <1>4
<1> QED BY <1>5 DEF fills, closes, refusals

\* A cut inside the ledger parts the rows of the whole.
Parted(W, A, B) == IsFiniteSet(A) /\ IsFiniteSet(B) /\ A \cap B = {} /\ W = A \cup B

\* Cut anywhere, every row of the whole is before the cut or after it.
LEMMA WithinParts ==
  ASSUME log \in Seq(Row), NEW cut \in 2 .. Len(log), NEW types
  PROVE  Parted(Within(types, 1, Len(log) + 1), Within(types, 1, cut), Within(types, cut, Len(log) + 1))
<1> DEFINE n == Len(log)
           W == Within(types, 1, n + 1)
           A == Within(types, 1, cut)
           B == Within(types, cut, n + 1)
<1>1. n \in Nat /\ DOMAIN log = 1 .. n /\ cut \in Int /\ 1 <= cut /\ cut <= n
  OBVIOUS
<1> HIDE DEF n
<1>2. A \cap B = {} /\ W = A \cup B /\ A \in SUBSET (1 .. n) /\ B \in SUBSET (1 .. n)
  BY <1>1 DEF Within, InWindow
<1> HIDE DEF W, A, B
<1>3. IsFiniteSet(A) /\ IsFiniteSet(B)
  <2>1. IsFiniteSet(1 .. n)
    BY <1>1, PlacesFinite
  <2> QED BY <1>2, <2>1, FS_Subset
<1> QED BY <1>2, <1>3 DEF W, A, B, n, Parted

\* Counts add up,
LEMMA CountParts ==
  ASSUME NEW W, NEW A, NEW B, Parted(W, A, B)
  PROVE  /\ Cardinality(W) = Cardinality(A) + Cardinality(B)
         /\ Cardinality(A) \in Nat /\ Cardinality(B) \in Nat
<1>1. Cardinality(A \cup B) = Cardinality(A) + Cardinality(B) - Cardinality(A \cap B)
  BY FS_Union DEF Parted
<1>2. Cardinality(A) \in Nat /\ Cardinality(B) \in Nat /\ Cardinality({}) = 0
  BY FS_CardinalityType, FS_EmptySet DEF Parted
<1> DEFINE a == Cardinality(A)
           b == Cardinality(B)
           w == Cardinality(W)
<1>3. w = a + b - 0 /\ a \in Nat /\ b \in Nat
  <2>1. A \cap B = {} /\ W = A \cup B
    BY DEF Parted
  <2> QED BY <1>1, <1>2, <2>1
<1> HIDE DEF a, b, w
<1>4. w = a + b
  BY <1>3
<1> QED BY <1>3, <1>4 DEF a, b, w

\* and so do sums.
LEMMA TermsParts ==
  ASSUME NEW W, NEW A, NEW B, Parted(W, A, B), NEW F, \A x \in W : F[x] \in Int
  PROVE  /\ SumFold!Total(F, W) = SumFold!Total(F, A) + SumFold!Total(F, B)
         /\ SumFold!Total(F, A) \in Int /\ SumFold!Total(F, B) \in Int
<1>1. \A x \in A \cup B : F[x] \in Int
  BY DEF Parted
<1>2. SumFold!Total(F, A \cup B) = SumFold!Total(F, A) + SumFold!Total(F, B)
  BY <1>1, SumUnion DEF Parted
<1>3. SumFold!IsFiniteSet(A) /\ SumFold!IsFiniteSet(B)
  BY FiniteIs DEF Parted
<1>4. SumFold!Total(F, A) \in Int /\ SumFold!Total(F, B) \in Int
  BY <1>1, <1>3, SumsAdd, SumFold!TotalInt
<1> QED BY <1>2, <1>4 DEF Parted

\* What the rows of a window realized, and what its refusals cost.
LEMMA GainsParts ==
  ASSUME NEW W, NEW A, NEW B, Parted(W, A, B), \A i \in W : log[i].realized \in Int
  PROVE  Gains(W) = Gains(A) + Gains(B)
<1> DEFINE F == [i \in W |-> log[i].realized]
           G == [i \in A |-> log[i].realized]
           H == [i \in B |-> log[i].realized]
<1>1. (\A i \in A : F[i] = G[i]) /\ (\A i \in B : F[i] = H[i]) /\ \A i \in W : F[i] \in Int
  BY DEF Parted
<1>2. Gains(W) = SumFold!Total(F, W) /\ Gains(A) = SumFold!Total(G, A) /\ Gains(B) = SumFold!Total(H, B)
  BY DEF Gains
<1> HIDE DEF F, G, H
<1>3. SumFold!Total(F, A) = SumFold!Total(G, A) /\ SumFold!Total(F, B) = SumFold!Total(H, B)
  BY <1>1, SumSame DEF Parted
<1>4. SumFold!Total(F, W) = SumFold!Total(F, A) + SumFold!Total(F, B)
  BY <1>1, TermsParts
<1> QED BY <1>2, <1>3, <1>4

\* The fees of refusals likewise.
LEMMA ChargesParts ==
  ASSUME NEW W, NEW A, NEW B, Parted(W, A, B), \A i \in W : log[i].fees \in Int
  PROVE  Charges(W) = Charges(A) + Charges(B) /\ Charges(A) \in Int /\ Charges(B) \in Int
<1> DEFINE F == [i \in W |-> log[i].fees]
           G == [i \in A |-> log[i].fees]
           H == [i \in B |-> log[i].fees]
<1>1. (\A i \in A : F[i] = G[i]) /\ (\A i \in B : F[i] = H[i]) /\ \A i \in W : F[i] \in Int
  BY DEF Parted
<1>2. Charges(W) = SumFold!Total(F, W) /\ Charges(A) = SumFold!Total(G, A) /\ Charges(B) = SumFold!Total(H, B)
  BY DEF Charges
<1> HIDE DEF F, G, H
<1>3. SumFold!Total(F, A) = SumFold!Total(G, A) /\ SumFold!Total(F, B) = SumFold!Total(H, B)
  BY <1>1, SumSame DEF Parted
<1>4. /\ SumFold!Total(F, W) = SumFold!Total(F, A) + SumFold!Total(F, B)
      /\ SumFold!Total(F, A) \in Int /\ SumFold!Total(F, B) \in Int
  BY <1>1, TermsParts
<1> QED BY <1>2, <1>3, <1>4

\* Wherever a window is cut, the figures of its parts are those of the whole.
LEMMA ReportsParts == ASSUME log \in Seq(Row) PROVE ReportsAddUp
<1> SUFFICES ASSUME NEW cut \in 2 .. Len(log)
             PROVE  LET whole == Report(1, Len(log) + 1)
                        before == Report(1, cut)
                        after == Report(cut, Len(log) + 1)
                    IN  \A figure \in DOMAIN whole : whole[figure] = before[figure] + after[figure]
  BY DEF ReportsAddUp
<1> DEFINE n == Len(log)
           F == Within(Fills, 1, n + 1)
           F1 == Within(Fills, 1, cut)
           F2 == Within(Fills, cut, n + 1)
           C == Within({"PositionClosed"}, 1, n + 1)
           C1 == Within({"PositionClosed"}, 1, cut)
           C2 == Within({"PositionClosed"}, cut, n + 1)
           R == Within({"OrderRejected"}, 1, n + 1)
           R1 == Within({"OrderRejected"}, 1, cut)
           R2 == Within({"OrderRejected"}, cut, n + 1)
           won(S) == {i \in S : log[i].realized > 0}
           figures(f, c, r) ==
             [fills |-> Cardinality(f), closed |-> Cardinality(c),
              rejected |-> Cardinality(r), realized |-> Gains(c), won |-> Cardinality(won(c)),
              fees |-> Network * Cardinality(f) + Charges(r)]
<1>1. Parted(F, F1, F2) /\ Parted(C, C1, C2) /\ Parted(R, R1, R2)
  BY WithinParts
<1>2. \A i \in DOMAIN log : log[i] \in Row
  OBVIOUS
<1>3. (\A i \in C : log[i].realized \in Int) /\ (\A i \in R : log[i].fees \in Int)
  <2>1. /\ \A i \in C : i \in DOMAIN log /\ log[i].type = "PositionClosed"
        /\ \A i \in R : i \in DOMAIN log /\ log[i].type = "OrderRejected"
    BY DEF Within
  <2>2. \A r \in Row : /\ r.type = "PositionClosed" => r.realized \in Int
                       /\ r.type = "OrderRejected" => r.fees \in Int
    BY DEF Row
  <2> HIDE DEF C, R
  <2> QED BY <1>2, <2>1, <2>2
<1>4. Report(1, n + 1) = figures(F, C, R) /\ Report(1, cut) = figures(F1, C1, R1)
      /\ Report(cut, n + 1) = figures(F2, C2, R2)
  BY ReportIs
<1> HIDE DEF n, F, F1, F2, C, C1, C2, R, R1, R2
<1>5. Parted(won(C), won(C1), won(C2))
  <2>1. won(C1) \in SUBSET C1 /\ won(C2) \in SUBSET C2 /\ won(C1) \cap won(C2) = {} /\ won(C) = won(C1) \cup won(C2)
    BY <1>1 DEF Parted
  <2> HIDE DEF won
  <2>2. IsFiniteSet(won(C1)) /\ IsFiniteSet(won(C2))
    BY <1>1, <2>1, FS_Subset DEF Parted
  <2> QED BY <2>1, <2>2 DEF Parted
<1> HIDE DEF won
<1>6. /\ Cardinality(F) = Cardinality(F1) + Cardinality(F2)
      /\ Cardinality(F1) \in Nat /\ Cardinality(F2) \in Nat
      /\ Cardinality(C) = Cardinality(C1) + Cardinality(C2)
      /\ Cardinality(R) = Cardinality(R1) + Cardinality(R2)
      /\ Cardinality(won(C)) = Cardinality(won(C1)) + Cardinality(won(C2))
  BY <1>1, <1>5, CountParts
<1>7. Gains(C) = Gains(C1) + Gains(C2)
  BY <1>1, <1>3, GainsParts
<1>8. Charges(R) = Charges(R1) + Charges(R2) /\ Charges(R1) \in Int /\ Charges(R2) \in Int
  BY <1>1, <1>3, ChargesParts
<1>9. Network * Cardinality(F) + Charges(R)
        = (Network * Cardinality(F1) + Charges(R1)) + (Network * Cardinality(F2) + Charges(R2))
  <2> DEFINE x == Cardinality(F1)
             y == Cardinality(F2)
  <2>1. x \in Nat /\ y \in Nat /\ Cardinality(F) = x + y /\ Network \in Nat
    BY <1>6, AccountsAssumption
  <2> HIDE DEF x, y
  <2>2. Network * (x + y) = Network * x + Network * y /\ Network * x \in Nat /\ Network * y \in Nat
    BY <2>1
  <2>3. Network * Cardinality(F) = Network * x + Network * y
    BY <2>1, <2>2
  <2> DEFINE a == Network * x
             b == Network * y
  <2>4. a \in Nat /\ b \in Nat /\ Network * Cardinality(F) = a + b
    BY <2>2, <2>3
  <2> HIDE DEF a, b
  <2>5. Network * Cardinality(F) + Charges(R) = (a + Charges(R1)) + (b + Charges(R2))
    BY <1>8, <2>4
  <2> QED BY <2>5 DEF a, b, x, y
<1>10. \A figure \in {"fills", "closed", "rejected", "realized", "won", "fees"} :
         figures(F, C, R)[figure] = figures(F1, C1, R1)[figure] + figures(F2, C2, R2)[figure]
  BY <1>6, <1>7, <1>8, <1>9
<1>11. DOMAIN figures(F, C, R) = {"fills", "closed", "rejected", "realized", "won", "fees"}
  OBVIOUS
<1> HIDE DEF figures
<1> QED BY <1>4, <1>10, <1>11 DEF n

-----------------------------------------------------------------------------
(* The reports: what the readers agree on *)

\* The path's equities are those of its books.
LEMMA PathEquities ==
  ASSUME log \in Seq(Row), NEW i \in 0 .. Len(log)
  PROVE  EquitiesOver(InitialState, log)[i] = EquityAt(log, i)
BY DEF EquitiesOver, EquityAt, BooksAlong

\* What the greatest of a set is.
LEMMA MaxIs ==
  ASSUME NEW S \in SUBSET Int, NEW x \in S, \A y \in S : y <= x
  PROVE  Max(S) = x
<1>1. \A y \in S : x >= y
  OBVIOUS
<1>2. \A z \in S : (\A y \in S : z >= y) => z = x
  OBVIOUS
<1> QED BY <1>1, <1>2 DEF Max

\* Whoever reads the rows, by whatever route, comes to the same book.
THEOREM ReadersAlwaysAgree == AccountsSpec => []ReadersAgree
<1>1. AccountsInit => ReadersInv
  BY AccountsInitInv, ReadsInit DEF ReadersInv
<1>2. ReadersInv /\ [AccountsNext]_accountVars => ReadersInv'
  BY NextReads
<1>3. ReadersInv => ReadersAgree
  <2> SUFFICES ASSUME ReadersInv PROVE ReadersAgree
    OBVIOUS
  <2>1. log \in Seq(Row) /\ book \in Books /\ Reads(log, book)
    BY BeforeBatch
  <2> DEFINE n == Len(log)
             equity == EquitiesOver(InitialState, log)
             P == SettledPoints(log)
  <2>2. n \in Nat /\ P \subseteq 0 .. n /\ n \in P /\ 0 \in P
    BY <2>1, PointsAre
  <2>3. \A i \in 0 .. n : equity[i] = EquityAt(log, i) /\ equity[i] \in Int
    BY <2>1, PathEquities, EquityAtInt DEF Reads
  <2>4. \A i \in P : equity[i] = EquityAt(log, i) /\ equity[i] \in Int
    BY <2>2, <2>3
  <2>5. PathPeakIsBookPeak
    <3> HIDE DEF n, equity, P
    <3> DEFINE S == {equity[i] : i \in P}
    <3>1. S \in SUBSET Int /\ book.peak \in S /\ \A y \in S : y <= book.peak
      BY <2>1, <2>4 DEF Reads, PeakIs, P
    <3>2. Max(S) = book.peak
      <4> HIDE DEF S
      <4> QED BY <3>1, MaxIs
    <3>3. Max(P) = n
      <4>1. P \in SUBSET Int /\ \A y \in P : y <= n
        BY <2>2
      <4> QED BY <2>2, <4>1, MaxIs
    <3>4. equity[n] = equity[0] + Net(InitialState, book)
      <4>1. equity[n] = Equity(book)
        BY <2>1, <2>2, <2>4, EquityAtEnd DEF Reads, n
      <4>2. equity[0] = Equity(InitialState)
        BY <2>1, <2>2, <2>4 DEF Reads, PathEnds
      <4>3. Equity(book) \in Int /\ Equity(InitialState) \in Int
        BY <2>1, GenesisBook, EquityInt DEF Books
      <4> QED BY <4>1, <4>2, <4>3 DEF Net
    <3> QED BY <3>2, <3>3, <3>4 DEF PathPeakIsBookPeak, equity, P
  <2>6. PurchaseIsFlat
    <3> HIDE DEF equity
    <3>1. \A i, j \in P : i < j /\ (\A k \in i + 1 .. j : log[k].type \in Purchases)
                            => equity[i] = equity[j]
      BY <2>1, <2>4 DEF Reads, StaysFlat
    <3> QED BY <3>1 DEF PurchaseIsFlat, Purchases, equity
  <2>7. CurveOnPath
    <3>1. Cardinality(CurvePoints(log)) = Cardinality({i \in DOMAIN log : IsFill(log[i])})
      BY <2>1 DEF Reads, CurveCounts, FillPlaces
    <3>2. \A i \in CurvePoints(log) : i \in P
      BY DEF CurvePoints, SettledPoints, IsFill, IsSettlement
    <3> QED BY <3>1, <3>2 DEF CurveOnPath
  <2>8. ReportsAddUp
    BY <2>1, ReportsParts
  <2>9. RenderedOpenIsHeld
    <3> DEFINE o == Cardinality(Kind(log, "PositionOpened"))
               c == Cardinality(Kind(log, "PositionClosed"))
               h == Cardinality(Held(book.pos))
    <3>1. o = c + h
      BY <2>1 DEF Reads, OpenCounts
    <3>2. c \in Nat /\ h \in Nat
      <4>1. \A t : Cardinality(Kind(log, t)) \in Nat
        <5>1. \A t : IsFiniteSet(RowsOf(t))
          BY <2>1, RowsFinite
        <5> QED BY <5>1, FS_CardinalityType DEF RowsOf, Kind
      <4> QED BY <2>1, <4>1, HeldFinite
    <3>3. RenderedOpen = Larger(o - c, 0)
      BY DEF RenderedOpen, RowsOf, Kind
    <3> HIDE DEF o, c, h
    <3>4. Larger(o - c, 0) = h
      BY <3>1, <3>2 DEF Larger
    <3> QED BY <3>3, <3>4 DEF RenderedOpenIsHeld, h
  <2>10. TradesOfTheDay
    <3> DEFINE D == RowsOf("DailyRollover")
    <3>1. \A i, j \in D : log[i].day = log[j].day => i = j
      BY <2>1 DEF Reads, DaysOnce, RowsOf, Kind
    <3>2. PICK last \in {0} \cup D : /\ \A x \in {0} \cup D : x <= last
                                     /\ book.trades = Cardinality({i \in RowsOf("BuyFill") : i > last})
      BY <2>1 DEF Reads, TradesSince, RowsOf, Kind
    <3>3. {0} \cup D \in SUBSET Int
      BY <2>1 DEF RowsOf
    <3> HIDE DEF D
    <3>4. Max({0} \cup D) = last
      BY <3>2, <3>3, MaxIs
    <3> QED BY <3>1, <3>2, <3>4 DEF TradesOfTheDay, D
  <2> QED BY <2>5, <2>6, <2>7, <2>8, <2>9, <2>10 DEF ReadersAgree
<1> QED BY <1>1, <1>2, <1>3, PTL DEF AccountsSpec

-----------------------------------------------------------------------------
(* The export: ascending sequences *)

Climbs(s) == \A i, j \in DOMAIN s : i < j => s[i] < s[j]
Enumerates(s, S) == s \in [1 .. Cardinality(S) -> S] /\ Climbs(s)

\* A finite set of numbers has an ascending enumeration: one of a minimal set
\* without is that of the set less its greatest, and the greatest.
LEMMA AscendingExists ==
  ASSUME NEW S, IsFiniteSet(S), \A x \in S : x \in Nat
  PROVE  \E s : Enumerates(s, S)
<1> DEFINE Bad == {T \in SUBSET S : ~\E s : Enumerates(s, T)}
<1>1. SUFFICES ASSUME Bad # {} PROVE FALSE
  OBVIOUS
<1>2. PICK T \in Bad : \A U \in Bad : U \subseteq T => U = T
  <2> HIDE DEF Bad
  <2>1. Bad \in SUBSET (SUBSET S)
    BY DEF Bad
  <2> QED BY <1>1, <2>1, MinimalIn
<1>3. T \in SUBSET S /\ ~\E s : Enumerates(s, T)
  BY <1>2
<1>4. IsFiniteSet(T)
  BY <1>3, FS_Subset
<1>5. T # {}
  <2>1. SUFFICES ASSUME T = {} PROVE FALSE
    OBVIOUS
  <2>2. Cardinality(T) = 0
    BY <2>1, FS_EmptySet
  <2>3. Enumerates(<<>>, T)
    BY <2>1, <2>2 DEF Enumerates, Climbs
  <2> QED BY <1>3, <2>3
<1>6. PICK x \in T : \A y \in T : x >= y
  <2>1. \A y \in T : y \in Int
    BY <1>3
  <2> QED BY <1>4, <1>5, <2>1, GreatestOf
<1> DEFINE U == T \ {x}
           n == Cardinality(U)
<1>7. IsFiniteSet(U) /\ n \in Nat /\ Cardinality(T) = n + 1
  <2>1. IsFiniteSet(U) /\ Cardinality(U) = Cardinality(T) - 1
    BY <1>4, <1>6, FS_RemoveElement
  <2>2. Cardinality(U) \in Nat /\ Cardinality(T) \in Nat
    BY <1>4, <2>1, FS_CardinalityType
  <2> QED BY <2>1, <2>2
<1>8. PICK s : Enumerates(s, U)
  <2>1. U \in SUBSET S /\ U \subseteq T /\ U # T
    BY <1>3, <1>6
  <2>2. U \notin Bad
    <3> HIDE DEF Bad
    <3> QED BY <1>2, <2>1
  <2> QED BY <2>1, <2>2
<1>9. s \in [1 .. n -> U] /\ \A i, j \in 1 .. n : i < j => s[i] < s[j]
  BY <1>8 DEF Enumerates, Climbs
<1>10. \A y \in U : y \in Nat /\ y < x
  BY <1>3, <1>6
<1> HIDE DEF U, n
<1> DEFINE t == [i \in 1 .. n + 1 |-> IF i = n + 1 THEN x ELSE s[i]]
<1>11. \A i \in 1 .. n + 1 : i # n + 1 => i \in 1 .. n
  BY <1>7
<1>12. t \in [1 .. n + 1 -> T]
  <2>1. \A i \in 1 .. n + 1 : t[i] \in T
    BY <1>6, <1>9, <1>11 DEF U
  <2> QED BY <2>1
<1>13. Climbs(t)
  <2>1. SUFFICES ASSUME NEW i \in 1 .. n + 1, NEW j \in 1 .. n + 1, i < j PROVE t[i] < t[j]
    BY DEF Climbs
  <2>2. i \in 1 .. n /\ t[i] = s[i]
    BY <1>7, <2>1
  <2>3. CASE j = n + 1
    BY <1>9, <1>10, <2>2, <2>3
  <2>4. CASE j # n + 1
    <3>1. j \in 1 .. n /\ t[j] = s[j]
      BY <1>11, <2>4
    <3> QED BY <1>9, <2>1, <2>2, <3>1
  <2> QED BY <2>3, <2>4
<1>14. Enumerates(t, T)
  <2> HIDE DEF t
  <2> QED BY <1>7, <1>12, <1>13 DEF Enumerates
<1> QED BY <1>3, <1>14

\* Ascending(S) lists S, each number once, in order.
LEMMA AscendingLists ==
  ASSUME NEW S \in SUBSET Nat, IsFiniteSet(S)
  PROVE  Ascending(S) \in Seq(S) /\ Climbs(Ascending(S)) /\ ToSet(Ascending(S)) = S
<1> DEFINE s == Ascending(S)
           n == Cardinality(S)
<1>1. Enumerates(s, S)
  <2>1. PICK e : Enumerates(e, S)
    BY AscendingExists
  <2> QED BY <2>1 DEF Enumerates, Climbs, Ascending
<1> HIDE DEF s
<1>2. n \in Nat
  BY FS_CardinalityType
<1> HIDE DEF n
<1>3. s \in [1 .. n -> S] /\ \A i, j \in 1 .. n : i < j => s[i] < s[j]
  BY <1>1 DEF Enumerates, Climbs, n
<1>4. \A i, j \in 1 .. n : s[i] = s[j] => i = j
  <2>1. SUFFICES ASSUME NEW i \in 1 .. n, NEW j \in 1 .. n, s[i] = s[j], i # j PROVE FALSE
    OBVIOUS
  <2>2. s[i] \in Nat /\ s[j] \in Nat
    BY <1>3
  <2>3. i < j \/ j < i
    BY <2>1
  <2> QED BY <1>3, <2>1, <2>2, <2>3
<1>5. s \in Surjection(1 .. n, S)
  <2>1. s \in Injection(1 .. n, S)
    BY <1>3, <1>4 DEF Injection, IsInjective
  <2>2. Cardinality(1 .. n) = n /\ IsFiniteSet(1 .. n)
    <3>1. 1 \in Int /\ n \in Int /\ n >= 0
      BY <1>2
    <3>2. IsFiniteSet(1 .. n) /\ Cardinality(1 .. n) = IF 1 > n THEN 0 ELSE n - 1 + 1
      BY <3>1, FS_Interval
    <3> QED BY <3>1, <3>2
  <2>3. Cardinality(1 .. n) = Cardinality(S)
    BY <2>2 DEF n
  <2> QED BY <2>1, <2>3, FS_Injection
<1>6. ToSet(s) = S
  BY <1>3, <1>5 DEF ToSet, Surjection
<1>7. s \in Seq(S)
  BY <1>2, <1>3
<1> QED BY <1>1, <1>6, <1>7 DEF s, Enumerates

-----------------------------------------------------------------------------
(* The export: what a file holds *)

\* The complete lines of the file are the numbers of S, ascending.
Holds(file, S) ==
  file \in Seq(Nat) /\ Climbs(Complete(file)) /\ ToSet(Complete(file)) = S

\* Without its partial line a file is a sequence of numbers still.
LEMMA CompleteType == ASSUME NEW file \in Seq(Nat) PROVE Complete(file) \in Seq(Nat)
<1>1. CASE file # <<>> /\ Last(file) = 0
  <2>1. Len(file) \in Nat /\ Len(file) - 1 \in Nat
    BY <1>1
  <2>2. SubSeq(file, 1, Len(file) - 1) \in Seq(Nat)
    BY <2>1
  <2> QED BY <1>1, <2>2 DEF Complete, Front
<1>2. CASE ~(file # <<>> /\ Last(file) = 0)
  BY <1>2 DEF Complete
<1> QED BY <1>1, <1>2

\* What a file exports are its complete lines.
LEMMA HoldsExported ==
  ASSUME NEW file, NEW S \in SUBSET (Nat \ {0}), Holds(file, S)
  PROVE  Exported(file) = S
BY DEF Holds, Exported

\* A file that holds nothing.
LEMMA NothingHeld == Holds(<<>>, {})
BY DEF Holds, Complete, Climbs, ToSet

\* Two ascending sequences, the second above the first, and perhaps a partial
\* line after them.
LEMMA LinesAdd ==
  ASSUME NEW c \in Seq(Nat), NEW l \in Seq(Nat), Climbs(c), Climbs(l),
         \A x \in ToSet(c) : x > 0, \A y \in ToSet(l) : y > 0,
         \A x \in ToSet(c), y \in ToSet(l) : x < y,
         NEW partial \in {<<>>, << 0 >>}
  PROVE  Holds(c \o l \o partial, ToSet(c) \cup ToSet(l))
<1> DEFINE s == c \o l
           a == Len(c)
           b == Len(l)
<1>1. /\ a \in Nat /\ b \in Nat /\ s \in Seq(Nat) /\ Len(s) = a + b
      /\ DOMAIN c = 1 .. a /\ DOMAIN l = 1 .. b /\ DOMAIN s = 1 .. a + b
      /\ \A i \in 1 .. a : s[i] = c[i] /\ c[i] \in Nat
      /\ \A i \in 1 .. b : s[a + i] = l[i] /\ l[i] \in Nat
  OBVIOUS
<1>2. /\ \A i \in 1 .. a : c[i] \in ToSet(c) /\ c[i] > 0
      /\ \A i \in 1 .. b : l[i] \in ToSet(l) /\ l[i] > 0
  BY <1>1 DEF ToSet
<1>3. \A i \in 1 .. a, j \in 1 .. b : c[i] < l[j]
  BY <1>2
<1>4. /\ \A i, j \in 1 .. a : i < j => c[i] < c[j]
      /\ \A i, j \in 1 .. b : i < j => l[i] < l[j]
  BY <1>1 DEF Climbs
<1> HIDE DEF s, a, b
<1>5. \A i \in 1 .. a + b : i \in 1 .. a \/ (i - a \in 1 .. b /\ i = a + (i - a))
  BY <1>1
<1>6. Climbs(s)
  <2>1. SUFFICES ASSUME NEW i \in 1 .. a + b, NEW j \in 1 .. a + b, i < j PROVE s[i] < s[j]
    BY <1>1 DEF Climbs
  <2>2. CASE j \in 1 .. a
    <3>1. i \in 1 .. a
      BY <1>1, <2>1, <2>2
    <3> QED BY <1>1, <1>4, <2>1, <2>2, <3>1
  <2>3. CASE i \in 1 .. a /\ j - a \in 1 .. b
    <3>1. s[i] = c[i] /\ s[j] = l[j - a]
      <4>1. j = a + (j - a)
        BY <1>1
      <4> QED BY <1>1, <2>3, <4>1
    <3> QED BY <1>3, <2>3, <3>1
  <2>4. CASE i - a \in 1 .. b /\ j - a \in 1 .. b
    <3>1. s[i] = l[i - a] /\ s[j] = l[j - a]
      <4>1. i = a + (i - a) /\ j = a + (j - a)
        BY <1>1
      <4> QED BY <1>1, <2>4, <4>1
    <3>2. i - a < j - a
      BY <1>1, <2>1
    <3> QED BY <1>4, <2>4, <3>1, <3>2
  <2> QED BY <1>5, <2>2, <2>3, <2>4
<1>7. ToSet(s) = ToSet(c) \cup ToSet(l)
  <2>1. ASSUME NEW x \in ToSet(s) PROVE x \in ToSet(c) \cup ToSet(l)
    <3>1. PICK i \in 1 .. a + b : x = s[i]
      BY <1>1, <2>1 DEF ToSet
    <3>2. CASE i \in 1 .. a
      BY <1>1, <1>2, <3>1, <3>2
    <3>3. CASE i - a \in 1 .. b /\ i = a + (i - a)
      BY <1>1, <1>2, <3>1, <3>3
    <3> QED BY <1>5, <3>2, <3>3
  <2>2. ASSUME NEW x \in ToSet(c) PROVE x \in ToSet(s)
    <3>1. PICK i \in 1 .. a : x = c[i]
      BY <1>1, <2>2 DEF ToSet
    <3>2. i \in 1 .. a + b /\ s[i] = x
      BY <1>1, <3>1
    <3> QED BY <1>1, <3>2 DEF ToSet
  <2>3. ASSUME NEW x \in ToSet(l) PROVE x \in ToSet(s)
    <3>1. PICK i \in 1 .. b : x = l[i]
      BY <1>1, <2>3 DEF ToSet
    <3>2. a + i \in 1 .. a + b /\ s[a + i] = x
      BY <1>1, <3>1
    <3> QED BY <1>1, <3>2 DEF ToSet
  <2> QED BY <2>1, <2>2, <2>3
<1>8. \A i \in 1 .. a + b : s[i] > 0
  <2> TAKE i \in 1 .. a + b
  <2>1. CASE i \in 1 .. a
    BY <1>1, <1>2, <2>1
  <2>2. CASE i - a \in 1 .. b /\ i = a + (i - a)
    BY <1>1, <1>2, <2>2
  <2> QED BY <1>5, <2>1, <2>2
<1>9. CASE partial = <<>>
  <2>1. s \o partial = s
    BY <1>1, <1>9
  <2>2. Complete(s) = s
    <3>1. s # <<>> => Last(s) # 0
      <4>1. s # <<>> => a + b \in 1 .. a + b
        BY <1>1
      <4> QED BY <1>1, <1>8, <4>1 DEF Last
    <3> QED BY <3>1 DEF Complete
  <2> QED BY <1>1, <1>6, <1>7, <2>1, <2>2 DEF Holds, s
<1>10. CASE partial = << 0 >>
  <2> DEFINE file == s \o << 0 >>
  <2>1. /\ file \in Seq(Nat) /\ Len(file) = Len(s) + 1 /\ file # <<>> /\ file[Len(s) + 1] = 0
        /\ SubSeq(file, 1, Len(s)) = s
    <3>1. s \in Seq(Nat)
      BY <1>1
    <3> QED BY <3>1
  <2> HIDE DEF file
  <2>3. Last(file) = 0 /\ Front(file) = s
    <3>1. Len(file) - 1 = Len(s) /\ file[Len(file)] = 0
      BY <1>1, <2>1
    <3> QED BY <2>1, <3>1 DEF Last, Front
  <2>4. Complete(file) = s
    BY <2>1, <2>3 DEF Complete
  <2> QED BY <1>6, <1>7, <1>10, <2>1, <2>4 DEF Holds, s, file
<1> QED BY <1>9, <1>10

\* Lines above all that a file holds, and perhaps a part of the next.
LEMMA FileGrows ==
  ASSUME NEW file, NEW S \in SUBSET (Nat \ {0}), Holds(file, S),
         NEW l \in Seq(Nat), Climbs(l), \A y \in ToSet(l) : y > 0,
         \A x \in S, y \in ToSet(l) : x < y,
         NEW partial \in {<<>>, << 0 >>}
  PROVE  Holds(Complete(file) \o l \o partial, S \cup ToSet(l))
<1> DEFINE c == Complete(file)
<1>1. c \in Seq(Nat) /\ Climbs(c) /\ ToSet(c) = S
  BY CompleteType DEF Holds
<1> HIDE DEF c
<1>2. \A x \in ToSet(c) : x > 0
  <2>1. \A x \in S : x > 0
    OBVIOUS
  <2> QED BY <1>1, <2>1
<1>3. Holds(c \o l \o partial, ToSet(c) \cup ToSet(l))
  BY <1>1, <1>2, LinesAdd
<1> QED BY <1>1, <1>3 DEF c

\* The first n lines of an ascending sequence are the least of them.
LEMMA FirstLines ==
  ASSUME NEW l \in Seq(Nat), Climbs(l), NEW n \in 0 .. Len(l)
  PROVE  LET k == SubSeq(l, 1, n)
         IN  /\ k \in Seq(Nat) /\ Climbs(k) /\ ToSet(k) \subseteq ToSet(l)
             /\ \A x \in ToSet(k), y \in ToSet(l) : y < x => y \in ToSet(k)
<1> DEFINE k == SubSeq(l, 1, n)
<1>1. /\ n \in Nat /\ Len(l) \in Nat /\ n <= Len(l) /\ DOMAIN l = 1 .. Len(l)
      /\ k \in Seq(Nat) /\ DOMAIN k = 1 .. n /\ \A i \in 1 .. n : k[i] = l[i]
  OBVIOUS
<1>2. \A i, j \in 1 .. Len(l) : i < j => l[i] < l[j]
  BY <1>1 DEF Climbs
<1> HIDE DEF k
<1>3. Climbs(k)
  BY <1>1, <1>2 DEF Climbs
<1>4. ToSet(k) \subseteq ToSet(l)
  BY <1>1 DEF ToSet
<1>5. ASSUME NEW x \in ToSet(k), NEW y \in ToSet(l), y < x PROVE y \in ToSet(k)
  <2>1. PICK i \in 1 .. n : x = l[i]
    BY <1>1 DEF ToSet
  <2>2. PICK j \in 1 .. Len(l) : y = l[j]
    BY <1>1 DEF ToSet
  <2>3. j <= n
    <3>1. SUFFICES ASSUME j > n PROVE FALSE
      BY <1>1, <2>2
    <3>2. i < j /\ i \in 1 .. Len(l)
      BY <1>1, <3>1
    <3>3. l[i] < l[j] /\ l[i] \in Nat /\ l[j] \in Nat
      BY <1>1, <1>2, <3>2
    <3> QED BY <1>5, <2>1, <2>2, <3>3
  <2>4. j \in DOMAIN k /\ k[j] = y
    BY <1>1, <2>2, <2>3
  <2> QED BY <2>4 DEF ToSet
<1> QED BY <1>1, <1>3, <1>4, <1>5 DEF k

-----------------------------------------------------------------------------
(* The export: the inductive invariant *)

Has(f) == Exported(targets[f])

ExportTypes ==
  /\ rows \in Seq([day : 1 .. MaxExportDay, trade : BOOLEAN])
  /\ cursor \in 0 .. Len(rows)
  /\ targets \in [Files -> Seq(Nat)]
  /\ exporting \in [upTo : 0 .. Len(rows), left : Seq(Files)]

\* Each file holds numbers of rows, ascending.
LinesAscend == \A f \in Files : Has(f) \subseteq 1 .. Len(rows) /\ Holds(targets[f], Has(f))

\* A file that holds a row holds those of its rows that came before.
NoRowPassedOver ==
  \A f \in Files : \A last \in Has(f), i \in 1 .. Len(rows) :
    i < last /\ Belongs(i, f) => i \in Has(f)

\* The cursor stands behind rows that every file of theirs holds.
CursorBehind == \A f \in Files, i \in 1 .. cursor : Belongs(i, f) => i \in Has(f)

\* Of the rows an export set out to write, each is in its file, or the file is
\* still to be written.
WrittenOrLeft ==
  \A f \in Files, i \in cursor + 1 .. exporting.upTo :
    Belongs(i, f) /\ i \notin Has(f) => f \in ToSet(exporting.left)

ExportInv ==
  ExportTypes /\ LinesAscend /\ NoRowPassedOver /\ CursorBehind /\ WrittenOrLeft

\* What Missing lists.
MissingRows(f) ==
  {i \in cursor + 1 .. exporting.upTo : Belongs(i, f) /\ i \notin Has(f)}

\* Missing lists those, ascending, and all the file holds came before them.
LEMMA MissingLists ==
  ASSUME ExportInv, NEW f \in Files
  PROVE  /\ Missing(f) \in Seq(Nat) /\ Climbs(Missing(f)) /\ ToSet(Missing(f)) = MissingRows(f)
         /\ \A x \in Has(f), y \in MissingRows(f) : x < y
         /\ \A y \in MissingRows(f) : y > 0 /\ y \in 1 .. Len(rows)
<1> DEFINE M == MissingRows(f)
<1>1. cursor \in Nat /\ exporting.upTo \in 0 .. Len(rows) /\ Len(rows) \in Nat
  BY DEF ExportInv, ExportTypes
<1>2. \A y \in M : y \in cursor + 1 .. exporting.upTo /\ Belongs(y, f) /\ y \notin Has(f)
  BY DEF MissingRows
<1> HIDE DEF M
<1>3. \A y \in M : y \in Nat /\ y > 0 /\ y \in 1 .. Len(rows)
  BY <1>1, <1>2
<1>4. IsFiniteSet(M)
  <2>1. IsFiniteSet(1 .. Len(rows)) /\ M \in SUBSET (1 .. Len(rows))
    BY <1>1, <1>3, PlacesFinite
  <2> QED BY <2>1, FS_Subset
<1>5. Ascending(M) \in Seq(M) /\ Climbs(Ascending(M)) /\ ToSet(Ascending(M)) = M
  <2>1. M \in SUBSET Nat
    BY <1>3
  <2> QED BY <1>4, <2>1, AscendingLists
<1>6. Missing(f) = Ascending(M)
  BY DEF Missing, M, MissingRows, Has
<1>7. Ascending(M) \in Seq(Nat)
  BY <1>3, <1>5
<1>8. ASSUME NEW x \in Has(f), NEW y \in M PROVE x < y
  <2>1. x \in 1 .. Len(rows) /\ y \in 1 .. Len(rows) /\ Belongs(y, f) /\ y \notin Has(f)
    BY <1>2, <1>3, <1>8 DEF ExportInv, LinesAscend
  <2>2. ~(y < x)
    BY <1>8, <2>1 DEF ExportInv, NoRowPassedOver
  <2>3. x # y
    BY <1>8, <2>1
  <2> QED BY <1>1, <2>1, <2>2, <2>3
<1> QED BY <1>3, <1>5, <1>6, <1>7, <1>8 DEF M

\* A file takes some of its missing rows, the first ones: all else stays sound.
LEMMA FileTakes ==
  ASSUME ExportInv, NEW f \in Files, NEW file, NEW K \in SUBSET MissingRows(f),
         \A x \in K, y \in MissingRows(f) : y < x => y \in K,
         Holds(file, Has(f) \cup K),
         targets' = [targets EXCEPT ![f] = file], UNCHANGED <<rows, cursor>>
  PROVE  /\ targets' \in [Files -> Seq(Nat)]
         /\ LinesAscend' /\ NoRowPassedOver' /\ CursorBehind'
         /\ \A g \in Files : Has(g)' = IF g = f THEN Has(f) \cup K ELSE Has(g)
<1>1. targets \in [Files -> Seq(Nat)] /\ cursor \in 0 .. Len(rows) /\ Len(rows) \in Nat
  BY DEF ExportInv, ExportTypes
<1>2. targets'[f] = file /\ \A g \in Files : g # f => targets'[g] = targets[g]
  BY <1>1
<1>3. \A y \in MissingRows(f) : y \in 1 .. Len(rows)
  BY MissingLists
<1>4. \A g \in Files : Has(g) \subseteq 1 .. Len(rows) /\ Holds(targets[g], Has(g))
  BY DEF ExportInv, LinesAscend
<1>5. Exported(file) = Has(f) \cup K
  <2>1. Has(f) \cup K \in SUBSET (Nat \ {0})
    BY <1>1, <1>3, <1>4
  <2> QED BY <2>1, HoldsExported
<1>6. \A g \in Files : Has(g)' = IF g = f THEN Has(f) \cup K ELSE Has(g)
  BY <1>2, <1>5 DEF Has
<1>7. targets' \in [Files -> Seq(Nat)]
  <2>1. file \in Seq(Nat)
    BY DEF Holds
  <2> QED BY <1>1, <2>1
<1>8. LinesAscend'
  <2>1. SUFFICES ASSUME NEW g \in Files
                 PROVE  Has(g)' \subseteq 1 .. Len(rows') /\ Holds(targets'[g], Has(g)')
    BY DEF LinesAscend, Holds, Climbs, Complete, ToSet, Front, Last
  <2>2. CASE g = f
    BY <1>2, <1>3, <1>4, <1>6, <2>2
  <2>3. CASE g # f
    BY <1>2, <1>4, <1>6, <2>3
  <2> QED BY <2>2, <2>3
<1>9. \A g, i : Belongs(i, g)' <=> Belongs(i, g)
  BY DEF Belongs
<1>10. NoRowPassedOver'
  <2>1. SUFFICES ASSUME NEW g \in Files, NEW last \in Has(g)', NEW i \in 1 .. Len(rows),
                        i < last, Belongs(i, g)
                 PROVE  i \in Has(g)'
    BY <1>9 DEF NoRowPassedOver
  <2>2. CASE last \in Has(g)
    <3>1. i \in Has(g)
      BY <2>1, <2>2 DEF ExportInv, NoRowPassedOver
    <3> QED BY <1>6, <3>1
  <2>3. CASE g = f /\ last \in K
    <3>1. last \in cursor + 1 .. exporting.upTo /\ exporting.upTo \in 0 .. Len(rows)
      BY <2>3 DEF MissingRows, ExportInv, ExportTypes
    <3>2. CASE i \in Has(f)
      BY <1>6, <2>3, <3>2
    <3>3. CASE i \notin Has(f)
      <4>1. i \notin 1 .. cursor
        BY <2>1, <2>3, <3>3 DEF ExportInv, CursorBehind
      <4>2. i \in cursor + 1 .. exporting.upTo
        BY <1>1, <2>1, <3>1, <4>1
      <4>3. i \in MissingRows(f)
        BY <2>1, <2>3, <3>3, <4>2 DEF MissingRows
      <4> QED BY <1>6, <2>1, <2>3, <4>3
    <3> QED BY <3>2, <3>3
  <2> QED BY <1>6, <2>1, <2>2, <2>3
<1>11. CursorBehind'
  BY <1>6, <1>9 DEF CursorBehind, ExportInv
<1> QED BY <1>6, <1>7, <1>8, <1>10, <1>11

\* A new desk has exported nothing.
LEMMA ExportInitInv == ExportInit => ExportInv
<1> SUFFICES ASSUME ExportInit PROVE ExportInv
  OBVIOUS
<1>1. /\ rows = <<>> /\ cursor = 0 /\ exporting = [upTo |-> 0, left |-> <<>>]
      /\ targets = [f \in Files |-> <<>>] /\ Len(rows) = 0
  BY DEF ExportInit, NotExporting
<1>2. \A f \in Files : targets[f] = <<>>
  BY <1>1
<1>3. Exported(<<>>) = {}
  BY NothingHeld, HoldsExported
<1>4. \A f \in Files : Has(f) = {}
  BY <1>2, <1>3 DEF Has
<1>5. ExportTypes
  <2>1. <<>> \in Seq([day : 1 .. MaxExportDay, trade : BOOLEAN]) /\ <<>> \in Seq(Files) /\ <<>> \in Seq(Nat)
    OBVIOUS
  <2>2. exporting \in [upTo : 0 .. Len(rows), left : Seq(Files)]
    BY <1>1, <2>1
  <2> QED BY <1>1, <2>1, <2>2 DEF ExportTypes
<1>6. LinesAscend
  BY <1>2, <1>4, NothingHeld DEF LinesAscend
<1>7. NoRowPassedOver
  BY <1>4 DEF NoRowPassedOver
<1>8. CursorBehind
  BY <1>1 DEF CursorBehind
<1>9. WrittenOrLeft
  <2>1. cursor + 1 .. exporting.upTo = {}
    BY <1>1
  <2> QED BY <2>1 DEF WrittenOrLeft
<1> QED BY <1>5, <1>6, <1>7, <1>8, <1>9 DEF ExportInv

\* A row appended meanwhile is no matter of the export under way.
LEMMA AppendRowInv == ASSUME ExportInv, AppendRow PROVE ExportInv'
<1> DEFINE R == [day : 1 .. MaxExportDay, trade : BOOLEAN]
<1>1. PICK r \in R : rows' = Append(rows, r)
  BY DEF AppendRow
<1>2. /\ rows \in Seq(R) /\ cursor \in 0 .. Len(rows) /\ targets \in [Files -> Seq(Nat)]
      /\ exporting \in [upTo : 0 .. Len(rows), left : Seq(Files)]
  BY DEF ExportInv, ExportTypes
<1> HIDE DEF R
<1>3. /\ rows' \in Seq(R) /\ Len(rows) \in Nat /\ Len(rows') = Len(rows) + 1
      /\ \A i \in 1 .. Len(rows) : rows'[i] = rows[i]
  BY <1>1, <1>2
<1>4. UNCHANGED <<targets, cursor, exporting>>
  BY DEF AppendRow
<1>5. \A f \in Files : Has(f)' = Has(f)
  BY <1>4 DEF Has
<1>6. \A i \in 1 .. Len(rows) : \A f : Belongs(i, f)' <=> Belongs(i, f)
  BY <1>3 DEF Belongs
<1>7. ExportTypes'
  <2>1. 0 .. Len(rows) \subseteq 0 .. Len(rows')
    BY <1>3
  <2>2. exporting' \in [upTo : 0 .. Len(rows'), left : Seq(Files)]
    BY <1>2, <1>4, <2>1
  <2> QED BY <1>2, <1>3, <1>4, <2>1, <2>2 DEF ExportTypes, R
<1>8. \A f \in Files : Has(f) \subseteq 1 .. Len(rows) /\ Holds(targets[f], Has(f))
  BY DEF ExportInv, LinesAscend
<1>9. LinesAscend'
  <2>1. SUFFICES ASSUME NEW f \in Files
                 PROVE  Has(f)' \subseteq 1 .. Len(rows') /\ Holds(targets'[f], Has(f)')
    BY DEF LinesAscend, Holds, Climbs, Complete, ToSet, Front, Last
  <2>2. 1 .. Len(rows) \subseteq 1 .. Len(rows')
    BY <1>3
  <2> QED BY <1>4, <1>5, <1>8, <2>2
<1>10. NoRowPassedOver'
  <2>1. SUFFICES ASSUME NEW f \in Files, NEW last \in Has(f), NEW i \in 1 .. Len(rows'),
                        i < last, Belongs(i, f)'
                 PROVE  i \in Has(f)
    BY <1>5 DEF NoRowPassedOver
  <2>2. last \in 1 .. Len(rows)
    BY <1>8
  <2>3. i \in 1 .. Len(rows)
    BY <1>3, <2>1, <2>2
  <2> QED BY <1>6, <2>1, <2>3 DEF ExportInv, NoRowPassedOver
<1>11. CursorBehind'
  <2>1. \A i \in 1 .. cursor : i \in 1 .. Len(rows)
    BY <1>2, <1>3
  <2> QED BY <1>4, <1>5, <1>6, <2>1 DEF CursorBehind, ExportInv
<1>12. WrittenOrLeft'
  <2>1. \A i \in cursor + 1 .. exporting.upTo : i \in 1 .. Len(rows)
    BY <1>2, <1>3
  <2> QED BY <1>4, <1>5, <1>6, <2>1 DEF WrittenOrLeft, ExportInv, ToSet
<1> QED BY <1>7, <1>9, <1>10, <1>11, <1>12 DEF ExportInv

\* Every row is of a day that has a file.
LEMMA RowsHaveDays ==
  ASSUME ExportTypes
  PROVE  \A i \in 1 .. Len(rows) : rows[i].day \in 1 .. MaxExportDay
<1> DEFINE R == [day : 1 .. MaxExportDay, trade : BOOLEAN]
<1>1. rows \in Seq(R)
  BY DEF ExportTypes
<1>2. \A r \in R : r.day \in 1 .. MaxExportDay
  OBVIOUS
<1> HIDE DEF R
<1>3. \A i \in 1 .. Len(rows) : rows[i] \in R
  BY <1>1
<1> QED BY <1>2, <1>3

\* An export that is not under way has set out to write nothing.
LEMMA NothingLeft == \A n \in Nat : n + 1 .. 0 = {}
OBVIOUS

\* What stands when neither the files nor the ledger change.
LEMMA FilesStand ==
  ASSUME ExportInv, UNCHANGED <<rows, targets>>
  PROVE  /\ LinesAscend' /\ NoRowPassedOver'
         /\ \A f : Has(f)' = Has(f)
         /\ \A i, f : Belongs(i, f)' <=> Belongs(i, f)
<1>1. \A f : Has(f)' = Has(f)
  BY DEF Has
<1>2. \A i, f : Belongs(i, f)' <=> Belongs(i, f)
  BY DEF Belongs
<1>3. LinesAscend'
  <2>1. SUFFICES ASSUME NEW f \in Files
                 PROVE  Has(f)' \subseteq 1 .. Len(rows) /\ Holds(targets[f], Has(f)')
    BY DEF LinesAscend, Holds, Climbs, Complete, ToSet, Front, Last
  <2> QED BY <1>1 DEF ExportInv, LinesAscend
<1>4. NoRowPassedOver'
  BY <1>1, <1>2 DEF ExportInv, NoRowPassedOver
<1> QED BY <1>1, <1>2, <1>3, <1>4

\* An export sets out to write the new rows' days, and the trades last.
LEMMA BeginExportInv == ASSUME ExportInv, BeginExport PROVE ExportInv'
<1> DEFINE days == {rows[i].day : i \in cursor + 1 .. Len(rows)}
           left == Append(Ascending(days), 0)
<1>1. /\ UNCHANGED <<rows, targets, cursor>>
      /\ exporting' = [upTo |-> Len(rows), left |-> left]
  BY DEF BeginExport
<1>2. /\ rows \in Seq([day : 1 .. MaxExportDay, trade : BOOLEAN]) /\ cursor \in 0 .. Len(rows)
      /\ targets \in [Files -> Seq(Nat)] /\ Len(rows) \in Nat
      /\ exporting \in [upTo : 0 .. Len(rows), left : Seq(Files)]
  BY DEF ExportInv, ExportTypes
<1>3. \A i \in 1 .. Len(rows) : rows[i].day \in 1 .. MaxExportDay
  BY RowsHaveDays DEF ExportInv
<1>4. days \subseteq 1 .. MaxExportDay
  BY <1>2, <1>3
<1>5. \A i \in cursor + 1 .. Len(rows) : rows[i].day \in days
  OBVIOUS
<1> HIDE DEF days
<1>6. Ascending(days) \in Seq(days) /\ ToSet(Ascending(days)) = days
  <2>1. MaxExportDay \in Nat /\ days \in SUBSET (1 .. MaxExportDay) /\ days \in SUBSET Nat
    BY <1>4, ExportAssumption
  <2>2. IsFiniteSet(days)
    <3>1. IsFiniteSet(1 .. MaxExportDay)
      BY <2>1, PlacesFinite
    <3> QED BY <2>1, <3>1, FS_Subset
  <2> QED BY <2>1, <2>2, AscendingLists
<1>7. left \in Seq(Files) /\ ToSet(left) = days \cup {0}
  <2>1. days \subseteq Files /\ 0 \in Files
    BY <1>4, ExportAssumption DEF Files
  <2>2. Ascending(days) \in Seq(Files)
    BY <1>6, <2>1
  <2> DEFINE s == Ascending(days)
  <2> HIDE DEF s
  <2>3. s \in Seq(Files) /\ ToSet(s) = days
    BY <1>6, <2>2 DEF s
  <2>4. /\ Append(s, 0) \in Seq(Files) /\ Len(s) \in Nat
        /\ DOMAIN s = 1 .. Len(s) /\ DOMAIN Append(s, 0) = 1 .. Len(s) + 1
        /\ Append(s, 0)[Len(s) + 1] = 0 /\ \A i \in 1 .. Len(s) : Append(s, 0)[i] = s[i]
    BY <2>1, <2>3
  <2>5. ToSet(Append(s, 0)) = days \cup {0}
    <3>1. 1 .. Len(s) + 1 = 1 .. Len(s) \cup {Len(s) + 1}
      BY <2>4
    <3> QED BY <2>3, <2>4, <3>1 DEF ToSet
  <2> QED BY <2>4, <2>5 DEF s
<1> HIDE DEF left
<1>8. ExportTypes'
  <2>1. exporting' \in [upTo : 0 .. Len(rows), left : Seq(Files)]
    BY <1>1, <1>2, <1>7
  <2> QED BY <1>1, <1>2, <2>1 DEF ExportTypes
<1>9. /\ LinesAscend' /\ NoRowPassedOver' /\ \A f : Has(f)' = Has(f)
      /\ \A i, f : Belongs(i, f)' <=> Belongs(i, f)
  BY <1>1, FilesStand
<1>10. CursorBehind'
  BY <1>1, <1>9 DEF ExportInv, CursorBehind
<1>11. WrittenOrLeft'
  <2>1. exporting'.upTo = Len(rows) /\ ToSet(exporting'.left) = days \cup {0}
    BY <1>1, <1>7
  <2>2. SUFFICES ASSUME NEW f \in Files, NEW i \in cursor + 1 .. Len(rows), Belongs(i, f)
                 PROVE  f \in days \cup {0}
    BY <1>1, <1>9, <2>1 DEF WrittenOrLeft, ToSet
  <2>3. f = 0 \/ f = rows[i].day
    BY <2>2 DEF Belongs
  <2> QED BY <1>5, <2>3
<1> QED BY <1>8, <1>9, <1>10, <1>11 DEF ExportInv

\* A target written whole holds all it missed.
LEMMA WriteTargetInv == ASSUME ExportInv, WriteTarget PROVE ExportInv'
<1> DEFINE f == Head(exporting.left)
           file == Appended(f, Missing(f))
           K == MissingRows(f)
<1>1. /\ exporting.left # <<>> /\ targets' = [targets EXCEPT ![f] = file]
      /\ exporting' = [exporting EXCEPT !.left = Tail(exporting.left)]
      /\ UNCHANGED <<rows, cursor>>
  BY DEF WriteTarget
<1>2. exporting \in [upTo : 0 .. Len(rows), left : Seq(Files)] /\ Len(rows) \in Nat
  BY DEF ExportInv, ExportTypes
<1>3. /\ f \in Files /\ Tail(exporting.left) \in Seq(Files)
      /\ \A g \in ToSet(exporting.left) : g = f \/ g \in ToSet(Tail(exporting.left))
  <2> DEFINE l == exporting.left
  <2>1. l \in Seq(Files) /\ l # <<>>
    BY <1>1, <1>2
  <2> HIDE DEF l
  <2>2. /\ Head(l) \in Files /\ Tail(l) \in Seq(Files) /\ Len(l) \in Nat /\ Head(l) = l[1]
        /\ DOMAIN l = 1 .. Len(l) /\ DOMAIN Tail(l) = 1 .. Len(l) - 1
        /\ \A i \in 1 .. Len(l) - 1 : Tail(l)[i] = l[i + 1]
    BY <2>1
  <2>3. ASSUME NEW g \in ToSet(l), g # Head(l) PROVE g \in ToSet(Tail(l))
    <3>1. PICK i \in 1 .. Len(l) : g = l[i]
      BY <2>2, <2>3 DEF ToSet
    <3>2. i - 1 \in 1 .. Len(l) - 1 /\ i - 1 + 1 = i
      BY <2>2, <2>3, <3>1
    <3>3. Tail(l)[i - 1] = g
      BY <2>2, <3>1, <3>2
    <3> QED BY <2>2, <3>2, <3>3 DEF ToSet
  <2> QED BY <2>2, <2>3 DEF l
<1> HIDE DEF f
<1>4. /\ Missing(f) \in Seq(Nat) /\ Climbs(Missing(f)) /\ ToSet(Missing(f)) = K
      /\ \A x \in Has(f), y \in K : x < y
      /\ \A y \in K : y > 0
  BY <1>3, MissingLists
<1>5. Has(f) \in SUBSET (Nat \ {0}) /\ Holds(targets[f], Has(f)) /\ targets[f] \in Seq(Nat)
  BY <1>2, <1>3 DEF ExportInv, LinesAscend, ExportTypes
<1> HIDE DEF K
<1>6. Holds(file, Has(f) \cup K)
  <2>1. CASE Missing(f) = <<>>
    <3>1. K = {}
      BY <1>4, <2>1 DEF ToSet
    <3> QED BY <1>5, <2>1, <3>1 DEF Appended
  <2>2. CASE Missing(f) # <<>>
    <3>1. Holds(Complete(targets[f]) \o Missing(f) \o <<>>, Has(f) \cup ToSet(Missing(f)))
      BY <1>4, <1>5, FileGrows
    <3>2. Complete(targets[f]) \o Missing(f) \o <<>> = Complete(targets[f]) \o Missing(f)
      BY <1>4, <1>5, CompleteType
    <3> QED BY <1>4, <2>2, <3>1, <3>2 DEF Appended
  <2> QED BY <2>1, <2>2
<1> HIDE DEF file
<1>7. /\ targets' \in [Files -> Seq(Nat)]
      /\ LinesAscend' /\ NoRowPassedOver' /\ CursorBehind'
      /\ \A g \in Files : Has(g)' = IF g = f THEN Has(f) \cup K ELSE Has(g)
  <2>1. K \in SUBSET MissingRows(f) /\ \A x \in K, y \in MissingRows(f) : y < x => y \in K
    BY DEF K
  <2> QED BY <1>1, <1>3, <1>6, <2>1, FileTakes
<1>8. exporting' \in [upTo : 0 .. Len(rows), left : Seq(Files)]
      /\ exporting'.upTo = exporting.upTo /\ exporting'.left = Tail(exporting.left)
  BY <1>1, <1>2, <1>3
<1>9. ExportTypes'
  BY <1>1, <1>7, <1>8 DEF ExportInv, ExportTypes
<1>10. WrittenOrLeft'
  <2>1. SUFFICES ASSUME NEW g \in Files, NEW i \in cursor + 1 .. exporting.upTo,
                        Belongs(i, g), i \notin Has(g)'
                 PROVE  g \in ToSet(Tail(exporting.left))
    BY <1>1, <1>8 DEF WrittenOrLeft, ToSet, Belongs
  <2>2. g # f
    BY <1>7, <2>1 DEF K, MissingRows
  <2>3. i \notin Has(g)
    BY <1>7, <2>1, <2>2
  <2> QED BY <1>3, <2>1, <2>2, <2>3 DEF ExportInv, WrittenOrLeft
<1> QED BY <1>7, <1>9, <1>10 DEF ExportInv

\* With nothing left to write, the cursor may follow.
LEMMA SetCursorInv == ASSUME ExportInv, SetCursor PROVE ExportInv'
<1>1. /\ exporting.left = <<>> /\ cursor' = exporting.upTo /\ exporting' = NotExporting
      /\ UNCHANGED <<rows, targets>>
  BY DEF SetCursor
<1>2. /\ exporting \in [upTo : 0 .. Len(rows), left : Seq(Files)]
      /\ cursor \in 0 .. Len(rows) /\ Len(rows) \in Nat
  BY DEF ExportInv, ExportTypes
<1>3. /\ LinesAscend' /\ NoRowPassedOver' /\ \A f : Has(f)' = Has(f)
      /\ \A i, f : Belongs(i, f)' <=> Belongs(i, f)
  BY <1>1, FilesStand
<1>4. ExportTypes'
  <2>1. NotExporting \in [upTo : 0 .. Len(rows), left : Seq(Files)]
    BY <1>2 DEF NotExporting
  <2>2. exporting.upTo \in 0 .. Len(rows)
    BY <1>2
  <2> QED BY <1>1, <2>1, <2>2 DEF ExportInv, ExportTypes
<1>5. CursorBehind'
  <2>1. ToSet(exporting.left) = {}
    BY <1>1 DEF ToSet
  <2>2. SUFFICES ASSUME NEW f \in Files, NEW i \in 1 .. exporting.upTo, Belongs(i, f)
                 PROVE  i \in Has(f)
    BY <1>1, <1>3 DEF CursorBehind
  <2>3. CASE i \in 1 .. cursor
    BY <2>2, <2>3 DEF ExportInv, CursorBehind
  <2>4. CASE i \notin 1 .. cursor
    <3>1. i \in cursor + 1 .. exporting.upTo
      BY <1>2, <2>4
    <3> QED BY <2>1, <2>2, <3>1 DEF ExportInv, WrittenOrLeft
  <2> QED BY <2>3, <2>4
<1>6. WrittenOrLeft'
  <2>1. exporting'.upTo = 0 /\ cursor' \in Nat
    BY <1>1, <1>2 DEF NotExporting
  <2>2. cursor' + 1 .. exporting'.upTo = {}
    BY <2>1, NothingLeft
  <2> QED BY <2>2 DEF WrittenOrLeft
<1> QED BY <1>3, <1>4, <1>5, <1>6 DEF ExportInv

\* An export broken off leaves some first lines of what a file missed.
LEMMA BreakOffInv == ASSUME ExportInv, BreakOff PROVE ExportInv'
<1>1. exporting' = NotExporting /\ UNCHANGED <<rows, cursor>>
  BY DEF BreakOff
<1>2. /\ exporting \in [upTo : 0 .. Len(rows), left : Seq(Files)]
      /\ cursor \in 0 .. Len(rows) /\ Len(rows) \in Nat
  BY DEF ExportInv, ExportTypes
<1>3. targets' \in [Files -> Seq(Nat)] /\ LinesAscend' /\ NoRowPassedOver' /\ CursorBehind'
  <2>1. CASE UNCHANGED targets
    <3>1. /\ LinesAscend' /\ NoRowPassedOver' /\ \A f : Has(f)' = Has(f)
          /\ \A i, f : Belongs(i, f)' <=> Belongs(i, f)
      BY <1>1, <2>1, FilesStand
    <3> QED BY <1>1, <2>1, <3>1 DEF ExportInv, ExportTypes, CursorBehind
  <2>2. CASE ~UNCHANGED targets
    <3> DEFINE f == Head(exporting.left)
    <3>1. PICK n \in 0 .. Len(Missing(f)) - 1, partial \in {<<>>, << 0 >>} :
            /\ exporting.left # <<>>
            /\ targets' = [targets EXCEPT ![f] =
                            Complete(targets[f]) \o SubSeq(Missing(f), 1, n) \o partial]
      BY <2>2 DEF BreakOff
    <3>2. f \in Files
      <4>1. exporting.left \in Seq(Files) /\ exporting.left # <<>>
        BY <1>2, <3>1
      <4> QED BY <4>1
    <3> HIDE DEF f
    <3> DEFINE k == SubSeq(Missing(f), 1, n)
               file == Complete(targets[f]) \o k \o partial
    <3>3. /\ Missing(f) \in Seq(Nat) /\ Climbs(Missing(f)) /\ ToSet(Missing(f)) = MissingRows(f)
          /\ \A x \in Has(f), y \in MissingRows(f) : x < y
          /\ \A y \in MissingRows(f) : y > 0
      BY <3>2, MissingLists
    <3>4. n \in 0 .. Len(Missing(f))
      <4>1. Len(Missing(f)) \in Nat
        BY <3>3
      <4> QED BY <4>1
    <3>5. /\ k \in Seq(Nat) /\ Climbs(k) /\ ToSet(k) \subseteq ToSet(Missing(f))
          /\ \A x \in ToSet(k), y \in ToSet(Missing(f)) : y < x => y \in ToSet(k)
      BY <3>3, <3>4, FirstLines
    <3>6. Has(f) \in SUBSET (Nat \ {0}) /\ Holds(targets[f], Has(f))
      BY <1>2, <3>2 DEF ExportInv, LinesAscend
    <3> HIDE DEF k
    <3>7. Holds(file, Has(f) \cup ToSet(k))
      <4>1. \A y \in ToSet(k) : y > 0
        BY <3>3, <3>5
      <4>2. \A x \in Has(f), y \in ToSet(k) : x < y
        BY <3>3, <3>5
      <4> QED BY <3>5, <3>6, <4>1, <4>2, FileGrows
    <3>8. ToSet(k) \in SUBSET MissingRows(f)
          /\ \A x \in ToSet(k), y \in MissingRows(f) : y < x => y \in ToSet(k)
      BY <3>3, <3>5
    <3>9. targets' = [targets EXCEPT ![f] = file]
      BY <3>1 DEF k
    <3> HIDE DEF file
    <3> QED BY <1>1, <3>2, <3>7, <3>8, <3>9, FileTakes
  <2> QED BY <2>1, <2>2
<1>4. ExportTypes'
  <2>1. NotExporting \in [upTo : 0 .. Len(rows), left : Seq(Files)]
    BY <1>2 DEF NotExporting
  <2> QED BY <1>1, <1>3, <2>1 DEF ExportInv, ExportTypes
<1>5. WrittenOrLeft'
  <2>1. exporting'.upTo = 0 /\ cursor' \in Nat
    BY <1>1, <1>2 DEF NotExporting
  <2>2. cursor' + 1 .. exporting'.upTo = {}
    BY <2>1, NothingLeft
  <2> QED BY <2>2 DEF WrittenOrLeft
<1> QED BY <1>3, <1>4, <1>5 DEF ExportInv

\* The export's inductive invariant.
THEOREM ExportInvariance == ExportSpec => []ExportInv
<1>1. ASSUME ExportInv, [ExportNext]_exportVars PROVE ExportInv'
  <2>1. CASE UNCHANGED exportVars
    <3>1. UNCHANGED <<rows, targets, cursor, exporting>>
      BY <2>1 DEF exportVars
    <3>2. /\ LinesAscend' /\ NoRowPassedOver' /\ \A f : Has(f)' = Has(f)
          /\ \A i, f : Belongs(i, f)' <=> Belongs(i, f)
      BY <1>1, <3>1, FilesStand
    <3> QED BY <1>1, <3>1, <3>2 DEF ExportInv, ExportTypes, CursorBehind, WrittenOrLeft, ToSet
  <2> QED BY <1>1, <2>1, AppendRowInv, BeginExportInv, WriteTargetInv, SetCursorInv, BreakOffInv
          DEF ExportNext
<1> QED BY <1>1, ExportInitInv, PTL DEF ExportSpec

\* Broken off anywhere and repeated, an export leaves every row up to the cursor
\* in the files it belongs to, each once and in the order of the ledger.
THEOREM ExportIsSound == ExportSpec => []ExportSound
<1>1. ASSUME ExportInv PROVE ExportSound
  <2>1. CursorCovers
    <3>1. SUFFICES ASSUME NEW i \in 1 .. cursor
                   PROVE  i \in Has(rows[i].day) /\ (rows[i].trade => i \in Has(0))
      BY DEF CursorCovers, Has
    <3>2. rows \in Seq([day : 1 .. MaxExportDay, trade : BOOLEAN]) /\ i \in 1 .. Len(rows)
      BY <1>1 DEF ExportInv, ExportTypes
    <3>3. rows[i].day \in 1 .. MaxExportDay
      BY <1>1, <3>2, RowsHaveDays DEF ExportInv
    <3>4. rows[i].day \in Files /\ 0 \in Files /\ rows[i].day # 0
      BY <3>3, ExportAssumption DEF Files
    <3> QED BY <1>1, <3>4 DEF ExportInv, CursorBehind, Belongs
  <2>2. ExportedOnce
    <3>1. SUFFICES ASSUME NEW f \in Files, NEW i \in DOMAIN targets[f], NEW j \in DOMAIN targets[f],
                          i < j
                   PROVE  targets[f][i] # 0 /\ (targets[f][j] # 0 => targets[f][i] < targets[f][j])
      BY DEF ExportedOnce
    <3> DEFINE file == targets[f]
               c == Complete(file)
    <3>2. /\ file \in Seq(Nat) /\ Climbs(c) /\ ToSet(c) = Has(f) /\ Has(f) \subseteq 1 .. Len(rows)
      BY <1>1 DEF ExportInv, ExportTypes, LinesAscend, Holds
    <3>3. i \in 1 .. Len(file) /\ j \in 1 .. Len(file) /\ Len(file) \in Nat
      BY <3>1, <3>2
    <3> HIDE DEF file
    <3>4. /\ c = file \/ (c = SubSeq(file, 1, Len(file) - 1) /\ file[Len(file)] = 0)
      BY DEF Complete, Front, Last
    <3>5. i \in DOMAIN c /\ c[i] = file[i] /\ (file[j] # 0 => j \in DOMAIN c /\ c[j] = file[j])
      <4>1. CASE c = file
        BY <3>2, <3>3, <4>1
      <4>2. CASE c = SubSeq(file, 1, Len(file) - 1) /\ file[Len(file)] = 0
        <5>1. Len(file) - 1 \in Nat /\ i \in 1 .. Len(file) - 1
          BY <3>1, <3>3
        <5>2. DOMAIN c = 1 .. Len(file) - 1 /\ \A k \in 1 .. Len(file) - 1 : c[k] = file[k]
          BY <3>2, <4>2, <5>1
        <5>3. file[j] # 0 => j \in 1 .. Len(file) - 1
          BY <3>3, <4>2
        <5> QED BY <5>1, <5>2, <5>3
      <4> QED BY <3>4, <4>1, <4>2
    <3> HIDE DEF c
    <3>6. c[i] # 0
      <4>1. c[i] \in ToSet(c)
        BY <3>5 DEF ToSet
      <4> QED BY <3>2, <4>1
    <3>7. file[j] # 0 => c[i] < c[j]
      BY <3>1, <3>2, <3>5 DEF Climbs
    <3> QED BY <3>5, <3>6, <3>7 DEF file
  <2> QED BY <2>1, <2>2 DEF ExportSound
<1> QED BY <1>1, ExportInvariance, PTL
=============================================================================
