---------------------------- MODULE JournalExport ----------------------------
(***************************************************************************)
(* The export of the ledger at shutdown: every new row to its day's        *)
(* journal file, the trades among them to a second target, then the        *)
(* cursor.  Rows may be appended meanwhile; a crash may come at any        *)
(* write, and the next shutdown exports again.                             *)
(***************************************************************************)
EXTENDS Naturals, FiniteSets, SequencesExt

CONSTANTS MaxExportRows, MaxExportDay, MaxExports

ASSUME ExportAssumption == MaxExportDay \in Nat \ {0}

VARIABLES
  rows,          \* the ledger: Seq of [day, trade]
  targets,       \* per file, its lines in order: seqs, and 0 for a partial line
  cursor,        \* meta export_seq
  exporting,     \* [upTo, left]: the last row read, the files still to write
  exports

exportVars == <<rows, targets, cursor, exporting, exports>>

\* One file for a day's journal, 0 for the trades.
Files == 0 .. MaxExportDay
NotExporting == [upTo |-> 0, left |-> <<>>]

Belongs(i, file) == IF file = 0 THEN rows[i].trade ELSE rows[i].day = file

\* The numbers of S, the least first.
Ascending(S) ==
  CHOOSE s \in [1 .. Cardinality(S) -> S] : \A i, j \in DOMAIN s : i < j => s[i] < s[j]

ExportInit ==
  /\ rows = <<>> /\ cursor = 0 /\ exporting = NotExporting /\ exports = 0
  /\ targets = [f \in Files |-> <<>>]

\* Rows come in time order.
AppendRow ==
  /\ Len(rows) < MaxExportRows
  /\ \E day \in 1 .. MaxExportDay, trade \in BOOLEAN :
       /\ rows # <<>> => day >= Last(rows).day
       /\ rows' = Append(rows, [day |-> day, trade |-> trade])
  /\ UNCHANGED <<targets, cursor, exporting, exports>>

\* The rows after the cursor, by day, and the trades last.
BeginExport ==
  /\ exporting = NotExporting /\ Len(rows) > cursor /\ exports < MaxExports
  /\ exports' = exports + 1
  /\ LET days == {rows[i].day : i \in cursor + 1 .. Len(rows)} IN
     exporting' = [upTo |-> Len(rows),
                   left |-> Append(Ascending(days), 0)]
  /\ UNCHANGED <<rows, targets, cursor>>

\* The lines up to the last line break, and the seqs they export.
Complete(file) == IF file # <<>> /\ Last(file) = 0 THEN Front(file) ELSE file
Exported(file) == ToSet(Complete(file)) \ {0}

\* What the file does not hold yet; a partial line is cut before it.
Missing(f) ==
  Ascending({i \in cursor + 1 .. exporting.upTo :
               Belongs(i, f) /\ i \notin Exported(targets[f])})

Appended(f, lines) == IF lines = <<>> THEN targets[f] ELSE Complete(targets[f]) \o lines

WriteTarget ==
  /\ exporting.left # <<>>
  /\ LET f == Head(exporting.left) IN
     targets' = [targets EXCEPT ![f] = Appended(f, Missing(f))]
  /\ exporting' = [exporting EXCEPT !.left = Tail(@)]
  /\ UNCHANGED <<rows, cursor, exports>>
\* Mutant: the cursor is set to the rows there are now.
SetCursorNow ==
  /\ exporting # NotExporting /\ exporting.left = <<>>
  /\ cursor' = Len(rows) /\ exporting' = NotExporting
  /\ UNCHANGED <<rows, targets, exports>>

SetCursor ==
  /\ exporting # NotExporting /\ exporting.left = <<>>
  /\ cursor' = exporting.upTo /\ exporting' = NotExporting
  /\ UNCHANGED <<rows, targets, exports>>

\* A crash, or a failed write: some of the lines are there, perhaps a part of
\* the next one.
BreakOff ==
  /\ exporting # NotExporting /\ exporting' = NotExporting
  /\ \/ UNCHANGED targets
     \/ /\ exporting.left # <<>>
        /\ LET f == Head(exporting.left)
               lines == Missing(f)
           IN  \E n \in 0 .. Len(lines) - 1, partial \in {<<>>, <<0>>} :
                 targets' = [targets EXCEPT ![f] =
                               Complete(@) \o SubSeq(lines, 1, n) \o partial]
  /\ UNCHANGED <<rows, cursor, exports>>

ExportNext == AppendRow \/ BeginExport \/ WriteTarget \/ SetCursor \/ BreakOff

ExportSpec == ExportInit /\ [][ExportNext]_exportVars

-----------------------------------------------------------------------------
\* The cursor never passes a row that is missing from its journal file or, for
\* a trade, from the trades file, wherever exports broke off before.
CursorCovers ==
  \A i \in 1 .. cursor : /\ i \in Exported(targets[rows[i].day])
                         /\ rows[i].trade => i \in Exported(targets[0])

\* A row has at most one line in a file, in the order of the ledger, and a
\* partial line never stays between two others.
ExportedOnce ==
  \A f \in Files : \A i, j \in DOMAIN targets[f] :
    i < j => /\ targets[f][i] # 0
             /\ targets[f][j] # 0 => targets[f][i] < targets[f][j]

\* The export of the ledger, broken off anywhere and repeated, is complete as
\* far as its cursor says, and exact.
ExportSound == CursorCovers /\ ExportedOnce
=============================================================================
