--------------------------- MODULE MCLedgerStore ---------------------------
(***************************************************************************)
(* Instances of the ledger's modules.  The scene is picked once; the       *)
(* variables of the other scenes keep their initial values.                *)
(***************************************************************************)
EXTENDS LedgerStore, LedgerReports, JournalExport, TLC

VARIABLE scene

CONSTANTS b1, b2, b3, b4, k1, k2, k3, k4, m1, m2

\* The store: batches of one and two rows that share keys, and one that repeats
\* a key.
KeysOfBatches == b1 :> <<k1, k2>> @@ b2 :> <<k2, k3>> @@ b3 :> <<k3>> @@ b4 :> <<k4, k4>>

\* The accounts: which mint is which makes no difference.
MintSymmetry == Permutations({m1, m2})

\* Bound: one refusal and two marks; more of them add to a sum that others
\* of the same kind already add to.
FewOfAKind ==
  /\ Cardinality({i \in DOMAIN log : log[i].type = "OrderRejected"}) <= 1
  /\ Cardinality({i \in DOMAIN log : log[i].type = "MarkToMarket"}) <= 2

MCInit ==
  /\ Init /\ AccountsInit /\ ExportInit
  /\ scene \in {"store", "accounts", "export"}

MCNext ==
  /\ UNCHANGED scene
  /\ IF scene = "store" THEN Next ELSE UNCHANGED vars
  /\ IF scene = "accounts" THEN AccountsNext /\ FewOfAKind' ELSE UNCHANGED accountVars
  /\ IF scene = "export" THEN ExportNext ELSE UNCHANGED exportVars

ledgerVars == <<scene, vars, accountVars, exportVars>>
MCSpec == MCInit /\ [][MCNext]_ledgerVars
=============================================================================
