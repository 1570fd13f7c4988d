---------------------------- MODULE MCBudgetEngine ----------------------------
(* The engine with small amounts, an invalid negative one included, and the ledger it implements. *)
EXTENDS BudgetEngine

MCAmounts == -1..MaxI64

-----------------------------------------------------------------------------
(***************************************************************************)
(* The engine implements the atomic ledger.  Reserve takes effect at the   *)
(* debit, release and a commit without overrun when the record is taken, a *)
(* commit with an overrun at the debit of the difference, and a top-up at  *)
(* the credit; the mapping adds to each counter what the thread that took  *)
(* effect has still to write.                                              *)
(***************************************************************************)
\* The snapshots of the ledger.  None is no snapshot, of the engine or of the ledger.
LedgerSnapshots ==
  [tenants : SUBSET Tenants, available : Ledger, spent : Ledger, granted : Ledger, settled : BOOLEAN]

ASSUME SnapshotAssumption == None \notin Snapshots /\ None \notin LedgerSnapshots

SavedLedger ==
  IF saved = None THEN None
  ELSE [tenants |-> saved.tenants, available |-> saved.budgets, spent |-> saved.committed,
        granted |-> saved.initials, settled |-> saved.active = {}]

Abstract == INSTANCE BudgetLedger WITH
  available <- [x \in Tenants |-> Available(x)],
  spent <- [x \in Tenants |-> Spent(x)],
  granted <- [x \in Tenants |-> Granted(x)],
  holds <- [i \in Ids |-> OpenHold(i)],
  saved <- SavedLedger

\* Under every interleaving the engine behaves as the atomic ledger does: each
\* operation takes effect in one step between its call and its return, and a
\* failed operation has no effect at all.
ImplementsLedger == Abstract!Spec
=============================================================================
