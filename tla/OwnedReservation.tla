--------------------------- MODULE OwnedReservation ---------------------------
(***************************************************************************)
(* The owned reservations of src/budget.rs (feature preview): a value that *)
(* stands for one hold and is settled at most once.                        *)
(*                                                                         *)
(* The engine below it is the atomic ledger of module BudgetLedger.  owned *)
(* is the set of Reservation values that are alive: Rust's move rules make *)
(* a value disappear from it when commit, release, into_id or drop takes   *)
(* it.  ids is what id and into_id handed out, plain numbers that may be   *)
(* used any number of times, id while its value is still alive.  The       *)
(* limits and snapshots of the ledger play no part here; a restore, which  *)
(* the engine allows only in exclusive recovery, would invalidate the      *)
(* values and is left out.                                                 *)
(***************************************************************************)
EXTENDS BudgetLedger

VARIABLES
  nextId,   \* next_id
  owned,    \* ids of the Reservation values that are alive
  ids       \* numbers that id and into_id have returned

\* A settled id holds no record.
ASSUME OwnedAssumption ==
  /\ AllocatorMask \in Nat
  /\ None \notin [tenant : Tenants, amount : Amounts]

allVars == <<vars, nextId, owned, ids>>

OwnedInit ==
  /\ Init
  /\ nextId = 1
  /\ owned = {}
  /\ ids = {}

\* The tenant's balance does not cover what the cost exceeds the hold by.
Short(i, actual) == actual - holds[i].amount > available[holds[i].tenant]

\* How the engine's commit answers, in the order of its checks.
Settlement(i, actual) ==
  CASE actual < 0 -> "InvalidAmount"
    [] actual >= 0 /\ holds[i] = None -> "MissingReservation"
    [] actual >= 0 /\ holds[i] # None /\ spent[holds[i].tenant] + actual > MaxI64 -> "Overflow"
    [] OTHER -> IF Short(i, actual) THEN "Overrun" ELSE "Committed"

\* Every refusal puts the record back; only a commit changes the ledger.
EngineCommit(i, actual) ==
  IF Settlement(i, actual) = "Committed" THEN Commit(i, actual) ELSE UNCHANGED vars

Setup(x, amount) ==
  /\ EnsureTenant(x, amount) \/ TopUp(x, amount)
  /\ UNCHANGED <<nextId, owned, ids>>

ReserveOwned(x, cost) ==
  /\ nextId \in Ids
  /\ Reserve(x, cost, nextId)
  /\ nextId' = nextId + 1
  /\ owned' = owned \cup {nextId}
  /\ UNCHANGED ids

\* A slip of the translation: the value survives its own settlement.
CommitOwnedKeepsValue(i, actual) ==
  /\ i \in owned
  /\ EngineCommit(i, actual)
  /\ UNCHANGED <<nextId, owned, ids>>

\* Only Overrun hands the value back; every other settlement consumes it.
CommitOwned(i, actual) ==
  /\ i \in owned
  /\ EngineCommit(i, actual)
  /\ owned' = IF Settlement(i, actual) = "Overrun" THEN owned ELSE owned \ {i}
  /\ UNCHANGED <<nextId, ids>>

ReleaseOwned(i) ==
  /\ i \in owned
  /\ IF holds[i] # None THEN Release(i) ELSE UNCHANGED vars
  /\ owned' = owned \ {i}
  /\ UNCHANGED <<nextId, ids>>

\* Dropping a value keeps its hold.
Drop(i) ==
  /\ i \in owned
  /\ owned' = owned \ {i}
  /\ UNCHANGED <<vars, nextId, ids>>

\* Reservation::id: the number of a value that stays alive.
ReadId(i) ==
  /\ i \in owned
  /\ ids' = ids \cup {i}
  /\ UNCHANGED <<vars, nextId, owned>>

IntoId(i) ==
  /\ i \in owned
  /\ owned' = owned \ {i}
  /\ ids' = ids \cup {i}
  /\ UNCHANGED <<vars, nextId>>

\* commit and release by number: a number may be used again after it settled.
SettleById(i, actual) ==
  /\ i \in ids
  /\ \/ EngineCommit(i, actual)
     \/ IF holds[i] # None THEN Release(i) ELSE UNCHANGED vars
  /\ UNCHANGED <<nextId, owned, ids>>

OwnedNext ==
  \/ \E x \in Tenants, amount \in Amounts : Setup(x, amount) \/ ReserveOwned(x, amount)
  \/ \E i \in Ids, actual \in Amounts : CommitOwned(i, actual) \/ SettleById(i, actual)
  \/ \E i \in Ids : ReleaseOwned(i) \/ Drop(i) \/ ReadId(i) \/ IntoId(i)

OwnedSpec == OwnedInit /\ [][OwnedNext]_allVars

-----------------------------------------------------------------------------
\* Reservation, budget.rs: a value that is alive and whose number nobody has asked for names an
\* open hold, whatever is done with other values and with the numbers of those: its commit and
\* release never find the record gone.  (Once id has given the number out, the engine's own
\* commit and release may settle the hold behind the value.)
ValueNamesOpenHold == \A i \in owned \ ids : holds[i] # None
=============================================================================
