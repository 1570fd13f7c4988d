----------------------------- MODULE BudgetLedger -----------------------------
(***************************************************************************)
(* What the budget engine promises: a ledger whose operations are atomic.  *)
(*                                                                         *)
(* A grant is split between what is available, what has been spent and     *)
(* what open reservations hold.  Reserve, commit, release and top-up each  *)
(* move money in one indivisible step, a reservation is admitted only      *)
(* within the available balance and the exposure limit, and a snapshot is  *)
(* a copy of the whole ledger.  Module BudgetEngine implements this with   *)
(* separate counters and locks.                                            *)
(***************************************************************************)
EXTENDS Sums

CONSTANTS Tenants, MaxI64, AllocatorMask, Amounts, None

VARIABLES
  tenants,    \* the tenants that exist
  available,  \* spendable balance
  spent,      \* lifetime committed amount
  granted,    \* everything ever granted
  limits,     \* exposure limit, 0 when there is none
  holds,      \* open reservations: id -> record, or None
  saved       \* the snapshot that was kept, or None

vars == <<tenants, available, spent, granted, limits, holds, saved>>

Ids == 1..(AllocatorMask - 1)

Hold(i, x) ==
  IF holds[i] = None THEN 0
  ELSE IF holds[i].tenant = x THEN holds[i].amount ELSE 0

Held(x) == Sum([i \in Ids |-> Hold(i, x)], AllocatorMask - 1)

Init ==
  /\ tenants = {}
  /\ available = [x \in Tenants |-> 0]
  /\ spent = [x \in Tenants |-> 0]
  /\ granted = [x \in Tenants |-> 0]
  /\ limits = [x \in Tenants |-> 0]
  /\ holds = [i \in Ids |-> None]
  /\ saved = None

EnsureTenant(x, grant) ==
  /\ grant >= 0
  /\ x \notin tenants
  /\ tenants' = tenants \cup {x}
  /\ available' = [available EXCEPT ![x] = grant]
  /\ granted' = [granted EXCEPT ![x] = grant]
  /\ UNCHANGED <<spent, limits, holds, saved>>

TopUp(x, amount) ==
  /\ amount > 0
  /\ x \in tenants
  /\ granted[x] + amount <= MaxI64
  /\ available' = [available EXCEPT ![x] = @ + amount]
  /\ granted' = [granted EXCEPT ![x] = @ + amount]
  /\ UNCHANGED <<tenants, spent, limits, holds, saved>>

SetLimit(x, max) ==
  /\ max >= 0
  /\ limits' = [limits EXCEPT ![x] = max]
  /\ UNCHANGED <<tenants, available, spent, granted, holds, saved>>

\* The hold gets an id that no open reservation has.
Reserve(x, cost, i) ==
  /\ cost > 0
  /\ x \in tenants
  /\ cost <= available[x]
  /\ limits[x] > 0 => Held(x) + cost <= limits[x]
  /\ holds[i] = None
  /\ available' = [available EXCEPT ![x] = @ - cost]
  /\ holds' = [holds EXCEPT ![i] = [tenant |-> x, amount |-> cost]]
  /\ UNCHANGED <<tenants, spent, granted, limits, saved>>

\* The actual cost is charged and the difference to the hold settled with the
\* available balance, which must cover an overrun.
Commit(i, actual) ==
  LET r == holds[i]
  IN  /\ actual >= 0
      /\ r # None
      /\ actual - r.amount <= available[r.tenant]
      /\ available' = [available EXCEPT ![r.tenant] = @ + r.amount - actual]
      /\ spent' = [spent EXCEPT ![r.tenant] = @ + actual]
      /\ holds' = [holds EXCEPT ![i] = None]
      /\ UNCHANGED <<tenants, granted, limits, saved>>

Release(i) ==
  LET r == holds[i]
  IN  /\ r # None
      /\ available' = [available EXCEPT ![r.tenant] = @ + r.amount]
      /\ holds' = [holds EXCEPT ![i] = None]
      /\ UNCHANGED <<tenants, spent, granted, limits, saved>>

NoneHeld == holds = [i \in Ids |-> None]

Capture ==
  [tenants |-> tenants, available |-> available, spent |-> spent, granted |-> granted,
   settled |-> NoneHeld]

Snapshot ==
  /\ saved' = Capture
  /\ UNCHANGED <<tenants, available, spent, granted, limits, holds>>

\* Only a snapshot without open reservations is restored.
Restore ==
  /\ saved # None
  /\ saved.settled
  /\ tenants' = saved.tenants
  /\ available' = saved.available
  /\ spent' = saved.spent
  /\ granted' = saved.granted
  /\ limits' = [x \in Tenants |-> 0]
  /\ holds' = [i \in Ids |-> None]
  /\ UNCHANGED saved

Next ==
  \/ \E x \in Tenants, amount \in Amounts :
       \/ EnsureTenant(x, amount)
       \/ TopUp(x, amount)
       \/ SetLimit(x, amount)
       \/ \E i \in Ids : Reserve(x, amount, i)
  \/ \E i \in Ids, actual \in Amounts : Commit(i, actual)
  \/ \E i \in Ids : Release(i)
  \/ Snapshot
  \/ Restore

Spec == Init /\ [][Next]_vars

-----------------------------------------------------------------------------
Record == [tenant : Tenants, amount : 1..MaxI64]
=============================================================================
