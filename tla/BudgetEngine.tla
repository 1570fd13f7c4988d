----------------------------- MODULE BudgetEngine -----------------------------
(***************************************************************************)
(* The atomic budget engine of src/budget.rs.                              *)
(*                                                                         *)
(* N threads call try_reserve, commit, release and top_up_tenant at the    *)
(* same time.  Each of these runs under a shared guard of checkpoint_gate  *)
(* and is a sequence of atomic steps, one per access to a shared counter   *)
(* or map; pc[t] says which step thread t takes next.  snapshot, restore   *)
(* and the exposure-cap update take the exclusive guard, so they run while *)
(* no thread is inside an operation and are one step each.  A compare-and- *)
(* swap loop is one step: it decides on the value its last load or         *)
(* exchange returned (module CasLoop shows that this is what it does).     *)
(*                                                                         *)
(* Two mutexes are held across several steps and are modelled: the         *)
(* reservations map (commit and release hold it to the end) and the        *)
(* initials map (top_up_tenant holds it from its read to its write).  The  *)
(* others only guard single lookups; module EngineLocks has all of them.   *)
(***************************************************************************)
EXTENDS Sums

CONSTANTS
  N,              \* number of threads using the engine
  Tenants,        \* tenant identifiers
  MaxI64,         \* i64::MAX
  AllocatorMask,  \* RECOVERY_ALLOCATOR_MASK
  Amounts,        \* amounts callers pass, invalid ones included
  None            \* an absent map entry

Threads == 1..N

Ids == 1..(AllocatorMask - 1)

ASSUME ConstantsAssumption ==
  /\ N \in Nat \ {0}
  /\ MaxI64 \in Nat \ {0}
  /\ AllocatorMask \in Nat \ {0, 1}
  /\ Amounts \subseteq (-MaxI64 - 1)..MaxI64

\* A ReservationRecord.
Record == [tenant : Tenants, amount : 1..MaxI64]

ASSUME NoneAssumption == None \notin Record /\ None \notin Tenants

VARIABLES
  tenants,           \* keys of tenant_budgets (and of the maps created with it)
  budgets,           \* tenant_budgets: spendable balance
  initials,          \* initial_microcents
  committed,         \* committed_microcents
  reservedTotals,    \* tenant_reserved_totals
  limits,            \* max_reserved_microcents, 0 when there is no cap
  reservations,      \* reservations: id -> record, or None
  nextId,            \* next_id
  snapshotVersion,   \* snapshot_version without its tag bit
  saved,             \* the snapshot the application has kept, or None
  reservationsLock,  \* thread that holds the reservations mutex, 0 if none
  initialsLock,      \* thread that holds the initial_microcents mutex, 0 if none
  pc,                \* pc[t]: the next step of thread t
  local              \* local[t]: arguments and locals of t's operation

maps == <<tenants, initials, committed, limits, reservations>>
fences == <<nextId, snapshotVersion, saved>>
mutexes == <<reservationsLock, initialsLock>>
vars == <<maps, budgets, reservedTotals, fences, mutexes, pc, local>>

\* The locals of a thread outside every operation.
NoCall == [tenant |-> None, amount |-> 0, id |-> 0, actual |-> 0, max |-> 0, next |-> 0]

\* The locals of an operation on tenant x.
Call(x, amount) == [NoCall EXCEPT !.tenant = x, !.amount = amount]

Goto(t, label) == pc' = [pc EXCEPT ![t] = label] /\ UNCHANGED local

Enter(t, label, l) ==
  /\ pc' = [pc EXCEPT ![t] = label]
  /\ local' = [local EXCEPT ![t] = l]

Return(t) == Enter(t, "idle", NoCall)

\* The exclusive guard of checkpoint_gate can be taken: no shared guard is held.
GateFree == \A t \in Threads : pc[t] = "idle"

Add(f, x, amount) == [f EXCEPT ![x] = @ + amount]

Init ==
  /\ tenants = {}
  /\ budgets = [x \in Tenants |-> 0]
  /\ initials = [x \in Tenants |-> 0]
  /\ committed = [x \in Tenants |-> 0]
  /\ reservedTotals = [x \in Tenants |-> 0]
  /\ limits = [x \in Tenants |-> 0]
  /\ reservations = [i \in Ids |-> None]
  /\ nextId = 1
  /\ snapshotVersion = 0
  /\ saved = None
  /\ reservationsLock = 0
  /\ initialsLock = 0
  /\ pc = [t \in Threads |-> "idle"]
  /\ local = [t \in Threads |-> NoCall]

-----------------------------------------------------------------------------
(***************************************************************************)
(* try_ensure_tenant.  All four maps are locked before the first insert,   *)
(* so the new tenant appears in one step; commit holds the mutex of the    *)
(* lifetime totals while it debits and writes.  An existing tenant is left *)
(* alone.                                                                  *)
(***************************************************************************)
EnsureTenant(x, grant) ==
  /\ grant >= 0
  /\ x \notin tenants
  /\ initialsLock = 0
  /\ \A t \in Threads : pc[t] \notin {"commit_debit", "commit_write"}
  /\ tenants' = tenants \cup {x}
  /\ budgets' = [budgets EXCEPT ![x] = grant]
  /\ initials' = [initials EXCEPT ![x] = grant]
  /\ committed' = [committed EXCEPT ![x] = 0]
  /\ reservedTotals' = [reservedTotals EXCEPT ![x] = 0]
  /\ UNCHANGED <<limits, reservations, fences, mutexes, pc, local>>

-----------------------------------------------------------------------------
(***************************************************************************)
(* try_reserve.  The tenant's counters and the exposure cap are looked up, *)
(* the reserved total is raised, an id is allocated, the balance is        *)
(* debited, and the record is inserted.  A failed allocation or debit      *)
(* takes the reserved total back.                                          *)
(***************************************************************************)
ReserveLookup(t, x, cost) ==
  /\ pc[t] = "idle"
  /\ cost > 0
  /\ x \in tenants
  /\ Enter(t, "count", [Call(x, cost) EXCEPT !.max = limits[x]])
  /\ UNCHANGED <<maps, budgets, reservedTotals, fences, mutexes>>

\* try_increment_reserved_total
ReserveCount(t) ==
  LET l == local[t]
      newTotal == reservedTotals[l.tenant] + l.amount
      refused == newTotal > MaxI64 \/ (l.max > 0 /\ newTotal > l.max)
  IN  /\ pc[t] = "count"
      /\ IF refused
         THEN Return(t) /\ UNCHANGED reservedTotals
         ELSE /\ reservedTotals' = Add(reservedTotals, l.tenant, l.amount)
              /\ Goto(t, "allocate")
      /\ UNCHANGED <<maps, budgets, fences, mutexes>>

ReserveAllocate(t) ==
  /\ pc[t] = "allocate"
  /\ IF nextId < AllocatorMask
     THEN /\ nextId' = nextId + 1
          /\ Enter(t, "debit", [local[t] EXCEPT !.id = nextId])
     ELSE Goto(t, "uncount") /\ UNCHANGED nextId
  /\ UNCHANGED <<maps, budgets, reservedTotals, snapshotVersion, saved, mutexes>>

\* debit_if_available
ReserveDebit(t) ==
  LET l == local[t]
  IN  /\ pc[t] = "debit"
      /\ IF budgets[l.tenant] < l.amount
         THEN Goto(t, "uncount") /\ UNCHANGED budgets
         ELSE /\ budgets' = Add(budgets, l.tenant, -l.amount)
              /\ Goto(t, "insert")
      /\ UNCHANGED <<maps, reservedTotals, fences, mutexes>>

\* Mutant: the failure paths forget to take the reserved total back.
ReserveUncountForgotten(t) ==
  /\ pc[t] = "uncount"
  /\ Return(t)
  /\ UNCHANGED <<maps, budgets, reservedTotals, fences, mutexes>>

\* The fetch_sub of both failure paths.
ReserveUncount(t) ==
  /\ pc[t] = "uncount"
  /\ reservedTotals' = Add(reservedTotals, local[t].tenant, -local[t].amount)
  /\ Return(t)
  /\ UNCHANGED <<maps, budgets, fences, mutexes>>

ReserveInsert(t) ==
  LET l == local[t]
  IN  /\ pc[t] = "insert"
      /\ reservationsLock = 0
      /\ reservations' = [reservations EXCEPT
                            ![l.id] = [tenant |-> l.tenant, amount |-> l.amount]]
      /\ Return(t)
      /\ UNCHANGED <<tenants, initials, committed, limits, budgets, reservedTotals, fences, mutexes>>

-----------------------------------------------------------------------------
\* Mutant: the record is read but stays in the map while the commit runs.
CommitTakeKeepsRecord(t, i, actual) ==
  LET r == reservations[i]
      newCommitted == committed[r.tenant] + actual
  IN  /\ pc[t] = "idle"
      /\ actual >= 0
      /\ reservationsLock = 0
      /\ r # None
      /\ newCommitted <= MaxI64
      /\ reservationsLock' = t
      /\ Enter(t, IF actual > r.amount THEN "commit_debit" ELSE "commit_write",
               [Call(r.tenant, r.amount) EXCEPT !.id = i, !.actual = actual, !.next = newCommitted])
      /\ UNCHANGED <<maps, budgets, reservedTotals, fences, initialsLock>>

(***************************************************************************)
(* commit.  The record is taken out of the map, whose mutex is held to the *)
(* end.  A lifetime overflow puts it back, and so does an overrun that the *)
(* balance cannot cover.  Otherwise the lifetime total is written, the     *)
(* surplus refunded, and the reserved total lowered.                       *)
(***************************************************************************)
CommitTake(t, i, actual) ==
  LET r == reservations[i]
      newCommitted == committed[r.tenant] + actual
  IN  /\ pc[t] = "idle"
      /\ actual >= 0
      /\ reservationsLock = 0
      /\ r # None
      /\ r.tenant \in tenants
      /\ newCommitted <= MaxI64
      /\ reservationsLock' = t
      /\ reservations' = [reservations EXCEPT ![i] = None]
      /\ Enter(t, IF actual > r.amount THEN "commit_debit" ELSE "commit_write",
               [Call(r.tenant, r.amount) EXCEPT !.id = i, !.actual = actual, !.next = newCommitted])
      /\ UNCHANGED <<tenants, initials, committed, limits, budgets, reservedTotals, fences, initialsLock>>

\* Mutant: a failed overrun refunds the hold and keeps the reservation.
CommitDebitRefunds(t) ==
  LET l == local[t]
      delta == l.actual - l.amount
  IN  /\ pc[t] = "commit_debit"
      /\ IF budgets[l.tenant] < delta
         THEN /\ reservations' = [reservations EXCEPT
                                    ![l.id] = [tenant |-> l.tenant, amount |-> l.amount]]
              /\ budgets' = Add(budgets, l.tenant, l.amount)
              /\ reservationsLock' = 0
              /\ Return(t)
         ELSE /\ budgets' = Add(budgets, l.tenant, -delta)
              /\ Goto(t, "commit_write")
              /\ UNCHANGED <<reservations, reservationsLock>>
      /\ UNCHANGED <<tenants, initials, committed, limits, reservedTotals, fences, initialsLock>>

\* The overrun: debit the difference, or put the record back and return Overrun.
CommitDebit(t) ==
  LET l == local[t]
      delta == l.actual - l.amount
  IN  /\ pc[t] = "commit_debit"
      /\ IF budgets[l.tenant] < delta
         THEN /\ reservations' = [reservations EXCEPT
                                    ![l.id] = [tenant |-> l.tenant, amount |-> l.amount]]
              /\ reservationsLock' = 0
              /\ Return(t)
              /\ UNCHANGED budgets
         ELSE /\ budgets' = Add(budgets, l.tenant, -delta)
              /\ Goto(t, "commit_write")
              /\ UNCHANGED <<reservations, reservationsLock>>
      /\ UNCHANGED <<tenants, initials, committed, limits, reservedTotals, fences, initialsLock>>

CommitWrite(t) ==
  LET l == local[t]
  IN  /\ pc[t] = "commit_write"
      /\ committed' = [committed EXCEPT ![l.tenant] = l.next]
      /\ Goto(t, IF l.actual < l.amount THEN "commit_refund" ELSE "commit_uncount")
      /\ UNCHANGED <<tenants, initials, limits, reservations, budgets, reservedTotals, fences, mutexes>>

CommitRefund(t) ==
  LET l == local[t]
  IN  /\ pc[t] = "commit_refund"
      /\ budgets' = Add(budgets, l.tenant, l.amount - l.actual)
      /\ Goto(t, "commit_uncount")
      /\ UNCHANGED <<maps, reservedTotals, fences, mutexes>>

\* Mutant: the reserved total is lowered by the actual cost instead of the hold.
CommitUncountActual(t) ==
  /\ pc[t] = "commit_uncount"
  /\ reservedTotals' = Add(reservedTotals, local[t].tenant, -local[t].actual)
  /\ reservationsLock' = 0
  /\ Return(t)
  /\ UNCHANGED <<maps, budgets, fences, initialsLock>>

CommitUncount(t) ==
  /\ pc[t] = "commit_uncount"
  /\ reservedTotals' = Add(reservedTotals, local[t].tenant, -local[t].amount)
  /\ reservationsLock' = 0
  /\ Return(t)
  /\ UNCHANGED <<maps, budgets, fences, initialsLock>>

-----------------------------------------------------------------------------
(***************************************************************************)
(* release: the reserved total is lowered before the balance is credited.  *)
(***************************************************************************)
ReleaseTake(t, i) ==
  LET r == reservations[i]
  IN  /\ pc[t] = "idle"
      /\ reservationsLock = 0
      /\ r # None
      /\ r.tenant \in tenants
      /\ reservationsLock' = t
      /\ reservations' = [reservations EXCEPT ![i] = None]
      /\ Enter(t, "release_uncount", [Call(r.tenant, r.amount) EXCEPT !.id = i])
      /\ UNCHANGED <<tenants, initials, committed, limits, budgets, reservedTotals, fences, initialsLock>>

ReleaseUncount(t) ==
  /\ pc[t] = "release_uncount"
  /\ reservedTotals' = Add(reservedTotals, local[t].tenant, -local[t].amount)
  /\ Goto(t, "release_credit")
  /\ UNCHANGED <<maps, budgets, fences, mutexes>>

ReleaseCredit(t) ==
  /\ pc[t] = "release_credit"
  /\ budgets' = Add(budgets, local[t].tenant, local[t].amount)
  /\ reservationsLock' = 0
  /\ Return(t)
  /\ UNCHANGED <<maps, reservedTotals, fences, initialsLock>>

-----------------------------------------------------------------------------
(***************************************************************************)
(* top_up_tenant: the balance is credited before the grant is recorded,    *)
(* under the mutex of the grants.                                          *)
(***************************************************************************)
TopUpLock(t, x, amount) ==
  /\ pc[t] = "idle"
  /\ amount > 0
  /\ x \in tenants
  /\ initialsLock = 0
  /\ initials[x] + amount <= MaxI64
  /\ initialsLock' = t
  /\ Enter(t, "topup_credit", [Call(x, amount) EXCEPT !.next = initials[x] + amount])
  /\ UNCHANGED <<maps, budgets, reservedTotals, fences, reservationsLock>>

\* credit_if_no_overflow
TopUpCredit(t) ==
  LET l == local[t]
  IN  /\ pc[t] = "topup_credit"
      /\ IF budgets[l.tenant] + l.amount > MaxI64
         THEN initialsLock' = 0 /\ Return(t) /\ UNCHANGED budgets
         ELSE /\ budgets' = Add(budgets, l.tenant, l.amount)
              /\ Goto(t, "topup_write")
              /\ UNCHANGED initialsLock
      /\ UNCHANGED <<maps, reservedTotals, fences, reservationsLock>>

TopUpWrite(t) ==
  /\ pc[t] = "topup_write"
  /\ initials' = [initials EXCEPT ![local[t].tenant] = local[t].next]
  /\ initialsLock' = 0
  /\ Return(t)
  /\ UNCHANGED <<tenants, committed, limits, reservations, budgets, reservedTotals, fences, reservationsLock>>

-----------------------------------------------------------------------------
\* The update of the cap; without the exclusive guard it would be a mutant.
WriteLimit(x, max) ==
  /\ max >= 0
  /\ limits' = [limits EXCEPT ![x] = max]
  /\ UNCHANGED <<tenants, initials, committed, reservations, budgets, reservedTotals, fences, mutexes, pc, local>>

\* try_set_max_reserved_microcents, under the exclusive guard.
SetLimit(x, max) == GateFree /\ WriteLimit(x, max)

\* The open reservations; a snapshot reports how many there are.
Active == {i \in Ids : reservations[i] # None}

\* The BudgetSnapshot of the current state; version is the allocator fence.
Capture ==
  [version |-> nextId + 1, tenants |-> tenants, initials |-> initials, budgets |-> budgets,
   reserved |-> reservedTotals, committed |-> committed, active |-> Active]

\* The copy of the maps; without the exclusive guard it would be a mutant.
CopyMaps ==
  /\ nextId < AllocatorMask
  /\ nextId' = nextId + 1
  /\ snapshotVersion' = nextId + 1
  /\ saved' \in {saved, Capture}
  /\ UNCHANGED <<maps, budgets, reservedTotals, mutexes, pc, local>>

\* try_snapshot, under the exclusive guard; the application may keep the result.
Snapshot == GateFree /\ CopyMaps

\* conservation_status_for_snapshot returns Balanced.
Balanced(snap) ==
  \A x \in snap.tenants :
    /\ snap.budgets[x] + snap.reserved[x] + snap.committed[x] <= MaxI64
    /\ snap.budgets[x] + snap.reserved[x] + snap.committed[x] = snap.initials[x]
    /\ snap.budgets[x] >= 0

\* validate_snapshot_for_restore
Restorable(snap) ==
  /\ snap.version # 0
  /\ snap.active = {}
  /\ \A x \in snap.tenants : /\ snap.reserved[x] = 0
                             /\ snap.initials[x] >= 0
                             /\ snap.committed[x] >= 0
  /\ Balanced(snap)

\* The replacement of every map but the reservations.
ReplaceLedger ==
  /\ saved # None
  /\ Restorable(saved)
  /\ tenants' = saved.tenants
  /\ budgets' = [x \in Tenants |-> IF x \in saved.tenants THEN saved.budgets[x] ELSE 0]
  /\ initials' = [x \in Tenants |-> IF x \in saved.tenants THEN saved.initials[x] ELSE 0]
  /\ committed' = [x \in Tenants |-> IF x \in saved.tenants THEN saved.committed[x] ELSE 0]
  /\ reservedTotals' = [x \in Tenants |-> 0]
  /\ limits' = [x \in Tenants |-> 0]
  /\ nextId' = saved.version
  /\ snapshotVersion' = saved.version
  /\ UNCHANGED <<saved, mutexes, pc, local>>

ReplaceMaps == ReplaceLedger /\ reservations' = [i \in Ids |-> None]

\* restore_from_snapshot: validated first, then everything is replaced under
\* the exclusive guard.
Restore == GateFree /\ ReplaceMaps

-----------------------------------------------------------------------------
\* A step of the operation thread t is in, or the call that starts one.
Reserve(t) ==
  \/ \E x \in Tenants, cost \in Amounts : ReserveLookup(t, x, cost)
  \/ ReserveCount(t)
  \/ ReserveAllocate(t)
  \/ ReserveDebit(t)
  \/ ReserveUncount(t)
  \/ ReserveInsert(t)

Commit(t) ==
  \/ \E i \in Ids, actual \in Amounts : CommitTake(t, i, actual)
  \/ CommitDebit(t)
  \/ CommitWrite(t)
  \/ CommitRefund(t)
  \/ CommitUncount(t)

Release(t) ==
  \/ \E i \in Ids : ReleaseTake(t, i)
  \/ ReleaseUncount(t)
  \/ ReleaseCredit(t)

TopUp(t) ==
  \/ \E x \in Tenants, amount \in Amounts : TopUpLock(t, x, amount)
  \/ TopUpCredit(t)
  \/ TopUpWrite(t)

Next ==
  \/ \E t \in Threads : Reserve(t) \/ Commit(t) \/ Release(t) \/ TopUp(t)
  \/ \E x \in Tenants, grant \in Amounts : EnsureTenant(x, grant)
  \/ \E x \in Tenants, max \in Amounts : SetLimit(x, max)
  \/ Snapshot
  \/ Restore

Spec == Init /\ [][Next]_vars

-----------------------------------------------------------------------------
(***************************************************************************)
(* Properties                                                              *)
(***************************************************************************)
Counting == {"allocate", "debit", "uncount"}
Settling == {"commit_debit", "commit_write", "commit_refund", "commit_uncount",
             "release_uncount", "release_credit"}
ToppingUp == {"topup_credit", "topup_write"}
Labels == {"idle", "count", "insert"} \cup Counting \cup Settling \cup ToppingUp

Locals == [tenant : Tenants \cup {None}, amount : 0..MaxI64, id : 0..(AllocatorMask - 1),
           actual : 0..MaxI64, max : 0..MaxI64, next : 0..MaxI64]

Ledger == [Tenants -> 0..MaxI64]

Snapshots == [version : 2..AllocatorMask, tenants : SUBSET Tenants, initials : Ledger,
              budgets : Ledger, reserved : Ledger, committed : Ledger, active : SUBSET Ids]

\* Every counter of the engine stays inside i64 and is never negative, and
\* every lock has at most one owner, whatever the threads interleave.
TypeOK ==
  /\ tenants \subseteq Tenants
  /\ budgets \in Ledger
  /\ initials \in Ledger
  /\ committed \in Ledger
  /\ reservedTotals \in Ledger
  /\ limits \in Ledger
  /\ reservations \in [Ids -> Record \cup {None}]
  /\ nextId \in 1..AllocatorMask
  /\ snapshotVersion \in 0..AllocatorMask
  /\ saved \in Snapshots \cup {None}
  /\ reservationsLock \in 0..N
  /\ initialsLock \in 0..N
  /\ pc \in [Threads -> Labels]
  /\ local \in [Threads -> Locals]

\* What reservation i holds of tenant x, while it is in the map.
Hold(i, x) ==
  IF reservations[i] = None THEN 0
  ELSE IF reservations[i].tenant = x THEN reservations[i].amount ELSE 0

Held(x) == Sum([i \in Ids |-> Hold(i, x)], AllocatorMask - 1)

\* What thread t has in reservedTotals[x] without a record in the map.
Counted(t, x) ==
  IF local[t].tenant = x /\ pc[t] \in (Counting \cup Settling \cup {"insert"}) \ {"release_credit"}
  THEN local[t].amount ELSE 0

CountedSum(x) == Sum([t \in Threads |-> Counted(t, x)], N)

\* The money of tenant x that thread t has taken from one place of the ledger
\* and not yet put into another.
InHand(t, x) ==
  LET l == local[t]
  IN  IF l.tenant # x THEN 0
      ELSE IF pc[t] = "commit_write" /\ l.actual > l.amount THEN l.actual
      ELSE IF pc[t] = "commit_refund" THEN l.amount - l.actual
      ELSE IF pc[t] \in {"insert", "commit_debit", "commit_write", "release_uncount", "release_credit"}
      THEN l.amount ELSE 0

InHandSum(x) == Sum([t \in Threads |-> InHand(t, x)], N)

\* The grant of tenant x, a top-up that is credited but not yet recorded included.
Granted(x) ==
  IF initialsLock # 0 /\ pc[initialsLock] = "topup_write" /\ local[initialsLock].tenant = x
  THEN local[initialsLock].next ELSE initials[x]

\* At every moment, mid-operation included, the balance, the lifetime spend, the
\* open reservations and what the threads have in hand add up to the grant: no
\* interleaving of reserve, commit, release and top-up creates or loses money.
NoMoneyCreatedOrLost ==
  \A x \in Tenants : budgets[x] + committed[x] + Held(x) + InHandSum(x) = Granted(x)

\* reservedTotals, which the exposure cap is tested against and the snapshot
\* reports, is the sum of the open reservations and the ones being made or settled.
ReservedTotalsExact ==
  \A x \in Tenants : reservedTotals[x] = Held(x) + CountedSum(x)

\* The conservation law of the engine: whenever the exclusive guard can be taken,
\* remaining + reserved + committed = initial for every tenant.
Conservation ==
  GateFree => \A x \in Tenants : budgets[x] + reservedTotals[x] + committed[x] = initials[x]

\* The unchecked fetch_add and fetch_sub calls never leave the range of i64: a
\* refund or a release never overflows the balance, and giving up a hold never
\* takes the reserved total below zero.
UncheckedArithmeticSafe ==
  \A t \in Threads :
    LET l == local[t]
    IN  /\ pc[t] \in {"uncount", "commit_uncount", "release_uncount"}
             => reservedTotals[l.tenant] >= l.amount
        /\ pc[t] = "commit_refund" => budgets[l.tenant] + (l.amount - l.actual) <= MaxI64
        /\ pc[t] = "release_credit" => budgets[l.tenant] + l.amount <= MaxI64

\* The overflow branch of credit_if_no_overflow is never taken by a top-up whose
\* checked_add on the grant succeeded.
TopUpCreditFits ==
  \A t \in Threads : pc[t] = "topup_credit" => budgets[local[t].tenant] + local[t].amount <= MaxI64

\* An id names one reservation: a record is only ever inserted under an id that no
\* other record and no other running operation uses, and every id in use is below
\* the allocator, so that it is not handed out again.
IdsUnique ==
  /\ \A t \in Threads : pc[t] \in Settling \cup {"debit", "insert"} =>
       /\ local[t].id \in Ids
       /\ local[t].id < nextId
       /\ reservations[local[t].id] = None
       /\ \A u \in Threads \ {t} :
            pc[u] \in Settling \cup {"debit", "insert"} => local[u].id # local[t].id
  /\ \A i \in Ids : reservations[i] # None => i < nextId

\* commit returns Overflow (lifetime total past i64::MAX) only for a cost that the
\* tenant could not have paid: the overrun exceeds everything the tenant has left.
OverflowIsUnaffordable ==
  \A i \in Ids, actual \in 0..MaxI64 :
    LET r == reservations[i]
    IN  (r # None /\ reservationsLock = 0 /\ committed[r.tenant] + actual > MaxI64)
          => actual - r.amount > budgets[r.tenant]

\* The tenant of an open reservation exists, so commit and release never return
\* MissingTenant.
HeldTenantsExist ==
  /\ \A i \in Ids : reservations[i] # None => reservations[i].tenant \in tenants
  /\ \A t \in Threads : pc[t] # "idle" => local[t].tenant \in tenants

\* A snapshot is a consistent cut: it balances, and it can be restored exactly
\* when no reservation was open (a reserved total without a reservation, which
\* restore refuses as a ghost, never occurs).
SnapshotsConsistent ==
  saved # None => Balanced(saved) /\ (Restorable(saved) <=> saved.active = {})

\* Every id handed out after a snapshot is at or above its fence.
FenceBelowAllocator == snapshotVersion <= nextId

\* "every admission that linearizes after this method returns observes the new cap":
\* a step raises a reserved total only within the cap that is in force, and a hold
\* is only debited while the total that includes it is within the cap.
AdmissionsWithinLimit ==
  [][\A x \in Tenants :
       limits[x] > 0 =>
         /\ reservedTotals'[x] > reservedTotals[x] => reservedTotals'[x] <= limits[x]
         /\ (\E t \in Threads : ReserveDebit(t) /\ local[t].tenant = x /\ budgets'[x] < budgets[x])
              => reservedTotals[x] <= limits[x]]_vars

-----------------------------------------------------------------------------
(***************************************************************************)
(* The ledger that a caller sees.  A settlement takes effect when the      *)
(* record is taken from the map, or at the debit of its overrun, and is    *)
(* written to the counters by later steps: what is owed is counted here.   *)
(***************************************************************************)
Settler == reservationsLock

\* What the settling thread still owes the balance of tenant x.
OwedBalance(x) ==
  IF Settler = 0 THEN 0
  ELSE LET l == local[Settler]
       IN  IF l.tenant # x THEN 0
           ELSE IF pc[Settler] \in {"release_uncount", "release_credit"} THEN l.amount
           ELSE IF pc[Settler] \in {"commit_write", "commit_refund"} /\ l.actual < l.amount
           THEN l.amount - l.actual ELSE 0

\* What the settling thread has still to add to the lifetime spend of tenant x.
OwedSpend(x) ==
  IF Settler # 0 /\ pc[Settler] = "commit_write" /\ local[Settler].tenant = x
  THEN local[Settler].actual ELSE 0

\* The balance and the lifetime spend of tenant x once the settling thread has written.
Available(x) == budgets[x] + OwedBalance(x)

Spent(x) == committed[x] + OwedSpend(x)

\* The reservation under id i, one being inserted or tried for an overrun included.
OpenHold(i) ==
  IF \E t \in Threads : pc[t] \in {"insert", "commit_debit"} /\ local[t].id = i
  THEN LET t == CHOOSE t \in Threads : pc[t] \in {"insert", "commit_debit"} /\ local[t].id = i
       IN  [tenant |-> local[t].tenant, amount |-> local[t].amount]
  ELSE reservations[i]
=============================================================================
