-------------------------- MODULE BudgetEngineSteps ---------------------------
(***************************************************************************)
(* What every step of the budget engine keeps and does, in three parts.    *)
(*                                                                         *)
(* The inductive invariant, and the steps for its parts that are not about *)
(* money: the types, the mutexes, the locals of the threads, the           *)
(* reservations and the allocator.                                         *)
(*                                                                         *)
(* The books: where the money of one tenant goes in each step of a thread, *)
(* between the balance, the lifetime spend, the records and the hand of    *)
(* the thread, and what the thread counts in the reserved total.           *)
(*                                                                         *)
(* The ledger: each step of a thread leaves the atomic ledger as it is or  *)
(* is one of its operations.  The step that says most is the debit of a    *)
(* reservation: the ledger tests the cap against its own holds at that     *)
(* moment, the engine has tested its reserved total earlier.               *)
(***************************************************************************)
EXTENDS MCBudgetEngine, TLAPS

\* The two mutexes that are held across steps are held by exactly the threads
\* inside the operations that take them.
LockOwners ==
  \A t \in Threads : /\ pc[t] \in Settling <=> reservationsLock = t
                     /\ pc[t] \in ToppingUp <=> initialsLock = t

\* What a running operation's locals say about its arguments and about the maps
\* whose mutex it holds.
LocalsConsistent ==
  \A t \in Threads :
    LET l == local[t]
    IN  /\ pc[t] # "idle" => l.tenant \in tenants /\ l.amount >= 1
        /\ pc[t] = "commit_debit" => l.actual > l.amount
        /\ pc[t] = "commit_refund" => l.actual < l.amount
        /\ pc[t] \in {"commit_debit", "commit_write"} => l.next = committed[l.tenant] + l.actual
        /\ pc[t] \in ToppingUp => l.next = initials[l.tenant] + l.amount

\* A reservation being made has seen the cap in force, and the reserved total it
\* is counted in is within that cap.
LimitsObserved ==
  \A t \in Threads :
    LET l == local[t]
    IN  /\ pc[t] = "count" => l.max = limits[l.tenant]
        /\ (pc[t] \in {"allocate", "debit"} /\ limits[l.tenant] > 0)
             => reservedTotals[l.tenant] <= limits[l.tenant]

\* The snapshot that was kept balances, and shows no reserved amount when no
\* reservation was open.
SavedConsistent ==
  saved # None =>
    \A x \in Tenants :
      /\ saved.budgets[x] + saved.reserved[x] + saved.committed[x] = saved.initials[x]
      /\ saved.active = {} => saved.reserved[x] = 0

IInv ==
  /\ TypeOK
  /\ LockOwners
  /\ LocalsConsistent
  /\ LimitsObserved
  /\ SavedConsistent
  /\ HeldTenantsExist
  /\ IdsUnique
  /\ FenceBelowAllocator
  /\ NoMoneyCreatedOrLost
  /\ ReservedTotalsExact

\* TypeOK without the range of the two counters that are updated by unchecked
\* arithmetic.
WeakTypeOK ==
  /\ tenants \subseteq Tenants
  /\ budgets \in [Tenants -> Int]
  /\ initials \in Ledger
  /\ committed \in Ledger
  /\ reservedTotals \in [Tenants -> Int]
  /\ limits \in Ledger
  /\ reservations \in [Ids -> Record \cup {None}]
  /\ nextId \in 1..AllocatorMask
  /\ snapshotVersion \in 0..AllocatorMask
  /\ saved \in Snapshots \cup {None}
  /\ reservationsLock \in 0..N
  /\ initialsLock \in 0..N
  /\ pc \in [Threads -> Labels]
  /\ local \in [Threads -> Locals]

-----------------------------------------------------------------------------
(***************************************************************************)
(* The type of the variables                                               *)
(***************************************************************************)
LEMMA TypeOKWeakens == TypeOK => WeakTypeOK
BY ConstantsAssumption DEF TypeOK, WeakTypeOK, Ledger

\* The locals an operation starts with, and the ones it returns to, are well typed.
LEMMA CallTypes ==
  /\ NoCall \in Locals
  /\ \A x \in Tenants, amount \in 0..MaxI64 :
       /\ Call(x, amount) \in Locals
       /\ \A max \in 0..MaxI64 : [Call(x, amount) EXCEPT !.max = max] \in Locals
       /\ \A next \in 0..MaxI64 : [Call(x, amount) EXCEPT !.next = next] \in Locals
       /\ \A i \in Ids : [Call(x, amount) EXCEPT !.id = i] \in Locals
       /\ \A i \in Ids, actual \in 0..MaxI64, next \in 0..MaxI64 :
            [Call(x, amount) EXCEPT !.id = i, !.actual = actual, !.next = next] \in Locals
<1>1. NoCall \in Locals
  BY ConstantsAssumption DEF NoCall, Locals
<1>2. ASSUME NEW x \in Tenants, NEW amount \in 0..MaxI64 PROVE Call(x, amount) \in Locals
  BY Zenon, <1>1 DEF NoCall, Call, Locals
<1>3. ASSUME NEW l \in Locals, NEW v \in 0..MaxI64
      PROVE  /\ [l EXCEPT !.max = v] \in Locals
             /\ [l EXCEPT !.next = v] \in Locals
             /\ [l EXCEPT !.actual = v] \in Locals
  BY Zenon DEF Locals
<1>4. ASSUME NEW l \in Locals, NEW i \in Ids PROVE [l EXCEPT !.id = i] \in Locals
  BY ConstantsAssumption DEF Locals, Ids
<1>5. ASSUME NEW l \in Locals, NEW i \in Ids, NEW actual \in 0..MaxI64, NEW next \in 0..MaxI64
      PROVE  [l EXCEPT !.id = i, !.actual = actual, !.next = next] \in Locals
  BY Zenon, <1>3, <1>4
<1> QED BY Zenon, <1>1, <1>2, <1>3, <1>4, <1>5

\* Amounts that pass a sign check are in the range of i64.
LEMMA AmountRange ==
  ASSUME NEW a \in Amounts
  PROVE  a \in Int /\ a <= MaxI64 /\ (a >= 0 => a \in 0..MaxI64) /\ (a > 0 => a \in 1..MaxI64)
BY ConstantsAssumption

\* Each step leaves every variable in its type, the range of the two counters
\* under unchecked arithmetic aside.
LEMMA WeakTypeStep ==
  ASSUME TypeOK, LocalsConsistent, IdsUnique, Next
  PROVE  WeakTypeOK'
<1> USE DEF Ledger
<1>0. WeakTypeOK /\ MaxI64 \in Nat /\ AllocatorMask \in Nat
  BY Zenon, TypeOKWeakens, ConstantsAssumption
<1>1. ASSUME NEW t \in Threads, NEW label \in Labels, Goto(t, label)
      PROVE  pc' \in [Threads -> Labels] /\ local' \in [Threads -> Locals]
  BY Zenon, <1>1, <1>0 DEF Goto, WeakTypeOK
<1>2. ASSUME NEW t \in Threads, NEW label \in Labels, NEW l \in Locals, Enter(t, label, l)
      PROVE  pc' \in [Threads -> Labels] /\ local' \in [Threads -> Locals]
  BY Zenon, <1>2, <1>0 DEF Enter, WeakTypeOK
<1>3. ASSUME NEW t \in Threads, Return(t)
      PROVE  pc' \in [Threads -> Labels] /\ local' \in [Threads -> Locals]
  BY Zenon, <1>2, <1>3, CallTypes DEF Return, Labels
<1>4. ASSUME NEW t \in Threads
      PROVE  /\ local[t] \in Locals
             /\ local[t].amount \in 0..MaxI64 /\ local[t].actual \in 0..MaxI64 /\ local[t].next \in 0..MaxI64
             /\ pc[t] # "idle" => local[t].tenant \in Tenants /\ local[t].amount \in 1..MaxI64
             /\ pc[t] # "idle" => [tenant |-> local[t].tenant, amount |-> local[t].amount] \in Record
  BY <1>0 DEF WeakTypeOK, Locals, LocalsConsistent, Record
<1>4a. ASSUME NEW t \in Threads, pc[t] # "idle"
       PROVE  local[t].tenant \in Tenants /\ local[t].amount \in Int /\ local[t].actual \in Int
  BY <1>0, <1>4a DEF WeakTypeOK, Locals, LocalsConsistent
<1>5. budgets \in [Tenants -> Int] /\ reservedTotals \in [Tenants -> Int]
  BY Zenon, <1>0 DEF WeakTypeOK
<1>6. ASSUME NEW t \in Threads, NEW x \in Tenants, NEW cost \in Amounts, ReserveLookup(t, x, cost)
      PROVE  WeakTypeOK'
  <2>1. limits[x] \in 0..MaxI64 /\ cost \in 0..MaxI64
    BY <1>0, <1>6, AmountRange DEF WeakTypeOK, ReserveLookup
  <2>2. [Call(x, cost) EXCEPT !.max = limits[x]] \in Locals /\ "count" \in Labels
    BY Zenon, <2>1, CallTypes DEF Labels
  <2> QED BY Zenon, <1>0, <1>2, <1>6, <2>2 DEF WeakTypeOK, ReserveLookup, maps, fences, mutexes
<1>7. ASSUME NEW t \in Threads, ReserveCount(t) PROVE WeakTypeOK'
  <2>1. reservedTotals' \in [Tenants -> Int]
    <3>1. pc[t] # "idle"
      BY Zenon, <1>7 DEF ReserveCount
    <3>2. local[t].tenant \in Tenants /\ local[t].amount \in Int /\ local[t].actual \in Int
      BY Zenon, <1>4a, <3>1
    <3> QED BY <1>5, <1>7, <3>2 DEF ReserveCount, Add
  <2>2. pc' \in [Threads -> Labels] /\ local' \in [Threads -> Locals]
    BY Zenon, <1>1, <1>3, <1>7 DEF ReserveCount, Labels, Counting
  <2> QED BY Zenon, <1>0, <1>7, <2>1, <2>2 DEF WeakTypeOK, ReserveCount, maps, fences, mutexes
<1>8. ASSUME NEW t \in Threads, ReserveAllocate(t) PROVE WeakTypeOK'
  <2>1. nextId' \in 1..AllocatorMask
    BY <1>0, <1>8 DEF WeakTypeOK, ReserveAllocate
  <2>2. nextId < AllocatorMask => [local[t] EXCEPT !.id = nextId] \in Locals
    BY <1>0, <1>4 DEF WeakTypeOK, Locals
  <2>3. pc' \in [Threads -> Labels] /\ local' \in [Threads -> Locals]
    BY Zenon, <1>1, <1>2, <1>8, <2>2 DEF ReserveAllocate, Labels, Counting
  <2> QED BY Zenon, <1>0, <1>8, <2>1, <2>3 DEF WeakTypeOK, ReserveAllocate, maps, mutexes
<1>9. ASSUME NEW t \in Threads, ReserveDebit(t) PROVE WeakTypeOK'
  <2>1. budgets' \in [Tenants -> Int]
    <3>1. pc[t] # "idle"
      BY Zenon, <1>9 DEF ReserveDebit
    <3>2. local[t].tenant \in Tenants /\ local[t].amount \in Int /\ local[t].actual \in Int
      BY Zenon, <1>4a, <3>1
    <3> QED BY <1>5, <1>9, <3>2 DEF ReserveDebit, Add
  <2>2. pc' \in [Threads -> Labels] /\ local' \in [Threads -> Locals]
    BY Zenon, <1>1, <1>9 DEF ReserveDebit, Labels, Counting
  <2> QED BY Zenon, <1>0, <1>9, <2>1, <2>2 DEF WeakTypeOK, ReserveDebit, maps, fences, mutexes
<1>10. ASSUME NEW t \in Threads, ReserveUncount(t) PROVE WeakTypeOK'
  <2>1. reservedTotals' \in [Tenants -> Int]
    <3>1. pc[t] # "idle"
      BY Zenon, <1>10 DEF ReserveUncount
    <3>2. local[t].tenant \in Tenants /\ local[t].amount \in Int /\ local[t].actual \in Int
      BY Zenon, <1>4a, <3>1
    <3> QED BY <1>5, <1>10, <3>2 DEF ReserveUncount, Add
  <2> QED BY Zenon, <1>0, <1>3, <1>10, <2>1 DEF WeakTypeOK, ReserveUncount, maps, fences, mutexes
<1>11. ASSUME NEW t \in Threads, ReserveInsert(t) PROVE WeakTypeOK'
  <2>1. reservations' \in [Ids -> Record \cup {None}]
    BY Zenon, <1>0, <1>4, <1>11 DEF WeakTypeOK, ReserveInsert
  <2> QED BY Zenon, <1>0, <1>3, <1>11, <2>1 DEF WeakTypeOK, ReserveInsert, fences, mutexes
<1>12. ASSUME NEW t \in Threads, NEW i \in Ids, NEW actual \in Amounts, CommitTake(t, i, actual)
       PROVE  WeakTypeOK'
  <2> DEFINE r == reservations[i]
  <2>1. r.tenant \in Tenants /\ r.amount \in 0..MaxI64
    BY <1>0, <1>12 DEF WeakTypeOK, CommitTake, Record
  <2>2. actual \in 0..MaxI64
    BY Zenon, <1>12, AmountRange DEF CommitTake
  <2>3. committed[r.tenant] + actual \in 0..MaxI64
    BY <1>0, <1>12, <2>1, <2>2 DEF WeakTypeOK, CommitTake
  <2>4. [Call(r.tenant, r.amount) EXCEPT !.id = i, !.actual = actual,
                                         !.next = committed[r.tenant] + actual] \in Locals
    BY Zenon, <2>1, <2>2, <2>3, CallTypes
  <2>5. pc' \in [Threads -> Labels] /\ local' \in [Threads -> Locals]
    BY Zenon, <1>2, <1>12, <2>4 DEF CommitTake, Labels, Settling
  <2>6. reservations' \in [Ids -> Record \cup {None}]
    BY Zenon, <1>0, <1>12 DEF WeakTypeOK, CommitTake
  <2>7. reservationsLock' \in 0..N
    BY <1>12, ConstantsAssumption DEF CommitTake, Threads
  <2> QED BY Zenon, <1>0, <1>12, <2>5, <2>6, <2>7 DEF WeakTypeOK, CommitTake, fences
<1>13. ASSUME NEW t \in Threads, CommitDebit(t) PROVE WeakTypeOK'
  <2>1. budgets' \in [Tenants -> Int]
    <3>1. pc[t] # "idle"
      BY Zenon, <1>13 DEF CommitDebit
    <3>2. local[t].tenant \in Tenants /\ local[t].amount \in Int /\ local[t].actual \in Int
      BY Zenon, <1>4a, <3>1
    <3> QED BY SMTT(20), ZenonT(60), <1>5, <1>13, <3>2 DEF CommitDebit, Add
  <2>2. reservations' \in [Ids -> Record \cup {None}]
    BY Zenon, <1>0, <1>4, <1>13 DEF WeakTypeOK, CommitDebit
  <2>3. pc' \in [Threads -> Labels] /\ local' \in [Threads -> Locals]
    BY Zenon, <1>1, <1>3, <1>13 DEF CommitDebit, Labels, Settling
  <2>4. reservationsLock' \in 0..N
    BY <1>0, <1>13, ConstantsAssumption DEF WeakTypeOK, CommitDebit
  <2> QED BY Zenon, <1>0, <1>13, <2>1, <2>2, <2>3, <2>4 DEF WeakTypeOK, CommitDebit, fences
<1>14. ASSUME NEW t \in Threads, CommitWrite(t) PROVE WeakTypeOK'
  <2>1. committed' \in [Tenants -> 0..MaxI64]
    BY Zenon, <1>0, <1>4, <1>14 DEF WeakTypeOK, CommitWrite
  <2>2. pc' \in [Threads -> Labels] /\ local' \in [Threads -> Locals]
    BY Zenon, <1>1, <1>14 DEF CommitWrite, Labels, Settling
  <2> QED BY Zenon, <1>0, <1>14, <2>1, <2>2 DEF WeakTypeOK, CommitWrite, fences, mutexes
<1>15. ASSUME NEW t \in Threads, CommitRefund(t) PROVE WeakTypeOK'
  <2>1. budgets' \in [Tenants -> Int]
    <3>1. pc[t] # "idle"
      BY Zenon, <1>15 DEF CommitRefund
    <3>2. local[t].tenant \in Tenants /\ local[t].amount \in Int /\ local[t].actual \in Int
      BY Zenon, <1>4a, <3>1
    <3> QED BY <1>5, <1>15, <3>2 DEF CommitRefund, Add
  <2>2. pc' \in [Threads -> Labels] /\ local' \in [Threads -> Locals]
    BY Zenon, <1>1, <1>15 DEF CommitRefund, Labels, Settling
  <2> QED BY Zenon, <1>0, <1>15, <2>1, <2>2 DEF WeakTypeOK, CommitRefund, maps, fences, mutexes
<1>16. ASSUME NEW t \in Threads, CommitUncount(t) PROVE WeakTypeOK'
  <2>1. reservedTotals' \in [Tenants -> Int]
    <3>1. pc[t] # "idle"
      BY Zenon, <1>16 DEF CommitUncount
    <3>2. local[t].tenant \in Tenants /\ local[t].amount \in Int /\ local[t].actual \in Int
      BY Zenon, <1>4a, <3>1
    <3> QED BY <1>5, <1>16, <3>2 DEF CommitUncount, Add
  <2> QED BY <1>0, <1>3, <1>16, <2>1, ConstantsAssumption DEF WeakTypeOK, CommitUncount, maps, fences
<1>17. ASSUME NEW t \in Threads, NEW i \in Ids, ReleaseTake(t, i) PROVE WeakTypeOK'
  <2> DEFINE r == reservations[i]
  <2>1. r.tenant \in Tenants /\ r.amount \in 0..MaxI64
    BY <1>0, <1>17 DEF WeakTypeOK, ReleaseTake, Record
  <2>2. pc' \in [Threads -> Labels] /\ local' \in [Threads -> Locals]
    <3>1. [Call(r.tenant, r.amount) EXCEPT !.id = i] \in Locals
      BY Zenon, <2>1, CallTypes
    <3> QED BY Zenon, <1>2, <1>17, <3>1 DEF ReleaseTake, Labels, Settling
  <2>3. reservations' \in [Ids -> Record \cup {None}]
    BY Zenon, <1>0, <1>17 DEF WeakTypeOK, ReleaseTake
  <2>4. reservationsLock' \in 0..N
    BY <1>17, ConstantsAssumption DEF ReleaseTake, Threads
  <2> QED BY Zenon, <1>0, <1>17, <2>2, <2>3, <2>4 DEF WeakTypeOK, ReleaseTake, fences
<1>18. ASSUME NEW t \in Threads, ReleaseUncount(t) PROVE WeakTypeOK'
  <2>1. reservedTotals' \in [Tenants -> Int]
    <3>1. pc[t] # "idle"
      BY Zenon, <1>18 DEF ReleaseUncount
    <3>2. local[t].tenant \in Tenants /\ local[t].amount \in Int /\ local[t].actual \in Int
      BY Zenon, <1>4a, <3>1
    <3> QED BY <1>5, <1>18, <3>2 DEF ReleaseUncount, Add
  <2>2. pc' \in [Threads -> Labels] /\ local' \in [Threads -> Locals]
    BY Zenon, <1>1, <1>18 DEF ReleaseUncount, Labels, Settling
  <2> QED BY Zenon, <1>0, <1>18, <2>1, <2>2 DEF WeakTypeOK, ReleaseUncount, maps, fences, mutexes
<1>19. ASSUME NEW t \in Threads, ReleaseCredit(t) PROVE WeakTypeOK'
  <2>1. budgets' \in [Tenants -> Int]
    <3>1. pc[t] # "idle"
      BY Zenon, <1>19 DEF ReleaseCredit
    <3>2. local[t].tenant \in Tenants /\ local[t].amount \in Int /\ local[t].actual \in Int
      BY Zenon, <1>4a, <3>1
    <3> QED BY <1>5, <1>19, <3>2 DEF ReleaseCredit, Add
  <2> QED BY <1>0, <1>3, <1>19, <2>1, ConstantsAssumption DEF WeakTypeOK, ReleaseCredit, maps, fences
<1>20. ASSUME NEW t \in Threads, NEW x \in Tenants, NEW amount \in Amounts, TopUpLock(t, x, amount)
       PROVE  WeakTypeOK'
  <2>1. amount \in 0..MaxI64 /\ initials[x] + amount \in 0..MaxI64
    BY <1>0, <1>20, AmountRange DEF WeakTypeOK, TopUpLock
  <2>2. pc' \in [Threads -> Labels] /\ local' \in [Threads -> Locals]
    <3>1. [Call(x, amount) EXCEPT !.next = initials[x] + amount] \in Locals
      BY Zenon, <2>1, CallTypes
    <3> QED BY Zenon, <1>2, <1>20, <3>1 DEF TopUpLock, Labels, ToppingUp
  <2>3. initialsLock' \in 0..N
    BY <1>20, ConstantsAssumption DEF TopUpLock, Threads
  <2> QED BY Zenon, <1>0, <1>20, <2>2, <2>3 DEF WeakTypeOK, TopUpLock, maps, fences
<1>21. ASSUME NEW t \in Threads, TopUpCredit(t) PROVE WeakTypeOK'
  <2>1. budgets' \in [Tenants -> Int]
    <3>1. pc[t] # "idle"
      BY Zenon, <1>21 DEF TopUpCredit
    <3>2. local[t].tenant \in Tenants /\ local[t].amount \in Int /\ local[t].actual \in Int
      BY Zenon, <1>4a, <3>1
    <3> QED BY <1>5, <1>21, <3>2 DEF TopUpCredit, Add
  <2>2. pc' \in [Threads -> Labels] /\ local' \in [Threads -> Locals]
    BY Zenon, <1>1, <1>3, <1>21 DEF TopUpCredit, Labels, ToppingUp
  <2>3. initialsLock' \in 0..N
    BY <1>0, <1>21, ConstantsAssumption DEF WeakTypeOK, TopUpCredit
  <2> QED BY Zenon, <1>0, <1>21, <2>1, <2>2, <2>3 DEF WeakTypeOK, TopUpCredit, maps, fences
<1>22. ASSUME NEW t \in Threads, TopUpWrite(t) PROVE WeakTypeOK'
  <2>1. initials' \in [Tenants -> 0..MaxI64]
    BY Zenon, <1>0, <1>4, <1>22 DEF WeakTypeOK, TopUpWrite
  <2> QED BY <1>0, <1>3, <1>22, <2>1, ConstantsAssumption DEF WeakTypeOK, TopUpWrite, fences
<1>23. ASSUME NEW x \in Tenants, NEW grant \in Amounts, EnsureTenant(x, grant) PROVE WeakTypeOK'
  <2>1. grant \in 0..MaxI64
    BY Zenon, <1>23, AmountRange DEF EnsureTenant
  <2> QED BY <1>0, <1>23, <2>1 DEF WeakTypeOK, EnsureTenant, fences, mutexes
<1>24. ASSUME NEW x \in Tenants, NEW max \in Amounts, SetLimit(x, max) PROVE WeakTypeOK'
  <2>1. max \in 0..MaxI64
    BY Zenon, <1>24, AmountRange DEF SetLimit, WriteLimit
  <2> QED BY Zenon, <1>0, <1>24, <2>1 DEF WeakTypeOK, SetLimit, WriteLimit, fences, mutexes
<1>25. CASE Snapshot
  <2>2. Active \in SUBSET Ids
    BY Zenon DEF Active
  <2>3. nextId \in 1..AllocatorMask /\ nextId < AllocatorMask
    BY Zenon, <1>0, <1>25 DEF WeakTypeOK, Snapshot, CopyMaps
  <2>4. nextId + 1 \in 2..AllocatorMask
    BY <1>0, <2>3
  <2>5. Capture \in Snapshots
    BY Zenon, <2>2, <2>4 DEF Capture, Snapshots, TypeOK
  <2> QED BY <1>0, <1>25, <2>4, <2>5 DEF WeakTypeOK, Snapshot, CopyMaps, maps, mutexes
<1>26. CASE Restore
  <2>1. saved \in Snapshots
    BY Zenon, <1>0, <1>26 DEF WeakTypeOK, Restore, ReplaceMaps, ReplaceLedger
  <2>2. /\ saved.version \in 1..AllocatorMask /\ saved.tenants \subseteq Tenants
        /\ saved.budgets \in Ledger /\ saved.initials \in Ledger /\ saved.committed \in Ledger
    BY <2>1, <1>0 DEF Snapshots
  <2> QED BY <1>0, <1>26, <2>2 DEF WeakTypeOK, Restore, ReplaceMaps, ReplaceLedger, mutexes
<1> QED
  BY Zenon, <1>6, <1>7, <1>8, <1>9, <1>10, <1>11, <1>12, <1>13, <1>14, <1>15, <1>16, <1>17, <1>18,
     <1>19,
     <1>20, <1>21, <1>22, <1>23, <1>24, <1>25, <1>26
  DEF Next, Reserve, Commit, Release, TopUp

-----------------------------------------------------------------------------
(***************************************************************************)
(* The inductive invariant                                                 *)
(***************************************************************************)

\* The mutexes stay with the threads inside the operations that take them.
LEMMA LockOwnersStep ==
  ASSUME TypeOK, LockOwners, Next
  PROVE  LockOwners'
<1>1. ASSUME NEW t \in Threads, NEW x \in Tenants, NEW cost \in Amounts, ReserveLookup(t, x, cost)
      PROVE  LockOwners'
  BY Zenon, <1>1
  DEF ReserveLookup, Enter, Call, NoCall, maps, fences, mutexes, LockOwners, TypeOK, GateFree, Threads,
      Settling, ToppingUp, Counting, Labels
<1>2. ASSUME NEW t \in Threads, ReserveCount(t) PROVE LockOwners'
  BY Zenon, <1>2
  DEF ReserveCount, Goto, Return, Enter, NoCall, maps, fences, mutexes, LockOwners, TypeOK, GateFree,
      Threads, Settling, ToppingUp, Counting, Labels
<1>3. ASSUME NEW t \in Threads, ReserveAllocate(t) PROVE LockOwners'
  BY Zenon, <1>3
  DEF ReserveAllocate, Goto, Enter, maps, mutexes, LockOwners, TypeOK, GateFree, Threads, Settling,
      ToppingUp, Counting, Labels
<1>4. ASSUME NEW t \in Threads, ReserveDebit(t) PROVE LockOwners'
  BY Zenon, <1>4
  DEF ReserveDebit, Goto, maps, fences, mutexes, LockOwners, TypeOK, GateFree, Threads, Settling,
      ToppingUp, Counting, Labels
<1>5. ASSUME NEW t \in Threads, ReserveUncount(t) PROVE LockOwners'
  BY Zenon, <1>5
  DEF ReserveUncount, Return, Enter, NoCall, maps, fences, mutexes, LockOwners, TypeOK, GateFree,
      Threads, Settling, ToppingUp, Counting, Labels
<1>6. ASSUME NEW t \in Threads, ReserveInsert(t) PROVE LockOwners'
  BY Zenon, <1>6
  DEF ReserveInsert, Return, Enter, NoCall, fences, mutexes, LockOwners, TypeOK, GateFree, Threads,
      Settling, ToppingUp, Counting, Labels
<1>7. ASSUME NEW t \in Threads, NEW i \in Ids, NEW actual \in Amounts, CommitTake(t, i, actual)
      PROVE  LockOwners'
  BY <1>7
  DEF CommitTake, Enter, Call, NoCall, fences, LockOwners, TypeOK, GateFree, Threads, Settling,
      ToppingUp, Counting, Labels
<1>8. ASSUME NEW t \in Threads, CommitDebit(t) PROVE LockOwners'
  <2>1. pc[t] = "commit_debit" /\ initialsLock' = initialsLock
    BY Zenon, <1>8 DEF CommitDebit
  <2>2. CASE reservationsLock' = 0 /\ Return(t)
    BY <2>1, <2>2 DEF Return, Enter, LockOwners, TypeOK, Threads, Settling, ToppingUp
  <2>3. CASE reservationsLock' = reservationsLock /\ Goto(t, "commit_write")
    BY Zenon, <2>1, <2>3 DEF Goto, LockOwners, TypeOK, Threads, Settling, ToppingUp
  <2> QED BY Zenon, <1>8, <2>2, <2>3 DEF CommitDebit
<1>9. ASSUME NEW t \in Threads, CommitWrite(t) PROVE LockOwners'
  BY Zenon, <1>9
  DEF CommitWrite, Goto, fences, mutexes, LockOwners, TypeOK, GateFree, Threads, Settling, ToppingUp,
      Counting, Labels
<1>10. ASSUME NEW t \in Threads, CommitRefund(t) PROVE LockOwners'
  BY Zenon, <1>10
  DEF CommitRefund, Goto, maps, fences, mutexes, LockOwners, TypeOK, GateFree, Threads, Settling,
      ToppingUp, Counting, Labels
<1>11. ASSUME NEW t \in Threads, CommitUncount(t) PROVE LockOwners'
  BY <1>11
  DEF CommitUncount, Return, Enter, NoCall, maps, fences, LockOwners, TypeOK, GateFree, Threads,
      Settling, ToppingUp, Counting, Labels
<1>12. ASSUME NEW t \in Threads, NEW i \in Ids, ReleaseTake(t, i) PROVE LockOwners'
  BY <1>12
  DEF ReleaseTake, Enter, Call, NoCall, fences, LockOwners, TypeOK, GateFree, Threads, Settling,
      ToppingUp, Counting, Labels
<1>13. ASSUME NEW t \in Threads, ReleaseUncount(t) PROVE LockOwners'
  BY Zenon, <1>13
  DEF ReleaseUncount, Goto, maps, fences, mutexes, LockOwners, TypeOK, GateFree, Threads, Settling,
      ToppingUp, Counting, Labels
<1>14. ASSUME NEW t \in Threads, ReleaseCredit(t) PROVE LockOwners'
  BY <1>14
  DEF ReleaseCredit, Return, Enter, NoCall, maps, fences, LockOwners, TypeOK, GateFree, Threads,
      Settling, ToppingUp, Counting, Labels
<1>15. ASSUME NEW t \in Threads, NEW x \in Tenants, NEW amount \in Amounts, TopUpLock(t, x, amount)
      PROVE  LockOwners'
  BY <1>15
  DEF TopUpLock, Enter, Call, NoCall, maps, fences, LockOwners, TypeOK, GateFree, Threads, Settling,
      ToppingUp, Counting, Labels
<1>16. ASSUME NEW t \in Threads, TopUpCredit(t) PROVE LockOwners'
  <2>1. pc[t] = "topup_credit" /\ reservationsLock' = reservationsLock
    BY Zenon, <1>16 DEF TopUpCredit
  <2>2. CASE initialsLock' = 0 /\ Return(t)
    BY <2>1, <2>2 DEF Return, Enter, LockOwners, TypeOK, Threads, Settling, ToppingUp
  <2>3. CASE initialsLock' = initialsLock /\ Goto(t, "topup_write")
    BY Zenon, <2>1, <2>3 DEF Goto, LockOwners, TypeOK, Threads, Settling, ToppingUp
  <2> QED BY Zenon, <1>16, <2>2, <2>3 DEF TopUpCredit
<1>17. ASSUME NEW t \in Threads, TopUpWrite(t) PROVE LockOwners'
  BY <1>17
  DEF TopUpWrite, Return, Enter, NoCall, fences, LockOwners, TypeOK, GateFree, Threads, Settling,
      ToppingUp, Counting, Labels
<1>18. ASSUME NEW x \in Tenants, NEW grant \in Amounts, EnsureTenant(x, grant) PROVE LockOwners'
  BY Zenon, <1>18
  DEF EnsureTenant, fences, mutexes, LockOwners, TypeOK, GateFree, Threads, Settling, ToppingUp,
      Counting, Labels
<1>19. ASSUME NEW x \in Tenants, NEW max \in Amounts, SetLimit(x, max) PROVE LockOwners'
  BY Zenon, <1>19
  DEF SetLimit, WriteLimit, fences, mutexes, LockOwners, TypeOK, GateFree, Threads, Settling, ToppingUp,
      Counting, Labels
<1>20. CASE Snapshot
  BY Zenon, <1>20
  DEF Snapshot, CopyMaps, maps, mutexes, LockOwners, TypeOK, GateFree, Threads, Settling, ToppingUp,
      Counting, Labels
<1>21. CASE Restore
  BY Zenon, <1>21
  DEF Restore, ReplaceMaps, ReplaceLedger, mutexes, LockOwners, TypeOK, GateFree, Threads, Settling,
      ToppingUp, Counting, Labels
<1> QED
  BY Zenon, <1>1, <1>2, <1>3, <1>4, <1>5, <1>6, <1>7, <1>8, <1>9, <1>10, <1>11, <1>12, <1>13, <1>14,
     <1>15,
      <1>16, <1>17, <1>18, <1>19, <1>20, <1>21
  DEF Next, Reserve, Commit, Release, TopUp

\* Running operations keep existing tenants, and the maps they hold a mutex of keep the values they read.
LEMMA LocalsConsistentStep ==
  ASSUME TypeOK, LockOwners, LocalsConsistent, Next
  PROVE  LocalsConsistent'
<1>a. MaxI64 \in Nat /\ \A a \in Amounts : a \in Int
  BY ConstantsAssumption
<1>1. ASSUME NEW t \in Threads, NEW x \in Tenants, NEW cost \in Amounts, ReserveLookup(t, x, cost)
      PROVE  LocalsConsistent'
  BY <1>1, <1>a
  DEF ReserveLookup, Enter, Call, NoCall, maps, fences, mutexes, LocalsConsistent, LockOwners, TypeOK,
      GateFree, Threads, Settling, ToppingUp, Counting, Labels
<1>2. ASSUME NEW t \in Threads, ReserveCount(t) PROVE LocalsConsistent'
  <2>1. pc[t] = "count" /\ UNCHANGED <<tenants, initials, committed>>
    BY Zenon, <1>2 DEF ReserveCount, maps
  <2>2. CASE Return(t)
    BY Zenon, <2>1, <2>2 DEF Return, Enter, NoCall, LocalsConsistent, TypeOK, ToppingUp
  <2>3. CASE Goto(t, "allocate")
    BY Zenon, <2>1, <2>3 DEF Goto, LocalsConsistent, TypeOK, ToppingUp
  <2> QED BY Zenon, <1>2, <2>2, <2>3 DEF ReserveCount
<1>3. ASSUME NEW t \in Threads, ReserveAllocate(t) PROVE LocalsConsistent'
  <2>1. pc[t] = "allocate" /\ UNCHANGED <<tenants, initials, committed>>
    BY Zenon, <1>3 DEF ReserveAllocate, maps
  <2>2. CASE Enter(t, "debit", [local[t] EXCEPT !.id = nextId])
    <3>1. local' = [local EXCEPT ![t].id = nextId] /\ pc' = [pc EXCEPT ![t] = "debit"]
      BY Zenon, <2>2 DEF Enter
    <3>2. \A u \in Threads : /\ local'[u].tenant = local[u].tenant /\ local'[u].amount = local[u].amount
                             /\ local'[u].actual = local[u].actual /\ local'[u].next = local[u].next
      BY Zenon, <3>1 DEF TypeOK, Locals
    <3> QED BY <2>1, <3>1, <3>2 DEF LocalsConsistent, TypeOK, ToppingUp
  <2>3. CASE Goto(t, "uncount")
    BY Zenon, <2>1, <2>3 DEF Goto, LocalsConsistent, TypeOK, ToppingUp
  <2> QED BY Zenon, <1>3, <2>2, <2>3 DEF ReserveAllocate
<1>4. ASSUME NEW t \in Threads, ReserveDebit(t) PROVE LocalsConsistent'
  <2>1. pc[t] = "debit" /\ UNCHANGED <<tenants, initials, committed>>
    BY Zenon, <1>4 DEF ReserveDebit, maps
  <2>2. CASE Goto(t, "uncount")
    BY Zenon, <2>1, <2>2 DEF Goto, LocalsConsistent, TypeOK, ToppingUp
  <2>3. CASE Goto(t, "insert")
    BY Zenon, <2>1, <2>3 DEF Goto, LocalsConsistent, TypeOK, ToppingUp
  <2> QED BY Zenon, <1>4, <2>2, <2>3 DEF ReserveDebit
<1>5. ASSUME NEW t \in Threads, ReserveUncount(t) PROVE LocalsConsistent'
  BY Zenon, <1>5, <1>a
  DEF ReserveUncount, Return, Enter, NoCall, maps, fences, mutexes, LocalsConsistent, LockOwners,
      TypeOK, GateFree, Threads, Settling, ToppingUp, Counting, Labels
<1>6. ASSUME NEW t \in Threads, ReserveInsert(t) PROVE LocalsConsistent'
  BY Zenon, <1>6, <1>a
  DEF ReserveInsert, Return, Enter, NoCall, fences, mutexes, LocalsConsistent, LockOwners, TypeOK,
      GateFree, Threads, Settling, ToppingUp, Counting, Labels
<1>7. ASSUME NEW t \in Threads, NEW i \in Ids, NEW actual \in Amounts, CommitTake(t, i, actual)
      PROVE  LocalsConsistent'
  <2> DEFINE r == reservations[i]
             l == [Call(r.tenant, r.amount) EXCEPT !.id = i, !.actual = actual,
                                                   !.next = committed[r.tenant] + actual]
  <2>1. r.tenant \in tenants /\ r.amount \in Int /\ r.amount >= 1 /\ actual \in Int
    BY <1>7, <1>a DEF CommitTake, TypeOK, Record
  <2>2. /\ l.tenant = r.tenant /\ l.amount = r.amount /\ l.actual = actual
        /\ l.next = committed[r.tenant] + actual
    BY Zenon DEF Call, NoCall
  <2>3. /\ local' = [local EXCEPT ![t] = l] /\ UNCHANGED <<tenants, initials, committed>>
        /\ pc' = [pc EXCEPT ![t] = IF actual > r.amount THEN "commit_debit" ELSE "commit_write"]
    BY Zenon, <1>7 DEF CommitTake, Enter
  <2> HIDE DEF r, l
  <2>4. ASSUME NEW u \in Threads, u # t PROVE local'[u] = local[u] /\ pc'[u] = pc[u]
    BY Zenon, <2>3, <2>4 DEF TypeOK
  <2>5. local'[t] = l /\ pc'[t] = IF actual > r.amount THEN "commit_debit" ELSE "commit_write"
    BY Zenon, <2>3 DEF TypeOK
  <2> QED BY SMTT(20), ZenonT(60), <2>1, <2>2, <2>3, <2>4, <2>5 DEF LocalsConsistent, ToppingUp
<1>8. ASSUME NEW t \in Threads, CommitDebit(t) PROVE LocalsConsistent'
  <2>1. pc[t] = "commit_debit" /\ UNCHANGED <<tenants, initials, committed>>
    BY Zenon, <1>8 DEF CommitDebit
  <2>2. CASE Return(t)
    BY Zenon, <2>1, <2>2 DEF Return, Enter, NoCall, LocalsConsistent, TypeOK, ToppingUp
  <2>3. CASE Goto(t, "commit_write")
    BY Zenon, <2>1, <2>3 DEF Goto, LocalsConsistent, TypeOK, ToppingUp
  <2> QED BY Zenon, <1>8, <2>2, <2>3 DEF CommitDebit
<1>9. ASSUME NEW t \in Threads, CommitWrite(t) PROVE LocalsConsistent'
  BY Zenon, <1>9, <1>a
  DEF CommitWrite, Goto, fences, mutexes, LocalsConsistent, LockOwners, TypeOK, GateFree, Threads,
      Settling, ToppingUp, Counting, Labels
<1>10. ASSUME NEW t \in Threads, CommitRefund(t) PROVE LocalsConsistent'
  BY Zenon, <1>10, <1>a
  DEF CommitRefund, Goto, maps, fences, mutexes, LocalsConsistent, LockOwners, TypeOK, GateFree,
      Threads, Settling, ToppingUp, Counting, Labels
<1>11. ASSUME NEW t \in Threads, CommitUncount(t) PROVE LocalsConsistent'
  BY Zenon, <1>11, <1>a
  DEF CommitUncount, Return, Enter, NoCall, maps, fences, LocalsConsistent, LockOwners, TypeOK,
      GateFree, Threads, Settling, ToppingUp, Counting, Labels
<1>12. ASSUME NEW t \in Threads, NEW i \in Ids, ReleaseTake(t, i) PROVE LocalsConsistent'
  <2>1. reservations[i].tenant \in tenants /\ reservations[i].amount >= 1
    BY <1>12, <1>a DEF ReleaseTake, TypeOK, Record
  <2>2. /\ pc' = [pc EXCEPT ![t] = "release_uncount"] /\ UNCHANGED <<tenants, initials, committed>>
        /\ \A u \in Threads : u # t => local'[u] = local[u]
        /\ local'[t].tenant = reservations[i].tenant /\ local'[t].amount = reservations[i].amount
    BY Zenon, <1>12 DEF ReleaseTake, Enter, Call, NoCall, TypeOK
  <2> QED BY Zenon, <2>1, <2>2 DEF LocalsConsistent, TypeOK, ToppingUp
<1>13. ASSUME NEW t \in Threads, ReleaseUncount(t) PROVE LocalsConsistent'
  BY Zenon, <1>13, <1>a
  DEF ReleaseUncount, Goto, maps, fences, mutexes, LocalsConsistent, LockOwners, TypeOK, GateFree,
      Threads, Settling, ToppingUp, Counting, Labels
<1>14. ASSUME NEW t \in Threads, ReleaseCredit(t) PROVE LocalsConsistent'
  BY Zenon, <1>14, <1>a
  DEF ReleaseCredit, Return, Enter, NoCall, maps, fences, LocalsConsistent, LockOwners, TypeOK,
      GateFree, Threads, Settling, ToppingUp, Counting, Labels
<1>15. ASSUME NEW t \in Threads, NEW x \in Tenants, NEW amount \in Amounts, TopUpLock(t, x, amount)
      PROVE  LocalsConsistent'
  BY <1>15, <1>a
  DEF TopUpLock, Enter, Call, NoCall, maps, fences, LocalsConsistent, LockOwners, TypeOK, GateFree,
      Threads, Settling, ToppingUp, Counting, Labels
<1>16. ASSUME NEW t \in Threads, TopUpCredit(t) PROVE LocalsConsistent'
  <2>1. pc[t] = "topup_credit" /\ UNCHANGED <<tenants, initials, committed>>
    BY Zenon, <1>16 DEF TopUpCredit, maps
  <2>2. CASE Return(t)
    BY Zenon, <2>1, <2>2 DEF Return, Enter, NoCall, LocalsConsistent, TypeOK, ToppingUp
  <2>3. CASE Goto(t, "topup_write")
    BY Zenon, <2>1, <2>3 DEF Goto, LocalsConsistent, TypeOK, ToppingUp
  <2> QED BY Zenon, <1>16, <2>2, <2>3 DEF TopUpCredit
<1>17. ASSUME NEW t \in Threads, TopUpWrite(t) PROVE LocalsConsistent'
  BY Zenon, <1>17, <1>a
  DEF TopUpWrite, Return, Enter, NoCall, fences, LocalsConsistent, LockOwners, TypeOK, GateFree,
      Threads, Settling, ToppingUp, Counting, Labels
<1>18. ASSUME NEW x \in Tenants, NEW grant \in Amounts, EnsureTenant(x, grant) PROVE LocalsConsistent'
  <2>1. UNCHANGED <<pc, local>> /\ x \notin tenants /\ tenants' = tenants \cup {x}
    BY Zenon, <1>18 DEF EnsureTenant
  <2>2. \A y \in Tenants : y # x => initials'[y] = initials[y] /\ committed'[y] = committed[y]
    BY <1>18 DEF EnsureTenant, TypeOK
  <2>3. \A u \in Threads : pc[u] # "idle" => /\ local[u].tenant \in tenants
                                            /\ local[u].tenant \in Tenants \ {x}
    BY Zenon, <2>1 DEF LocalsConsistent, TypeOK
  <2> QED BY Zenon, <2>1, <2>2, <2>3 DEF LocalsConsistent, ToppingUp
<1>19. ASSUME NEW x \in Tenants, NEW max \in Amounts, SetLimit(x, max) PROVE LocalsConsistent'
  BY Zenon, <1>19, <1>a
  DEF SetLimit, WriteLimit, fences, mutexes, LocalsConsistent, LockOwners, TypeOK, GateFree, Threads,
      Settling, ToppingUp, Counting, Labels
<1>20. CASE Snapshot
  BY Zenon, <1>20, <1>a
  DEF Snapshot, CopyMaps, maps, mutexes, LocalsConsistent, LockOwners, TypeOK, GateFree, Threads,
      Settling, ToppingUp, Counting, Labels
<1>21. CASE Restore
  BY Zenon, <1>21, <1>a
  DEF Restore, ReplaceMaps, ReplaceLedger, mutexes, LocalsConsistent, LockOwners, TypeOK, GateFree,
      Threads, Settling, ToppingUp, Counting, Labels
<1> QED
  BY Zenon, <1>1, <1>2, <1>3, <1>4, <1>5, <1>6, <1>7, <1>8, <1>9, <1>10, <1>11, <1>12, <1>13, <1>14,
     <1>15,
      <1>16, <1>17, <1>18, <1>19, <1>20, <1>21
  DEF Next, Reserve, Commit, Release, TopUp

\* Open reservations and running operations keep existing tenants.
LEMMA HeldTenantsStep ==
  ASSUME TypeOK, HeldTenantsExist, Next
  PROVE  HeldTenantsExist'
<1>1. ASSUME NEW t \in Threads, NEW x \in Tenants, NEW cost \in Amounts, ReserveLookup(t, x, cost)
      PROVE  HeldTenantsExist'
  BY Zenon, <1>1
  DEF ReserveLookup, Enter, Call, NoCall, maps, fences, mutexes, HeldTenantsExist, TypeOK, GateFree,
  Record
<1>2. ASSUME NEW t \in Threads, ReserveCount(t) PROVE HeldTenantsExist'
  BY Zenon, <1>2
  DEF ReserveCount, Goto, Return, Enter, NoCall, maps, fences, mutexes, HeldTenantsExist, TypeOK,
      GateFree, Record
<1>3. ASSUME NEW t \in Threads, ReserveAllocate(t) PROVE HeldTenantsExist'
  <2>1. pc[t] = "allocate" /\ UNCHANGED <<tenants, reservations>>
    BY Zenon, <1>3 DEF ReserveAllocate, maps
  <2>2. \A u \in Threads : local'[u].tenant = local[u].tenant /\ (pc[u] = "idle" => pc'[u] = "idle")
    BY <1>3 DEF ReserveAllocate, Enter, Goto, TypeOK, Locals
  <2> QED BY Zenon, <2>1, <2>2 DEF HeldTenantsExist
<1>4. ASSUME NEW t \in Threads, ReserveDebit(t) PROVE HeldTenantsExist'
  BY Zenon, <1>4
  DEF ReserveDebit, Goto, maps, fences, mutexes, HeldTenantsExist, TypeOK, GateFree, Record
<1>5. ASSUME NEW t \in Threads, ReserveUncount(t) PROVE HeldTenantsExist'
  BY Zenon, <1>5
  DEF ReserveUncount, Return, Enter, NoCall, maps, fences, mutexes, HeldTenantsExist, TypeOK, GateFree,
  Record
<1>6. ASSUME NEW t \in Threads, ReserveInsert(t) PROVE HeldTenantsExist'
  BY Zenon, <1>6
  DEF ReserveInsert, Return, Enter, NoCall, fences, mutexes, HeldTenantsExist, TypeOK, GateFree, Record
<1>7. ASSUME NEW t \in Threads, NEW i \in Ids, NEW actual \in Amounts, CommitTake(t, i, actual)
      PROVE  HeldTenantsExist'
  BY Zenon, <1>7
  DEF CommitTake, Enter, Call, NoCall, fences, HeldTenantsExist, TypeOK, GateFree, Record
<1>8. ASSUME NEW t \in Threads, CommitDebit(t) PROVE HeldTenantsExist'
  <2>1. pc[t] = "commit_debit" /\ UNCHANGED tenants
    BY Zenon, <1>8 DEF CommitDebit
  <2>2. local[t].tenant \in tenants
    BY Zenon, <2>1 DEF HeldTenantsExist
  <2>3. \A u \in Threads : pc'[u] # "idle" => pc[u] # "idle" /\ local'[u].tenant = local[u].tenant
    BY Zenon, <1>8, <2>1 DEF CommitDebit, Goto, Return, Enter, TypeOK
  <2>4. \A i \in Ids : reservations'[i] # None => reservations'[i].tenant \in tenants
    BY <1>8, <2>2 DEF CommitDebit, HeldTenantsExist, TypeOK
  <2> QED BY Zenon, <2>1, <2>3, <2>4 DEF HeldTenantsExist
<1>9. ASSUME NEW t \in Threads, CommitWrite(t) PROVE HeldTenantsExist'
  BY Zenon, <1>9
  DEF CommitWrite, Goto, fences, mutexes, HeldTenantsExist, TypeOK, GateFree, Record
<1>10. ASSUME NEW t \in Threads, CommitRefund(t) PROVE HeldTenantsExist'
  BY Zenon, <1>10
  DEF CommitRefund, Goto, maps, fences, mutexes, HeldTenantsExist, TypeOK, GateFree, Record
<1>11. ASSUME NEW t \in Threads, CommitUncount(t) PROVE HeldTenantsExist'
  BY Zenon, <1>11
  DEF CommitUncount, Return, Enter, NoCall, maps, fences, HeldTenantsExist, TypeOK, GateFree, Record
<1>12. ASSUME NEW t \in Threads, NEW i \in Ids, ReleaseTake(t, i) PROVE HeldTenantsExist'
  BY Zenon, <1>12
  DEF ReleaseTake, Enter, Call, NoCall, fences, HeldTenantsExist, TypeOK, GateFree, Record
<1>13. ASSUME NEW t \in Threads, ReleaseUncount(t) PROVE HeldTenantsExist'
  BY Zenon, <1>13
  DEF ReleaseUncount, Goto, maps, fences, mutexes, HeldTenantsExist, TypeOK, GateFree, Record
<1>14. ASSUME NEW t \in Threads, ReleaseCredit(t) PROVE HeldTenantsExist'
  BY Zenon, <1>14
  DEF ReleaseCredit, Return, Enter, NoCall, maps, fences, HeldTenantsExist, TypeOK, GateFree, Record
<1>15. ASSUME NEW t \in Threads, NEW x \in Tenants, NEW amount \in Amounts, TopUpLock(t, x, amount)
      PROVE  HeldTenantsExist'
  BY Zenon, <1>15
  DEF TopUpLock, Enter, Call, NoCall, maps, fences, HeldTenantsExist, TypeOK, GateFree, Record
<1>16. ASSUME NEW t \in Threads, TopUpCredit(t) PROVE HeldTenantsExist'
  BY Zenon, <1>16
  DEF TopUpCredit, Goto, Return, Enter, NoCall, maps, fences, HeldTenantsExist, TypeOK, GateFree, Record
<1>17. ASSUME NEW t \in Threads, TopUpWrite(t) PROVE HeldTenantsExist'
  BY Zenon, <1>17
  DEF TopUpWrite, Return, Enter, NoCall, fences, HeldTenantsExist, TypeOK, GateFree, Record
<1>18. ASSUME NEW x \in Tenants, NEW grant \in Amounts, EnsureTenant(x, grant) PROVE HeldTenantsExist'
  BY Zenon, <1>18
  DEF EnsureTenant, fences, mutexes, HeldTenantsExist, TypeOK, GateFree, Record
<1>19. ASSUME NEW x \in Tenants, NEW max \in Amounts, SetLimit(x, max) PROVE HeldTenantsExist'
  BY Zenon, <1>19
  DEF SetLimit, WriteLimit, fences, mutexes, HeldTenantsExist, TypeOK, GateFree, Record
<1>20. CASE Snapshot
  BY Zenon, <1>20
  DEF Snapshot, CopyMaps, maps, mutexes, HeldTenantsExist, TypeOK, GateFree, Record
<1>21. CASE Restore
  BY Zenon, <1>21
  DEF Restore, ReplaceMaps, ReplaceLedger, mutexes, HeldTenantsExist, TypeOK, GateFree, Record
<1> QED
  BY Zenon, <1>1, <1>2, <1>3, <1>4, <1>5, <1>6, <1>7, <1>8, <1>9, <1>10, <1>11, <1>12, <1>13, <1>14,
     <1>15,
      <1>16, <1>17, <1>18, <1>19, <1>20, <1>21
  DEF Next, Reserve, Commit, Release, TopUp

\* Goto moves one thread and leaves its locals.
LEMMA GotoMoves ==
  ASSUME TypeOK, NEW t \in Threads, NEW label, Goto(t, label)
  PROVE  /\ pc'[t] = label /\ local'[t] = local[t]
         /\ \A u \in Threads : u # t => pc'[u] = pc[u] /\ local'[u] = local[u]
BY Zenon DEF Goto, TypeOK

\* Enter moves one thread and replaces its locals.
LEMMA EnterMoves ==
  ASSUME TypeOK, NEW t \in Threads, NEW label, NEW l, Enter(t, label, l)
  PROVE  /\ pc'[t] = label /\ local'[t] = l
         /\ \A u \in Threads : u # t => pc'[u] = pc[u] /\ local'[u] = local[u]
BY Zenon DEF Enter, TypeOK

\* A step that gives no thread an id, and touches neither the reservations nor the allocator.
LEMMA IdsUniqueKept ==
  ASSUME IdsUnique, UNCHANGED <<reservations, nextId>>,
         \A u \in Threads : pc'[u] \in Settling \cup {"debit", "insert"} =>
           pc[u] \in Settling \cup {"debit", "insert"} /\ local'[u].id = local[u].id
  PROVE  IdsUnique'
BY Zenon DEF IdsUnique

\* A thread goes on with the locals it has.
LEMMA IdsUniqueGoto ==
  ASSUME TypeOK, IdsUnique, NEW t \in Threads, NEW label,
         Goto(t, label), UNCHANGED <<reservations, nextId>>,
         label \in Settling \cup {"debit", "insert"} => pc[t] \in Settling \cup {"debit", "insert"}
  PROVE  IdsUnique'
<1>1. /\ pc'[t] = label /\ \A u \in Threads : u # t => pc'[u] = pc[u]
      /\ \A u \in Threads : local'[u].id = local[u].id
  BY Zenon, GotoMoves
<1> QED BY Zenon, <1>1, IdsUniqueKept

\* A thread gets new locals where it has no id.
LEMMA IdsUniqueEnter ==
  ASSUME TypeOK, IdsUnique, NEW t \in Threads, NEW label, NEW l,
         Enter(t, label, l), UNCHANGED <<reservations, nextId>>,
         label \notin Settling \cup {"debit", "insert"}
  PROVE  IdsUnique'
<1>1. pc'[t] = label /\ \A u \in Threads : u # t => pc'[u] = pc[u] /\ local'[u] = local[u]
  BY Zenon, EnterMoves
<1> QED BY Zenon, <1>1, IdsUniqueKept

\* Ids stay unique and below the allocator.
LEMMA IdsUniqueStep ==
  ASSUME TypeOK, LockOwners, IdsUnique, Next
  PROVE  IdsUnique'
<1>a. AllocatorMask \in Nat
  BY Zenon, ConstantsAssumption
<1>1. ASSUME NEW t \in Threads, NEW x \in Tenants, NEW cost \in Amounts, ReserveLookup(t, x, cost)
      PROVE  IdsUnique'
  <2>1. pc[t] = "idle" /\ UNCHANGED <<reservations, nextId>>
    BY Zenon, <1>1 DEF ReserveLookup, maps, fences
  <2>2. Enter(t, "count", [Call(x, cost) EXCEPT !.max = limits[x]])
    BY Zenon, <1>1 DEF ReserveLookup
  <2> QED BY Zenon, <2>1, <2>2, IdsUniqueEnter DEF Settling
<1>2. ASSUME NEW t \in Threads, ReserveCount(t) PROVE IdsUnique'
  <2>1. pc[t] = "count" /\ UNCHANGED <<reservations, nextId>>
    BY Zenon, <1>2 DEF ReserveCount, maps, fences
  <2>2. CASE Return(t)
    BY Zenon, <2>1, <2>2, IdsUniqueEnter DEF Return, Settling
  <2>3. CASE Goto(t, "allocate")
    BY Zenon, <2>1, <2>3, IdsUniqueGoto DEF Settling
  <2> QED BY Zenon, <1>2, <2>2, <2>3 DEF ReserveCount
<1>3. ASSUME NEW t \in Threads, ReserveAllocate(t) PROVE IdsUnique'
  <2>1. pc[t] = "allocate" /\ UNCHANGED reservations
    BY Zenon, <1>3 DEF ReserveAllocate, maps
  <2>2. \A u \in Threads : u # t => local'[u] = local[u] /\ pc'[u] = pc[u]
    BY Zenon, <1>3 DEF ReserveAllocate, Enter, Goto, TypeOK
  <2>3. CASE nextId < AllocatorMask
    <3>a. nextId' = nextId + 1 /\ Enter(t, "debit", [local[t] EXCEPT !.id = nextId])
      BY Zenon, <1>3, <2>3 DEF ReserveAllocate
    <3>b. local'[t].id = nextId /\ pc'[t] = "debit"
      BY Zenon, <3>a DEF Enter, TypeOK, Locals
    <3>c. nextId \in Ids
      BY <1>a, <2>3 DEF TypeOK, Ids
    <3>1. nextId' = nextId + 1 /\ local'[t].id = nextId /\ pc'[t] = "debit" /\ nextId \in Ids
      BY Zenon, <3>a, <3>b, <3>c
    <3>2. nextId \in Int /\ nextId < nextId + 1 /\ ~(nextId < nextId)
      BY <1>a, <3>1 DEF Ids
    <3>3. \A i \in Ids : reservations[i] # None => i < nextId
      BY Zenon DEF IdsUnique
    <3>4. reservations[nextId] = None
      BY Zenon, <3>1, <3>2, <3>3
    <3>5. ASSUME NEW u \in Threads, u # t, pc'[u] \in Settling \cup {"debit", "insert"}
          PROVE  /\ local'[u].id \in Ids /\ local'[u].id < nextId'
                 /\ reservations'[local'[u].id] = None /\ local'[u].id # nextId
      <4>1. /\ local'[u].id \in Ids /\ local'[u].id < nextId
            /\ reservations[local'[u].id] = None
        BY Zenon, <2>2, <3>5 DEF IdsUnique
      <4>2. local'[u].id \in Int
        BY <1>a, <4>1 DEF Ids
      <4>3. local'[u].id < nextId + 1 /\ local'[u].id # nextId
        BY <3>2, <4>1, <4>2
      <4> QED BY Zenon, <2>1, <3>1, <4>1, <4>3
    <3>6. ASSUME NEW v \in Threads, NEW u \in Threads \ {v},
                 pc'[v] \in Settling \cup {"debit", "insert"},
                 pc'[u] \in Settling \cup {"debit", "insert"}
          PROVE  local'[u].id # local'[v].id
      <4>1. CASE u = t \/ v = t
        BY Zenon, <3>1, <3>5, <3>6, <4>1
      <4>2. CASE u # t /\ v # t
        BY Zenon, <2>2, <3>6, <4>2 DEF IdsUnique
      <4> QED BY Zenon, <4>1, <4>2
    <3>7. ASSUME NEW i \in Ids, reservations'[i] # None PROVE i < nextId'
      <4>1. i < nextId /\ i \in Int
        BY <1>a, <2>1, <3>3, <3>7 DEF Ids
      <4> QED BY <3>1, <3>2, <4>1
    <3>8. ASSUME NEW v \in Threads, pc'[v] \in Settling \cup {"debit", "insert"}
          PROVE  /\ local'[v].id \in Ids /\ local'[v].id < nextId'
                 /\ reservations'[local'[v].id] = None
      BY Zenon, <2>1, <3>1, <3>2, <3>4, <3>5, <3>8
    <3> QED BY Zenon, <3>6, <3>7, <3>8 DEF IdsUnique
  <2>4. CASE ~(nextId < AllocatorMask)
    <3>1. nextId' = nextId /\ pc'[t] = "uncount"
      BY Zenon, <1>3, <2>4 DEF ReserveAllocate, Goto, TypeOK
    <3> QED BY Zenon, <2>1, <2>2, <3>1, IdsUniqueKept DEF Settling
  <2> QED BY Zenon, <2>3, <2>4
<1>4. ASSUME NEW t \in Threads, ReserveDebit(t) PROVE IdsUnique'
  <2>1. pc[t] = "debit" /\ UNCHANGED <<reservations, nextId>>
    BY Zenon, <1>4 DEF ReserveDebit, maps, fences
  <2>2. CASE Goto(t, "uncount")
    BY Zenon, <2>1, <2>2, IdsUniqueGoto DEF Settling
  <2>3. CASE Goto(t, "insert")
    BY Zenon, <2>1, <2>3, IdsUniqueGoto DEF Settling
  <2> QED BY Zenon, <1>4, <2>2, <2>3 DEF ReserveDebit
<1>5. ASSUME NEW t \in Threads, ReserveUncount(t) PROVE IdsUnique'
  <2>1. pc[t] = "uncount" /\ UNCHANGED <<reservations, nextId>>
    BY Zenon, <1>5 DEF ReserveUncount, maps, fences
  <2>2. Enter(t, "idle", NoCall)
    BY Zenon, <1>5 DEF ReserveUncount, Return
  <2> QED BY Zenon, <2>1, <2>2, IdsUniqueEnter DEF Settling
<1>6. ASSUME NEW t \in Threads, ReserveInsert(t) PROVE IdsUnique'
  BY SMTT(20), ZenonT(60), <1>6, <1>a
  DEF ReserveInsert, Return, Enter, NoCall, fences, mutexes, IdsUnique, LockOwners, TypeOK, GateFree,
      Ids, Settling, ToppingUp, Counting
<1>7. ASSUME NEW t \in Threads, NEW i \in Ids, NEW actual \in Amounts, CommitTake(t, i, actual)
      PROVE  IdsUnique'
  BY <1>7, <1>a
  DEF CommitTake, Enter, Call, NoCall, fences, IdsUnique, LockOwners, TypeOK, GateFree, Ids, Settling,
      ToppingUp, Counting
<1>8. ASSUME NEW t \in Threads, CommitDebit(t) PROVE IdsUnique'
  <2>1. pc[t] = "commit_debit" /\ UNCHANGED nextId
    BY Zenon, <1>8 DEF CommitDebit, fences
  <2>2. \A u \in Threads : u # t => local'[u] = local[u] /\ pc'[u] = pc[u]
    BY Zenon, <1>8 DEF CommitDebit, Return, Enter, Goto, TypeOK
  <2>3. CASE Return(t)
    <3>1. pc'[t] = "idle"
      BY Zenon, <2>3 DEF Return, Enter, TypeOK
    <3>2. \A j \in Ids : j # local[t].id => reservations'[j] = reservations[j]
      BY Zenon, <1>8 DEF CommitDebit, TypeOK
    <3>3. ~(pc'[t] \in Settling \cup {"debit", "insert"}) /\ pc[t] \in Settling
      BY Zenon, <2>1, <3>1 DEF Settling
    <3>4. local[t].id \in Ids /\ local[t].id < nextId
      BY Zenon, <3>3 DEF IdsUnique
    <3>5. ASSUME NEW v \in Threads, pc'[v] \in Settling \cup {"debit", "insert"}
          PROVE  /\ local'[v].id \in Ids /\ local'[v].id < nextId'
                 /\ reservations'[local'[v].id] = None
                 /\ \A u \in Threads \ {v} :
                      pc'[u] \in Settling \cup {"debit", "insert"} => local'[u].id # local'[v].id
      <4>1. v # t /\ local'[v] = local[v] /\ pc'[v] = pc[v]
        BY Zenon, <2>2, <3>3, <3>5
      <4>2. /\ local[v].id \in Ids /\ local[v].id < nextId /\ reservations[local[v].id] = None
            /\ \A u \in Threads \ {v} :
                 pc[u] \in Settling \cup {"debit", "insert"} => local[u].id # local[v].id
        BY Zenon, <3>5, <4>1 DEF IdsUnique
      <4>3. local[v].id # local[t].id
        BY Zenon, <3>3, <4>1, <4>2
      <4>4. reservations'[local[v].id] = None
        BY Zenon, <3>2, <4>2, <4>3
      <4> QED BY Zenon, <2>1, <2>2, <3>3, <4>1, <4>2, <4>4
    <3>6. ASSUME NEW i \in Ids, reservations'[i] # None PROVE i < nextId'
      <4>1. \A j \in Ids : reservations[j] # None => j < nextId
        BY Zenon DEF IdsUnique
      <4> QED BY Zenon, <2>1, <3>2, <3>4, <3>6, <4>1
    <3> QED BY Zenon, <3>5, <3>6 DEF IdsUnique
  <2>4. CASE Goto(t, "commit_write") /\ UNCHANGED reservations
    <3>1. pc'[t] = "commit_write" /\ local'[t] = local[t]
      BY Zenon, <2>4 DEF Goto, TypeOK
    <3>2. \A u \in Threads :
             /\ local'[u] = local[u]
             /\ pc'[u] \in Settling \cup {"debit", "insert"} <=> pc[u] \in Settling \cup {"debit", "insert"}
      BY Zenon, <2>1, <2>2, <3>1 DEF Settling
    <3>3. reservations' = reservations /\ nextId' = nextId
      BY Zenon, <2>1, <2>4
    <3> QED BY Zenon, <3>2, <3>3, IdsUniqueKept
  <2> QED BY Zenon, <1>8, <2>3, <2>4 DEF CommitDebit
<1>9. ASSUME NEW t \in Threads, CommitWrite(t) PROVE IdsUnique'
  <2>1. pc[t] = "commit_write" /\ UNCHANGED <<reservations, nextId>>
    BY Zenon, <1>9 DEF CommitWrite, fences
  <2>2. CASE Goto(t, "commit_refund")
    BY Zenon, <2>1, <2>2, IdsUniqueGoto DEF Settling
  <2>3. CASE Goto(t, "commit_uncount")
    BY Zenon, <2>1, <2>3, IdsUniqueGoto DEF Settling
  <2> QED BY Zenon, <1>9, <2>2, <2>3 DEF CommitWrite
<1>10. ASSUME NEW t \in Threads, CommitRefund(t) PROVE IdsUnique'
  <2>1. pc[t] = "commit_refund" /\ UNCHANGED <<reservations, nextId>>
    BY Zenon, <1>10 DEF CommitRefund, maps, fences
  <2>2. CASE Goto(t, "commit_uncount")
    BY Zenon, <2>1, <2>2, IdsUniqueGoto DEF Settling
  <2> QED BY Zenon, <1>10, <2>2 DEF CommitRefund
<1>11. ASSUME NEW t \in Threads, CommitUncount(t) PROVE IdsUnique'
  <2>1. pc[t] = "commit_uncount" /\ UNCHANGED <<reservations, nextId>>
    BY Zenon, <1>11 DEF CommitUncount, maps, fences
  <2>2. Enter(t, "idle", NoCall)
    BY Zenon, <1>11 DEF CommitUncount, Return
  <2> QED BY Zenon, <2>1, <2>2, IdsUniqueEnter DEF Settling
<1>12. ASSUME NEW t \in Threads, NEW i \in Ids, ReleaseTake(t, i) PROVE IdsUnique'
  BY <1>12, <1>a
  DEF ReleaseTake, Enter, Call, NoCall, fences, IdsUnique, LockOwners, TypeOK, GateFree, Ids, Settling,
      ToppingUp, Counting
<1>13. ASSUME NEW t \in Threads, ReleaseUncount(t) PROVE IdsUnique'
  <2>1. pc[t] = "release_uncount" /\ UNCHANGED <<reservations, nextId>>
    BY Zenon, <1>13 DEF ReleaseUncount, maps, fences
  <2>2. CASE Goto(t, "release_credit")
    BY Zenon, <2>1, <2>2, IdsUniqueGoto DEF Settling
  <2> QED BY Zenon, <1>13, <2>2 DEF ReleaseUncount
<1>14. ASSUME NEW t \in Threads, ReleaseCredit(t) PROVE IdsUnique'
  <2>1. pc[t] = "release_credit" /\ UNCHANGED <<reservations, nextId>>
    BY Zenon, <1>14 DEF ReleaseCredit, maps, fences
  <2>2. Enter(t, "idle", NoCall)
    BY Zenon, <1>14 DEF ReleaseCredit, Return
  <2> QED BY Zenon, <2>1, <2>2, IdsUniqueEnter DEF Settling
<1>15. ASSUME NEW t \in Threads, NEW x \in Tenants, NEW amount \in Amounts, TopUpLock(t, x, amount)
      PROVE  IdsUnique'
  <2>1. pc[t] = "idle" /\ UNCHANGED <<reservations, nextId>>
    BY Zenon, <1>15 DEF TopUpLock, maps, fences
  <2>2. Enter(t, "topup_credit", [Call(x, amount) EXCEPT !.next = initials[x] + amount])
    BY Zenon, <1>15 DEF TopUpLock
  <2> QED BY Zenon, <2>1, <2>2, IdsUniqueEnter DEF Settling
<1>16. ASSUME NEW t \in Threads, TopUpCredit(t) PROVE IdsUnique'
  <2>1. pc[t] = "topup_credit" /\ UNCHANGED <<reservations, nextId>>
    BY Zenon, <1>16 DEF TopUpCredit, maps, fences
  <2>2. CASE Return(t)
    BY Zenon, <2>1, <2>2, IdsUniqueEnter DEF Return, Settling
  <2>3. CASE Goto(t, "topup_write")
    BY Zenon, <2>1, <2>3, IdsUniqueGoto DEF Settling
  <2> QED BY Zenon, <1>16, <2>2, <2>3 DEF TopUpCredit
<1>17. ASSUME NEW t \in Threads, TopUpWrite(t) PROVE IdsUnique'
  <2>1. pc[t] = "topup_write" /\ UNCHANGED <<reservations, nextId>>
    BY Zenon, <1>17 DEF TopUpWrite, fences
  <2>2. Enter(t, "idle", NoCall)
    BY Zenon, <1>17 DEF TopUpWrite, Return
  <2> QED BY Zenon, <2>1, <2>2, IdsUniqueEnter DEF Settling
<1>18. ASSUME NEW x \in Tenants, NEW grant \in Amounts, EnsureTenant(x, grant) PROVE IdsUnique'
  BY Zenon, <1>18, IdsUniqueKept DEF EnsureTenant, fences
<1>19. ASSUME NEW x \in Tenants, NEW max \in Amounts, SetLimit(x, max) PROVE IdsUnique'
  BY Zenon, <1>19, IdsUniqueKept DEF SetLimit, WriteLimit, fences
<1>20. CASE Snapshot
  <2>1. nextId' = nextId + 1 /\ UNCHANGED <<reservations, pc, local>>
    BY Zenon, <1>20 DEF Snapshot, CopyMaps, maps
  <2>2. \A u \in Threads : pc'[u] \notin Settling \cup {"debit", "insert"}
    BY Zenon, <1>20, <2>1 DEF Snapshot, GateFree, Settling
  <2>3. \A i \in Ids : reservations'[i] # None => i < nextId'
    BY <1>a, <2>1 DEF IdsUnique, Ids, TypeOK
  <2> QED BY Zenon, <2>2, <2>3 DEF IdsUnique
<1>21. CASE Restore
  BY Zenon, <1>21 DEF Restore, ReplaceMaps, ReplaceLedger, GateFree, IdsUnique, Settling
<1> QED
  BY Zenon, <1>1, <1>2, <1>3, <1>4, <1>5, <1>6, <1>7, <1>8, <1>9, <1>10, <1>11, <1>12, <1>13, <1>14,
     <1>15,
      <1>16, <1>17, <1>18, <1>19, <1>20, <1>21
  DEF Next, Reserve, Commit, Release, TopUp

\* The fence stays at or below the allocator.
LEMMA FenceStep ==
  ASSUME TypeOK, FenceBelowAllocator, Next
  PROVE  FenceBelowAllocator'
<1>a. AllocatorMask \in Nat
  BY Zenon, ConstantsAssumption
<1>1. ASSUME NEW t \in Threads, NEW x \in Tenants, NEW cost \in Amounts, ReserveLookup(t, x, cost)
      PROVE  FenceBelowAllocator'
  BY Zenon, <1>1 DEF ReserveLookup, fences, FenceBelowAllocator
<1>2. ASSUME NEW t \in Threads, ReserveCount(t) PROVE FenceBelowAllocator'
  BY Zenon, <1>2 DEF ReserveCount, fences, FenceBelowAllocator
<1>3. ASSUME NEW t \in Threads, ReserveAllocate(t) PROVE FenceBelowAllocator'
  BY <1>3, <1>a
  DEF ReserveAllocate, Goto, Enter, maps, mutexes, FenceBelowAllocator, TypeOK, Snapshots
<1>4. ASSUME NEW t \in Threads, ReserveDebit(t) PROVE FenceBelowAllocator'
  BY Zenon, <1>4 DEF ReserveDebit, fences, FenceBelowAllocator
<1>5. ASSUME NEW t \in Threads, ReserveUncount(t) PROVE FenceBelowAllocator'
  BY Zenon, <1>5 DEF ReserveUncount, fences, FenceBelowAllocator
<1>6. ASSUME NEW t \in Threads, ReserveInsert(t) PROVE FenceBelowAllocator'
  BY Zenon, <1>6 DEF ReserveInsert, fences, FenceBelowAllocator
<1>7. ASSUME NEW t \in Threads, NEW i \in Ids, NEW actual \in Amounts, CommitTake(t, i, actual)
      PROVE  FenceBelowAllocator'
  BY Zenon, <1>7 DEF CommitTake, fences, FenceBelowAllocator
<1>8. ASSUME NEW t \in Threads, CommitDebit(t) PROVE FenceBelowAllocator'
  BY Zenon, <1>8 DEF CommitDebit, fences, FenceBelowAllocator
<1>9. ASSUME NEW t \in Threads, CommitWrite(t) PROVE FenceBelowAllocator'
  BY Zenon, <1>9 DEF CommitWrite, fences, FenceBelowAllocator
<1>10. ASSUME NEW t \in Threads, CommitRefund(t) PROVE FenceBelowAllocator'
  BY Zenon, <1>10 DEF CommitRefund, fences, FenceBelowAllocator
<1>11. ASSUME NEW t \in Threads, CommitUncount(t) PROVE FenceBelowAllocator'
  BY Zenon, <1>11 DEF CommitUncount, fences, FenceBelowAllocator
<1>12. ASSUME NEW t \in Threads, NEW i \in Ids, ReleaseTake(t, i) PROVE FenceBelowAllocator'
  BY Zenon, <1>12 DEF ReleaseTake, fences, FenceBelowAllocator
<1>13. ASSUME NEW t \in Threads, ReleaseUncount(t) PROVE FenceBelowAllocator'
  BY Zenon, <1>13 DEF ReleaseUncount, fences, FenceBelowAllocator
<1>14. ASSUME NEW t \in Threads, ReleaseCredit(t) PROVE FenceBelowAllocator'
  BY Zenon, <1>14 DEF ReleaseCredit, fences, FenceBelowAllocator
<1>15. ASSUME NEW t \in Threads, NEW x \in Tenants, NEW amount \in Amounts, TopUpLock(t, x, amount)
      PROVE  FenceBelowAllocator'
  BY Zenon, <1>15 DEF TopUpLock, fences, FenceBelowAllocator
<1>16. ASSUME NEW t \in Threads, TopUpCredit(t) PROVE FenceBelowAllocator'
  BY Zenon, <1>16 DEF TopUpCredit, fences, FenceBelowAllocator
<1>17. ASSUME NEW t \in Threads, TopUpWrite(t) PROVE FenceBelowAllocator'
  BY Zenon, <1>17 DEF TopUpWrite, fences, FenceBelowAllocator
<1>18. ASSUME NEW x \in Tenants, NEW grant \in Amounts, EnsureTenant(x, grant)
      PROVE  FenceBelowAllocator'
  BY Zenon, <1>18 DEF EnsureTenant, fences, FenceBelowAllocator
<1>19. ASSUME NEW x \in Tenants, NEW max \in Amounts, SetLimit(x, max) PROVE FenceBelowAllocator'
  BY Zenon, <1>19 DEF SetLimit, WriteLimit, fences, FenceBelowAllocator
<1>20. CASE Snapshot
  BY <1>20, <1>a
  DEF Snapshot, CopyMaps, maps, mutexes, FenceBelowAllocator, TypeOK, Snapshots
<1>21. CASE Restore
  <2>1. nextId' = saved.version /\ snapshotVersion' = saved.version /\ saved # None
    BY Zenon, <1>21 DEF Restore, ReplaceMaps, ReplaceLedger
  <2>2. saved.version \in Int
    BY <1>a, <2>1 DEF TypeOK, Snapshots
  <2> QED BY <2>1, <2>2 DEF FenceBelowAllocator
<1> QED
  BY Zenon, <1>1, <1>2, <1>3, <1>4, <1>5, <1>6, <1>7, <1>8, <1>9, <1>10, <1>11, <1>12, <1>13, <1>14,
     <1>15,
      <1>16, <1>17, <1>18, <1>19, <1>20, <1>21
  DEF Next, Reserve, Commit, Release, TopUp

-----------------------------------------------------------------------------
(***************************************************************************)
(* Two facts that the refinement needs beside the invariant                *)
(***************************************************************************)
\* A tenant that does not exist has no money, in the engine and in the snapshot.
AbsentIsEmpty ==
  /\ \A x \in Tenants \ tenants : budgets[x] = 0 /\ committed[x] = 0 /\ initials[x] = 0
  /\ saved # None =>
       \A x \in Tenants \ saved.tenants :
         saved.budgets[x] = 0 /\ saved.committed[x] = 0 /\ saved.initials[x] = 0

\* The amounts of a call that has still to take effect are those its caller passed.
CallAmounts ==
  \A t \in Threads :
    /\ pc[t] \in {"count", "allocate", "debit", "topup_credit"} => local[t].amount \in Amounts
    /\ pc[t] = "commit_debit" => local[t].actual \in Amounts

\* Only thread t moves.
OnlyMoves(t) == \A u \in Threads : u # t => pc'[u] = pc[u] /\ local'[u] = local[u]

\* A step of one thread whose amounts are still those of its caller keeps them so.
LEMMA CallAmountsKept ==
  ASSUME CallAmounts, NEW t \in Threads, OnlyMoves(t),
         \/ pc'[t] \notin {"count", "allocate", "debit", "topup_credit", "commit_debit"}
         \/ pc'[t] # "commit_debit" /\ local'[t].amount \in Amounts
         \/ pc'[t] = "commit_debit" /\ local'[t].actual \in Amounts
  PROVE  CallAmounts'
BY Zenon DEF CallAmounts, OnlyMoves

\* The amounts of a call are those its caller passed, until it takes effect.
LEMMA CallAmountsStep ==
  ASSUME IInv, CallAmounts, Next
  PROVE  CallAmounts'
<1>1. ASSUME NEW t \in Threads, Reserve(t) PROVE CallAmounts'
  <2>1. ASSUME NEW x \in Tenants, NEW cost \in Amounts, ReserveLookup(t, x, cost) PROVE CallAmounts'
    <3>1. OnlyMoves(t) /\ pc'[t] = "count" /\ local'[t] = [Call(x, cost) EXCEPT !.max = limits[x]]
      BY Zenon, <2>1, EnterMoves DEF ReserveLookup, OnlyMoves, IInv
    <3>2. local'[t].amount = cost
      BY Zenon, <3>1 DEF Call, NoCall
    <3> QED BY Zenon, <3>1, <3>2, CallAmountsKept
  <2>2. CASE ReserveCount(t)
    <3>1. OnlyMoves(t) /\ (pc'[t] = "idle" \/ (pc'[t] = "allocate" /\ local'[t] = local[t])) /\ pc[t] = "count"
      BY Zenon, <2>2, EnterMoves, GotoMoves DEF ReserveCount, Return, OnlyMoves, IInv
    <3>2. local[t].amount \in Amounts
      BY Zenon, <3>1 DEF CallAmounts
    <3> QED BY Zenon, <3>1, <3>2, CallAmountsKept
  <2>3. CASE ReserveAllocate(t)
    <3>1. /\ pc[t] = "allocate" /\ OnlyMoves(t)
          /\ \/ pc'[t] = "uncount"
             \/ pc'[t] = "debit" /\ local'[t] = [local[t] EXCEPT !.id = nextId]
      BY <2>3, EnterMoves, GotoMoves DEF ReserveAllocate, OnlyMoves, IInv
    <3>2. local[t].amount \in Amounts /\ local[t] \in Locals
      BY Zenon, <3>1 DEF CallAmounts, IInv, TypeOK
    <3>3. pc'[t] = "uncount" \/ (pc'[t] = "debit" /\ local'[t].amount \in Amounts)
      BY Zenon, <3>1, <3>2 DEF Locals
    <3> QED BY Zenon, <3>1, <3>3, CallAmountsKept
  <2>4. CASE ReserveDebit(t)
    <3>1. OnlyMoves(t) /\ pc'[t] \in {"uncount", "insert"}
      BY Zenon, <2>4, GotoMoves DEF ReserveDebit, OnlyMoves, IInv
    <3> QED BY Zenon, <3>1, CallAmountsKept
  <2>5. CASE ReserveUncount(t) \/ ReserveInsert(t)
    <3>1. OnlyMoves(t) /\ pc'[t] = "idle"
      BY Zenon, <2>5, EnterMoves DEF ReserveUncount, ReserveInsert, Return, OnlyMoves, IInv
    <3> QED BY Zenon, <3>1, CallAmountsKept
  <2> QED BY Zenon, <1>1, <2>1, <2>2, <2>3, <2>4, <2>5 DEF Reserve
<1>2. ASSUME NEW t \in Threads, Commit(t) PROVE CallAmounts'
  <2>1. ASSUME NEW i \in Ids, NEW actual \in Amounts, CommitTake(t, i, actual) PROVE CallAmounts'
    <3>1. PICK y, n, m, label :
            /\ Enter(t, label, [Call(y, n) EXCEPT !.id = i, !.actual = actual, !.next = m])
            /\ label \in {"commit_debit", "commit_write"}
      BY Zenon, <2>1 DEF CommitTake
    <3>2. /\ OnlyMoves(t) /\ pc'[t] \in {"commit_debit", "commit_write"}
          /\ local'[t] = [Call(y, n) EXCEPT !.id = i, !.actual = actual, !.next = m]
      BY <3>1, EnterMoves DEF OnlyMoves, IInv
    <3>3. local'[t].actual = actual
      BY Zenon, <3>2 DEF Call, NoCall
    <3> QED BY Zenon, <3>2, <3>3, CallAmountsKept
  <2>2. CASE CommitDebit(t) \/ CommitWrite(t) \/ CommitRefund(t) \/ CommitUncount(t)
    <3>1. OnlyMoves(t) /\ pc'[t] \in {"idle", "commit_write", "commit_refund", "commit_uncount"}
      BY Zenon, <2>2, EnterMoves, GotoMoves
      DEF CommitDebit, CommitWrite, CommitRefund, CommitUncount, Return, OnlyMoves, IInv
    <3> QED BY Zenon, <3>1, CallAmountsKept
  <2> QED BY Zenon, <1>2, <2>1, <2>2 DEF Commit
<1>3. ASSUME NEW t \in Threads, Release(t) PROVE CallAmounts'
  <2>1. OnlyMoves(t) /\ pc'[t] \in {"idle", "release_uncount", "release_credit"}
    BY ZenonT(30), <1>3, EnterMoves, GotoMoves
    DEF Release, ReleaseTake, ReleaseUncount, ReleaseCredit, Return, OnlyMoves, IInv
  <2> QED BY Zenon, <2>1, CallAmountsKept
<1>4. ASSUME NEW t \in Threads, TopUp(t) PROVE CallAmounts'
  <2>1. ASSUME NEW x \in Tenants, NEW amount \in Amounts, TopUpLock(t, x, amount) PROVE CallAmounts'
    <3>1. PICK m : OnlyMoves(t) /\ pc'[t] = "topup_credit" /\ local'[t] = [Call(x, amount) EXCEPT !.next = m]
      BY Zenon, <2>1, EnterMoves DEF TopUpLock, OnlyMoves, IInv
    <3>2. local'[t].amount = amount
      BY Zenon, <3>1 DEF Call, NoCall
    <3> QED BY Zenon, <3>1, <3>2, CallAmountsKept
  <2>2. CASE TopUpCredit(t) \/ TopUpWrite(t)
    <3>1. OnlyMoves(t) /\ pc'[t] \in {"idle", "topup_write"}
      BY Zenon, <2>2, EnterMoves, GotoMoves DEF TopUpCredit, TopUpWrite, Return, OnlyMoves, IInv
    <3> QED BY Zenon, <3>1, CallAmountsKept
  <2> QED BY Zenon, <1>4, <2>1, <2>2 DEF TopUp
<1>5. ASSUME UNCHANGED <<pc, local>> PROVE CallAmounts'
  BY Zenon, <1>5 DEF CallAmounts
<1>6. CASE \E x \in Tenants, grant \in Amounts : EnsureTenant(x, grant)
  BY Zenon, <1>5, <1>6 DEF EnsureTenant
<1>7. CASE \E x \in Tenants, max \in Amounts : SetLimit(x, max)
  BY Zenon, <1>5, <1>7 DEF SetLimit, WriteLimit
<1>8. CASE Snapshot \/ Restore
  BY Zenon, <1>5, <1>8 DEF Snapshot, CopyMaps, Restore, ReplaceMaps, ReplaceLedger
<1> QED BY Zenon, <1>1, <1>2, <1>3, <1>4, <1>6, <1>7, <1>8 DEF Next

\* The threads only write the cells of tenants that exist.
LEMMA ThreadWrites ==
  ASSUME IInv, NEW t \in Threads, Reserve(t) \/ Commit(t) \/ Release(t) \/ TopUp(t)
  PROVE  /\ UNCHANGED <<tenants, saved>>
         /\ \A x \in Tenants \ tenants :
              budgets'[x] = budgets[x] /\ committed'[x] = committed[x] /\ initials'[x] = initials[x]
<1>1. UNCHANGED <<tenants, saved>>
  <2>1. CASE Reserve(t)
    BY Zenon, <2>1 DEF Reserve, ReserveLookup, ReserveCount, ReserveAllocate, ReserveDebit,
       ReserveUncount,
                ReserveInsert, maps, fences
  <2>2. CASE Commit(t)
    BY Zenon, <2>2 DEF Commit, CommitTake, CommitDebit, CommitWrite, CommitRefund, CommitUncount, maps,
       fences
  <2>3. CASE Release(t)
    BY Zenon, <2>3 DEF Release, ReleaseTake, ReleaseUncount, ReleaseCredit, maps, fences
  <2>4. CASE TopUp(t)
    BY Zenon, <2>4 DEF TopUp, TopUpLock, TopUpCredit, TopUpWrite, maps, fences
  <2> QED BY Zenon, <2>1, <2>2, <2>3, <2>4
<1>2. budgets \in Ledger /\ committed \in Ledger /\ initials \in Ledger
  BY Zenon DEF IInv, TypeOK
<1>3. pc[t] # "idle" => local[t].tenant \in tenants
  BY Zenon DEF IInv, LocalsConsistent
<1>4. budgets' = budgets \/ (pc[t] # "idle" /\ \E v : budgets' = [budgets EXCEPT ![local[t].tenant] = v])
  <2>1. CASE Reserve(t)
    BY Zenon, <2>1 DEF Reserve, ReserveLookup, ReserveCount, ReserveAllocate, ReserveDebit,
       ReserveUncount,
                ReserveInsert, Add
  <2>2. CASE Commit(t)
    BY Zenon, <2>2 DEF Commit, CommitTake, CommitDebit, CommitWrite, CommitRefund, CommitUncount, Add
  <2>3. CASE Release(t)
    BY Zenon, <2>3 DEF Release, ReleaseTake, ReleaseUncount, ReleaseCredit, Add
  <2>4. CASE TopUp(t)
    BY Zenon, <2>4 DEF TopUp, TopUpLock, TopUpCredit, TopUpWrite, Add
  <2> QED BY Zenon, <2>1, <2>2, <2>3, <2>4
<1>5. committed' = committed \/ (pc[t] # "idle" /\ \E v : committed' = [committed EXCEPT ![local[t].tenant] = v])
  <2>1. CASE Reserve(t)
    BY Zenon, <2>1 DEF Reserve, ReserveLookup, ReserveCount, ReserveAllocate, ReserveDebit,
       ReserveUncount,
                ReserveInsert, maps
  <2>2. CASE Commit(t)
    BY Zenon, <2>2 DEF Commit, CommitTake, CommitDebit, CommitWrite, CommitRefund, CommitUncount, maps
  <2>3. CASE Release(t) \/ TopUp(t)
    BY Zenon, <2>3 DEF Release, ReleaseTake, ReleaseUncount, ReleaseCredit,
                TopUp, TopUpLock, TopUpCredit, TopUpWrite, maps
  <2> QED BY Zenon, <2>1, <2>2, <2>3
<1>6. initials' = initials \/ (pc[t] # "idle" /\ \E v : initials' = [initials EXCEPT ![local[t].tenant] = v])
  <2>1. CASE Reserve(t)
    BY Zenon, <2>1 DEF Reserve, ReserveLookup, ReserveCount, ReserveAllocate, ReserveDebit,
       ReserveUncount,
                ReserveInsert, maps
  <2>2. CASE Commit(t) \/ Release(t)
    BY Zenon, <2>2 DEF Commit, CommitTake, CommitDebit, CommitWrite, CommitRefund, CommitUncount,
                Release, ReleaseTake, ReleaseUncount, ReleaseCredit, maps
  <2>3. CASE TopUp(t)
    BY Zenon, <2>3 DEF TopUp, TopUpLock, TopUpCredit, TopUpWrite, maps
  <2> QED BY Zenon, <2>1, <2>2, <2>3
<1>7. ASSUME NEW x \in Tenants \ tenants
      PROVE  budgets'[x] = budgets[x] /\ committed'[x] = committed[x] /\ initials'[x] = initials[x]
  <2>1. budgets'[x] = budgets[x]
    <3>1. CASE budgets' = budgets
      BY Zenon, <3>1
    <3>2. CASE pc[t] # "idle" /\ \E v : budgets' = [budgets EXCEPT ![local[t].tenant] = v]
      <4>1. PICK v : budgets' = [budgets EXCEPT ![local[t].tenant] = v]
        BY Zenon, <3>2
      <4>2. local[t].tenant \in tenants
        BY Zenon, <1>3, <3>2
      <4> QED BY Zenon, <1>2, <4>1, <4>2 DEF Ledger
    <3> QED BY Zenon, <1>4, <3>1, <3>2
  <2>2. committed'[x] = committed[x]
    <3>1. CASE committed' = committed
      BY Zenon, <3>1
    <3>2. CASE pc[t] # "idle" /\ \E v : committed' = [committed EXCEPT ![local[t].tenant] = v]
      <4>1. PICK v : committed' = [committed EXCEPT ![local[t].tenant] = v]
        BY Zenon, <3>2
      <4>2. local[t].tenant \in tenants
        BY Zenon, <1>3, <3>2
      <4> QED BY Zenon, <1>2, <4>1, <4>2 DEF Ledger
    <3> QED BY Zenon, <1>5, <3>1, <3>2
  <2>3. initials'[x] = initials[x]
    <3>1. CASE initials' = initials
      BY Zenon, <3>1
    <3>2. CASE pc[t] # "idle" /\ \E v : initials' = [initials EXCEPT ![local[t].tenant] = v]
      <4>1. PICK v : initials' = [initials EXCEPT ![local[t].tenant] = v]
        BY Zenon, <3>2
      <4>2. local[t].tenant \in tenants
        BY Zenon, <1>3, <3>2
      <4> QED BY Zenon, <1>2, <4>1, <4>2 DEF Ledger
    <3> QED BY Zenon, <1>6, <3>1, <3>2
  <2> QED BY Zenon, <2>1, <2>2, <2>3
<1> QED BY Zenon, <1>1, <1>7

\* A tenant that does not exist stays without money.
LEMMA AbsentStep ==
  ASSUME IInv, AbsentIsEmpty, Next
  PROVE  AbsentIsEmpty'
<1>1. CASE \E t \in Threads : Reserve(t) \/ Commit(t) \/ Release(t) \/ TopUp(t)
  BY Zenon, <1>1, ThreadWrites DEF AbsentIsEmpty
<1>2. ASSUME NEW y \in Tenants, NEW grant \in Amounts, EnsureTenant(y, grant) PROVE AbsentIsEmpty'
  <2>1. budgets \in Ledger /\ committed \in Ledger /\ initials \in Ledger
    BY Zenon DEF IInv, TypeOK
  <2>2. \A x \in Tenants \ tenants' : /\ x \notin tenants
                                      /\ budgets'[x] = budgets[x] /\ committed'[x] = committed[x]
                                      /\ initials'[x] = initials[x]
    BY Zenon, <1>2, <2>1 DEF EnsureTenant, Ledger
  <2> QED BY Zenon, <1>2, <2>2 DEF AbsentIsEmpty, EnsureTenant, fences
<1>3. CASE \E x \in Tenants, max \in Amounts : SetLimit(x, max)
  BY Zenon, <1>3 DEF SetLimit, WriteLimit, fences, AbsentIsEmpty
<1>4. CASE Snapshot
  <2>1. UNCHANGED <<tenants, initials, committed, budgets>> /\ saved' \in {saved, Capture}
    BY Zenon, <1>4 DEF Snapshot, CopyMaps, maps
  <2>2. /\ Capture.tenants = tenants /\ Capture.budgets = budgets
        /\ Capture.committed = committed /\ Capture.initials = initials
    BY Zenon DEF Capture
  <2> QED BY Zenon, <2>1, <2>2 DEF AbsentIsEmpty
<1>5. CASE Restore
  BY Zenon, <1>5 DEF Restore, ReplaceMaps, ReplaceLedger, AbsentIsEmpty
<1> QED BY Zenon, <1>1, <1>2, <1>3, <1>4, <1>5 DEF Next

\* A stutter of the engine keeps both facts.
LEMMA RefStutter == AbsentIsEmpty /\ CallAmounts /\ UNCHANGED vars => AbsentIsEmpty' /\ CallAmounts'
BY Zenon DEF AbsentIsEmpty, CallAmounts, vars, maps, fences

-----------------------------------------------------------------------------
(***************************************************************************)
(* The books                                                               *)
(***************************************************************************)

\* The grant of a tenant, an unrecorded top-up included, only changes with the
\* thread that holds the mutex of the grants.
LEMMA GrantedSame ==
  ASSUME TypeOK, NEW t \in Threads, NEW x \in Tenants, initialsLock # t,
         UNCHANGED <<initials, initialsLock>>,
         \A u \in Threads : u # t => pc'[u] = pc[u] /\ local'[u] = local[u]
  PROVE  Granted(x)' = Granted(x)
<1>1. initialsLock # 0 => initialsLock \in Threads
  BY ConstantsAssumption DEF TypeOK, Threads
<1> QED BY Zenon, <1>1 DEF Granted

\* The terms of one thread and one reservation, and the grant, are integers.
LEMMA LedgerInts ==
  ASSUME TypeOK, NEW x \in Tenants
  PROVE  /\ budgets[x] \in Int /\ committed[x] \in Int /\ reservedTotals[x] \in Int
         /\ initials[x] \in Int /\ Granted(x) \in Int
         /\ \A t \in Threads : InHand(t, x) \in Int /\ Counted(t, x) \in Int
         /\ \A i \in Ids : Hold(i, x) \in Int
<1>1. MaxI64 \in Nat
  BY Zenon, ConstantsAssumption
<1>2. initialsLock # 0 => initialsLock \in Threads
  BY ConstantsAssumption DEF TypeOK, Threads
<1>3. Granted(x) \in Int
  BY <1>1, <1>2 DEF TypeOK, Ledger, Locals, Granted
<1>4. /\ budgets[x] \in Int /\ committed[x] \in Int /\ reservedTotals[x] \in Int /\ initials[x] \in Int
  BY <1>1 DEF TypeOK, Ledger
<1>5. ASSUME NEW t \in Threads PROVE local[t].amount \in Int /\ local[t].actual \in Int
  BY <1>1 DEF TypeOK, Locals
<1>6. \A t \in Threads : InHand(t, x) \in Int /\ Counted(t, x) \in Int
  BY <1>5 DEF InHand, Counted
<1>7. \A i \in Ids : Hold(i, x) \in Int
  BY <1>1 DEF TypeOK, Hold, Record
<1> QED BY Zenon, <1>3, <1>4, <1>6, <1>7

\* A step of one thread that keeps the records and the grant of x: what it takes out of the
\* cells is what it has in hand more, and what it adds to the reserved total is what it
\* counts more.
CellStep(t, x) ==
  /\ \A u \in Threads : u # t => pc'[u] = pc[u] /\ local'[u] = local[u]
  /\ UNCHANGED reservations
  /\ Granted(x)' = Granted(x)
  /\ InHand(t, x)' = InHand(t, x) + (budgets[x] - budgets'[x]) + (committed[x] - committed'[x])
  /\ Counted(t, x)' = Counted(t, x) + (reservedTotals'[x] - reservedTotals[x])

\* The same for a step that also inserts or removes the record i: what the record gives up
\* is what the thread takes over.
RecordStep(t, i, x) ==
  /\ \A u \in Threads : u # t => pc'[u] = pc[u] /\ local'[u] = local[u]
  /\ \A j \in Ids : j # i => reservations'[j] = reservations[j]
  /\ Granted(x)' = Granted(x)
  /\ InHand(t, x)' = InHand(t, x) + (budgets[x] - budgets'[x]) + (committed[x] - committed'[x]) + (Hold(i, x) - Hold(i, x)')
  /\ Counted(t, x)' = Counted(t, x) + (reservedTotals'[x] - reservedTotals[x]) + (Hold(i, x) - Hold(i, x)')

\* A step of a thread that has nothing in hand: the balance moves with the grant.
TopUpStep(t, x) ==
  /\ \A u \in Threads : u # t => pc'[u] = pc[u] /\ local'[u] = local[u]
  /\ UNCHANGED reservations
  /\ InHand(t, x) = 0 /\ InHand(t, x)' = 0 /\ Counted(t, x) = 0 /\ Counted(t, x)' = 0
  /\ committed'[x] = committed[x] /\ reservedTotals'[x] = reservedTotals[x]
  /\ Granted(x)' = Granted(x) + (budgets'[x] - budgets[x])

\* The counters and the terms of the sums are integers, and a thread inside a call knows its
\* tenant and its amounts.
LedgerInt(x) ==
  /\ budgets[x] \in Int /\ committed[x] \in Int /\ reservedTotals[x] \in Int
  /\ initials[x] \in Int /\ Granted(x) \in Int
  /\ \A t \in Threads : InHand(t, x) \in Int /\ Counted(t, x) \in Int
  /\ \A i \in Ids : Hold(i, x) \in Int

CallFacts(t) ==
  /\ local[t].amount \in Int /\ local[t].actual \in Int
  /\ pc[t] # "idle" => /\ local[t].tenant \in Tenants
                       /\ [tenant |-> local[t].tenant, amount |-> local[t].amount] # None
  /\ pc[t] = "commit_debit" => local[t].actual > local[t].amount
  /\ pc[t] = "commit_refund" => local[t].actual < local[t].amount
  /\ pc[t] = "commit_write" => local[t].next = committed[local[t].tenant] + local[t].actual

LedgerShape ==
  /\ budgets \in [Tenants -> Int] /\ committed \in [Tenants -> Int]
  /\ reservedTotals \in [Tenants -> Int] /\ DOMAIN reservations = Ids

\* These facts hold before every step.
LEMMA StepFacts ==
  ASSUME TypeOK, LocalsConsistent
  PROVE  LedgerShape /\ (\A x \in Tenants : LedgerInt(x)) /\ (\A t \in Threads : CallFacts(t))
<1>1. ASSUME NEW x \in Tenants PROVE LedgerInt(x)
  BY Zenon, LedgerInts DEF LedgerInt
<1>2. ASSUME NEW t \in Threads PROVE CallFacts(t)
  <2>1. local[t].amount \in Int /\ local[t].actual \in Int /\ local[t].amount <= MaxI64
    BY ConstantsAssumption DEF TypeOK, Locals
  <2>2. pc[t] # "idle" => local[t].tenant \in Tenants /\ local[t].amount \in 1..MaxI64
    BY <2>1, ConstantsAssumption DEF TypeOK, LocalsConsistent
  <2>3. pc[t] # "idle" => [tenant |-> local[t].tenant, amount |-> local[t].amount] # None
    BY <2>2, NoneAssumption DEF Record
  <2> QED BY Zenon, <2>1, <2>2, <2>3 DEF LocalsConsistent, CallFacts
<1>3. LedgerShape
  BY ConstantsAssumption DEF TypeOK, Ledger, LedgerShape
<1> QED BY Zenon, <1>1, <1>2, <1>3

\* The lookup of a reservation moves no money.
LEMMA ReserveLookupMoves ==
  ASSUME TypeOK, LockOwners, LocalsConsistent, IdsUnique, NEW x \in Tenants,
         NEW t \in Threads, NEW y \in Tenants, NEW cost \in Amounts, ReserveLookup(t, y, cost)
  PROVE  CellStep(t, x)
<1>a. LedgerShape /\ LedgerInt(x) /\ CallFacts(t)
  BY Zenon, StepFacts
<1>i. /\ budgets[x] \in Int /\ committed[x] \in Int /\ reservedTotals[x] \in Int
      /\ local[t].amount \in Int /\ local[t].actual \in Int
  BY Zenon, <1>a DEF LedgerInt, CallFacts
<1>1. \A u \in Threads : u # t => pc'[u] = pc[u] /\ local'[u] = local[u]
  BY Zenon, GotoMoves, EnterMoves DEF ReserveLookup, Return
<1>3. UNCHANGED reservations
  BY Zenon DEF ReserveLookup, maps
<1>4. Granted(x)' = Granted(x)
  BY Zenon, <1>1, GrantedSame DEF ReserveLookup, maps, mutexes, LockOwners, ToppingUp
<1>5. /\ InHand(t, x)' = InHand(t, x) + (budgets[x] - budgets'[x]) + (committed[x] - committed'[x])
      /\ Counted(t, x)' = Counted(t, x) + (reservedTotals'[x] - reservedTotals[x])
  <2>1. pc[t] = "idle" /\ pc'[t] = "count"
    BY ZenonT(30), GotoMoves, EnterMoves DEF ReserveLookup, Return
  <2>2. /\ budgets'[x] = budgets[x]
       /\ committed'[x] = committed[x]
       /\ reservedTotals'[x] = reservedTotals[x]
    BY Zenon, <1>a, <2>1 DEF ReserveLookup, Add, maps, CallFacts, LedgerShape
  <2>6. /\ InHand(t, x) = 0
        /\ InHand(t, x)' = 0
    BY Zenon, <2>1 DEF InHand
  <2>8. /\ Counted(t, x) = 0
        /\ Counted(t, x)' = 0
    BY Zenon, <2>1 DEF Counted, Counting, Settling
  <2> QED BY <1>i, <2>2, <2>6, <2>8
<1> QED BY Zenon, <1>1, <1>3, <1>4, <1>5 DEF CellStep

\* A hold that is counted is counted by the thread that makes it.
LEMMA ReserveCountMoves ==
  ASSUME TypeOK, LockOwners, LocalsConsistent, IdsUnique, NEW x \in Tenants,
         NEW t \in Threads, ReserveCount(t)
  PROVE  CellStep(t, x)
<1>a. LedgerShape /\ LedgerInt(x) /\ CallFacts(t)
  BY Zenon, StepFacts
<1>i. /\ budgets[x] \in Int /\ committed[x] \in Int /\ reservedTotals[x] \in Int
      /\ local[t].amount \in Int /\ local[t].actual \in Int
  BY Zenon, <1>a DEF LedgerInt, CallFacts
<1>1. \A u \in Threads : u # t => pc'[u] = pc[u] /\ local'[u] = local[u]
  BY Zenon, GotoMoves, EnterMoves DEF ReserveCount, Return
<1>3. UNCHANGED reservations
  BY Zenon DEF ReserveCount, maps
<1>4. Granted(x)' = Granted(x)
  BY Zenon, <1>1, GrantedSame DEF ReserveCount, maps, mutexes, LockOwners, ToppingUp
<1>5. /\ InHand(t, x)' = InHand(t, x) + (budgets[x] - budgets'[x]) + (committed[x] - committed'[x])
      /\ Counted(t, x)' = Counted(t, x) + (reservedTotals'[x] - reservedTotals[x])
  <2>1. CASE Return(t) /\ UNCHANGED reservedTotals
    <3>1. pc[t] = "count" /\ pc'[t] = "idle"
      BY Zenon, <2>1, GotoMoves, EnterMoves DEF ReserveCount, Return
    <3>2. /\ budgets'[x] = budgets[x]
         /\ committed'[x] = committed[x]
         /\ reservedTotals'[x] = reservedTotals[x]
      BY Zenon, <2>1, <1>a, <3>1 DEF ReserveCount, Add, maps, CallFacts, LedgerShape
    <3>6. /\ InHand(t, x) = 0
          /\ InHand(t, x)' = 0
      BY Zenon, <3>1 DEF InHand
    <3>8. /\ Counted(t, x) = 0
          /\ Counted(t, x)' = 0
      BY Zenon, <3>1 DEF Counted, Counting, Settling
    <3> QED BY <1>i, <3>2, <3>6, <3>8
  <2>2. CASE Goto(t, "allocate") /\ reservedTotals' = Add(reservedTotals, local[t].tenant, local[t].amount)
    <3>1. pc[t] = "count" /\ pc'[t] = "allocate" /\ local'[t] = local[t]
      BY Zenon, <2>2, GotoMoves, EnterMoves DEF ReserveCount, Return
    <3>2. /\ budgets'[x] = budgets[x]
         /\ committed'[x] = committed[x]
         /\ reservedTotals'[x] = IF local[t].tenant = x THEN reservedTotals[x] + local[t].amount ELSE reservedTotals[x]
      BY Zenon, <2>2, <1>a, <3>1 DEF ReserveCount, Add, maps, CallFacts, LedgerShape
    <3>6. /\ InHand(t, x) = 0
          /\ InHand(t, x)' = 0
      BY Zenon, <3>1 DEF InHand
    <3>8. /\ Counted(t, x) = 0
          /\ Counted(t, x)' = IF local[t].tenant = x THEN local[t].amount ELSE 0
      BY Zenon, <3>1 DEF Counted, Counting, Settling
    <3> QED BY <1>i, <3>2, <3>6, <3>8
  <2> QED BY Zenon, <2>1, <2>2 DEF ReserveCount
<1> QED BY Zenon, <1>1, <1>3, <1>4, <1>5 DEF CellStep

\* A thread that allocates an id keeps what it has counted.
LEMMA ReserveAllocateMoves ==
  ASSUME TypeOK, LockOwners, LocalsConsistent, IdsUnique, NEW x \in Tenants,
         NEW t \in Threads, ReserveAllocate(t)
  PROVE  CellStep(t, x)
<1>a. LedgerShape /\ LedgerInt(x) /\ CallFacts(t)
  BY Zenon, StepFacts
<1>i. /\ budgets[x] \in Int /\ committed[x] \in Int /\ reservedTotals[x] \in Int
      /\ local[t].amount \in Int /\ local[t].actual \in Int
  BY Zenon, <1>a DEF LedgerInt, CallFacts
<1>1. \A u \in Threads : u # t => pc'[u] = pc[u] /\ local'[u] = local[u]
  BY Zenon, GotoMoves, EnterMoves DEF ReserveAllocate, Return
<1>3. UNCHANGED reservations
  BY Zenon DEF ReserveAllocate, maps
<1>4. Granted(x)' = Granted(x)
  BY Zenon, <1>1, GrantedSame DEF ReserveAllocate, maps, mutexes, LockOwners, ToppingUp
<1>5. /\ InHand(t, x)' = InHand(t, x) + (budgets[x] - budgets'[x]) + (committed[x] - committed'[x])
      /\ Counted(t, x)' = Counted(t, x) + (reservedTotals'[x] - reservedTotals[x])
  <2>1. CASE Enter(t, "debit", [local[t] EXCEPT !.id = nextId])
    <3>1. pc[t] = "allocate" /\ pc'[t] = "debit" /\ local'[t].tenant = local[t].tenant /\ local'[t].amount = local[t].amount
      BY <2>1, EnterMoves DEF ReserveAllocate, TypeOK, Locals
    <3>2. /\ budgets'[x] = budgets[x]
         /\ committed'[x] = committed[x]
         /\ reservedTotals'[x] = reservedTotals[x]
      BY Zenon, <2>1, <1>a, <3>1 DEF ReserveAllocate, Add, maps, CallFacts, LedgerShape
    <3>6. /\ InHand(t, x) = 0
          /\ InHand(t, x)' = 0
      BY Zenon, <3>1 DEF InHand
    <3>8. /\ Counted(t, x) = IF local[t].tenant = x THEN local[t].amount ELSE 0
          /\ Counted(t, x)' = IF local[t].tenant = x THEN local[t].amount ELSE 0
      BY Zenon, <3>1 DEF Counted, Counting, Settling
    <3> QED BY <1>i, <3>2, <3>6, <3>8
  <2>2. CASE Goto(t, "uncount")
    <3>1. pc[t] = "allocate" /\ pc'[t] = "uncount" /\ local'[t] = local[t]
      BY Zenon, <2>2, GotoMoves, EnterMoves DEF ReserveAllocate, Return
    <3>2. /\ budgets'[x] = budgets[x]
         /\ committed'[x] = committed[x]
         /\ reservedTotals'[x] = reservedTotals[x]
      BY Zenon, <2>2, <1>a, <3>1 DEF ReserveAllocate, Add, maps, CallFacts, LedgerShape
    <3>6. /\ InHand(t, x) = 0
          /\ InHand(t, x)' = 0
      BY Zenon, <3>1 DEF InHand
    <3>8. /\ Counted(t, x) = IF local[t].tenant = x THEN local[t].amount ELSE 0
          /\ Counted(t, x)' = IF local[t].tenant = x THEN local[t].amount ELSE 0
      BY Zenon, <3>1 DEF Counted, Counting, Settling
    <3> QED BY <1>i, <3>2, <3>6, <3>8
  <2> QED BY Zenon, <2>1, <2>2 DEF ReserveAllocate
<1> QED BY Zenon, <1>1, <1>3, <1>4, <1>5 DEF CellStep

\* What a reservation takes off the balance is in the hand of its thread.
LEMMA ReserveDebitMoves ==
  ASSUME TypeOK, LockOwners, LocalsConsistent, IdsUnique, NEW x \in Tenants,
         NEW t \in Threads, ReserveDebit(t)
  PROVE  CellStep(t, x)
<1>a. LedgerShape /\ LedgerInt(x) /\ CallFacts(t)
  BY Zenon, StepFacts
<1>i. /\ budgets[x] \in Int /\ committed[x] \in Int /\ reservedTotals[x] \in Int
      /\ local[t].amount \in Int /\ local[t].actual \in Int
  BY Zenon, <1>a DEF LedgerInt, CallFacts
<1>1. \A u \in Threads : u # t => pc'[u] = pc[u] /\ local'[u] = local[u]
  BY Zenon, GotoMoves, EnterMoves DEF ReserveDebit, Return
<1>3. UNCHANGED reservations
  BY Zenon DEF ReserveDebit, maps
<1>4. Granted(x)' = Granted(x)
  BY Zenon, <1>1, GrantedSame DEF ReserveDebit, maps, mutexes, LockOwners, ToppingUp
<1>5. /\ InHand(t, x)' = InHand(t, x) + (budgets[x] - budgets'[x]) + (committed[x] - committed'[x])
      /\ Counted(t, x)' = Counted(t, x) + (reservedTotals'[x] - reservedTotals[x])
  <2>1. CASE Goto(t, "uncount") /\ UNCHANGED budgets
    <3>1. pc[t] = "debit" /\ pc'[t] = "uncount" /\ local'[t] = local[t]
      BY Zenon, <2>1, GotoMoves, EnterMoves DEF ReserveDebit, Return
    <3>2. /\ budgets'[x] = budgets[x]
         /\ committed'[x] = committed[x]
         /\ reservedTotals'[x] = reservedTotals[x]
      BY Zenon, <2>1, <1>a, <3>1 DEF ReserveDebit, Add, maps, CallFacts, LedgerShape
    <3>6. /\ InHand(t, x) = 0
          /\ InHand(t, x)' = 0
      BY Zenon, <3>1 DEF InHand
    <3>8. /\ Counted(t, x) = IF local[t].tenant = x THEN local[t].amount ELSE 0
          /\ Counted(t, x)' = IF local[t].tenant = x THEN local[t].amount ELSE 0
      BY Zenon, <3>1 DEF Counted, Counting, Settling
    <3> QED BY <1>i, <3>2, <3>6, <3>8
  <2>2. CASE Goto(t, "insert") /\ budgets' = Add(budgets, local[t].tenant, -local[t].amount)
    <3>1. pc[t] = "debit" /\ pc'[t] = "insert" /\ local'[t] = local[t]
      BY Zenon, <2>2, GotoMoves, EnterMoves DEF ReserveDebit, Return
    <3>2. /\ budgets'[x] = IF local[t].tenant = x THEN budgets[x] - local[t].amount ELSE budgets[x]
         /\ committed'[x] = committed[x]
         /\ reservedTotals'[x] = reservedTotals[x]
      BY Zenon, <2>2, <1>a, <3>1 DEF ReserveDebit, Add, maps, CallFacts, LedgerShape
    <3>6. /\ InHand(t, x) = 0
          /\ InHand(t, x)' = IF local[t].tenant = x THEN local[t].amount ELSE 0
      BY Zenon, <3>1 DEF InHand
    <3>8. /\ Counted(t, x) = IF local[t].tenant = x THEN local[t].amount ELSE 0
          /\ Counted(t, x)' = IF local[t].tenant = x THEN local[t].amount ELSE 0
      BY Zenon, <3>1 DEF Counted, Counting, Settling
    <3> QED BY SMTT(20), ZenonT(60), <1>i, <3>2, <3>6, <3>8
  <2> QED BY Zenon, <2>1, <2>2 DEF ReserveDebit
<1> QED BY Zenon, <1>1, <1>3, <1>4, <1>5 DEF CellStep

\* A failed reservation gives back what it had counted.
LEMMA ReserveUncountMoves ==
  ASSUME TypeOK, LockOwners, LocalsConsistent, IdsUnique, NEW x \in Tenants,
         NEW t \in Threads, ReserveUncount(t)
  PROVE  CellStep(t, x)
<1>a. LedgerShape /\ LedgerInt(x) /\ CallFacts(t)
  BY Zenon, StepFacts
<1>i. /\ budgets[x] \in Int /\ committed[x] \in Int /\ reservedTotals[x] \in Int
      /\ local[t].amount \in Int /\ local[t].actual \in Int
  BY Zenon, <1>a DEF LedgerInt, CallFacts
<1>1. \A u \in Threads : u # t => pc'[u] = pc[u] /\ local'[u] = local[u]
  BY Zenon, GotoMoves, EnterMoves DEF ReserveUncount, Return
<1>3. UNCHANGED reservations
  BY Zenon DEF ReserveUncount, maps
<1>4. Granted(x)' = Granted(x)
  BY Zenon, <1>1, GrantedSame DEF ReserveUncount, maps, mutexes, LockOwners, ToppingUp
<1>5. /\ InHand(t, x)' = InHand(t, x) + (budgets[x] - budgets'[x]) + (committed[x] - committed'[x])
      /\ Counted(t, x)' = Counted(t, x) + (reservedTotals'[x] - reservedTotals[x])
  <2>1. pc[t] = "uncount" /\ pc'[t] = "idle"
    BY Zenon, GotoMoves, EnterMoves DEF ReserveUncount, Return
  <2>2. /\ budgets'[x] = budgets[x]
       /\ committed'[x] = committed[x]
       /\ reservedTotals'[x] = IF local[t].tenant = x THEN reservedTotals[x] - local[t].amount ELSE reservedTotals[x]
    BY Zenon, <1>a, <2>1 DEF ReserveUncount, Add, maps, CallFacts, LedgerShape
  <2>6. /\ InHand(t, x) = 0
        /\ InHand(t, x)' = 0
    BY Zenon, <2>1 DEF InHand
  <2>8. /\ Counted(t, x) = IF local[t].tenant = x THEN local[t].amount ELSE 0
        /\ Counted(t, x)' = 0
    BY Zenon, <2>1 DEF Counted, Counting, Settling
  <2> QED BY <1>i, <2>2, <2>6, <2>8
<1> QED BY Zenon, <1>1, <1>3, <1>4, <1>5 DEF CellStep

\* The record that is inserted holds what its thread had in hand and had counted.
LEMMA ReserveInsertMoves ==
  ASSUME TypeOK, LockOwners, LocalsConsistent, IdsUnique, NEW x \in Tenants,
         NEW t \in Threads, ReserveInsert(t)
  PROVE  \E i \in Ids : RecordStep(t, i, x)
<1>a. LedgerShape /\ LedgerInt(x) /\ CallFacts(t)
  BY Zenon, StepFacts
<1>i. /\ budgets[x] \in Int /\ committed[x] \in Int /\ reservedTotals[x] \in Int
      /\ local[t].amount \in Int /\ local[t].actual \in Int
  BY Zenon, <1>a DEF LedgerInt, CallFacts
<1>1. \A u \in Threads : u # t => pc'[u] = pc[u] /\ local'[u] = local[u]
  BY Zenon, GotoMoves, EnterMoves DEF ReserveInsert, Return
<1>h. PICK i \in Ids : i = local[t].id /\ reservations[i] = None
  BY Zenon DEF ReserveInsert, IdsUnique, Settling
<1>3. \A j \in Ids : j # i => reservations'[j] = reservations[j]
  BY Zenon, <1>a, <1>h DEF ReserveInsert, LedgerShape
<1>4. Granted(x)' = Granted(x)
  BY Zenon, <1>1, GrantedSame DEF ReserveInsert, maps, mutexes, LockOwners, ToppingUp
<1>5. /\ InHand(t, x)' = InHand(t, x) + (budgets[x] - budgets'[x]) + (committed[x] - committed'[x]) + (Hold(i, x) - Hold(i, x)')
      /\ Counted(t, x)' = Counted(t, x) + (reservedTotals'[x] - reservedTotals[x]) + (Hold(i, x) - Hold(i, x)')
  <2>1. pc[t] = "insert" /\ pc'[t] = "idle" /\ local[t].tenant \in Tenants
    BY Zenon, <1>a, GotoMoves, EnterMoves DEF ReserveInsert, Return, Enter, TypeOK, CallFacts
  <2>2. budgets' = budgets /\ committed' = committed /\ reservedTotals' = reservedTotals
    BY Zenon DEF ReserveInsert
  <2>3. reservations'[i] = [tenant |-> local[t].tenant, amount |-> local[t].amount]
    BY Zenon, <1>a, <1>h DEF ReserveInsert, LedgerShape
  <2>4. Hold(i, x) = 0 /\ Hold(i, x)' = IF local[t].tenant = x THEN local[t].amount ELSE 0
    BY SMTT(20), ZenonT(60), <1>a, <1>h, <2>1, <2>3 DEF Hold, CallFacts
  <2>5. /\ InHand(t, x) = Hold(i, x)' /\ Counted(t, x) = Hold(i, x)'
        /\ InHand(t, x)' = 0 /\ Counted(t, x)' = 0
    BY Zenon, <2>1, <2>4 DEF InHand, Counted, Counting, Settling
  <2> QED BY SMTT(20), ZenonT(60), <1>i, <2>2, <2>4, <2>5
<1> QED BY Zenon, <1>1, <1>3, <1>4, <1>5 DEF RecordStep

\* A commit takes over what the record it removes held.
LEMMA CommitTakeMoves ==
  ASSUME TypeOK, LockOwners, LocalsConsistent, IdsUnique, NEW x \in Tenants,
         NEW t \in Threads, NEW i \in Ids, NEW actual \in Amounts, CommitTake(t, i, actual)
  PROVE  RecordStep(t, i, x)
<1>a. LedgerShape /\ LedgerInt(x) /\ CallFacts(t)
  BY Zenon, StepFacts
<1>1. \A u \in Threads : u # t => pc'[u] = pc[u] /\ local'[u] = local[u]
  BY Zenon, GotoMoves, EnterMoves DEF CommitTake, Return
<1>3. \A j \in Ids : j # i => reservations'[j] = reservations[j]
  BY Zenon, <1>a DEF CommitTake, LedgerShape
<1>4. Granted(x)' = Granted(x)
  BY Zenon, <1>1, GrantedSame DEF CommitTake, maps, mutexes, LockOwners, ToppingUp
<1>5. /\ InHand(t, x)' = InHand(t, x) + (budgets[x] - budgets'[x]) + (committed[x] - committed'[x]) + (Hold(i, x) - Hold(i, x)')
      /\ Counted(t, x)' = Counted(t, x) + (reservedTotals'[x] - reservedTotals[x]) + (Hold(i, x) - Hold(i, x)')
  <2>1. reservations[i] # None /\ reservations[i].amount \in Int /\ reservations'[i] = None
    BY <1>a, ConstantsAssumption DEF CommitTake, TypeOK, Record, LedgerShape
  <2>2. /\ pc[t] = "idle" /\ pc'[t] \in {"commit_debit", "commit_write"}
        /\ local'[t].tenant = reservations[i].tenant /\ local'[t].amount = reservations[i].amount
        /\ pc'[t] = "commit_write" => ~(local'[t].actual > local'[t].amount)
    BY Zenon DEF CommitTake, Enter, Call, NoCall, TypeOK
  <2>3. budgets' = budgets /\ committed' = committed /\ reservedTotals' = reservedTotals
    BY Zenon DEF CommitTake
  <2>4. /\ Hold(i, x) = IF reservations[i].tenant = x THEN reservations[i].amount ELSE 0
        /\ Hold(i, x)' = 0
    BY Zenon, <2>1 DEF Hold
  <2>5. /\ InHand(t, x) = 0 /\ Counted(t, x) = 0
        /\ InHand(t, x)' = Hold(i, x) /\ Counted(t, x)' = Hold(i, x)
    BY Zenon, <2>1, <2>2, <2>4 DEF InHand, Counted, Counting, Settling
  <2>6. /\ Hold(i, x) = 0 + (budgets[x] - budgets[x]) + (committed[x] - committed[x]) + (Hold(i, x) - 0)
        /\ Hold(i, x) = 0 + (reservedTotals[x] - reservedTotals[x]) + (Hold(i, x) - 0)
    BY <1>a DEF LedgerInt
  <2> QED BY Zenon, <2>3, <2>4, <2>5, <2>6
<1> QED BY Zenon, <1>1, <1>3, <1>4, <1>5 DEF RecordStep

\* An overrun goes from the balance into the hand of the thread, or the record is put back.
LEMMA CommitDebitMoves ==
  ASSUME TypeOK, LockOwners, LocalsConsistent, IdsUnique, NEW x \in Tenants,
         NEW t \in Threads, CommitDebit(t)
  PROVE  \E i \in Ids : RecordStep(t, i, x)
<1>a. LedgerShape /\ LedgerInt(x) /\ CallFacts(t)
  BY Zenon, StepFacts
<1>i. /\ budgets[x] \in Int /\ committed[x] \in Int /\ reservedTotals[x] \in Int
      /\ local[t].amount \in Int /\ local[t].actual \in Int
  BY Zenon, <1>a DEF LedgerInt, CallFacts
<1>1. \A u \in Threads : u # t => pc'[u] = pc[u] /\ local'[u] = local[u]
  BY Zenon, GotoMoves, EnterMoves DEF CommitDebit, Return
<1>h. PICK i \in Ids : i = local[t].id /\ reservations[i] = None
  BY Zenon DEF CommitDebit, IdsUnique, Settling
<1>3. \A j \in Ids : j # i => reservations'[j] = reservations[j]
  BY Zenon, <1>a, <1>h DEF CommitDebit, LedgerShape
<1>4. Granted(x)' = Granted(x)
  BY Zenon, <1>1, GrantedSame DEF CommitDebit, maps, mutexes, LockOwners, ToppingUp
<1>5. /\ InHand(t, x)' = InHand(t, x) + (budgets[x] - budgets'[x]) + (committed[x] - committed'[x]) + (Hold(i, x) - Hold(i, x)')
      /\ Counted(t, x)' = Counted(t, x) + (reservedTotals'[x] - reservedTotals[x]) + (Hold(i, x) - Hold(i, x)')
  <2>1. CASE Return(t) /\ UNCHANGED budgets /\ reservations' = [reservations EXCEPT ![local[t].id] = [tenant |-> local[t].tenant, amount |-> local[t].amount]]
    <3>1. pc[t] = "commit_debit" /\ pc'[t] = "idle"
      BY Zenon, <2>1, GotoMoves, EnterMoves DEF CommitDebit, Return
    <3>2. /\ budgets'[x] = budgets[x]
         /\ committed'[x] = committed[x]
         /\ reservedTotals'[x] = reservedTotals[x]
      BY Zenon, <2>1, <1>a, <3>1 DEF CommitDebit, Add, maps, CallFacts, LedgerShape
    <3>4. reservations'[i] = [tenant |-> local[t].tenant, amount |-> local[t].amount]
      BY Zenon, <2>1, <1>a, <1>h DEF CommitDebit, LedgerShape
    <3>3. Hold(i, x) = 0 /\ Hold(i, x)' = IF local[t].tenant = x THEN local[t].amount ELSE 0
      BY SMTT(20), ZenonT(60), <1>a, <1>h, <3>1, <3>4 DEF Hold, CallFacts
    <3>5. /\ InHand(t, x) = Hold(i, x)' /\ Counted(t, x) = Hold(i, x)'
          /\ InHand(t, x)' = 0 /\ Counted(t, x)' = 0
      BY Zenon, <3>1, <3>3 DEF InHand, Counted, Counting, Settling
    <3>6. Hold(i, x)' \in Int
      BY <1>i, <3>3
    <3>7. /\ 0 = Hold(i, x)' + (budgets[x] - budgets[x]) + (committed[x] - committed[x]) + (0 - Hold(i, x)')
          /\ 0 = Hold(i, x)' + (reservedTotals[x] - reservedTotals[x]) + (0 - Hold(i, x)')
      BY <1>i, <3>6
    <3> QED BY Zenon, <3>2, <3>3, <3>5, <3>7
  <2>2. CASE Goto(t, "commit_write") /\ budgets' = Add(budgets, local[t].tenant, -(local[t].actual - local[t].amount)) /\ UNCHANGED reservations
    <3>1. pc[t] = "commit_debit" /\ pc'[t] = "commit_write" /\ local'[t] = local[t]
      BY Zenon, <2>2, GotoMoves, EnterMoves DEF CommitDebit, Return
    <3>2. /\ budgets'[x] = IF local[t].tenant = x THEN budgets[x] - (local[t].actual - local[t].amount) ELSE budgets[x]
         /\ committed'[x] = committed[x]
         /\ reservedTotals'[x] = reservedTotals[x]
      BY Zenon, <2>2, <1>a, <3>1 DEF CommitDebit, Add, maps, CallFacts, LedgerShape
    <3>3. Hold(i, x) = 0 /\ Hold(i, x)' = 0
      BY Zenon, <2>2, <1>h DEF Hold
    <3>6. /\ InHand(t, x) = IF local[t].tenant = x THEN local[t].amount ELSE 0
          /\ InHand(t, x)' = IF local[t].tenant = x THEN (IF local[t].actual > local[t].amount THEN local[t].actual ELSE local[t].amount) ELSE 0
      BY Zenon, <3>1 DEF InHand
    <3>8. /\ Counted(t, x) = IF local[t].tenant = x THEN local[t].amount ELSE 0
          /\ Counted(t, x)' = IF local[t].tenant = x THEN local[t].amount ELSE 0
      BY Zenon, <3>1 DEF Counted, Counting, Settling
    <3>9. local[t].actual > local[t].amount
      BY Zenon, <1>a, <3>1 DEF CallFacts
    <3>10. CASE local[t].tenant = x
      <4>1. /\ InHand(t, x) = local[t].amount /\ InHand(t, x)' = local[t].actual
            /\ Counted(t, x) = local[t].amount /\ Counted(t, x)' = local[t].amount
            /\ budgets'[x] = budgets[x] - (local[t].actual - local[t].amount)
        BY Zenon, <3>2, <3>6, <3>8, <3>9, <3>10
      <4>2. /\ local[t].actual = local[t].amount + (budgets[x] - (budgets[x] - (local[t].actual - local[t].amount)))
                                 + (committed[x] - committed[x]) + (0 - 0)
            /\ local[t].amount = local[t].amount + (reservedTotals[x] - reservedTotals[x]) + (0 - 0)
        BY SMTT(20), ZenonT(60), <1>i
      <4> QED BY Zenon, <3>2, <3>3, <4>1, <4>2
    <3>11. CASE local[t].tenant # x
      <4>1. /\ InHand(t, x) = 0 /\ InHand(t, x)' = 0 /\ Counted(t, x) = 0 /\ Counted(t, x)' = 0
            /\ budgets'[x] = budgets[x]
        BY Zenon, <3>2, <3>6, <3>8, <3>11
      <4>2. /\ 0 = 0 + (budgets[x] - budgets[x]) + (committed[x] - committed[x]) + (0 - 0)
            /\ 0 = 0 + (reservedTotals[x] - reservedTotals[x]) + (0 - 0)
        BY <1>i
      <4> QED BY Zenon, <3>2, <3>3, <4>1, <4>2
    <3> QED BY Zenon, <3>10, <3>11
  <2> QED BY Zenon, <2>1, <2>2 DEF CommitDebit
<1> QED BY Zenon, <1>1, <1>3, <1>4, <1>5 DEF RecordStep

\* The spend goes from the hand of the thread into the lifetime total.
LEMMA CommitWriteMoves ==
  ASSUME TypeOK, LockOwners, LocalsConsistent, IdsUnique, NEW x \in Tenants,
         NEW t \in Threads, CommitWrite(t)
  PROVE  CellStep(t, x)
<1>a. LedgerShape /\ LedgerInt(x) /\ CallFacts(t)
  BY Zenon, StepFacts
<1>i. /\ budgets[x] \in Int /\ committed[x] \in Int /\ reservedTotals[x] \in Int
      /\ local[t].amount \in Int /\ local[t].actual \in Int
  BY Zenon, <1>a DEF LedgerInt, CallFacts
<1>1. \A u \in Threads : u # t => pc'[u] = pc[u] /\ local'[u] = local[u]
  BY Zenon, GotoMoves, EnterMoves DEF CommitWrite, Return
<1>3. UNCHANGED reservations
  BY Zenon DEF CommitWrite, maps
<1>4. Granted(x)' = Granted(x)
  BY Zenon, <1>1, GrantedSame DEF CommitWrite, maps, mutexes, LockOwners, ToppingUp
<1>5. /\ InHand(t, x)' = InHand(t, x) + (budgets[x] - budgets'[x]) + (committed[x] - committed'[x])
      /\ Counted(t, x)' = Counted(t, x) + (reservedTotals'[x] - reservedTotals[x])
  <2>1. /\ pc[t] = "commit_write" /\ local'[t] = local[t]
        /\ pc'[t] = IF local[t].actual < local[t].amount THEN "commit_refund" ELSE "commit_uncount"
    BY Zenon DEF CommitWrite, Goto, TypeOK
  <2>2. /\ committed' = [committed EXCEPT ![local[t].tenant] = local[t].next]
        /\ budgets' = budgets /\ reservedTotals' = reservedTotals
    BY Zenon DEF CommitWrite
  <2>3. local[t].tenant \in Tenants /\ local[t].next = committed[local[t].tenant] + local[t].actual
    BY Zenon, <1>a, <2>1 DEF CallFacts
  <2>4. CASE local[t].tenant = x
    <3>1. committed'[x] = committed[x] + local[t].actual
      BY Zenon, <1>a, <2>2, <2>3, <2>4 DEF LedgerShape
    <3>2. /\ InHand(t, x) = IF local[t].actual > local[t].amount THEN local[t].actual ELSE local[t].amount
          /\ InHand(t, x)' = IF local[t].actual < local[t].amount THEN local[t].amount - local[t].actual ELSE 0
      BY Zenon, <2>1, <2>4 DEF InHand
    <3>3. Counted(t, x)' = Counted(t, x)
      BY Zenon, <2>1, <2>4 DEF Counted, Counting, Settling
    <3>4. InHand(t, x)' = InHand(t, x) - local[t].actual
      BY SMTT(20), ZenonT(60), <1>a, <2>1, <3>2 DEF CallFacts
    <3>5. InHand(t, x) \in Int /\ Counted(t, x) \in Int
      BY Zenon, <1>a DEF LedgerInt
    <3>6. /\ InHand(t, x) - local[t].actual
             = InHand(t, x) + (budgets[x] - budgets[x]) + (committed[x] - (committed[x] + local[t].actual))
          /\ Counted(t, x) = Counted(t, x) + (reservedTotals[x] - reservedTotals[x])
      BY SMTT(20), ZenonT(60), <1>i, <3>5
    <3> QED BY Zenon, <2>2, <3>1, <3>3, <3>4, <3>6
  <2>5. CASE local[t].tenant # x
    <3>1. committed'[x] = committed[x]
      BY Zenon, <1>a, <2>2, <2>3, <2>5 DEF LedgerShape
    <3>2. InHand(t, x) = 0 /\ InHand(t, x)' = 0 /\ Counted(t, x) = 0 /\ Counted(t, x)' = 0
      BY Zenon, <2>1, <2>5 DEF InHand, Counted
    <3> QED BY SMTT(20), ZenonT(60), <1>i, <2>2, <3>1, <3>2
  <2> QED BY Zenon, <2>4, <2>5
<1> QED BY Zenon, <1>1, <1>3, <1>4, <1>5 DEF CellStep

\* A refund goes from the hand of the thread to the balance.
LEMMA CommitRefundMoves ==
  ASSUME TypeOK, LockOwners, LocalsConsistent, IdsUnique, NEW x \in Tenants,
         NEW t \in Threads, CommitRefund(t)
  PROVE  CellStep(t, x)
<1>a. LedgerShape /\ LedgerInt(x) /\ CallFacts(t)
  BY Zenon, StepFacts
<1>i. /\ budgets[x] \in Int /\ committed[x] \in Int /\ reservedTotals[x] \in Int
      /\ local[t].amount \in Int /\ local[t].actual \in Int
  BY Zenon, <1>a DEF LedgerInt, CallFacts
<1>1. \A u \in Threads : u # t => pc'[u] = pc[u] /\ local'[u] = local[u]
  BY Zenon, GotoMoves, EnterMoves DEF CommitRefund, Return
<1>3. UNCHANGED reservations
  BY Zenon DEF CommitRefund, maps
<1>4. Granted(x)' = Granted(x)
  BY Zenon, <1>1, GrantedSame DEF CommitRefund, maps, mutexes, LockOwners, ToppingUp
<1>5. /\ InHand(t, x)' = InHand(t, x) + (budgets[x] - budgets'[x]) + (committed[x] - committed'[x])
      /\ Counted(t, x)' = Counted(t, x) + (reservedTotals'[x] - reservedTotals[x])
  <2>1. pc[t] = "commit_refund" /\ pc'[t] = "commit_uncount" /\ local'[t] = local[t]
    BY Zenon, GotoMoves, EnterMoves DEF CommitRefund, Return
  <2>2. /\ budgets'[x] = IF local[t].tenant = x THEN budgets[x] + (local[t].amount - local[t].actual) ELSE budgets[x]
       /\ committed'[x] = committed[x]
       /\ reservedTotals'[x] = reservedTotals[x]
    BY Zenon, <1>a, <2>1 DEF CommitRefund, Add, maps, CallFacts, LedgerShape
  <2>6. /\ InHand(t, x) = IF local[t].tenant = x THEN local[t].amount - local[t].actual ELSE 0
        /\ InHand(t, x)' = 0
    BY Zenon, <2>1 DEF InHand
  <2>8. /\ Counted(t, x) = IF local[t].tenant = x THEN local[t].amount ELSE 0
        /\ Counted(t, x)' = IF local[t].tenant = x THEN local[t].amount ELSE 0
    BY Zenon, <2>1 DEF Counted, Counting, Settling
  <2> QED BY SMTT(20), ZenonT(60), <1>i, <2>2, <2>6, <2>8
<1> QED BY Zenon, <1>1, <1>3, <1>4, <1>5 DEF CellStep

\* A finished commit gives back what it had counted.
LEMMA CommitUncountMoves ==
  ASSUME TypeOK, LockOwners, LocalsConsistent, IdsUnique, NEW x \in Tenants,
         NEW t \in Threads, CommitUncount(t)
  PROVE  CellStep(t, x)
<1>a. LedgerShape /\ LedgerInt(x) /\ CallFacts(t)
  BY Zenon, StepFacts
<1>i. /\ budgets[x] \in Int /\ committed[x] \in Int /\ reservedTotals[x] \in Int
      /\ local[t].amount \in Int /\ local[t].actual \in Int
  BY Zenon, <1>a DEF LedgerInt, CallFacts
<1>1. \A u \in Threads : u # t => pc'[u] = pc[u] /\ local'[u] = local[u]
  BY Zenon, GotoMoves, EnterMoves DEF CommitUncount, Return
<1>3. UNCHANGED reservations
  BY Zenon DEF CommitUncount, maps
<1>4. Granted(x)' = Granted(x)
  BY Zenon, <1>1, GrantedSame DEF CommitUncount, maps, mutexes, LockOwners, ToppingUp
<1>5. /\ InHand(t, x)' = InHand(t, x) + (budgets[x] - budgets'[x]) + (committed[x] - committed'[x])
      /\ Counted(t, x)' = Counted(t, x) + (reservedTotals'[x] - reservedTotals[x])
  <2>1. pc[t] = "commit_uncount" /\ pc'[t] = "idle"
    BY Zenon, GotoMoves, EnterMoves DEF CommitUncount, Return
  <2>2. /\ budgets'[x] = budgets[x]
       /\ committed'[x] = committed[x]
       /\ reservedTotals'[x] = IF local[t].tenant = x THEN reservedTotals[x] - local[t].amount ELSE reservedTotals[x]
    BY Zenon, <1>a, <2>1 DEF CommitUncount, Add, maps, CallFacts, LedgerShape
  <2>6. /\ InHand(t, x) = 0
        /\ InHand(t, x)' = 0
    BY Zenon, <2>1 DEF InHand
  <2>8. /\ Counted(t, x) = IF local[t].tenant = x THEN local[t].amount ELSE 0
        /\ Counted(t, x)' = 0
    BY Zenon, <2>1 DEF Counted, Counting, Settling
  <2> QED BY <1>i, <2>2, <2>6, <2>8
<1> QED BY Zenon, <1>1, <1>3, <1>4, <1>5 DEF CellStep

\* A release takes over what the record it removes held.
LEMMA ReleaseTakeMoves ==
  ASSUME TypeOK, LockOwners, LocalsConsistent, IdsUnique, NEW x \in Tenants,
         NEW t \in Threads, NEW i \in Ids, ReleaseTake(t, i)
  PROVE  RecordStep(t, i, x)
<1>a. LedgerShape /\ LedgerInt(x) /\ CallFacts(t)
  BY Zenon, StepFacts
<1>1. \A u \in Threads : u # t => pc'[u] = pc[u] /\ local'[u] = local[u]
  BY Zenon, GotoMoves, EnterMoves DEF ReleaseTake, Return
<1>3. \A j \in Ids : j # i => reservations'[j] = reservations[j]
  BY Zenon, <1>a DEF ReleaseTake, LedgerShape
<1>4. Granted(x)' = Granted(x)
  BY Zenon, <1>1, GrantedSame DEF ReleaseTake, maps, mutexes, LockOwners, ToppingUp
<1>5. /\ InHand(t, x)' = InHand(t, x) + (budgets[x] - budgets'[x]) + (committed[x] - committed'[x]) + (Hold(i, x) - Hold(i, x)')
      /\ Counted(t, x)' = Counted(t, x) + (reservedTotals'[x] - reservedTotals[x]) + (Hold(i, x) - Hold(i, x)')
  <2>1. reservations[i] # None /\ reservations[i].amount \in Int /\ reservations'[i] = None
    BY <1>a, ConstantsAssumption DEF ReleaseTake, TypeOK, Record, LedgerShape
  <2>2. /\ pc[t] = "idle" /\ pc'[t] \in {"release_uncount"}
        /\ local'[t].tenant = reservations[i].tenant /\ local'[t].amount = reservations[i].amount
    BY Zenon DEF ReleaseTake, Enter, Call, NoCall, TypeOK
  <2>3. budgets' = budgets /\ committed' = committed /\ reservedTotals' = reservedTotals
    BY Zenon DEF ReleaseTake
  <2>4. /\ Hold(i, x) = IF reservations[i].tenant = x THEN reservations[i].amount ELSE 0
        /\ Hold(i, x)' = 0
    BY Zenon, <2>1 DEF Hold
  <2>5. /\ InHand(t, x) = 0 /\ Counted(t, x) = 0
        /\ InHand(t, x)' = Hold(i, x) /\ Counted(t, x)' = Hold(i, x)
    BY Zenon, <2>1, <2>2, <2>4 DEF InHand, Counted, Counting, Settling
  <2>6. /\ Hold(i, x) = 0 + (budgets[x] - budgets[x]) + (committed[x] - committed[x]) + (Hold(i, x) - 0)
        /\ Hold(i, x) = 0 + (reservedTotals[x] - reservedTotals[x]) + (Hold(i, x) - 0)
    BY <1>a DEF LedgerInt
  <2> QED BY Zenon, <2>3, <2>4, <2>5, <2>6
<1> QED BY Zenon, <1>1, <1>3, <1>4, <1>5 DEF RecordStep

\* A release gives back what was counted, and keeps the money in hand.
LEMMA ReleaseUncountMoves ==
  ASSUME TypeOK, LockOwners, LocalsConsistent, IdsUnique, NEW x \in Tenants,
         NEW t \in Threads, ReleaseUncount(t)
  PROVE  CellStep(t, x)
<1>a. LedgerShape /\ LedgerInt(x) /\ CallFacts(t)
  BY Zenon, StepFacts
<1>i. /\ budgets[x] \in Int /\ committed[x] \in Int /\ reservedTotals[x] \in Int
      /\ local[t].amount \in Int /\ local[t].actual \in Int
  BY Zenon, <1>a DEF LedgerInt, CallFacts
<1>1. \A u \in Threads : u # t => pc'[u] = pc[u] /\ local'[u] = local[u]
  BY Zenon, GotoMoves, EnterMoves DEF ReleaseUncount, Return
<1>3. UNCHANGED reservations
  BY Zenon DEF ReleaseUncount, maps
<1>4. Granted(x)' = Granted(x)
  BY Zenon, <1>1, GrantedSame DEF ReleaseUncount, maps, mutexes, LockOwners, ToppingUp
<1>5. /\ InHand(t, x)' = InHand(t, x) + (budgets[x] - budgets'[x]) + (committed[x] - committed'[x])
      /\ Counted(t, x)' = Counted(t, x) + (reservedTotals'[x] - reservedTotals[x])
  <2>1. pc[t] = "release_uncount" /\ pc'[t] = "release_credit" /\ local'[t] = local[t]
    BY Zenon, GotoMoves, EnterMoves DEF ReleaseUncount, Return
  <2>2. /\ budgets'[x] = budgets[x]
       /\ committed'[x] = committed[x]
       /\ reservedTotals'[x] = IF local[t].tenant = x THEN reservedTotals[x] - local[t].amount ELSE reservedTotals[x]
    BY Zenon, <1>a, <2>1 DEF ReleaseUncount, Add, maps, CallFacts, LedgerShape
  <2>6. /\ InHand(t, x) = IF local[t].tenant = x THEN local[t].amount ELSE 0
        /\ InHand(t, x)' = IF local[t].tenant = x THEN local[t].amount ELSE 0
    BY Zenon, <2>1 DEF InHand
  <2>8. /\ Counted(t, x) = IF local[t].tenant = x THEN local[t].amount ELSE 0
        /\ Counted(t, x)' = 0
    BY Zenon, <2>1 DEF Counted, Counting, Settling
  <2> QED BY SMTT(20), ZenonT(60), <1>i, <2>2, <2>6, <2>8
<1> QED BY Zenon, <1>1, <1>3, <1>4, <1>5 DEF CellStep

\* A release returns the money in hand to the balance.
LEMMA ReleaseCreditMoves ==
  ASSUME TypeOK, LockOwners, LocalsConsistent, IdsUnique, NEW x \in Tenants,
         NEW t \in Threads, ReleaseCredit(t)
  PROVE  CellStep(t, x)
<1>a. LedgerShape /\ LedgerInt(x) /\ CallFacts(t)
  BY Zenon, StepFacts
<1>i. /\ budgets[x] \in Int /\ committed[x] \in Int /\ reservedTotals[x] \in Int
      /\ local[t].amount \in Int /\ local[t].actual \in Int
  BY Zenon, <1>a DEF LedgerInt, CallFacts
<1>1. \A u \in Threads : u # t => pc'[u] = pc[u] /\ local'[u] = local[u]
  BY Zenon, GotoMoves, EnterMoves DEF ReleaseCredit, Return
<1>3. UNCHANGED reservations
  BY Zenon DEF ReleaseCredit, maps
<1>4. Granted(x)' = Granted(x)
  BY Zenon, <1>1, GrantedSame DEF ReleaseCredit, maps, mutexes, LockOwners, ToppingUp
<1>5. /\ InHand(t, x)' = InHand(t, x) + (budgets[x] - budgets'[x]) + (committed[x] - committed'[x])
      /\ Counted(t, x)' = Counted(t, x) + (reservedTotals'[x] - reservedTotals[x])
  <2>1. pc[t] = "release_credit" /\ pc'[t] = "idle"
    BY Zenon, GotoMoves, EnterMoves DEF ReleaseCredit, Return
  <2>2. /\ budgets'[x] = IF local[t].tenant = x THEN budgets[x] + local[t].amount ELSE budgets[x]
       /\ committed'[x] = committed[x]
       /\ reservedTotals'[x] = reservedTotals[x]
    BY Zenon, <1>a, <2>1 DEF ReleaseCredit, Add, maps, CallFacts, LedgerShape
  <2>6. /\ InHand(t, x) = IF local[t].tenant = x THEN local[t].amount ELSE 0
        /\ InHand(t, x)' = 0
    BY Zenon, <2>1 DEF InHand
  <2>8. /\ Counted(t, x) = 0
        /\ Counted(t, x)' = 0
    BY Zenon, <2>1 DEF Counted, Counting, Settling
  <2> QED BY SMTT(20), ZenonT(60), <1>i, <2>2, <2>6, <2>8
<1> QED BY Zenon, <1>1, <1>3, <1>4, <1>5 DEF CellStep

\* Taking the mutex of the grants grants nothing.
LEMMA TopUpLockMoves ==
  ASSUME TypeOK, LockOwners, LocalsConsistent, IdsUnique, NEW x \in Tenants,
         NEW t \in Threads, NEW y \in Tenants, NEW amount \in Amounts, TopUpLock(t, y, amount)
  PROVE  TopUpStep(t, x)
<1>a. LedgerShape /\ LedgerInt(x) /\ CallFacts(t)
  BY Zenon, StepFacts
<1>1. \A u \in Threads : u # t => pc'[u] = pc[u] /\ local'[u] = local[u]
  BY Zenon, GotoMoves, EnterMoves DEF TopUpLock, Return
<1>3. UNCHANGED reservations
  BY Zenon DEF TopUpLock, maps
<1>4. InHand(t, x) = 0 /\ InHand(t, x)' = 0 /\ Counted(t, x) = 0 /\ Counted(t, x)' = 0
  <2>1. pc[t] = "idle" /\ pc'[t] = "topup_credit"
    BY ZenonT(30), GotoMoves, EnterMoves DEF TopUpLock, Return
  <2> QED BY Zenon, <2>1 DEF InHand, Counted, Counting, Settling
<1>5. committed'[x] = committed[x] /\ reservedTotals'[x] = reservedTotals[x]
  BY Zenon DEF TopUpLock, maps
<1>6. Granted(x)' = Granted(x) + (budgets'[x] - budgets[x])
  <2>1. budgets' = budgets /\ initials' = initials /\ initialsLock = 0 /\ initialsLock' = t
    BY Zenon DEF TopUpLock, maps
  <2>2. pc'[t] = "topup_credit" /\ t # 0
    BY DEF TopUpLock, Enter, TypeOK, Threads
  <2>3. Granted(x)' = Granted(x)
    BY Zenon, <2>1, <2>2 DEF Granted
  <2>4. Granted(x) = Granted(x) + (budgets[x] - budgets[x])
    BY <1>a DEF LedgerInt
  <2> QED BY Zenon, <2>1, <2>3, <2>4
<1> QED BY Zenon, <1>1, <1>3, <1>4, <1>5, <1>6 DEF TopUpStep

\* A credit raises the balance and the grant alike.
LEMMA TopUpCreditMoves ==
  ASSUME TypeOK, LockOwners, LocalsConsistent, IdsUnique, NEW x \in Tenants,
         NEW t \in Threads, TopUpCredit(t)
  PROVE  TopUpStep(t, x)
<1>a. LedgerShape /\ LedgerInt(x) /\ CallFacts(t)
  BY Zenon, StepFacts
<1>i. /\ budgets[x] \in Int /\ committed[x] \in Int /\ reservedTotals[x] \in Int
      /\ local[t].amount \in Int /\ local[t].actual \in Int
  BY Zenon, <1>a DEF LedgerInt, CallFacts
<1>1. \A u \in Threads : u # t => pc'[u] = pc[u] /\ local'[u] = local[u]
  BY Zenon, GotoMoves, EnterMoves DEF TopUpCredit, Return
<1>3. UNCHANGED reservations
  BY Zenon DEF TopUpCredit, maps
<1>4. InHand(t, x) = 0 /\ InHand(t, x)' = 0 /\ Counted(t, x) = 0 /\ Counted(t, x)' = 0
  <2>1. pc[t] = "topup_credit" /\ pc'[t] \in {"topup_write", "idle"}
    BY Zenon, GotoMoves, EnterMoves DEF TopUpCredit, Return
  <2> QED BY Zenon, <2>1 DEF InHand, Counted, Counting, Settling
<1>5. committed'[x] = committed[x] /\ reservedTotals'[x] = reservedTotals[x]
  BY Zenon DEF TopUpCredit, maps
<1>6. Granted(x)' = Granted(x) + (budgets'[x] - budgets[x])
  <2>1. pc[t] = "topup_credit" /\ initialsLock = t /\ t # 0 /\ initials' = initials
    <3>1. pc[t] = "topup_credit" /\ initials' = initials
      BY Zenon DEF TopUpCredit, maps
    <3>2. initialsLock = t
      BY Zenon, <3>1 DEF LockOwners, ToppingUp
    <3> QED BY <3>1, <3>2, ConstantsAssumption DEF Threads
  <2>2. local[t].next = initials[local[t].tenant] + local[t].amount /\ local[t].tenant \in Tenants
    BY Zenon, <1>a, <2>1 DEF LocalsConsistent, ToppingUp, CallFacts
  <2>3. Granted(x) = initials[x]
    BY Zenon, <2>1 DEF Granted
  <2>4. CASE initialsLock' = 0 /\ budgets' = budgets
    <3>1. Granted(x)' = initials[x]
      BY Zenon, <2>1, <2>4 DEF Granted
    <3> QED BY <1>a, <2>3, <2>4, <3>1 DEF LedgerInt, LedgerShape
  <2>5. CASE /\ budgets' = Add(budgets, local[t].tenant, local[t].amount)
             /\ Goto(t, "topup_write") /\ initialsLock' = initialsLock
    <3>1. pc'[t] = "topup_write" /\ local' = local
      BY Zenon, <2>5 DEF Goto, TypeOK
    <3>2. Granted(x)' = IF local[t].tenant = x THEN local[t].next ELSE initials[x]
      BY Zenon, <2>1, <2>5, <3>1 DEF Granted
    <3>3. budgets'[x] = IF local[t].tenant = x THEN budgets[x] + local[t].amount ELSE budgets[x]
      BY Zenon, <1>a, <2>2, <2>5 DEF Add, CallFacts, LedgerShape
    <3>4. initials[x] \in Int
      BY Zenon, <1>a DEF LedgerInt
    <3>5. CASE local[t].tenant = x
      <4>1. Granted(x)' = initials[x] + local[t].amount /\ budgets'[x] = budgets[x] + local[t].amount
        BY Zenon, <2>2, <3>2, <3>3, <3>5
      <4>2. initials[x] + local[t].amount = initials[x] + ((budgets[x] + local[t].amount) - budgets[x])
        BY <1>i, <3>4
      <4> QED BY Zenon, <2>3, <4>1, <4>2
    <3>6. CASE local[t].tenant # x
      <4>1. Granted(x)' = initials[x] /\ budgets'[x] = budgets[x]
        BY Zenon, <3>2, <3>3, <3>6
      <4>2. initials[x] = initials[x] + (budgets[x] - budgets[x])
        BY <1>i, <3>4
      <4> QED BY Zenon, <2>3, <4>1, <4>2
    <3> QED BY Zenon, <3>5, <3>6
  <2> QED BY Zenon, <2>4, <2>5 DEF TopUpCredit
<1> QED BY Zenon, <1>1, <1>3, <1>4, <1>5, <1>6 DEF TopUpStep

\* Recording the grant changes neither it nor the balance.
LEMMA TopUpWriteMoves ==
  ASSUME TypeOK, LockOwners, LocalsConsistent, IdsUnique, NEW x \in Tenants,
         NEW t \in Threads, TopUpWrite(t)
  PROVE  TopUpStep(t, x)
<1>a. LedgerShape /\ LedgerInt(x) /\ CallFacts(t)
  BY Zenon, StepFacts
<1>1. \A u \in Threads : u # t => pc'[u] = pc[u] /\ local'[u] = local[u]
  BY Zenon, GotoMoves, EnterMoves DEF TopUpWrite, Return
<1>3. UNCHANGED reservations
  BY Zenon DEF TopUpWrite, maps
<1>4. InHand(t, x) = 0 /\ InHand(t, x)' = 0 /\ Counted(t, x) = 0 /\ Counted(t, x)' = 0
  <2>1. pc[t] = "topup_write" /\ pc'[t] = "idle"
    BY Zenon, GotoMoves, EnterMoves DEF TopUpWrite, Return
  <2> QED BY Zenon, <2>1 DEF InHand, Counted, Counting, Settling
<1>5. committed'[x] = committed[x] /\ reservedTotals'[x] = reservedTotals[x]
  BY Zenon DEF TopUpWrite, maps
<1>6. Granted(x)' = Granted(x) + (budgets'[x] - budgets[x])
  <2>1. pc[t] = "topup_write" /\ initialsLock = t /\ t # 0 /\ initialsLock' = 0 /\ budgets' = budgets
    BY DEF TopUpWrite, LockOwners, ToppingUp, Threads
  <2>2. initials'[x] = IF local[t].tenant = x THEN local[t].next ELSE initials[x]
    BY Zenon DEF TopUpWrite, TypeOK, Ledger
  <2>3. Granted(x)' = Granted(x)
    BY Zenon, <2>1, <2>2 DEF Granted
  <2>4. Granted(x) = Granted(x) + (budgets[x] - budgets[x])
    BY <1>a DEF LedgerInt
  <2> QED BY Zenon, <2>1, <2>3, <2>4
<1> QED BY Zenon, <1>1, <1>3, <1>4, <1>5, <1>6 DEF TopUpStep

-----------------------------------------------------------------------------
(***************************************************************************)
(* The cap and the range of the counters                                   *)
(***************************************************************************)

\* A step of a thread that is not making a reservation, and raises no reserved total, leaves
\* the reservations being made within the cap they have seen.
LEMMA LimitsKept ==
  ASSUME TypeOK, HeldTenantsExist, LimitsObserved, UNCHANGED limits, NEW t \in Threads,
         pc'[t] \notin {"count", "allocate", "debit"},
         \A u \in Threads : u # t => pc'[u] = pc[u] /\ local'[u] = local[u],
         \A y \in Tenants : reservedTotals'[y] \in Int /\ reservedTotals'[y] <= reservedTotals[y]
  PROVE  LimitsObserved'
<1> SUFFICES ASSUME NEW u \in Threads
             PROVE  /\ pc'[u] = "count" => local'[u].max = limits[local'[u].tenant]
                    /\ (pc'[u] \in {"allocate", "debit"} /\ limits[local'[u].tenant] > 0)
                         => reservedTotals'[local'[u].tenant] <= limits[local'[u].tenant]
  BY Zenon DEF LimitsObserved
<1>1. CASE u = t
  BY Zenon, <1>1
<1>2. CASE u # t
  <2>1. pc'[u] = pc[u] /\ local'[u] = local[u]
    BY Zenon, <1>2
  <2>2. pc[u] = "count" => local[u].max = limits[local[u].tenant]
    BY Zenon DEF LimitsObserved
  <2>3. ASSUME pc[u] \in {"allocate", "debit"}, limits[local[u].tenant] > 0
        PROVE  reservedTotals'[local[u].tenant] <= limits[local[u].tenant]
    <3>1. local[u].tenant \in Tenants
      BY Zenon, <2>3 DEF HeldTenantsExist, TypeOK
    <3>2. reservedTotals[local[u].tenant] \in Int /\ limits[local[u].tenant] \in Int
      BY <3>1, ConstantsAssumption DEF TypeOK, Ledger
    <3>3. reservedTotals[local[u].tenant] <= limits[local[u].tenant]
      BY ZenonT(30), <2>3 DEF LimitsObserved
    <3> QED BY <3>1, <3>2, <3>3
  <2> QED BY Zenon, <2>1, <2>2, <2>3
<1> QED BY Zenon, <1>1, <1>2

\* A reservation being made keeps within the cap it has seen.
LEMMA LimitsObservedStep ==
  ASSUME TypeOK, HeldTenantsExist, LimitsObserved, Next
  PROVE  LimitsObserved'
<1>a. /\ \A y \in Tenants : limits[y] \in Int /\ reservedTotals[y] \in Int
      /\ reservedTotals \in [Tenants -> Int]
      /\ \A t \in Threads : /\ local[t].amount \in Int /\ local[t].amount >= 0
                            /\ pc[t] # "idle" => local[t].tenant \in Tenants
  BY ConstantsAssumption DEF TypeOK, Ledger, Locals, HeldTenantsExist
<1>b. reservedTotals' = reservedTotals =>
        \A y \in Tenants : reservedTotals'[y] \in Int /\ reservedTotals'[y] <= reservedTotals[y]
  BY <1>a
<1>c. ASSUME NEW t \in Threads, pc[t] # "idle",
             reservedTotals' = Add(reservedTotals, local[t].tenant, -local[t].amount)
      PROVE  \A y \in Tenants : reservedTotals'[y] \in Int /\ reservedTotals'[y] <= reservedTotals[y]
  BY <1>a, <1>c DEF Add
<1>1. ASSUME NEW t \in Threads, NEW x \in Tenants, NEW cost \in Amounts, ReserveLookup(t, x, cost)
      PROVE  LimitsObserved'
  <2>1. /\ pc'[t] = "count" /\ local'[t] = [Call(x, cost) EXCEPT !.max = limits[x]]
        /\ \A u \in Threads : u # t => pc'[u] = pc[u] /\ local'[u] = local[u]
        /\ UNCHANGED <<limits, reservedTotals>>
    BY Zenon, <1>1, EnterMoves DEF ReserveLookup, maps
  <2>2. local'[t].max = limits[local'[t].tenant]
    BY <2>1 DEF Call, NoCall
  <2> QED BY ZenonT(30), <2>1, <2>2 DEF LimitsObserved
<1>2. ASSUME NEW t \in Threads, ReserveCount(t) PROVE LimitsObserved'
  <2> DEFINE l == local[t]
  <2>1. CASE Return(t) /\ UNCHANGED reservedTotals
    <3>1. UNCHANGED limits /\ pc'[t] = "idle" /\ \A u \in Threads : u # t => pc'[u] = pc[u] /\ local'[u] = local[u]
      BY Zenon, <1>2, <2>1, EnterMoves DEF ReserveCount, maps, Return
    <3> QED BY Zenon, <1>b, <2>1, <3>1, LimitsKept
  <2>2. CASE /\ Goto(t, "allocate") /\ reservedTotals' = Add(reservedTotals, l.tenant, l.amount)
             /\ ~(l.max > 0 /\ reservedTotals[l.tenant] + l.amount > l.max)
    <3>1. UNCHANGED limits /\ pc[t] = "count"
      BY Zenon, <1>2 DEF ReserveCount, maps
    <3>2. l.tenant \in Tenants /\ l.amount \in Int /\ l.max = limits[l.tenant]
      BY Zenon, <1>a, <3>1 DEF LimitsObserved
    <3>3. \A y \in Tenants : reservedTotals'[y] = IF y = l.tenant THEN reservedTotals[y] + l.amount ELSE reservedTotals[y]
      BY Zenon, <1>a, <2>2, <3>2 DEF Add
    <3>4. \A y \in Tenants : limits[y] > 0 => reservedTotals'[y] <= limits[y] \/ reservedTotals'[y] = reservedTotals[y]
      BY <1>a, <2>2, <3>2, <3>3
    <3>5. limits[l.tenant] > 0 => reservedTotals'[l.tenant] <= limits[l.tenant]
      BY <1>a, <2>2, <3>2, <3>3
    <3>6. /\ pc'[t] = "allocate" /\ local'[t] = local[t]
          /\ \A u \in Threads : u # t => pc'[u] = pc[u] /\ local'[u] = local[u]
      BY Zenon, <2>2, GotoMoves
    <3> QED BY <1>a, <3>1, <3>4, <3>5, <3>6 DEF LimitsObserved
  <2> QED BY Zenon, <1>2, <2>1, <2>2 DEF ReserveCount
<1>3. ASSUME NEW t \in Threads, ReserveAllocate(t) PROVE LimitsObserved'
  <2>1. pc[t] = "allocate" /\ UNCHANGED <<limits, reservedTotals>>
    BY Zenon, <1>3 DEF ReserveAllocate, maps
  <2>2. \A u \in Threads : /\ local'[u].tenant = local[u].tenant /\ local'[u].max = local[u].max
                           /\ u # t => pc'[u] = pc[u]
    BY <1>3 DEF ReserveAllocate, Enter, Goto, TypeOK, Locals
  <2>3. pc'[t] \in {"debit", "uncount"}
    <3>1. Enter(t, "debit", [local[t] EXCEPT !.id = nextId]) \/ Goto(t, "uncount")
      BY Zenon, <1>3 DEF ReserveAllocate
    <3> QED BY ZenonT(30), <3>1, EnterMoves, GotoMoves
  <2> QED BY Zenon, <2>1, <2>2, <2>3 DEF LimitsObserved
<1>4. ASSUME NEW t \in Threads, ReserveDebit(t) PROVE LimitsObserved'
  <2>1. UNCHANGED limits /\ UNCHANGED reservedTotals
    BY Zenon, <1>4 DEF ReserveDebit, maps
  <2>2. /\ pc'[t] \notin {"count", "allocate", "debit"}
        /\ \A u \in Threads : u # t => pc'[u] = pc[u] /\ local'[u] = local[u]
    BY <1>4, GotoMoves DEF ReserveDebit
  <2> QED BY Zenon, <1>b, <2>1, <2>2, LimitsKept
<1>5. ASSUME NEW t \in Threads, ReserveUncount(t) PROVE LimitsObserved'
  <2>1. UNCHANGED limits /\ pc[t] # "idle"
    BY Zenon, <1>5 DEF ReserveUncount, maps
  <2>2. /\ pc'[t] \notin {"count", "allocate", "debit"}
        /\ \A u \in Threads : u # t => pc'[u] = pc[u] /\ local'[u] = local[u]
    BY Zenon, <1>5, EnterMoves DEF ReserveUncount, Return
  <2>3. \A y \in Tenants : reservedTotals'[y] \in Int /\ reservedTotals'[y] <= reservedTotals[y]
    BY Zenon, <1>5, <1>c, <2>1 DEF ReserveUncount
  <2> QED BY Zenon, <2>1, <2>2, <2>3, LimitsKept
<1>6. ASSUME NEW t \in Threads, ReserveInsert(t) PROVE LimitsObserved'
  <2>1. UNCHANGED limits /\ UNCHANGED reservedTotals
    BY Zenon, <1>6 DEF ReserveInsert
  <2>2. /\ pc'[t] \notin {"count", "allocate", "debit"}
        /\ \A u \in Threads : u # t => pc'[u] = pc[u] /\ local'[u] = local[u]
    BY Zenon, <1>6, EnterMoves DEF ReserveInsert, Return
  <2> QED BY Zenon, <1>b, <2>1, <2>2, LimitsKept
<1>7. ASSUME NEW t \in Threads, NEW i \in Ids, NEW actual \in Amounts, CommitTake(t, i, actual)
      PROVE  LimitsObserved'
  <2>1. UNCHANGED limits /\ UNCHANGED reservedTotals
    BY Zenon, <1>7 DEF CommitTake
  <2>2. /\ pc'[t] \notin {"count", "allocate", "debit"}
        /\ \A u \in Threads : u # t => pc'[u] = pc[u] /\ local'[u] = local[u]
    BY <1>7, EnterMoves DEF CommitTake
  <2> QED BY Zenon, <1>b, <2>1, <2>2, LimitsKept
<1>8. ASSUME NEW t \in Threads, CommitDebit(t) PROVE LimitsObserved'
  <2>1. UNCHANGED limits /\ UNCHANGED reservedTotals
    BY Zenon, <1>8 DEF CommitDebit
  <2>2. /\ pc'[t] \notin {"count", "allocate", "debit"}
        /\ \A u \in Threads : u # t => pc'[u] = pc[u] /\ local'[u] = local[u]
    <3>1. Enter(t, "idle", NoCall) \/ Goto(t, "commit_write")
      BY Zenon, <1>8 DEF CommitDebit, Return
    <3>2. CASE Enter(t, "idle", NoCall)
      BY <3>2, EnterMoves
    <3>3. CASE Goto(t, "commit_write")
      BY <3>3, GotoMoves
    <3> QED BY Zenon, <3>1, <3>2, <3>3
  <2> QED BY Zenon, <1>b, <2>1, <2>2, LimitsKept
<1>9. ASSUME NEW t \in Threads, CommitWrite(t) PROVE LimitsObserved'
  <2>1. UNCHANGED limits /\ UNCHANGED reservedTotals
    BY Zenon, <1>9 DEF CommitWrite
  <2>2. /\ pc'[t] \notin {"count", "allocate", "debit"}
        /\ \A u \in Threads : u # t => pc'[u] = pc[u] /\ local'[u] = local[u]
    BY <1>9, GotoMoves DEF CommitWrite
  <2> QED BY Zenon, <1>b, <2>1, <2>2, LimitsKept
<1>10. ASSUME NEW t \in Threads, CommitRefund(t) PROVE LimitsObserved'
  <2>1. UNCHANGED limits /\ UNCHANGED reservedTotals
    BY Zenon, <1>10 DEF CommitRefund, maps
  <2>2. /\ pc'[t] \notin {"count", "allocate", "debit"}
        /\ \A u \in Threads : u # t => pc'[u] = pc[u] /\ local'[u] = local[u]
    BY <1>10, GotoMoves DEF CommitRefund
  <2> QED BY Zenon, <1>b, <2>1, <2>2, LimitsKept
<1>11. ASSUME NEW t \in Threads, CommitUncount(t) PROVE LimitsObserved'
  <2>1. UNCHANGED limits /\ pc[t] # "idle"
    BY Zenon, <1>11 DEF CommitUncount, maps
  <2>2. /\ pc'[t] \notin {"count", "allocate", "debit"}
        /\ \A u \in Threads : u # t => pc'[u] = pc[u] /\ local'[u] = local[u]
    BY Zenon, <1>11, EnterMoves DEF CommitUncount, Return
  <2>3. \A y \in Tenants : reservedTotals'[y] \in Int /\ reservedTotals'[y] <= reservedTotals[y]
    BY Zenon, <1>11, <1>c, <2>1 DEF CommitUncount
  <2> QED BY Zenon, <2>1, <2>2, <2>3, LimitsKept
<1>12. ASSUME NEW t \in Threads, NEW i \in Ids, ReleaseTake(t, i)
      PROVE  LimitsObserved'
  <2>1. UNCHANGED limits /\ UNCHANGED reservedTotals
    BY Zenon, <1>12 DEF ReleaseTake
  <2>2. /\ pc'[t] \notin {"count", "allocate", "debit"}
        /\ \A u \in Threads : u # t => pc'[u] = pc[u] /\ local'[u] = local[u]
    BY <1>12, EnterMoves DEF ReleaseTake
  <2> QED BY Zenon, <1>b, <2>1, <2>2, LimitsKept
<1>13. ASSUME NEW t \in Threads, ReleaseUncount(t) PROVE LimitsObserved'
  <2>1. UNCHANGED limits /\ pc[t] # "idle"
    BY Zenon, <1>13 DEF ReleaseUncount, maps
  <2>2. /\ pc'[t] \notin {"count", "allocate", "debit"}
        /\ \A u \in Threads : u # t => pc'[u] = pc[u] /\ local'[u] = local[u]
    BY <1>13, GotoMoves DEF ReleaseUncount
  <2>3. \A y \in Tenants : reservedTotals'[y] \in Int /\ reservedTotals'[y] <= reservedTotals[y]
    BY Zenon, <1>13, <1>c, <2>1 DEF ReleaseUncount
  <2> QED BY Zenon, <2>1, <2>2, <2>3, LimitsKept
<1>14. ASSUME NEW t \in Threads, ReleaseCredit(t) PROVE LimitsObserved'
  <2>1. UNCHANGED limits /\ UNCHANGED reservedTotals
    BY Zenon, <1>14 DEF ReleaseCredit, maps
  <2>2. /\ pc'[t] \notin {"count", "allocate", "debit"}
        /\ \A u \in Threads : u # t => pc'[u] = pc[u] /\ local'[u] = local[u]
    BY Zenon, <1>14, EnterMoves DEF ReleaseCredit, Return
  <2> QED BY Zenon, <1>b, <2>1, <2>2, LimitsKept
<1>15. ASSUME NEW t \in Threads, NEW x \in Tenants, NEW amount \in Amounts, TopUpLock(t, x, amount)
      PROVE  LimitsObserved'
  <2>1. UNCHANGED limits /\ UNCHANGED reservedTotals
    BY Zenon, <1>15 DEF TopUpLock, maps
  <2>2. /\ pc'[t] \notin {"count", "allocate", "debit"}
        /\ \A u \in Threads : u # t => pc'[u] = pc[u] /\ local'[u] = local[u]
    BY <1>15, EnterMoves DEF TopUpLock
  <2> QED BY Zenon, <1>b, <2>1, <2>2, LimitsKept
<1>16. ASSUME NEW t \in Threads, TopUpCredit(t) PROVE LimitsObserved'
  <2>1. UNCHANGED limits /\ UNCHANGED reservedTotals
    BY Zenon, <1>16 DEF TopUpCredit, maps
  <2>2. /\ pc'[t] \notin {"count", "allocate", "debit"}
        /\ \A u \in Threads : u # t => pc'[u] = pc[u] /\ local'[u] = local[u]
    <3>1. Enter(t, "idle", NoCall) \/ Goto(t, "topup_write")
      BY Zenon, <1>16 DEF TopUpCredit, Return
    <3>2. CASE Enter(t, "idle", NoCall)
      BY <3>2, EnterMoves
    <3>3. CASE Goto(t, "topup_write")
      BY <3>3, GotoMoves
    <3> QED BY Zenon, <3>1, <3>2, <3>3
  <2> QED BY Zenon, <1>b, <2>1, <2>2, LimitsKept
<1>17. ASSUME NEW t \in Threads, TopUpWrite(t) PROVE LimitsObserved'
  <2>1. UNCHANGED limits /\ UNCHANGED reservedTotals
    BY Zenon, <1>17 DEF TopUpWrite
  <2>2. /\ pc'[t] \notin {"count", "allocate", "debit"}
        /\ \A u \in Threads : u # t => pc'[u] = pc[u] /\ local'[u] = local[u]
    BY Zenon, <1>17, EnterMoves DEF TopUpWrite, Return
  <2> QED BY Zenon, <1>b, <2>1, <2>2, LimitsKept
<1>18. ASSUME NEW x \in Tenants, NEW grant \in Amounts, EnsureTenant(x, grant) PROVE LimitsObserved'
  <2>1. UNCHANGED <<pc, local>> /\ \A y \in Tenants : y # x => limits'[y] = limits[y] /\ reservedTotals'[y] = reservedTotals[y]
    BY Zenon, <1>18 DEF EnsureTenant, TypeOK, Ledger
  <2>2. \A t \in Threads : pc[t] # "idle" => local[t].tenant # x
    BY Zenon, <1>18 DEF EnsureTenant, HeldTenantsExist
  <2> QED BY Zenon, <1>a, <2>1, <2>2 DEF LimitsObserved
<1>19. ASSUME NEW x \in Tenants, NEW max \in Amounts, SetLimit(x, max) PROVE LimitsObserved'
  BY Zenon, <1>19 DEF SetLimit, WriteLimit, GateFree, LimitsObserved
<1>20. CASE Snapshot
  BY Zenon, <1>20 DEF Snapshot, CopyMaps, GateFree, LimitsObserved
<1>21. CASE Restore
  BY Zenon, <1>21 DEF Restore, ReplaceMaps, ReplaceLedger, GateFree, LimitsObserved
<1> QED
  BY Zenon, <1>1, <1>2, <1>3, <1>4, <1>5, <1>6, <1>7, <1>8, <1>9, <1>10, <1>11, <1>12, <1>13, <1>14,
     <1>15,
      <1>16, <1>17, <1>18, <1>19, <1>20, <1>21
  DEF Next, Reserve, Commit, Release, TopUp

\* No step debits a balance below zero or counts a hold past i64::MAX.
LEMMA CounterGuards ==
  ASSUME TypeOK, HeldTenantsExist, LocalsConsistent, Next
  PROVE  \A y \in Tenants : budgets'[y] >= 0 /\ reservedTotals'[y] <= MaxI64
<1>a. /\ MaxI64 \in Nat /\ \A y \in Tenants : budgets[y] \in 0..MaxI64 /\ reservedTotals[y] \in 0..MaxI64
      /\ \A t \in Threads : /\ local[t].amount \in Int /\ local[t].amount >= 0 /\ local[t].actual \in Int
                            /\ pc[t] # "idle" => local[t].tenant \in Tenants
                            /\ pc[t] = "commit_refund" => local[t].actual < local[t].amount
      /\ budgets \in [Tenants -> Int] /\ reservedTotals \in [Tenants -> Int]
  BY ConstantsAssumption DEF TypeOK, Ledger, Locals, HeldTenantsExist, LocalsConsistent
<1>b. ASSUME UNCHANGED <<budgets, reservedTotals>>
      PROVE  \A y \in Tenants : budgets'[y] >= 0 /\ reservedTotals'[y] <= MaxI64
  <2>1. \A y \in Tenants : budgets[y] >= 0 /\ reservedTotals[y] <= MaxI64
    BY <1>a
  <2> QED BY Zenon, <1>b, <2>1
<1>c. ASSUME NEW t \in Threads, NEW n \in Int, pc[t] # "idle", budgets[local[t].tenant] + n >= 0,
             budgets' = Add(budgets, local[t].tenant, n), UNCHANGED reservedTotals
      PROVE  \A y \in Tenants : budgets'[y] >= 0 /\ reservedTotals'[y] <= MaxI64
  BY <1>a, <1>c DEF Add
<1>d. ASSUME NEW t \in Threads, NEW n \in Int, pc[t] # "idle", reservedTotals[local[t].tenant] + n <= MaxI64,
             reservedTotals' = Add(reservedTotals, local[t].tenant, n), UNCHANGED budgets
      PROVE  \A y \in Tenants : budgets'[y] >= 0 /\ reservedTotals'[y] <= MaxI64
  BY <1>a, <1>d DEF Add
<1>1. ASSUME NEW t \in Threads, NEW x \in Tenants, NEW cost \in Amounts, ReserveLookup(t, x, cost)
      PROVE  \A y \in Tenants : budgets'[y] >= 0 /\ reservedTotals'[y] <= MaxI64
  BY Zenon, <1>b, <1>1 DEF ReserveLookup
<1>2. ASSUME NEW t \in Threads, ReserveCount(t)
      PROVE  \A y \in Tenants : budgets'[y] >= 0 /\ reservedTotals'[y] <= MaxI64
  <2>1. pc[t] # "idle" /\ UNCHANGED budgets
    BY Zenon, <1>2 DEF ReserveCount
  <2>2. local[t].tenant \in Tenants /\ local[t].amount \in Int
    BY Zenon, <1>a, <2>1
  <2>3. \/ UNCHANGED reservedTotals
        \/ reservedTotals' = Add(reservedTotals, local[t].tenant, local[t].amount)
           /\ reservedTotals[local[t].tenant] + local[t].amount <= MaxI64
    <3>1. reservedTotals[local[t].tenant] + local[t].amount \in Int /\ MaxI64 \in Int
      BY <1>a, <2>2
    <3> QED BY <1>2, <3>1 DEF ReserveCount
  <2>4. CASE UNCHANGED reservedTotals
    BY Zenon, <1>b, <2>1, <2>4
  <2>5. CASE reservedTotals' = Add(reservedTotals, local[t].tenant, local[t].amount)
             /\ reservedTotals[local[t].tenant] + local[t].amount <= MaxI64
    <3>1. reservedTotals[local[t].tenant] + (local[t].amount) <= MaxI64
      BY Zenon, <1>a, <2>2, <2>5
    <3> QED BY Zenon, <1>d, <2>1, <2>2, <2>5, <3>1
  <2> QED BY Zenon, <2>3, <2>4, <2>5
<1>3. ASSUME NEW t \in Threads, ReserveAllocate(t)
      PROVE  \A y \in Tenants : budgets'[y] >= 0 /\ reservedTotals'[y] <= MaxI64
  BY Zenon, <1>b, <1>3 DEF ReserveAllocate
<1>4. ASSUME NEW t \in Threads, ReserveDebit(t)
      PROVE  \A y \in Tenants : budgets'[y] >= 0 /\ reservedTotals'[y] <= MaxI64
  <2>1. pc[t] # "idle" /\ UNCHANGED reservedTotals
    BY Zenon, <1>4 DEF ReserveDebit
  <2>2. local[t].tenant \in Tenants /\ -local[t].amount \in Int
    BY <1>a, <2>1
  <2>3. \/ UNCHANGED budgets
        \/ budgets' = Add(budgets, local[t].tenant, -local[t].amount)
           /\ ~(budgets[local[t].tenant] < local[t].amount)
    BY Zenon, <1>4 DEF ReserveDebit
  <2>4. CASE UNCHANGED budgets
    BY Zenon, <1>b, <2>1, <2>4
  <2>5. CASE budgets' = Add(budgets, local[t].tenant, -local[t].amount)
             /\ ~(budgets[local[t].tenant] < local[t].amount)
    <3>1. budgets[local[t].tenant] + (-local[t].amount) >= 0
      BY <1>a, <2>2, <2>5
    <3> QED BY Zenon, <1>c, <2>1, <2>2, <2>5, <3>1
  <2> QED BY Zenon, <2>3, <2>4, <2>5
<1>5. ASSUME NEW t \in Threads, ReserveUncount(t)
      PROVE  \A y \in Tenants : budgets'[y] >= 0 /\ reservedTotals'[y] <= MaxI64
  <2>1. pc[t] # "idle" /\ UNCHANGED budgets
    BY Zenon, <1>5 DEF ReserveUncount
  <2>2. local[t].tenant \in Tenants /\ -local[t].amount \in Int
    BY <1>a, <2>1
  <2>4. reservedTotals[local[t].tenant] + (-local[t].amount) <= MaxI64
    BY <1>a, <2>2
  <2>5. reservedTotals' = Add(reservedTotals, local[t].tenant, -local[t].amount)
    BY Zenon, <1>5 DEF ReserveUncount
  <2> QED BY Zenon, <1>d, <2>1, <2>2, <2>4, <2>5
<1>6. ASSUME NEW t \in Threads, ReserveInsert(t)
      PROVE  \A y \in Tenants : budgets'[y] >= 0 /\ reservedTotals'[y] <= MaxI64
  BY Zenon, <1>b, <1>6 DEF ReserveInsert
<1>7. ASSUME NEW t \in Threads, NEW i \in Ids, NEW actual \in Amounts, CommitTake(t, i, actual)
      PROVE  \A y \in Tenants : budgets'[y] >= 0 /\ reservedTotals'[y] <= MaxI64
  BY Zenon, <1>b, <1>7 DEF CommitTake
<1>8. ASSUME NEW t \in Threads, CommitDebit(t)
      PROVE  \A y \in Tenants : budgets'[y] >= 0 /\ reservedTotals'[y] <= MaxI64
  <2>1. pc[t] # "idle" /\ UNCHANGED reservedTotals
    BY Zenon, <1>8 DEF CommitDebit
  <2>2. local[t].tenant \in Tenants /\ -(local[t].actual - local[t].amount) \in Int
    BY <1>a, <2>1
  <2>3. \/ UNCHANGED budgets
        \/ budgets' = Add(budgets, local[t].tenant, -(local[t].actual - local[t].amount))
           /\ ~(budgets[local[t].tenant] < local[t].actual - local[t].amount)
    BY Zenon, <1>8 DEF CommitDebit
  <2>4. CASE UNCHANGED budgets
    BY Zenon, <1>b, <2>1, <2>4
  <2>5. CASE budgets' = Add(budgets, local[t].tenant, -(local[t].actual - local[t].amount))
             /\ ~(budgets[local[t].tenant] < local[t].actual - local[t].amount)
    <3>1. budgets[local[t].tenant] + (-(local[t].actual - local[t].amount)) >= 0
      <4>1. /\ budgets[local[t].tenant] \in Int /\ local[t].actual - local[t].amount \in Int
            /\ ~(budgets[local[t].tenant] < local[t].actual - local[t].amount)
        BY <1>a, <2>2, <2>5
      <4> QED BY ONLY <4>1
    <3> QED BY Zenon, <1>c, <2>1, <2>2, <2>5, <3>1
  <2> QED BY Zenon, <2>3, <2>4, <2>5
<1>9. ASSUME NEW t \in Threads, CommitWrite(t)
      PROVE  \A y \in Tenants : budgets'[y] >= 0 /\ reservedTotals'[y] <= MaxI64
  BY Zenon, <1>b, <1>9 DEF CommitWrite
<1>10. ASSUME NEW t \in Threads, CommitRefund(t)
      PROVE  \A y \in Tenants : budgets'[y] >= 0 /\ reservedTotals'[y] <= MaxI64
  <2>1. pc[t] # "idle" /\ UNCHANGED reservedTotals
    BY Zenon, <1>10 DEF CommitRefund
  <2>2. local[t].tenant \in Tenants /\ local[t].amount - local[t].actual \in Int
    BY <1>a, <2>1
  <2>3. pc[t] = "commit_refund"
    BY Zenon, <1>10 DEF CommitRefund
  <2>4. budgets[local[t].tenant] + (local[t].amount - local[t].actual) >= 0
    BY <1>a, <2>2, <2>3
  <2>5. budgets' = Add(budgets, local[t].tenant, local[t].amount - local[t].actual)
    BY Zenon, <1>10 DEF CommitRefund
  <2> QED BY Zenon, <1>c, <2>1, <2>2, <2>4, <2>5
<1>11. ASSUME NEW t \in Threads, CommitUncount(t)
      PROVE  \A y \in Tenants : budgets'[y] >= 0 /\ reservedTotals'[y] <= MaxI64
  <2>1. pc[t] # "idle" /\ UNCHANGED budgets
    BY Zenon, <1>11 DEF CommitUncount
  <2>2. local[t].tenant \in Tenants /\ -local[t].amount \in Int
    BY <1>a, <2>1
  <2>4. reservedTotals[local[t].tenant] + (-local[t].amount) <= MaxI64
    BY <1>a, <2>2
  <2>5. reservedTotals' = Add(reservedTotals, local[t].tenant, -local[t].amount)
    BY Zenon, <1>11 DEF CommitUncount
  <2> QED BY Zenon, <1>d, <2>1, <2>2, <2>4, <2>5
<1>12. ASSUME NEW t \in Threads, NEW i \in Ids, ReleaseTake(t, i)
      PROVE  \A y \in Tenants : budgets'[y] >= 0 /\ reservedTotals'[y] <= MaxI64
  BY Zenon, <1>b, <1>12 DEF ReleaseTake
<1>13. ASSUME NEW t \in Threads, ReleaseUncount(t)
      PROVE  \A y \in Tenants : budgets'[y] >= 0 /\ reservedTotals'[y] <= MaxI64
  <2>1. pc[t] # "idle" /\ UNCHANGED budgets
    BY Zenon, <1>13 DEF ReleaseUncount
  <2>2. local[t].tenant \in Tenants /\ -local[t].amount \in Int
    BY <1>a, <2>1
  <2>4. reservedTotals[local[t].tenant] + (-local[t].amount) <= MaxI64
    BY <1>a, <2>2
  <2>5. reservedTotals' = Add(reservedTotals, local[t].tenant, -local[t].amount)
    BY Zenon, <1>13 DEF ReleaseUncount
  <2> QED BY Zenon, <1>d, <2>1, <2>2, <2>4, <2>5
<1>14. ASSUME NEW t \in Threads, ReleaseCredit(t)
      PROVE  \A y \in Tenants : budgets'[y] >= 0 /\ reservedTotals'[y] <= MaxI64
  <2>1. pc[t] # "idle" /\ UNCHANGED reservedTotals
    BY Zenon, <1>14 DEF ReleaseCredit
  <2>2. local[t].tenant \in Tenants /\ local[t].amount \in Int
    BY Zenon, <1>a, <2>1
  <2>4. budgets[local[t].tenant] + (local[t].amount) >= 0
    BY <1>a, <2>2
  <2>5. budgets' = Add(budgets, local[t].tenant, local[t].amount)
    BY Zenon, <1>14 DEF ReleaseCredit
  <2> QED BY Zenon, <1>c, <2>1, <2>2, <2>4, <2>5
<1>15. ASSUME NEW t \in Threads, NEW x \in Tenants, NEW amount \in Amounts, TopUpLock(t, x, amount)
      PROVE  \A y \in Tenants : budgets'[y] >= 0 /\ reservedTotals'[y] <= MaxI64
  BY Zenon, <1>b, <1>15 DEF TopUpLock
<1>16. ASSUME NEW t \in Threads, TopUpCredit(t)
      PROVE  \A y \in Tenants : budgets'[y] >= 0 /\ reservedTotals'[y] <= MaxI64
  <2>1. pc[t] # "idle" /\ UNCHANGED reservedTotals
    BY Zenon, <1>16 DEF TopUpCredit
  <2>2. local[t].tenant \in Tenants /\ local[t].amount \in Int
    BY Zenon, <1>a, <2>1
  <2>3. \/ UNCHANGED budgets
        \/ budgets' = Add(budgets, local[t].tenant, local[t].amount)
    BY Zenon, <1>16 DEF TopUpCredit
  <2>4. CASE UNCHANGED budgets
    BY Zenon, <1>b, <2>1, <2>4
  <2>5. CASE budgets' = Add(budgets, local[t].tenant, local[t].amount)
    <3>1. budgets[local[t].tenant] + (local[t].amount) >= 0
      BY <1>a, <2>2, <2>5
    <3> QED BY Zenon, <1>c, <2>1, <2>2, <2>5, <3>1
  <2> QED BY Zenon, <2>3, <2>4, <2>5
<1>17. ASSUME NEW t \in Threads, TopUpWrite(t)
      PROVE  \A y \in Tenants : budgets'[y] >= 0 /\ reservedTotals'[y] <= MaxI64
  BY Zenon, <1>b, <1>17 DEF TopUpWrite
<1>18. ASSUME NEW x \in Tenants, NEW grant \in Amounts, EnsureTenant(x, grant)
      PROVE  \A y \in Tenants : budgets'[y] >= 0 /\ reservedTotals'[y] <= MaxI64
  <2>1. grant \in Int /\ grant >= 0 /\ budgets' = [budgets EXCEPT ![x] = grant]
        /\ reservedTotals' = [reservedTotals EXCEPT ![x] = 0]
    BY Zenon, <1>18, AmountRange DEF EnsureTenant
  <2> QED BY <1>a, <2>1
<1>19. ASSUME NEW x \in Tenants, NEW max \in Amounts, SetLimit(x, max)
      PROVE  \A y \in Tenants : budgets'[y] >= 0 /\ reservedTotals'[y] <= MaxI64
  BY Zenon, <1>b, <1>19 DEF SetLimit, WriteLimit
<1>20. CASE Snapshot
  BY Zenon, <1>b, <1>20 DEF Snapshot, CopyMaps
<1>21. CASE Restore
  <2>1. saved.budgets \in [Tenants -> 0..MaxI64]
    BY Zenon, <1>21 DEF Restore, ReplaceMaps, ReplaceLedger, TypeOK, Snapshots, Ledger
  <2> QED BY <1>a, <1>21, <2>1 DEF Restore, ReplaceMaps, ReplaceLedger
<1> QED
  BY ZenonT(30), <1>1, <1>2, <1>3, <1>4, <1>5, <1>6, <1>7, <1>8, <1>9, <1>10, <1>11, <1>12, <1>13, <1>14,
     <1>15,
      <1>16, <1>17, <1>18, <1>19, <1>20, <1>21
  DEF Next, Reserve, Commit, Release, TopUp

\* A step raises a reserved total only within the cap in force.
LEMMA CountedWithinLimit ==
  ASSUME IInv, Next, NEW x0 \in Tenants, limits[x0] > 0, reservedTotals'[x0] > reservedTotals[x0]
  PROVE  reservedTotals'[x0] <= limits[x0]
<1>a. /\ MaxI64 \in Nat /\ \A y \in Tenants : reservedTotals[y] \in Int
      /\ \A t \in Threads : /\ local[t].amount \in Int /\ local[t].amount >= 0
                            /\ pc[t] # "idle" => local[t].tenant \in Tenants
      /\ reservedTotals \in [Tenants -> Int]
  BY ConstantsAssumption DEF IInv, TypeOK, Ledger, Locals, HeldTenantsExist
<1>b. \A t \in Threads : pc[t] = "count" => local[t].max = limits[local[t].tenant]
  BY Zenon DEF IInv, LimitsObserved
<1>c. limits[x0] \in Int /\ x0 \in Tenants
  BY ConstantsAssumption DEF IInv, TypeOK, Ledger
<1>d. \A i \in Tenants : reservedTotals[i] >= 0
  BY ConstantsAssumption DEF IInv, TypeOK, Ledger
<1>e. reservedTotals' # reservedTotals
  BY <1>a, <1>c
<1>f. ASSUME NEW x \in Tenants, NEW n \in Int, n >= 0
      PROVE  reservedTotals' # Add(reservedTotals, x, -n)
  BY <1>a, <1>c, <1>f DEF Add
<1>1. ASSUME NEW t \in Threads, NEW x \in Tenants, NEW cost \in Amounts, ReserveLookup(t, x, cost)
      PROVE  reservedTotals'[x0] <= limits[x0]
  BY Zenon, <1>1, <1>e DEF ReserveLookup
<1>2. ASSUME NEW t \in Threads, ReserveCount(t) PROVE reservedTotals'[x0] <= limits[x0]
  <2> DEFINE l == local[t]
  <2>1. /\ pc[t] = "count"
        /\ reservedTotals' = Add(reservedTotals, l.tenant, l.amount)
        /\ ~(l.max > 0 /\ reservedTotals[l.tenant] + l.amount > l.max)
    BY Zenon, <1>2, <1>e DEF ReserveCount
  <2>2. l.tenant \in Tenants /\ l.amount \in Int /\ l.max = limits[l.tenant]
    BY Zenon, <2>1, <1>a, <1>b
  <2>3. l.tenant = x0
    BY <2>1, <2>2, <1>a, <1>c DEF Add
  <2>4. reservedTotals'[x0] = reservedTotals[x0] + l.amount
    BY Zenon, <2>1, <2>2, <2>3, <1>a, <1>c DEF Add
  <2>5. ~(reservedTotals[x0] + l.amount > limits[x0])
    BY Zenon, <2>1, <2>2, <2>3
  <2>6. reservedTotals[x0] + l.amount \in Int /\ limits[x0] \in Int
    BY <2>2, <1>a, <1>c
  <2> QED BY <2>4, <2>5, <2>6
<1>3. ASSUME NEW t \in Threads, ReserveAllocate(t) PROVE reservedTotals'[x0] <= limits[x0]
  BY Zenon, <1>3, <1>e DEF ReserveAllocate
<1>4. ASSUME NEW t \in Threads, ReserveDebit(t) PROVE reservedTotals'[x0] <= limits[x0]
  BY Zenon, <1>4, <1>e DEF ReserveDebit
<1>5. ASSUME NEW t \in Threads, ReserveUncount(t) PROVE reservedTotals'[x0] <= limits[x0]
  BY Zenon, <1>5, <1>a, <1>f DEF ReserveUncount
<1>6. ASSUME NEW t \in Threads, ReserveInsert(t) PROVE reservedTotals'[x0] <= limits[x0]
  BY Zenon, <1>6, <1>e DEF ReserveInsert
<1>7. ASSUME NEW t \in Threads, NEW i \in Ids, NEW actual \in Amounts, CommitTake(t, i, actual)
      PROVE  reservedTotals'[x0] <= limits[x0]
  BY Zenon, <1>7, <1>e DEF CommitTake
<1>8. ASSUME NEW t \in Threads, CommitDebit(t) PROVE reservedTotals'[x0] <= limits[x0]
  BY Zenon, <1>8, <1>e DEF CommitDebit
<1>9. ASSUME NEW t \in Threads, CommitWrite(t) PROVE reservedTotals'[x0] <= limits[x0]
  BY Zenon, <1>9, <1>e DEF CommitWrite
<1>10. ASSUME NEW t \in Threads, CommitRefund(t) PROVE reservedTotals'[x0] <= limits[x0]
  BY Zenon, <1>10, <1>e DEF CommitRefund
<1>11. ASSUME NEW t \in Threads, CommitUncount(t) PROVE reservedTotals'[x0] <= limits[x0]
  BY Zenon, <1>11, <1>a, <1>f DEF CommitUncount
<1>12. ASSUME NEW t \in Threads, NEW i \in Ids, ReleaseTake(t, i)
      PROVE  reservedTotals'[x0] <= limits[x0]
  BY Zenon, <1>12, <1>e DEF ReleaseTake
<1>13. ASSUME NEW t \in Threads, ReleaseUncount(t) PROVE reservedTotals'[x0] <= limits[x0]
  BY Zenon, <1>13, <1>a, <1>f DEF ReleaseUncount
<1>14. ASSUME NEW t \in Threads, ReleaseCredit(t) PROVE reservedTotals'[x0] <= limits[x0]
  BY Zenon, <1>14, <1>e DEF ReleaseCredit
<1>15. ASSUME NEW t \in Threads, NEW x \in Tenants, NEW amount \in Amounts, TopUpLock(t, x, amount)
      PROVE  reservedTotals'[x0] <= limits[x0]
  BY Zenon, <1>15, <1>e DEF TopUpLock
<1>16. ASSUME NEW t \in Threads, TopUpCredit(t) PROVE reservedTotals'[x0] <= limits[x0]
  BY Zenon, <1>16, <1>e DEF TopUpCredit
<1>17. ASSUME NEW t \in Threads, TopUpWrite(t) PROVE reservedTotals'[x0] <= limits[x0]
  BY Zenon, <1>17, <1>e DEF TopUpWrite
<1>18. ASSUME NEW x \in Tenants, NEW grant \in Amounts, EnsureTenant(x, grant)
      PROVE  reservedTotals'[x0] <= limits[x0]
  <2>1. reservedTotals' = [reservedTotals EXCEPT ![x] = 0]
    BY Zenon, <1>18 DEF EnsureTenant
  <2> QED
    BY <2>1, <1>a, <1>c, <1>d
<1>19. ASSUME NEW x \in Tenants, NEW max \in Amounts, SetLimit(x, max)
      PROVE  reservedTotals'[x0] <= limits[x0]
  BY Zenon, <1>19, <1>e DEF SetLimit, WriteLimit
<1>20. CASE Snapshot
  BY Zenon, <1>20, <1>e DEF Snapshot, CopyMaps
<1>21. CASE Restore
  <2>1. reservedTotals' = [x \in Tenants |-> 0]
    BY Zenon, <1>21 DEF Restore, ReplaceMaps, ReplaceLedger
  <2> QED
    BY <2>1, <1>c, <1>d
<1> QED
  BY ZenonT(30), <1>1, <1>2, <1>3, <1>4, <1>5, <1>6, <1>7, <1>8, <1>9, <1>10, <1>11, <1>12, <1>13, <1>14,
     <1>15,
      <1>16, <1>17, <1>18, <1>19, <1>20, <1>21
  DEF Next, Reserve, Commit, Release, TopUp

-----------------------------------------------------------------------------
(***************************************************************************)
(* What the mapping to the ledger shows: the holds, and what a thread that *)
(* holds the mutex of the reservations has still to write                  *)
(***************************************************************************)
\* A hold that the ledger has and the map has not: being inserted, or tried for an overrun.
Pending(t) == pc[t] \in {"insert", "commit_debit"}

Rec(t) == [tenant |-> local[t].tenant, amount |-> local[t].amount]

\* Two pending threads have two ids, so the hold that one of them has is its own.
LEMMA PendingHold ==
  ASSUME IdsUnique, NEW i, NEW t \in Threads, Pending(t), local[t].id = i
  PROVE  OpenHold(i) = Rec(t)
<1> DEFINE P(u) == pc[u] \in {"insert", "commit_debit"} /\ local[u].id = i
<1>1. \A u \in Threads : P(u) => u = t
  BY Zenon DEF IdsUnique, Pending, Settling
<1>2. P(t) /\ \E u \in Threads : P(u)
  BY Zenon DEF Pending
<1>3. (CHOOSE u \in Threads : P(u)) = t
  BY Zenon, <1>1, <1>2
<1> QED BY Zenon, <1>2, <1>3 DEF OpenHold, Rec

\* The same after a step.
LEMMA PendingHoldNext ==
  ASSUME IdsUnique', NEW i, NEW t \in Threads, Pending(t)', local'[t].id = i
  PROVE  OpenHold(i)' = Rec(t)'
<1>1. (IdsUnique /\ Pending(t) /\ local[t].id = i => OpenHold(i) = Rec(t))'
  BY PendingHold, PTL
<1> QED BY Zenon, <1>1

\* A hold that no thread has pending is the record in the map.
LEMMA PlainHold ==
  ASSUME NEW i, \A u \in Threads : Pending(u) => local[u].id # i
  PROVE  OpenHold(i) = reservations[i]
BY Zenon DEF OpenHold, Pending

\* After a step, a hold that no thread has pending is the record in the map.
LEMMA PlainHoldNext ==
  ASSUME NEW i, \A u \in Threads : Pending(u)' => local'[u].id # i
  PROVE  OpenHold(i)' = reservations'[i]
BY Zenon DEF OpenHold, Pending

\* A step of thread t leaves alone the holds of the ids that are not its own.
LEMMA HoldElsewhere ==
  ASSUME IdsUnique, IdsUnique', NEW t \in Threads, NEW j,
         \A u \in Threads : u # t => pc'[u] = pc[u] /\ local'[u] = local[u],
         reservations'[j] = reservations[j],
         Pending(t) => local[t].id # j, Pending(t)' => local'[t].id # j
  PROVE  OpenHold(j)' = OpenHold(j)
<1>1. CASE \E u \in Threads : Pending(u) /\ local[u].id = j
  <2>1. PICK u \in Threads : Pending(u) /\ local[u].id = j
    BY Zenon, <1>1
  <2>2. u # t /\ Pending(u)' /\ local'[u] = local[u]
    BY Zenon, <2>1 DEF Pending
  <2>3. OpenHold(j) = Rec(u)
    BY Zenon, <2>1, PendingHold
  <2>4. OpenHold(j)' = Rec(u)'
    BY Zenon, <2>1, <2>2, PendingHoldNext
  <2> QED BY Zenon, <2>2, <2>3, <2>4 DEF Rec
<1>2. CASE ~\E u \in Threads : Pending(u) /\ local[u].id = j
  <2>1. \A u \in Threads : (Pending(u) => local[u].id # j) /\ (Pending(u)' => local'[u].id # j)
    BY Zenon, <1>2 DEF Pending
  <2>2. OpenHold(j) = reservations[j]
    BY Zenon, <2>1, PlainHold
  <2>3. OpenHold(j)' = reservations'[j]
    BY Zenon, <2>1 DEF OpenHold, Pending
  <2> QED BY Zenon, <2>2, <2>3
<1> QED BY Zenon, <1>1, <1>2

\* What the ledger's hold i has of tenant x, and what thread t has pending of it.
LedgerHold(i, x) ==
  IF OpenHold(i) = None THEN 0
  ELSE IF OpenHold(i).tenant = x THEN OpenHold(i).amount ELSE 0

LedgerHeld(x) == Sum([i \in Ids |-> LedgerHold(i, x)], AllocatorMask - 1)

PendingAmount(t, x) == IF Pending(t) /\ local[t].tenant = x THEN local[t].amount ELSE 0

\* A pending thread has a record that is not in the map, and its hold is that record.
LEMMA PendingFacts ==
  ASSUME IInv, NEW t \in Threads, Pending(t), NEW x \in Tenants
  PROVE  /\ local[t].id \in Ids /\ reservations[local[t].id] = None
         /\ Rec(t) # None /\ Rec(t) \in Record
         /\ Hold(local[t].id, x) = 0 /\ LedgerHold(local[t].id, x) = PendingAmount(t, x)
         /\ \A u \in Threads : Pending(u) /\ local[u].id = local[t].id => u = t
<1>1. local[t].id \in Ids /\ reservations[local[t].id] = None
  BY Zenon DEF IInv, IdsUnique, Pending, Settling
<1>2. Rec(t) \in Record
  <2>1. local[t].tenant \in Tenants /\ local[t].amount \in 1..MaxI64
    BY ConstantsAssumption DEF IInv, TypeOK, Locals, LocalsConsistent, Pending
  <2> QED BY Zenon, <2>1 DEF Rec, Record
<1>3. Rec(t) # None
  BY Zenon, <1>2, NoneAssumption
<1>4. OpenHold(local[t].id) = Rec(t)
  BY Zenon, PendingHold DEF IInv
<1>5. LedgerHold(local[t].id, x) = PendingAmount(t, x)
  BY <1>3, <1>4 DEF LedgerHold, PendingAmount, Rec
<1>6. Hold(local[t].id, x) = 0
  BY Zenon, <1>1 DEF Hold
<1>7. \A u \in Threads : Pending(u) /\ local[u].id = local[t].id => u = t
  BY Zenon DEF IInv, IdsUnique, Pending, Settling
<1> QED BY Zenon, <1>1, <1>2, <1>3, <1>5, <1>6, <1>7

\* The terms of the sums over the holds are integers.
LEMMA LedgerTerms ==
  ASSUME IInv, NEW x \in Tenants
  PROVE  /\ \A i \in Ids : LedgerHold(i, x) \in Int /\ Hold(i, x) \in Int
         /\ \A t \in Threads : PendingAmount(t, x) \in Int /\ Counted(t, x) \in Int
         /\ \A i \in Ids : (\A u \in Threads : Pending(u) => local[u].id # i) => LedgerHold(i, x) = Hold(i, x)
<1>1. \A i \in Ids : Hold(i, x) \in Int
  BY Zenon, LedgerInts DEF IInv
<1>2. \A t \in Threads : PendingAmount(t, x) \in Int /\ Counted(t, x) \in Int
  <2>1. \A t \in Threads : Counted(t, x) \in Int
    BY Zenon, LedgerInts DEF IInv
  <2>2. \A t \in Threads : local[t].amount \in Int
    BY ConstantsAssumption DEF IInv, TypeOK, Locals
  <2>3. 0 \in Int
    OBVIOUS
  <2> QED BY Zenon, <2>1, <2>2, <2>3 DEF PendingAmount
<1>3. ASSUME NEW i \in Ids, \A u \in Threads : Pending(u) => local[u].id # i
      PROVE  LedgerHold(i, x) = Hold(i, x)
  BY <1>3, PlainHold DEF LedgerHold, Hold
<1>4. ASSUME NEW i \in Ids PROVE LedgerHold(i, x) \in Int
  <2>1. CASE \E u \in Threads : Pending(u) /\ local[u].id = i
    BY Zenon, <1>2, <2>1, PendingFacts
  <2>2. CASE ~\E u \in Threads : Pending(u) /\ local[u].id = i
    BY Zenon, <1>1, <1>3, <2>2
  <2> QED BY Zenon, <2>1, <2>2
<1> QED BY Zenon, <1>1, <1>2, <1>3, <1>4

\* The mapped balance, spend and grant of a tenant are integers.
LEMMA MappedInts ==
  ASSUME IInv, NEW x \in Tenants
  PROVE  /\ Available(x) \in Int /\ Spent(x) \in Int /\ Granted(x) \in Int
         /\ budgets[x] \in Int /\ committed[x] \in Int
         /\ OwedBalance(x) \in Int /\ OwedSpend(x) \in Int
         /\ OwedBalance(x) >= 0 /\ OwedSpend(x) >= 0
<1>1. budgets[x] \in Int /\ committed[x] \in Int /\ Granted(x) \in Int
  BY Zenon, LedgerInts DEF IInv
<1>2. reservationsLock # 0 => reservationsLock \in Threads
  BY ConstantsAssumption DEF IInv, TypeOK, Threads
<1>3. \A t \in Threads : /\ local[t].amount \in Int /\ local[t].actual \in Int
                         /\ local[t].amount >= 0 /\ local[t].actual >= 0
  BY ConstantsAssumption DEF IInv, TypeOK, Locals
<1>4. OwedBalance(x) \in Int /\ OwedBalance(x) >= 0
  BY <1>2, <1>3 DEF OwedBalance, Settler
<1>5. OwedSpend(x) \in Int /\ OwedSpend(x) >= 0
  BY <1>2, <1>3 DEF OwedSpend, Settler
<1> QED BY <1>1, <1>4, <1>5 DEF Available, Spent

\* The same after a step.
LEMMA MappedIntsNext ==
  ASSUME IInv', NEW x \in Tenants
  PROVE  Available(x)' \in Int /\ Spent(x)' \in Int /\ Granted(x)' \in Int
<1>1. (IInv => Available(x) \in Int /\ Spent(x) \in Int /\ Granted(x) \in Int)'
  BY MappedInts, PTL
<1> QED BY Zenon, <1>1

\* What thread t owes while it holds the mutex of the reservations.
OwesBalance(t, x) ==
  IF local[t].tenant # x THEN 0
  ELSE IF pc[t] \in {"release_uncount", "release_credit"} THEN local[t].amount
  ELSE IF pc[t] \in {"commit_write", "commit_refund"} /\ local[t].actual < local[t].amount
  THEN local[t].amount - local[t].actual ELSE 0

OwesSpend(t, x) == IF pc[t] = "commit_write" /\ local[t].tenant = x THEN local[t].actual ELSE 0

\* The thread that holds the mutex owes; nobody owes when it is free.
LEMMA OwedByHolder ==
  ASSUME NEW t \in Threads, NEW x
  PROVE  /\ reservationsLock = t => OwedBalance(x) = OwesBalance(t, x) /\ OwedSpend(x) = OwesSpend(t, x)
         /\ reservationsLock = 0 => OwedBalance(x) = 0 /\ OwedSpend(x) = 0
         /\ reservationsLock' = t => OwedBalance(x)' = OwesBalance(t, x)' /\ OwedSpend(x)' = OwesSpend(t, x)'
         /\ reservationsLock' = 0 => OwedBalance(x)' = 0 /\ OwedSpend(x)' = 0
<1>1. t # 0
  BY ConstantsAssumption DEF Threads
<1>2. reservationsLock = t => OwedBalance(x) = OwesBalance(t, x) /\ OwedSpend(x) = OwesSpend(t, x)
  BY Zenon, <1>1 DEF OwedBalance, OwedSpend, OwesBalance, OwesSpend, Settler
<1>3. reservationsLock' = t => OwedBalance(x)' = OwesBalance(t, x)' /\ OwedSpend(x)' = OwesSpend(t, x)'
  BY Zenon, <1>1 DEF OwedBalance, OwedSpend, OwesBalance, OwesSpend, Settler
<1>4. /\ reservationsLock = 0 => OwedBalance(x) = 0 /\ OwedSpend(x) = 0
      /\ reservationsLock' = 0 => OwedBalance(x)' = 0 /\ OwedSpend(x)' = 0
  BY Zenon DEF OwedBalance, OwedSpend, Settler
<1> QED BY Zenon, <1>2, <1>3, <1>4

\* A step of a thread that does not hold the mutex changes nothing that is owed.
LEMMA OwedSame ==
  ASSUME IInv, NEW t \in Threads, OnlyMoves(t), pc[t] \notin Settling,
         reservationsLock' = reservationsLock, NEW x
  PROVE  OwedBalance(x)' = OwedBalance(x) /\ OwedSpend(x)' = OwedSpend(x)
<1>1. reservationsLock # t /\ (reservationsLock # 0 => reservationsLock \in Threads)
  BY ConstantsAssumption DEF IInv, LockOwners, TypeOK, Threads
<1>2. CASE reservationsLock = 0
  BY Zenon, <1>2 DEF OwedBalance, OwedSpend, Settler
<1>3. CASE reservationsLock # 0
  <2>1. PICK u \in Threads : u = reservationsLock /\ u # t
    BY Zenon, <1>1, <1>3
  <2>2. pc'[u] = pc[u] /\ local'[u] = local[u]
    BY Zenon, <2>1 DEF OnlyMoves
  <2> QED BY Zenon, <2>1, <2>2 DEF OwedBalance, OwedSpend, Settler
<1> QED BY Zenon, <1>2, <1>3

\* The holds stay when the map does and the thread that moves has none pending.
LEMMA HoldsStay ==
  ASSUME IInv, IInv', NEW t \in Threads, OnlyMoves(t), ~Pending(t), ~Pending(t)',
         reservations' = reservations
  PROVE  \A i \in Ids : OpenHold(i)' = OpenHold(i)
BY Zenon, HoldElsewhere DEF IInv, OnlyMoves

\* No thread is 0, which stands for a free mutex.
LEMMA ThreadNumbers ==
  ASSUME NEW t \in Threads
  PROVE  t # 0
BY ConstantsAssumption DEF Threads

\* What a call knows of its thread, for the steps below.
LEMMA ThreadFacts ==
  ASSUME IInv, NEW t \in Threads
  PROVE  /\ local[t].amount \in Int /\ local[t].actual \in Int
         /\ local[t].amount >= 0 /\ local[t].actual >= 0
         /\ pc[t] # "idle" => /\ local[t].tenant \in tenants /\ local[t].tenant \in Tenants
                              /\ local[t].amount >= 1 /\ Rec(t) # None
         /\ pc[t] = "commit_debit" => local[t].actual > local[t].amount
         /\ pc[t] = "commit_refund" => local[t].actual < local[t].amount
         /\ pc[t] = "commit_write" => local[t].next = committed[local[t].tenant] + local[t].actual
         /\ pc[t] \in Settling => reservationsLock = t
         /\ pc[t] \in Settling \cup {"debit", "insert"} =>
              /\ local[t].id \in Ids /\ reservations[local[t].id] = None
              /\ \A u \in Threads : u # t /\ Pending(u) => local[u].id # local[t].id
<1>1. /\ local[t].amount \in Int /\ local[t].actual \in Int
      /\ local[t].amount >= 0 /\ local[t].actual >= 0
  BY ConstantsAssumption DEF IInv, TypeOK, Locals
<1>2. pc[t] # "idle" => local[t].tenant \in tenants /\ local[t].tenant \in Tenants /\ local[t].amount >= 1
  BY Zenon DEF IInv, TypeOK, LocalsConsistent
<1>3. CallFacts(t)
  BY Zenon, StepFacts DEF IInv
<1>4. pc[t] \in Settling => reservationsLock = t
  BY Zenon DEF IInv, LockOwners
<1>5. pc[t] \in Settling \cup {"debit", "insert"} =>
              /\ local[t].id \in Ids /\ reservations[local[t].id] = None
              /\ \A u \in Threads : u # t /\ Pending(u) => local[u].id # local[t].id
  BY Zenon DEF IInv, IdsUnique, Pending, Settling
<1> QED BY Zenon, <1>1, <1>2, <1>3, <1>4, <1>5 DEF CallFacts, Rec

\* A record that is taken out of the map is an open hold of the ledger.
LEMMA TakenHold ==
  ASSUME IInv, IInv', NEW t \in Threads, pc[t] = "idle", OnlyMoves(t), NEW i \in Ids,
         reservations[i] # None, reservations' = [reservations EXCEPT ![i] = None],
         pc'[t] # "insert", local'[t].id = i
  PROVE  /\ OpenHold(i) = reservations[i] /\ reservations[i] \in Record
         /\ pc'[t] # "commit_debit" => OpenHold(i)' = None
         /\ \A j \in Ids : j # i => OpenHold(j)' = OpenHold(j)
<1>1. \A u \in Threads : Pending(u) => local[u].id # i
  BY Zenon DEF IInv, IdsUnique, Pending, Settling
<1>2. OpenHold(i) = reservations[i] /\ reservations[i] \in Record
  BY Zenon, <1>1, PlainHold DEF IInv, TypeOK
<1>3. reservations'[i] = None /\ \A j \in Ids : j # i => reservations'[j] = reservations[j]
  BY Zenon DEF IInv, TypeOK
<1>4. \A j \in Ids : j # i => OpenHold(j)' = OpenHold(j)
  BY <1>3, HoldElsewhere DEF Pending, IInv, OnlyMoves
<1>5. ASSUME pc'[t] # "commit_debit" PROVE OpenHold(i)' = None
  <2>1. \A u \in Threads : Pending(u)' => local'[u].id # i
    BY Zenon, <1>1, <1>5 DEF Pending, OnlyMoves
  <2> QED BY Zenon, <1>3, <2>1, PlainHoldNext
<1> QED BY Zenon, <1>2, <1>4, <1>5

-----------------------------------------------------------------------------
(***************************************************************************)
(* The ledger                                                              *)
(***************************************************************************)

\* A hold about to be debited is counted in the reserved total beside every hold of the
\* ledger: the cap it was counted under bounds the ledger's exposure.
DebitsCounted ==
  \A t \in Threads, x \in Tenants :
    pc[t] = "debit" /\ local[t].tenant = x =>
      LedgerHeld(x) + local[t].amount <= reservedTotals[x] /\ LedgerHeld(x) \in Int

-----------------------------------------------------------------------------
(***************************************************************************)
(* The steps of the ledger, in terms of the mapping                        *)
(***************************************************************************)
\* A step that changes nothing the mapping looks at is a stutter of the ledger.
LEMMA LedgerStays ==
  ASSUME UNCHANGED <<tenants, limits, saved>>,
         \A x \in Tenants : /\ Available(x)' = Available(x) /\ Spent(x)' = Spent(x)
                            /\ Granted(x)' = Granted(x),
         \A i \in Ids : OpenHold(i)' = OpenHold(i)
  PROVE  UNCHANGED Abstract!vars
BY Zenon DEF Abstract!vars, SavedLedger

\* A hold of the amount is made for tenant y under id i.
LEMMA LedgerReserves ==
  ASSUME IInv, IInv', UNCHANGED <<tenants, limits, saved>>, NEW y \in tenants, y \in Tenants,
         NEW cost \in Amounts, cost > 0, cost <= Available(y),
         limits[y] > 0 => LedgerHeld(y) + cost <= limits[y], NEW i \in Ids, OpenHold(i) = None,
         \A x \in Tenants : /\ Available(x)' = IF x = y THEN Available(x) - cost ELSE Available(x)
                            /\ Spent(x)' = Spent(x) /\ Granted(x)' = Granted(x),
         \A j \in Ids : OpenHold(j)' = IF j = i THEN [tenant |-> y, amount |-> cost] ELSE OpenHold(j)
  PROVE  Abstract!Next
<1>1. Abstract!Held(y) = LedgerHeld(y)
  <2>1. [j \in Abstract!Ids |-> Abstract!Hold(j, y)] = [j \in Ids |-> LedgerHold(j, y)]
    BY Zenon DEF Abstract!Hold, Abstract!Ids, LedgerHold, Ids
  <2>2. \A f, n : Abstract!Sum(f, n) = Sum(f, n)
    BY Zenon DEF Abstract!Sum, Abstract!PartialSums, Sum, PartialSums
  <2> QED BY Zenon, <2>1, <2>2 DEF Abstract!Held, LedgerHeld
<1>2. [x \in Tenants |-> Available(x)]' = [[x \in Tenants |-> Available(x)] EXCEPT ![y] = @ - cost]
  BY Zenon
<1>3. [j \in Ids |-> OpenHold(j)]' =
        [[j \in Ids |-> OpenHold(j)] EXCEPT ![i] = [tenant |-> y, amount |-> cost]]
  BY Zenon
<1>4. [x \in Tenants |-> Spent(x)]' = [x \in Tenants |-> Spent(x)]
      /\ [x \in Tenants |-> Granted(x)]' = [x \in Tenants |-> Granted(x)]
      /\ SavedLedger' = SavedLedger
  BY Zenon DEF SavedLedger
<1>5. Abstract!Reserve(y, cost, i)
  BY Zenon, <1>1, <1>2, <1>3, <1>4 DEF Abstract!Reserve
<1>6. i \in Abstract!Ids
  BY Zenon DEF Ids, Abstract!Ids
<1> QED BY Zenon, <1>5, <1>6 DEF Abstract!Next

\* Hold i of tenant y is settled at a cost.
LEMMA LedgerCommits ==
  ASSUME IInv, IInv', UNCHANGED <<tenants, limits, saved>>, NEW i \in Ids, NEW r, OpenHold(i) = r,
         r # None, r.tenant \in Tenants, r.amount \in Int, NEW actual \in Amounts, actual >= 0,
         actual - r.amount <= Available(r.tenant),
         \A x \in Tenants : /\ Available(x)' = IF x = r.tenant THEN Available(x) + r.amount - actual
                                               ELSE Available(x)
                            /\ Spent(x)' = IF x = r.tenant THEN Spent(x) + actual ELSE Spent(x)
                            /\ Granted(x)' = Granted(x),
         \A j \in Ids : OpenHold(j)' = IF j = i THEN None ELSE OpenHold(j)
  PROVE  Abstract!Next
<1>1. [x \in Tenants |-> Available(x)]' =
        [[x \in Tenants |-> Available(x)] EXCEPT ![r.tenant] = @ + r.amount - actual]
  BY Zenon
<1>2. [x \in Tenants |-> Spent(x)]' = [[x \in Tenants |-> Spent(x)] EXCEPT ![r.tenant] = @ + actual]
  BY Zenon
<1>3. [j \in Ids |-> OpenHold(j)]' = [[j \in Ids |-> OpenHold(j)] EXCEPT ![i] = None]
  BY Zenon
<1>4. [x \in Tenants |-> Granted(x)]' = [x \in Tenants |-> Granted(x)] /\ SavedLedger' = SavedLedger
  BY Zenon DEF SavedLedger
<1>5. Abstract!Commit(i, actual)
  BY Zenon, <1>1, <1>2, <1>3, <1>4 DEF Abstract!Commit
<1>6. i \in Abstract!Ids
  BY Zenon DEF Ids, Abstract!Ids
<1> QED BY Zenon, <1>5, <1>6 DEF Abstract!Next

\* Hold i is given back.
LEMMA LedgerReleases ==
  ASSUME UNCHANGED <<tenants, limits, saved>>, NEW i \in Ids, NEW r, OpenHold(i) = r,
         r # None, r.tenant \in Tenants,
         \A x \in Tenants : /\ Available(x)' = IF x = r.tenant THEN Available(x) + r.amount
                                               ELSE Available(x)
                            /\ Spent(x)' = Spent(x) /\ Granted(x)' = Granted(x),
         \A j \in Ids : OpenHold(j)' = IF j = i THEN None ELSE OpenHold(j)
  PROVE  Abstract!Next
<1>1. [x \in Tenants |-> Available(x)]' =
        [[x \in Tenants |-> Available(x)] EXCEPT ![r.tenant] = @ + r.amount]
  BY Zenon
<1>2. [x \in Tenants |-> Spent(x)]' = [x \in Tenants |-> Spent(x)]
      /\ [x \in Tenants |-> Granted(x)]' = [x \in Tenants |-> Granted(x)]
      /\ SavedLedger' = SavedLedger
  BY Zenon DEF SavedLedger
<1>3. [j \in Ids |-> OpenHold(j)]' = [[j \in Ids |-> OpenHold(j)] EXCEPT ![i] = None]
  BY Zenon
<1>4. Abstract!Release(i)
  BY Zenon, <1>1, <1>2, <1>3 DEF Abstract!Release
<1>5. i \in Abstract!Ids
  BY Zenon DEF Ids, Abstract!Ids
<1> QED BY Zenon, <1>4, <1>5 DEF Abstract!Next

\* The balance and the grant of tenant y grow by the amount.
LEMMA LedgerTopsUp ==
  ASSUME UNCHANGED <<tenants, limits, saved>>, NEW y \in tenants, y \in Tenants,
         NEW amount \in Amounts, amount > 0, Granted(y) + amount <= MaxI64,
         \A x \in Tenants : /\ Available(x)' = IF x = y THEN Available(x) + amount ELSE Available(x)
                            /\ Granted(x)' = IF x = y THEN Granted(x) + amount ELSE Granted(x)
                            /\ Spent(x)' = Spent(x),
         \A j \in Ids : OpenHold(j)' = OpenHold(j)
  PROVE  Abstract!Next
<1>1. [x \in Tenants |-> Available(x)]' = [[x \in Tenants |-> Available(x)] EXCEPT ![y] = @ + amount]
  BY Zenon
<1>2. [x \in Tenants |-> Granted(x)]' = [[x \in Tenants |-> Granted(x)] EXCEPT ![y] = @ + amount]
  BY Zenon
<1>3. [x \in Tenants |-> Spent(x)]' = [x \in Tenants |-> Spent(x)]
      /\ [j \in Ids |-> OpenHold(j)]' = [j \in Ids |-> OpenHold(j)]
      /\ SavedLedger' = SavedLedger
  BY Zenon DEF SavedLedger
<1>4. Abstract!TopUp(y, amount)
  BY Zenon, <1>1, <1>2, <1>3 DEF Abstract!TopUp
<1> QED BY Zenon, <1>4 DEF Abstract!Next

-----------------------------------------------------------------------------
(***************************************************************************)
(* What each step of the engine is for the ledger                          *)
(***************************************************************************)
\* A step before the debit or after a failure is a stutter.
LEMMA QuietStep ==
  ASSUME IInv, IInv', NEW t \in Threads, OnlyMoves(t), pc[t] \notin Settling,
         UNCHANGED <<tenants, committed, limits, budgets, saved, reservationsLock>>,
         \A x \in Tenants : Granted(x)' = Granted(x),
         \A i \in Ids : OpenHold(i)' = OpenHold(i)
  PROVE  UNCHANGED Abstract!vars
<1>1. \A x \in Tenants : Available(x)' = Available(x) /\ Spent(x)' = Spent(x)
  BY Zenon, OwedSame DEF Available, Spent
<1> QED BY Zenon, <1>1, LedgerStays

\* Lookup, counting, allocation and giving up are invisible.
LEMMA ReserveBeforeDebit ==
  ASSUME IInv, IInv', NEW t \in Threads,
         \/ \E y \in Tenants, cost \in Amounts : ReserveLookup(t, y, cost)
         \/ ReserveCount(t) \/ ReserveAllocate(t) \/ ReserveUncount(t)
  PROVE  UNCHANGED Abstract!vars
<1>1. \A x \in Tenants : CellStep(t, x)
  BY Zenon, ReserveLookupMoves, ReserveCountMoves, ReserveAllocateMoves, ReserveUncountMoves DEF IInv
<1>2. OnlyMoves(t) /\ reservations' = reservations /\ \A x \in Tenants : Granted(x)' = Granted(x)
  <2>1. reservations' = reservations
    BY Zenon DEF ReserveLookup, ReserveCount, ReserveAllocate, ReserveUncount, maps
  <2>2. OnlyMoves(t)
    BY Zenon, GotoMoves, EnterMoves
    DEF ReserveLookup, ReserveCount, ReserveAllocate, ReserveUncount, Return, OnlyMoves, IInv
  <2> QED BY Zenon, <1>1, <2>1, <2>2 DEF CellStep
<1>3. /\ pc[t] \in {"idle", "count", "allocate", "uncount"}
      /\ pc'[t] \in {"count", "idle", "allocate", "debit", "uncount"}
  BY Zenon, GotoMoves, EnterMoves
  DEF ReserveLookup, ReserveCount, ReserveAllocate, ReserveUncount, Return, IInv
<1>4. UNCHANGED <<tenants, committed, limits, budgets, saved, reservationsLock>>
  BY Zenon DEF ReserveLookup, ReserveCount, ReserveAllocate, ReserveUncount, maps, fences, mutexes
<1>5. \A i \in Ids : OpenHold(i)' = OpenHold(i)
  BY Zenon, <1>2, <1>3, HoldsStay DEF Pending
<1> QED BY Zenon, <1>2, <1>3, <1>4, <1>5, QuietStep DEF Settling

\* The debit of a reservation is where it takes effect.
LEMMA ReserveDebitIs ==
  ASSUME IInv, IInv', CallAmounts, DebitsCounted, NEW t \in Threads, ReserveDebit(t)
  PROVE  Abstract!Next \/ UNCHANGED Abstract!vars
<1>1. \A x \in Tenants : Granted(x)' = Granted(x)
  BY Zenon, ReserveDebitMoves DEF IInv, CellStep
<1>2. /\ pc[t] = "debit" /\ OnlyMoves(t)
      /\ UNCHANGED <<tenants, committed, limits, reservations, saved, reservationsLock>>
  BY Zenon, GotoMoves DEF ReserveDebit, OnlyMoves, maps, fences, mutexes, IInv
<1>3. \A x \in Tenants : OwedBalance(x)' = OwedBalance(x) /\ OwedSpend(x)' = OwedSpend(x)
  BY Zenon, <1>2, OwedSame DEF Settling
<1>4. CASE Goto(t, "uncount") /\ UNCHANGED budgets
  <2>1. pc'[t] = "uncount"
    BY Zenon, <1>4, GotoMoves DEF IInv
  <2>2. \A i \in Ids : OpenHold(i)' = OpenHold(i)
    BY Zenon, <1>2, <2>1, HoldsStay DEF Pending
  <2> QED BY Zenon, <1>1, <1>2, <1>4, <2>2, QuietStep DEF Settling
<1>5. CASE /\ ~(budgets[local[t].tenant] < local[t].amount)
           /\ budgets' = Add(budgets, local[t].tenant, -local[t].amount) /\ Goto(t, "insert")
  <2>1. PICK y \in Tenants, cost \in Amounts, i \in Ids :
          /\ y = local[t].tenant /\ cost = local[t].amount /\ i = local[t].id
          /\ y \in tenants /\ cost \in Int /\ cost >= 1 /\ reservations[i] = None
          /\ \A u \in Threads : u # t /\ Pending(u) => local[u].id # i
    BY <1>2, ThreadFacts DEF CallAmounts
  <2>2. pc'[t] = "insert" /\ local'[t] = local[t]
    BY Zenon, <1>5, GotoMoves DEF IInv
  <2>3. OpenHold(i) = None
    BY Zenon, <1>2, <2>1, PlainHold DEF Pending
  <2>4. OpenHold(i)' = [tenant |-> y, amount |-> cost]
    BY Zenon, <2>1, <2>2, PendingHoldNext DEF Pending, Rec, IInv
  <2>5. \A j \in Ids : j # i => OpenHold(j)' = OpenHold(j)
    BY ZenonT(30), <1>2, <2>1, <2>2, HoldElsewhere DEF Pending, IInv, OnlyMoves
  <2>6. budgets \in [Tenants -> Int] /\ budgets[y] >= cost
    BY <1>5, <2>1, StepFacts DEF LedgerShape, IInv
  <2>7. \A x \in Tenants : budgets'[x] = IF x = y THEN budgets[x] - cost ELSE budgets[x]
    BY Zenon, <1>5, <2>1, <2>6 DEF Add
  <2>8. \A x \in Tenants : /\ Available(x)' = IF x = y THEN Available(x) - cost ELSE Available(x)
                           /\ Spent(x)' = Spent(x)
    <3> TAKE x \in Tenants
    <3>1. /\ Available(x) = budgets[x] + OwedBalance(x)
          /\ Available(x)' = budgets'[x] + OwedBalance(x) /\ Spent(x)' = Spent(x)
      BY Zenon, <1>2, <1>3 DEF Available, Spent
    <3>2. budgets'[x] = IF x = y THEN budgets[x] - cost ELSE budgets[x]
      BY Zenon, <2>7
    <3>3. budgets[x] \in Int /\ OwedBalance(x) \in Int /\ cost \in Int
      BY Zenon, <2>1, MappedInts
    <3> QED BY ONLY <3>1, <3>2, <3>3
  <2>9. cost <= Available(y)
    <3>1. Available(y) = budgets[y] + OwedBalance(y)
      BY Zenon DEF Available
    <3>2. /\ budgets[y] \in Int /\ OwedBalance(y) \in Int /\ OwedBalance(y) >= 0 /\ cost \in Int
          /\ budgets[y] >= cost
      BY ZenonT(30), <2>1, <2>6, MappedInts
    <3> QED BY ONLY <3>1, <3>2
  <2>10. limits[y] > 0 => LedgerHeld(y) + cost <= limits[y]
    <3>1. LedgerHeld(y) + cost <= reservedTotals[y] /\ LedgerHeld(y) \in Int
      BY Zenon, <1>2, <2>1 DEF DebitsCounted
    <3>2. limits[y] > 0 => reservedTotals[y] <= limits[y]
      BY Zenon, <1>2, <2>1 DEF IInv, LimitsObserved
    <3>3. reservedTotals[y] \in Int /\ limits[y] \in Int
      BY ConstantsAssumption DEF IInv, TypeOK, Ledger
    <3> QED BY <2>1, <3>1, <3>2, <3>3
  <2> HIDE DEF Abstract!Next
  <2>11. Abstract!Next
    <3>1. cost > 0
      BY ONLY <2>1
    <3>2. \A x \in Tenants :
            /\ Available(x)' = IF x = y THEN Available(x) - cost ELSE Available(x)
            /\ Spent(x)' = Spent(x) /\ Granted(x)' = Granted(x)
      BY Zenon, <1>1, <2>8
    <3>3. \A j \in Ids : OpenHold(j)' = IF j = i THEN [tenant |-> y, amount |-> cost] ELSE OpenHold(j)
      BY Zenon, <2>4, <2>5
    <3>4. y \in tenants /\ UNCHANGED <<tenants, limits, saved>>
      BY Zenon, <1>2, <2>1
    <3> QED BY Zenon, <2>3, <2>9, <2>10, <3>1, <3>2, <3>3, <3>4, LedgerReserves
  <2> QED BY Zenon, <2>11
<1> QED BY Zenon, <1>4, <1>5 DEF ReserveDebit

\* The insertion puts into the map what the ledger has held since the debit.
LEMMA ReserveInsertIs ==
  ASSUME IInv, IInv', NEW t \in Threads, ReserveInsert(t)
  PROVE  UNCHANGED Abstract!vars
<1>1. \A x \in Tenants : Granted(x)' = Granted(x)
  BY Zenon, ReserveInsertMoves DEF IInv, RecordStep
<1>2. /\ pc[t] = "insert" /\ OnlyMoves(t) /\ pc'[t] = "idle"
      /\ UNCHANGED <<tenants, committed, limits, budgets, saved, reservationsLock>>
      /\ reservations' = [reservations EXCEPT ![local[t].id] = Rec(t)]
  BY Zenon, EnterMoves DEF ReserveInsert, Return, OnlyMoves, fences, mutexes, IInv, Rec
<1>3. PICK i \in Ids : i = local[t].id /\ \A u \in Threads : u # t /\ Pending(u) => local[u].id # i
  BY Zenon, <1>2, ThreadFacts
<1>4. OpenHold(i) = Rec(t)
  BY Zenon, <1>2, <1>3, PendingHold DEF IInv, Pending
<1>5. reservations'[i] = Rec(t) /\ \A j \in Ids : j # i => reservations'[j] = reservations[j]
  BY Zenon, <1>2, <1>3 DEF IInv, TypeOK
<1>6. OpenHold(i)' = Rec(t)
  <2>1. \A u \in Threads : Pending(u)' => local'[u].id # i
    BY Zenon, <1>2, <1>3 DEF Pending, OnlyMoves
  <2> QED BY Zenon, <1>5, <2>1, PlainHoldNext
<1>7. \A j \in Ids : j # i => OpenHold(j)' = OpenHold(j)
  BY Zenon, <1>2, <1>3, <1>5, HoldElsewhere DEF Pending, IInv, OnlyMoves
<1>8. \A j \in Ids : OpenHold(j)' = OpenHold(j)
  BY Zenon, <1>4, <1>6, <1>7
<1> QED BY Zenon, <1>1, <1>2, <1>8, QuietStep DEF Settling

\* A commit without overrun takes effect when it takes the record; with one it is still open.
LEMMA CommitTakeIs ==
  ASSUME IInv, IInv', NEW t \in Threads, NEW i \in Ids, NEW actual \in Amounts, CommitTake(t, i, actual)
  PROVE  Abstract!Next \/ UNCHANGED Abstract!vars
<1> DEFINE r == reservations[i]
<1>1. \A x \in Tenants : Granted(x)' = Granted(x)
  BY Zenon, CommitTakeMoves DEF IInv, RecordStep
<1>2. /\ pc[t] = "idle" /\ OnlyMoves(t) /\ actual >= 0 /\ r # None
      /\ reservationsLock = 0 /\ reservationsLock' = t
      /\ UNCHANGED <<tenants, committed, limits, budgets, saved>>
      /\ reservations' = [reservations EXCEPT ![i] = None]
      /\ pc'[t] = IF actual > r.amount THEN "commit_debit" ELSE "commit_write"
      /\ local'[t].id = i /\ local'[t].tenant = r.tenant /\ local'[t].amount = r.amount
      /\ local'[t].actual = actual
  <2>1. PICK m : Enter(t, IF actual > r.amount THEN "commit_debit" ELSE "commit_write",
                 [Call(r.tenant, r.amount) EXCEPT !.id = i, !.actual = actual, !.next = m])
    BY Zenon DEF CommitTake
  <2>2. /\ pc'[t] = IF actual > r.amount THEN "commit_debit" ELSE "commit_write"
        /\ local'[t] = [Call(r.tenant, r.amount) EXCEPT !.id = i, !.actual = actual, !.next = m]
        /\ OnlyMoves(t)
    BY <2>1, EnterMoves DEF IInv, OnlyMoves
  <2>3. /\ local'[t].id = i /\ local'[t].tenant = r.tenant /\ local'[t].amount = r.amount
        /\ local'[t].actual = actual
    BY Zenon, <2>2 DEF Call, NoCall
  <2> QED BY Zenon, <2>2, <2>3 DEF CommitTake, fences
<1>3. /\ OpenHold(i) = r /\ r \in Record
      /\ pc'[t] # "commit_debit" => OpenHold(i)' = None
      /\ \A j \in Ids : j # i => OpenHold(j)' = OpenHold(j)
  BY Zenon, <1>2, TakenHold
<1> HIDE DEF r
<1>4. r.tenant \in Tenants /\ r.amount \in Int /\ r.amount >= 1 /\ actual \in Int
  BY <1>3, ConstantsAssumption DEF Record
<1>5. \A x \in Tenants : /\ OwedBalance(x) = 0 /\ OwedSpend(x) = 0
                         /\ OwedBalance(x)' = OwesBalance(t, x)' /\ OwedSpend(x)' = OwesSpend(t, x)'
  BY Zenon, <1>2, OwedByHolder
<1>6. \A x \in Tenants : budgets[x] \in Int /\ committed[x] \in Int
  BY Zenon, MappedInts
<1>7. CASE actual > r.amount
  <2>1. \A x \in Tenants : OwedBalance(x)' = 0 /\ OwedSpend(x)' = 0
    BY Zenon, <1>2, <1>5, <1>7 DEF OwesBalance, OwesSpend
  <2>2. \A x \in Tenants : Available(x)' = Available(x) /\ Spent(x)' = Spent(x)
    BY Zenon, <1>2, <1>5, <2>1 DEF Available, Spent
  <2>3. OpenHold(i)' = Rec(t)'
    BY Zenon, <1>2, <1>7, PendingHoldNext DEF IInv, Pending
  <2>4. Rec(t)' = r
    BY Zenon, <1>2, <1>3 DEF Rec, Record
  <2>5. \A j \in Ids : OpenHold(j)' = OpenHold(j)
    BY Zenon, <1>3, <2>3, <2>4
  <2>6. UNCHANGED Abstract!vars
    BY Zenon, <1>1, <1>2, <2>2, <2>5, LedgerStays
  <2> QED BY Zenon, <2>6
<1>8. CASE ~(actual > r.amount)
  <2>1. \A x \in Tenants : /\ OwedBalance(x)' = IF x = r.tenant THEN r.amount - actual ELSE 0
                           /\ OwedSpend(x)' = IF x = r.tenant THEN actual ELSE 0
    <3>1. ~(actual < r.amount) => r.amount - actual = 0
      BY ONLY <1>4, <1>8
    <3>2. pc'[t] = "commit_write"
      BY Zenon, <1>2, <1>8
    <3> QED BY Zenon, <1>2, <1>5, <3>1, <3>2 DEF OwesBalance, OwesSpend
  <2>2. \A x \in Tenants : /\ Available(x)' = IF x = r.tenant THEN Available(x) + r.amount - actual
                                              ELSE Available(x)
                           /\ Spent(x)' = IF x = r.tenant THEN Spent(x) + actual ELSE Spent(x)
    <3> TAKE x \in Tenants
    <3>1. /\ Available(x) = budgets[x] + 0 /\ Available(x)' = budgets[x] + OwedBalance(x)'
          /\ Spent(x) = committed[x] + 0 /\ Spent(x)' = committed[x] + OwedSpend(x)'
      BY Zenon, <1>2, <1>5 DEF Available, Spent
    <3>2. /\ OwedBalance(x)' = IF x = r.tenant THEN r.amount - actual ELSE 0
          /\ OwedSpend(x)' = IF x = r.tenant THEN actual ELSE 0
      BY Zenon, <2>1
    <3>3. budgets[x] \in Int /\ committed[x] \in Int
      BY Zenon, <1>6
    <3> QED BY ONLY <1>4, <3>1, <3>2, <3>3
  <2>3. \A j \in Ids : OpenHold(j)' = IF j = i THEN None ELSE OpenHold(j)
    BY Zenon, <1>2, <1>3, <1>8
  <2>4. actual - r.amount <= Available(r.tenant)
    <3>1. budgets[r.tenant] \in Int /\ budgets[r.tenant] >= 0
      BY <1>4, ConstantsAssumption DEF IInv, TypeOK, Ledger
    <3>2. Available(r.tenant) = budgets[r.tenant] + 0
      BY Zenon, <1>4, <1>5 DEF Available
    <3> QED BY ONLY <1>4, <1>8, <3>1, <3>2
  <2>5. Abstract!Next
    BY Zenon, <1>1, <1>2, <1>3, <1>4, <2>2, <2>3, <2>4, LedgerCommits
  <2> QED BY Zenon, <2>5
<1> QED BY Zenon, <1>7, <1>8

\* A commit with an overrun takes effect at the debit of the difference; a debit that fails
\* puts the record back and leaves the ledger as it was.
LEMMA CommitDebitIs ==
  ASSUME IInv, IInv', CallAmounts, NEW t \in Threads, CommitDebit(t)
  PROVE  Abstract!Next \/ UNCHANGED Abstract!vars
<1>1. \A x \in Tenants : Granted(x)' = Granted(x)
  BY Zenon, CommitDebitMoves DEF IInv, RecordStep
<1>2. pc[t] = "commit_debit" /\ UNCHANGED <<tenants, committed, limits, saved>>
  BY ZenonT(30) DEF CommitDebit, fences
<1>3. PICK y \in Tenants, i \in Ids, amount \in Int, actual \in Amounts :
        /\ y = local[t].tenant /\ i = local[t].id /\ amount = local[t].amount /\ actual = local[t].actual
        /\ actual \in Int /\ actual > amount /\ amount >= 1 /\ reservations[i] = None
        /\ reservationsLock = t /\ Rec(t) # None
        /\ \A u \in Threads : u # t /\ Pending(u) => local[u].id # i
  BY <1>2, ThreadFacts DEF CallAmounts, Settling
<1>4. OpenHold(i) = Rec(t)
  BY Zenon, <1>2, <1>3, PendingHold DEF IInv, Pending
<1>5. \A x \in Tenants : OwedBalance(x) = 0 /\ OwedSpend(x) = 0
  BY Zenon, <1>2, <1>3, OwedByHolder DEF OwesBalance, OwesSpend
<1>6. budgets \in [Tenants -> Int] /\ \A x \in Tenants : committed[x] \in Int
  BY Zenon, StepFacts DEF LedgerShape, LedgerInt, IInv
<1>7. CASE /\ reservations' = [reservations EXCEPT ![local[t].id] = Rec(t)]
           /\ reservationsLock' = 0 /\ Return(t) /\ UNCHANGED budgets
  <2>1. OnlyMoves(t) /\ pc'[t] = "idle"
    BY Zenon, <1>7, EnterMoves DEF Return, OnlyMoves, IInv
  <2>2. reservations'[i] = Rec(t) /\ \A j \in Ids : j # i => reservations'[j] = reservations[j]
    BY Zenon, <1>3, <1>7 DEF IInv, TypeOK
  <2>3. OpenHold(i)' = Rec(t)
    <3>1. \A u \in Threads : Pending(u)' => local'[u].id # i
      BY Zenon, <1>3, <2>1 DEF Pending, OnlyMoves
    <3> QED BY Zenon, <2>2, <3>1, PlainHoldNext
  <2>4. \A j \in Ids : j # i => OpenHold(j)' = OpenHold(j)
    BY Zenon, <1>2, <1>3, <2>1, <2>2, HoldElsewhere DEF Pending, IInv, OnlyMoves
  <2>5. \A j \in Ids : OpenHold(j)' = OpenHold(j)
    BY Zenon, <1>4, <2>3, <2>4
  <2>6. \A x \in Tenants : Available(x)' = Available(x) /\ Spent(x)' = Spent(x)
    BY Zenon, <1>2, <1>5, <1>7, OwedByHolder DEF Available, Spent
  <2>7. UNCHANGED Abstract!vars
    BY Zenon, <1>1, <1>2, <2>5, <2>6, LedgerStays
  <2> QED BY Zenon, <2>7
<1>8. CASE /\ ~(budgets[y] < actual - amount)
           /\ budgets' = Add(budgets, y, -(actual - amount)) /\ Goto(t, "commit_write")
           /\ UNCHANGED <<reservations, reservationsLock>>
  <2>1. OnlyMoves(t) /\ pc'[t] = "commit_write" /\ local'[t] = local[t]
    BY Zenon, <1>8, GotoMoves DEF OnlyMoves, IInv
  <2>2. OpenHold(i)' = None
    <3>1. \A u \in Threads : Pending(u)' => local'[u].id # i
      BY Zenon, <1>3, <2>1 DEF Pending, OnlyMoves
    <3> QED BY Zenon, <1>3, <1>8, <3>1, PlainHoldNext
  <2>3. \A j \in Ids : j # i => OpenHold(j)' = OpenHold(j)
    BY Zenon, <1>2, <1>3, <1>8, <2>1, HoldElsewhere DEF Pending, IInv, OnlyMoves
  <2>4. \A x \in Tenants : OwedBalance(x)' = 0 /\ OwedSpend(x)' = IF x = y THEN actual ELSE 0
    <3>1. ~(actual < amount)
      BY ONLY <1>3
    <3>2. reservationsLock' = t
      BY Zenon, <1>3, <1>8
    <3>3. \A x \in Tenants : OwedBalance(x)' = OwesBalance(t, x)' /\ OwedSpend(x)' = OwesSpend(t, x)'
      BY Zenon, <3>2, OwedByHolder
    <3>4. \A x \in Tenants : OwesBalance(t, x)' = 0 /\ OwesSpend(t, x)' = IF x = y THEN actual ELSE 0
      BY Zenon, <1>3, <2>1, <3>1 DEF OwesBalance, OwesSpend
    <3> QED BY Zenon, <3>3, <3>4
  <2>5. \A x \in Tenants : budgets'[x] = IF x = y THEN budgets[x] - (actual - amount) ELSE budgets[x]
    BY Zenon, <1>3, <1>6, <1>8 DEF Add
  <2>6. \A x \in Tenants : /\ Available(x)' = IF x = y THEN Available(x) + amount - actual
                                              ELSE Available(x)
                           /\ Spent(x)' = IF x = y THEN Spent(x) + actual ELSE Spent(x)
    <3> TAKE x \in Tenants
    <3>1. /\ Available(x) = budgets[x] + 0 /\ Available(x)' = budgets'[x] + 0
          /\ Spent(x) = committed[x] + 0
          /\ Spent(x)' = committed[x] + IF x = y THEN actual ELSE 0
      BY Zenon, <1>2, <1>5, <2>4 DEF Available, Spent
    <3>2. budgets'[x] = IF x = y THEN budgets[x] - (actual - amount) ELSE budgets[x]
      BY Zenon, <2>5
    <3>3. budgets[x] \in Int /\ committed[x] \in Int /\ actual \in Int /\ amount \in Int
      BY Zenon, <1>3, <1>6
    <3> QED BY ONLY <3>1, <3>2, <3>3
  <2>7. actual - amount <= Available(y)
    <3>1. Available(y) = budgets[y] + 0 /\ ~(budgets[y] < actual - amount)
      BY Zenon, <1>3, <1>5, <1>8 DEF Available
    <3>2. budgets[y] \in Int /\ actual \in Int /\ amount \in Int
      BY Zenon, <1>3, <1>6
    <3> QED BY ONLY <3>1, <3>2
  <2>8. PICK r : r = Rec(t) /\ r.tenant = y /\ r.amount = amount
    <3>1. Rec(t).tenant = y /\ Rec(t).amount = amount
      BY Zenon, <1>3 DEF Rec
    <3> QED BY Zenon, <3>1
  <2>9. OpenHold(i) = r /\ r # None /\ r.tenant \in Tenants /\ r.amount \in Int
    BY Zenon, <1>3, <1>4, <2>8
  <2>10. /\ actual - r.amount <= Available(r.tenant)
         /\ \A x \in Tenants :
              /\ Available(x)' = IF x = r.tenant THEN Available(x) + r.amount - actual ELSE Available(x)
              /\ Spent(x)' = IF x = r.tenant THEN Spent(x) + actual ELSE Spent(x)
    BY Zenon, <2>6, <2>7, <2>8
  <2>11. \A j \in Ids : OpenHold(j)' = IF j = i THEN None ELSE OpenHold(j)
    BY Zenon, <2>2, <2>3
  <2>12. actual >= 0
    BY ONLY <1>3
  <2>13. /\ UNCHANGED <<tenants, limits, saved>>
         /\ \A x \in Tenants :
              /\ Available(x)' = IF x = r.tenant THEN Available(x) + r.amount - actual ELSE Available(x)
              /\ Spent(x)' = IF x = r.tenant THEN Spent(x) + actual ELSE Spent(x)
              /\ Granted(x)' = Granted(x)
    BY Zenon, <1>1, <1>2, <2>10
  <2>14. Abstract!Next
    BY Zenon, <2>9, <2>10, <2>11, <2>12, <2>13, LedgerCommits
  <2> QED BY Zenon, <2>14
<1> QED BY Zenon, <1>3, <1>7, <1>8 DEF CommitDebit, Rec

\* Nothing is owed any more once the mutex is free.
StillOwes(n) == IF reservationsLock' = 0 THEN 0 ELSE n

\* A settling step that keeps the map and the sum of what is written and owed is a stutter.
LEMMA SettlingStep ==
  ASSUME IInv, IInv', NEW t \in Threads, OnlyMoves(t), pc[t] \in Settling, pc[t] # "commit_debit",
         ~Pending(t)', reservationsLock' \in {0, t}, UNCHANGED <<tenants, limits, saved, reservations>>,
         \A x \in Tenants : Granted(x)' = Granted(x),
         \A x \in Tenants : /\ budgets'[x] + StillOwes(OwesBalance(t, x)') = budgets[x] + OwesBalance(t, x)
                            /\ committed'[x] + StillOwes(OwesSpend(t, x)') = committed[x] + OwesSpend(t, x)
  PROVE  UNCHANGED Abstract!vars
<1>1. reservationsLock = t /\ ~Pending(t)
  BY Zenon DEF IInv, LockOwners, Pending, Settling
<1>2. \A x \in Tenants : Available(x)' = Available(x) /\ Spent(x)' = Spent(x)
  <2>1. t # 0
    BY ConstantsAssumption DEF Threads
  <2>2. ASSUME NEW x \in Tenants
        PROVE  /\ OwedBalance(x) = OwesBalance(t, x) /\ OwedSpend(x) = OwesSpend(t, x)
               /\ OwedBalance(x)' = StillOwes(OwesBalance(t, x)')
               /\ OwedSpend(x)' = StillOwes(OwesSpend(t, x)')
    BY Zenon, <1>1, <2>1, OwedByHolder DEF StillOwes
  <2> QED BY Zenon, <2>2 DEF Available, Spent
<1>3. \A i \in Ids : OpenHold(i)' = OpenHold(i)
  BY Zenon, <1>1, HoldsStay
<1> QED BY Zenon, <1>2, <1>3, LedgerStays

\* The lifetime total is written.
LEMMA CommitWriteIs ==
  ASSUME IInv, IInv', NEW t \in Threads, CommitWrite(t)
  PROVE  UNCHANGED Abstract!vars
<1>1. \A x \in Tenants : Granted(x)' = Granted(x)
  BY Zenon, CommitWriteMoves DEF IInv, CellStep
<1>2. /\ pc[t] = "commit_write" /\ OnlyMoves(t) /\ local'[t] = local[t]
      /\ pc'[t] = (IF local[t].actual < local[t].amount THEN "commit_refund" ELSE "commit_uncount")
      /\ UNCHANGED <<tenants, limits, saved, reservations, budgets, reservationsLock>>
      /\ committed' = [committed EXCEPT ![local[t].tenant] = local[t].next]
  BY Zenon, GotoMoves DEF CommitWrite, OnlyMoves, fences, mutexes, IInv
<1>3. PICK y \in Tenants, amount \in Int, actual \in Int :
        /\ y = local[t].tenant /\ amount = local[t].amount /\ actual = local[t].actual
        /\ local[t].next = committed[y] + actual /\ reservationsLock = t /\ t # 0
  BY Zenon, <1>2, ThreadFacts, ThreadNumbers DEF Settling
<1>4. committed \in [Tenants -> Int] /\ \A x \in Tenants : budgets[x] \in Int
  BY Zenon, StepFacts DEF LedgerShape, LedgerInt, IInv
<1>5. \A x \in Tenants : committed'[x] = IF x = y THEN committed[x] + actual ELSE committed[x]
  BY Zenon, <1>2, <1>3, <1>4
<1>6. \A x \in Tenants : /\ OwesBalance(t, x)' = OwesBalance(t, x) /\ OwesSpend(t, x)' = 0
                         /\ OwesSpend(t, x) = IF x = y THEN actual ELSE 0
  BY ZenonT(30), <1>2, <1>3 DEF OwesBalance, OwesSpend
<1>7. ASSUME NEW x \in Tenants
      PROVE  /\ budgets'[x] + StillOwes(OwesBalance(t, x)') = budgets[x] + OwesBalance(t, x)
             /\ committed'[x] + StillOwes(OwesSpend(t, x)') = committed[x] + OwesSpend(t, x)
  <2>1. /\ StillOwes(OwesBalance(t, x)') = OwesBalance(t, x) /\ budgets'[x] = budgets[x]
        /\ StillOwes(OwesSpend(t, x)') = 0
    BY Zenon, <1>2, <1>3, <1>6 DEF StillOwes
  <2>2. /\ committed'[x] = IF x = y THEN committed[x] + actual ELSE committed[x]
        /\ OwesSpend(t, x) = IF x = y THEN actual ELSE 0
    BY Zenon, <1>5, <1>6
  <2>3. committed[x] \in Int /\ actual \in Int
    BY Zenon, <1>3, <1>4
  <2>4. committed'[x] + 0 = committed[x] + OwesSpend(t, x)
    BY ONLY <2>2, <2>3
  <2> QED BY Zenon, <2>1, <2>4
<1> QED BY Zenon, <1>1, <1>2, <1>3, <1>7, SettlingStep DEF Settling, Pending

\* The surplus of a commit is refunded.
LEMMA CommitRefundIs ==
  ASSUME IInv, IInv', NEW t \in Threads, CommitRefund(t)
  PROVE  UNCHANGED Abstract!vars
<1>1. \A x \in Tenants : Granted(x)' = Granted(x)
  BY Zenon, CommitRefundMoves DEF IInv, CellStep
<1>2. /\ pc[t] = "commit_refund" /\ OnlyMoves(t) /\ pc'[t] = "commit_uncount"
      /\ UNCHANGED <<tenants, limits, saved, reservations, committed, reservationsLock>>
      /\ budgets' = Add(budgets, local[t].tenant, local[t].amount - local[t].actual)
  BY Zenon, GotoMoves DEF CommitRefund, OnlyMoves, maps, fences, mutexes, IInv
<1>3. PICK y \in Tenants, amount \in Int, actual \in Int :
        /\ y = local[t].tenant /\ amount = local[t].amount /\ actual = local[t].actual
        /\ actual < amount /\ reservationsLock = t /\ t # 0
  BY Zenon, <1>2, ThreadFacts, ThreadNumbers DEF Settling
<1>4. budgets \in [Tenants -> Int] /\ \A x \in Tenants : committed[x] \in Int
  BY Zenon, StepFacts DEF LedgerShape, LedgerInt, IInv
<1>5. \A x \in Tenants : budgets'[x] = IF x = y THEN budgets[x] + (amount - actual) ELSE budgets[x]
  BY Zenon, <1>2, <1>3, <1>4 DEF Add
<1>6. \A x \in Tenants : /\ OwesSpend(t, x)' = 0 /\ OwesSpend(t, x) = 0 /\ OwesBalance(t, x)' = 0
                         /\ OwesBalance(t, x) = IF x = y THEN amount - actual ELSE 0
  BY Zenon, <1>2, <1>3 DEF OwesBalance, OwesSpend
<1>7. ASSUME NEW x \in Tenants
      PROVE  /\ budgets'[x] + StillOwes(OwesBalance(t, x)') = budgets[x] + OwesBalance(t, x)
             /\ committed'[x] + StillOwes(OwesSpend(t, x)') = committed[x] + OwesSpend(t, x)
  <2>1. /\ StillOwes(OwesBalance(t, x)') = 0 /\ committed'[x] = committed[x]
        /\ StillOwes(OwesSpend(t, x)') = OwesSpend(t, x)
    BY Zenon, <1>2, <1>6 DEF StillOwes
  <2>2. /\ budgets'[x] = IF x = y THEN budgets[x] + (amount - actual) ELSE budgets[x]
        /\ OwesBalance(t, x) = IF x = y THEN amount - actual ELSE 0
    BY Zenon, <1>5, <1>6
  <2>3. budgets[x] \in Int /\ amount \in Int /\ actual \in Int
    BY Zenon, <1>3, <1>4
  <2>4. budgets'[x] + 0 = budgets[x] + OwesBalance(t, x)
    BY ONLY <2>2, <2>3
  <2> QED BY Zenon, <2>1, <2>4
<1> QED BY Zenon, <1>1, <1>2, <1>3, <1>7, SettlingStep DEF Settling, Pending

\* The reserved total, which the ledger does not have, is lowered at the end of a commit.
LEMMA CommitUncountIs ==
  ASSUME IInv, IInv', NEW t \in Threads, CommitUncount(t)
  PROVE  UNCHANGED Abstract!vars
<1>1. \A x \in Tenants : Granted(x)' = Granted(x)
  BY Zenon, CommitUncountMoves DEF IInv, CellStep
<1>2. /\ pc[t] = "commit_uncount" /\ OnlyMoves(t) /\ pc'[t] = "idle" /\ reservationsLock' = 0
      /\ UNCHANGED <<tenants, limits, saved, reservations, committed, budgets>>
  BY Zenon, EnterMoves DEF CommitUncount, Return, OnlyMoves, maps, fences, IInv
<1>3. \A x \in Tenants : OwesSpend(t, x) = 0 /\ OwesBalance(t, x) = 0
  BY Zenon, <1>2 DEF OwesBalance, OwesSpend
<1>4. ASSUME NEW x \in Tenants
      PROVE  /\ budgets'[x] + StillOwes(OwesBalance(t, x)') = budgets[x] + OwesBalance(t, x)
             /\ committed'[x] + StillOwes(OwesSpend(t, x)') = committed[x] + OwesSpend(t, x)
  BY Zenon, <1>2, <1>3 DEF StillOwes
<1> QED BY Zenon, <1>1, <1>2, <1>4, SettlingStep DEF Settling, Pending

\* A release takes effect when it takes the record.
LEMMA ReleaseTakeIs ==
  ASSUME IInv, IInv', NEW t \in Threads, NEW i \in Ids, ReleaseTake(t, i)
  PROVE  Abstract!Next
<1> DEFINE r == reservations[i]
<1>1. \A x \in Tenants : Granted(x)' = Granted(x)
  BY Zenon, ReleaseTakeMoves DEF IInv, RecordStep
<1>2. /\ pc[t] = "idle" /\ OnlyMoves(t) /\ r # None /\ pc'[t] = "release_uncount"
      /\ reservationsLock = 0 /\ reservationsLock' = t
      /\ UNCHANGED <<tenants, committed, limits, budgets, saved>>
      /\ reservations' = [reservations EXCEPT ![i] = None]
      /\ local'[t].id = i /\ local'[t].tenant = r.tenant /\ local'[t].amount = r.amount
  <2>1. Enter(t, "release_uncount", [Call(r.tenant, r.amount) EXCEPT !.id = i])
    BY Zenon DEF ReleaseTake
  <2>2. /\ pc'[t] = "release_uncount" /\ OnlyMoves(t)
        /\ local'[t] = [Call(r.tenant, r.amount) EXCEPT !.id = i]
    BY <2>1, EnterMoves DEF IInv, OnlyMoves
  <2>3. local'[t].id = i /\ local'[t].tenant = r.tenant /\ local'[t].amount = r.amount
    BY Zenon, <2>2 DEF Call, NoCall
  <2> QED BY Zenon, <2>2, <2>3 DEF ReleaseTake, fences
<1>3. /\ OpenHold(i) = r /\ r \in Record
      /\ pc'[t] # "commit_debit" => OpenHold(i)' = None
      /\ \A j \in Ids : j # i => OpenHold(j)' = OpenHold(j)
  BY Zenon, <1>2, TakenHold
<1> HIDE DEF r
<1>4. r.tenant \in Tenants /\ r.amount \in Int
  BY <1>3, ConstantsAssumption DEF Record
<1>5. \A x \in Tenants : /\ OwedBalance(x) = 0 /\ OwedSpend(x) = 0
                         /\ OwedBalance(x)' = OwesBalance(t, x)' /\ OwedSpend(x)' = OwesSpend(t, x)'
  BY Zenon, <1>2, OwedByHolder
<1>6. \A x \in Tenants : budgets[x] \in Int /\ committed[x] \in Int
  BY Zenon, MappedInts
<1>7. \A x \in Tenants : OwedBalance(x)' = (IF x = r.tenant THEN r.amount ELSE 0) /\ OwedSpend(x)' = 0
  BY ZenonT(30), <1>2, <1>5 DEF OwesBalance, OwesSpend
<1>8. \A x \in Tenants : /\ Available(x)' = IF x = r.tenant THEN Available(x) + r.amount ELSE Available(x)
                         /\ Spent(x)' = Spent(x)
  <2> TAKE x \in Tenants
  <2>1. /\ Available(x) = budgets[x] + 0 /\ Available(x)' = budgets[x] + OwedBalance(x)'
        /\ Spent(x) = committed[x] + 0 /\ Spent(x)' = committed[x] + 0
    BY Zenon, <1>2, <1>5, <1>7 DEF Available, Spent
  <2>2. OwedBalance(x)' = IF x = r.tenant THEN r.amount ELSE 0
    BY Zenon, <1>7
  <2>3. budgets[x] \in Int /\ r.amount \in Int
    BY Zenon, <1>4, <1>6
  <2>4. Available(x)' = IF x = r.tenant THEN Available(x) + r.amount ELSE Available(x)
    BY ONLY <2>1, <2>2, <2>3
  <2> QED BY Zenon, <2>1, <2>4
<1>9. \A j \in Ids : OpenHold(j)' = IF j = i THEN None ELSE OpenHold(j)
  BY Zenon, <1>2, <1>3
<1> QED BY Zenon, <1>1, <1>2, <1>3, <1>4, <1>8, <1>9, LedgerReleases

\* Lowering the reserved total of a release changes nothing the ledger has.
LEMMA ReleaseUncountIs ==
  ASSUME IInv, IInv', NEW t \in Threads, ReleaseUncount(t)
  PROVE  UNCHANGED Abstract!vars
<1>1. \A x \in Tenants : Granted(x)' = Granted(x)
  BY Zenon, ReleaseUncountMoves DEF IInv, CellStep
<1>2. /\ pc[t] = "release_uncount" /\ OnlyMoves(t) /\ pc'[t] = "release_credit" /\ local'[t] = local[t]
      /\ UNCHANGED <<tenants, limits, saved, reservations, committed, budgets, reservationsLock>>
  BY Zenon, GotoMoves DEF ReleaseUncount, OnlyMoves, maps, fences, mutexes, IInv
<1>3. reservationsLock = t /\ t # 0
  BY Zenon, <1>2, ThreadFacts, ThreadNumbers DEF Settling
<1>4. \A x \in Tenants : OwesSpend(t, x)' = OwesSpend(t, x) /\ OwesBalance(t, x)' = OwesBalance(t, x)
  BY Zenon, <1>2 DEF OwesBalance, OwesSpend
<1>5. ASSUME NEW x \in Tenants
      PROVE  /\ budgets'[x] + StillOwes(OwesBalance(t, x)') = budgets[x] + OwesBalance(t, x)
             /\ committed'[x] + StillOwes(OwesSpend(t, x)') = committed[x] + OwesSpend(t, x)
  BY Zenon, <1>2, <1>3, <1>4 DEF StillOwes
<1> QED BY Zenon, <1>1, <1>2, <1>3, <1>5, SettlingStep DEF Settling, Pending

\* The credit of a release is written.
LEMMA ReleaseCreditIs ==
  ASSUME IInv, IInv', NEW t \in Threads, ReleaseCredit(t)
  PROVE  UNCHANGED Abstract!vars
<1>1. \A x \in Tenants : Granted(x)' = Granted(x)
  BY Zenon, ReleaseCreditMoves DEF IInv, CellStep
<1>2. /\ pc[t] = "release_credit" /\ OnlyMoves(t) /\ pc'[t] = "idle" /\ reservationsLock' = 0
      /\ UNCHANGED <<tenants, limits, saved, reservations, committed>>
      /\ budgets' = Add(budgets, local[t].tenant, local[t].amount)
  BY Zenon, EnterMoves DEF ReleaseCredit, Return, OnlyMoves, maps, fences, IInv
<1>3. PICK y \in Tenants, amount \in Int : y = local[t].tenant /\ amount = local[t].amount
  BY Zenon, <1>2, ThreadFacts
<1>4. budgets \in [Tenants -> Int] /\ \A x \in Tenants : committed[x] \in Int
  BY Zenon, StepFacts DEF LedgerShape, LedgerInt, IInv
<1>5. \A x \in Tenants : budgets'[x] = IF x = y THEN budgets[x] + amount ELSE budgets[x]
  BY Zenon, <1>2, <1>3, <1>4 DEF Add
<1>6. \A x \in Tenants : OwesSpend(t, x) = 0 /\ OwesBalance(t, x) = IF x = y THEN amount ELSE 0
  BY ZenonT(30), <1>2, <1>3 DEF OwesBalance, OwesSpend
<1>7. ASSUME NEW x \in Tenants
      PROVE  /\ budgets'[x] + StillOwes(OwesBalance(t, x)') = budgets[x] + OwesBalance(t, x)
             /\ committed'[x] + StillOwes(OwesSpend(t, x)') = committed[x] + OwesSpend(t, x)
  <2>1. /\ StillOwes(OwesBalance(t, x)') = 0 /\ committed'[x] = committed[x]
        /\ StillOwes(OwesSpend(t, x)') = OwesSpend(t, x)
    BY Zenon, <1>2, <1>6 DEF StillOwes
  <2>2. /\ budgets'[x] = IF x = y THEN budgets[x] + amount ELSE budgets[x]
        /\ OwesBalance(t, x) = IF x = y THEN amount ELSE 0
    BY Zenon, <1>5, <1>6
  <2>3. budgets[x] \in Int /\ amount \in Int
    BY Zenon, <1>3, <1>4
  <2>4. budgets'[x] + 0 = budgets[x] + OwesBalance(t, x)
    BY ONLY <2>2, <2>3
  <2> QED BY Zenon, <2>1, <2>4
<1> QED BY Zenon, <1>1, <1>2, <1>7, SettlingStep DEF Settling, Pending

\* A top-up that has only looked the grant up has not taken effect.
LEMMA TopUpLockIs ==
  ASSUME IInv, IInv', NEW t \in Threads, NEW y \in Tenants, NEW amount \in Amounts, TopUpLock(t, y, amount)
  PROVE  UNCHANGED Abstract!vars
<1>1. /\ pc[t] = "idle" /\ OnlyMoves(t) /\ pc'[t] = "topup_credit"
      /\ UNCHANGED <<tenants, limits, saved, reservations, committed, budgets, reservationsLock>>
  BY Zenon, EnterMoves DEF TopUpLock, OnlyMoves, maps, fences, IInv
<1>2. ASSUME NEW x \in Tenants PROVE Granted(x)' = Granted(x)
  <2>1. Granted(x)' = Granted(x) + (budgets'[x] - budgets[x])
    BY Zenon, TopUpLockMoves DEF IInv, TopUpStep
  <2>2. budgets'[x] = budgets[x] /\ Granted(x) \in Int /\ budgets[x] \in Int
    BY Zenon, <1>1, MappedInts
  <2> QED BY ONLY <2>1, <2>2
<1>3. \A i \in Ids : OpenHold(i)' = OpenHold(i)
  BY Zenon, <1>1, HoldsStay DEF Pending
<1> QED BY Zenon, <1>1, <1>2, <1>3, QuietStep DEF Settling

\* A top-up takes effect at the credit of the balance.
LEMMA TopUpCreditIs ==
  ASSUME IInv, IInv', CallAmounts, NEW t \in Threads, TopUpCredit(t)
  PROVE  Abstract!Next \/ UNCHANGED Abstract!vars
<1>1. ASSUME NEW x \in Tenants PROVE Granted(x)' = Granted(x) + (budgets'[x] - budgets[x])
  BY Zenon, TopUpCreditMoves DEF IInv, TopUpStep
<1>2. /\ pc[t] = "topup_credit" /\ OnlyMoves(t) /\ pc'[t] \in {"idle", "topup_write"}
      /\ UNCHANGED <<tenants, limits, saved, reservations, committed, reservationsLock>>
  BY Zenon, GotoMoves, EnterMoves DEF TopUpCredit, Return, OnlyMoves, maps, fences, IInv
<1>3. \A i \in Ids : OpenHold(i)' = OpenHold(i)
  BY Zenon, <1>2, HoldsStay DEF Pending
<1>4. CASE UNCHANGED budgets
  <2>1. \A x \in Tenants : Granted(x)' = Granted(x)
    BY <1>1, <1>4, MappedInts
  <2> QED BY Zenon, <1>2, <1>3, <1>4, <2>1, QuietStep DEF Settling
<1>5. CASE budgets' = Add(budgets, local[t].tenant, local[t].amount)
  <2>1. PICK y \in Tenants, amount \in Amounts :
          y = local[t].tenant /\ amount = local[t].amount /\ y \in tenants /\ amount \in Int /\ amount >= 1
    BY Zenon, <1>2, ThreadFacts DEF CallAmounts
  <2>2. budgets \in [Tenants -> Int]
    BY Zenon, StepFacts DEF LedgerShape, IInv
  <2>3. \A x \in Tenants : budgets'[x] = IF x = y THEN budgets[x] + amount ELSE budgets[x]
    BY Zenon, <1>5, <2>1, <2>2 DEF Add
  <2>4. \A x \in Tenants : OwedBalance(x)' = OwedBalance(x) /\ OwedSpend(x)' = OwedSpend(x)
    BY ZenonT(30), <1>2, OwedSame DEF Settling
  <2>5. \A x \in Tenants : /\ Available(x)' = IF x = y THEN Available(x) + amount ELSE Available(x)
                           /\ Granted(x)' = IF x = y THEN Granted(x) + amount ELSE Granted(x)
                           /\ Spent(x)' = Spent(x)
    BY <1>1, <1>2, <2>1, <2>3, <2>4, MappedInts DEF Available, Spent
  <2>6. Granted(y) + amount <= MaxI64
    <3>1. initialsLock = t /\ local[t].next = initials[y] + amount
      BY ZenonT(30), <1>2, <2>1 DEF IInv, LockOwners, LocalsConsistent, ToppingUp
    <3>2. local[t].next <= MaxI64
      BY ConstantsAssumption DEF IInv, TypeOK, Locals
    <3>3. Granted(y) = initials[y]
      BY Zenon, <1>2, <3>1 DEF Granted
    <3> QED BY Zenon, <3>1, <3>2, <3>3
  <2>7. amount > 0
    BY <2>1
  <2>8. Abstract!Next
    BY Zenon, <1>2, <1>3, <2>1, <2>5, <2>6, <2>7, LedgerTopsUp
  <2> QED BY Zenon, <2>8
<1> QED BY Zenon, <1>4, <1>5 DEF TopUpCredit

\* The grant is recorded.
LEMMA TopUpWriteIs ==
  ASSUME IInv, IInv', NEW t \in Threads, TopUpWrite(t)
  PROVE  UNCHANGED Abstract!vars
<1>1. /\ pc[t] = "topup_write" /\ OnlyMoves(t) /\ pc'[t] = "idle"
      /\ UNCHANGED <<tenants, limits, saved, reservations, committed, budgets, reservationsLock>>
  BY Zenon, EnterMoves DEF TopUpWrite, Return, OnlyMoves, maps, fences, IInv
<1>2. ASSUME NEW x \in Tenants PROVE Granted(x)' = Granted(x)
  <2>1. Granted(x)' = Granted(x) + (budgets'[x] - budgets[x])
    BY Zenon, TopUpWriteMoves DEF IInv, TopUpStep
  <2>2. budgets'[x] = budgets[x] /\ Granted(x) \in Int /\ budgets[x] \in Int
    BY Zenon, <1>1, MappedInts
  <2> QED BY ONLY <2>1, <2>2
<1>3. \A i \in Ids : OpenHold(i)' = OpenHold(i)
  BY Zenon, <1>1, HoldsStay DEF Pending
<1> QED BY Zenon, <1>1, <1>2, <1>3, QuietStep DEF Settling

\* The engine holds what the ledger holds: nothing is owed or pending.
EngineIsLedger ==
  /\ reservationsLock = 0
  /\ \A x \in Tenants : Available(x) = budgets[x] /\ Spent(x) = committed[x] /\ Granted(x) = initials[x]
  /\ \A i \in Ids : OpenHold(i) = reservations[i]

\* It does so whenever the exclusive guard can be taken.
LEMMA FreeEngine == IInv /\ GateFree => EngineIsLedger
<1> SUFFICES ASSUME IInv, GateFree PROVE EngineIsLedger
  BY Zenon
<1>1. reservationsLock = 0 /\ initialsLock = 0
  <2>1. reservationsLock \in 0..N /\ initialsLock \in 0..N /\ \A u \in 0..N : u # 0 => u \in Threads
    BY ConstantsAssumption DEF IInv, TypeOK, Threads
  <2>2. \A u \in Threads : reservationsLock # u /\ initialsLock # u
    BY Zenon DEF IInv, LockOwners, GateFree, Settling, ToppingUp
  <2> QED BY Zenon, <2>1, <2>2
<1>2. \A x \in Tenants : /\ OwedBalance(x) = 0 /\ OwedSpend(x) = 0
                         /\ budgets[x] \in Int /\ committed[x] \in Int
  BY Zenon, <1>1, MappedInts DEF OwedBalance, OwedSpend, Settler
<1>3. \A x \in Tenants : /\ Available(x) = budgets[x] /\ Spent(x) = committed[x]
                         /\ Granted(x) = initials[x]
  BY <1>1, <1>2 DEF Available, Spent, Granted
<1>4. \A i \in Ids : OpenHold(i) = reservations[i]
  BY Zenon, PlainHold DEF GateFree, Pending
<1> QED BY Zenon, <1>1, <1>3, <1>4 DEF EngineIsLedger

\* The same after a step.
LEMMA FreeEngineNext == (IInv /\ GateFree => EngineIsLedger)'
BY FreeEngine, PTL

\* A new tenant is a new tenant of the ledger.
LEMMA EnsureTenantIs ==
  ASSUME IInv, IInv', AbsentIsEmpty, NEW y \in Tenants, NEW grant \in Amounts, EnsureTenant(y, grant)
  PROVE  Abstract!Next
<1>1. /\ grant >= 0 /\ y \notin tenants /\ initialsLock = 0 /\ initialsLock' = 0
      /\ UNCHANGED <<limits, reservations, saved, reservationsLock, pc, local>>
      /\ tenants' = tenants \cup {y}
      /\ budgets' = [budgets EXCEPT ![y] = grant] /\ initials' = [initials EXCEPT ![y] = grant]
      /\ committed' = [committed EXCEPT ![y] = 0]
  BY Zenon DEF EnsureTenant, fences, mutexes
<1>2. \A x \in Tenants : OwedBalance(x)' = OwedBalance(x) /\ OwedSpend(x)' = OwedSpend(x)
  BY Zenon, <1>1 DEF OwedBalance, OwedSpend, Settler
<1>3. OwedBalance(y) = 0 /\ OwedSpend(y) = 0
  <2>1. reservationsLock # 0 => reservationsLock \in Threads
    BY ConstantsAssumption DEF IInv, TypeOK, Threads
  <2>2. reservationsLock # 0 => pc[reservationsLock] \in Settling
    BY Zenon, <2>1 DEF IInv, LockOwners
  <2>3. reservationsLock # 0 => local[reservationsLock].tenant # y
    BY Zenon, <1>1, <2>1, <2>2 DEF IInv, LocalsConsistent, Settling
  <2> QED BY Zenon, <2>3 DEF OwedBalance, OwedSpend, Settler
<1>4. budgets \in Ledger /\ initials \in Ledger /\ committed \in Ledger
  BY Zenon DEF IInv, TypeOK
<1>5. \A x \in Tenants : /\ budgets'[x] = (IF x = y THEN grant ELSE budgets[x])
                         /\ initials'[x] = (IF x = y THEN grant ELSE initials[x])
                         /\ committed'[x] = (IF x = y THEN 0 ELSE committed[x])
  BY Zenon, <1>1, <1>4 DEF Ledger
<1>6. grant \in Int /\ committed[y] = 0
  BY <1>1, ConstantsAssumption DEF AbsentIsEmpty
<1>7. \A x \in Tenants : /\ Available(x)' = (IF x = y THEN grant ELSE Available(x))
                         /\ Spent(x)' = Spent(x)
  BY <1>2, <1>3, <1>5, <1>6 DEF Available, Spent
<1>8. \A x \in Tenants : Granted(x)' = (IF x = y THEN grant ELSE Granted(x))
  BY Zenon, <1>1, <1>5 DEF Granted
<1>9. \A i \in Ids : OpenHold(i)' = OpenHold(i)
  BY Zenon, <1>1 DEF OpenHold
<1>10. [x \in Tenants |-> Available(x)]' = [[x \in Tenants |-> Available(x)] EXCEPT ![y] = grant]
  BY Zenon, <1>7
<1>11. [x \in Tenants |-> Granted(x)]' = [[x \in Tenants |-> Granted(x)] EXCEPT ![y] = grant]
  BY Zenon, <1>8
<1>12. /\ [x \in Tenants |-> Spent(x)]' = [x \in Tenants |-> Spent(x)]
       /\ [i \in Ids |-> OpenHold(i)]' = [i \in Ids |-> OpenHold(i)]
       /\ SavedLedger' = SavedLedger
  BY Zenon, <1>1, <1>7, <1>9 DEF SavedLedger
<1>13. Abstract!EnsureTenant(y, grant)
  BY Zenon, <1>1, <1>10, <1>11, <1>12 DEF Abstract!EnsureTenant
<1> QED BY Zenon, <1>13 DEF Abstract!Next

\* A step under the exclusive guard, in terms of the counters.
LEMMA FreeStep ==
  ASSUME IInv, IInv', GateFree, UNCHANGED pc
  PROVE  /\ [x \in Tenants |-> Available(x)] = budgets /\ [x \in Tenants |-> Available(x)]' = budgets'
         /\ [x \in Tenants |-> Spent(x)] = committed /\ [x \in Tenants |-> Spent(x)]' = committed'
         /\ [x \in Tenants |-> Granted(x)] = initials /\ [x \in Tenants |-> Granted(x)]' = initials'
         /\ [i \in Ids |-> OpenHold(i)] = reservations /\ [i \in Ids |-> OpenHold(i)]' = reservations'
<1>1. EngineIsLedger /\ EngineIsLedger'
  BY Zenon, FreeEngine, FreeEngineNext DEF GateFree
<1>2. /\ budgets \in Ledger /\ committed \in Ledger /\ initials \in Ledger
      /\ reservations \in [Ids -> Record \cup {None}]
      /\ budgets' \in Ledger /\ committed' \in Ledger /\ initials' \in Ledger
      /\ reservations' \in [Ids -> Record \cup {None}]
  BY Zenon DEF IInv, TypeOK
<1>3. [x \in Tenants |-> Available(x)] = budgets /\ [x \in Tenants |-> Available(x)]' = budgets'
  BY Zenon, <1>1, <1>2 DEF EngineIsLedger, Ledger
<1>4. [x \in Tenants |-> Spent(x)] = committed /\ [x \in Tenants |-> Spent(x)]' = committed'
  BY Zenon, <1>1, <1>2 DEF EngineIsLedger, Ledger
<1>5. [x \in Tenants |-> Granted(x)] = initials /\ [x \in Tenants |-> Granted(x)]' = initials'
  BY Zenon, <1>1, <1>2 DEF EngineIsLedger, Ledger
<1>6. [i \in Ids |-> OpenHold(i)] = reservations /\ [i \in Ids |-> OpenHold(i)]' = reservations'
  BY Zenon, <1>1, <1>2 DEF EngineIsLedger
<1> QED BY Zenon, <1>3, <1>4, <1>5, <1>6

\* The new cap is the ledger's.
LEMMA SetLimitIs ==
  ASSUME IInv, IInv', NEW x \in Tenants, NEW max \in Amounts, SetLimit(x, max)
  PROVE  Abstract!Next
<1>1. /\ max >= 0 /\ limits' = [limits EXCEPT ![x] = max] /\ GateFree
      /\ UNCHANGED <<tenants, initials, committed, reservations, budgets, saved, pc>>
  BY Zenon DEF SetLimit, WriteLimit, fences
<1>2. SavedLedger' = SavedLedger
  BY Zenon, <1>1 DEF SavedLedger
<1>3. Abstract!SetLimit(x, max)
  BY Zenon, <1>1, <1>2, FreeStep DEF Abstract!SetLimit
<1> QED BY Zenon, <1>3 DEF Abstract!Next

\* A snapshot that is kept is a copy of the ledger.
LEMMA SnapshotIs ==
  ASSUME IInv, IInv', Snapshot
  PROVE  Abstract!Next \/ UNCHANGED Abstract!vars
<1>1. /\ GateFree /\ saved' \in {saved, Capture}
      /\ UNCHANGED <<tenants, initials, committed, limits, reservations, budgets, pc>>
  BY Zenon DEF Snapshot, CopyMaps, maps
<1>2. CASE saved' = saved
  <2>1. SavedLedger' = SavedLedger
    BY Zenon, <1>2 DEF SavedLedger
  <2>2. UNCHANGED Abstract!vars
    BY Zenon, <1>1, <2>1, FreeStep DEF Abstract!vars
  <2> QED BY Zenon, <2>2
<1>3. CASE saved' = Capture /\ saved' # saved
  <2>1. saved' # None
    <3>1. Capture \in Snapshots
      <4>1. nextId < AllocatorMask /\ nextId \in 1..AllocatorMask
        BY Zenon DEF Snapshot, CopyMaps, IInv, TypeOK
      <4>2. nextId + 1 \in 2..AllocatorMask
        BY <4>1, ConstantsAssumption
      <4> QED BY Zenon, <4>2 DEF Capture, Snapshots, IInv, TypeOK, Active
    <3> QED BY Zenon, <1>3, <3>1, SnapshotAssumption
  <2>2. (Active = {}) = (reservations = [i \in Abstract!Ids |-> None])
    BY DEF Active, IInv, TypeOK, Ids, Abstract!Ids
  <2>3. SavedLedger' = [tenants |-> tenants, available |-> budgets, spent |-> committed,
                        granted |-> initials, settled |-> Active = {}]
    BY Zenon, <1>3, <2>1 DEF SavedLedger, Capture
  <2>4. Abstract!Capture = [tenants |-> tenants, available |-> budgets, spent |-> committed,
                            granted |-> initials, settled |-> reservations = [i \in Abstract!Ids |-> None]]
    BY Zenon, <1>1, FreeStep DEF Abstract!Capture, Abstract!NoneHeld
  <2>5. SavedLedger' = Abstract!Capture
    BY Zenon, <2>2, <2>3, <2>4
  <2>6. Abstract!Snapshot
    BY Zenon, <1>1, <2>5, FreeStep DEF Abstract!Snapshot
  <2>7. Abstract!Next
    BY Zenon, <2>6 DEF Abstract!Next
  <2> QED BY Zenon, <2>7
<1> QED BY Zenon, <1>1, <1>2, <1>3

\* A restored snapshot is the ledger's.
LEMMA RestoreIs ==
  ASSUME IInv, IInv', AbsentIsEmpty, Restore
  PROVE  Abstract!Next
<1>1. /\ GateFree /\ saved # None /\ saved.active = {} /\ tenants' = saved.tenants
      /\ budgets' = [x \in Tenants |-> IF x \in saved.tenants THEN saved.budgets[x] ELSE 0]
      /\ initials' = [x \in Tenants |-> IF x \in saved.tenants THEN saved.initials[x] ELSE 0]
      /\ committed' = [x \in Tenants |-> IF x \in saved.tenants THEN saved.committed[x] ELSE 0]
      /\ limits' = [x \in Tenants |-> 0] /\ reservations' = [i \in Ids |-> None]
      /\ UNCHANGED <<saved, pc>>
  BY Zenon DEF Restore, ReplaceMaps, ReplaceLedger, Restorable
<1>2. saved \in Snapshots
  BY Zenon, <1>1 DEF IInv, TypeOK
<1>3. saved.budgets \in Ledger /\ saved.initials \in Ledger /\ saved.committed \in Ledger
      /\ saved.tenants \in SUBSET Tenants
  BY Zenon, <1>2 DEF Snapshots
<1>4. budgets' = saved.budgets /\ initials' = saved.initials /\ committed' = saved.committed
  BY Zenon, <1>1, <1>3 DEF AbsentIsEmpty, Ledger
<1>5. /\ SavedLedger' = SavedLedger
      /\ SavedLedger = [tenants |-> saved.tenants, available |-> saved.budgets, spent |-> saved.committed,
                        granted |-> saved.initials, settled |-> saved.active = {}]
  BY Zenon, <1>1 DEF SavedLedger
<1>6. SavedLedger \in LedgerSnapshots
  BY Zenon, <1>3, <1>5 DEF LedgerSnapshots
<1>7. /\ SavedLedger # None /\ SavedLedger.settled /\ SavedLedger.tenants = saved.tenants
      /\ SavedLedger.available = saved.budgets /\ SavedLedger.spent = saved.committed
      /\ SavedLedger.granted = saved.initials
  BY Zenon, <1>1, <1>5, <1>6, SnapshotAssumption
<1>8. reservations' = [i \in Abstract!Ids |-> None]
  BY Zenon, <1>1 DEF Ids, Abstract!Ids
<1>9. Abstract!Restore
  BY Zenon, <1>1, <1>4, <1>5, <1>7, <1>8, FreeStep DEF Abstract!Restore
<1> QED BY Zenon, <1>9 DEF Abstract!Next

-----------------------------------------------------------------------------
\* Every step of a thread is a step of the ledger or a stutter.
LEMMA ThreadStepIs ==
  ASSUME IInv, IInv', CallAmounts, DebitsCounted, NEW t \in Threads,
         Reserve(t) \/ Commit(t) \/ Release(t) \/ TopUp(t)
  PROVE  Abstract!Next \/ UNCHANGED Abstract!vars
<1>1. CASE Reserve(t)
  BY Zenon, <1>1, ReserveBeforeDebit, ReserveDebitIs, ReserveInsertIs DEF Reserve
<1>2. CASE Commit(t)
  BY Zenon, <1>2, CommitTakeIs, CommitDebitIs, CommitWriteIs, CommitRefundIs, CommitUncountIs DEF Commit
<1>3. CASE Release(t)
  BY Zenon, <1>3, ReleaseTakeIs, ReleaseUncountIs, ReleaseCreditIs DEF Release
<1>4. CASE TopUp(t)
  BY Zenon, <1>4, TopUpLockIs, TopUpCreditIs, TopUpWriteIs DEF TopUp
<1> QED BY Zenon, <1>1, <1>2, <1>3, <1>4

\* Every step of the engine is a step of the ledger or a stutter.
LEMMA StepIsLedger ==
  IInv /\ IInv' /\ AbsentIsEmpty /\ CallAmounts /\ DebitsCounted /\ [Next]_vars =>
    [Abstract!Next]_(Abstract!vars)
<1> SUFFICES ASSUME IInv, IInv', AbsentIsEmpty, CallAmounts, DebitsCounted, [Next]_vars
             PROVE  Abstract!Next \/ UNCHANGED Abstract!vars
  BY Zenon
<1>1. CASE Next
  BY Zenon, <1>1, ThreadStepIs, EnsureTenantIs, SetLimitIs, SnapshotIs, RestoreIs DEF Next
<1>2. CASE UNCHANGED vars
  <2>1. UNCHANGED <<tenants, limits, saved, budgets, committed, initials, reservations,
                    reservationsLock, initialsLock, pc, local>>
    BY Zenon, <1>2 DEF vars, maps, fences, mutexes
  <2>2. \A x \in Tenants : /\ Available(x)' = Available(x) /\ Spent(x)' = Spent(x)
                           /\ Granted(x)' = Granted(x)
    BY Zenon, <2>1 DEF Available, Spent, Granted, OwedBalance, OwedSpend, Settler
  <2>3. \A i \in Ids : OpenHold(i)' = OpenHold(i)
    BY Zenon, <2>1 DEF OpenHold
  <2> QED BY Zenon, <2>1, <2>2, <2>3, LedgerStays
<1> QED BY Zenon, <1>1, <1>2

\* The engine starts as an empty ledger.
LEMMA InitIsLedger == IInv /\ Init => Abstract!Init /\ AbsentIsEmpty /\ CallAmounts
<1> SUFFICES ASSUME IInv, Init PROVE Abstract!Init /\ AbsentIsEmpty /\ CallAmounts
  BY Zenon
<1>1. IInv /\ GateFree
  BY Zenon DEF Init, GateFree
<1>2. EngineIsLedger
  BY Zenon, <1>1, FreeEngine
<1>3. Abstract!Init
  BY Zenon, <1>2 DEF Init, EngineIsLedger, Abstract!Init, SavedLedger, Ids, Abstract!Ids
<1>4. AbsentIsEmpty
  BY Zenon DEF Init, AbsentIsEmpty
<1>5. CallAmounts
  BY Zenon DEF Init, CallAmounts
<1> QED BY Zenon, <1>3, <1>4, <1>5
=============================================================================
