-------------------------- MODULE BudgetEngineProofs --------------------------
(***************************************************************************)
(* Machine-checked theorems about the budget engine, for every number of   *)
(* threads, every set of tenants, every word size and every allocator      *)
(* range.                                                                  *)
(***************************************************************************)
EXTENDS BudgetEngineSteps, SumsProofs

-----------------------------------------------------------------------------
(***************************************************************************)
(* The sums                                                                *)
(***************************************************************************)

\* The terms of the three sums are integers.
LEMMA TermTypes ==
  ASSUME WeakTypeOK, NEW x \in Tenants
  PROVE  /\ [t \in Threads |-> InHand(t, x)] \in [1..N -> Int]
         /\ [t \in Threads |-> Counted(t, x)] \in [1..N -> Int]
         /\ [i \in Ids |-> Hold(i, x)] \in [1..(AllocatorMask - 1) -> Int]
         /\ AllocatorMask - 1 \in Nat
         /\ N \in Nat
<1>1. ASSUME NEW t \in Threads PROVE InHand(t, x) \in Int
  BY ConstantsAssumption DEF WeakTypeOK, InHand, Locals
<1>2. ASSUME NEW t \in Threads PROVE Counted(t, x) \in Int
  BY ConstantsAssumption DEF WeakTypeOK, Counted, Locals
<1>3. ASSUME NEW i \in Ids PROVE Hold(i, x) \in Int
  BY ConstantsAssumption, NoneAssumption DEF WeakTypeOK, Hold, Record
<1> QED BY <1>1, <1>2, <1>3, ConstantsAssumption DEF Threads, Ids

\* The three sums are integers.
LEMMA SumTypes ==
  ASSUME WeakTypeOK, NEW x \in Tenants
  PROVE  InHandSum(x) \in Int /\ CountedSum(x) \in Int /\ Held(x) \in Int
BY Zenon, TermTypes, SumType DEF InHandSum, CountedSum, Held

\* A step of one thread changes only that thread's term of what is in hand.
LEMMA InHandStep ==
  ASSUME WeakTypeOK, WeakTypeOK', NEW t \in Threads, NEW x \in Tenants,
         \A u \in Threads : u # t => pc'[u] = pc[u] /\ local'[u] = local[u]
  PROVE  InHandSum(x)' = InHandSum(x) - InHand(t, x) + InHand(t, x)'
<1> DEFINE f == [u \in Threads |-> InHand(u, x)]
           g == [u \in Threads |-> InHand(u, x)']
<1>1. f \in [1..N -> Int] /\ g \in [1..N -> Int] /\ N \in Nat
  <2>1. f \in [1..N -> Int] /\ N \in Nat
    BY Zenon, TermTypes
  <2>2. ASSUME NEW u \in Threads PROVE InHand(u, x)' \in Int
    BY ConstantsAssumption DEF WeakTypeOK, InHand, Locals
  <2> QED BY Zenon, <2>1, <2>2 DEF Threads
<1>2. \A u \in 1..N : u # t => g[u] = f[u]
  BY Zenon DEF Threads, InHand
<1>3. t \in 1..N /\ f[t] = InHand(t, x) /\ g[t] = InHand(t, x)'
  BY Zenon DEF Threads
<1>4. InHandSum(x) = Sum(f, N) /\ InHandSum(x)' = Sum(g, N)
  BY Zenon DEF InHandSum
<1> HIDE DEF f, g
<1>5. Sum(g, N) = Sum(f, N) - f[t] + g[t]
  BY Zenon, <1>1, <1>2, <1>3, SumUpdate
<1> QED BY Zenon, <1>3, <1>4, <1>5

\* A step of one thread changes only that thread's term of what is counted.
LEMMA CountedStep ==
  ASSUME WeakTypeOK, WeakTypeOK', NEW t \in Threads, NEW x \in Tenants,
         \A u \in Threads : u # t => pc'[u] = pc[u] /\ local'[u] = local[u]
  PROVE  CountedSum(x)' = CountedSum(x) - Counted(t, x) + Counted(t, x)'
<1> DEFINE f == [u \in Threads |-> Counted(u, x)]
           g == [u \in Threads |-> Counted(u, x)']
<1>1. f \in [1..N -> Int] /\ g \in [1..N -> Int] /\ N \in Nat
  <2>1. f \in [1..N -> Int] /\ N \in Nat
    BY Zenon, TermTypes
  <2>2. ASSUME NEW u \in Threads PROVE Counted(u, x)' \in Int
    BY ConstantsAssumption DEF WeakTypeOK, Counted, Locals
  <2> QED BY Zenon, <2>1, <2>2 DEF Threads
<1>2. \A u \in 1..N : u # t => g[u] = f[u]
  BY Zenon DEF Threads, Counted
<1>3. t \in 1..N /\ f[t] = Counted(t, x) /\ g[t] = Counted(t, x)'
  BY Zenon DEF Threads
<1>4. CountedSum(x) = Sum(f, N) /\ CountedSum(x)' = Sum(g, N)
  BY Zenon DEF CountedSum
<1> HIDE DEF f, g
<1>5. Sum(g, N) = Sum(f, N) - f[t] + g[t]
  BY Zenon, <1>1, <1>2, <1>3, SumUpdate
<1> QED BY Zenon, <1>3, <1>4, <1>5

\* Inserting or removing one record changes only its term of what is held.
LEMMA HeldStep ==
  ASSUME WeakTypeOK, WeakTypeOK', NEW i \in Ids, NEW x \in Tenants,
         \A j \in Ids : j # i => reservations'[j] = reservations[j]
  PROVE  Held(x)' = Held(x) - Hold(i, x) + Hold(i, x)'
<1> DEFINE n == AllocatorMask - 1
           f == [j \in Ids |-> Hold(j, x)]
           g == [j \in Ids |-> Hold(j, x)']
<1>1. f \in [1..n -> Int] /\ g \in [1..n -> Int] /\ n \in Nat
  <2>1. f \in [1..n -> Int] /\ n \in Nat
    BY Zenon, TermTypes
  <2>2. ASSUME NEW j \in Ids PROVE Hold(j, x)' \in Int
    BY ConstantsAssumption, NoneAssumption DEF WeakTypeOK, Hold, Record
  <2> QED BY Zenon, <2>1, <2>2 DEF Ids
<1>2. \A j \in 1..n : j # i => g[j] = f[j]
  BY Zenon DEF Ids, Hold
<1>3. i \in 1..n /\ f[i] = Hold(i, x) /\ g[i] = Hold(i, x)'
  BY Zenon DEF Ids
<1>4. Held(x) = Sum(f, n) /\ Held(x)' = Sum(g, n)
  BY Zenon DEF Held
<1> HIDE DEF f, g, n
<1>5. Sum(g, n) = Sum(f, n) - f[i] + g[i]
  BY Zenon, <1>1, <1>2, <1>3, SumUpdate
<1> QED BY Zenon, <1>3, <1>4, <1>5

\* When no thread moves, what is in hand and what is counted stay the same.
LEMMA ThreadSumsSame ==
  ASSUME UNCHANGED <<pc, local>>, NEW x \in Tenants
  PROVE  InHandSum(x)' = InHandSum(x) /\ CountedSum(x)' = CountedSum(x)
BY Zenon DEF InHandSum, CountedSum, InHand, Counted

\* When the map does not change, neither does what is held.
LEMMA HeldSame ==
  ASSUME UNCHANGED reservations, NEW x \in Tenants
  PROVE  Held(x)' = Held(x)
BY Zenon DEF Held, Hold

\* No term is negative, so each is bounded by its sum.
LEMMA SumBounds ==
  ASSUME WeakTypeOK, LocalsConsistent, NEW x \in Tenants
  PROVE  /\ InHandSum(x) >= 0 /\ CountedSum(x) >= 0 /\ Held(x) >= 0
         /\ \A t \in Threads : InHandSum(x) >= InHand(t, x) /\ CountedSum(x) >= Counted(t, x)
         /\ \A i \in Ids : Held(x) >= Hold(i, x)
<1> DEFINE n == AllocatorMask - 1
           f == [t \in Threads |-> InHand(t, x)]
           g == [t \in Threads |-> Counted(t, x)]
           h == [i \in Ids |-> Hold(i, x)]
<1>1. f \in [1..N -> Int] /\ g \in [1..N -> Int] /\ h \in [1..n -> Int] /\ n \in Nat /\ N \in Nat
  BY Zenon, TermTypes
<1>2. \A t \in 1..N : f[t] >= 0
  <2>1. ASSUME NEW t \in Threads PROVE InHand(t, x) >= 0
    <3>1. local[t].amount \in Int /\ local[t].actual \in Int /\ local[t].amount >= 0 /\ local[t].actual >= 0
      BY ConstantsAssumption DEF WeakTypeOK, Locals
    <3>2. pc[t] = "commit_refund" => local[t].actual < local[t].amount
      BY Zenon DEF LocalsConsistent
    <3> QED BY <3>1, <3>2 DEF InHand
  <2> QED BY Zenon, <2>1 DEF Threads
<1>3. \A t \in 1..N : g[t] >= 0
  BY ConstantsAssumption DEF WeakTypeOK, Counted, Locals, Threads
<1>4. \A i \in 1..n : h[i] >= 0
  BY ConstantsAssumption, NoneAssumption DEF WeakTypeOK, Hold, Record, Ids
<1>5. /\ InHandSum(x) = Sum(f, N) /\ CountedSum(x) = Sum(g, N) /\ Held(x) = Sum(h, n)
      /\ \A t \in Threads : f[t] = InHand(t, x) /\ g[t] = Counted(t, x)
      /\ \A i \in Ids : h[i] = Hold(i, x)
      /\ Threads = 1..N /\ Ids = 1..n
  BY Zenon DEF InHandSum, CountedSum, Held, Threads, Ids
<1> HIDE DEF f, g, h, n
<1>6. Sum(f, N) >= 0 /\ Sum(g, N) >= 0 /\ Sum(h, n) >= 0
  BY Zenon, <1>1, <1>2, <1>3, <1>4, SumNat
<1>7. \A t \in 1..N : Sum(f, N) >= f[t] /\ Sum(g, N) >= g[t]
  BY Zenon, <1>1, <1>2, <1>3, SumAtLeast
<1>8. \A i \in 1..n : Sum(h, n) >= h[i]
  BY Zenon, <1>1, <1>4, SumAtLeast
<1> QED BY Zenon, <1>5, <1>6, <1>7, <1>8

\* When no operation is running, nothing is in hand or counted.
LEMMA QuiescentSums ==
  ASSUME WeakTypeOK, GateFree, NEW x \in Tenants
  PROVE  InHandSum(x) = 0 /\ CountedSum(x) = 0
<1> DEFINE f == [t \in Threads |-> InHand(t, x)]
           g == [t \in Threads |-> Counted(t, x)]
<1>1. f \in [1..N -> Int] /\ g \in [1..N -> Int] /\ N \in Nat
  BY Zenon, TermTypes
<1>2. \A t \in 1..N : f[t] = 0 /\ g[t] = 0
  BY Zenon DEF GateFree, InHand, Counted, Threads, Counting, Settling
<1>3. InHandSum(x) = Sum(f, N) /\ CountedSum(x) = Sum(g, N)
  BY Zenon DEF InHandSum, CountedSum
<1> HIDE DEF f, g
<1> QED BY Zenon, <1>1, <1>2, <1>3, SumZero

\* When the map has no record of a tenant, nothing of the tenant is held.
LEMMA NothingHeld ==
  ASSUME WeakTypeOK, NEW x \in Tenants, \A i \in Ids : Hold(i, x) = 0
  PROVE  Held(x) = 0
<1> DEFINE n == AllocatorMask - 1
           h == [i \in Ids |-> Hold(i, x)]
<1>1. h \in [1..n -> Int] /\ n \in Nat
  BY Zenon, TermTypes
<1>2. \A i \in 1..n : h[i] = 0
  BY Zenon DEF Ids
<1>3. Held(x) = Sum(h, n)
  BY Zenon DEF Held
<1> HIDE DEF h, n
<1> QED BY Zenon, <1>1, <1>2, <1>3, SumZero

-----------------------------------------------------------------------------
(***************************************************************************)
(* The books of every tenant                                               *)
(***************************************************************************)

\* When no thread has anything of a tenant, nothing is in hand or counted.
LEMMA NothingInHand ==
  ASSUME WeakTypeOK, NEW x \in Tenants, \A t \in Threads : InHand(t, x) = 0 /\ Counted(t, x) = 0
  PROVE  InHandSum(x) = 0 /\ CountedSum(x) = 0
<1> DEFINE f == [t \in Threads |-> InHand(t, x)]
           g == [t \in Threads |-> Counted(t, x)]
<1>1. f \in [1..N -> Int] /\ g \in [1..N -> Int] /\ N \in Nat
  BY Zenon, TermTypes
<1>2. \A t \in 1..N : f[t] = 0 /\ g[t] = 0
  BY Zenon DEF Threads
<1>3. InHandSum(x) = Sum(f, N) /\ CountedSum(x) = Sum(g, N)
  BY Zenon DEF InHandSum, CountedSum
<1> HIDE DEF f, g
<1> QED BY Zenon, <1>1, <1>2, <1>3, SumZero

\* A map that has been cleared holds nothing.
LEMMA EmptyMapHoldsNothing ==
  ASSUME NEW x \in Tenants, reservations' = [i \in Ids |-> None]
  PROVE  Held(x)' = 0
<1> DEFINE n == AllocatorMask - 1
           h == [i \in Ids |-> Hold(i, x)']
<1>1. n \in Nat /\ Ids = 1..n
  BY ConstantsAssumption DEF Ids
<1>2. ASSUME NEW i \in Ids PROVE Hold(i, x)' = 0
  BY Zenon DEF Hold
<1>3. h \in [1..n -> Int] /\ \A i \in 1..n : h[i] = 0
  BY <1>1, <1>2
<1>4. Held(x)' = Sum(h, n)
  BY Zenon DEF Held
<1> HIDE DEF h, n
<1> QED BY Zenon, <1>1, <1>3, <1>4, SumZero

\* The two ledger equations of one tenant.
Books(x) ==
  /\ budgets[x] + committed[x] + Held(x) + InHandSum(x) = Granted(x)
  /\ reservedTotals[x] = Held(x) + CountedSum(x)

\* A step that only moves money between the cells and the hand of its thread keeps the books.
LEMMA CellKeepsBooks ==
  ASSUME NEW t \in Threads, NEW x \in Tenants, WeakTypeOK, WeakTypeOK', Books(x), CellStep(t, x)
  PROVE  Books(x)'
<1>1. /\ InHandSum(x) \in Int /\ CountedSum(x) \in Int /\ Held(x) \in Int
      /\ InHand(t, x) \in Int /\ Counted(t, x) \in Int
  BY Zenon, SumTypes, TermTypes
<1>2. /\ budgets[x] \in Int /\ committed[x] \in Int /\ reservedTotals[x] \in Int
      /\ budgets'[x] \in Int /\ committed'[x] \in Int /\ reservedTotals'[x] \in Int
  BY ConstantsAssumption DEF WeakTypeOK, Ledger
<1>3. /\ InHandSum(x)' = InHandSum(x) - InHand(t, x) + InHand(t, x)'
      /\ CountedSum(x)' = CountedSum(x) - Counted(t, x) + Counted(t, x)'
  BY Zenon, InHandStep, CountedStep DEF CellStep
<1>4. Held(x)' = Held(x)
  BY Zenon, HeldSame DEF CellStep
<1>5. budgets[x] + committed[x] + Held(x) + InHandSum(x) = Granted(x)
  BY Zenon DEF Books
<1>6. reservedTotals[x] = Held(x) + CountedSum(x)
  BY Zenon DEF Books
<1>7. /\ Granted(x)' = Granted(x)
      /\ InHand(t, x)' = InHand(t, x) + (budgets[x] - budgets'[x]) + (committed[x] - committed'[x])
      /\ Counted(t, x)' = Counted(t, x) + (reservedTotals'[x] - reservedTotals[x])
  BY Zenon DEF CellStep
<1>8. budgets'[x] + committed'[x] + Held(x)' + InHandSum(x)' = Granted(x)'
  BY <1>1, <1>2, <1>3, <1>4, <1>5, <1>7
<1>9. reservedTotals'[x] = Held(x)' + CountedSum(x)'
  BY <1>1, <1>2, <1>3, <1>4, <1>6, <1>7
<1> QED BY Zenon, <1>8, <1>9 DEF Books

\* So does a step that also inserts or removes a record.
LEMMA RecordKeepsBooks ==
  ASSUME NEW t \in Threads, NEW x \in Tenants, NEW i \in Ids, WeakTypeOK, WeakTypeOK', Books(x),
         RecordStep(t, i, x)
  PROVE  Books(x)'
<1>1. /\ InHandSum(x) \in Int /\ CountedSum(x) \in Int /\ Held(x) \in Int
      /\ InHand(t, x) \in Int /\ Counted(t, x) \in Int /\ Hold(i, x) \in Int
  BY Zenon, SumTypes, TermTypes
<1>2. /\ budgets[x] \in Int /\ committed[x] \in Int /\ reservedTotals[x] \in Int
      /\ budgets'[x] \in Int /\ committed'[x] \in Int /\ reservedTotals'[x] \in Int
  BY ConstantsAssumption DEF WeakTypeOK, Ledger
<1>3. /\ InHandSum(x)' = InHandSum(x) - InHand(t, x) + InHand(t, x)'
      /\ CountedSum(x)' = CountedSum(x) - Counted(t, x) + Counted(t, x)'
  BY Zenon, InHandStep, CountedStep DEF RecordStep
<1>4. Held(x)' = Held(x) - Hold(i, x) + Hold(i, x)'
  BY Zenon, HeldStep DEF RecordStep
<1>5. Hold(i, x)' \in Int
  BY ConstantsAssumption DEF WeakTypeOK, Hold, Record
<1>6. budgets[x] + committed[x] + Held(x) + InHandSum(x) = Granted(x)
  BY Zenon DEF Books
<1>7. reservedTotals[x] = Held(x) + CountedSum(x)
  BY Zenon DEF Books
<1>8. /\ Granted(x)' = Granted(x)
      /\ InHand(t, x)' = InHand(t, x) + (budgets[x] - budgets'[x]) + (committed[x] - committed'[x])
                           + (Hold(i, x) - Hold(i, x)')
      /\ Counted(t, x)' = Counted(t, x) + (reservedTotals'[x] - reservedTotals[x])
                            + (Hold(i, x) - Hold(i, x)')
  BY Zenon DEF RecordStep
<1>9. budgets'[x] + committed'[x] + Held(x)' + InHandSum(x)' = Granted(x)'
  BY <1>1, <1>2, <1>3, <1>4, <1>5, <1>6, <1>8
<1>10. reservedTotals'[x] = Held(x)' + CountedSum(x)'
  BY <1>1, <1>2, <1>3, <1>4, <1>5, <1>7, <1>8
<1> QED BY Zenon, <1>9, <1>10 DEF Books

\* So does a step that moves the balance with the grant.
LEMMA TopUpKeepsBooks ==
  ASSUME NEW t \in Threads, NEW x \in Tenants, WeakTypeOK, WeakTypeOK', Books(x), TopUpStep(t, x)
  PROVE  Books(x)'
<1>1. /\ InHandSum(x)' = InHandSum(x) - 0 + 0 /\ CountedSum(x)' = CountedSum(x) - 0 + 0
      /\ Held(x)' = Held(x)
  BY Zenon, InHandStep, CountedStep, HeldSame DEF TopUpStep
<1>2. /\ InHandSum(x) \in Int /\ CountedSum(x) \in Int /\ Held(x) \in Int
      /\ budgets[x] \in Int /\ committed[x] \in Int /\ budgets'[x] \in Int
  BY SumTypes, ConstantsAssumption DEF WeakTypeOK, Ledger
<1>3. InHandSum(x)' = InHandSum(x) /\ CountedSum(x)' = CountedSum(x)
  BY <1>1, <1>2
<1>4. budgets[x] + committed[x] + Held(x) + InHandSum(x) = Granted(x)
  BY Zenon DEF Books
<1>5. budgets'[x] + committed[x] + Held(x) + InHandSum(x) = Granted(x) + (budgets'[x] - budgets[x])
  BY <1>2, <1>4
<1>6. budgets'[x] + committed'[x] + Held(x)' + InHandSum(x)' = Granted(x)'
  BY Zenon, <1>1, <1>3, <1>5 DEF TopUpStep
<1>7. reservedTotals'[x] = Held(x)' + CountedSum(x)'
  BY Zenon, <1>1, <1>3 DEF Books, TopUpStep
<1> QED BY Zenon, <1>6, <1>7 DEF Books

\* Before a step the books balance, and the variables keep their types.
LEMMA BooksFacts ==
  ASSUME TypeOK, LocalsConsistent, IdsUnique, NoMoneyCreatedOrLost, ReservedTotalsExact, Next
  PROVE  WeakTypeOK /\ WeakTypeOK' /\ \A x \in Tenants : Books(x)
<1>1. WeakTypeOK /\ WeakTypeOK'
  BY Zenon, TypeOKWeakens, WeakTypeStep
<1>2. \A x \in Tenants : Books(x)
  BY Zenon DEF Books, NoMoneyCreatedOrLost, ReservedTotalsExact
<1> QED BY Zenon, <1>1, <1>2

\* EnsureTenant keeps the books of every tenant.
LEMMA BooksEnsureTenant ==
  ASSUME TypeOK, LockOwners, LocalsConsistent, HeldTenantsExist, IdsUnique, SavedConsistent,
         NoMoneyCreatedOrLost, ReservedTotalsExact, Next,
         NEW x \in Tenants, NEW grant \in Amounts, EnsureTenant(x, grant)
  PROVE  \A y \in Tenants : Books(y)'
<1>a. WeakTypeOK /\ WeakTypeOK' /\ \A z \in Tenants : Books(z)
  BY Zenon, BooksFacts
<1> SUFFICES ASSUME NEW y \in Tenants PROVE Books(y)'
  BY Zenon
<1>1. UNCHANGED <<reservations, pc, local, initialsLock>> /\ initialsLock = 0
  BY Zenon DEF EnsureTenant, mutexes
<1>2. InHandSum(y)' = InHandSum(y) /\ CountedSum(y)' = CountedSum(y) /\ Held(y)' = Held(y)
  BY Zenon, <1>1, ThreadSumsSame, HeldSame
<1>3. Granted(y) = initials[y] /\ Granted(y)' = initials'[y]
  BY Zenon, <1>1 DEF Granted
<1>4. CASE y = x
  <2>1. Held(y) = 0
    <3>1. \A i \in Ids : Hold(i, y) = 0
      BY Zenon, <1>4 DEF EnsureTenant, HeldTenantsExist, Hold
    <3> QED BY Zenon, <1>a, <3>1, NothingHeld
  <2>2. InHandSum(y) = 0 /\ CountedSum(y) = 0
    <3>1. \A t \in Threads : InHand(t, y) = 0 /\ Counted(t, y) = 0
      BY SMTT(20), ZenonT(60), <1>4
         DEF EnsureTenant, HeldTenantsExist, InHand, Counted, Counting, Settling
    <3> QED BY Zenon, <1>a, <3>1, NothingInHand
  <2>3. budgets'[y] = grant /\ initials'[y] = grant /\ committed'[y] = 0 /\ reservedTotals'[y] = 0
    BY Zenon, <1>a, <1>4 DEF EnsureTenant, TypeOK, Ledger
  <2>4. grant \in Int
    BY Zenon, AmountRange
  <2> QED BY SMTT(20), ZenonT(60), <1>2, <1>3, <2>1, <2>2, <2>3, <2>4 DEF Books
<1>5. CASE y # x
  <2>1. /\ budgets'[y] = budgets[y] /\ initials'[y] = initials[y]
        /\ committed'[y] = committed[y] /\ reservedTotals'[y] = reservedTotals[y]
    BY Zenon, <1>a, <1>5 DEF EnsureTenant, TypeOK, Ledger
  <2> QED BY Zenon, <1>a, <1>2, <1>3, <2>1 DEF Books
<1> QED BY Zenon, <1>4, <1>5

\* SetLimit keeps the books of every tenant.
LEMMA BooksSetLimit ==
  ASSUME TypeOK, LockOwners, LocalsConsistent, HeldTenantsExist, IdsUnique, SavedConsistent,
         NoMoneyCreatedOrLost, ReservedTotalsExact, Next,
         NEW y \in Tenants, NEW max \in Amounts, SetLimit(y, max)
  PROVE  \A x \in Tenants : Books(x)'
<1>a. WeakTypeOK /\ WeakTypeOK' /\ \A z \in Tenants : Books(z)
  BY Zenon, BooksFacts
<1>1. UNCHANGED <<budgets, committed, reservedTotals, initials, initialsLock, reservations, pc, local>>
  BY Zenon DEF SetLimit, WriteLimit, maps, fences, mutexes
<1>2. ASSUME NEW x \in Tenants PROVE Granted(x)' = Granted(x)
  BY Zenon, <1>1 DEF Granted
<1> QED BY Zenon, <1>a, <1>1, <1>2, ThreadSumsSame, HeldSame DEF Books

\* Snapshot keeps the books of every tenant.
LEMMA BooksSnapshot ==
  ASSUME TypeOK, LockOwners, LocalsConsistent, HeldTenantsExist, IdsUnique, SavedConsistent,
         NoMoneyCreatedOrLost, ReservedTotalsExact, Next,
         Snapshot
  PROVE  \A x \in Tenants : Books(x)'
<1>a. WeakTypeOK /\ WeakTypeOK' /\ \A z \in Tenants : Books(z)
  BY Zenon, BooksFacts
<1>1. UNCHANGED <<budgets, committed, reservedTotals, initials, initialsLock, reservations, pc, local>>
  BY Zenon DEF Snapshot, CopyMaps, maps, fences, mutexes
<1>2. ASSUME NEW x \in Tenants PROVE Granted(x)' = Granted(x)
  BY Zenon, <1>1 DEF Granted
<1> QED BY Zenon, <1>a, <1>1, <1>2, ThreadSumsSame, HeldSame DEF Books

\* Restore keeps the books of every tenant.
LEMMA BooksRestore ==
  ASSUME TypeOK, LockOwners, LocalsConsistent, HeldTenantsExist, IdsUnique, SavedConsistent,
         NoMoneyCreatedOrLost, ReservedTotalsExact, Next,
         Restore
  PROVE  \A x \in Tenants : Books(x)'
<1>a. WeakTypeOK /\ WeakTypeOK' /\ \A z \in Tenants : Books(z)
  BY Zenon, BooksFacts
<1> SUFFICES ASSUME NEW x \in Tenants PROVE Books(x)'
  BY Zenon
<1>1. GateFree /\ UNCHANGED <<pc, local, initialsLock>> /\ saved # None
  BY Zenon DEF Restore, ReplaceMaps, ReplaceLedger, mutexes
<1>2. InHandSum(x)' = 0 /\ CountedSum(x)' = 0
  BY Zenon, <1>a, <1>1, QuiescentSums, ThreadSumsSame
<1>3. Held(x)' = 0
  BY Zenon, <1>a, EmptyMapHoldsNothing DEF Restore, ReplaceMaps, ReplaceLedger
<1>4. Granted(x)' = initials'[x]
  <2>1. initialsLock # 0 => initialsLock \in Threads
    BY ConstantsAssumption DEF TypeOK, Threads
  <2> QED BY Zenon, <1>1, <2>1 DEF Granted, GateFree
<1>5. budgets'[x] + committed'[x] = initials'[x] /\ reservedTotals'[x] = 0
  <2>1. saved \in Snapshots
    BY Zenon, <1>1 DEF TypeOK
  <2>2. saved.budgets[x] \in Int /\ saved.committed[x] \in Int /\ saved.initials[x] \in Int
    BY <2>1, ConstantsAssumption DEF Snapshots, Ledger
  <2>3. saved.budgets[x] + saved.reserved[x] + saved.committed[x] = saved.initials[x]
    BY Zenon, <1>1 DEF SavedConsistent
  <2>4. saved.reserved[x] = 0
    BY Zenon, <1>1 DEF Restore, ReplaceMaps, ReplaceLedger, Restorable, SavedConsistent
  <2>5. saved.budgets[x] + saved.committed[x] = saved.initials[x]
    BY <2>2, <2>3, <2>4
  <2>6. /\ budgets'[x] = IF x \in saved.tenants THEN saved.budgets[x] ELSE 0
        /\ initials'[x] = IF x \in saved.tenants THEN saved.initials[x] ELSE 0
        /\ committed'[x] = IF x \in saved.tenants THEN saved.committed[x] ELSE 0
        /\ reservedTotals'[x] = 0
    BY Zenon DEF Restore, ReplaceMaps, ReplaceLedger
  <2>7. CASE x \in saved.tenants
    BY Zenon, <2>5, <2>6, <2>7
  <2>8. CASE x \notin saved.tenants
    <3>1. budgets'[x] = 0 /\ committed'[x] = 0 /\ initials'[x] = 0
      BY Zenon, <2>6, <2>8
    <3> QED BY <2>6, <3>1
  <2> QED BY Zenon, <2>7, <2>8
<1>6. budgets'[x] \in Int /\ committed'[x] \in Int
  BY <1>a, ConstantsAssumption DEF WeakTypeOK, Ledger
<1> QED BY <1>2, <1>3, <1>4, <1>5, <1>6 DEF Books

\* Every step keeps the books of every tenant.
LEMMA BooksStep ==
  ASSUME TypeOK, LockOwners, LocalsConsistent, HeldTenantsExist, IdsUnique, SavedConsistent,
         NoMoneyCreatedOrLost, ReservedTotalsExact, Next
  PROVE  \A x \in Tenants : Books(x)'
<1>a. WeakTypeOK /\ WeakTypeOK' /\ \A z \in Tenants : Books(z)
  BY Zenon, BooksFacts
<1>1. ASSUME NEW t \in Threads, NEW y \in Tenants, NEW cost \in Amounts, ReserveLookup(t, y, cost)
      PROVE  \A x \in Tenants : Books(x)'
  BY Zenon, <1>1, <1>a, ReserveLookupMoves, CellKeepsBooks
<1>2. ASSUME NEW t \in Threads, ReserveCount(t) PROVE \A x \in Tenants : Books(x)'
  BY Zenon, <1>2, <1>a, ReserveCountMoves, CellKeepsBooks
<1>3. ASSUME NEW t \in Threads, ReserveAllocate(t) PROVE \A x \in Tenants : Books(x)'
  BY Zenon, <1>3, <1>a, ReserveAllocateMoves, CellKeepsBooks
<1>4. ASSUME NEW t \in Threads, ReserveDebit(t) PROVE \A x \in Tenants : Books(x)'
  BY Zenon, <1>4, <1>a, ReserveDebitMoves, CellKeepsBooks
<1>5. ASSUME NEW t \in Threads, ReserveUncount(t) PROVE \A x \in Tenants : Books(x)'
  BY Zenon, <1>5, <1>a, ReserveUncountMoves, CellKeepsBooks
<1>6. ASSUME NEW t \in Threads, ReserveInsert(t) PROVE \A x \in Tenants : Books(x)'
  BY Zenon, <1>6, <1>a, ReserveInsertMoves, RecordKeepsBooks
<1>7. ASSUME NEW t \in Threads, NEW i \in Ids, NEW actual \in Amounts, CommitTake(t, i, actual)
      PROVE  \A x \in Tenants : Books(x)'
  BY Zenon, <1>7, <1>a, CommitTakeMoves, RecordKeepsBooks
<1>8. ASSUME NEW t \in Threads, CommitDebit(t) PROVE \A x \in Tenants : Books(x)'
  BY Zenon, <1>8, <1>a, CommitDebitMoves, RecordKeepsBooks
<1>9. ASSUME NEW t \in Threads, CommitWrite(t) PROVE \A x \in Tenants : Books(x)'
  BY Zenon, <1>9, <1>a, CommitWriteMoves, CellKeepsBooks
<1>10. ASSUME NEW t \in Threads, CommitRefund(t) PROVE \A x \in Tenants : Books(x)'
  BY Zenon, <1>10, <1>a, CommitRefundMoves, CellKeepsBooks
<1>11. ASSUME NEW t \in Threads, CommitUncount(t) PROVE \A x \in Tenants : Books(x)'
  BY Zenon, <1>11, <1>a, CommitUncountMoves, CellKeepsBooks
<1>12. ASSUME NEW t \in Threads, NEW i \in Ids, ReleaseTake(t, i) PROVE \A x \in Tenants : Books(x)'
  BY Zenon, <1>12, <1>a, ReleaseTakeMoves, RecordKeepsBooks
<1>13. ASSUME NEW t \in Threads, ReleaseUncount(t) PROVE \A x \in Tenants : Books(x)'
  BY Zenon, <1>13, <1>a, ReleaseUncountMoves, CellKeepsBooks
<1>14. ASSUME NEW t \in Threads, ReleaseCredit(t) PROVE \A x \in Tenants : Books(x)'
  BY Zenon, <1>14, <1>a, ReleaseCreditMoves, CellKeepsBooks
<1>15. ASSUME NEW t \in Threads, NEW y \in Tenants, NEW amount \in Amounts, TopUpLock(t, y, amount)
      PROVE  \A x \in Tenants : Books(x)'
  BY Zenon, <1>15, <1>a, TopUpLockMoves, TopUpKeepsBooks
<1>16. ASSUME NEW t \in Threads, TopUpCredit(t) PROVE \A x \in Tenants : Books(x)'
  BY Zenon, <1>16, <1>a, TopUpCreditMoves, TopUpKeepsBooks
<1>17. ASSUME NEW t \in Threads, TopUpWrite(t) PROVE \A x \in Tenants : Books(x)'
  BY Zenon, <1>17, <1>a, TopUpWriteMoves, TopUpKeepsBooks
<1>18. ASSUME NEW x \in Tenants, NEW grant \in Amounts, EnsureTenant(x, grant)
      PROVE  \A y \in Tenants : Books(y)'
  BY Zenon, <1>18, BooksEnsureTenant
<1>19. ASSUME NEW y \in Tenants, NEW max \in Amounts, SetLimit(y, max)
      PROVE  \A x \in Tenants : Books(x)'
  BY Zenon, <1>19, BooksSetLimit
<1>20. CASE Snapshot
  BY Zenon, <1>20, BooksSnapshot
<1>21. CASE Restore
  BY Zenon, <1>21, BooksRestore
<1> QED
  BY Zenon, <1>1, <1>2, <1>3, <1>4, <1>5, <1>6, <1>7, <1>8, <1>9, <1>10, <1>11, <1>12, <1>13, <1>14,
     <1>15,
      <1>16, <1>17, <1>18, <1>19, <1>20, <1>21
  DEF Next, Reserve, Commit, Release, TopUp

-----------------------------------------------------------------------------
(***************************************************************************)
(* The inductive invariant                                                 *)
(***************************************************************************)

\* A snapshot is taken while nothing is in flight, so it balances.
LEMMA SavedConsistentStep ==
  ASSUME TypeOK, SavedConsistent, NoMoneyCreatedOrLost, ReservedTotalsExact, Next
  PROVE  SavedConsistent'
<1>a. WeakTypeOK
  BY Zenon, TypeOKWeakens
<1>1. ASSUME NEW t \in Threads, NEW x \in Tenants, NEW cost \in Amounts, ReserveLookup(t, x, cost)
      PROVE  SavedConsistent'
  BY Zenon, <1>1
  DEF ReserveLookup, Enter, Call, NoCall, maps, fences, mutexes, SavedConsistent
<1>2. ASSUME NEW t \in Threads, ReserveCount(t) PROVE SavedConsistent'
  BY Zenon, <1>2
  DEF ReserveCount, Goto, Return, Enter, NoCall, maps, fences, mutexes, SavedConsistent
<1>3. ASSUME NEW t \in Threads, ReserveAllocate(t) PROVE SavedConsistent'
  BY Zenon, <1>3
  DEF ReserveAllocate, Goto, Enter, maps, mutexes, SavedConsistent
<1>4. ASSUME NEW t \in Threads, ReserveDebit(t) PROVE SavedConsistent'
  BY Zenon, <1>4
  DEF ReserveDebit, Goto, maps, fences, mutexes, SavedConsistent
<1>5. ASSUME NEW t \in Threads, ReserveUncount(t) PROVE SavedConsistent'
  BY Zenon, <1>5
  DEF ReserveUncount, Return, Enter, NoCall, maps, fences, mutexes, SavedConsistent
<1>6. ASSUME NEW t \in Threads, ReserveInsert(t) PROVE SavedConsistent'
  BY Zenon, <1>6
  DEF ReserveInsert, Return, Enter, NoCall, fences, mutexes, SavedConsistent
<1>7. ASSUME NEW t \in Threads, NEW i \in Ids, NEW actual \in Amounts, CommitTake(t, i, actual)
      PROVE  SavedConsistent'
  BY Zenon, <1>7
  DEF CommitTake, Enter, Call, NoCall, fences, SavedConsistent
<1>8. ASSUME NEW t \in Threads, CommitDebit(t) PROVE SavedConsistent'
  BY Zenon, <1>8
  DEF CommitDebit, Goto, Return, Enter, NoCall, fences, SavedConsistent
<1>9. ASSUME NEW t \in Threads, CommitWrite(t) PROVE SavedConsistent'
  BY Zenon, <1>9
  DEF CommitWrite, Goto, fences, mutexes, SavedConsistent
<1>10. ASSUME NEW t \in Threads, CommitRefund(t) PROVE SavedConsistent'
  BY Zenon, <1>10
  DEF CommitRefund, Goto, maps, fences, mutexes, SavedConsistent
<1>11. ASSUME NEW t \in Threads, CommitUncount(t) PROVE SavedConsistent'
  BY Zenon, <1>11
  DEF CommitUncount, Return, Enter, NoCall, maps, fences, SavedConsistent
<1>12. ASSUME NEW t \in Threads, NEW i \in Ids, ReleaseTake(t, i) PROVE SavedConsistent'
  BY Zenon, <1>12
  DEF ReleaseTake, Enter, Call, NoCall, fences, SavedConsistent
<1>13. ASSUME NEW t \in Threads, ReleaseUncount(t) PROVE SavedConsistent'
  BY Zenon, <1>13
  DEF ReleaseUncount, Goto, maps, fences, mutexes, SavedConsistent
<1>14. ASSUME NEW t \in Threads, ReleaseCredit(t) PROVE SavedConsistent'
  BY Zenon, <1>14
  DEF ReleaseCredit, Return, Enter, NoCall, maps, fences, SavedConsistent
<1>15. ASSUME NEW t \in Threads, NEW x \in Tenants, NEW amount \in Amounts, TopUpLock(t, x, amount)
      PROVE  SavedConsistent'
  BY Zenon, <1>15
  DEF TopUpLock, Enter, Call, NoCall, maps, fences, SavedConsistent
<1>16. ASSUME NEW t \in Threads, TopUpCredit(t) PROVE SavedConsistent'
  BY Zenon, <1>16
  DEF TopUpCredit, Goto, Return, Enter, NoCall, maps, fences, SavedConsistent
<1>17. ASSUME NEW t \in Threads, TopUpWrite(t) PROVE SavedConsistent'
  BY Zenon, <1>17
  DEF TopUpWrite, Return, Enter, NoCall, fences, SavedConsistent
<1>18. ASSUME NEW x \in Tenants, NEW grant \in Amounts, EnsureTenant(x, grant) PROVE SavedConsistent'
  BY Zenon, <1>18
  DEF EnsureTenant, fences, mutexes, SavedConsistent
<1>19. ASSUME NEW x \in Tenants, NEW max \in Amounts, SetLimit(x, max) PROVE SavedConsistent'
  BY Zenon, <1>19
  DEF SetLimit, WriteLimit, fences, mutexes, SavedConsistent
<1>20. CASE Snapshot
  <2>1. CASE saved' = saved
    BY Zenon, <2>1 DEF SavedConsistent
  <2>2. CASE saved' = Capture
    <3> SUFFICES ASSUME NEW x \in Tenants
                 PROVE  /\ Capture.budgets[x] + Capture.reserved[x] + Capture.committed[x] = Capture.initials[x]
                        /\ Capture.active = {} => Capture.reserved[x] = 0
      BY Zenon, <2>2 DEF SavedConsistent
    <3>1. InHandSum(x) = 0 /\ CountedSum(x) = 0
      BY Zenon, <1>a, <1>20, QuiescentSums DEF Snapshot, CopyMaps
    <3>2. Granted(x) = initials[x]
      <4>1. initialsLock # 0 => initialsLock \in Threads
        BY ConstantsAssumption DEF TypeOK, Threads
      <4> QED BY Zenon, <1>20, <4>1 DEF Snapshot, CopyMaps, GateFree, Granted
    <3>3. /\ budgets[x] \in Int /\ committed[x] \in Int /\ Held(x) \in Int /\ Granted(x) \in Int
      BY Zenon, <1>a, SumTypes, LedgerInts
    <3>4. reservedTotals[x] = Held(x)
      BY <3>1, <3>3 DEF ReservedTotalsExact
    <3>5. budgets[x] + committed[x] + Held(x) + InHandSum(x) = Granted(x)
      BY Zenon DEF NoMoneyCreatedOrLost
    <3>6. budgets[x] + reservedTotals[x] + committed[x] = initials[x]
      BY <3>1, <3>2, <3>3, <3>4, <3>5
    <3>7. Active = {} => Held(x) = 0
      <4>1. Active = {} => \A i \in Ids : Hold(i, x) = 0
        BY Zenon DEF Active, Hold
      <4> QED BY Zenon, <1>a, <4>1, NothingHeld
    <3> QED BY Zenon, <3>4, <3>6, <3>7 DEF Capture
  <2> QED BY Zenon, <1>20, <2>1, <2>2 DEF Snapshot, CopyMaps
<1>21. CASE Restore
  BY Zenon, <1>21
  DEF Restore, ReplaceMaps, ReplaceLedger, mutexes, SavedConsistent
<1> QED
  BY Zenon, <1>1, <1>2, <1>3, <1>4, <1>5, <1>6, <1>7, <1>8, <1>9, <1>10, <1>11, <1>12, <1>13, <1>14,
     <1>15,
      <1>16, <1>17, <1>18, <1>19, <1>20, <1>21
  DEF Next, Reserve, Commit, Release, TopUp

\* The bounds on the sums hold in the next state as well.
LEMMA SumBoundsNext ==
  (WeakTypeOK /\ LocalsConsistent => \A x \in Tenants : InHandSum(x) >= 0 /\ CountedSum(x) >= 0 /\ Held(x) >= 0)'
<1>1. WeakTypeOK /\ LocalsConsistent => \A x \in Tenants : InHandSum(x) >= 0 /\ CountedSum(x) >= 0 /\ Held(x) >= 0
  BY Zenon, SumBounds
<1> QED BY <1>1, PTL

\* The three sums are integers in the next state too.
LEMMA SumTypesNext ==
  (WeakTypeOK => \A x \in Tenants : InHandSum(x) \in Int /\ CountedSum(x) \in Int /\ Held(x) \in Int)'
<1>1. WeakTypeOK => \A x \in Tenants : InHandSum(x) \in Int /\ CountedSum(x) \in Int /\ Held(x) \in Int
  BY Zenon, SumTypes
<1> QED BY <1>1, PTL

\* A recorded grant, or one about to be recorded, is within i64.
LEMMA GrantedRange ==
  WeakTypeOK => \A x \in Tenants : Granted(x) \in 0..MaxI64
<1> SUFFICES ASSUME WeakTypeOK, NEW x \in Tenants PROVE Granted(x) \in 0..MaxI64
  BY Zenon
<1>1. initialsLock # 0 => initialsLock \in Threads
  BY ConstantsAssumption DEF WeakTypeOK, Threads
<1> QED BY Zenon, <1>1 DEF WeakTypeOK, Ledger, Locals, Granted

\* The grant is within i64 in the next state too.
LEMMA GrantedRangeNext ==
  (WeakTypeOK => \A x \in Tenants : Granted(x) \in 0..MaxI64)'
BY GrantedRange, PTL

\* The books and the guards keep the two counters under unchecked arithmetic in range.
LEMMA TypeOKStep ==
  ASSUME WeakTypeOK', LocalsConsistent', \A x \in Tenants : Books(x)',
         \A x \in Tenants : budgets'[x] >= 0 /\ reservedTotals'[x] <= MaxI64
  PROVE  TypeOK'
<1>1. ASSUME NEW x \in Tenants PROVE budgets'[x] \in 0..MaxI64 /\ reservedTotals'[x] \in 0..MaxI64
  <2>1. InHandSum(x)' >= 0 /\ CountedSum(x)' >= 0 /\ Held(x)' >= 0
    BY Zenon, SumBoundsNext
  <2>2. InHandSum(x)' \in Int /\ CountedSum(x)' \in Int /\ Held(x)' \in Int
    BY Zenon, SumTypesNext
  <2>3. Granted(x)' \in 0..MaxI64 /\ MaxI64 \in Nat
    BY Zenon, GrantedRangeNext, ConstantsAssumption
  <2>4. budgets'[x] \in Int /\ reservedTotals'[x] \in Int /\ committed'[x] \in 0..MaxI64
    BY Zenon DEF WeakTypeOK, Ledger
  <2>5. /\ budgets'[x] + committed'[x] + Held(x)' + InHandSum(x)' = Granted(x)'
        /\ reservedTotals'[x] = Held(x)' + CountedSum(x)'
    BY Zenon DEF Books
  <2>6. budgets'[x] <= MaxI64
    BY <2>1, <2>2, <2>3, <2>4, <2>5
  <2>7. reservedTotals'[x] >= 0
    BY <2>1, <2>2, <2>5
  <2> QED BY <2>3, <2>4, <2>6, <2>7
<1>2. budgets' \in Ledger' /\ reservedTotals' \in Ledger'
  BY Zenon, <1>1 DEF WeakTypeOK, Ledger
<1> QED BY Zenon, <1>2 DEF WeakTypeOK, TypeOK

\* A new engine, without tenants, satisfies the inductive invariant.
LEMMA InitIInv == Init => IInv
<1> SUFFICES ASSUME Init PROVE IInv
  BY Zenon
<1>1. MaxI64 \in Nat /\ N \in Nat /\ AllocatorMask \in Nat \ {0, 1} /\ Ids = 1..(AllocatorMask - 1)
  BY Zenon, ConstantsAssumption DEF Ids
<1>2. NoCall \in Locals
  BY Zenon, CallTypes
<1>3. TypeOK
  BY <1>1, <1>2 DEF Init, TypeOK, Ledger, Labels
<1>4. LockOwners
  BY DEF Init, LockOwners, Threads, Settling, ToppingUp
<1>5. LocalsConsistent /\ LimitsObserved /\ SavedConsistent /\ HeldTenantsExist /\ IdsUnique
  BY Zenon DEF Init, LocalsConsistent, LimitsObserved, SavedConsistent, HeldTenantsExist, IdsUnique,
     Settling,
      ToppingUp
<1>6. FenceBelowAllocator
  BY DEF Init, FenceBelowAllocator
<1>7. ASSUME NEW x \in Tenants
      PROVE  InHandSum(x) = 0 /\ CountedSum(x) = 0 /\ Held(x) = 0 /\ Granted(x) = 0
  <2>1. WeakTypeOK
    BY Zenon, <1>3, TypeOKWeakens
  <2>2. GateFree /\ \A i \in Ids : Hold(i, x) = 0
    BY Zenon DEF Init, GateFree, Hold
  <2>3. Granted(x) = 0
    BY Zenon DEF Init, Granted
  <2> QED BY Zenon, <2>1, <2>2, <2>3, QuiescentSums, NothingHeld
<1>8. NoMoneyCreatedOrLost /\ ReservedTotalsExact
  BY <1>7 DEF Init, NoMoneyCreatedOrLost, ReservedTotalsExact
<1> QED BY Zenon, <1>3, <1>4, <1>5, <1>6, <1>8 DEF IInv

\* A step that leaves the engine alone preserves the inductive invariant.
LEMMA StutterIInv == IInv /\ UNCHANGED vars => IInv'
<1> SUFFICES ASSUME IInv, UNCHANGED vars PROVE IInv'
  BY Zenon
<1> USE DEF vars, maps, fences, mutexes
<1>1. TypeOK' /\ LockOwners' /\ LocalsConsistent' /\ LimitsObserved' /\ SavedConsistent'
  BY Zenon DEF IInv, TypeOK, LockOwners, LocalsConsistent, LimitsObserved, SavedConsistent
<1>2. HeldTenantsExist' /\ IdsUnique' /\ FenceBelowAllocator'
  BY Zenon DEF IInv, HeldTenantsExist, IdsUnique, FenceBelowAllocator
<1>3. ASSUME NEW x \in Tenants
      PROVE  InHandSum(x)' = InHandSum(x) /\ CountedSum(x)' = CountedSum(x) /\ Held(x)' = Held(x)
  BY Zenon, ThreadSumsSame, HeldSame
<1>4. ASSUME NEW x \in Tenants PROVE Granted(x)' = Granted(x)
  BY Zenon DEF Granted
<1>5. NoMoneyCreatedOrLost' /\ ReservedTotalsExact'
  BY Zenon, <1>3, <1>4 DEF IInv, NoMoneyCreatedOrLost, ReservedTotalsExact
<1> QED BY Zenon, <1>1, <1>2, <1>5 DEF IInv

\* Every step of every operation preserves the inductive invariant.
LEMMA StepIInv == IInv /\ Next => IInv'
<1> SUFFICES ASSUME IInv, Next PROVE IInv'
  BY Zenon
<1> USE DEF IInv
<1>1. WeakTypeOK'
  BY Zenon, WeakTypeStep
<1>2. LockOwners' /\ HeldTenantsExist' /\ IdsUnique' /\ FenceBelowAllocator'
  BY Zenon, LockOwnersStep, HeldTenantsStep, IdsUniqueStep, FenceStep
<1>3. LocalsConsistent'
  BY Zenon, LocalsConsistentStep
<1>4. LimitsObserved' /\ SavedConsistent'
  BY Zenon, LimitsObservedStep, SavedConsistentStep
<1>5. \A x \in Tenants : Books(x)'
  BY Zenon, BooksStep
<1>6. NoMoneyCreatedOrLost' /\ ReservedTotalsExact'
  BY Zenon, <1>5 DEF Books, NoMoneyCreatedOrLost, ReservedTotalsExact
<1>7. TypeOK'
  BY Zenon, <1>1, <1>3, <1>5, CounterGuards, TypeOKStep
<1> QED BY Zenon, <1>2, <1>3, <1>4, <1>6, <1>7

-----------------------------------------------------------------------------
(***************************************************************************)
(* The theorems                                                            *)
(***************************************************************************)

\* The conjunction of the type invariant, the two ledger equations, unique ids and
\* the facts about locks and locals is an invariant of the engine.
THEOREM InductiveInvariant == Spec => []IInv
BY InitIInv, StepIInv, StutterIInv, PTL DEF Spec

\* Every counter of the engine stays within 0..i64::MAX.
THEOREM TypeCorrect == Spec => []TypeOK
<1>1. IInv => TypeOK
  BY Zenon DEF IInv
<1> QED BY <1>1, InductiveInvariant, PTL

\* No interleaving of reserve, commit, release and top-up creates or loses money.
THEOREM MoneyIsConserved == Spec => []NoMoneyCreatedOrLost
<1>1. IInv => NoMoneyCreatedOrLost
  BY Zenon DEF IInv
<1> QED BY <1>1, InductiveInvariant, PTL

\* The reserved totals equal the holds they stand for.
THEOREM ReservedTotalsAreExact == Spec => []ReservedTotalsExact
<1>1. IInv => ReservedTotalsExact
  BY Zenon DEF IInv
<1> QED BY <1>1, InductiveInvariant, PTL

\* remaining + reserved + committed = initial whenever the exclusive guard of the
\* gate can be taken, which is when snapshot and verify_conservation read the maps.
THEOREM ConservationHolds == Spec => []Conservation
<1>1. IInv => Conservation
  <2> SUFFICES ASSUME IInv, GateFree, NEW x \in Tenants
               PROVE  budgets[x] + reservedTotals[x] + committed[x] = initials[x]
    BY Zenon DEF Conservation
  <2>1. TypeOK /\ WeakTypeOK
    BY Zenon, TypeOKWeakens DEF IInv
  <2>2. InHandSum(x) = 0 /\ CountedSum(x) = 0
    BY Zenon, <2>1, QuiescentSums
  <2>3. initialsLock # 0 => initialsLock \in Threads
    BY <2>1, ConstantsAssumption DEF TypeOK, Threads
  <2>4. Granted(x) = initials[x]
    BY Zenon, <2>3 DEF GateFree, Granted
  <2>5. budgets[x] \in Int /\ committed[x] \in Int /\ Held(x) \in Int /\ initials[x] \in Int
    BY Zenon, <2>1, SumTypes, LedgerInts
  <2>6. budgets[x] + committed[x] + Held(x) + InHandSum(x) = Granted(x)
    BY Zenon DEF IInv, NoMoneyCreatedOrLost
  <2>7. reservedTotals[x] = Held(x)
    BY <2>2, <2>5 DEF IInv, ReservedTotalsExact
  <2> QED BY <2>2, <2>4, <2>5, <2>6, <2>7
<1> QED BY <1>1, InductiveInvariant, PTL

\* The unchecked fetch_add and fetch_sub calls stay within i64.
THEOREM UncheckedArithmeticIsSafe == Spec => []UncheckedArithmeticSafe
<1>1. IInv => UncheckedArithmeticSafe
  <2> SUFFICES ASSUME IInv, NEW t \in Threads
               PROVE  LET l == local[t]
                      IN  /\ pc[t] \in {"uncount", "commit_uncount", "release_uncount"}
                               => reservedTotals[l.tenant] >= l.amount
                          /\ pc[t] = "commit_refund" => budgets[l.tenant] + (l.amount - l.actual) <= MaxI64
                          /\ pc[t] = "release_credit" => budgets[l.tenant] + l.amount <= MaxI64
    BY Zenon DEF UncheckedArithmeticSafe
  <2>1. TypeOK /\ WeakTypeOK /\ LocalsConsistent
    BY Zenon, TypeOKWeakens DEF IInv
  <2> DEFINE x == local[t].tenant
  <2>2. local[t].amount \in Int /\ local[t].actual \in Int /\ MaxI64 \in Int
    BY <2>1, ConstantsAssumption DEF TypeOK, Locals
  <2>3. ASSUME pc[t] # "idle"
        PROVE  /\ x \in Tenants
               /\ budgets[x] \in Int /\ committed[x] \in Int /\ committed[x] >= 0 /\ reservedTotals[x] \in Int
               /\ InHandSum(x) \in Int /\ CountedSum(x) \in Int /\ Held(x) \in Int
               /\ Held(x) >= 0 /\ InHandSum(x) >= InHand(t, x) /\ CountedSum(x) >= Counted(t, x)
               /\ Granted(x) \in Int /\ Granted(x) <= MaxI64
               /\ budgets[x] + committed[x] + Held(x) + InHandSum(x) = Granted(x)
               /\ reservedTotals[x] = Held(x) + CountedSum(x)
    <3>1. x \in Tenants
      BY Zenon, <2>1, <2>3 DEF TypeOK, LocalsConsistent
    <3> HIDE DEF x
    <3>2. budgets[x] \in Int /\ committed[x] \in Int /\ committed[x] >= 0 /\ reservedTotals[x] \in Int
      BY <2>1, <3>1, ConstantsAssumption DEF TypeOK, Ledger
    <3>3. Granted(x) \in Int /\ Granted(x) <= MaxI64
      BY <2>1, <2>2, <3>1, GrantedRange
    <3> QED BY Zenon, <2>1, <3>1, <3>2, <3>3, SumTypes, SumBounds
               DEF IInv, NoMoneyCreatedOrLost, ReservedTotalsExact
  <2>4. CASE pc[t] \in {"uncount", "commit_uncount", "release_uncount"}
    <3>1. Counted(t, x) = local[t].amount
      BY Zenon, <2>4 DEF Counted, Counting, Settling
    <3> HIDE DEF x
    <3>2. reservedTotals[x] >= local[t].amount
      BY SMTT(20), ZenonT(60), <2>2, <2>3, <2>4, <3>1
    <3> QED BY Zenon, <2>4, <3>2 DEF x
  <2>5. CASE pc[t] = "commit_refund"
    <3>1. InHand(t, x) = local[t].amount - local[t].actual
      BY Zenon, <2>5 DEF InHand
    <3> HIDE DEF x
    <3>2. budgets[x] + (local[t].amount - local[t].actual) <= MaxI64
      BY <2>2, <2>3, <2>5, <3>1
    <3> QED BY Zenon, <2>5, <3>2 DEF x
  <2>6. CASE pc[t] = "release_credit"
    <3>1. InHand(t, x) = local[t].amount
      BY Zenon, <2>6 DEF InHand
    <3> HIDE DEF x
    <3>2. budgets[x] + local[t].amount <= MaxI64
      BY <2>2, <2>3, <2>6, <3>1
    <3> QED BY Zenon, <2>6, <3>2 DEF x
  <2> QED BY Zenon, <2>4, <2>5, <2>6
<1> QED BY <1>1, InductiveInvariant, PTL

\* A reservation id names one reservation and is not handed out again.
THEOREM IdsAreUnique == Spec => []IdsUnique
<1>1. IInv => IdsUnique
  BY Zenon DEF IInv
<1> QED BY <1>1, InductiveInvariant, PTL

\* Every snapshot balances, and can be restored exactly when it has no open reservation.
THEOREM SnapshotsAreConsistent == Spec => []SnapshotsConsistent
<1>1. IInv => SnapshotsConsistent
  <2> SUFFICES ASSUME IInv, saved # None PROVE Balanced(saved) /\ (Restorable(saved) <=> saved.active = {})
    BY Zenon DEF SnapshotsConsistent
  <2>1. saved \in Snapshots
    BY Zenon DEF IInv, TypeOK
  <2>2. saved.version # 0 /\ saved.tenants \subseteq Tenants
    BY <2>1, ConstantsAssumption DEF Snapshots
  <2>3. ASSUME NEW x \in Tenants
        PROVE  /\ saved.budgets[x] \in 0..MaxI64 /\ saved.initials[x] \in 0..MaxI64
               /\ saved.reserved[x] \in 0..MaxI64 /\ saved.committed[x] \in 0..MaxI64
    BY Zenon, <2>1 DEF Snapshots, Ledger
  <2>4. \A x \in Tenants : /\ saved.budgets[x] + saved.reserved[x] + saved.committed[x] = saved.initials[x]
                           /\ saved.active = {} => saved.reserved[x] = 0
    BY Zenon DEF IInv, SavedConsistent
  <2>5. Balanced(saved)
    BY <2>2, <2>3, <2>4, ConstantsAssumption DEF Balanced
  <2> QED BY <2>2, <2>3, <2>4, <2>5 DEF Restorable
<1> QED BY <1>1, InductiveInvariant, PTL

\* commit returns Overflow only for a cost the tenant could not have paid.
THEOREM OverflowOnlyWhenUnaffordable == Spec => []OverflowIsUnaffordable
<1>1. IInv => OverflowIsUnaffordable
  <2> SUFFICES ASSUME IInv, NEW i \in Ids, NEW actual \in 0..MaxI64, reservations[i] # None,
                      committed[reservations[i].tenant] + actual > MaxI64
               PROVE  actual - reservations[i].amount > budgets[reservations[i].tenant]
    BY Zenon DEF OverflowIsUnaffordable
  <2> DEFINE x == reservations[i].tenant
             a == reservations[i].amount
  <2>1. TypeOK /\ WeakTypeOK /\ LocalsConsistent /\ MaxI64 \in Int
    BY TypeOKWeakens, ConstantsAssumption DEF IInv
  <2>2. x \in Tenants /\ a \in Int
    BY <2>1, ConstantsAssumption DEF TypeOK, Record
  <2>3. Hold(i, x) = a
    BY Zenon DEF Hold
  <2>4. committed[x] + actual > MaxI64
    BY Zenon
  <2> HIDE DEF x, a
  <2>5. Held(x) >= a /\ InHandSum(x) >= 0
    BY Zenon, <2>1, <2>2, <2>3, SumBounds
  <2>6. /\ budgets[x] \in Int /\ committed[x] \in Int /\ Held(x) \in Int /\ InHandSum(x) \in Int
        /\ Granted(x) \in Int
    BY Zenon, <2>1, <2>2, SumTypes, LedgerInts
  <2>7. Granted(x) <= MaxI64
    BY <2>1, <2>2, GrantedRange
  <2>8. budgets[x] + committed[x] + Held(x) + InHandSum(x) = Granted(x)
    BY Zenon, <2>2 DEF IInv, NoMoneyCreatedOrLost
  <2>9. actual - a > budgets[x]
    BY <2>1, <2>2, <2>4, <2>5, <2>6, <2>7, <2>8
  <2> QED BY Zenon, <2>9 DEF x, a
<1> QED BY <1>1, InductiveInvariant, PTL

\* The overflow branch of a top-up's credit is dead.
THEOREM TopUpCreditAlwaysFits == Spec => []TopUpCreditFits
<1>1. IInv => TopUpCreditFits
  <2> SUFFICES ASSUME IInv, NEW t \in Threads, pc[t] = "topup_credit"
               PROVE  budgets[local[t].tenant] + local[t].amount <= MaxI64
    BY Zenon DEF TopUpCreditFits
  <2> DEFINE x == local[t].tenant
  <2>1. TypeOK /\ WeakTypeOK /\ LocalsConsistent /\ MaxI64 \in Int
    BY TypeOKWeakens, ConstantsAssumption DEF IInv
  <2>2. /\ x \in Tenants /\ local[t].next = initials[x] + local[t].amount
        /\ local[t].amount \in Int /\ local[t].next <= MaxI64
    BY SMTT(20), ZenonT(60), <2>1, ConstantsAssumption DEF TypeOK, Locals, LocalsConsistent, ToppingUp
  <2>3. initialsLock = t
    BY Zenon DEF IInv, LockOwners, ToppingUp
  <2>4. Granted(x) = initials[x]
    BY Zenon, <2>3 DEF Granted
  <2> HIDE DEF x
  <2>5. Held(x) >= 0 /\ InHandSum(x) >= 0
    BY Zenon, <2>1, <2>2, SumBounds
  <2>6. /\ budgets[x] \in Int /\ committed[x] \in Int /\ Held(x) \in Int /\ InHandSum(x) \in Int
        /\ initials[x] \in Int /\ committed[x] >= 0
    BY SMTT(20), ZenonT(60), <2>1, <2>2, SumTypes, LedgerInts, ConstantsAssumption DEF TypeOK, Ledger
  <2>7. budgets[x] + committed[x] + Held(x) + InHandSum(x) = Granted(x)
    BY Zenon, <2>2 DEF IInv, NoMoneyCreatedOrLost
  <2>8. budgets[x] <= initials[x]
    BY <2>4, <2>5, <2>6, <2>7
  <2>9. budgets[x] + local[t].amount <= MaxI64
    BY <2>1, <2>2, <2>6, <2>8
  <2> QED BY Zenon, <2>9 DEF x
<1> QED BY <1>1, InductiveInvariant, PTL

\* Open reservations and running operations belong to tenants that exist.
THEOREM HeldTenantsAlwaysExist == Spec => []HeldTenantsExist
<1>1. IInv => HeldTenantsExist
  BY Zenon DEF IInv
<1> QED BY <1>1, InductiveInvariant, PTL

\* An admission is only made within the cap in force when it takes effect.
THEOREM AdmissionsStayWithinLimit == Spec => AdmissionsWithinLimit
<1>1. IInv /\ [Next]_vars =>
        [\A x \in Tenants :
           limits[x] > 0 =>
             /\ reservedTotals'[x] > reservedTotals[x] => reservedTotals'[x] <= limits[x]
             /\ (\E t \in Threads : ReserveDebit(t) /\ local[t].tenant = x /\ budgets'[x] < budgets[x])
                  => reservedTotals[x] <= limits[x]]_vars
  <2> SUFFICES ASSUME IInv, Next, NEW x \in Tenants, limits[x] > 0
               PROVE  /\ reservedTotals'[x] > reservedTotals[x] => reservedTotals'[x] <= limits[x]
                      /\ (\E t \in Threads : ReserveDebit(t) /\ local[t].tenant = x /\ budgets'[x] < budgets[x])
                           => reservedTotals[x] <= limits[x]
    BY Zenon
  <2>1. reservedTotals'[x] > reservedTotals[x] => reservedTotals'[x] <= limits[x]
    BY Zenon, CountedWithinLimit
  <2>2. ASSUME NEW t \in Threads, ReserveDebit(t), local[t].tenant = x PROVE reservedTotals[x] <= limits[x]
    BY Zenon, <2>2 DEF ReserveDebit, IInv, LimitsObserved
  <2> QED BY Zenon, <2>1, <2>2
<1> QED BY <1>1, InductiveInvariant, PTL DEF Spec, AdmissionsWithinLimit

-----------------------------------------------------------------------------
(***************************************************************************)
(* The engine implements the ledger: the sum over the ledger's holds, and  *)
(* the theorem.  The steps are in BudgetEngineSteps.                       *)
(***************************************************************************)
\* The holds of the ledger while only the first k threads count as pending.
HoldsUpTo(k, x) ==
  [i \in Ids |-> IF \E u \in 1..k : Pending(u) /\ local[u].id = i
                 THEN LedgerHold(i, x) ELSE Hold(i, x)]

\* The holds of the ledger are the records of the map and the pending ones.
LEMMA LedgerHeldSplits ==
  ASSUME IInv, NEW x \in Tenants
  PROVE  LedgerHeld(x) = Held(x) + Sum([t \in Threads |-> PendingAmount(t, x)], N)
<1> DEFINE n == AllocatorMask - 1
           f == [t \in Threads |-> PendingAmount(t, x)]
           p == PartialSums(f, N)
           Good == {k \in 0..N : Sum(HoldsUpTo(k, x), n) = Held(x) + p[k]}
<1>1. /\ n \in Nat /\ N \in Nat /\ Ids = 1..n /\ Threads = 1..N
      /\ f \in [1..N -> Int] /\ \A t \in Threads : f[t] = PendingAmount(t, x)
  BY LedgerTerms, ConstantsAssumption DEF Ids, Threads
<1>2. p \in [0..N -> Int] /\ p[0] = 0 /\ \A k \in 1..N : p[k] = p[k - 1] + f[k]
  BY Zenon, <1>1, PartialSumsDef
<1>3. \A k \in 0..N : HoldsUpTo(k, x) \in [1..n -> Int]
  BY Zenon, <1>1, LedgerTerms DEF HoldsUpTo
<1>4. Sum(f, N) = p[N] /\ Held(x) \in Int
  <2>1. Held(x) \in Int
    BY Zenon, SumTypes, TypeOKWeakens DEF IInv
  <2> QED BY Zenon, <2>1 DEF Sum
<1> HIDE DEF n, f, p
<1>5. 0 \in Good
  <2>1. HoldsUpTo(0, x) = [i \in Ids |-> Hold(i, x)]
    BY DEF HoldsUpTo
  <2>2. Sum(HoldsUpTo(0, x), n) = Held(x)
    BY Zenon, <2>1 DEF Held, n
  <2> QED BY <1>1, <1>2, <1>4, <2>2
<1>6. ASSUME NEW k \in 1..N, k - 1 \in Good PROVE k \in Good
  <2>0. k \in Threads /\ k \in 0..N /\ k - 1 \in 0..N /\ 1..k = 1..(k - 1) \cup {k}
    BY <1>1
  <2>1. Sum(HoldsUpTo(k - 1, x), n) = Held(x) + p[k - 1] /\ p[k] = p[k - 1] + f[k]
    BY Zenon, <1>2, <1>6
  <2>2. CASE ~Pending(k)
    <3>1. HoldsUpTo(k, x) = HoldsUpTo(k - 1, x)
      BY Zenon, <2>0, <2>2 DEF HoldsUpTo
    <3>2. f[k] = 0
      BY Zenon, <1>1, <2>0, <2>2 DEF PendingAmount
    <3> QED BY <1>2, <1>4, <2>0, <2>1, <3>1, <3>2
  <2>3. CASE Pending(k)
    <3>1. PICK j \in Ids : j = local[k].id
      BY Zenon, <2>0, <2>3, PendingFacts
    <3>2. /\ Hold(j, x) = 0 /\ LedgerHold(j, x) = f[k]
          /\ \A u \in Threads : Pending(u) /\ local[u].id = j => u = k
      BY Zenon, <1>1, <2>0, <2>3, <3>1, PendingFacts
    <3>3. \A u \in 1..(k - 1) : u \in Threads /\ u # k
      BY <1>1, <2>0
    <3>4. HoldsUpTo(k - 1, x)[j] = 0
      BY Zenon, <3>2, <3>3 DEF HoldsUpTo
    <3>5. HoldsUpTo(k, x)[j] = f[k]
      BY Zenon, <2>0, <2>3, <3>1, <3>2 DEF HoldsUpTo
    <3>6. \A i \in 1..n : i # j => HoldsUpTo(k, x)[i] = HoldsUpTo(k - 1, x)[i]
      BY Zenon, <1>1, <2>0, <3>1 DEF HoldsUpTo
    <3>7. Sum(HoldsUpTo(k, x), n) = Sum(HoldsUpTo(k - 1, x), n) - 0 + f[k]
      BY Zenon, <1>1, <1>3, <2>0, <3>4, <3>5, <3>6, SumUpdate
    <3>8. f[k] \in Int /\ p[k - 1] \in Int
      BY Zenon, <1>1, <1>2, <2>0
    <3> QED BY <1>4, <2>0, <2>1, <3>7, <3>8
  <2> QED BY Zenon, <2>2, <2>3
<1>7. N \in Good
  <2>1. \A k \in 0..N : k \in Good
    <3> HIDE DEF Good
    <3> QED BY Zenon, <1>1, <1>5, <1>6, InductionUpTo
  <2> QED BY <1>1, <2>1
<1>8. HoldsUpTo(N, x) = [i \in Ids |-> LedgerHold(i, x)]
  BY Zenon, <1>1, LedgerTerms DEF HoldsUpTo
<1> QED BY Zenon, <1>4, <1>7, <1>8 DEF LedgerHeld, n, f

\* A hold about to be debited is counted in the reserved total beside every hold of the
\* ledger: the cap it was counted under bounds the ledger's exposure.
LEMMA DebitIsCounted ==
  ASSUME IInv, NEW t \in Threads, pc[t] = "debit", NEW x \in Tenants, local[t].tenant = x
  PROVE  LedgerHeld(x) + local[t].amount <= reservedTotals[x] /\ LedgerHeld(x) \in Int
<1> DEFINE f == [u \in Threads |-> PendingAmount(u, x)]
           g == [f EXCEPT ![t] = local[t].amount]
           h == [u \in Threads |-> Counted(u, x)]
<1>1. N \in Nat /\ Threads = 1..N /\ local[t].amount \in Int
  BY ConstantsAssumption DEF IInv, TypeOK, Locals, Threads
<1>2. f \in [1..N -> Int] /\ h \in [1..N -> Int] /\ g \in [1..N -> Int]
  <2>1. f \in [1..N -> Int] /\ h \in [1..N -> Int]
    BY Zenon, <1>1, LedgerTerms
  <2> HIDE DEF f
  <2> QED BY Zenon, <1>1, <2>1
<1>3. f[t] = 0 /\ g[t] = local[t].amount /\ \A u \in 1..N : u # t => g[u] = f[u]
  BY Zenon, <1>1 DEF PendingAmount, Pending
<1>4. \A u \in 1..N : g[u] <= h[u]
  <2>1. ASSUME NEW u \in Threads PROVE PendingAmount(u, x) <= Counted(u, x)
    <3>1. local[u].amount \in Int /\ local[u].amount >= 0
      BY ConstantsAssumption DEF IInv, TypeOK, Locals
    <3> QED BY <3>1 DEF PendingAmount, Counted, Pending, Counting, Settling
  <2>2. Counted(t, x) = local[t].amount
    BY Zenon DEF Counted, Counting
  <2> QED BY <1>1, <1>2, <2>1, <2>2
<1>5. CountedSum(x) = Sum(h, N) /\ LedgerHeld(x) = Held(x) + Sum(f, N)
  BY Zenon, LedgerHeldSplits DEF CountedSum
<1>6. Held(x) \in Int /\ reservedTotals[x] = Held(x) + CountedSum(x)
  BY Zenon, SumTypes, TypeOKWeakens DEF IInv, ReservedTotalsExact
<1> HIDE DEF f, g, h
<1>7. Sum(g, N) = Sum(f, N) - f[t] + g[t]
  BY <1>1, <1>2, <1>3, SumUpdate
<1>8. Sum(g, N) <= Sum(h, N)
  BY Zenon, <1>1, <1>2, <1>4, SumMonotone
<1>9. Sum(f, N) \in Int /\ Sum(h, N) \in Int
  BY Zenon, <1>1, <1>2, SumType
<1> QED BY <1>1, <1>3, <1>5, <1>6, <1>7, <1>8, <1>9

\* Every hold about to be debited is counted so.
LEMMA DebitsAreCounted == IInv => DebitsCounted
BY Zenon, DebitIsCounted DEF DebitsCounted

\* Under every interleaving of any number of threads the engine behaves as the atomic
\* ledger: reserve takes effect at its debit, release and a commit without overrun when the
\* record is taken, a commit with an overrun at the debit of the difference, a top-up at its
\* credit, and an operation that fails has no effect.
THEOREM EngineImplementsLedger == Spec => ImplementsLedger
<1>1. Init => Abstract!Init /\ AbsentIsEmpty /\ CallAmounts
  BY Zenon, InitIInv, InitIsLedger
<1>2. IInv /\ AbsentIsEmpty /\ CallAmounts /\ [Next]_vars => AbsentIsEmpty' /\ CallAmounts'
  BY Zenon, AbsentStep, CallAmountsStep, RefStutter
<1>3. IInv /\ IInv' /\ AbsentIsEmpty /\ CallAmounts /\ [Next]_vars => [Abstract!Next]_(Abstract!vars)
  BY Zenon, DebitsAreCounted, StepIsLedger
<1>4. Spec => []IInv
  BY Zenon, InductiveInvariant
<1>5. Spec => Abstract!Init /\ [][Abstract!Next]_(Abstract!vars)
  BY <1>1, <1>2, <1>3, <1>4, PTL DEF Spec
<1> QED BY Zenon, <1>5 DEF ImplementsLedger, Abstract!Spec
=============================================================================
