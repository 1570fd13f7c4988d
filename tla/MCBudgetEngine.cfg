\* Two threads at the granularity of single atomic accesses, snapshots, restores, cap
\* changes and an allocator that runs out, with i64::MAX small enough to be reached.
CONSTANTS
  N = 2
  Tenants = {a}
  MaxI64 = 3
  AllocatorMask = 4
  Amounts <- MCAmounts
  None = None
SPECIFICATION Spec
INVARIANTS
  NoMoneyCreatedOrLost
  ReservedTotalsExact
  UncheckedArithmeticSafe
  SnapshotsConsistent
PROPERTIES
  AdmissionsWithinLimit
  ImplementsLedger
