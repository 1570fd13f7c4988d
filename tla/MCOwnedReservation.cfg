\* Three reservations of two tenants and every way to settle them.
CONSTANTS
  Tenants = {a, b}
  MaxI64 = 2
  AllocatorMask = 4
  Amounts <- MCAmounts
  None = None
SPECIFICATION OwnedSpec
INVARIANTS
  ValueNamesOpenHold
CHECK_DEADLOCK FALSE
