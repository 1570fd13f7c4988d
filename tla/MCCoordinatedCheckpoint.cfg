\* Two mutations, four allocator positions: two generations with a mutation between them, or a
\* generation between two mutations, and replays after any crash.
SPECIFICATION Spec
CONSTANTS
  Mutations = {a, b}
  a = a
  b = b
  MaxLog = 2
  MaxId = 4
  None = None
SYMMETRY Symmetric
INVARIANTS
  LedgerIsLog
  ReturnedGenerationKept
CHECK_DEADLOCK FALSE
