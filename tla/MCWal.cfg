\* Two processes, writers of every kind, write and sync errors, dropped appends,
\* process crashes and power losses.
CONSTANTS
  Writers = {w1, w2}
  Data = {d1, d2}
  MaxSequence = 4
  Hashes <- MCHashes
  Hash <- MCHash
  Genesis <- MCGenesis
  Garbage = Garbage
  None = None
SPECIFICATION Spec
SYMMETRY Symmetric
INVARIANTS
  WriterKnowsHead
  SyncedEntriesKept
  AcknowledgedOrRefused
