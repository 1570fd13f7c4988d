\* The error of an async append's last piece, against the promise of a sync at every append.
CONSTANTS
  Writers = {w1}
  Data = {d1, d2}
  MaxSequence = 3
  Hashes <- MCHashes
  Hash <- MCHash
  Genesis <- MCGenesis
  Garbage = Garbage
  None = None
SPECIFICATION Spec
INVARIANTS
  SyncedAppendsInLog
