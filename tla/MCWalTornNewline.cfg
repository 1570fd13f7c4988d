\* A crash that keeps a closing brace and loses its newline, against the promise of a sync.
CONSTANTS
  Writers = {w1}
  Data = {d1, d2}
  MaxSequence = 3
  Hashes <- MCHashes
  Hash <- MCHash
  Genesis <- MCGenesis
  Garbage = Garbage
  None = None
SPECIFICATION SyncSpec
INVARIANTS
  SyncedEntriesReadable
