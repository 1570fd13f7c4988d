\* A witness served by two processes, with races, crashes and power losses on its file,
\* a second witness that cosigns anything, two auditors that need both, and a log that
\* forks at its first leaf.
SPECIFICATION Spec
CONSTANTS
  Witnesses = {w1, w2}
  w2 = w2
  w1 = w1
  Honest = {w1}
  Processes = {p1, p2}
  p1 = p1
  p2 = p2
  Auditors = {a1, a2}
  a1 = a1
  a2 = a2
  Threshold = 2
  Bogus = Bogus
  None = None
  Heads <- MCHeads
  Size <- MCSize
  Extends <- MCExtends
  EmptyHead <- MCEmptyHead
SYMMETRY Symmetric
INVARIANTS
  OneHistory
  NoSplitView
