SPECIFICATION TrustSpec
CONSTANTS
  None = None
  p1 = p1
  p2 = p2
  p3 = p3
  k1 = k1
  k2 = k2
  k3 = k3
  w1 = w1
  w2 = w2
  w3 = w3
  Leaves = {1, 2}
  MaxLeaves = 6
  MaxBatch = 3
  Checkpoints <- MCCheckpoints
  Seeds = {k1, k2}
  LogName = "log"
  LogSeed = k1
  WitnessNames = {"log", "w"}
  KeyHash <- MCKeyHash
  Times = {0, 2, 3}
  MaxCosignatureTime = 2
  MaxNoteSignatures = 3
  MaxNoteEvents = 4
  Cosigners = {p1, p2, p3}
  KeyOf <- MCKeyOf
  Keygens = {k1, k2}
  MaxSignatures = 3
  MaxCreates = 2
  Witnesses = {w1, w2, w3}
  Dishonest = {w3}
  Threshold = 2
  MaxTime = 2
  MaxHeight = 1
  MaxSkew = 1
  MaxAge = 0
  Calendars <- MCCalendars
  Allowed = {1, 2}
  MaxDepth = 8
  MaxTags = 18
  MaxCommands = 2
  Certificates <- MCCertificates
  Pinned <- MCPinned
  Asked = {1, 2}
  Nonces = {1, 2}
  GenTimes = {1, 2}
  MaxTokenEvents = 3
  Policies <- MCPolicies
  Inputs = {1, 2}
  Keys = {k1, k2}
  States <- MCStates
  Wals <- MCWals
  MaxEvents = 3
  LogKey = k1
  OtherKey = k2
  ShortKey = k3
  MetadataOf <- MCMetadataOf
  MaxEntries = 2
  Domain = {1, 2}
  MaxChains = 2
  MaxU64 = 3
  MaxBundles = 3
  Catalogs <- MCCatalogs
  Requests = {0, 1, 9}
  MaxCatalog = 2
  DigestLen = 2
  MaxHandles = 2
SYMMETRY HonestSymmetry
INVARIANTS
  ProofsAreExact
  NotesAreGenuine
  FilesAreWhole
  RevocationIsSound
  FreshnessIsReal
  TimestampsAreSound
  AcceptedIsAuthentic
  ReadersAgreeWithHistory
  AcceptedTrajectoryHappened
  OutParametersTellTruth
CHECK_DEADLOCK FALSE
