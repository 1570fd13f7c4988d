\* A u64 of 4 bits, that the priced products fit, fill and exceed; trusted catalogs up to the
\* longest that is admitted, and one model longer.
SPECIFICATION Spec
CONSTANTS
  MaxU16 = 3
  MaxU64 = 15
  MaxI64 = 7
  BasisPoints = 2
  CostScale = 2
  MaxProviderId = 1
  Catalogs <- MCCatalogs
  Settings <- MCSettings
  Inputs <- MCInputs
  None = None
INVARIANTS
  PricesAreExact
  SelectionIsBest
  TellingsAgree
  RejectionIsRecognisable
