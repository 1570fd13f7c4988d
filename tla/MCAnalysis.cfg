SPECIFICATION AnalysisSpec
CONSTANTS
  MaxU16 = 3
  MaxU64 = 31
  MaxI64 = 15
  BasisPoints = 4
  CostScale = 2
  MaxProviderId = 1
  MaxU32 = 6
  Ppm = 3
  MaxPriceScalePpm = 9
  Policies <- MCPolicies
  Inputs <- MCInputs
  LogPolicies <- MCLogPolicies
  LogInputs <- MCLogInputs
  Rates = {0, 1, 4}
  WindowSizes = {0, 5}
  Suppliers <- MCSuppliers
  Orders <- MCOrders
  Batches <- MCBatches
  Knobs <- MCKnobs
  Quotes <- MCQuotes
  Configs <- MCConfigs
  Requests <- MCRequests
  MaxSuppliers = 2
  MaxRequests = 2
  MaxChanges = 1
  None = None
INVARIANTS
  PropensityIsExact
  ExactEstimateIsFair
  SearchesAreExact
  AdaptersAreExact
CHECK_DEADLOCK FALSE
