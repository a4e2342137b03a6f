SPECIFICATION Spec
CONSTANTS
  Opps = {o1}
  MaxBatch = 1
  MaxDeal = 2
  Candidates <- OnePerRoute
  Fractions <- Halves
  Pnls <- Outcomes
  MaxFailures = 5
  MaxNotional = 4
  MaxDrawdown = 5
  MaxSlippage = 20
  StaleThreshold = 2000
  Venues <- MCVenues
  Kind <- MCKind
  Connected <- MCConnected
  DexVenues <- MCDexVenues
INVARIANT UnwindFailureHalts
