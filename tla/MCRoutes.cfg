SPECIFICATION FairSpec
CONSTANTS
  Opps = {o1}
  MaxBatch = 1
  MaxDeal = 1
  Candidates <- AllRoutes
  Fractions <- Edges
  Pnls <- Outcomes
  MaxFailures = 2
  MaxNotional = 4
  MaxDrawdown = 5
  MaxSlippage = 20
  StaleThreshold = 2000
  Venues <- MCVenues
  Kind <- MCKind
  Connected <- MCConnected
  DexVenues <- MCDexVenues
INVARIANTS TypeOK NakedLegExplained
PROPERTY Settles
