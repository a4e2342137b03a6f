SPECIFICATION FairSpec
CONSTANTS
  Opps = {o1, o2}
  MaxBatch = 1
  MaxDeal = 2
  Candidates <- BreakerDeals
  Fractions <- AllOrNothing
  Pnls <- Outcomes
  MaxFailures = 2
  MaxNotional = 4
  MaxDrawdown = 5
  MaxSlippage = 20
  StaleThreshold = 2000
  Venues <- MCVenues
  Kind <- MCKind
  Connected <- MCConnected
  DexVenues <- MCDexVenues
PROPERTY PausedRecovers
