SPECIFICATION Spec
CONSTANTS
  Opps = {o1, o2, o3}
  MaxBatch = 2
  MaxDeal = 2
  Candidates <- BreakerDeals
  Fractions <- AllOrNothing
  Pnls <- Outcomes
  MaxFailures = 2
  MaxNotional = 2
  MaxDrawdown = 5
  MaxSlippage = 20
  StaleThreshold = 2000
  Venues <- MCVenues
  Kind <- MCKind
  Connected <- MCConnected
  DexVenues <- MCDexVenues
INVARIANTS ActiveMeansHealthy NotionalAccounting NotionalOvershootBounded BooksAgree DrawdownStaysZero
PROPERTIES GateIsBreaker
SYMMETRY Symmetry
