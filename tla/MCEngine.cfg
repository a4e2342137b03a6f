SPECIFICATION FairEngineSpec
CONSTANTS
  Opps = {o1, o2}
  MaxBatch = 2
  MaxDeal = 2
  Candidates <- MCDeals
  Fractions <- AllOrNothing
  Pnls <- Profits
  MaxFailures = 2
  MaxNotional = 4
  MaxDrawdown = 5
  MaxSlippage = 20
  StaleThreshold = 2000
  Venues <- MCVenues
  Kind <- MCKind
  Connected <- MCConnected
  DexVenues <- MCDexVenues
  Configs <- MCConfigs
CHECK_DEADLOCK FALSE
INVARIANTS EngineTypeOK LedgerEmptyAtExit ExitExplained SessionsAccounted DropsAreFailures
PROPERTIES HaltDrains ShutdownCompletes
