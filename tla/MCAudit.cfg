SPECIFICATION FairSpec
CONSTANTS
  Order <- MCOrder
  SpotVenues = {"bybit"}
  Symbols = {"BTC", "ETH"}
  MaxHeld = 1
  MaxTrades = 3
  Threshold = 1
INVARIANT TypeOK
PROPERTIES DeltaExplained AuditsComplete
