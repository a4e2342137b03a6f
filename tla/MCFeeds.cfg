SPECIFICATION FairSpec
CONSTANTS
  Prices = {1, 2}
  FeedKinds = {"binance", "bybit", "kraken", "hyperliquid", "dydx", "lighter"}
  VenueBooks <- MCBooks
  Updates <- MCUpdates
  MaxChanges = 3
  MaxLosses = 2
CHECK_DEADLOCK FALSE
INVARIANTS TypeOK GapsExplained
PROPERTIES FollowsVenue Converges
