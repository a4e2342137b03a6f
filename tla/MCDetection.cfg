SPECIFICATION FairSpec
CONSTANTS
  Prices = {1, 2}
  Books <- MCBooks
  Symbols = {"BTCUSDT"}
  FeedVenues = {"binance", "bybit", "hyperliquid"}
  Pairs <- MCPairs
  FeeVenues = {"binance", "bybit"}
  Messages <- CrossingMessages
  MaxTarget = 3
INVARIANTS TypeOK NoLostWakeUp
PROPERTY WakeUpsConsumed
