SPECIFICATION Spec
CONSTANTS
  Prices = {1, 2, 3}
  Books <- OneBook
  Symbols = {"BTCUSDT"}
  FeedVenues = {"binance"}
  Pairs <- MCPairs
  FeeVenues = {"binance", "bybit"}
  Messages <- DeepMessages
  MaxTarget = 4
INVARIANTS LaddersAgree SweepIsBest
