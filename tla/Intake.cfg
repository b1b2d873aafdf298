SPECIFICATION FairSpec
CONSTANTS
  Absent = Absent
  Failed = Failed
  Symbols = {"BTC", "btc", "ETH"}
  Markets = {"spot", "SPOT"}
  Intervals = {"1m", "5m", "1M", " "}
  Exchanges = {"BINANCE", "binance"}
  SymbolOf <- MCSymbolOf
  MarketOf <- MCMarketOf
  IntervalOf <- MCIntervalOf
  ExchangeOf <- MCExchangeOf
  Wanted <- MCWanted
  Partitions <- MCPartitions
  Messages <- MCMessages
  Errors = {Failed}
  Resets = {"earliest", "latest"}
  MaxOffset = 2
  MaxBatch = 2
  MaxStarts = 2
  MaxPublished = 3
INVARIANTS NothingDropped AtLeastOnce DeliveredIfWanted
CHECK_DEADLOCK FALSE
PROPERTY WantedArrives
