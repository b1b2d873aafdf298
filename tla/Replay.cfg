SPECIFICATION Spec
CONSTANTS
  btc = btc
  padded = padded
  eth = eth
  NoPrice = NoPrice
  NoTick = NoTick
  MaxRuns = 2
  MaxTicks = 4
  RawSymbols = {btc, padded, eth}
  Strip <- StripPadding
  Ticks <- StreamTicks
  Decisions <- Orders
  Strategies <- TwoStrategies
  Missing = Missing
INVARIANTS TypeOK LatestIsSeen CountsAreRight PositionIsNet EntryIsExplained
CHECK_DEADLOCK FALSE
