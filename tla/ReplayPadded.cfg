SPECIFICATION Spec
CONSTANTS
  btc = btc
  padded = padded
  eth = eth
  NoPrice = NoPrice
  NoTick = NoTick
  MaxRuns = 1
  MaxTicks = 4
  RawSymbols = {btc, padded, eth}
  Strip <- StripPadding
  Ticks <- StreamTicks
  Decisions <- PaddedOrders
  Strategies <- OneStrategy
  Missing = Missing
INVARIANT PositionsInTargets
CHECK_DEADLOCK FALSE
