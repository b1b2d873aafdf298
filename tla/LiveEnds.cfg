SPECIFICATION FairSpec
CONSTANTS
  a = a
  b = b
  kline = kline
  Discarded = Discarded
  Undecodable = Undecodable
  MaxStarts = 2
  MaxOffset = 2
  MaxBatch = 2
  MaxCrashes = 0
  StartsFail = FALSE
  CallbacksStop = TRUE
  Kinds = {kline}
  KindOf <- SecondUndecodable
  Callbacks = {a}
  Wants <- WantKlines
PROPERTIES StopReturns LoopsEnd Delivers
