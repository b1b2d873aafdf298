SPECIFICATION Spec
CONSTANTS
  a = a
  b = b
  kline = kline
  Discarded = Discarded
  Undecodable = Undecodable
  MaxStarts = 1
  MaxOffset = 2
  MaxBatch = 2
  MaxCrashes = 0
  StartsFail = FALSE
  CallbacksStop = TRUE
  Kinds = {kline}
  KindOf <- AllKlines
  Callbacks = {a}
  Wants <- WantKlines
INVARIANT StopCloses
