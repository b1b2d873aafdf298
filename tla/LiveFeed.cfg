SPECIFICATION Spec
CONSTANTS
  a = a
  b = b
  kline = kline
  Discarded = Discarded
  Undecodable = Undecodable
  MaxStarts = 2
  MaxOffset = 3
  MaxBatch = 2
  MaxCrashes = 1
  StartsFail = TRUE
  CallbacksStop = FALSE
  Kinds = {kline}
  KindOf <- SecondDiscarded
  Callbacks = {a, b}
  Wants <- WantKlines
INVARIANTS SingleLoop FanoutComplete CleanStop CommitBehindDelivery
PROPERTY KeepsPromises
