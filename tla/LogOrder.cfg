SPECIFICATION CallSpec
CONSTANTS
  w1 = w1
  w2 = w2
  c1 = c1
  c2 = c2
  Writers = {w1}
  Controllers = {c1, c2}
  MaxCalls = 2
  MaxLoggers = 1
  Capacity = 1
  Fileless <- SecondCalls
  DisksFail = TRUE
  BrokersFail = TRUE
INVARIANTS FileFirst NothingLeftBehind SentInOrder
PROPERTIES BackendIsLossyQueue CallsReturn Drains
