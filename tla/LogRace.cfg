SPECIFICATION Spec
CONSTANTS
  w1 = w1
  w2 = w2
  c1 = c1
  c2 = c2
  Writers = {w1}
  Controllers = {c1, c2}
  MaxCalls = 1
  MaxLoggers = 2
  Capacity = 1
  Fileless <- SecondCalls
  DisksFail = TRUE
  BrokersFail = TRUE
INVARIANT NoLeak
SYMMETRY Alike
