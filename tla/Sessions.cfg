SPECIFICATION Spec
CONSTANTS
  t1 = t1
  t2 = t2
  a = a
  spinner = spinner
  Threads = {t1, t2}
  Spinner = spinner
  Incoming = {a}
  TracingFails = TRUE
  MaxRpcs = 2
  MaxCalls = 1
  MaxMade = 2
  MaxSpans = 3
  MaxDepth = 3
SYMMETRY Alike
INVARIANTS ContextIsInnermost EntriesCarrySession CallsJoinTrace CallNamesItsSpan OneEntryEach
