SPECIFICATION Spec
CONSTANTS
  t1 = t1
  t2 = t2
  a = a
  Tasks = {t1, t2}
  Incoming = {a}
  Anonymous = {t2}
  Tracing = TRUE
  SpansFail = {"call"}
  InjectFails = {t1}
  Codes = {200}
  SendsFail = {t1}
  Kinds = {"http", "stub", "sql", "produce", "ws"}
  MaxCalls = 2
INVARIANT ServerSpansEnd
CHECK_DEADLOCK FALSE
