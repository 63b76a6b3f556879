CONSTANTS
  r1 = r1
  r2 = r2
  c1 = c1
  c2 = c2
  c3 = c3
  s1 = s1
  s2 = s2
  Reqs = {r1, r2}
  Callers = {c1, c2, c3}
  OneWay = {c3}
  Sockets = {s1, s2}
  SockOf <- OneSocket
  Named = TRUE
  NoCaller = NoCaller
  MaxSeq = 2
  MaxInc = 1
SPECIFICATION Spec
INVARIANTS
  ResponsesReachCaller
  SafeUnlessMisused
PROPERTY HandledOnce
CHECK_DEADLOCK FALSE
