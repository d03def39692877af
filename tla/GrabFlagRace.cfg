CONSTANTS
  t1 = t1
  t2 = t2
  p1 = p1
  p2 = p2
  Null = Null
  App = App
  Tasks <- TwoTasks
  Callers <- AppCaller
  Modes = {"startMT"}
  Proc = {p1, p2}
  MaxCount = 1
  MaxCalls = 1
SPECIFICATION Spec
INVARIANT
  FlagExact
\* The system stops once stop() has returned.
CHECK_DEADLOCK FALSE
