CONSTANTS
  t1 = t1
  t2 = t2
  p1 = p1
  p2 = p2
  Null = Null
  App = App
  Tasks <- TwoTasks
  Callers <- TaskCallers
  Modes = {"start", "startMT"}
  Proc = {p1, p2}
  MaxCount = 2
  MaxCalls = 2
SPECIFICATION FairSpec
INVARIANTS
  FlagExact
  ActiveProcRuns
PROPERTIES
  DiscardExact
  SwitchHappens
\* The system stops once stop() has returned.
CHECK_DEADLOCK FALSE
