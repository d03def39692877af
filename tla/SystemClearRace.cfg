CONSTANTS
  app = app
  c1 = c1
  d1 = d1
  d2 = d2
  d3 = d3
  n1 = n1
  n2 = n2
  App = {app}
  Cmd = {c1}
  Device = {d1, d2}
  DevName <- Names
  Registered = {d1}
  MaxThreads = 2
  ClearModes = {TRUE}
  MaxTask = 4
  MaxProc = 2
SPECIFICATION Spec
INVARIANT
  ProcIndexValid
\* The application may wait for a shutdown that no task requests.
CHECK_DEADLOCK FALSE
