CONSTANTS
  app = app
  c1 = c1
  d1 = d1
  d2 = d2
  d3 = d3
  n1 = n1
  n2 = n2
  App = {app}
  Cmd = {c1}
  Device = {d1, d2, d3}
  DevName <- Names
  Registered = {d1, d2}
  MaxThreads = 2
  ClearModes = {FALSE}
  MaxTask = 4
  MaxProc = 2
SPECIFICATION FairSpec
INVARIANTS
  TypeOK
  StopSafe
  NoOrphan
  ProcIndexValid
  NoReleaseInUse
  ClosedReleases
PROPERTIES
  StopReturns
  
\* The application may wait for a shutdown that no task requests.
CHECK_DEADLOCK FALSE
