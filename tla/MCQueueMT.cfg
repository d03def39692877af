CONSTANTS
  stereo = stereo
  mono = mono
  mono2 = mono2
  t1 = t1
  t2 = t2
  Task = {t1, t2}
  Factory = {mono, mono2}
  NumCamera = 2
  FactoriesOf <- PerMono
  CamerasOf <- TwoMonos
  MaxQueueLen = 3
  KeepLen = 2
  MaxShot = 4
SPECIFICATION FairSpec
INVARIANTS
  TypeOK
  QueueBounded
  SpinSafe
  IInv
  InOrder
  OrderInv
PROPERTIES
  DeliversGroups
  SpinEnds
  NoStrandedGroup
