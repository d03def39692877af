CONSTANTS
  stereo = stereo
  mono = mono
  mono2 = mono2
  t1 = t1
  t2 = t2
  Task = {t1}
  Factory = {stereo, mono}
  NumCamera = 3
  FactoriesOf <- AllInOne
  CamerasOf <- StereoAndMono
  MaxQueueLen = 4
  KeepLen = 2
  MaxShot = 10
SPECIFICATION Spec
INVARIANTS
  StereoPaired
  InOrder
