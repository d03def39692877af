CONSTANTS
  dev = dev
  other = other
  Name = {dev, other}
  DevName = dev
  Null = Null
  NumProp = 2
  MaxTry = 3
  MaxPlug = 2
  MaxList = 1
SPECIFICATION FairSpec
INVARIANTS
  TypeOK
  RightCamera
  FailedOpenClosed
  NoSilentLoss
PROPERTIES
  OpenEnds
