CONSTANTS
  n1 = n1
  n2 = n2
  Name = {n1, n2}
  MaxSets = 3
SPECIFICATION Spec
INVARIANTS
  TypeOK
  IndexIsPosition
  GroupComplete
