CONSTANTS
  p1 = p1
  p2 = p2
  f1 = f1
  f2 = f2
  n1 = n1
  n2 = n2
  u1 = u1
  t1 = t1
  t2 = t2
  d1 = d1
  Proc = {p1, p2}
  File = {f1, f2}
  Name = {n1}
  User = {u1}
  Text = {t1, t2}
  Data = {d1}
  NoData = NoData
  NoFile = NoFile
  NoTable = NoTable
  NoRow = NoRow
SPECIFICATION Spec
SYMMETRY Symmetry
INVARIANTS
  TypeOK
  SelectFresh
  LastWrite
