CONSTANTS
  n1 = n1
  n2 = n2
  n3 = n3
  n4 = n4
  x = x
  y = y
  z = z
  Bad = Bad
  NoWrite = NoWrite
  Node = {n1, n2, n3}
  Id = {x, y}
  IdOf <- IdOfNode
  MaxLen = 3
  Doomed = {"double"}
SYMMETRY Sym
SPECIFICATION Spec
INVARIANT StoredOnce
\* every node may have died
CHECK_DEADLOCK FALSE
