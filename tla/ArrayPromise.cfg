CONSTANTS
  n1 = n1
  n2 = n2
  n3 = n3
  n4 = n4
  x = x
  y = y
  z = z
  Bad = Bad
  NoWrite = NoWrite
  Node = {n1, n2, n3, n4}
  Id = {x, y, z}
  IdOf <- IdOfNode
  MaxLen = 3
  Doomed = {}
SYMMETRY Sym
SPECIFICATION Spec
INVARIANTS Placed IdentityKept
PROPERTY ImplementsList
\* every node may have died
CHECK_DEADLOCK FALSE
