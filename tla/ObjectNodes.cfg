CONSTANTS
  r = r
  a = a
  b = b
  x = x
  NoNode = NoNode
  Unread = Unread
  Node = {r, a, b, x}
  Instances = {x}
  Shapes <- MCShapes
  Programs <- MCPrograms
  MaxCalls = 4
  \* with Doomed = {} every behaviour of development is one of production
  DevMode = FALSE
  Doomed = {}
SPECIFICATION Spec
INVARIANTS Announced Released SnapshotIsCurrent
PROPERTIES HeardInOrder LeavesFirst DeathKeepsSnapshot
\* user code makes MaxCalls calls
CHECK_DEADLOCK FALSE
