CONSTANTS
  h1 = h1
  t1 = t1
  t2 = t2
  t3 = t3
  c1 = c1
  c2 = c2
  x = x
  y = y
  NoNode = NoNode
  NoId = NoId
  Node = {h1, t1, t2, t3, c1}
  Host = {h1}
  Target = {t1, t2, t3}
  Container = {c1}
  Id = {x, y}
  IdOf <- IdOfTarget
  Doomed = {}
SYMMETRY Sym
SPECIFICATION Spec
INVARIANTS WatchesWhatItResolves
PROPERTIES ClearedWithTarget ClearedOnlyWithTarget
\* every node may be dead
CHECK_DEADLOCK FALSE
