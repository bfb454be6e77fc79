CONSTANTS
  n1 = n1
  n2 = n2
  n3 = n3
  n4 = n4
  s1 = s1
  s2 = s2
  e1 = e1
  NoNode = NoNode
  NoSlot = NoSlot
  NoEnv = NoEnv
  Node = {n1, n2, n3, n4}
  Identified = {n1, n2, n3}
  Slot = {s1, s2}
  Entry = {s1}
  Required = {s2}
  Env = {e1}
  Doomed = {}
SYMMETRY Sym
SPECIFICATION Spec
INVARIANTS PathsAgree RootedForest CacheExact
PROPERTIES DeadStaysOut EnvironmentKept ImplementsScope
\* every node may be dead and read: the program has then nothing left to do
CHECK_DEADLOCK FALSE
