CONSTANTS
  n1 = n1
  n2 = n2
  n3 = n3
  n4 = n4
  c1 = c1
  c2 = c2
  c3 = c3
  x = x
  y = y
  f = f
  NoNode = NoNode
  NoCache = NoCache
  NoStamp = NoStamp
  Node = {n1, n2, n3, n4}
  Cache = {c1, c2, c3}
  Id = {x, y}
  Ref = {f}
  IdOf <- IdOfNode
  Wanted <- WantedId
  Accepts <- Accepted
  MaxStamp = 2
SYMMETRY Sym
SPECIFICATION Spec
INVARIANTS SetsExact MemoIsCurrent
PROPERTY ImplementsScope
\* every cache may be used up and every node dead
CHECK_DEADLOCK FALSE
