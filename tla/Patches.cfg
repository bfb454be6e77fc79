CONSTANTS
  a = a
  b = b
  c = c
  k = k
  l = l
  v0 = v0
  v1 = v1
  Id = {a, b, c}
  Key = {k, l}
  Val = {v0, v1}
  MaxItems = 2
  MaxWrites = 2
  Stores <- Pairs
  Farewell = "lead"
SYMMETRY Sym
SPECIFICATION Spec
INVARIANTS UndoRestores ReplayReproduces
\* the writes are bounded
CHECK_DEADLOCK FALSE
