CONSTANTS
  a1 = a1  a2 = a2  a3 = a3  b1 = b1  b2 = b2
  a = a  b = b
  Node = {a1, a2, a3, b1, b2}
  Key = {a, b}
  IdOf <- MCIdOf
  NoNode = NoNode
  NoKey = NoKey
  MaxHookWrites = 2
  Doomed = {}
SPECIFICATION Spec
SYMMETRY Interchangeable
INVARIANT Placed
PROPERTY RefusedChangesNothing AppliedInPlace
\* A write that needs a node stops when the bounded supply of them is used up.
CHECK_DEADLOCK FALSE
