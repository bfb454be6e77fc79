CONSTANTS
  None = None
  Key <- MCKey
  Depth = 2
  Lost = Lost
  Item = {i1, i2, i3}
  Value = {v1, v2, bad}
  Bad = {bad}
  LazyKeys <- MCLazyKeys
  Property <- MCProperty
  Doomed = {}
SPECIFICATION LazySpec
INVARIANT PathsLeadBack
PROPERTIES LoadEnds LoadKeepsSnapshots
\* every item may be used up
CHECK_DEADLOCK FALSE
