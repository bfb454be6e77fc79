CONSTANTS
  MaxId = 4
  MaxYields = 1
SPECIFICATION Spec
INVARIANTS CountsAreExact ReportsAsDocumented
PROPERTY ImplementsLifetimes
\* every number may be used up
CHECK_DEADLOCK FALSE
