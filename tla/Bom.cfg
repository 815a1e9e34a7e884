CONSTANTS
  a = a
  b = b
  c = c
  Names = {a, b, c}
  Extras = {x}
  Locks <- SmallLocks
SPECIFICATION FairSpec
CHECK_DEADLOCK FALSE
INVARIANTS TypeOK ScopeRight
PROPERTIES EndsUnlessCircle
