SPECIFICATION Spec
CONSTANTS
  h1 = h1
  h2 = h2
  Hosts = {h1, h2}
  Limit = 2
  Window = 3
  Backends = {"memory", "redis"}
  MaxTime = 9
  MaxFailures = 2
INVARIANTS
  TypeOK
  NeverTooMany
  RefusedOnlyWhenFull
  IdleHostsForgotten
\* The clock stops at MaxTime.
CHECK_DEADLOCK FALSE
