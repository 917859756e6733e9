SPECIFICATION FairSpec
CONSTANTS
  j1 = j1
  j2 = j2
  Jobs = {j1, j2}
  r1 = r1
  r2 = r2
  Requests = {r1, r2}
  w1 = w1
  w2 = w2
  Workers = {w1, w2}
  i1 = i1
  i2 = i2
  Incidents = {i1, i2}
  NoRow = NoRow
  NoJob = NoJob
  Plans <- OneOfEach
  Modes = {TRUE, FALSE}
  Faults = {}
  MaxCrashes = 1
  MaxRedeliveries = 0
PROPERTIES
  ImplementsLedger
  LocksAreReleased
\* Every request may be answered and every message handled.
CHECK_DEADLOCK FALSE
