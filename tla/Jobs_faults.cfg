SPECIFICATION Spec
CONSTANTS
  j1 = j1
  j2 = j2
  Jobs = {j1, j2}
  r1 = r1
  r2 = r2
  Requests = {r1, r2}
  w1 = w1
  w2 = w2
  Workers = {w1, w2}
  i1 = i1
  i2 = i2
  Incidents = {i1, i2}
  NoRow = NoRow
  NoJob = NoJob
  Plans <- RelatedCalls
  Modes = {TRUE, FALSE}
  Faults = {"api_crash", "ambiguous_publish", "ambiguous_commit", "lock_error", "time_limit", "database_outage"}
  MaxCrashes = 1
  MaxRedeliveries = 1
SYMMETRY Symmetry
INVARIANTS
  TypeOK
  NoStaleRunning
  ResultBacked
  NoOrphans
  CommitIsSafe
  NoStrandedJob
PROPERTIES
  NoRepeatedAnalysis
\* Every request may be answered and every message handled.
CHECK_DEADLOCK FALSE
