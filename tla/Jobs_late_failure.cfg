SPECIFICATION Spec
CONSTANTS
  j1 = j1
  Jobs = {j1}
  r1 = r1
  Requests = {r1}
  w1 = w1
  w2 = w2
  Workers = {w1, w2}
  i1 = i1
  Incidents = {i1}
  NoRow = NoRow
  NoJob = NoJob
  Plans <- RelatedCalls
  Modes = {TRUE}
  Faults = {}
  MaxCrashes = 0
  MaxRedeliveries = 1
PROPERTIES
  SucceededIsFinal
\* Every request may be answered and every message handled.
CHECK_DEADLOCK FALSE
