SPECIFICATION FairSpec
CONSTANTS
  a = a
  b = b
  d1 = d1
  d2 = d2
  Deliveries = {d1}
  Absent = Absent
  MaxAlerts = 2
  Scenarios <- MCAlone
  MaxAttempts = 2
  DatabaseModes = {FALSE}
  AutoAnalyze = TRUE
  Faults = {"queue_down"}
PROPERTIES
  NewIncidentsNotified
\* Every delivery may be answered and every incident deleted.
CHECK_DEADLOCK FALSE
