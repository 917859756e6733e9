SPECIFICATION FairSpec
CONSTANTS
  a = a
  b = b
  d1 = d1
  d2 = d2
  Deliveries = {d1, d2}
  Absent = Absent
  MaxAlerts = 2
  Scenarios <- MCScenarios
  MaxAttempts = 2
  DatabaseModes = {TRUE, FALSE}
  AutoAnalyze = TRUE
  Faults = {"queue_down", "crash", "database_down", "ambiguous_commit", "task_raises"}
INVARIANTS
  TypeOK
  OneIncidentPerOccurrence
  BatchIsAtomic
  ReceiptsAreHonest
PROPERTIES
  ImplementsBook
  DeliveriesEnd
\* Every delivery may be answered and every incident deleted.
CHECK_DEADLOCK FALSE
