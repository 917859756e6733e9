SPECIFICATION FairSpec
CONSTANTS
  Kinds = {"analysis", "export"}
  Retries = {0, 2, 5}
  Headers <- MCHeaders
  NoHeader = NoHeader
  Deadline = 16
INVARIANTS
  TypeOK
  ReplaysAreJustified
  ReportIsHonest
PROPERTIES
  CallsEnd
\* The calls are over.
CHECK_DEADLOCK FALSE
