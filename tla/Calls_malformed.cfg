SPECIFICATION Spec
CONSTANTS
  Kinds = {"analysis"}
  Retries = {0}
  Headers = {0}
  NoHeader = NoHeader
  Deadline = 2
INVARIANTS
  MalformedGetsFallback
\* The calls are over.
CHECK_DEADLOCK FALSE
