SPECIFICATION FairSpec
CONSTANTS
  x1 = x1
  x2 = x2
  Exports = {x1, x2}
  r1 = r1
  r2 = r2
  Drafts = {r1, r2}
  s1 = s1
  s2 = s2
  Processes = {s1, s2}
  jira = jira
  Destinations = {jira}
  None = None
  DatabaseModes = {TRUE, FALSE}
  MaxRestarts = 1
INVARIANTS
  TypeOK
  NoSilentDuplicate
  LinksAgree
  VersionCountsWrites
PROPERTIES
  ReceiptsAreEarned
  ExportsEnd
\* Every request may be answered.
CHECK_DEADLOCK FALSE
