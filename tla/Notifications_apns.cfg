SPECIFICATION Spec
CONSTANTS
  i1 = i1
  i2 = i2
  Incidents = {i1, i2}
  t1 = t1
  t2 = t2
  Tokens = {t1, t2}
  slack = slack
  Channels = {slack}
  ApnsConfigured = TRUE
  Slots = 1
  LongestPush = 1
  Refresh = 2
  Horizon = 5
  MaxBehind = 1
  MaxAhead = 1
  NoToken = NoToken
SYMMETRY Symmetry
INVARIANTS
  TypeOK
  TokenAgeBounded
  EveryoneIsTold
\* Every incident may be created and announced.
CHECK_DEADLOCK FALSE
