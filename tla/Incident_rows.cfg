SPECIFICATION Spec
CONSTANTS
  p1 = p1
  p2 = p2
  p3 = p3
  a1 = a1
  a2 = a2
  Patches = {p1, p2, p3}
  Analyses = {a1, a2}
  m1 = m1
  m2 = m2
  Models = {m1, m2}
  t1 = t1
  t2 = t2
  Titles = {t1, t2}
  Times = {1, 2}
  NoModel = NoModel
  NoRow = NoRow
  Unset = Unset
  LockModes = {TRUE, FALSE}
SYMMETRY Symmetry
INVARIANTS
  TypeOK
  DashboardAgrees
  TimelineChain
  EmbeddingFresh
PROPERTIES
  StampsStay
\* Every request may be answered and the row deleted.
CHECK_DEADLOCK FALSE
