SPECIFICATION Spec
CONSTANTS
  r1 = r1
  r2 = r2
  r3 = r3
  l1 = l1
  l2 = l2
  l3 = l3
  n1 = n1
  Archives = {r1, r2, r3}
  Additions = {l1, l2, l3}
  Notes = {n1}
  Times = {1, 2}
  Stores = {"s3", "demo", "none"}
  MaxEntries = 2
  MaxAttempts = 2
SYMMETRY Symmetry
INVARIANTS
  TypeOK
  ReceiptBacked
  ArchivesAccountedFor
\* Every request may be answered.
CHECK_DEADLOCK FALSE
