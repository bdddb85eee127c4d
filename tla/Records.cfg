CONSTANTS
  ann = ann
  s1 = s1
  s2 = s2
  r1 = r1
  r2 = r2
  Employees = {ann}
  Servers = {s1, s2}
  Requests = {r1, r2}
  Dates = {1, 2, 3}
  CacheTime = 2
  Patience = 1
  MaxClock = 3
  Links = {1, 2}
  Slots = {1, 2}
  TTL = 1
  Limit = 2
  Window = 2
  Contracts = {c1}
  Jobs = {j1, j2}
  Rates = {3}
  Pays = {1, 2}
  Statutory = 2
  MinTerm = 2
  Starts = {20230131, 20240228, 20230831, 20240301, 20231231}
  LastDate = 20290101
SPECIFICATION Spec
INVARIANTS
  TypeOK
  LockedOut
  StatusFollowsHistory
  AtMostLimit
  LinkServesOnce
  GratuityPaidOnce
  GratuityAsDue
  AnniversaryCycles
CHECK_DEADLOCK FALSE
