SPECIFICATION Spec
CONSTANTS
  p1 = p1
  p2 = p2
  r1 = r1
  r2 = r2
  Procs = {p1, p2}
  Requests = {r1, r2}
  HostOf <- TwoHosts
  Clients = {c1}
  Keys = {k1}
  Buckets = {b1, b2}
  RegisterBucket = b1
  LookupBucket = b2
  Limit = 1
  Window = 2
  MaxBuckets = 1
  MaxTime = 2
  CacheTTL = 1
  LinkTTL = 2
  MaxRequests = 3
  MaxFaults = 1
INVARIANTS TypeOK AdmittedInTime HandedOutKeysExist KeysHandedOut CountersExpire AttemptsBounded
SYMMETRY HostSymmetry
CHECK_DEADLOCK FALSE
