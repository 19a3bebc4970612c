SPECIFICATION FairSpec
CONSTANTS
  p1 = p1
  p2 = p2
  r1 = r1
  r2 = r2
  n1 = n1
  n2 = n2
  Batches = {1, 2}
  Subscribed = {1, 2}
  Procs = {p1, p2}
  Requests = {r1, r2}
  Resenders = {n1}
  HostOf <- OneResends
  PassLimit = 1
  MaxRequests = 2
  MaxFaults = 1
  MaxCrashes = 1
INVARIANTS TypeOK ClaimsConserved ToldUnlessRaced
PROPERTIES ImplementsLedger FinalStatusTold
CHECK_DEADLOCK FALSE
