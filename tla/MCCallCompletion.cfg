SPECIFICATION Spec
CONSTANTS
  p1 = p1
  p2 = p2
  r1 = r1
  r2 = r2
  w1 = w1
  w2 = w2
  Calls = {1}
  BatchCalls = {1}
  Subscribed = {1}
  Recent = {1}
  Procs = {p1, p2}
  Requests = {r1, r2}
  Workers = {w1, w2}
  HostOf <- TwoHosts
  PassLimit = 1
  MaxIngests = 2
  MaxFaults = 1
  MaxOutages = 1
  MaxCrashes = 0
INVARIANTS TypeOK ClaimsConserved SettledOncePerOpening OutcomeAnalysed OutcomeTerminal
PROPERTY ImplementsLedger
SYMMETRY HostSymmetry
