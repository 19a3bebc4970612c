SPECIFICATION FairSpec
CONSTANTS
  p1 = p1
  p2 = p2
  r1 = r1
  r2 = r2
  w1 = w1
  w2 = w2
  Calls = {1, 2}
  BatchCalls = {2}
  Subscribed = {1, 2}
  Recent = {1, 2}
  Procs = {p1}
  Requests = {r1}
  Workers = {w1}
  HostOf <- Single
  PassLimit = 1
  MaxIngests = 1
  MaxFaults = 1
  MaxOutages = 0
  MaxCrashes = 1
INVARIANTS ClaimsConserved OutcomeTerminal
PROPERTIES SingleCallReported FinishedCallReported
