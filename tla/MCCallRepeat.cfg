SPECIFICATION Spec
CONSTANTS
  p1 = p1
  p2 = p2
  r1 = r1
  r2 = r2
  w1 = w1
  w2 = w2
  Calls = {1}
  BatchCalls = {1}
  Subscribed = {1}
  Recent = {1}
  Procs = {p1, p2}
  Requests = {r1}
  Workers = {w1, w2}
  HostOf <- OneDoor
  PassLimit = 1
  MaxIngests = 3
  MaxFaults = 0
  MaxOutages = 1
  MaxCrashes = 0
PROPERTY ForwardedOnce
