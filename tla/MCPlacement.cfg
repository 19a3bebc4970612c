SPECIFICATION FairSpec
CONSTANTS
  a1 = a1
  c1 = c1
  c2 = c2
  p1 = p1
  p2 = p2
  o1 = o1
  r1 = r1
  r2 = r2
  h1 = h1
  h2 = h2
  v1 = v1
  n1 = n1
  None = None
  Agents = {a1, a2}
  a2 = a2
  Numbers = {n1}
  Clients = {c1, c2}
  Procs = {p1, p2}
  Operators = {o1}
  Budgets <- MCBudgets
  Execs = {1, 2, 3}
  Batches = {b1}
  b1 = b1
  Requests = {r1, r2}
  Handlers = {h1, h2}
  HostOf <- MCHostOf
  PageSize = 1
  MaxPages = 2
  Vars = {v1}
  Prompt <- MCPrompt
  System = {}
  FileOptional <- MCNone
  ClientOptional <- MCClientOptional
INVARIANTS TypeOK DriftKnown RowsAttributed PlacedOnce CallsAccounted ReconciledComplete
PROPERTY CatalogConverges
CHECK_DEADLOCK FALSE
