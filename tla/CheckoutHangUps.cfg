SPECIFICATION Spec
CONSTANTS
  r1 = r1
  r2 = r2
  r3 = r3
  k1 = k1
  k2 = k2
  v1 = v1
  v2 = v2
  wax = wax
  None = None
  Requests = {r1, r2, r3}
  Keys = {k1, k2}
  Visits = {v1}
  Products = {wax}
  Conns = {c1, c2}
  Impatient = {r1}
  Counts = {1}
  Batches <- HangUpBatches
INVARIANTS
  PoolIntact
PROPERTIES
  Answered
CHECK_DEADLOCK FALSE
