CONSTANTS
  p1 = p1
  p2 = p2
  w1 = w1
  w2 = w2
  w3 = w3
  Process = {p1, p2}
  Worker = {w1, w3}
  Home <- OnePerProcess
  NoProcess = NoProcess
  NoWorker = NoWorker
  Seats = 1
  Limit = 2
  ReusePids = TRUE
  Faults = {"retained", "dropped", "unwound", "bypassed"}
  MaxOps = 2
  MaxGeneration = 2
SPECIFICATION Spec
INVARIANTS  ReplayExclusive
PROPERTIES BarrierStays ClosedForSession
