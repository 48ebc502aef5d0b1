CONSTANTS
  p1 = p1
  p2 = p2
  w1 = w1
  w2 = w2
  w3 = w3
  Process = {p1, p2}
  Worker = {w1, w2}
  Home <- TwoInFirst
  NoProcess = NoProcess
  NoWorker = NoWorker
  Seats = 2
  Limit = 1
  ReusePids = FALSE
  Faults = {}
  MaxOps = 2
  MaxGeneration = 2
SPECIFICATION FairSpec

PROPERTIES AdmissionProgress ReplayProgress
