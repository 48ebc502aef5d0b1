CONSTANTS
  p1 = p1
  p2 = p2
  w1 = w1
  w2 = w2
  w3 = w3
  Process = {p1, p2}
  Worker = {w1, w3}
  Home <- OnePerProcess
  NoProcess = NoProcess
  NoWorker = NoWorker
  Seats = 2
  Limit = 2
  ReusePids = FALSE
  Faults = {}
  MaxOps = 3
  MaxGeneration = 3
SPECIFICATION Spec
INVARIANTS StacksSound ReservationKept StackMatchesState ReplaysWhatWasAsked
PROPERTIES NoReplayOverLostWork Implements
