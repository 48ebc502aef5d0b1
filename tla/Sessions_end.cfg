SPECIFICATION FairSpec
CONSTANTS
  Choice = {x, y}
  NoChoice = NoChoice
  CloseResult = {"cancelled"}
  MaxShows = 2
  Window = {d1}
  JobWorker = {k1}
  NoWorker = NoWorker
  Limit = 1
  MaxStarts = 2
  a1 = a1
  c1 = c1
  s1 = s1
  s2 = s2
  w1 = w1
  Nobody = Nobody
  NoRequest = NoRequest
  t1 = t1
  t2 = t2
  b1 = b1
  b2 = b2
  Never = Never
INVARIANTS RightAnswer CancelRemains DialogReturned PressedByUser NoHelperLeft AdoptedMailboxRecovered
PROPERTIES SessionEnds Returned HostEnds MailboxFreed
CHECK_DEADLOCK FALSE
