SPECIFICATION Spec
CONSTANTS
  Caller = {c1, c2}
  Standby = {s1, s2}
  Spawner = {w1, w2}
  Nobody = nobody
  NoRequest = none
  Ticket = {t1, t2}
  Birth = {b1, b2}
  Never = never
  Timeouts = TRUE
SYMMETRY Alike
INVARIANTS OneWindowPerLaunch HandedMeansAdopted StandbyReachable
