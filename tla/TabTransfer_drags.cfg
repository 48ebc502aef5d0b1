SPECIFICATION Spec
CONSTANTS
  Window = {a, b}
  First = {a}
  Group = {g1, g2}
  Tab = {t}
  NoWindow = none
  NoGroup = nogroup
  NoTab = notab
  MaxSessions = 2
  MaxDrags = 2
  MaxClosed = 1
  MaxPosted = 1
SYMMETRY Alike
INVARIANT TabsKept
PROPERTIES  PreviewLasts
