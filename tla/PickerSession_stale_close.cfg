SPECIFICATION Spec
CONSTANTS
  Choice = {x, y}
  NoChoice = none
  Closes = {"ok", "cancelled"}
  MaxShows = 2
CHECK_DEADLOCK FALSE
INVARIANT CancelRemains
