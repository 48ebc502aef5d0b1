SPECIFICATION Spec
CONSTANTS
  Nothing = Nothing
  Size = 5
  Window = 2
  MaxWrite = 3
INVARIANT AlwaysRight
CHECK_DEADLOCK FALSE
