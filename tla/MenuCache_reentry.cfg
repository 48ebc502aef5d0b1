SPECIFICATION Spec
CONSTANTS
  Selected = {f1, f2, f3, big}
  Background = {b1}
  Uncachable = {big}
  Wrapper = {m1, m2, m3, m4}
  NoWrapper = none
  SelectedSlots = 2
  BackgroundSlots = 1
  Deferrable = 1
  Budget = TRUE
  MaxDepth = 2
  MaxOpen = 2
SYMMETRY Alike
INVARIANTS ShownExist WrappersAccounted DeferredDrained
