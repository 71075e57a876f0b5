CONSTANTS
  box = box
  a = a
  b = b
  Control = {box, a, b}
  Container = {box}
  LoadedForm <- MCLoadedForm
  Base = Base
  NoContainer = NoContainer
  ClipMax = 1
  MaxLoc = 1
  MaxSelected = 2
  MaxPush = 2
  MaxKeys = 1
SPECIFICATION Spec
INVARIANTS
  SelectionTogether
PROPERTIES
  GestureUndone
\* The program ends after a use of freed memory.
CHECK_DEADLOCK FALSE
