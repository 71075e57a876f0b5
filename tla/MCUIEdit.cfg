CONSTANTS
  box = box
  a = a
  b = b
  i1 = i1
  i2 = i2
  Control = {box, a, b}
  Container = {box}
  LoadedForm <- MCLoadedForm
  Image = {i1}
  Loc = {0, 1}
  Default = Default
  NoImage = NoImage
  Base = Base
  Empty = Empty
  Capacity = 2
  MaxPush = 3
  MaxUse = 2
SPECIFICATION Spec
INVARIANTS
  RefsExact
  ReadyToExecute
  NeverUndercounted
PROPERTIES
  UndoRestores
\* The program stops when the form is closed, and after a use of freed memory.
CHECK_DEADLOCK FALSE
