\* Both clamps raise the requested slots to 8.
CONSTANTS
  RequestedCount = 3
  MaxPush = 11
  ObjectCount = 5
  MaxClones = 14
SPECIFICATION MCRingsSpec
INVARIANTS
  WindowOrdered
  Accounted
  PasteIsLastCopy
  HeldOnce
PROPERTIES
  ImplementsHistory
\* The program stops when the panel is closed and when a loop spins, and the
\* bound on the clones ends the other behaviours.
CHECK_DEADLOCK FALSE
