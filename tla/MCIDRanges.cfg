CONSTANTS
  LimitMax = 3
  Owner = {me, other}
  Me = me
  MaxRanges = 4
  MaxCrossed = 3
SPECIFICATION RangesSpec
INVARIANTS
  RangesTypeOK
  CountsExact
  RangesDisjoint
  FreeIdsOffered
PROPERTIES
  RestartNeverReassigns
\* The program stops when it follows a bad pointer.
CHECK_DEADLOCK FALSE
