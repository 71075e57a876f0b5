CONSTANTS
  Pid = {p1, p2, p3}
  Project = {j1, j2}
  NoPid = NoPid
  MaxLaunches = 3
  MaxStrangers = 1
  MaxKills = 1
SYMMETRY Symmetry
SPECIFICATION Spec
INVARIANTS
  OneServer
  HearsItsProject
PROPERTIES
  ShowHeeded
CHECK_DEADLOCK FALSE
