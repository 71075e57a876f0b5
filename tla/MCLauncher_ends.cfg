CONSTANTS
  Pid = {p1, p2}
  Project = {j1, j2}
  NoPid = NoPid
  MaxLaunches = 3
  MaxStrangers = 1
  MaxKills = 1
SPECIFICATION Spec
PROPERTIES
  StartEnds
  ShownAgain
CHECK_DEADLOCK FALSE
