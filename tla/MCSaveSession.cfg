CONSTANTS
  Kept = {"project", "ui", "source"}
  MaxFds = 3
  MaxKills = 1
  MaxTerms = 1
SPECIFICATION Spec
INVARIANTS
  QuietMeansWritten
  DeathLosesOne
PROPERTIES
  SaveEnds
CHECK_DEADLOCK FALSE
