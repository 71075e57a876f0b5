CONSTANTS
  Window = {w1, w2}
  NoWindow = NoWindow
  MaxInterval = 1
  MaxImages = 1
SPECIFICATION ProjectSpec
INVARIANTS
  FlagsCoverDue
  ModifiedWhileMarked
  SavedInTime
  StartFindsProject
PROPERTIES
  MarkFallsWhenWritten
  AutoSaved
