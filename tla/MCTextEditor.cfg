CONSTANTS
  Lang = {en, zh, fr}
  First = en
  Text = {1, 2, 3}
  NoFile = NoFile
  Typed = {"typed", "open"}
  Open = {"open"}
  ReadAs <- MCReadAs
  MaxNodes = 3
  MaxThreads = 1
  MaxSteps = 6
SPECIFICATION Spec
INVARIANTS
  ColumnsAgree
  LosesNothing
PROPERTIES
  TranslationEnds
