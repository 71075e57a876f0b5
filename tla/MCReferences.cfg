CONSTANTS
  c1 = c1
  c2 = c2
  r1 = r1
  a = a
  b = b
  Control = {c1, c2}
  Renderer = {r1}
  Id = {1, 2}
  Image = {a, b}
  Default = Default
  NoImage = 0
  None = None
  Nothing = Nothing
  Project <- MCProject
  MaxSteps = 5
  MaxUse = 2
SPECIFICATION Spec
INVARIANTS
  CountsCover
  ViewsFollow
  StartFindsPictures
PROPERTIES
  PicturesKept
CHECK_DEADLOCK FALSE
