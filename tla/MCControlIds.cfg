CONSTANTS
  a = a
  b = b
  c = c
  F = F
  G = G
  P = P
  p = p
  Control = {a, b, c}
  Form = {F, G}
  FormOf <- MCFormOf
  Name = {X, Y, P}
  Id = {i1, i2, p}
  ReservedId <- OnePredefined
  Static = Static
  None = None
SYMMETRY Alike
SPECIFICATION Spec
INVARIANTS
  IndexesAgree
  PredefinedIdNamed
PROPERTIES
  NamedAsAsked
CHECK_DEADLOCK FALSE
