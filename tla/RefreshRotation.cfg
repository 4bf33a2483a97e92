SPECIFICATION Spec
CONSTANTS
  Resource = {r1}
  Credential = {c1}
  Token = {t1, t2, t3}
  Handler = {p1, p2}
  None = None
SYMMETRY Symmetry
INVARIANTS
  TypeOK
  OneLiveToken
  RevokedTogether
  RotationIsWhole
  ReuseEndsFamily
PROPERTIES
  ImplementsChain
CHECK_DEADLOCK FALSE
