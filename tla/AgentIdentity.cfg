SPECIFICATION Spec
CONSTANTS
  Identity = {i1, i2}
  Host = {h1, h2}
  Intent = {n1}
  Username = {u1, u2}
  Key = {k1}
  Handler = {p1, p2}
  None = None
CONSTRAINT IntentsAlone
SYMMETRY Symmetry
INVARIANTS
  TypeOK
  DeletedStaysGone
  ErasedOwnsNothing
  EnrollmentIsWhole
  ReplaysAgree
PROPERTIES
  HostKeepsItsAgent
  UsernameIsForGood
CHECK_DEADLOCK FALSE
