SPECIFICATION Spec
CONSTANTS
  Identity = {i1}
  Host = {h1, h2}
  Intent = {n1, n2}
  Username = {u1}
  Key = {k1}
  Handler = {p1}
  None = None
PROPERTIES
  RevocationSparesOtherHosts
CHECK_DEADLOCK FALSE
