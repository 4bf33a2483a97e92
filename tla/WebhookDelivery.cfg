SPECIFICATION Spec
CONSTANTS
  Request = {q1, q2}
  RetryKey = {k1}
  Sender = {s1, s2}
  NoRequest = NoRequest
SYMMETRY Symmetry
INVARIANTS
  TypeOK
  OnePostPerAttempt
  DeliveredByAnAttempt
PROPERTIES
  RemovedStaysRemoved
CHECK_DEADLOCK FALSE
