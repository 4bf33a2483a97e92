SPECIFICATION Spec
CONSTANTS
  Token = {t1, t2, t3}
  Handler = {p1, p2}
  ClaimTTL = 1
  MaxVersion = 3
  None = None
SYMMETRY Symmetry
INVARIANTS
  TypeOK
  OneRefreshPerClaim
  CredentialIsBacked
  ErasedStaysRevoked
PROPERTIES
  ClaimCoversTokens
  RevokedUntilConsent
CHECK_DEADLOCK FALSE
