CONSTANTS
  p1 = p1
  p2 = p2
  s1 = s1
  s2 = s2
  Procs <- TwoProcs
  Scopes <- TwoScopes
  CardScopes <- OnlyFirst
  Schemes = {"ed25519"}
  MaxKeys = 2
  MaxTime = 1
  MaxTTL = 1
  MaxTokens = 1
SPECIFICATION Spec
SYMMETRY Symmetric
INVARIANTS TokensNarrow AuditedIsDone
PROPERTIES RevokedForGood RevocationStays
CHECK_DEADLOCK FALSE
