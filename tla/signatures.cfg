SPECIFICATION Spec
CONSTANTS
  read = read
  Nothing = Nothing
  Requests <- TheRequests
  Sent <- TheSent
  Payloads = {p}
  Demands <- TheDemands
  Scopes <- TheScopes
  Schemes <- AllSchemes
  Validity = 1
  TTLs = {1}
  MaxNow = 3
  MaxMade = 2
  MaxKeys = 2
  MaxResponses = 1
INVARIANT HonestIsAccepted
PROPERTY ImplementsAuthentic
CHECK_DEADLOCK FALSE
