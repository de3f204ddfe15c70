CONSTANTS
  c1 = c1
  c2 = c2
  c3 = c3
  t1 = t1
  t2 = t2
  Clients <- TwoClients
  TaskIds <- OneId
  RequireAuth = FALSE
  MaxMessages = 3
SPECIFICATION FairSpec
INVARIANTS SubmittedIsAbandoned LastMessageKept
PROPERTIES SettledStays RequestsEnd
