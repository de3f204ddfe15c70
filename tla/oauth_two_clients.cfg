CONSTANTS
  i1 = i1
  i2 = i2
  i3 = i3
  c1 = c1
  c2 = c2
  s1 = s1
  NoId = NoId
  Ids <- TwoIds
  Clients <- TwoClients
  Scopes <- NoScope
  MaxTokens = 1
SPECIFICATION Spec
SYMMETRY Symmetric
INVARIANT TokensBelong
