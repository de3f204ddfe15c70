CONSTANTS
  i1 = i1
  i2 = i2
  i3 = i3
  c1 = c1
  c2 = c2
  s1 = s1
  NoId = NoId
  Ids <- ThreeIds
  Clients <- OneClient
  Scopes <- NoScope
  MaxTokens = 2
SPECIFICATION Spec
INVARIANTS StoreReadable CascadeIsComplete
PROPERTY ImplementsRegistry
