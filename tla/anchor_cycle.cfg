CONSTANTS
  a1 = a1
  a2 = a2
  Agents <- TwoAgents
  BatchSize = 3
  PendingLimit = 2
  MayMisread = FALSE
  MaxEntries = 2
  MaxTransactions = 2
  MaxTime = 2
SPECIFICATION Spec
SYMMETRY Symmetric
INVARIANTS AnchoredOnce SubmittedHasTransaction PendingCountBounded RootsIdentify
PROPERTY SubmittedStays
