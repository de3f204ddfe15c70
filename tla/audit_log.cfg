CONSTANTS
  w1 = w1
  w2 = w2
  a = a
  b = b
  x = x
  Writers <- TwoWriters
  Agents <- TwoAgents
  Actions <- OneAction
  MaxEntries = 3
  MaxChanges = 2
SPECIFICATION OverwrittenSpec
SYMMETRY Symmetric
INVARIANTS ChainValid NoDanglingLink HeadCommits
PROPERTY LedgerKept
