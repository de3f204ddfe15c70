CONSTANTS
  a1 = a1
  a2 = a2
  c1 = c1
  c2 = c2
  Names <- OneName
  Clients <- OneClient
  MaxAgents = 1
  MaxRestarts = 2
  Window = 3
  RestartOnSuccess <- OneName
SPECIFICATION FairSpec
INVARIANTS StatusMatchesProcess RestartBudget
PROPERTIES NotGivenUpEarly DeadChildNoticed ExpiredIsStopped ShutdownCompletes
