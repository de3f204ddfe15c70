CONSTANTS
  k1 = k1
  k2 = k2
  r1 = r1
  r2 = r2
  agentName = agentName
  agentUuid = agentUuid
  NoReg = NoReg
  Conns <- TwoConns
  Regs <- OneReg
  Bindings <- OneBinding
  Domains <- SomeDomains
  AllowedDomains <- Allowed
  MaxRequests = 2
  Window = 2
  AgentId = agentUuid
  Directories <- AgentDirectories
SPECIFICATION Spec
SYMMETRY Symmetric
INVARIANT RateBound
PROPERTY NotDeniedEarly
