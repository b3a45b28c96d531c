SPECIFICATION FairSpec
CONSTANTS
  Keys = {k1, k2}
  Clients = {c1, c2}
  Configs <- ThreeConfigs
  MaxTasks = 3
  MaxCalls = 4
  None = None
INVARIANTS OnePlace NotForgotten Coalesced
PROPERTIES DispatchLoads
