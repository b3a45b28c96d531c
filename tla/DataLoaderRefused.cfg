SPECIFICATION FairSpec
CONSTANTS
  Keys = {k1}
  Clients = {c1}
  Configs <- RunnerConfig
  MaxTasks = 1
  MaxCalls = 2
  None = None
PROPERTIES DispatchCompletes
