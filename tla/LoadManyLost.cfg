SPECIFICATION Spec
CONSTANTS
  k1 = k1
  c1 = c1
  c2 = c2
  c3 = c3
  p1 = p1
  p2 = p2
  Tasks = {k1}
  Clients = {c1, c2, c3}
  Completers = {p1}
  Joiners = {c1}
  Wanted <- ThreeFutures
  TaskOf <- OneCall
  Errors = {"errA"}
  Nop = Nop
  Torn = Torn
INVARIANTS WakerDeployed
