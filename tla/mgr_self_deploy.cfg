SPECIFICATION Spec
CONSTANTS
  Instances = {g1}
  NoInst = NoInst
  Callers = {}
  OpKinds = {}
  Reloads = {}
  NoReload = NoReload
  Requests = {r1, r2}
  Configs <- SelfDeploying
  NoConfig = NoConfig
  OpCap = 1
SYMMETRY Symmetry
CHECK_DEADLOCK FALSE
INVARIANT
  SelfDeployOnce
