SPECIFICATION Spec
CONSTANTS
  Instances = {g1, g2, g3}
  NoInst = NoInst
  Callers = {}
  OpKinds = {}
  Reloads = {x1, x2}
  NoReload = NoReload
  Requests = {r1}
  Configs <- TwoRevisions
  NoConfig = NoConfig
  OpCap = 1
SYMMETRY Symmetry
CHECK_DEADLOCK FALSE
INVARIANT
  NoDeployStranded
