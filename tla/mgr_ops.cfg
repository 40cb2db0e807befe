SPECIFICATION OneKindSafe
CONSTANTS
  Instances = {g1, g2}
  NoInst = NoInst
  Callers = {c1}
  OpKinds = {"start", "stop", "restart", "query"}
  Reloads = {x1}
  NoReload = NoReload
  Requests = {r1}
  Configs <- StartPolicies
  NoConfig = NoConfig
  OpCap = 1
SYMMETRY Symmetry
CHECK_DEADLOCK FALSE
INVARIANTS
  OneChild
  OperatorStopHolds
  ReloadedNotRun
PROPERTIES
  RetiredInert
  ServesOneByOne
