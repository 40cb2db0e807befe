\* One generation and its replacement, one caller, one deploy request, one reload.
SPECIFICATION OneKindSpec
CONSTANTS
  Instances = {g1, g2}
  NoInst = NoInst
  Callers = {c1}
  OpKinds = {"start"}
  Reloads = {x1}
  NoReload = NoReload
  Requests = {r1}
  Configs <- TwoRevisions
  NoConfig = NoConfig
  OpCap = 1
CHECK_DEADLOCK FALSE
PROPERTIES
  OpsAnswered
  ReloadReturns
  DeploysResolved
