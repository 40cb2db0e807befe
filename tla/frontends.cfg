\* Each kind of frontend, with and without others; a presence queue of one; times in tiny milliseconds.
SPECIFICATION MC_Spec
CONSTANTS
  Frontends <- MC_Frontends
  Deployments <- MC_Deployments
  InitialDelay = 4
  MaxDelay = 8
  Factor = 2
  JitterPercent = 20
  Clients = {k1, k2}
  NoClient = NoClient
  Messages = {m1}
  StatusCap = 1
  Handlers = {h1, h2}
  MaxChanges = 1
  MaxReloads = 2
  MaxConnects = 1
INVARIANTS
  PublishedEncrypts
  GateWaitsForAll
  LoneReloadRegisters
PROPERTIES
  BackoffSane
  ComesUpOrLeaves
  PresenceCatchesUp
CHECK_DEADLOCK FALSE
