SPECIFICATION LiveSpec
CONSTANTS
  Kids = {1, 2, 3}
  NoKid = NoKid
  Pids = {p1, p2}
  NoPid = NoPid
  Adopting = TRUE
INVARIANTS
  TypeOK
  NoStrayChild
PROPERTIES
  StopKills
  ImplementsBackend
  StopEnds
  ExitNoticed
