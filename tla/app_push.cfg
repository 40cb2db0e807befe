\* Two pushes for one service, two users who confirm, two changes of the service by reloads.
SPECIFICATION FairSpec
CONSTANTS
  Services = {s1}
  Pushes = {p1, p2}
  Users = {u1, u2}
  MaxReloads = 2
INVARIANTS
  NoUnaskedDeploy
  ConfirmedOnce
  HandlersFirst
  LockOutlivesLoops
PROPERTY
  SignalEnds
CHECK_DEADLOCK FALSE
