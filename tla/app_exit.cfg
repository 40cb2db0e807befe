\* A signal in the ordinary mode, no pushes.
SPECIFICATION Spec
CONSTANTS
  Services = {s1}
  Pushes = {}
  Users = {}
  MaxReloads = 0
INVARIANT
  StopsBeforeExit
CHECK_DEADLOCK FALSE
