SPECIFICATION Spec
CONSTANTS
  a = a  b = b  c = c  d = d  e = e  f = f  z = z
  Req <- SessionAmongOthers
  Key <- OneKey
  Tenant <- OneTenant
  GroupWeight <- OneGroup
  NoSession = "none"
  Algorithms = {"weighted"}
  Modes = {"shared"}
  Sizes = {2}
  MaxPending = 2
  Affinities = {1}
  Holding = FALSE
  HeldPercent = 0
  MaxEvents = 0
INVARIANT PassedAtMostMaxJumps
CHECK_DEADLOCK FALSE
