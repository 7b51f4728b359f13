SPECIFICATION Spec
CONSTANTS
  a = a  b = b  c = c  d = d  e = e  f = f  z = z
  Req <- Backlog
  Key <- KeyEach
  Tenant <- Lopsided
  GroupWeight <- OneGroup
  NoSession = "none"
  Algorithms = {"weighted"}
  Modes = {"local"}
  Sizes = {1}
  MaxPending = 1
  Affinities = {0}
  Holding = FALSE
  HeldPercent = 0
  MaxEvents = 0
INVARIANT NewcomersServed
CHECK_DEADLOCK FALSE
SYMMETRY Alike
