SPECIFICATION Spec
CONSTANTS
  a = a  b = b  c = c  d = d  e = e  f = f  z = z
  Req <- SessionAndOthers
  Key <- KeyEach
  Tenant <- Equals
  GroupWeight <- TwoGroups
  NoSession = "none"
  Algorithms = {"weighted","hierarchical"}
  Modes = {"local","shared"}
  Sizes = {1,2}
  MaxPending = 2
  Affinities = {0,1}
  Holding = TRUE
  HeldPercent = 50
  MaxEvents = 1
INVARIANTS SlotsAccounted NoIdleSlot QueuesInOrder ServiceMatchesGrants NoGainByLeaving NewcomersServed PassesBounded SlotsSplitByWeight
CHECK_DEADLOCK FALSE
SYMMETRY Steps
