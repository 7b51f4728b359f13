SPECIFICATION Spec
CONSTANTS
  NRequests = 2
  Armed = {"tenant"}
  TermCap <- CapOfThree
  Capacity = 0
  Rate = 0
  Ttl = 3
  FailOpen = {FALSE}
  Ests = {1}
  Actuals = {1}
  MaxPeriod = 2
  MaxTime = 0
  MaxFaults = 0
  Reuse = FALSE
INVARIANT PresentUsageKept
CHECK_DEADLOCK FALSE
