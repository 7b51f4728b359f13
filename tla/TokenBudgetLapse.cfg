SPECIFICATION FairSpec
CONSTANTS
  NRequests = 2
  Armed = {"tenant"}
  TermCap <- CapOfThree
  Capacity = 0
  Rate = 0
  Ttl = 2
  FailOpen = {FALSE}
  Ests = {1}
  Actuals = {0}
  MaxPeriod = 2
  MaxTime = 0
  MaxFaults = 1
  Reuse = TRUE
PROPERTY OrphansLapse
