SPECIFICATION Spec
CONSTANTS
  NRequests = 2
  Armed = {"key", "tenant"}
  TermCap <- CapOfThree
  Capacity = 1
  Rate = 2
  Ttl = 2
  FailOpen = {TRUE, FALSE}
  Ests = {1, 2}
  Actuals = {2}
  MaxPeriod = 2
  MaxTime = 2
  MaxFaults = 1
  Reuse = FALSE
CONSTRAINT ArriveInOrder
INVARIANTS TypeOK ReservedMatchesInFlight CommitsExact ReservationsReturned BucketConserves
PROPERTY AdmittedUnderCap
CHECK_DEADLOCK FALSE
