SPECIFICATION Spec
CONSTANTS
  NReplicas = 2
  Cap = 1
  MaxPending = 1
  Split = TRUE
  Scenes <- Contention
  Ending = FALSE
INVARIANTS FleetNeverExceedsPool
