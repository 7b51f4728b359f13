SPECIFICATION Spec
CONSTANTS
  NReplicas = 2
  Cap = 2
  MaxPending = 2
  Split = TRUE
  Scenes <- Overload
  Ending = FALSE
INVARIANTS TypeOK SyncedIsExact ReconcileUndisturbed NobodyStuck NoIdleSlot SharedWithinCap
