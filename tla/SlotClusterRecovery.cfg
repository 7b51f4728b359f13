SPECIFICATION FairSpec
CONSTANTS
  NReplicas = 2
  Cap = 1
  MaxPending = 1
  Split = FALSE
  Scenes <- Recovery
  Ending = TRUE
INVARIANT SyncedIsExact
PROPERTIES WaitersServed SharedAgain CrashedSlotsFreed
