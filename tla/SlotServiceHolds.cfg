SPECIFICATION FairSpec
CONSTANTS
  NReplicas = 2
  NHolds = 2
  NSlots = 1
  SlotInfo <- OneKey
  HoldSlot <- TwoSessions
  Caps <- OneKeyCaps
  MaxHeld = 1
  MaxRun = 1
  MaxCount = 2
INVARIANTS TypeOK TotalsAreSums NothingLeaks HeldSlotsBounded
PROPERTIES LiveHoldingsUntouched FreedSlotAnnounced LapsedHoldingsFreed
CHECK_DEADLOCK TRUE
