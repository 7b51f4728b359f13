SPECIFICATION RecordedSpec
CONSTANTS
  NReplicas = 2
  NHolds = 1
  NSlots = 1
  SlotInfo <- OnePool
  HoldSlot <- FirstSlot
  Caps <- OneSlot
  MaxHeld = 1
  MaxRun = 1
  MaxCount = 2
  APool = "m"
PROPERTY ImplementsLedger
CHECK_DEADLOCK TRUE
