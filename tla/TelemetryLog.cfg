SPECIFICATION FairSpec
CONSTANTS
  a = a  b = b  c = c  x = x  y = y
  Arrivals <- Made
  Blank = Blank
  Torn = Torn
  Bad = Bad
  Left <- LeftFile
  ChannelSize = 2
  BatchMax = 2
  SegmentTarget = 5
  MaxSize = 8
  MaxSegments = 2
  MaxFaults = 2
  MaxCrashes = 1
INVARIANTS FilesWellFormed RecordsAccounted InsertedOnce DrainLeavesNothing
PROPERTIES SpillKept SpillReplayed
