SPECIFICATION FairSpec
CONSTANTS
  k1 = k1
  k2 = k2
  Kind = {"voice", "cw"}
  Window <- MCWindow
  Key = {k1, k2}
  Skew = {1}
  QueueCap = 1
  BatchMax = 2
  Retain = 1
  MaxTime = 3
  MaxHeard = 3
  MaxCrash = 1
CHECK_DEADLOCK FALSE
INVARIANTS
  NoRepeatStored
  PipelineOrdered
  RepeatHasCopyUnlessLossy
PROPERTIES
  KeptForRetention
  QueuedIsWritten
  OldRowsGo
