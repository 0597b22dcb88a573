SPECIFICATION Spec
CONSTANTS
  SegmentSeconds = 2
  MaxTime = 7
  MaxFaults = 2
INVARIANTS TypeOK WindowFindsBurst CountedOnce SegmentsInv
PROPERTY SegmentsKept
CHECK_DEADLOCK FALSE
