SPECIFICATION Spec
CONSTANTS
  Sources = {a, b}
  Pre = 1
  Post = 1
  Slack = 0
  Cap = 1
  SegLen = 2
  ListLag = 0
  MaxTime = 8
  MaxFlips = 1
  MaxRuns = 1
  MaxEvents = 3
  CacheFills = FALSE
SYMMETRY Symmetry
INVARIANT TypeOK
INVARIANT RegimeAgrees
 
INVARIANT ReportedMotionIsKept
CHECK_DEADLOCK FALSE
