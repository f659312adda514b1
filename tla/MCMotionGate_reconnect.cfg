SPECIFICATION Spec
CONSTANTS
  Sources = {a}
  Pre = 1
  Post = 1
  Slack = 0
  Cap = 4
  SegLen = 2
  ListLag = 1
  MaxTime = 8
  MaxFlips = 1
  MaxRuns = 2
  MaxEvents = 2
  CacheFills = TRUE
INVARIANT NoMotionDiscarded
PROPERTY VerdictSpec
CHECK_DEADLOCK FALSE
