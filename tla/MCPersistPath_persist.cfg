SPECIFICATION FairSpec
CONSTANTS
  Segments = {1, 2, 3}
  Starts = {1, 2, 3}
  MaxSuffix = 1
  Settings <- Circumstances
  None = None
INVARIANTS
  TypeOK
  KeptIsSafe
  RowsAreGood
PROPERTIES
  IndexedFootageWins
  KeptEndsIndexed
CHECK_DEADLOCK FALSE
