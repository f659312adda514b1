SPECIFICATION MCSpec
CONSTANTS
  Segs = {1, 2}
  Archived = {}
  Dangling = {2}
  Jobs <- Apart
  Batch = 2
  DirSyncFails = FALSE
  StatusUnread = FALSE
  MaxOrders = 2
  MaxRestarts = 1
  ArchiveCameras = {1, 2}
  Schedules = {"early", "late"}
  Occurs <- MCOccurs
  Footage = {1, 2, 3}
  Unmovable = {1}
  ListLimit = 2
  Budget = 3
  MaxClock = 6
  MaxScheduleEdits = 1
  MaxUpsets = 1
  MaxEvents = 3
  MaxSize = 2
INVARIANT StorageTypeOK
INVARIANT RowsHaveFootage
INVARIANT CancelStops
PROPERTY DoneMeansDrained
PROPERTY OccurrencesFireOnce
PROPERTY WalkLosesNothing
PROPERTY StorageSettles
CHECK_DEADLOCK FALSE
