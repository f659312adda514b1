SPECIFICATION Spec
CONSTANTS
  Segs = {1}
  Archived = {}
  Dangling = {}
  Jobs <- Shared
  Batch = 1
  DirSyncFails = FALSE
  StatusUnread = FALSE
  MaxOrders = 0
  MaxRestarts = 0
PROPERTY RemovedCopyIsDuplicate
CHECK_DEADLOCK FALSE
