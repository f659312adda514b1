SPECIFICATION Spec
CONSTANTS
  Jobs = {1, 2}
  Clips = 1
  MaxActive = 2
  Budget = 1
  Threads = 2
  MaxTrouble = 0
  Outages = {1}
  Batch = 1
  MaxOthers = 0
  MaxChanges = 0
  Things = {}
  Sightings <- MCNothing
  Texts = {}
  Watched = {}
  Slots = 1
  PollBatch = 1
  MaxMishaps = 0
PROPERTY EveryExportEnds
CHECK_DEADLOCK FALSE
