SPECIFICATION Spec
CONSTANTS
  Jobs = {1, 2}
  Clips = 1
  MaxActive = 1
  Budget = 1
  Threads = 3
  MaxTrouble = 2
  Outages = {1, 2}
  Batch = 2
  MaxOthers = 1
  MaxChanges = 2
  Things = {1, 2}
  Sightings <- MCSightings
  Texts = {1, 2}
  Watched = {2}
  Slots = 1
  PollBatch = 1
  MaxMishaps = 1
INVARIANTS
  ApiTypeOK
  JobsAreTrue
  AlertsMatchReads
PROPERTIES
  ApiKeepsItsWord
  ApiConverges
CHECK_DEADLOCK FALSE
