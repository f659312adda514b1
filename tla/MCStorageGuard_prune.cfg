SPECIFICATION FairSpec
CONSTANTS
  Segs = {1, 2, 3}
  Old = {1, 2}
  MinMissing = 1
  MissingPct = 50
  Sample = 2
  MaxFlips = 1
  MaxRestarts = 1
  NoSeg = NoSeg
INVARIANT TypeOK
INVARIANT LossBounded
PROPERTY PrunesAreJustified
PROPERTY IndexConverges
