SPECIFICATION Spec
CONSTANTS
  Ids = {1, 2, 3}
  Guid <- MCGuid
  Cut <- MCCut
  Contents <- LongContents
  Readers = {r}
  Lookups <- MCLookups
  MaxKeySize = 8
  Capacity = 20
  MaxReads = 2
  NoError = NoError
  NoId = NoId
  NoLookup = NoLookup
CHECK_DEADLOCK FALSE
INVARIANTS KeyShorterThanMax
