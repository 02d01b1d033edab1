SPECIFICATION Spec
CONSTANTS
  Tokens = {0, 1}
  Blocks = {7, 8}
  Mints <- MCMints
  Attributes <- MCAttributes
  Address <- MCAddress
  Text <- MCText
  Scope <- MCScope
  Images = 1
  r1 = r1
  r2 = r2
  Runs = {r1, r2}
  Plans <- MCPlans
  Requests = {q}
  NoRun = NoRun
  MaxLost = 1
CHECK_DEADLOCK FALSE
INVARIANTS TypeOK ListedHasMetadata PastTokensWhole OneTokenHidesAll
PROPERTIES MediaWholeUnlessCut ThrowsForACause AllEnds
