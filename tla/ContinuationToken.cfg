SPECIFICATION Spec
CONSTANTS
  FilterIds <- MCFilterIds
  QueryHash <- MCQueryHash
  Nothing = Nothing
  Threw = Threw
CHECK_DEADLOCK FALSE
INVARIANTS RestoredIfText
