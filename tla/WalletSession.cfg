SPECIFICATION Spec
CONSTANTS
  a1 = a1
  a2 = a2
  None = None
  Accounts = {a1, a2}
  Chains = {1, 3, 5}
  Half = 2
  Storages <- MCStorages
  MaxEvents = 2
  MaxEnables = 1
INVARIANTS
  TypeOK
  HeaderOfSelected
  TokenSettles
  AwaitCoversAll
  AccountFollowed
  NetworkFollowed
PROPERTIES
  InvocationsEnd
CHECK_DEADLOCK FALSE
