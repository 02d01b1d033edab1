SPECIFICATION Spec
CONSTANTS
  Clients = {a}
  NoClient = NoClient
  Keys <- OneKey
  Values <- OneValue
  NoValue = NoValue
  Scrambled = Scrambled
  PutOutcomes = {"stored", "dropped"}
  GetFails = FALSE
  CollectorMoves = FALSE
  Prompt = {a}
  MaxCalls = 2
CHECK_DEADLOCK FALSE
PROPERTIES PingGetsPong
