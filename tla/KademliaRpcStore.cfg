SPECIFICATION Spec
CONSTANTS
  Clients = {a}
  NoClient = NoClient
  Keys <- OneKey
  Values <- OneValue
  NoValue = NoValue
  Scrambled = Scrambled
  PutOutcomes = {"stored"}
  GetFails = FALSE
  CollectorMoves = FALSE
  Prompt = {}
  MaxCalls = 2
CHECK_DEADLOCK FALSE
PROPERTIES StoreMeansStored
