SPECIFICATION Spec
CONSTANTS
  Clients = {a, b}
  NoClient = NoClient
  Keys <- KeyOrBlank
  Values <- ValueOrBlank
  NoValue = NoValue
  Scrambled = Scrambled
  PutOutcomes = {"stored", "failed"}
  GetFails = TRUE
  CollectorMoves = TRUE
  Prompt = {a}
  MaxCalls = 3
CHECK_DEADLOCK FALSE
INVARIANTS TypeOK OneInFlight AnswersThisCall SilentForACause
PROPERTIES AnswerFits CallsEnd
