SPECIFICATION Spec
CONSTANTS
  m1 = m1
  m2 = m2
  t1 = t1
  Ids = {m1, m2, t1}
  TypeOf <- MCTypeOf
  FieldOrder <- MCFieldOrder
  Records <- MCRecords
  Threads = {a}
  NoThread = NoThread
  NoRecord = NoRecord
  NoQuery = NoQuery
  Queries <- MCQueries
  Batches <- MutableBatches
  Capacity = 100
  MaxRequests = 2
CHECK_DEADLOCK FALSE
PROPERTIES AppendRegistersNoChange
