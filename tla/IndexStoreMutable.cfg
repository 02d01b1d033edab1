SPECIFICATION Spec
CONSTANTS
  m1 = m1
  m2 = m2
  t1 = t1
  Ids = {m1, m2, t1}
  TypeOf <- MCTypeOf
  FieldOrder <- MCFieldOrder
  Records <- MCRecords
  Threads = {a, b}
  NoThread = NoThread
  NoRecord = NoRecord
  NoQuery = NoQuery
  Queries <- MCQueries
  Batches <- MutableBatches
  Capacity = 100
  MaxRequests = 3
CHECK_DEADLOCK FALSE
INVARIANTS TypeOK IndexComplete IndexGrounded FindComplete ReturnedIsStored
PROPERTIES OnlyWholePuts ImplementsRecordStore RequestsEnd
