SPECIFICATION FairSpec
CONSTANTS
  MaxRetries = 1
  Tool = {"t1", "t2"}
  MaxTurns = 2
  MaxCalls = 2
  Chunks = 3
  BufferSize = 1
  MaxActs = 3
INVARIANTS
  TypeOK
  
  
  AnsweredInOrder
  AdvertisedIsFound
  FinishedIsTrue
  JobsBounded
  
  LocalIsAnonymous
PROPERTIES
  OwnRequest
  ClientsApart
  DeliverySpec
  ReaderEnds
  CallReturns
CHECK_DEADLOCK FALSE
