CONSTANTS
  Stream = Stream
  Inner = Inner
  Clients <- MCClients
  Kind <- MCKind
  Nested <- MCNested
  MaxMessages = 2
  MaxQueues = 2
  MaxShutdowns = 2
SPECIFICATION FairSpec
INVARIANTS
  TypeOK
  CarefulUseIsSafe
  OneOperationAtATime
  NoCallOutlivesItsQueue
  UnaryMayDieInItsCallback
PROPERTIES
  ImplementsAsyncCall
  QueuesStay
  CallsEnd
  PoolShutdownReturns
CHECK_DEADLOCK FALSE
