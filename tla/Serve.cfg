SPECIFICATION ServeSpec
CONSTANTS
  NumMethods = 4
  NumCqs = 1
  NumEventQueues = 2
  MethodType <- AllTypes
  RequestScripts <- TestRequestScripts
  ReadsDoneScripts <- TestReadsDoneScripts
  Writers = {}
  WriterItems = {}
  MaxCalls = 2
  MaxRequests = 1
  MaxWrites = 0
INVARIANT TypeOK
INVARIANT OneRpcWaitsPerListener
INVARIANT NoLostWakeup
INVARIANT OneThreadPerRpc
INVARIANT EventObjectsAreNotShared
INVARIANT ServedRpcOutlivesItsTags
INVARIANT ReadsDoneIsFinal
INVARIANT NoFault
CHECK_DEADLOCK FALSE
