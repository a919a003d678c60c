SPECIFICATION Spec
CONSTANTS
  NumMethods = 1
  NumCqs = 1
  NumEventQueues = 2
  MethodType <- OnlyUnary
  RequestScripts <- TestRequestScripts
  ReadsDoneScripts <- TestReadsDoneScripts
  Writers = {}
  WriterItems = {}
  MaxCalls = 1
  MaxRequests = 1
  MaxWrites = 0
INVARIANT NoTagOutlivesItsRpc
CHECK_DEADLOCK FALSE
