SPECIFICATION FairServeSpec
CONSTANTS
  NumMethods = 4
  NumCqs = 1
  NumEventQueues = 2
  MethodType <- AllTypes
  RequestScripts <- TestRequestScripts
  ReadsDoneScripts <- TestReadsDoneScripts
  Writers = {}
  WriterItems = {}
  MaxCalls = 1
  MaxRequests = 2
  MaxWrites = 0
PROPERTY RpcsAreReclaimed
PROPERTY SendQueueIsDrained
CHECK_DEADLOCK FALSE
