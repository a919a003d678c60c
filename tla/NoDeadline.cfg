SPECIFICATION FairServerSpec
CONSTANTS
  NumMethods = 1
  NumCqs = 1
  NumEventQueues = 1
  MethodType <- OnlyBidi
  RequestScripts <- TestRequestScripts
  ReadsDoneScripts <- TestReadsDoneScripts
  Writers = {}
  WriterItems = {}
  MaxCalls = 1
  MaxRequests = 1
  MaxWrites = 0
PROPERTY ShutdownReturns
CHECK_DEADLOCK FALSE
