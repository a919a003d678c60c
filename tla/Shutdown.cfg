SPECIFICATION FairServerAndClientsSpec
CONSTANTS
  NumMethods = 2
  NumCqs = 1
  NumEventQueues = 2
  MethodType <- TwoTypes
  RequestScripts <- TestRequestScripts
  ReadsDoneScripts <- TestReadsDoneScripts
  Writers = {}
  WriterItems = {}
  MaxCalls = 1
  MaxRequests = 1
  MaxWrites = 0
INVARIANT NoRpcOutlivesShutdown
INVARIANT FaultsOnlyInShutdown
PROPERTY ShutdownReturns
PROPERTY ServerImplementsService
CHECK_DEADLOCK FALSE
