SPECIFICATION TestSpec
CONSTANTS
  NumMethods = 2
  NumCqs = 1
  NumEventQueues = 1
  MethodType <- MCMethodType
  RequestScripts <- MCRequestScripts
  ReadsDoneScripts <- MCReadsDoneScripts
  Writers = {}
  WriterItems = {}
  MaxCalls = 1
  MaxRequests = 2
  MaxWrites = 0
INVARIANT EventsComeInOrder
PROPERTY HandlerIsInStep
PROPERTY SendsReturn
CHECK_DEADLOCK FALSE
