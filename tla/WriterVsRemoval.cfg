SPECIFICATION ServeSpec
CONSTANTS
  NumMethods = 1
  NumCqs = 1
  NumEventQueues = 1
  MethodType <- OnlyServerStreaming
  RequestScripts <- SilentScripts
  ReadsDoneScripts <- SilentScripts
  Writers = {w1}
  WriterItems = {"MSG"}
  MaxCalls = 1
  MaxRequests = 0
  MaxWrites = 1
INVARIANT WriterSurvivesRemoval
CHECK_DEADLOCK FALSE
