SPECIFICATION Spec
CONSTANTS
  NumMethods = 1
  NumCqs = 1
  NumEventQueues = 2
  MethodType <- OnlyBidi
  RequestScripts <- TestRequestScripts
  ReadsDoneScripts <- TestReadsDoneScripts
  Writers = {w1, w2}
  WriterItems = {"MSG", "OK"}
  MaxCalls = 1
  MaxRequests = 1
  MaxWrites = 2
INVARIANT NoLostWakeup
INVARIANT WriterIsSafeDuringTheCall
INVARIANT SendsDoNotOverlap
SYMMETRY WriterSymmetry
CHECK_DEADLOCK FALSE
