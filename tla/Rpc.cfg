CONSTANTS
  A = A
  B = B
  C = C
  Client = {A, B, C}
  Id = {1, 2}
  Everyone = Everyone
  None = None
  Requests <- MCRequests
  Replies <- MCReplies
  ChanCap = 1
  MaxFaults = 1
SPECIFICATION MCSpec
INVARIANTS HandlerSeesItsRequest CallerSeesTheReply 
PROPERTIES ImplementsRpcCalls  DispatcherIsNotStuck 
CHECK_DEADLOCK FALSE
