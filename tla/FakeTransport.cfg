CONSTANTS
  N = 3
  Id = {1, 2}
  Everyone = Everyone
  None = None
  ChanCap = 2
  MaxCommits = 1
  MaxLeaks = 1
SPECIFICATION MCSpec
INVARIANTS TypeOK PanicNeedsSetupOrShutdown 
PROPERTIES ImplementsRpcCalls EveryCallReturns HarnessGoesOn EveryBroadcastCloses
CHECK_DEADLOCK FALSE
