CONSTANTS
  queueSize = 2
  maxRetriesBeforeDropping = 1
  MaxPackets = 3
  DhcpWaits = 1
  ArpRetries = 2
  DialRetries = 2
  MaxDials = 2
SPECIFICATION Spec
INVARIANTS PacketsAreConserved OvertakingIsBounded ReadyNeedsConnection
PROPERTIES PacketsLeave StartupEnds
CHECK_DEADLOCK FALSE
