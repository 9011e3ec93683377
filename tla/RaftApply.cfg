CONSTANTS
  n1 = n1
  n2 = n2
  c1 = c1
  c2 = c2
  Node = {n1, n2}
  Command = {c1, c2}
  NoVote = NoVote
  ReadyCap = 1
  MaxUint64 = 9
  MaxTimeouts = 1
  MaxLog = 2
  MaxCalls = 3
  MaxLate = 1
  MaxStops = 1
  MaxFaults = 1
SPECIFICATION LedSpec
SYMMETRY Symmetry
INVARIANT DeliveredIsLogPrefix
INVARIANT SignalIsReadable
 
PROPERTY CommitNeverRetreats
PROPERTY ImplementsAppliedLog
CHECK_DEADLOCK FALSE
