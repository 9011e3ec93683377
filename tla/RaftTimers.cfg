CONSTANTS
  n1 = n1
  n2 = n2
  c1 = c1
  Node = {n1, n2}
  Command = {c1}
  NoVote = NoVote
  ReadyCap = 1
  MaxUint64 = 9
  MaxTimeouts = 2
  MaxLog = 0
  MaxCalls = 3
  MaxLate = 0
  MaxStops = 2
  MaxFaults = 1
SPECIFICATION Spec
SYMMETRY Symmetry
INVARIANT TypeOK
INVARIANT TimerIsNeverLost
CHECK_DEADLOCK FALSE
