CONSTANTS
  n1 = n1
  n2 = n2
  c1 = c1
  c2 = c2
  Node = {n1, n2}
  Command = {c1, c2}
  NoVote = NoVote
  ReadyCap = 2
  MaxUint64 = 9
  MaxTimeouts = 1
  MaxLog = 2
  MaxCalls = 3
  MaxLate = 0
  MaxStops = 0
  MaxFaults = 0
SPECIFICATION LiveSpec
PROPERTY EveryCommandIsApplied
CHECK_DEADLOCK FALSE
