CONSTANTS
  n1 = n1
  n2 = n2
  c1 = c1
  c2 = c2
  Node = {n1, n2}
  Command = {c1, c2}
  NoVote = NoVote
  ReadyCap = 1
  MaxUint64 = 9
  MaxTimeouts = 1
  MaxLog = 4
  MaxCalls = 1
  MaxLate = 0
  MaxStops = 0
  MaxFaults = 0
SPECIFICATION SharedSpec
SYMMETRY Symmetry
INVARIANT AppliedCommandsAgree
CHECK_DEADLOCK FALSE
