CONSTANTS
  n1 = n1
  n2 = n2
  n3 = n3
  c1 = c1
  Node = {n1, n2, n3}
  Command = {c1}
  NoVote = NoVote
  ReadyCap = 1
  MaxUint64 = 9
  MaxTimeouts = 2
  MaxLog = 0
  MaxCalls = 2
  MaxLate = 0
  MaxStops = 0
  MaxFaults = 0
SPECIFICATION Spec
SYMMETRY Symmetry
INVARIANT LeaderHasMajority
 
CHECK_DEADLOCK FALSE
