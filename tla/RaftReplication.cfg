CONSTANTS
  n1 = n1
  n2 = n2
  n3 = n3
  c1 = c1
  c2 = c2
  c3 = c3
  Node = {n1, n2, n3}
  Command = {c1, c2, c3}
  NoVote = NoVote
  ReadyCap = 1
  MaxUint64 = 9
  MaxTimeouts = 3
  MaxLog = 3
  MaxCalls = 2
  MaxLate = 0
  MaxStops = 0
  MaxFaults = 0
SPECIFICATION DivergedSpec
SYMMETRY Symmetry
INVARIANT LogMatchingUnlessMisplaced
INVARIANT AppliedIsOnMajority
 
PROPERTY TermGoesBackOnlyByLateReply
CHECK_DEADLOCK FALSE
