SPECIFICATION FairSpec
CONSTANTS
  Idle = Idle
  p1 = p1
  p2 = p2
  Papers = {p1}
  Ends = {1, 2}
  Threads = 1
  MaxTime = 1
  MaxChanges = 1
  MaxVisits = 2
INVARIANTS TypeOK NotBeforeTime
PROPERTY SortedInTheEnd
CHECK_DEADLOCK FALSE
