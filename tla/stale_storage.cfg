SPECIFICATION Spec
CONSTANTS
  Idle = Idle
  p1 = p1
  p2 = p2
  Papers = {p1}
  Ends = {1}
  Threads = 1
  MaxTime = 1
  MaxChanges = 0
  MaxVisits = 3
INVARIANT ShownAsSorted
CHECK_DEADLOCK FALSE
