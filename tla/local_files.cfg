SPECIFICATION Spec
CONSTANTS
  Absent = Absent
  Papers = {p1, p2}
  Cards = {c1}
  Titles = {t1, t2}
  Users = {u1}
  Faults = {"writeError", "crash"}
  MaxOps = 4
SYMMETRY Interchangeable
INVARIANTS TypeOK    PreviewInStep
 
CHECK_DEADLOCK FALSE
