SPECIFICATION Spec
CONSTANTS
  Absent = Absent
  here = here
  p1 = p1
  u1 = u1
  t1 = t1
  Devices = {here}
  Papers = {p1}
  Cards = {c1}
  Titles = {t1, t2}
  Users = {u1}
  InitialServer <- NoneShared
  Ops = {"create", "title", "card"}
  MaxOps = 3
  MayReject = FALSE
SYMMETRY Interchangeable
PROPERTY EditsKept
CHECK_DEADLOCK FALSE
