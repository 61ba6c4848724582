SPECIFICATION Spec
CONSTANTS
  Absent = Absent
  here = here
  p1 = p1
  u1 = u1
  t1 = t1
  Devices = {here}
  Papers = {p1}
  Cards = {c1, c2}
  Titles = {t1}
  Users = {u1}
  InitialServer <- OneShared
  Ops = {"deepLink", "elsewhere"}
  MaxOps = 2
  MayReject = FALSE
SYMMETRY Interchangeable
PROPERTY SharedCardsKept
CHECK_DEADLOCK FALSE
