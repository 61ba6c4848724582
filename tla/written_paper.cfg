SPECIFICATION Spec
CONSTANTS
  Absent = Absent
  here = here
  p1 = p1
  u1 = u1
  t1 = t1
  Devices = {here}
  Papers = {p1, p2, p3}
  Cards = {c1, c2}
  Titles = {t1}
  Users = {u1}
  InitialServer <- OneShared
  Ops = {"create", "open", "deepLink", "card", "removeCard", "title", "stop", "delete", "share", "gift", "profile", "sidebar", "elsewhere", "restart"}
  MaxOps = 5
  MayReject = FALSE
SYMMETRY Interchangeable
INVARIANTS TypeOK ScreenFollows UnsharedStaysHere
PROPERTY PublishedWhole
CHECK_DEADLOCK FALSE
