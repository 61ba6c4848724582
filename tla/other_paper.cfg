SPECIFICATION Spec
CONSTANTS
  Absent = Absent
  p1 = p1
  p2 = p2
  u1 = u1
  Devices = {d1}
  Papers = {p1, p2}
  Cards = {c1}
  Titles = {t1}
  Users = {u1}
  Ops = {"fetchPaper", "resetPaper", "addCard"}
  MaxOps = 4
  MayReject = FALSE
  InitialOwner <- AllShared
  InitialTitle = t1
INVARIANT ShowsFetchedPaper
CHECK_DEADLOCK FALSE
