SPECIFICATION Spec
CONSTANTS
  Absent = Absent
  p1 = p1
  p2 = p2
  u1 = u1
  Devices = {d1}
  Papers = {p1, p2}
  Cards = {c1}
  Titles = {t1}
  Users = {u1}
  Ops = {"addPaper", "profile"}
  MaxOps = 3
  MayReject = FALSE
  InitialOwner <- NoneShared
  InitialTitle = t1
INVARIANT PublishedPapersListed
CHECK_DEADLOCK FALSE
