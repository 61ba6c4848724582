SPECIFICATION Spec
CONSTANTS
  Absent = Absent
  p1 = p1
  p2 = p2
  u1 = u1
  Devices = {d1, d2}
  Papers = {p1}
  Cards = {c1, c2}
  Titles = {t1}
  Users = {u1}
  Ops = {"fetchPaper", "resetPaper", "addCard", "restart"}
  MaxOps = 5
  MayReject = TRUE
  InitialOwner <- OneShared
  InitialTitle = t1
SYMMETRY Interchangeable
INVARIANTS TypeOK OpenPaperFresh
CHECK_DEADLOCK FALSE
