SPECIFICATION FairSpec
CONSTANTS
  Absent = Absent
  p1 = p1
  p2 = p2
  u1 = u1
  Devices = {d1}
  Papers = {p1, p2}
  Cards = {c1}
  Titles = {t1, t2}
  Users = {u1, u2}
  Ops = {"profile", "addPaper", "fetchPaper", "convertPaperToGift", "updatePaper", "removePaper", "removeCard", "updateCard", "addCard"}
  MaxOps = 3
  MayReject = FALSE
  InitialOwner <- NoneShared
  InitialTitle = t1
INVARIANTS ListingFresh ListingTracked OwnListTracked OwnPapersShown
PROPERTY CascadesEnd
CHECK_DEADLOCK FALSE
