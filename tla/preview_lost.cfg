SPECIFICATION Spec
CONSTANTS
  Absent = Absent
  p1 = p1
  p2 = p2
  u1 = u1
  Devices = {d1}
  Papers = {p1}
  Cards = {c1}
  Titles = {t1}
  Users = {u1}
  Ops = {"fetchPaper", "profile"}
  MaxOps = 2
  MayReject = FALSE
  InitialOwner <- OneShared
  InitialTitle = t1
PROPERTY PreviewOutlivesPaper
CHECK_DEADLOCK FALSE
