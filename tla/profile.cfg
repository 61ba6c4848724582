SPECIFICATION Spec
CONSTANTS
  Absent = Absent
  YOLO = YOLO
  a = a
  b = b
  n1 = n1
  f1 = f1
  Emails = {a, b}
  Names = {YOLO, n1}
  Photos = {f1, f2}
  InitialUsers <- OneUser
  MayReject = TRUE
  Ops = {"signIn", "appleSignIn", "signUp", "signOut", "deleteUser", "image", "name", "profile", "elsewhere", "restart"}
  MaxOps = 4
INVARIANTS TypeOK ProfileFresh
PROPERTY PhotoKept
CHECK_DEADLOCK FALSE
