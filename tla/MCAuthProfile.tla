--------------------------- MODULE MCAuthProfile ---------------------------
(* Model values for TLC: one user has a document with a photo.             *)
EXTENDS AuthProfile

CONSTANTS a, b, n1, f1

OneUser == [e \in Emails |-> IF e = a THEN [name |-> n1, profileUrl |-> f1] ELSE Absent]
=============================================================================
