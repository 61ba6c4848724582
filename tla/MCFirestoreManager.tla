------------------------- MODULE MCFirestoreManager -------------------------
(* Instances of FirestoreManager for TLC.                                  *)
EXTENDS FirestoreManager, TLC

CONSTANTS p1, p2, u1

(* One paper on the server at first, made by u1.                           *)
OneShared == [p \in Papers |-> IF p = p1 THEN u1 ELSE Absent]

(* Every paper on the server at first, made by u1.                         *)
AllShared == [p \in Papers |-> u1]

(* No paper on the server at first.                                        *)
NoneShared == [p \in Papers |-> Absent]

Interchangeable == Permutations(Devices) \cup Permutations(Cards)
=============================================================================
