--------------------------- MODULE MCWrittenPaper ---------------------------
(* Instances of WrittenPaper for TLC.                                      *)
EXTENDS WrittenPaper, TLC

CONSTANTS p1, u1, t1

Shared(p) == [id |-> p, cards |-> {}, title |-> t1, ended |-> FALSE, link |-> TRUE,
              creator |-> u1]

(* p1 is on the server at first, made by u1.                               *)
OneShared == [p \in Papers |-> IF p = p1 THEN Shared(p) ELSE Absent]

NoneShared == [p \in Papers |-> Absent]

Interchangeable == Permutations(Cards) \cup Permutations(Papers \ {p1})
=============================================================================
