--------------------------- MODULE MCLocalDatabase ---------------------------
(* Instances of LocalDatabase for TLC.                                     *)
EXTENDS LocalDatabase, TLC

Interchangeable == Permutations(Papers) \cup Permutations(Titles)
=============================================================================
