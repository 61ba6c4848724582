--------------------------- MODULE MCPaperStorage ---------------------------
(* Model values for TLC.                                                   *)
EXTENDS PaperStorage

CONSTANTS p1, p2
=============================================================================
