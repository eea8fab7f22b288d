--------------------------- MODULE MCFindingPages ---------------------------
(* Model checking instance of FindingPages.                                 *)
EXTENDS FindingPages

MCIds == 1 .. 4
=============================================================================
