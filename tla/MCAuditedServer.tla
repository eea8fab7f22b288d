-------------------------- MODULE MCAuditedServer --------------------------
(* Model checking instance of AuditedServer: two connections, the first one *)
(* watched, and texts of lengths below, at and above each bound.            *)
EXTENDS AuditedServer

CONSTANTS r1, r2

MCRequests == {r1, r2}
MCLengths == {0, 1, 2, 3}
MCLatencies == {-1, 0, 2, 3}
=============================================================================
