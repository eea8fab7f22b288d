-------------------------- MODULE MCLifecycleLease --------------------------
(* Model checking instances of LifecycleLease.                              *)
EXTENDS LifecycleLease

CONSTANTS install, uninstall

MCOps == {install, uninstall}

(* Clocks that agree, and an uninstall whose clock is one unit ahead.       *)
MCNoSkew == [p \in MCOps |-> 0]
MCSkew == [p \in MCOps |-> IF p = uninstall THEN 1 ELSE 0]
=============================================================================
