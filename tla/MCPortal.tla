------------------------------- MODULE MCPortal -------------------------------
(* Model checking instance of Portal.                                       *)
EXTENDS Portal

CONSTANTS all, dev, pod, bad

MCLists == {all, dev}
MCDetails == {pod}
MCBroken == {bad}
===============================================================================
