----------------------------- MODULE FencedLock -----------------------------
(***************************************************************************)
(* What install.sh and uninstall.sh rely on when they change the cluster   *)
(* under the lifecycle Lease (scripts/lifecycle-common.sh): a block of     *)
(* mutating calls starts only while its operation owns the lock, and the   *)
(* lock does not leave its owner before the block is over.  That it may    *)
(* leave the owner between two blocks, expiry included, is part of it.     *)
(***************************************************************************)
CONSTANTS Ops, None

VARIABLES
    owner,      \* the operation that owns the lock, or None
    working     \* operations with a mutating block under way

vars == <<owner, working>>

Init == owner = None /\ working = {}

(* The lock is taken, taken over, or given back.                            *)
Pass ==
    /\ owner \notin working
    /\ owner' \in Ops \cup {None}
    /\ UNCHANGED working

Begin(p) ==
    /\ owner = p
    /\ working' = working \cup {p}
    /\ UNCHANGED owner

End(p) ==
    /\ working' = working \ {p}
    /\ UNCHANGED owner

Next == Pass \/ \E p \in Ops : Begin(p) \/ End(p)

Spec == Init /\ [][Next]_vars
=============================================================================
