----------------------------- MODULE MCLifecycle -----------------------------
(* Model checking instance of Lifecycle: one install, one uninstall.        *)
EXTENDS Lifecycle

CONSTANTS install, uninstall

MCInstalls == {install}
MCUninstalls == {uninstall}

(* No purge, every kind of purge.                                           *)
MCPurges == {{}, {"demo", "secret", "namespace"}}

(* Another system may write a cluster-wide object of the chart.              *)
MCContested == {"clusterrole"}

Of(olds, foreigns) ==
    [o \in Objects |-> IF o \in olds THEN "old"
                       ELSE IF o \in foreigns THEN "foreign" ELSE "absent"]

(* Nothing; an installation whose cluster role is gone, as after a failed
   call, beside a network policy of another system.                         *)
MCClusters ==
    {Of({}, {}),
     Of({"serviceaccount", "clusterrolebinding", "k8sgpt"}, {"networkpolicy"})}
=============================================================================
