-------------------------- MODULE SanitizedAnswers --------------------------
(***************************************************************************)
(* The two reads whose answers the sanitizer may refuse as a whole: a page  *)
(* of findings (PageSanitizer) and the correlation of one finding with the *)
(* events of the cluster (EventSignals).  One request takes one of the two *)
(* routes and the state of the other stays as it is.                       *)
(***************************************************************************)
EXTENDS EventSignals, PageSanitizer

VARIABLE route      \* of the request

vars == <<route, eventVars, pageVars>>

Init ==
    /\ route \in {"findings", "correlation"}
    /\ EventInit /\ PageInit
    /\ route = "correlation" => page = <<>>

FindingsRoute == route = "findings" /\ PageNext /\ UNCHANGED <<route, eventVars>>

CorrelationRoute == route = "correlation" /\ EventNext /\ UNCHANGED <<route, pageVars>>

Next == FindingsRoute \/ CorrelationRoute

Spec == Init /\ [][Next]_vars

-----------------------------------------------------------------------------
(* Every variable of the two keeps its type, what was fetched stays within the
   limit of a scan, and no text or list of an answer exceeds its bound.     *)
TypeOK == EventTypeOK /\ PageTypeOK
=============================================================================
