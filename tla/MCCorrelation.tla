---------------------------- MODULE MCCorrelation ----------------------------
(* Model checking instances of Correlation.                                 *)
EXTENDS Correlation

(* Up to one signal over the budget, each labelled with any source.         *)
AnyLabels == UNION {[1 .. n -> Sources] : n \in 0 .. MaxSignals + 1}
MCAnyAnswers == [labels : AnyLabels, err : ErrorKinds]
=============================================================================
