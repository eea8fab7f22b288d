------------------------- MODULE MCSanitizedAnswers -------------------------
(* Model checking instance of SanitizedAnswers.                             *)
EXTENDS SanitizedAnswers

MCNames == 1 .. 3
(* One second, and one and a half.                                         *)
MCWindows == {2, 3}

(* Lengths of texts: empty, at the bound of the details, far over both.     *)
MCLengths == {0, 4, 9}
=============================================================================
