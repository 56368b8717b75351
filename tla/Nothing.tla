------------------------------ MODULE Nothing -------------------------------
(* The value that several components share: no answer, no file, an empty   *)
(* optional, a null pointer.                                               *)
CONSTANT None
=============================================================================
