------------------------------- MODULE MCRadio -------------------------------
(* The radio with threads as model values.                                 *)
EXTENDS Radio
=============================================================================
