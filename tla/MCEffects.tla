------------------------------ MODULE MCEffects ------------------------------
(* The effects Whackamole, safetyPattern and strobe in order.              *)
EXTENDS Effects

Durations == [i \in 0..2 |-> IF i = 2 THEN 1 ELSE 0]
=============================================================================
