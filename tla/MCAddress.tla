------------------------------ MODULE MCAddress ------------------------------
(* The badge and cubes that are alike.                                     *)
EXTENDS Address, TLC

Alike == Permutations(Cubes)
=============================================================================
