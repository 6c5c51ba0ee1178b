------------------------------- MODULE MCSync -------------------------------
(* A cube that is ahead, behind or just a little off when it starts.       *)
EXTENDS Sync

Clocks == {-14, -9, -3, 0, 2, 8, 13}
=============================================================================
