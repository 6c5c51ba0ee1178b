-------------------------------- MODULE Token --------------------------------
(***************************************************************************)
(* What the hand-over of the baton promises (src/baton.c): the cubes share *)
(* one token.  Its owner may offer it to another address.  The offer is    *)
(* not taken back while there is a cube with that address; of an address   *)
(* nobody has, the owner tries another one.  Only the cube it is offered   *)
(* to takes the token, and it is the owner from that moment on.            *)
(***************************************************************************)
CONSTANTS Cube, Address

VARIABLES
  owner,         (* the cube that has the token                            *)
  offered        (* whom it is offered to: the owner if nobody             *)

vars == <<owner, offered>>

Offer ==
  /\ offered = owner \/ offered \notin Cube
  /\ offered' \in Address \ {owner}
  /\ UNCHANGED owner

Take ==
  /\ offered \in Cube
  /\ owner' = offered
  /\ UNCHANGED offered

Init == owner \in Cube /\ offered = owner

Next == Offer \/ Take

Spec == Init /\ [][Next]_vars
=============================================================================
