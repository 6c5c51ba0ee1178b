----------------------------- MODULE BlockStore -----------------------------
(***************************************************************************)
(* What the block store promises a single caller: a patch that returns     *)
(* F_ERR_OK has taken effect in one step, and a power cut can damage no    *)
(* other block than the one being patched.  That one is left as it was, or *)
(* with the patched contents up to some word; from there on its words are  *)
(* blank if the block was being moved, and as they were if the patch went  *)
(* to words that were blank.                                               *)
(***************************************************************************)
EXTENDS Integers

CONSTANTS Blocks, Words, Values, Blank

Word == 0..(Words - 1)
Content == [Word -> Values \cup {Blank}]
Patch == [block : Blocks, lo : Word, hi : Word, val : Values]

VARIABLES
  store,        (* the contents of each block                              *)
  pending,      (* the patch under way, if any                             *)
  result        (* the code the last patch returned, if it did             *)

vars == <<store, pending, result>>

InPatch(p, w) == p.lo <= w /\ w <= p.hi

(* The contents of the block of p up to word n after the patch, tail below. *)
Upto(p, n, tail) ==
  [w \in Word |-> IF w >= n THEN tail[w]
                  ELSE IF InPatch(p, w) THEN p.val ELSE store[p.block][w]]

Patched(p) == Upto(p, Words, store[p.block])

Torn(p) ==
  {Upto(p, n, [w \in Word |-> Blank]) : n \in 0..Words}
  \cup IF \A w \in Word : InPatch(p, w) => store[p.block][w] = Blank
       THEN {Upto(p, n, store[p.block]) : n \in Word} ELSE {}

Begin ==
  /\ pending = {}
  /\ \E p \in Patch : p.lo <= p.hi /\ pending' = {p}
  /\ result' = {}
  /\ UNCHANGED store

(* The patch takes effect, and then F_ERR_OK is returned ...               *)
Commit ==
  \E p \in pending : /\ store' = [store EXCEPT ![p.block] = Patched(p)]
                     /\ pending' = {} /\ result' = {"ok"}

(* ... or it has none, because the journal number is used up.              *)
Refuse == pending # {} /\ pending' = {} /\ result' = {"over"} /\ UNCHANGED store

(* Power is cut, before the first word, somewhere in the middle, or after  *)
(* the last word and before the return: nothing is returned.               *)
PowerCut ==
  \E p \in pending :
    /\ \/ UNCHANGED store
       \/ \E c \in Torn(p) : store' = [store EXCEPT ![p.block] = c]
    /\ pending' = {} /\ result' = {}

Init == /\ store = [b \in Blocks |-> [w \in Word |-> Blank]]
        /\ pending = {} /\ result = {}

Next == Begin \/ Commit \/ Refuse \/ PowerCut

Spec == Init /\ [][Next]_vars
=============================================================================
