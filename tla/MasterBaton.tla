----------------------------- MODULE MasterBaton -----------------------------
(***************************************************************************)
(* The cubes of Baton together with the master badge, which alone makes a  *)
(* new baton (baton_new_random in src-heart/app-baton.c): when the B key   *)
(* of its Baton Manager is pressed, or when its Whackamole has heard no    *)
(* beacon of a holder for 30 seconds (src/fx/fx-wmole.c:275).  The A key,  *)
(* which only clears the batons, is left out.                              *)
(*                                                                         *)
(* Keys and Whackamole run in two threads; that both of them make a baton  *)
(* at the same time is left out.  The variable badge has the place in      *)
(* baton_new_random (pc), the packets it still has to send there (more),   *)
(* its sleep (ticks), the cube drawn (addr), baton_passing_g and the time  *)
(* since last_ping_g (silence), which counts only while the badge is idle. *)
(***************************************************************************)
EXTENDS Baton

CONSTANTS
  Known,         (* cfg_addressCounter - 1                                 *)
  MaxDup,        (* baton_maxcube packets                                  *)
  Beacons,       (* beacons that clear the batons                          *)
  Passes,        (* passes sent at the most, one a tick                    *)
  Pause,         (* between the beacons and the passes, in ticks           *)
  Silence        (* the 30 seconds, in ticks                               *)

ASSUME MasterAssumption ==
  /\ Known \in 1..253 /\ Known \in Announced
  /\ MaxDup \in Nat \ {0} /\ Beacons \in Nat \ {0} /\ Passes \in Nat \ {0}
  /\ Pause \in Nat /\ Silence \in Nat

Resting == [NoBadge EXCEPT !.pc = "idle"]

Ready(pc) == badge.pc = pc /\ badge.ticks = 0

Go(pc, more, ticks) == badge' = [badge EXCEPT !.pc = pc, !.more = more, !.ticks = ticks]

CubesRest == UNCHANGED <<state, to, retry, uses, max, inbox, acks, aged, th, left>>

(* Nothing of a cube changes but its inbox.                                *)
Send(p) == Broadcast(0, p) /\ UNCHANGED <<state, to, retry, uses, max, acks, aged, th>>

-----------------------------------------------------------------------------
(* The B key, at any time, and Whackamole: baton_new_random begins.        *)
PressKey ==
  /\ Ready("idle") /\ badge' = [Resting EXCEPT !.pc = "maxcubes", !.more = MaxDup]
  /\ CubesRest

Whackamole == badge.silence = Silence /\ PressKey

(* setMaxCubes.                                                            *)
SendMaxCube ==
  /\ Ready("maxcubes") /\ Send(MaxCube(Known))
  /\ IF badge.more > 1 THEN Go("maxcubes", badge.more - 1, 0) ELSE Go("clear", Beacons, 0)

(* The badge claims the baton for itself.                                  *)
SendClear ==
  /\ Ready("clear") /\ Send(Holder)
  /\ IF badge.more > 1 THEN Go("clear", badge.more - 1, 0) ELSE Go("pause", Passes, Pause)

(* Mutant: the random number is not made an address.                       *)
DrawFromZero ==
  /\ Ready("pause") /\ CubesRest
  /\ \E a \in 0..(Known - 1) : badge' = [badge EXCEPT !.pc = "pass", !.addr = a, !.passing = TRUE]

(* A cube drawn at random.                                                 *)
Draw ==
  /\ Ready("pause") /\ CubesRest
  /\ \E a \in 1..Known : badge' = [badge EXCEPT !.pc = "pass", !.addr = a, !.passing = TRUE]

SendNewPass ==
  Ready("pass") /\ Send(Pass(badge.addr)) /\ Go("asleep", badge.more - 1, 1)

(* Mutant: one pass too many.                                              *)
AwakeLate ==
  /\ Ready("asleep") /\ CubesRest
  /\ IF badge.passing /\ badge.more >= 0 THEN Go("pass", badge.more, 0) ELSE badge' = Resting

(* The passes end when an answer was heard.                                *)
Awake ==
  /\ Ready("asleep") /\ CubesRest
  /\ IF badge.passing /\ badge.more > 0 THEN Go("pass", badge.more, 0) ELSE badge' = Resting

Making == Whackamole \/ SendMaxCube \/ SendClear \/ Draw \/ SendNewPass \/ Awake

(* The badge sends its next packet once that is due.                       *)
TickAll ==
  /\ Rested /\ Elapse
  /\ badge.pc \in {"idle", "maxcubes"} \/ badge.ticks > 0
  /\ badge' = [badge EXCEPT !.ticks = IF @ > 0 THEN @ - 1 ELSE @,
                           !.silence = IF badge.pc = "idle" /\ @ < Silence THEN @ + 1 ELSE @]

MasterInit == CubeInit /\ badge = Resting

MasterNext == CubeNext \/ PressKey \/ Making \/ TickAll

(* No key need ever be pressed.  The badge draws as it likes: every        *)
(* address it knows is that of a cube.                                     *)
MasterSpec ==
  /\ MasterInit /\ [][MasterNext]_vars
  /\ CubeFairness /\ SF_vars(TickAll) /\ SF_vars(Making)

-----------------------------------------------------------------------------
(* The badge never sends more packets than baton_new_random has loops for  *)
(* (app-baton.c:155-178), and passes only to an address it has handed out. *)
MasterTypeOK ==
  /\ TypeOK
  /\ badge \in [pc : {"idle", "maxcubes", "clear", "pause", "pass", "asleep"},
               more : 0..(MaxDup + Beacons + Passes), ticks : 0..(Pause + 1), addr : 0..Known,
               passing : BOOLEAN, silence : 0..Silence]

(* However the batons were lost or doubled - beacons that cross            *)
(* (baton.c:79), a beacon sent after the baton was passed on (:189), a     *)
(* lost packet, a key - time and again there is one holder, and no pass    *)
(* under way.                                                              *)
Restored == []<>(Cardinality(In("holding")) = 1 /\ In("passing") = {})
=============================================================================
