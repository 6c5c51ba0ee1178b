-------------------------------- MODULE Sync --------------------------------
(***************************************************************************)
(* Cubes show the same frame at the same time: src/time.c and the loop of  *)
(* effects_thread in src/led.c.  A master broadcasts its clock; a cube     *)
(* takes the difference as offsetMs, and its effects thread counts frames  *)
(* of EFFECTS_REDRAW_MS in fx_config.loop on the clock corrected by it.    *)
(*                                                                         *)
(* Clocks go on for ever, so only differences are kept.  With now for      *)
(* getNetworkTimeMs() and master for the master's clock:                   *)
(*   err = now - master,  lag = now - last_time,  drift = now - Redraw * loop *)
(***************************************************************************)
EXTENDS Integers

CONSTANTS
  Redraw,       (* EFFECTS_REDRAW_MS                                       *)
  Major,        (* frames that make a major time adjustment, 10 in the code *)
  Latency,      (* longest time a time packet takes                        *)
  Skews,        (* what the clocks may differ by before the first packet   *)
  Skew,         (* bound: the most they may                                *)
  Restarts,     (* bound: tests that stop and start the effects            *)
  Pause         (* bound: how far the counter may fall behind meanwhile    *)

ASSUME SyncAssumption ==
  /\ Redraw \in Nat /\ Redraw > 1
  /\ {Major, Latency, Skew, Restarts, Pause} \subseteq Nat
  /\ Skews \subseteq -Skew..Skew

None == -1

VARIABLES
  err, lag, drift,
  pc,           (* the effects thread: "top" of its loop, "adjust" and        *)
                (* "recount" for a major adjustment, "frame", "sleep",        *)
                (* "wait" for the millisecond before it draws, "draw", "off" *)
  air,          (* age of the time packet on the air, None if there is none *)
  left          (* restarts left                                           *)

vars == <<err, lag, drift, pc, air, left>>

-----------------------------------------------------------------------------
(* broadcastTime of the master, once a minute or on command.               *)
Broadcast ==
  /\ air = None
  /\ air' = 0
  /\ UNCHANGED <<err, lag, drift, pc, left>>

Lose ==
  /\ air # None
  /\ air' = None
  /\ UNCHANGED <<err, lag, drift, pc, left>>

(* handleRadioTime: the corrected clock now shows the time of the sending. *)
Receive ==
  /\ air # None
  /\ err' = -air
  /\ lag' = lag + (err' - err)
  /\ drift' = drift + (err' - err)
  /\ air' = None
  /\ UNCHANGED <<pc, left>>

-----------------------------------------------------------------------------
(* effects_thread.  It reads the clock up to four times in a round, and a  *)
(* time packet may come before each of them.  time_slop, which only the    *)
(* slop command sets, is 0.                                                *)

Far == lag > Major * Redraw \/ lag < -Major * Redraw

(* Is last_time off the clock?                                             *)
Check ==
  /\ pc = "top"
  /\ pc' = IF Far THEN "adjust" ELSE "frame"
  /\ UNCHANGED <<err, lag, drift, air, left>>

(* A major time adjustment: last_time is now ...                           *)
Adjust ==
  /\ pc = "adjust" /\ pc' = "recount"
  /\ lag' = 0
  /\ UNCHANGED <<err, drift, air, left>>

(* Mutant: a major adjustment leaves the frame counter alone.              *)
RecountNot ==
  /\ pc = "recount" /\ pc' = "frame"
  /\ UNCHANGED <<err, lag, drift, air, left>>

(* ... and loop is now / Redraw.                                           *)
Recount ==
  /\ pc = "recount" /\ pc' = "frame"
  /\ drift' \in 0..(Redraw - 1)
  /\ UNCHANGED <<err, lag, air, left>>

(* Mutant: the next frame counts from now, not from when it was due.       *)
FrameFromNow ==
  /\ pc = "frame"
  /\ IF lag > Redraw THEN lag' = 0 /\ pc' = "wait"
                     ELSE pc' = "sleep" /\ UNCHANGED lag
  /\ UNCHANGED <<err, drift, air, left>>

(* A frame is due: the last one is sent to the LEDs.                       *)
Frame ==
  /\ pc = "frame"
  /\ IF lag > Redraw THEN lag' = lag - Redraw /\ pc' = "wait"
                     ELSE pc' = "sleep" /\ UNCHANGED lag
  /\ UNCHANGED <<err, drift, air, left>>

(* draw_pattern: loop++.                                                   *)
Draw ==
  /\ pc = "draw"
  /\ drift' = drift - Redraw
  /\ pc' = "top"
  /\ UNCHANGED <<err, lag, air, left>>

(* A test stops the effects ...                                            *)
Stop ==
  /\ pc = "top" /\ left > 0
  /\ pc' = "off" /\ left' = left - 1
  /\ UNCHANGED <<err, lag, drift, air>>

(* ... and effectsStart draws one frame and starts the thread anew.        *)
Start ==
  /\ pc = "off"
  /\ lag' = 0
  /\ drift' = drift - Redraw
  /\ pc' = "top"
  /\ UNCHANGED <<err, air, left>>

-----------------------------------------------------------------------------
(* A millisecond.  The thread sleeps for one in each round of its loop and *)
(* does all else, the drawing included, within it.                         *)
Tick ==
  /\ pc \in {"sleep", "wait", "off"}
  /\ pc = "off" => drift < Pause
  /\ air < Latency
  /\ lag' = IF pc = "off" THEN lag ELSE lag + 1
  /\ drift' = drift + 1
  /\ air' = IF air = None THEN None ELSE air + 1
  /\ pc' = CASE pc = "sleep" -> "top" [] pc = "wait" -> "draw" [] OTHER -> pc
  /\ UNCHANGED <<err, left>>

(* ledStart sets the frame counter when the cube boots, and effectsStart   *)
(* comes after the tests.                                                  *)
Init ==
  /\ err \in Skews
  /\ lag = 0 /\ drift \in 0..(Redraw - 1)
  /\ pc = "off" /\ air = None /\ left = Restarts

Thread == Check \/ Adjust \/ Recount \/ Frame \/ Draw
Next == Broadcast \/ Lose \/ Receive \/ Thread \/ Stop \/ Start \/ Tick

Spec == Init /\ [][Next]_vars

(* Time goes on, the thread runs, tests end.  Packets may all be lost.     *)
FairSpec == Spec /\ WF_vars(Tick) /\ WF_vars(Thread) /\ SF_vars(Start) /\ WF_vars(Receive \/ Lose)

-----------------------------------------------------------------------------
(* How far last_time may be from the clock: what is no major adjustment,   *)
(* and the time packets that come before the thread looks.                 *)
Slip == Major * Redraw + 2 * (Skew + Latency)

(* A restart leaves that in the frame counter, the frame effectsStart      *)
(* draws, and the length of the test.                                      *)
Fall == Slip + Redraw + Pause

Furthest == (Restarts + 1) * Fall + Slip + Redraw + 1

(* The adjustments keep last_time near the clock; the frame counter gets   *)
(* farther away only with each restart.                                    *)
TypeOK ==
  /\ err \in Skews \cup -Latency..0
  /\ lag \in -Slip..(Slip + 1) /\ drift \in -Furthest..Furthest
  /\ pc \in {"top", "adjust", "recount", "frame", "sleep", "wait", "draw", "off"}
  /\ air \in None..Latency /\ left \in 0..Restarts

(* How far the frame counter is behind last_time.  One frame is counted    *)
(* after it was due.                                                       *)
Behind == drift - lag - (IF pc \in {"wait", "draw"} THEN Redraw ELSE 0)

(* The frame counter fits last_time, or is about to be counted anew.       *)
Locked == pc = "recount" \/ Behind \in 0..(Redraw - 1)

(* Has a time packet come since last_time was set to now?                  *)
CameBetween == pc = "recount" /\ lag # 0

(* Only a restart, or a time packet that comes between the two readings of *)
(* a major adjustment, takes the frame counter away from last_time: no     *)
(* packet anywhere else in the loop does, nor does catching up, waiting or *)
(* adjusting (led.c:695-727).                                              *)
KeepsLocked == [][Locked => Locked' \/ pc = "off" \/ CameBetween]_vars

(* The cube shows the frame of the master's clock, but for one that is due *)
(* or drawn, the one effectsStart draws, and the time that packets take.   *)
InStep == drift - err \in -Redraw..(2 * Redraw + Latency + 2)

(* An adjustment that is major by more than what a frame and the next      *)
(* packet may take from it before the thread looks.                        *)
SurelyFar == lag > (Major + 1) * Redraw + Latency \/ lag < -(Major * Redraw + Latency + 1)

(* Such an adjustment re-inits the loop to the same modulus as the master  *)
(* (led.c:697-699): unless the effects are stopped the cube is in step from *)
(* then on.                                                                *)
JumpSyncs == [](SurelyFar /\ pc # "off" => <>(pc = "off") \/ <>[]InStep)
=============================================================================
