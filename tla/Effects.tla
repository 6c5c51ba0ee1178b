------------------------------- MODULE Effects -------------------------------
(***************************************************************************)
(* Which light pattern a cube shows and how bright: src/led.c,             *)
(* src/fx/fx-strobe.c and fx-wmole.c, the charge check of                  *)
(* src/orchard-app.c and the shell's commands.                             *)
(*                                                                         *)
(* Three threads share fx_index, fx_previndex, shift and the two flags of  *)
(* the stop handshake without a lock.  The event thread preempts the other *)
(* two, so its handlers are cut only where they sleep; the shell preempts  *)
(* the effects thread whenever it does not sleep.  What those two run is   *)
(* cut between a read and the assignment that relies on it; one expression *)
(* with its assignment is one step.                                        *)
(***************************************************************************)
EXTENDS Integers

CONSTANTS
  FxMax,        (* number of effects, fx_max                               *)
  Duration,     (* their durations, 0 for a persistent one                 *)
  Safety, Strobe, Mole,        (* indices of "safetyPattern", "strobe" and *)
                               (* "Whackamole"                             *)
  LongAgo,      (* bound of the age of a temporary pattern                 *)
  Volts,        (* what the gauge says of the battery                      *)
  Levels,       (* the levels that the shell's bright command is given     *)
  Requests      (* bound: selections, levels and tests asked for           *)

ASSUME EffectsAssumption ==
  /\ FxMax \in Nat \ {0}
  /\ LongAgo \in Nat
  /\ Duration \in [0..(FxMax - 1) -> 0..(LongAgo - 1)]
  /\ {Safety, Strobe, Mole} \subseteq 0..(FxMax - 1)
  /\ Duration[0] = 0 /\ Duration[Safety] = 0
  /\ Volts \subseteq {"full", "weak", "safety"} /\ Volts # {}
  /\ Levels \subseteq 0..7
  /\ Requests \in Nat

Fx == 0..(FxMax - 1)
Temporary(i) == Duration[i] > 0

PC == {"none", "rest", "use", "save", "select", "bright", "stash", "stop", "test", "start", "skip",
       "draw", "check", "expire", "show", "zero", "restore", "drawn"}
Thread == [pc : PC, cur : 0..FxMax, old : 0..7]

VARIABLES
  index,        (* fx_index                                                *)
  prev,         (* fx_previndex                                            *)
  age,          (* time since fx_starttime                                 *)
  off,          (* ledsOff                                                 *)
  exit,         (* ledExitRequest                                          *)
  shift, stash, (* the brightness, 0 is full, and stashed_shift            *)
  wasCharging,  (* was_charging of the charge check                        *)
  power,        (* what gauge and charger report                           *)
  volts,        (* what the gauge said to the charge check under way       *)
  th,           (* the shell's (or main) thread and the effects thread     *)
  left          (* requests left                                           *)

selection == <<index, prev, age>>
handshake == <<off, exit>>
brightness == <<shift, stash, wasCharging>>
supply == <<power, volts>>
vars == <<selection, handshake, brightness, supply, th, left>>

Runs(t) == t = "effects" => th["shell"].pc \in {"rest", "stop", "test"}
At(t, pc) == Runs(t) /\ th[t].pc = pc
Goto(t, pc) == th' = [th EXCEPT ![t].pc = pc]

(* Somebody wants something of the cube.                                   *)
Ask == left > 0 /\ left' = left - 1

-----------------------------------------------------------------------------
(* The event thread.                                                       *)

(* effectsSetPattern, with effectsSetTempPattern, in one step.             *)
SetPattern(i) ==
  /\ index' = i
  /\ prev' = IF Temporary(i) /\ ~Temporary(index) THEN index ELSE prev
  /\ age' = IF Temporary(i) /\ i # index THEN 0 ELSE age

(* A page shows the strobe, an assigned address the effect "address" (no   *)
(* such effect is built in, and the lookup then gives 0), and the switch   *)
(* the next effect.                                                        *)
Select ==
  /\ volts = "none" /\ Ask
  /\ \E i \in {Strobe, 0, (index + 1) % FxMax} : SetPattern(i)
  /\ UNCHANGED <<handshake, brightness, supply, th>>

(* The level that the battery asks for at least.                           *)
Level == [full |-> 0, weak |-> 2, safety |-> 4, charging |-> 5]

(* handle_chargecheck_timeout, once a second.  The gauge is read at first. *)
(* Plugged in or off, the cube is dimmed or as bright as it was before ... *)
ChargeCheck ==
  /\ volts = "none"
  /\ volts' \in IF power = "charging" THEN Volts ELSE {power}
  /\ wasCharging' = (power = "charging")
  /\ stash' = IF power = "charging" /\ ~wasCharging THEN shift ELSE stash
  /\ shift' = CASE power = "charging" /\ ~wasCharging -> Level[power]
                [] power # "charging" /\ wasCharging -> stash
                [] OTHER -> shift
  /\ UNCHANGED <<selection, handshake, power, th, left>>

(* Mutant: the safety threshold changes the pattern only.                  *)
LimitedWeak(s) == IF volts = "weak" /\ s < Level[volts] THEN Level[volts] ELSE s

Limited(s) == IF s < Level[volts] THEN Level[volts] ELSE s

(* ... and unless the charger, asked again while the others run, says that *)
(* the cube is plugged in by now, a low battery limits it.                 *)
ChargeCheckLimit ==
  /\ volts # "none" /\ volts' = "none"
  /\ IF power = "charging" THEN UNCHANGED <<selection, shift>>
     ELSE /\ shift' = Limited(shift)
          /\ IF volts = "safety" THEN SetPattern(Safety) ELSE UNCHANGED selection
  /\ UNCHANGED <<handshake, stash, wasCharging, power, th, left>>

-----------------------------------------------------------------------------
(* draw_pattern, which the effects thread calls once a frame and           *)
(* effectsStart once.                                                      *)

Draw(t) ==
  /\ At(t, "draw")
  /\ th' = [th EXCEPT ![t].pc = IF Temporary(index) THEN "check" ELSE "show", ![t].cur = index]
  /\ UNCHANGED <<selection, handshake, brightness, supply, left>>

(* Mutant: the comparison is the wrong way round.                          *)
CheckExpiredSwapped(t) ==
  /\ At(t, "check")
  /\ Goto(t, IF age < Duration[index] THEN "expire" ELSE "show")
  /\ UNCHANGED <<selection, handshake, brightness, supply, left>>

(* effectsCheckExpiredTempPattern looks at fx_index again ...              *)
CheckExpired(t) ==
  /\ At(t, "check")
  /\ Goto(t, IF age > Duration[index] THEN "expire" ELSE "show")
  /\ UNCHANGED <<selection, handshake, brightness, supply, left>>

(* ... and then sets it, whatever it is by now.                            *)
Expire(t) ==
  /\ At(t, "expire")
  /\ index' = prev
  /\ Goto(t, "show")
  /\ UNCHANGED <<prev, age, handshake, brightness, supply, left>>

(* computeEffect of the pattern looked up at first.  The strobe's, and     *)
(* Whackamole's when it sparkles, sets the brightness to full and then     *)
(* back.                                                                   *)
Show(t) ==
  /\ At(t, "show")
  /\ \/ /\ th[t].cur \in {Strobe, Mole}
        /\ th' = [th EXCEPT ![t] = [pc |-> "zero", cur |-> 0, old |-> shift]]
     \/ /\ th[t].cur # Strobe
        /\ th' = [th EXCEPT ![t] = [pc |-> "drawn", cur |-> 0, old |-> 0]]
  /\ UNCHANGED <<selection, handshake, brightness, supply, left>>

StrobeFull(t) ==
  /\ At(t, "zero")
  /\ shift' = 0
  /\ Goto(t, "restore")
  /\ UNCHANGED <<selection, handshake, stash, wasCharging, supply, left>>

StrobeBack(t) ==
  /\ At(t, "restore")
  /\ shift' = th[t].old
  /\ th' = [th EXCEPT ![t].pc = "drawn", ![t].old = 0]
  /\ UNCHANGED <<selection, handshake, stash, wasCharging, supply, left>>

DrawPattern(t) ==
  Draw(t) \/ CheckExpired(t) \/ Expire(t) \/ Show(t) \/ StrobeFull(t) \/ StrobeBack(t)

-----------------------------------------------------------------------------
(* The effects thread.                                                     *)

(* It is time for a frame; the thread slept before it draws it.            *)
Frame ==
  /\ At("effects", "rest")
  /\ Goto("effects", "draw")
  /\ UNCHANGED <<selection, handshake, brightness, supply, left>>

(* The end of the loop: at a request the thread says so and is gone.       *)
FrameEnd ==
  /\ At("effects", "drawn") \/ (At("effects", "rest") /\ exit)
  /\ off' = exit
  /\ th' = [th EXCEPT !["effects"] = [pc |-> IF exit THEN "none" ELSE "rest", cur |-> 0, old |-> 0]]
  /\ UNCHANGED <<selection, exit, brightness, supply, left>>

-----------------------------------------------------------------------------
(* The shell.                                                              *)

(* fx use, next and prev: effectsSetPattern of another effect, which looks *)
(* at fx_index three times for a temporary one.                            *)
Use ==
  /\ At("shell", "rest") /\ Ask
  /\ \E i \in Fx \ {index} :
       th' = [th EXCEPT !["shell"].pc = IF Temporary(i) THEN "use" ELSE "select", !["shell"].cur = i]
  /\ UNCHANGED <<selection, handshake, brightness, supply>>

UseCheck ==
  /\ At("shell", "use")
  /\ Goto("shell", IF Temporary(index) THEN "select" ELSE "save")
  /\ UNCHANGED <<selection, handshake, brightness, supply, left>>

UseSave ==
  /\ At("shell", "save")
  /\ prev' = index
  /\ Goto("shell", "select")
  /\ UNCHANGED <<index, age, handshake, brightness, supply, left>>

UseSelect ==
  /\ At("shell", "select")
  /\ index' = th["shell"].cur
  /\ age' = IF Temporary(th["shell"].cur) THEN 0 ELSE age
  /\ th' = [th EXCEPT !["shell"].pc = "rest", !["shell"].cur = 0]
  /\ UNCHANGED <<prev, handshake, brightness, supply, left>>

(* Mutant: brighter and darker without the limits.                         *)
BrightUnlimited ==
  /\ At("shell", "rest") /\ Ask
  /\ \E s \in {shift - 1, shift + 1} :
       th' = [th EXCEPT !["shell"].pc = "bright", !["shell"].old = s]
  /\ UNCHANGED <<selection, handshake, brightness, supply>>

(* cmd_bright: + and - whatever the charger does, a level only after it.   *)
(* The level or the charger is read ...                                    *)
Bright ==
  /\ At("shell", "rest") /\ Ask
  /\ \/ \E s \in {shift - 1, shift + 1} \cap 0..7 :
          th' = [th EXCEPT !["shell"].pc = "bright", !["shell"].old = s]
     \/ \E s \in Levels :
          th' = [th EXCEPT !["shell"].pc = IF power = "charging" THEN "stash" ELSE "bright",
                           !["shell"].old = s]
  /\ UNCHANGED <<selection, handshake, brightness, supply>>

(* ... and what was made of it is assigned.                                *)
BrightSet ==
  /\ \/ At("shell", "bright") /\ shift' = th["shell"].old /\ stash' = stash
     \/ At("shell", "stash") /\ stash' = th["shell"].old /\ shift' = shift
  /\ th' = [th EXCEPT !["shell"].pc = "rest", !["shell"].old = 0]
  /\ UNCHANGED <<selection, handshake, wasCharging, supply, left>>

(* The tests drive the LEDs themselves and stop the effects before.        *)
Test ==
  /\ At("shell", "rest") /\ Ask
  /\ Goto("shell", "stop")
  /\ UNCHANGED <<selection, handshake, brightness, supply>>

(* Mutant: effectsStop is called once and its result not looked at.        *)
StopAtOnce ==
  /\ At("shell", "stop")
  /\ exit' = TRUE /\ Goto("shell", "test")
  /\ UNCHANGED <<selection, off, brightness, supply, left>>

(* effectsStop and a sleep until ledsOff is set.                           *)
Stop ==
  /\ At("shell", "stop")
  /\ IF off THEN Goto("shell", "test") /\ UNCHANGED exit
            ELSE exit' = TRUE /\ UNCHANGED th
  /\ UNCHANGED <<selection, off, brightness, supply, left>>

Tested ==
  /\ At("shell", "test")
  /\ Goto("shell", "start")
  /\ UNCHANGED <<selection, handshake, brightness, supply, left>>

-----------------------------------------------------------------------------
(* effectsStart, of main at boot and of the shell after the tests.         *)

StartLookup ==
  /\ At("shell", "start")
  /\ th' = [th EXCEPT !["shell"].pc = "skip", !["shell"].cur = index]
  /\ UNCHANGED <<selection, handshake, brightness, supply, left>>

(* The next index is added to a pointer that was moved already; what is    *)
(* read behind the table may be anything but zero.                         *)
StartSkip ==
  /\ At("shell", "skip")
  /\ th["shell"].cur \in Fx => Temporary(th["shell"].cur)
  /\ index' = (index + 1) % FxMax
  /\ th' = [th EXCEPT !["shell"].cur = IF @ + index' < FxMax THEN @ + index' ELSE FxMax]
  /\ UNCHANGED <<prev, age, handshake, brightness, supply, left>>

StartFound ==
  /\ At("shell", "skip")
  /\ th["shell"].cur \in Fx => ~Temporary(th["shell"].cur)
  /\ Goto("shell", "draw")
  /\ UNCHANGED <<selection, handshake, brightness, supply, left>>

(* Mutant: the request to stop is not taken back.                          *)
StartThreadStopped ==
  /\ At("shell", "drawn")
  /\ off' = FALSE /\ exit' = exit
  /\ th' = [shell |-> [pc |-> "rest", cur |-> 0, old |-> 0],
            effects |-> [pc |-> "rest", cur |-> 0, old |-> 0]]
  /\ UNCHANGED <<selection, brightness, supply, left>>

StartThread ==
  /\ At("shell", "drawn")
  /\ off' = FALSE /\ exit' = FALSE
  /\ th' = [shell |-> [pc |-> "rest", cur |-> 0, old |-> 0],
            effects |-> [pc |-> "rest", cur |-> 0, old |-> 0]]
  /\ UNCHANGED <<selection, brightness, supply, left>>

-----------------------------------------------------------------------------
Tick ==
  /\ age < LongAgo
  /\ age' = age + 1
  /\ UNCHANGED <<index, prev, handshake, brightness, supply, th, left>>

Battery ==
  /\ power' \in Volts \cup {"charging"}
  /\ UNCHANGED <<selection, handshake, brightness, volts, th, left>>

Init ==
  /\ index = 0 /\ prev = 0 /\ age = LongAgo
  /\ off = TRUE /\ exit = FALSE
  /\ shift = 2 /\ stash = 2 /\ wasCharging = FALSE
  /\ power \in Volts \cup {"charging"} /\ volts = "none"
  /\ th = [shell |-> [pc |-> "start", cur |-> 0, old |-> 0],
           effects |-> [pc |-> "none", cur |-> 0, old |-> 0]]
  /\ left = Requests

EventThread == Select \/ ChargeCheck \/ ChargeCheckLimit
EffectsThread == Frame \/ FrameEnd \/ DrawPattern("effects")
Command == UseCheck \/ UseSave \/ UseSelect \/ BrightSet \/ Stop \/ Tested
EffectsStart == StartLookup \/ StartSkip \/ StartFound \/ DrawPattern("shell") \/ StartThread

Next ==
  \/ EventThread \/ EffectsThread
  \/ Use \/ Bright \/ Test \/ Command \/ EffectsStart
  \/ Tick \/ Battery

Spec == Init /\ [][Next]_vars

(* The charge check comes every second, the clock goes on, and a thread    *)
(* that does not sleep goes on when no other preempts it.                  *)
Fairness ==
  /\ WF_vars(ChargeCheck \/ ChargeCheckLimit) /\ WF_vars(Tick)
  /\ WF_vars(EffectsThread)
  /\ WF_vars(Command \/ EffectsStart) /\ SF_vars(StartFound)

FairSpec == Spec /\ Fairness

-----------------------------------------------------------------------------
TypeOK ==
  /\ index \in Fx /\ prev \in Fx /\ age \in 0..LongAgo
  /\ off \in BOOLEAN /\ exit \in BOOLEAN
  /\ shift \in 0..7 /\ stash \in 0..7 /\ wasCharging \in BOOLEAN
  /\ power \in Volts \cup {"charging"} /\ volts \in {"none"} \cup Volts
  /\ th \in [{"shell", "effects"} -> Thread]
  /\ left \in 0..Requests

(* The two flags are a handshake (led.c:78, 728-736, 793-794, 811): as     *)
(* long as the shell drives the LEDs itself there is no effects thread,    *)
(* afterwards there is one, and it never meets a request to stop it that   *)
(* was meant for the one before.                                           *)
StopSafe ==
  /\ off <=> th["effects"].pc = "none"
  /\ th["shell"].pc \in {"test", "start", "skip"} => off
  /\ exit /\ ~off => th["shell"].pc = "stop"

(* After the last request the cube is lit for ever.                        *)
LitAgain == <>[](th["effects"].pc # "none")

(* After pattern time has expired, set back to previous pattern            *)
(* (led.c:585): a temporary pattern ends, unless the one to go back to is  *)
(* temporary as well.                                                      *)
TempEnds == <>[](~Temporary(prev)) => []<>(~Temporary(index))

(* A cube whose battery stays below the safety threshold comes to show the *)
(* safety pattern and nothing else, at a limited brightness                *)
(* (orchard-app.c:662-671), whatever expires or is restored meanwhile,     *)
(* with the same exception.                                                *)
SafetyMode ==
  <>[](power = "safety" /\ ~Temporary(prev)) => <>[](index = Safety /\ shift >= 4)
=============================================================================
