---------------------------- MODULE EffectsProofs ----------------------------
(***************************************************************************)
(* For any table of effects: index, level and program counters keep to     *)
(* their ranges, and the two flags of the stop handshake never let the     *)
(* tests and the effects drive the LEDs together.                          *)
(***************************************************************************)
EXTENDS Effects, TLAPS

Both == {"shell", "effects"}
Drawing == {"draw", "check", "expire", "show", "zero", "restore", "drawn"}

(* The shell draws only in effectsStart, when there is no effects thread,  *)
(* and each thread has its own part of the program.                        *)
Alone ==
  /\ th["shell"].pc \in Drawing => off
  /\ th["effects"].pc \in Drawing \cup {"none", "rest"}

(* What the shell is about to select is an effect.                         *)
Chosen == th["shell"].pc \in {"use", "save", "select"} => th["shell"].cur \in Fx

IInv == TypeOK /\ StopSafe /\ Alone /\ Chosen

LEMMA Table ==
  /\ FxMax \in Nat /\ FxMax > 0 /\ LongAgo \in Nat /\ Requests \in Nat /\ Levels \subseteq 0..7
  /\ 0 \in Fx /\ Safety \in Fx /\ Strobe \in Fx
  /\ Volts \subseteq {"full", "weak", "safety"} /\ Volts # {}
BY EffectsAssumption DEF Fx

LEMMA NextIndex == \A i \in Fx : (i + 1) % FxMax \in Fx
BY Table DEF Fx

LEMMA LevelType == \A p \in Volts \cup {"charging"} : Level[p] \in 0..7
BY Table DEF Level

LEMMA InitInv == Init => IInv
<1> SUFFICES ASSUME Init PROVE IInv
  OBVIOUS
<1>1. /\ off = TRUE /\ exit = FALSE /\ th["shell"].pc = "start" /\ th["effects"].pc = "none"
  BY DEF Init
<1>2. th \in [Both -> Thread]
  BY Table DEF Init, Thread, PC, Both
<1>3. TypeOK
  <2>1. index \in Fx /\ prev \in Fx /\ age \in 0..LongAgo /\ left \in 0..Requests
    BY Table DEF Init
  <2>2. shift \in 0..7 /\ stash \in 0..7 BY DEF Init
  <2>3. wasCharging \in BOOLEAN /\ power \in Volts \cup {"charging"} /\ volts = "none" BY DEF Init
  <2>4. off \in BOOLEAN /\ exit \in BOOLEAN BY <1>1
  <2> QED BY <1>2, <2>1, <2>2, <2>3, <2>4 DEF TypeOK, Both
<1>4. StopSafe BY <1>1 DEF StopSafe
<1>5. Alone /\ Chosen BY <1>1 DEF Alone, Chosen, Drawing
<1> QED BY <1>3, <1>4, <1>5 DEF IInv

-----------------------------------------------------------------------------
(* The event thread touches neither the handshake nor the threads.         *)

LEMMA SetPatternType ==
  ASSUME TypeOK, NEW i \in Fx, SetPattern(i)
  PROVE  index' \in Fx /\ prev' \in Fx /\ age' \in 0..LongAgo
BY Table DEF TypeOK, SetPattern

LEMMA EventThreadInv == ASSUME IInv, EventThread PROVE IInv'
<1>1. CASE Select
  <2>1. PICK i \in {Strobe, 0, (index + 1) % FxMax} : SetPattern(i)
    BY <1>1 DEF Select
  <2>2. i \in Fx BY Table, NextIndex DEF IInv, TypeOK
  <2>3. index' \in Fx /\ prev' \in Fx /\ age' \in 0..LongAgo
    BY <2>1, <2>2, SetPatternType DEF IInv
  <2>4. left' \in 0..Requests BY <1>1, Table DEF Select, Ask, IInv, TypeOK
  <2> QED BY <1>1, <2>3, <2>4
      DEF Select, IInv, TypeOK, StopSafe, Alone, Chosen, handshake, brightness, supply
<1>2. CASE ChargeCheck
  <2>1. shift' \in 0..7 /\ stash' \in 0..7
    BY <1>2, LevelType DEF ChargeCheck, IInv, TypeOK
  <2>2. wasCharging' \in BOOLEAN /\ volts' \in Volts
    BY <1>2 DEF ChargeCheck, IInv, TypeOK
  <2> QED BY <1>2, <2>1, <2>2
      DEF ChargeCheck, IInv, TypeOK, StopSafe, Alone, Chosen, selection, handshake
<1>3. CASE ChargeCheckLimit
  <2>1. volts \in Volts BY <1>3 DEF ChargeCheckLimit, IInv, TypeOK
  <2>2. index' \in Fx /\ prev' \in Fx /\ age' \in 0..LongAgo
    BY <1>3, Table, SetPatternType DEF ChargeCheckLimit, IInv, TypeOK, selection
  <2>3. \A s \in 0..7 : Limited(s) \in 0..7
    BY <2>1, LevelType DEF Limited
  <2>4. shift' \in 0..7
    BY <1>3, <2>3 DEF ChargeCheckLimit, IInv, TypeOK
  <2> QED BY <1>3, <2>2, <2>4
      DEF ChargeCheckLimit, IInv, TypeOK, StopSafe, Alone, Chosen, handshake
<1> QED BY <1>1, <1>2, <1>3 DEF EventThread

(* Drawing leads from one of its steps to the next.                        *)
LEMMA DrawInv == ASSUME IInv, NEW t \in Both, DrawPattern(t) PROVE IInv'
<1>1. /\ UNCHANGED handshake /\ left' = left /\ UNCHANGED supply /\ age' = age /\ prev' = prev
      /\ stash' = stash /\ wasCharging' = wasCharging
  BY DEF DrawPattern, Draw, CheckExpired, Expire, Show, StrobeFull, StrobeBack, selection, brightness
<1>2. index' \in Fx
  BY DEF DrawPattern, Draw, CheckExpired, Expire, Show, StrobeFull, StrobeBack, selection, brightness,
         IInv, TypeOK
<1>3. shift' \in 0..7
  BY DEF DrawPattern, Draw, CheckExpired, Expire, Show, StrobeFull, StrobeBack, selection, brightness,
         IInv, TypeOK, Thread, Both
<1>4. /\ th' \in [Both -> Thread] /\ th[t].pc \in Drawing /\ th'[t].pc \in Drawing
      /\ \A u \in Both \ {t} : th'[u] = th[u]
  <2>1. th \in [Both -> Thread] /\ index \in 0..FxMax /\ shift \in 0..7
    BY Table DEF IInv, TypeOK, Both, Fx
  <2> USE <2>1 DEF Thread, PC, Drawing, At
  <2>2. CASE Draw(t)
    <3>1. th[t] \in Thread /\ th[t].pc = "draw" BY <2>2 DEF Draw
    <3>2. PICK pc \in {"check", "show"} : th' = [th EXCEPT ![t].pc = pc, ![t].cur = index]
      BY <2>2 DEF Draw
    <3>3. [th[t] EXCEPT !.pc = pc, !.cur = index] \in Thread BY <2>1, <3>1
    <3>4. th' = [th EXCEPT ![t] = [th[t] EXCEPT !.pc = pc, !.cur = index]] BY <3>2
    <3> QED BY <2>1, <3>1, <3>3, <3>4
  <2>3. CASE Show(t)
    <3>1. PICK pc \in {"zero", "drawn"}, o \in 0..7 : th' = [th EXCEPT ![t] = [pc |-> pc, cur |-> 0, old |-> o]]
      BY <2>1, <2>3 DEF Show
    <3>2. [pc |-> pc, cur |-> 0, old |-> o] \in Thread BY Table
    <3>3. th[t].pc = "show" BY <2>3 DEF Show
    <3> QED BY <2>1, <3>1, <3>2, <3>3
  <2>4. CASE StrobeBack(t)
    <3>1. th[t] \in Thread /\ th[t].pc = "restore" BY <2>4 DEF StrobeBack
    <3>2. PICK o \in 0..7 : th' = [th EXCEPT ![t].pc = "drawn", ![t].old = o]
      BY <2>4 DEF StrobeBack
    <3> QED BY <3>1, <3>2
  <2>5. CASE CheckExpired(t) BY <2>5 DEF CheckExpired, Goto
  <2>6. CASE Expire(t) BY <2>6 DEF Expire, Goto
  <2>7. CASE StrobeFull(t) BY <2>7 DEF StrobeFull, Goto
  <2> QED BY <2>2, <2>3, <2>4, <2>5, <2>6, <2>7 DEF DrawPattern
<1>5. TypeOK'
  BY <1>1, <1>2, <1>3, <1>4 DEF IInv, TypeOK, handshake, Both, supply
<1>6. StopSafe' /\ Alone' /\ Chosen'
  BY <1>1, <1>4 DEF IInv, TypeOK, StopSafe, Alone, Chosen, handshake, Both, Drawing
<1> QED BY <1>5, <1>6 DEF IInv

LEMMA EffectsThreadInv == ASSUME IInv, EffectsThread PROVE IInv'
<1>1. th \in [Both -> Thread] BY DEF IInv, TypeOK, Both
<1>2. CASE Frame
  <2>1. /\ th' \in [Both -> Thread] /\ th'["shell"] = th["shell"]
        /\ th["effects"].pc = "rest" /\ th'["effects"].pc = "draw"
    BY <1>1, <1>2 DEF Frame, At, Goto, Both, Thread, PC
  <2> QED BY <1>2, <2>1
      DEF Frame, IInv, TypeOK, StopSafe, Alone, Chosen, Drawing, Both, selection, handshake, brightness, supply
<1>3. CASE FrameEnd
  <2>1. PICK pc \in {"none", "rest"} :
          /\ th' = [th EXCEPT !["effects"] = [pc |-> pc, cur |-> 0, old |-> 0]]
          /\ pc = "none" <=> exit
    BY <1>3 DEF FrameEnd
  <2>2. [pc |-> pc, cur |-> 0, old |-> 0] \in Thread BY Table DEF Thread, PC
  <2>3. /\ th' \in [Both -> Thread] /\ th'["shell"] = th["shell"] /\ th'["effects"].pc = pc
    BY <1>1, <2>1, <2>2 DEF Both
  <2>4. ~off BY <1>3 DEF FrameEnd, At, IInv, StopSafe
  <2>5. off' = exit /\ exit' = exit BY <1>3 DEF FrameEnd
  <2>6. TypeOK' BY <1>3, <2>3, <2>5
    DEF FrameEnd, IInv, TypeOK, Both, selection, brightness, supply
  <2>7. StopSafe' BY <2>1, <2>3, <2>4, <2>5 DEF IInv, StopSafe, TypeOK
  <2>8. Alone' /\ Chosen' BY <2>3, <2>4 DEF IInv, Alone, Chosen
  <2> QED BY <2>6, <2>7, <2>8 DEF IInv
<1> QED BY <1>2, <1>3, DrawInv DEF EffectsThread, Both

-----------------------------------------------------------------------------
(* A step of one thread to pc, with the effect c at hand.                  *)
LEMMA ThreadStep ==
  ASSUME th \in [Both -> Thread], NEW t \in Both, NEW p \in PC, NEW c \in 0..FxMax,
         th' = [th EXCEPT ![t].pc = p, ![t].cur = c]
  PROVE  /\ th' \in [Both -> Thread] /\ th'[t].pc = p /\ th'[t].cur = c
         /\ \A u \in Both \ {t} : th'[u] = th[u]
<1>1. th[t] \in Thread OBVIOUS
<1>2. th'[t] = [th[t] EXCEPT !.pc = p, !.cur = c] OBVIOUS
<1>3. th'[t] \in Thread /\ th'[t].pc = p /\ th'[t].cur = c BY <1>1, <1>2 DEF Thread
<1> QED BY <1>3

LEMMA FxInRange == \A i \in Fx : i \in 0..FxMax
BY Table DEF Fx

(* A step of the shell that leaves the flags and the effects thread alone  *)
(* and stays out of the part that needs the flag.                          *)
LEMMA ShellInv ==
  ASSUME IInv, TypeOK', Chosen', UNCHANGED handshake, th'["effects"] = th["effects"],
         th["shell"].pc = "stop" => th'["shell"].pc = "stop",
         th'["shell"].pc \in {"test", "start", "skip"} \cup Drawing => off
  PROVE  IInv'
BY DEF IInv, TypeOK, StopSafe, Alone, handshake, Drawing

LEMMA CommandInv == ASSUME IInv, Use \/ Bright \/ Test \/ Command PROVE IInv'
<1>1. th \in [Both -> Thread] /\ left \in 0..Requests BY DEF IInv, TypeOK, Both
<1> USE <1>1, Table DEF Both, Thread, PC, At
<1>2. CASE Use
  <2>1. PICK pc \in {"use", "select"}, i \in Fx :
          th' = [th EXCEPT !["shell"].pc = pc, !["shell"].cur = i]
    BY <1>2 DEF Use
  <2>2. /\ th' \in [Both -> Thread] /\ th'["effects"] = th["effects"]
        /\ th'["shell"].pc = pc /\ th'["shell"].cur = i
    <3>1. pc \in PC /\ i \in 0..FxMax /\ "effects" \in Both \ {"shell"} BY FxInRange
    <3> QED BY <2>1, <3>1, ThreadStep
  <2>3. left' \in 0..Requests /\ th["shell"].pc = "rest"
    <3>1. left' = left - 1 /\ left > 0 /\ th["shell"].pc = "rest" BY <1>2 DEF Use, Ask
    <3>2. left \in 0..Requests BY DEF IInv, TypeOK
    <3> QED BY <3>1, <3>2
  <2>4. TypeOK' /\ UNCHANGED handshake
    BY <1>2, <2>2, <2>3 DEF Use, IInv, TypeOK, selection, handshake, brightness, supply
  <2> QED BY <2>4, <2>2, <2>3, ShellInv DEF Drawing, Chosen
<1>3. CASE Bright
  <2>1. PICK pc \in {"bright", "stash"}, o \in 0..7 :
          th' = [th EXCEPT !["shell"].pc = pc, !["shell"].old = o]
    BY <1>3 DEF Bright, IInv, TypeOK
  <2>2. /\ th' \in [Both -> Thread] /\ th'["effects"] = th["effects"] /\ th'["shell"].pc = pc
    <3>1. th["shell"] \in Thread OBVIOUS
    <3>2. [th["shell"] EXCEPT !.pc = pc, !.old = o] \in Thread BY <3>1
    <3>3. th' = [th EXCEPT !["shell"] = [th["shell"] EXCEPT !.pc = pc, !.old = o]] BY <2>1
    <3> QED BY <3>1, <3>2, <3>3
  <2>3. left' \in 0..Requests /\ th["shell"].pc = "rest"
    BY <1>3 DEF Bright, Ask
  <2>4. TypeOK' /\ UNCHANGED handshake
    BY <1>3, <2>2, <2>3 DEF Bright, IInv, TypeOK, selection, handshake, brightness, supply
  <2> QED BY <2>2, <2>3, <2>4, ShellInv DEF Drawing, Chosen
<1>9. CASE BrightSet
  <2>1. PICK pc \in {"rest"}, o \in 0..7 : th' = [th EXCEPT !["shell"].pc = pc, !["shell"].old = o]
    BY <1>9 DEF BrightSet
  <2>2. /\ th' \in [Both -> Thread] /\ th'["effects"] = th["effects"] /\ th'["shell"].pc = pc
    <3>1. th["shell"] \in Thread OBVIOUS
    <3>2. [th["shell"] EXCEPT !.pc = pc, !.old = o] \in Thread BY <3>1
    <3>3. th' = [th EXCEPT !["shell"] = [th["shell"] EXCEPT !.pc = pc, !.old = o]] BY <2>1
    <3> QED BY <3>1, <3>2, <3>3
  <2>3. shift' \in 0..7 /\ stash' \in 0..7 /\ th["shell"].pc \in {"bright", "stash"}
    BY <1>9 DEF BrightSet, IInv, TypeOK
  <2>4. TypeOK' /\ UNCHANGED handshake
    BY <1>9, <2>2, <2>3 DEF BrightSet, IInv, TypeOK, selection, handshake, supply
  <2> QED BY <2>2, <2>3, <2>4, ShellInv DEF Drawing, Chosen
<1>4. CASE Test
  <2>1. /\ th' \in [Both -> Thread] /\ th'["shell"].pc = "stop" /\ th'["effects"] = th["effects"]
    BY <1>4 DEF Test, Goto
  <2>2. TypeOK' /\ UNCHANGED handshake
    BY <1>4, <2>1 DEF Test, Ask, IInv, TypeOK, selection, handshake, brightness, supply
  <2> QED BY <2>1, <2>2, ShellInv DEF Drawing, Chosen
<1>5. CASE UseCheck \/ UseSave
  <2>1. PICK pc \in {"select", "save"} : th' = [th EXCEPT !["shell"].pc = pc]
    BY <1>5 DEF UseCheck, UseSave, Goto
  <2>2. /\ th' \in [Both -> Thread] /\ th'["effects"] = th["effects"]
        /\ th'["shell"].pc = pc /\ th'["shell"].cur = th["shell"].cur
    BY <2>1
  <2>3. TypeOK' /\ UNCHANGED handshake /\ th["shell"].pc \in {"use", "save"}
    BY <1>5, <2>2 DEF UseCheck, UseSave, IInv, TypeOK, selection, handshake, brightness, supply
  <2>4. Chosen' BY <2>2, <2>3 DEF IInv, Chosen
  <2> QED BY <2>2, <2>3, <2>4, ShellInv DEF Drawing
<1>6. CASE UseSelect
  <2>1. PICK c \in {0} : th' = [th EXCEPT !["shell"].pc = "rest", !["shell"].cur = c]
    BY <1>6 DEF UseSelect
  <2>2. /\ th' \in [Both -> Thread] /\ th'["shell"].pc = "rest" /\ th'["effects"] = th["effects"]
    <3>1. c \in 0..FxMax OBVIOUS
    <3> QED BY <2>1, <3>1, ThreadStep
  <2>3. index' \in Fx BY <1>6 DEF UseSelect, IInv, Chosen
  <2>4. TypeOK' /\ UNCHANGED handshake /\ th["shell"].pc = "select"
    BY <1>6, <2>2, <2>3 DEF UseSelect, IInv, TypeOK, handshake, brightness, supply
  <2> QED BY <2>2, <2>4, ShellInv DEF Drawing, Chosen
<1>7. CASE Stop
  <2>1. CASE off
    <3>1. /\ th' \in [Both -> Thread] /\ th'["shell"].pc = "test" /\ th'["effects"] = th["effects"]
          /\ th["shell"].pc = "stop" /\ off' = off /\ exit' = exit
      BY <1>7, <2>1 DEF Stop, Goto
    <3>2. TypeOK' BY <1>7, <3>1 DEF Stop, IInv, TypeOK, selection, brightness, supply
    <3> QED BY <2>1, <3>1, <3>2 DEF IInv, StopSafe, Alone, Chosen, Drawing
  <2>2. CASE ~off
    <3>1. th' = th /\ off' = off /\ exit' = TRUE BY <1>7, <2>2 DEF Stop
    <3>2. TypeOK' BY <1>7, <3>1 DEF Stop, IInv, TypeOK, selection, brightness, supply
    <3> QED BY <1>7, <3>1, <3>2 DEF Stop, IInv, StopSafe, Alone, Chosen
  <2> QED BY <2>1, <2>2
<1>8. CASE Tested
  <2>1. /\ th' \in [Both -> Thread] /\ th'["shell"].pc = "start" /\ th'["effects"] = th["effects"]
        /\ th["shell"].pc = "test"
    BY <1>8 DEF Tested, Goto
  <2>2. off BY <2>1 DEF IInv, StopSafe
  <2>3. TypeOK' /\ UNCHANGED handshake
    BY <1>8, <2>1 DEF Tested, IInv, TypeOK, selection, handshake, brightness, supply
  <2> QED BY <2>1, <2>2, <2>3, ShellInv DEF Drawing, Chosen
<1> QED BY <1>2, <1>3, <1>4, <1>5, <1>6, <1>7, <1>8, <1>9 DEF Command

(* What effectsStart does before there is an effects thread again.         *)
LEMMA EffectsStartInv == ASSUME IInv, EffectsStart PROVE IInv'
<1>1. th \in [Both -> Thread] /\ th["shell"] \in Thread BY DEF IInv, TypeOK, Both
<1>2. CASE StartLookup
  <2>1. PICK i \in Fx : th' = [th EXCEPT !["shell"].pc = "skip", !["shell"].cur = i]
    BY <1>2 DEF StartLookup, IInv, TypeOK
  <2>2. /\ th' \in [Both -> Thread] /\ th'["effects"] = th["effects"]
        /\ th'["shell"].pc = "skip" /\ th["shell"].pc = "start"
    <3>1. "skip" \in PC /\ "shell" \in Both /\ "effects" \in Both \ {"shell"} BY DEF PC, Both
    <3>2. th["shell"].pc = "start" BY <1>2 DEF StartLookup, At
    <3> QED BY <1>1, <2>1, <3>1, <3>2, FxInRange, ThreadStep
  <2>3. off BY <2>2 DEF IInv, StopSafe
  <2>4. TypeOK' /\ UNCHANGED handshake
    BY <1>2, <2>2 DEF StartLookup, IInv, TypeOK, selection, handshake, brightness, supply, Both
  <2> QED BY <2>2, <2>3, <2>4, ShellInv DEF Drawing, Chosen
<1>3. CASE StartSkip
  <2>1. index' \in Fx BY <1>3, NextIndex DEF StartSkip, IInv, TypeOK
  <2>2. PICK i \in Fx : i = index' BY <2>1
  <2>3. th["shell"].cur \in 0..FxMax BY <1>1 DEF Thread
  <2>4. PICK c \in 0..FxMax : th' = [th EXCEPT !["shell"].cur = c]
    <3>1. (IF th["shell"].cur + i < FxMax THEN th["shell"].cur + i ELSE FxMax) \in 0..FxMax
      BY <2>2, <2>3, Table DEF Fx
    <3> QED BY <1>3, <2>2, <3>1 DEF StartSkip
  <2>5. /\ th' \in [Both -> Thread] /\ th'["effects"] = th["effects"]
        /\ th'["shell"].pc = "skip" /\ th["shell"].pc = "skip"
    BY <1>1, <1>3, <2>4 DEF StartSkip, At, Both, Thread
  <2>6. off BY <2>5 DEF IInv, StopSafe
  <2>7. TypeOK' /\ UNCHANGED handshake
    BY <1>3, <2>1, <2>5 DEF StartSkip, IInv, TypeOK, handshake, brightness, supply, Both
  <2> QED BY <2>5, <2>6, <2>7, ShellInv DEF Drawing, Chosen
<1>4. CASE StartFound
  <2>1. /\ th' \in [Both -> Thread] /\ th'["effects"] = th["effects"]
        /\ th'["shell"].pc = "draw" /\ th["shell"].pc = "skip"
    BY <1>1, <1>4 DEF StartFound, At, Goto, Both, Thread, PC
  <2>2. off BY <2>1 DEF IInv, StopSafe
  <2>3. TypeOK' /\ UNCHANGED handshake
    BY <1>4, <2>1 DEF StartFound, IInv, TypeOK, selection, handshake, brightness, supply, Both
  <2> QED BY <2>1, <2>2, <2>3, ShellInv DEF Drawing, Chosen
<1>5. CASE StartThread
  <2>1. [pc |-> "rest", cur |-> 0, old |-> 0] \in Thread BY Table DEF Thread, PC
  <2>2. /\ th' \in [Both -> Thread]
        /\ th'["shell"].pc = "rest" /\ th'["effects"].pc = "rest"
    BY <1>5, <2>1 DEF StartThread, Both
  <2>3. off' = FALSE /\ exit' = FALSE BY <1>5 DEF StartThread
  <2>4. TypeOK' BY <1>5, <2>2, <2>3 DEF StartThread, IInv, TypeOK, selection, brightness, supply, Both
  <2> QED BY <2>2, <2>3, <2>4 DEF IInv, StopSafe, Alone, Chosen, Drawing
<1> QED BY <1>2, <1>3, <1>4, <1>5, DrawInv DEF EffectsStart, Both

-----------------------------------------------------------------------------
LEMMA NextInv == IInv /\ [Next]_vars => IInv'
<1> SUFFICES ASSUME IInv, [Next]_vars PROVE IInv'
  OBVIOUS
<1>1. CASE Tick
  <2>1. age' \in 0..LongAgo BY <1>1, Table DEF Tick, IInv, TypeOK
  <2> QED BY <1>1, <2>1 DEF Tick, IInv, TypeOK, StopSafe, Alone, Chosen, handshake, brightness, supply
<1>2. CASE Battery
  BY <1>2 DEF Battery, IInv, TypeOK, StopSafe, Alone, Chosen, selection, handshake, brightness
<1>3. CASE UNCHANGED vars
  BY <1>3 DEF vars, IInv, TypeOK, StopSafe, Alone, Chosen, selection, handshake, brightness, supply
<1> QED
  BY <1>1, <1>2, <1>3, EventThreadInv, EffectsThreadInv, CommandInv, EffectsStartInv DEF Next

(* Index, levels and program counters keep to their ranges: no effect is   *)
(* looked up at an index outside the table (led.c:599 would let one pass)  *)
(* and no level is shifted by more than 7 bits (cmd-bright.c:21).          *)
THEOREM TypeCorrect == Spec => []TypeOK
<1>1. IInv => TypeOK BY DEF IInv
<1> QED BY InitInv, NextInv, <1>1, PTL DEF Spec

(* The two flags of led.c:78, 728-736 and 811 are enough: the tests drive  *)
(* the LEDs only when no effects thread does, and a new effects thread     *)
(* never meets a request for the one before it.                            *)
THEOREM StopIsSafe == Spec => []StopSafe
<1>1. IInv => StopSafe BY DEF IInv
<1> QED BY InitInv, NextInv, <1>1, PTL DEF Spec
=============================================================================
