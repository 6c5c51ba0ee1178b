----------------------------- MODULE RadioProofs -----------------------------
(***************************************************************************)
(* Proofs about Radio, for any set of senders.  The inductive invariant    *)
(* IInv says where mode, the transceiver and the interrupt line are at     *)
(* each point of radioSend (InPhase) and while nobody sends (AtRest), and  *)
(* that the line is never up unnoticed while it reports received packets   *)
(* (Noticed); WokenWhenSent and NeverDeaf follow.                          *)
(***************************************************************************)
EXTENDS Radio, TLAPS

ModeIsTx == {"turning", "mapping", "loading", "loaded", "asleep", "woken", "restarted"}
ChipIsTx == {"mapping", "loading", "loaded", "asleep", "woken", "restarted", "returning"}
LineIsTx == {"loading", "loaded", "asleep", "woken", "restarted", "returning", "remapping"}
FifoInUse == {"loaded", "asleep", "woken", "restarted", "returning"}

InPhase(t) ==
  /\ mode = "tx" <=> pc[t] \in ModeIsTx
  /\ chip = "tx" <=> pc[t] \in ChipIsTx
  /\ dio = "tx" <=> pc[t] \in LineIsTx
  /\ fifo # "empty" => pc[t] \in FifoInUse
  /\ pc[t] = "woken" => fifo = "sent"

AtRest == mode = "rx" /\ chip = "rx" /\ dio = "rx" /\ fifo = "empty"

Noticed ==
  ready /\ dio = "rx" /\ mode = "rx" => flag \/ pc[Events] \in {"unloading", "reading"}

IInv ==
  /\ TypeOK
  /\ \A t \in Threads : owner = t => InPhase(t)
  /\ owner = None => AtRest
  /\ Noticed

-----------------------------------------------------------------------------
USE DEF Inside, Unloading, ModeIsTx, ChipIsTx, LineIsTx, FifoInUse, Goto

LEMMA InitInv == ASSUME RadioAssumption PROVE Init => IInv
BY DEF RadioAssumption, Threads, Init, IInv, TypeOK, AtRest, Noticed, InPhase

(* A thread that sleeps holds the mutex, and its radio transmits.          *)
LEMMA SleeperOwns ==
  ASSUME RadioAssumption, IInv
  PROVE  ref # None => ref \in Threads /\ owner = ref /\ pc[ref] = "asleep" /\ dio = "tx"
<1> SUFFICES ASSUME ref # None
             PROVE  ref \in Threads /\ owner = ref /\ pc[ref] = "asleep" /\ dio = "tx"
  OBVIOUS
<1>1. ref \in Threads /\ pc[ref] = "asleep"
  BY DEF IInv, TypeOK
<1>2. owner = ref
  BY <1>1 DEF IInv, TypeOK
<1> QED
  BY <1>1, <1>2 DEF IInv, InPhase

(* A packet that comes in resumes nobody.                                  *)
LEMMA ReceiveInv == ASSUME RadioAssumption, IInv, Receive PROVE IInv'
<1>1. ~ready /\ ready' /\ UNCHANGED <<chip, dio, fifo, mode, owner, fed>>
  BY DEF Receive
<1>2. Edge <=> dio = "rx"
  BY <1>1 DEF Edge, Line, IInv, TypeOK
<1>3. Edge => ref = None
  BY <1>2, SleeperOwns
<1>4. pc' = pc /\ ref' = ref /\ flag' \in BOOLEAN /\ (dio = "rx" /\ mode = "rx" => flag')
  <2>1. CASE Edge /\ mode = "tx"
    <3>1. pc' = [t \in Threads |-> IF t = None THEN "woken" ELSE pc[t]] /\ ref' = None /\ flag' = flag
      BY <1>3, <2>1 DEF Receive, Interrupt
    <3>2. pc' = pc
      BY <3>1 DEF RadioAssumption, Threads, IInv, TypeOK
    <3> QED
      BY <1>3, <2>1, <3>1, <3>2 DEF IInv, TypeOK
  <2>2. CASE ~(Edge /\ mode = "tx")
    <3>1. pc' = pc /\ ref' = ref /\ flag' = (flag \/ Edge)
      BY <2>2 DEF Receive, Interrupt
    <3> QED
      BY <1>2, <3>1 DEF IInv, TypeOK
  <2> QED
    BY <2>1, <2>2
<1>5. TypeOK'
  BY <1>1, <1>4 DEF IInv, TypeOK
<1>6. (\A t \in Threads : owner = t => InPhase(t))' /\ (owner = None => AtRest)'
  BY <1>1, <1>4 DEF IInv, InPhase, AtRest
<1>7. Noticed'
  BY <1>1, <1>4 DEF Noticed
<1> QED
  BY <1>5, <1>6, <1>7 DEF IInv

(* The packet of the owner has been sent: it is resumed if it sleeps.      *)
LEMMA PacketSentInv == ASSUME RadioAssumption, IInv, PacketSent PROVE IInv'
<1>1. chip = "tx" /\ fifo = "loaded" /\ fifo' = "sent" /\ UNCHANGED <<chip, dio, ready, mode, owner, fed>>
  BY DEF PacketSent
<1>2. owner \in Threads /\ InPhase(owner)
  BY <1>1 DEF IInv, TypeOK, AtRest
<1>3. /\ dio = "tx" /\ pc[owner] \in {"loaded", "asleep", "restarted", "returning"}
  BY <1>1, <1>2 DEF InPhase
<1>4. Edge
  BY <1>1, <1>3 DEF Edge, Line
<1>5. ref # None => ref = owner /\ pc[owner] = "asleep" /\ mode = "tx"
  BY <1>2, SleeperOwns DEF InPhase
<1>6. ref = None => pc[owner] # "asleep"
  BY <1>2 DEF RadioAssumption, Threads, IInv, TypeOK
<1>7. pc' = [pc EXCEPT ![owner] = IF ref = None THEN @ ELSE "woken"] /\ ref' = None /\ flag' \in BOOLEAN
  <2>1. CASE mode = "tx"
    <3>1. pc' = [t \in Threads |-> IF t = ref THEN "woken" ELSE pc[t]] /\ ref' = None /\ flag' = flag
      BY <1>4, <2>1 DEF PacketSent, Interrupt
    <3>2. \A t \in Threads : t # None
      BY DEF RadioAssumption, Threads
    <3>3. pc \in [Threads -> {"idle", "wait"} \cup Inside \cup Unloading] /\ flag \in BOOLEAN
      BY DEF IInv, TypeOK
    <3>4. CASE ref = None
      BY <1>2, <3>1, <3>2, <3>3, <3>4
    <3>5. CASE ref # None
      BY <1>2, <1>5, <3>1, <3>3, <3>5
    <3> QED
      BY <3>4, <3>5
  <2>2. CASE mode # "tx"
    <3>1. pc' = pc /\ ref' = ref /\ flag' = (flag \/ Edge) /\ ref = None
      BY <1>5, <2>2 DEF PacketSent, Interrupt
    <3> QED
      BY <1>2, <3>1 DEF IInv, TypeOK
  <2> QED
    BY <2>1, <2>2
<1>8. pc \in [Threads -> {"idle", "wait"} \cup Inside \cup Unloading]
  BY DEF IInv, TypeOK
<1>9. /\ \A t \in Threads : t # owner => pc'[t] = pc[t]
      /\ pc'[owner] = IF ref = None THEN pc[owner] ELSE "woken"
      /\ pc' \in [Threads -> {"idle", "wait"} \cup Inside \cup Unloading]
  BY <1>2, <1>7, <1>8
<1>10. TypeOK'
  <2>1. \A t \in Threads : (owner = t <=> pc[t] \in Inside)'
    BY <1>1, <1>3, <1>9 DEF IInv, TypeOK
  <2>2. \A t \in Threads : (ref = t <=> pc[t] = "asleep")'
    <3>1. \A t \in Threads : t # owner => pc[t] # "asleep"
      BY DEF IInv, TypeOK
    <3> QED
      BY <1>6, <1>7, <1>9, <3>1 DEF RadioAssumption, Threads
  <2> QED
    BY <1>1, <1>7, <1>9, <2>1, <2>2 DEF IInv, TypeOK
<1>11. InPhase(owner)'
  BY <1>1, <1>2, <1>3, <1>5, <1>9 DEF InPhase
<1>12. (owner = None => AtRest)' /\ Noticed'
  BY <1>1, <1>2, <1>3 DEF RadioAssumption, Threads, Noticed
<1> QED
  BY <1>1, <1>10, <1>11, <1>12 DEF IInv

LEMMA AcquireInv == ASSUME RadioAssumption, IInv, NEW t \in Threads, Acquire(t) PROVE IInv'
BY DEF RadioAssumption, Threads, IInv, TypeOK, AtRest, Noticed, InPhase,
       Acquire, transceiver

LEMMA ModeTxInv == ASSUME RadioAssumption, IInv, NEW t \in Threads, ModeTx(t) PROVE IInv'
BY DEF RadioAssumption, Threads, IInv, TypeOK, AtRest, Noticed, InPhase,
       ModeTx, transceiver

(* Turning the radio round makes the line fall, if anything.               *)
LEMMA OpModeTxInv == ASSUME RadioAssumption, IInv, NEW t \in Threads, OpModeTx(t) PROVE IInv'
<1>1. owner = t /\ InPhase(t) /\ mode = "tx" /\ dio = "rx" /\ fifo = "empty"
  BY DEF IInv, TypeOK, InPhase, OpModeTx
<1>2. ~Edge
  BY <1>1 DEF Edge, Line, OpModeTx
<1>3. /\ pc' = [pc EXCEPT ![t] = "mapping"]
      /\ chip' = "tx" /\ ready' \in {ready, FALSE}
      /\ UNCHANGED <<mode, ref, owner, flag, dio, fifo, fed>>
  <2>1. Interrupt(Goto(t, "mapping")) => pc' = Goto(t, "mapping") /\ ref' = ref /\ flag' = (flag \/ Edge)
    BY <1>2 DEF Interrupt
  <2>2. flag' = flag
    BY <1>2, <2>1 DEF OpModeTx, IInv, TypeOK
  <2> QED
    BY <2>1, <2>2 DEF OpModeTx
<1>4. TypeOK'
  <2>1. /\ mode' \in {"rx", "tx"} /\ chip' \in {"rx", "tx"} /\ dio' \in {"rx", "tx"}
        /\ ref' \in Threads \cup {None} /\ owner' \in Threads \cup {None}
        /\ fifo' \in {"empty", "loaded", "sent"}
    BY <1>3 DEF IInv, TypeOK
  <2>2. flag' \in BOOLEAN /\ ready' \in BOOLEAN /\ fed' \in BOOLEAN
    BY <1>3 DEF IInv, TypeOK
  <2>3. pc' \in [Threads -> {"idle", "wait"} \cup Inside \cup Unloading]
    BY <1>3 DEF IInv, TypeOK
  <2>4. \A u \in Threads : (owner = u <=> pc[u] \in Inside)' /\ (ref = u <=> pc[u] = "asleep")'
    BY <1>1, <1>3 DEF IInv, TypeOK, OpModeTx
  <2> QED
    BY <2>1, <2>2, <2>3, <2>4 DEF TypeOK
<1>5. (\A u \in Threads : owner = u => InPhase(u))'
  BY <1>1, <1>3 DEF IInv, TypeOK, InPhase
<1>6. (owner = None => AtRest)' /\ Noticed'
  BY <1>1, <1>3 DEF RadioAssumption, Threads, Noticed
<1> QED
  BY <1>4, <1>5, <1>6 DEF IInv

LEMMA MapTxInv == ASSUME RadioAssumption, IInv, NEW t \in Threads, MapTx(t) PROVE IInv'
BY DEF RadioAssumption, Threads, IInv, TypeOK, AtRest, Noticed, InPhase,
       MapTx, transceiver, Interrupt, Edge, Line

LEMMA LoadInv == ASSUME RadioAssumption, IInv, NEW t \in Threads, Load(t) PROVE IInv'
BY DEF RadioAssumption, Threads, IInv, TypeOK, AtRest, Noticed, InPhase,
       Load, transceiver, Interrupt, Edge, Line

LEMMA SuspendInv == ASSUME RadioAssumption, IInv, NEW t \in Threads, Suspend(t) PROVE IInv'
BY DEF RadioAssumption, Threads, IInv, TypeOK, AtRest, Noticed, InPhase,
       Suspend, transceiver

LEMMA RxRestartInv == ASSUME RadioAssumption, IInv, NEW t \in Threads, RxRestart(t) PROVE IInv'
<1>1. ~Edge
  BY DEF RxRestart, Edge, Line
<1>2. /\ pc' = [pc EXCEPT ![t] = "restarted"] /\ ready' = FALSE
      /\ UNCHANGED <<mode, ref, owner, flag, chip, dio, fifo, fed>>
  <2>1. Interrupt(Goto(t, "restarted")) => pc' = Goto(t, "restarted") /\ ref' = ref /\ flag' = (flag \/ Edge)
    BY <1>1 DEF Interrupt
  <2> QED
    BY <1>1, <2>1 DEF RxRestart, IInv, TypeOK
<1>3. owner = t /\ InPhase(t) /\ pc[t] = "woken"
  BY DEF RxRestart, IInv, TypeOK
<1>4. TypeOK'
  <2>1. \A u \in Threads : (owner = u <=> pc[u] \in Inside)' /\ (ref = u <=> pc[u] = "asleep")'
    BY <1>2, <1>3 DEF IInv, TypeOK
  <2>2. pc' \in [Threads -> {"idle", "wait"} \cup Inside \cup Unloading]
    BY <1>2 DEF IInv, TypeOK
  <2> QED
    BY <1>2, <2>1, <2>2 DEF IInv, TypeOK
<1>5. (\A u \in Threads : owner = u => InPhase(u))'
  BY <1>2, <1>3 DEF IInv, TypeOK, InPhase
<1>6. (owner = None => AtRest)' /\ Noticed'
  BY <1>2, <1>3 DEF RadioAssumption, Threads, Noticed
<1> QED
  BY <1>4, <1>5, <1>6 DEF IInv

LEMMA ModeRxInv == ASSUME RadioAssumption, IInv, NEW t \in Threads, ModeRx(t) PROVE IInv'
BY DEF RadioAssumption, Threads, IInv, TypeOK, AtRest, Noticed, InPhase,
       ModeRx, transceiver

LEMMA OpModeRxInv == ASSUME RadioAssumption, IInv, NEW t \in Threads, OpModeRx(t) PROVE IInv'
BY DEF RadioAssumption, Threads, IInv, TypeOK, AtRest, Noticed, InPhase,
       OpModeRx, transceiver, Interrupt, Edge, Line

LEMMA MapRxInv == ASSUME RadioAssumption, IInv, NEW t \in Threads, MapRx(t) PROVE IInv'
BY DEF RadioAssumption, Threads, IInv, TypeOK, AtRest, Noticed, InPhase,
       MapRx, transceiver, Interrupt, Edge, Line

LEMMA ReleaseInv == ASSUME RadioAssumption, IInv, NEW t \in Threads, Release(t) PROVE IInv'
BY DEF RadioAssumption, Threads, IInv, TypeOK, AtRest, Noticed, InPhase,
       Release, transceiver

LEMMA RequestInv == ASSUME RadioAssumption, IInv, NEW t \in Threads, Request(t) PROVE IInv'
BY DEF RadioAssumption, Threads, IInv, TypeOK, AtRest, Noticed, InPhase,
       Request, transceiver

LEMMA DispatchInv == ASSUME RadioAssumption, IInv, Dispatch PROVE IInv'
BY DEF RadioAssumption, Threads, IInv, TypeOK, AtRest, Noticed, InPhase,
       Dispatch, transceiver

LEMMA CheckCrcInv == ASSUME RadioAssumption, IInv, CheckCrc PROVE IInv'
BY DEF RadioAssumption, Threads, IInv, TypeOK, AtRest, Noticed, InPhase,
       CheckCrc, transceiver

(* Draining the FIFO makes the line fall, if anything.                     *)
LEMMA UnloadInv == ASSUME RadioAssumption, IInv, Unload PROVE IInv'
<1>1. /\ pc[Events] = "reading" /\ ~ready' /\ UNCHANGED <<chip, dio, mode, owner, fed>>
      /\ fifo' = fifo \/ (fifo = "loaded" /\ fifo' = "empty")
  BY DEF Unload
<1>2. ~Edge
  BY <1>1 DEF Edge, Line
<1>3. PICK l \in {"idle", "wait"} : pc' = [pc EXCEPT ![Events] = l] /\ ref' = ref /\ flag' = (flag \/ Edge)
  BY <1>2 DEF Unload, Interrupt
<1>4. /\ Events \in Threads /\ owner # Events /\ ref # Events
      /\ pc \in [Threads -> {"idle", "wait"} \cup Inside \cup Unloading]
  BY <1>1 DEF Threads, IInv, TypeOK
<1>5. /\ pc' \in [Threads -> {"idle", "wait"} \cup Inside \cup Unloading]
      /\ pc'[Events] = l /\ \A t \in Threads : t # Events => pc'[t] = pc[t]
  BY <1>3, <1>4
<1>6. TypeOK'
  <2>1. \A t \in Threads : (owner = t <=> pc[t] \in Inside)' /\ (ref = t <=> pc[t] = "asleep")'
    BY <1>1, <1>3, <1>4, <1>5 DEF IInv, TypeOK
  <2>2. flag' \in BOOLEAN /\ ready' \in BOOLEAN
    BY <1>2, <1>3 DEF Unload, IInv, TypeOK
  <2> QED
    BY <1>1, <1>3, <1>5, <2>1, <2>2 DEF IInv, TypeOK
<1>7. (\A t \in Threads : owner = t => InPhase(t))' /\ (owner = None => AtRest)'
  BY <1>1, <1>4, <1>5 DEF IInv, InPhase, AtRest
<1>8. Noticed'
  BY <1>1 DEF Noticed
<1> QED
  BY <1>6, <1>7, <1>8 DEF IInv

LEMMA WdogPingInv == ASSUME RadioAssumption, IInv, WdogPing PROVE IInv'
BY DEF RadioAssumption, Threads, IInv, TypeOK, AtRest, Noticed, InPhase,
       WdogPing, transceiver

LEMMA PumpInv == ASSUME RadioAssumption, IInv, Pump PROVE IInv'
BY DEF RadioAssumption, Threads, IInv, TypeOK, AtRest, Noticed, InPhase,
       Pump, transceiver

LEMMA PeriodInv == ASSUME RadioAssumption, IInv, Period PROVE IInv'
BY DEF RadioAssumption, Threads, IInv, TypeOK, AtRest, Noticed, InPhase,
       Period, transceiver

LEMMA ResetInv == ASSUME RadioAssumption, IInv, Reset PROVE IInv'
BY DEF RadioAssumption, Threads, IInv, TypeOK, AtRest, Noticed, InPhase,
       Reset, transceiver
-----------------------------------------------------------------------------
LEMMA StutterInv == ASSUME IInv, UNCHANGED vars PROVE IInv'
BY DEF vars, IInv, TypeOK, AtRest, Noticed, InPhase

LEMMA NextInv == ASSUME RadioAssumption, IInv, [Next]_vars PROVE IInv'
<1>1. CASE Receive
  BY <1>1, ReceiveInv
<1>2. CASE PacketSent
  BY <1>2, PacketSentInv
<1>3. ASSUME NEW t \in Threads, Request(t) \/ Send(t) PROVE IInv'
  BY <1>3, RequestInv, AcquireInv, ModeTxInv, OpModeTxInv, MapTxInv, LoadInv, SuspendInv,
     RxRestartInv, ModeRxInv, OpModeRxInv, MapRxInv, ReleaseInv DEF Send
<1>4. CASE Dispatch \/ CheckCrc \/ Unload \/ WdogPing \/ Pump
  BY <1>4, DispatchInv, CheckCrcInv, UnloadInv, WdogPingInv, PumpInv
<1>5. CASE Period \/ Reset
  BY <1>5, PeriodInv, ResetInv
<1>6. CASE UNCHANGED vars
  BY <1>6, StutterInv
<1> QED
  BY <1>1, <1>2, <1>3, <1>4, <1>5, <1>6 DEF Next

LEMMA Invariance == ASSUME RadioAssumption PROVE Spec => []IInv
<1>1. Init => IInv
  BY InitInv
<1>2. IInv /\ [Next]_vars => IInv'
  BY NextInv
<1> QED
  BY <1>1, <1>2, PTL DEF Spec

(* The mutex is held by the one thread inside radioSend and the thread to  *)
(* resume is the one that sleeps, for any number of senders                *)
(* (radio.c:440-446, 731-733).                                             *)
THEOREM TypeCorrect == ASSUME RadioAssumption PROVE Spec => []TypeOK
<1>1. IInv => TypeOK
  BY DEF IInv
<1> QED
  BY <1>1, Invariance, PTL

(* No sender leaves its sleep before its own packet has been sent: the     *)
(* received packets' interrupts never wake it (radio.c:621-633).           *)
THEOREM SleepsUntilSent == ASSUME RadioAssumption PROVE Spec => []WokenWhenSent
<1>1. IInv => WokenWhenSent
  BY DEF IInv, TypeOK, InPhase, WokenWhenSent
<1> QED
  BY <1>1, Invariance, PTL

(* The radio never goes deaf: a received packet always has its event       *)
(* pending, or is being unloaded, once no thread sends                     *)
(* (radio.c:357-434, 621-633, 681-757).                                    *)
THEOREM HearsAgain == ASSUME RadioAssumption PROVE Spec => []NeverDeaf
<1>1. IInv => NeverDeaf
  BY DEF IInv, AtRest, Noticed, NeverDeaf
<1> QED
  BY <1>1, Invariance, PTL
=============================================================================
