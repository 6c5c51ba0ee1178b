-------------------------------- MODULE Radio --------------------------------
(***************************************************************************)
(* The radio of a cube (src/radio.c): threads take turns, under a mutex,   *)
(* to turn the transceiver round, send one packet and sleep until the      *)
(* interrupt of its completion, while the event thread unloads the packets *)
(* that come in, without the mutex.  One interrupt line serves both ends:  *)
(* what its edge means depends on radio->mode at that moment.              *)
(*                                                                         *)
(* The watchdog is part of the picture.  The event thread feeds it in      *)
(* handle_chargecheck_timeout, which then needs the radio for a moment:    *)
(* once a sender sleeps for ever, so does the event thread, and the        *)
(* watchdog resets the cube.                                               *)
(***************************************************************************)
EXTENDS FiniteSets

CONSTANTS
  Senders,       (* the threads that send, apart from the event thread     *)
  Events,        (* the event thread                                       *)
  None

ASSUME RadioAssumption == Events \notin Senders /\ None \notin Senders \cup {Events}

Threads == Senders \cup {Events}

VARIABLES
  mode,          (* radio->mode, "rx" or "tx"                              *)
  ref,           (* radio->thread, the thread to resume                    *)
  owner,         (* who holds radio->radio_mutex                           *)
  flag,          (* rf_pkt_rdy is pending                                  *)
  pc,            (* where each thread is                                   *)
  chip,          (* the transceiver's mode (RADIO_OpMode)                  *)
  dio,           (* what drives the interrupt line (RADIO_DioMapping1)     *)
  ready,         (* PayloadReady and CrcOk: a received packet is in the FIFO *)
  fifo,          (* the packet to send: "empty", "loaded" or "sent"        *)
  fed            (* has the watchdog been fed in its current period?       *)

vars == <<mode, ref, owner, flag, pc, chip, dio, ready, fifo, fed>>
transceiver == <<chip, dio, ready, fifo>>

-----------------------------------------------------------------------------
(* radio_handle_interrupt runs on the rising edge of the line, in whatever *)
(* step causes it, ahead of every thread.  Resuming no thread does nothing. *)

Line(d, r, f) == (d = "rx" /\ r) \/ (d = "tx" /\ f = "sent")
Edge == ~Line(dio, ready, fifo) /\ Line(dio', ready', fifo')

Interrupt(pcs) ==
  IF Edge /\ mode = "tx"
  THEN /\ pc' = [t \in Threads |-> IF t = ref THEN "woken" ELSE pcs[t]]
       /\ ref' = None
       /\ UNCHANGED flag
  ELSE /\ pc' = pcs
       /\ flag' = (flag \/ Edge)
       /\ UNCHANGED ref

Goto(t, l) == [pc EXCEPT ![t] = l]

-----------------------------------------------------------------------------
(* The transceiver.                                                        *)

Receive ==
  /\ chip = "rx" /\ ~ready
  /\ ready' = TRUE
  /\ UNCHANGED <<chip, dio, fifo>>
  /\ Interrupt(pc)
  /\ UNCHANGED <<mode, owner, fed>>

PacketSent ==
  /\ chip = "tx" /\ fifo = "loaded"
  /\ fifo' = "sent"
  /\ UNCHANGED <<chip, dio, ready>>
  /\ Interrupt(pc)
  /\ UNCHANGED <<mode, owner, fed>>

-----------------------------------------------------------------------------
(* radioAcquire, radioSend and radioRelease.                               *)

(* Mutant: a caller of radioSend forgets radioAcquire.                     *)
AcquireNothing(t) ==
  /\ pc[t] = "wait"
  /\ owner' = t
  /\ pc' = Goto(t, "entered")
  /\ UNCHANGED <<mode, ref, flag, transceiver, fed>>

Acquire(t) ==
  /\ pc[t] = "wait" /\ owner = None
  /\ owner' = t
  /\ pc' = Goto(t, "entered")
  /\ UNCHANGED <<mode, ref, flag, transceiver, fed>>

ModeTx(t) ==
  /\ pc[t] = "entered"
  /\ mode' = "tx"
  /\ pc' = Goto(t, "turning")
  /\ UNCHANGED <<ref, owner, flag, transceiver, fed>>

(* A packet that came in before this may survive, or not.                  *)
OpModeTx(t) ==
  /\ pc[t] = "turning"
  /\ chip' = "tx"
  /\ ready' \in {ready, FALSE}
  /\ UNCHANGED <<dio, fifo>>
  /\ Interrupt(Goto(t, "mapping"))
  /\ UNCHANGED <<mode, owner, fed>>

MapTx(t) ==
  /\ pc[t] = "mapping"
  /\ dio' = "tx"
  /\ UNCHANGED <<chip, ready, fifo>>
  /\ Interrupt(Goto(t, "loading"))
  /\ UNCHANGED <<mode, owner, fed>>

Load(t) ==
  /\ pc[t] = "loading"
  /\ fifo' = "loaded"
  /\ UNCHANGED <<chip, dio, ready>>
  /\ Interrupt(Goto(t, "loaded"))
  /\ UNCHANGED <<mode, owner, fed>>

(* The packet may be on the air, and gone, before its thread is asleep.    *)
Suspend(t) ==
  /\ pc[t] = "loaded"
  /\ ref' = t
  /\ pc' = Goto(t, "asleep")
  /\ UNCHANGED <<mode, owner, flag, transceiver, fed>>

(* The pump, and RxRestart to "prevent RX deadlock".                       *)
RxRestart(t) ==
  /\ pc[t] = "woken"
  /\ ready' = FALSE
  /\ UNCHANGED <<chip, dio, fifo>>
  /\ Interrupt(Goto(t, "restarted"))
  /\ UNCHANGED <<mode, owner, fed>>

(* Mutant: radio->mode keeps saying that the radio transmits.              *)
ModeStuck(t) ==
  /\ pc[t] = "restarted"
  /\ pc' = Goto(t, "returning")
  /\ UNCHANGED <<mode, ref, owner, flag, transceiver, fed>>

ModeRx(t) ==
  /\ pc[t] = "restarted"
  /\ mode' = "rx"
  /\ pc' = Goto(t, "returning")
  /\ UNCHANGED <<ref, owner, flag, transceiver, fed>>

OpModeRx(t) ==
  /\ pc[t] = "returning"
  /\ chip' = "rx" /\ fifo' = "empty"
  /\ UNCHANGED <<dio, ready>>
  /\ Interrupt(Goto(t, "remapping"))
  /\ UNCHANGED <<mode, owner, fed>>

MapRx(t) ==
  /\ pc[t] = "remapping"
  /\ dio' = "rx"
  /\ UNCHANGED <<chip, ready, fifo>>
  /\ Interrupt(Goto(t, "leaving"))
  /\ UNCHANGED <<mode, owner, fed>>

Release(t) ==
  /\ pc[t] = "leaving"
  /\ owner' = None
  /\ pc' = Goto(t, "idle")
  /\ UNCHANGED <<mode, ref, flag, transceiver, fed>>

Send(t) ==
  \/ Acquire(t) \/ ModeTx(t) \/ OpModeTx(t) \/ MapTx(t) \/ Load(t) \/ Suspend(t)
  \/ RxRestart(t) \/ ModeRx(t) \/ OpModeRx(t) \/ MapRx(t) \/ Release(t)

(* A thread wants to send; the event thread does to ping its neighbours.   *)
Request(t) ==
  /\ pc[t] = "idle"
  /\ pc' = Goto(t, "wait")
  /\ UNCHANGED <<mode, ref, owner, flag, transceiver, fed>>

-----------------------------------------------------------------------------
(* radio_unload_packet.                                                    *)

Dispatch ==
  /\ pc[Events] = "idle" /\ flag
  /\ flag' = FALSE
  /\ pc' = Goto(Events, "unloading")
  /\ UNCHANGED <<mode, ref, owner, transceiver, fed>>

(* The event is stale, or the CRC was bad: the FIFO is left as it is.      *)
CheckCrc ==
  /\ pc[Events] = "unloading"
  /\ pc' = Goto(Events, IF ready THEN "reading" ELSE "idle")
  /\ UNCHANGED <<mode, ref, owner, flag, transceiver, fed>>

(* Mutant: a packet's handler answers without radioAcquire.                *)
UnloadAnswering ==
  /\ pc[Events] = "reading"
  /\ ready' = FALSE
  /\ UNCHANGED <<chip, dio, fifo>>
  /\ \E l \in {"idle", "entered"} : Interrupt(Goto(Events, l))
  /\ UNCHANGED <<mode, owner, fed>>

(* Without the mutex the drained FIFO may be the one a sender has loaded.  *)
(* The packet's handler may send an answer.                                *)
Unload ==
  /\ pc[Events] = "reading"
  /\ ready' = FALSE
  /\ \/ UNCHANGED fifo
     \/ fifo = "loaded" /\ fifo' = "empty"
  /\ UNCHANGED <<chip, dio>>
  /\ \E l \in {"idle", "wait"} : Interrupt(Goto(Events, l))
  /\ UNCHANGED <<mode, owner, fed>>

(* handle_chargecheck_timeout: wdogPing, then the pump, which needs the    *)
(* radio.                                                                  *)
WdogPing ==
  /\ pc[Events] = "idle"
  /\ fed' = TRUE
  /\ pc' = Goto(Events, "pump")
  /\ UNCHANGED <<mode, ref, owner, flag, transceiver>>

(* Mutant: the pump is not needed any more, as its comment has it.         *)
PumpNothing ==
  /\ pc[Events] = "pump"
  /\ pc' = Goto(Events, "idle")
  /\ UNCHANGED <<mode, ref, owner, flag, transceiver, fed>>

Pump ==
  /\ pc[Events] = "pump" /\ owner = None
  /\ pc' = Goto(Events, "idle")
  /\ UNCHANGED <<mode, ref, owner, flag, transceiver, fed>>

-----------------------------------------------------------------------------
(* The watchdog, and the reset that radioStart follows.                    *)

Period ==
  /\ fed
  /\ fed' = FALSE
  /\ UNCHANGED <<mode, ref, owner, flag, pc, transceiver>>

Reset ==
  /\ ~fed
  /\ mode' = "rx" /\ ref' = None /\ owner' = None /\ flag' = FALSE
  /\ pc' = [t \in Threads |-> "idle"]
  /\ chip' = "rx" /\ dio' = "rx" /\ ready' = FALSE /\ fifo' = "empty"
  /\ fed' = TRUE

Init ==
  /\ mode = "rx" /\ ref = None /\ owner = None /\ flag = FALSE
  /\ pc = [t \in Threads |-> "idle"]
  /\ chip = "rx" /\ dio = "rx" /\ ready = FALSE /\ fifo = "empty"
  /\ fed = TRUE

Next ==
  \/ Receive \/ PacketSent
  \/ \E t \in Threads : Request(t) \/ Send(t)
  \/ Dispatch \/ CheckCrc \/ Unload \/ WdogPing \/ Pump
  \/ Period \/ Reset

Spec == Init /\ [][Next]_vars

(* Threads run on, packets get sent, and the virtual timer of the charge   *)
(* check and the watchdog's clock do not stop.  Nothing need be received,  *)
(* and no thread need ever send.                                           *)
Fairness ==
  /\ \A t \in Threads : WF_vars(Send(t))
  /\ WF_vars(PacketSent) /\ WF_vars(Dispatch \/ CheckCrc \/ Unload \/ Pump)
  /\ SF_vars(WdogPing) /\ WF_vars(Period) /\ WF_vars(Reset)

FairSpec == Spec /\ Fairness

-----------------------------------------------------------------------------
Inside == {"entered", "turning", "mapping", "loading", "loaded", "asleep", "woken",
           "restarted", "returning", "remapping", "leaving"}
Unloading == {"unloading", "reading", "pump"}

(* The mutex is held by the one thread between radioAcquire and            *)
(* radioRelease, and the thread to resume is the one that sleeps.          *)
TypeOK ==
  /\ mode \in {"rx", "tx"} /\ chip \in {"rx", "tx"} /\ dio \in {"rx", "tx"}
  /\ ref \in Threads \cup {None} /\ owner \in Threads \cup {None}
  /\ flag \in BOOLEAN /\ ready \in BOOLEAN /\ fed \in BOOLEAN
  /\ pc \in [Threads -> {"idle", "wait"} \cup Inside \cup Unloading]
  /\ fifo \in {"empty", "loaded", "sent"}
  /\ \A t \in Threads : (owner = t <=> pc[t] \in Inside) /\ (ref = t <=> pc[t] = "asleep")

(* A thread goes on from its sleep only when its own packet has been sent: *)
(* an interrupt for a received packet never wakes it (radio.c:621-633).    *)
WokenWhenSent == \A t \in Threads : pc[t] = "woken" => fifo = "sent"

(* The radio never goes deaf: whenever no thread is using it, a packet     *)
(* that waits in the FIFO has its event pending, although the interrupt of *)
(* one that comes in while radioSend turns the radio round is lost: the    *)
(* packet is dropped with it (radio.c:735-737), or the line rises again    *)
(* when it is mapped back (radio.c:752-757).                               *)
NeverDeaf == ready /\ owner = None /\ pc[Events] \notin {"unloading", "reading"} => flag

(* Whoever takes the radio gives it back, or the watchdog resets the cube. *)
(* The interrupt that comes before the sleep (radio.c:721-733) is lost,    *)
(* and the sender with it.                                                 *)
Released == \A t \in Threads : owner = t ~> owner # t
=============================================================================
