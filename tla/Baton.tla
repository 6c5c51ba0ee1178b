-------------------------------- MODULE Baton --------------------------------
(***************************************************************************)
(* The baton (src/baton.c): a token the cubes hand each other by radio, so *)
(* that one cube at a time is "it".  Whackamole (src/fx/fx-wmole.c) plays  *)
(* with it; a cube that runs another effect hands it on after half a       *)
(* second.                                                                 *)
(*                                                                         *)
(* Three threads of a cube share its BatonState without a lock: the event  *)
(* thread, which runs handleRadioBaton, the baton thread and the effects   *)
(* thread.  The event thread preempts the other two between any two of     *)
(* their accesses, so a check of the state and the packet sent because of  *)
(* it are two steps.  Packets are broadcast, and any cube may miss any of  *)
(* them.                                                                   *)
(*                                                                         *)
(* Time passes in ticks of 100 ms.  The delays the protocol relies on are  *)
(* modelled, as lower bounds: the half second before a baton is passed on, *)
(* the wait for an answer and the retry interval.  announce_time and the   *)
(* timers of Whackamole are not: what waits for them may happen any time.  *)
(***************************************************************************)
EXTENDS Integers, FiniteSets

CONSTANTS
  N,             (* cubes, with the addresses 1..N                         *)
  InitMax,       (* MAX_ACTUAL_CUBES                                       *)
  Announced,     (* the numbers of cubes the master badge announces        *)
  AckDup,        (* BATON_RADIO_ACK_DUP                                    *)
  MaxRetries,    (* BATON_MAX_AUTORETRIES                                  *)
  FxRetries,     (* resends by Whackamole before it takes another address  *)
  Cooldown,      (* the half second before a baton is passed on, in ticks  *)
  PassWait,      (* BATON_PASS_WAIT, in ticks                              *)
  Holders,       (* the cubes the master badge gave a baton                *)
  Players,       (* the cubes that start out playing Whackamole            *)
  Losses         (* deliveries that may be lost                            *)

ASSUME BatonAssumption ==
  /\ N \in 2..254 /\ InitMax \in 0..255 /\ Announced \subseteq 0..255
  /\ AckDup \in Nat \ {0} /\ MaxRetries \in Nat /\ FxRetries \in Nat
  /\ Cooldown \in Nat /\ PassWait \in Nat
  /\ Holders \subseteq 1..N /\ Players \subseteq 1..N /\ Losses \in Nat

Cube == 1..N
Caller == {"baton", "fx"}          (* threads that call passBaton           *)
None == [type |-> "none"]
Holder == [type |-> "holder"]      (* its address never is the receiver's   *)
Ack == [type |-> "ack"]            (* its address is never looked at        *)
Pass(a) == [type |-> "pass", to |-> a]
MaxCube(n) == [type |-> "maxcube", max |-> n]
Packet == {Holder, Ack} \cup {Pass(a) : a \in 0..255} \cup {MaxCube(n) : n \in Announced}

VARIABLES
  state,         (* bstate.state of each cube                              *)
  to,            (* bstate.passing_to_addr                                 *)
  retry,         (* bstate.retry_interval > 0                              *)
  uses,          (* bstate.fx_uses_baton                                   *)
  max,           (* maxActualCubes                                         *)
  inbox,         (* the packet the radio holds for the event thread        *)
  acks,          (* acknowledgements sendBatonAck has still to send        *)
  aged,          (* has a tick passed since sendBatonAck was entered?      *)
  th,            (* the program counter, retries and timer of each caller  *)
  left,          (* deliveries that may still be lost                      *)
  badge          (* the master badge, see MasterBaton                      *)

vars == <<state, to, retry, uses, max, inbox, acks, aged, th, left, badge>>

(* pc "loop" is the head of the thread's loop, where ticks delays the next *)
(* resend only.                                                            *)
Thread == [pc : {"loop", "resend", "giveup", "cooling", "beacon", "pass", "urgent", "send",
                 "wait"},
           tries : 0..(MaxRetries + FxRetries + 1), ticks : 0..(Cooldown + PassWait + 1)]

-----------------------------------------------------------------------------
(* The radio.  Any cube may miss a packet, and one whose event thread has  *)
(* not unloaded the last packet does: that is a loss too, unless the event *)
(* thread is asleep in sendBatonAck.                                       *)

Busy(d) == inbox[d] # None /\ acks[d] > 0

Broadcast(c, p) ==
  \E missed \in SUBSET {d \in Cube \ {c} : ~Busy(d)} :
    /\ {d \in Cube \ {c} : inbox[d] # None /\ ~Busy(d)} \subseteq missed
    /\ left' = left - Cardinality(missed) /\ left' >= 0
    /\ inbox' = [d \in Cube |-> IF d = c \/ d \in missed \/ Busy(d) THEN inbox[d] ELSE p]

(* handleRadioBaton of the badge.  It may miss any packet.  Of what it     *)
(* hears only baton_passing_g matters, while baton_new_random looks at it. *)
(* baton_holder_g, on which it depends whether a beacon clears it, is left *)
(* open.                                                                   *)
NoBadge == [pc |-> "off", more |-> 0, ticks |-> 0, addr |-> 0, passing |-> FALSE, silence |-> 0]
Watched == badge.pc \in {"pass", "asleep"} /\ badge.more > 0

HearBeacon ==
  \E b \in {badge.passing, FALSE} : badge' = [badge EXCEPT !.passing = b, !.silence = 0]
HearPass == Watched /\ badge' = [badge EXCEPT !.passing = TRUE]
HearAck == badge' = [badge EXCEPT !.passing = FALSE]

Overhear(p) ==
  \/ UNCHANGED badge
  \/ p = Holder /\ HearBeacon
  \/ p.type = "pass" /\ HearPass
  \/ p = Ack /\ HearAck

Transmit(c, p) == Broadcast(c, p) /\ Overhear(p)

-----------------------------------------------------------------------------
(* The event thread.                                                       *)

Delivered(c) == inbox[c] # None /\ acks[c] = 0

(* It has the highest priority of the three: the others run while it waits *)
(* for a packet or sleeps between two acknowledgements.                    *)
Preempted(c) == Delivered(c) \/ acks[c] = AckDup
Unload(c) == inbox' = [inbox EXCEPT ![c] = None]

HandleHolder(c) ==
  /\ Delivered(c) /\ inbox[c] = Holder
  /\ state' = [state EXCEPT ![c] = "not"]
  /\ Unload(c)
  /\ UNCHANGED <<to, retry, uses, max, acks, aged, th, left, badge>>

(* Mutant: the address of a pass is not looked at.                         *)
HandlePassToAny(c) ==
  /\ Delivered(c) /\ inbox[c].type = "pass"
  /\ state' = [state EXCEPT ![c] = "holding"]
  /\ acks' = [acks EXCEPT ![c] = AckDup]
  /\ Unload(c)
  /\ UNCHANGED <<to, retry, uses, max, aged, th, left, badge>>

(* A pass to another cube changes nothing.  One to this cube makes it the  *)
(* holder and keeps its event thread busy with the acknowledgements.       *)
HandlePass(c) ==
  /\ Delivered(c) /\ inbox[c].type = "pass"
  /\ IF inbox[c].to = c
     THEN /\ state' = [state EXCEPT ![c] = "holding"]
          /\ acks' = [acks EXCEPT ![c] = AckDup]
     ELSE UNCHANGED <<state, acks>>
  /\ Unload(c)
  /\ UNCHANGED <<to, retry, uses, max, aged, th, left, badge>>

SendAck(c) ==
  /\ acks[c] > 0
  /\ Transmit(c, Ack)
  /\ acks' = [acks EXCEPT ![c] = @ - 1]
  /\ aged' = [aged EXCEPT ![c] = @ /\ acks[c] > 1]
  /\ UNCHANGED <<state, to, retry, uses, max, th>>

(* Any acknowledgement will do.                                            *)
HandleAck(c) ==
  /\ Delivered(c) /\ inbox[c] = Ack
  /\ state' = [state EXCEPT ![c] = IF @ = "passing" THEN "not" ELSE @]
  /\ Unload(c)
  /\ UNCHANGED <<to, retry, uses, max, acks, aged, th, left, badge>>

HandleMaxCube(c) ==
  /\ Delivered(c) /\ inbox[c].type = "maxcube"
  /\ max' = [max EXCEPT ![c] = inbox[c].max]
  /\ Unload(c)
  /\ UNCHANGED <<state, to, retry, uses, acks, aged, th, left, badge>>

-----------------------------------------------------------------------------
(* passBaton(baton_random, 0, r ? 100 : 0), called by thread w of cube c:   *)
(* the check, then the new state and the choice of an address, then the    *)
(* packet.  The wait for an answer holds up only w.                        *)

Goto(c, w, pc, tries, ticks) ==
  th' = [th EXCEPT ![c][w] = [pc |-> pc, tries |-> tries, ticks |-> ticks]]

At(c, w, pc) == th[c][w].pc = pc
Due(c, w) == th[c][w].ticks = 0

PassBaton(c, w, r) ==
  IF state[c] = "not" \/ max[c] < 2 THEN Goto(c, w, "loop", 0, 0)
  ELSE Goto(c, w, IF r THEN "urgent" ELSE "pass", 0, 0)

(* maxActualCubes is read anew: the loop that draws an address other than  *)
(* the cube's own may find that there is none.  Division by zero yields    *)
(* zero on this processor, so a random number modulo 0 is that number.     *)
Targets(c) == (IF max[c] = 0 THEN 0..255 ELSE 1..max[c]) \ {c}

StartPass(c, w) ==
  /\ At(c, w, "pass") \/ At(c, w, "urgent")
  /\ \E a \in Targets(c) : to' = [to EXCEPT ![c] = a]
  /\ state' = [state EXCEPT ![c] = "passing"]
  /\ retry' = [retry EXCEPT ![c] = At(c, w, "urgent")]
  /\ Goto(c, w, "send", 0, 0)
  /\ UNCHANGED <<uses, max, inbox, acks, aged, left, badge>>

(* sendBatonPassPacket in passBaton, and the wait for an answer.           *)
SendPass(c, w) ==
  /\ At(c, w, "send")
  /\ Transmit(c, Pass(to[c]))
  /\ Goto(c, w, "wait", 0, PassWait)
  /\ UNCHANGED <<state, to, retry, uses, max, acks, aged>>

PassDone(c, w) ==
  /\ At(c, w, "wait") /\ Due(c, w)
  /\ Goto(c, w, "loop", 0, 0)
  /\ UNCHANGED <<state, to, retry, uses, max, inbox, acks, aged, left, badge>>

(* Mutant: no attempt is the last.                                         *)
ResendForever(c, w) ==
  /\ At(c, w, "resend")
  /\ Transmit(c, Pass(to[c]))
  /\ Goto(c, w, "loop", th[c][w].tries + 1, IF w = "fx" THEN 0 ELSE 1)
  /\ UNCHANGED <<state, to, retry, uses, max, acks, aged>>

(* sendBatonPassPacket, to try again.                                      *)
Resend(c, w) ==
  LET tries == th[c][w].tries + 1
  IN  /\ At(c, w, "resend")
      /\ Transmit(c, Pass(to[c]))
      /\ IF w = "fx" THEN Goto(c, w, "loop", tries, 0)
         ELSE Goto(c, w, IF tries > MaxRetries THEN "giveup" ELSE "loop", tries, 1)
      /\ UNCHANGED <<state, to, retry, uses, max, acks, aged>>

(* sendBatonHoldingPacket, after its check of the state.                   *)
SendBeacon(c, w) ==
  /\ At(c, w, "beacon")
  /\ Transmit(c, Holder)
  /\ Goto(c, w, "loop", th[c][w].tries, 0)
  /\ UNCHANGED <<state, to, retry, uses, max, acks, aged>>

-----------------------------------------------------------------------------
(* baton_thread.                                                           *)

BatonRetry(c) ==
  /\ At(c, "baton", "loop") /\ Due(c, "baton") /\ state[c] = "passing" /\ retry[c]
  /\ Goto(c, "baton", "resend", th[c]["baton"].tries, 0)
  /\ UNCHANGED <<state, to, retry, uses, max, inbox, acks, aged, left, badge>>

BatonGiveUp(c) ==
  /\ At(c, "baton", "giveup")
  /\ PassBaton(c, "baton", retry[c])
  /\ UNCHANGED <<state, to, retry, uses, max, inbox, acks, aged, left, badge>>

(* Mutant: the baton is passed on without the half second of cooldown.     *)
BatonHoldHot(c) ==
  /\ At(c, "baton", "loop") /\ state[c] = "holding"
  /\ IF uses[c] THEN \E pc \in {"beacon", "loop"} : Goto(c, "baton", pc, 0, 0)
     ELSE Goto(c, "baton", "cooling", 0, 0)
  /\ UNCHANGED <<state, to, retry, uses, max, inbox, acks, aged, left, badge>>

BatonHold(c) ==
  /\ At(c, "baton", "loop") /\ state[c] = "holding"
  /\ IF uses[c] THEN \E pc \in {"beacon", "loop"} : Goto(c, "baton", pc, 0, 0)
     ELSE Goto(c, "baton", "cooling", 0, Cooldown)
  /\ UNCHANGED <<state, to, retry, uses, max, inbox, acks, aged, left, badge>>

BatonCooled(c) ==
  /\ At(c, "baton", "cooling") /\ Due(c, "baton")
  /\ PassBaton(c, "baton", TRUE)
  /\ UNCHANGED <<state, to, retry, uses, max, inbox, acks, aged, left, badge>>

-----------------------------------------------------------------------------
(* Whackamole, which the effects thread calls once a frame.                *)

FxBeacon(c) ==
  /\ uses[c] /\ At(c, "fx", "loop") /\ state[c] = "holding"
  /\ Goto(c, "fx", "beacon", th[c]["fx"].tries, 0)
  /\ UNCHANGED <<state, to, retry, uses, max, inbox, acks, aged, left, badge>>

(* The mole was whacked, or nobody did so in time.                         *)
FxWhacked(c) ==
  /\ uses[c] /\ At(c, "fx", "loop") /\ state[c] = "holding"
  /\ PassBaton(c, "fx", FALSE)
  /\ UNCHANGED <<state, to, retry, uses, max, inbox, acks, aged, left, badge>>

FxRetry(c) ==
  /\ uses[c] /\ At(c, "fx", "loop") /\ state[c] = "passing"
  /\ IF th[c]["fx"].tries + 1 < FxRetries
     THEN Goto(c, "fx", "resend", th[c]["fx"].tries, 0)
     ELSE PassBaton(c, "fx", FALSE)
  /\ UNCHANGED <<state, to, retry, uses, max, inbox, acks, aged, left, badge>>

(* effectsSetPattern, called by the event thread, clears fx_uses_baton;    *)
(* Whackamole sets it.                                                     *)
SwitchEffect(c) ==
  /\ uses' = [uses EXCEPT ![c] = ~@]
  /\ UNCHANGED <<state, to, retry, max, inbox, acks, aged, th, left, badge>>

-----------------------------------------------------------------------------
(* The first of the acknowledgements is sent at once, all within 3 * 27 ms, *)
(* less than a tick.  The event thread handles a packet, and a thread gets *)
(* from one of its delays to the next, within a tick.                      *)
ThreadsRest == \A c \in Cube, w \in Caller : th[c][w].pc \in {"loop", "cooling", "wait"}

Rested == ThreadsRest /\ \A c \in Cube : ~Preempted(c) /\ (acks[c] > 0 => ~aged[c])

Elapse ==
  /\ aged' = [c \in Cube |-> acks[c] > 0]
  /\ th' = [c \in Cube |-> [w \in Caller |->
              [th[c][w] EXCEPT !.ticks = IF @ > 0 THEN @ - 1 ELSE @]]]
  /\ UNCHANGED <<state, to, retry, uses, max, inbox, acks, left>>

Tick ==
  /\ Rested /\ Elapse /\ UNCHANGED badge
  /\ \E c \in Cube, w \in Caller : th[c][w].ticks > 0

CubeInit ==
  /\ state = [c \in Cube |-> IF c \in Holders THEN "holding" ELSE "not"]
  /\ to = [c \in Cube |-> c]
  /\ retry = [c \in Cube |-> FALSE]
  /\ uses = [c \in Cube |-> c \in Players]
  /\ max = [c \in Cube |-> InitMax]
  /\ inbox = [c \in Cube |-> None]
  /\ acks = [c \in Cube |-> 0]
  /\ aged = [c \in Cube |-> FALSE]
  /\ th = [c \in Cube |-> [w \in Caller |-> [pc |-> "loop", tries |-> 0, ticks |-> 0]]]
  /\ left = Losses

Init == CubeInit /\ badge = NoBadge

EventThread(c) ==
  HandleHolder(c) \/ HandlePass(c) \/ SendAck(c) \/ HandleAck(c) \/ HandleMaxCube(c)
Passer(c, w) == StartPass(c, w) \/ SendPass(c, w) \/ PassDone(c, w) \/ Resend(c, w)
                \/ SendBeacon(c, w)
BatonThread(c) ==
  /\ ~Preempted(c)
  /\ BatonRetry(c) \/ BatonGiveUp(c) \/ BatonHold(c) \/ BatonCooled(c) \/ Passer(c, "baton")
FxThread(c) ==
  /\ ~Preempted(c)
  /\ FxBeacon(c) \/ FxWhacked(c) \/ FxRetry(c) \/ Passer(c, "fx")

CubeNext == \E c \in Cube : EventThread(c) \/ BatonThread(c) \/ FxThread(c)

Next == CubeNext \/ Tick

Spec == Init /\ [][Next]_vars

(* With changes of the effect.                                             *)
SwitchNext == Next \/ \E c \in Cube : SwitchEffect(c)

(* The event thread preempts the others and the scheduler runs each of      *)
(* these between its sleeps; a thread that waits for the channel gets it   *)
(* in the end.                                                             *)
CubeFairness ==
  \A c \in Cube : SF_vars(EventThread(c)) /\ SF_vars(BatonThread(c)) /\ SF_vars(FxThread(c))

SwitchSpec == Init /\ [][SwitchNext]_vars /\ SF_vars(Tick) /\ CubeFairness

-----------------------------------------------------------------------------
TypeOK ==
  /\ state \in [Cube -> {"holding", "passing", "not"}]
  /\ to \in [Cube -> 0..255] /\ max \in [Cube -> {InitMax} \cup Announced]
  /\ retry \in [Cube -> BOOLEAN] /\ uses \in [Cube -> BOOLEAN] /\ aged \in [Cube -> BOOLEAN]
  /\ inbox \in [Cube -> Packet \cup {None}] /\ acks \in [Cube -> 0..AckDup]
  /\ th \in [Cube -> [Caller -> Thread]]
  /\ left \in 0..Losses

In(st) == {c \in Cube : state[c] = st}

(* The half second of cooldown, the wait after a pass and AckDup           *)
(* acknowledgements make the hand-over safe against the loss of any        *)
(* AckDup - 1 packets, however late a thread gets to its resends: there    *)
(* always is a baton, never more than one cube holds it, and the last pass *)
(* is settled before the next one begins.                                  *)
OneBaton ==
  /\ In("holding") \cup In("passing") # {}
  /\ Cardinality(In("holding")) <= 1 /\ Cardinality(In("passing")) <= 1

(* The token is with the cube that holds the baton, and with the one that  *)
(* passes it on as long as nobody holds it.  The protocol hands it over as *)
(* Token promises, with a loss of any AckDup - 1 packets: no cube that is  *)
(* there is passed over, and no offer is taken back or taken by a cube it  *)
(* was not for (baton.c:84, :217, :226).                                   *)
Bearer == CHOOSE c \in Cube :
            state[c] = "holding" \/ (In("holding") = {} /\ state[c] = "passing")
OfferedTo == IF state[Bearer] = "holding" THEN Bearer ELSE to[Bearer]

Handover == INSTANCE Token WITH Address <- 0..255, owner <- Bearer, offered <- OfferedTo
HandsOver == Handover!Spec

(* Every pass ends (baton.c:214-231), those of Whackamole too, which       *)
(* retries its passes itself (fx-wmole.c:137).                             *)
AllPassesEnd == \A c \in Cube : state[c] = "passing" ~> state[c] # "passing"
=============================================================================
