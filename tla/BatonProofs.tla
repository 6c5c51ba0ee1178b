----------------------------- MODULE BatonProofs -----------------------------
(***************************************************************************)
(* For any number of cubes, losses and retries, with and without the       *)
(* master badge: the types, and with them the bounds on retries and on the *)
(* packets of the badge.  For cubes that hand one baton around: there is   *)
(* always one, and it moves as Token says.  The hand-over has three        *)
(* phases, Kept, Offered and Taken; the balance of packets lost, resends   *)
(* and answers in them is what makes each of them end in the next one.     *)
(***************************************************************************)
EXTENDS MasterBaton, FiniteSetTheorems, TLAPS

-----------------------------------------------------------------------------
(* Types.                                                                  *)

(* What a thread may be in: only the baton thread gives up, after its last *)
(* resend, and Whackamole takes another address instead of that one.       *)
Allowed(w) ==
  IF w = "baton" THEN {t \in Thread : t.pc = "giveup" \/ t.tries <= MaxRetries}
  ELSE {t \in Thread : t.tries <= FxRetries /\ (t.pc = "resend" => t.tries < FxRetries)}

Within == \A c \in Cube, w \in Caller : th[c][w] \in Allowed(w)

TypeInv == TypeOK /\ Within

LEMMA Numbers ==
  /\ N \in Nat /\ InitMax \in 0..255 /\ AckDup \in Nat /\ AckDup > 0
  /\ MaxRetries \in Nat /\ FxRetries \in Nat /\ Cooldown \in Nat /\ PassWait \in Nat
  /\ Losses \in Nat /\ Cube \subseteq 0..255 /\ 0 \notin Cube
BY BatonAssumption DEF Cube

LEMMA CubeFinite == IsFiniteSet(Cube)
BY BatonAssumption, FS_Interval DEF Cube

(* What the radio does to the inboxes, and what it costs to miss a packet. *)
LEMMA Sent ==
  ASSUME TypeOK, NEW c, NEW p, Broadcast(c, p)
  PROVE  /\ left' \in 0..Losses /\ left' <= left
         /\ inbox' = [d \in Cube |-> inbox'[d]]
         /\ \A d \in Cube : inbox'[d] = inbox[d] \/ (d # c /\ inbox[d] = None /\ inbox'[d] = p)
         /\ \A d \in Cube : d # c /\ ~Busy(d) /\ inbox'[d] # p => left' < left
<1>1. PICK missed \in SUBSET {d \in Cube \ {c} : ~Busy(d)} :
        /\ {d \in Cube \ {c} : inbox[d] # None /\ ~Busy(d)} \subseteq missed
        /\ left' = left - Cardinality(missed) /\ left' >= 0
        /\ inbox' = [d \in Cube |-> IF d = c \/ d \in missed \/ Busy(d) THEN inbox[d] ELSE p]
  BY DEF Broadcast
<1>2. IsFiniteSet(missed)
  BY <1>1, CubeFinite, FS_Subset
<1>3. Cardinality(missed) \in Nat /\ (missed # {} => Cardinality(missed) > 0)
  BY <1>2, FS_CardinalityType, FS_EmptySet
<1>4. left \in 0..Losses /\ Losses \in Nat
  BY Numbers DEF TypeOK
<1>5. left' \in 0..Losses /\ left' <= left /\ (missed # {} => left' < left)
  BY <1>1, <1>3, <1>4
<1>6. \A d \in Cube : inbox'[d] = IF d = c \/ d \in missed \/ Busy(d) THEN inbox[d] ELSE p
  BY <1>1
<1>7. ASSUME NEW d \in Cube
      PROVE  inbox'[d] = inbox[d] \/ (d # c /\ inbox[d] = None /\ inbox'[d] = p)
  <2>1. CASE d = c \/ d \in missed \/ Busy(d) BY <1>6, <2>1
  <2>2. CASE ~(d = c \/ d \in missed \/ Busy(d))
    <3>1. inbox[d] = None BY <1>1, <2>2
    <3> QED BY <1>6, <2>2, <3>1
  <2> QED BY <2>1, <2>2
<1>8. ASSUME NEW d \in Cube, d # c, ~Busy(d), inbox'[d] # p PROVE left' < left
  <2>1. d \in missed BY <1>6, <1>8
  <2> QED BY <1>5, <2>1
<1> QED BY <1>1, <1>5, <1>7, <1>8

LEMMA SentType ==
  ASSUME TypeOK, NEW c, NEW p \in Packet, Broadcast(c, p)
  PROVE  left' \in 0..Losses /\ inbox' \in [Cube -> Packet \cup {None}]
<1>1. \A d \in Cube : inbox[d] \in Packet \cup {None} BY DEF TypeOK
<1>2. \A d \in Cube : inbox'[d] \in Packet \cup {None} BY <1>1, Sent
<1> QED BY <1>2, Sent

(* A thread goes on to another place, and nothing else of it changes.      *)
LEMMA Gone ==
  ASSUME TypeOK, NEW c \in Cube, NEW w \in Caller, NEW pc, NEW tries, NEW ticks,
         Goto(c, w, pc, tries, ticks)
  PROVE  /\ th' = [x \in Cube |-> th'[x]]
         /\ th'[c] = [v \in Caller |-> th'[c][v]]
         /\ th'[c][w] = [pc |-> pc, tries |-> tries, ticks |-> ticks]
         /\ \A v \in Caller \ {w} : th'[c][v] = th[c][v]
         /\ \A x \in Cube \ {c} : th'[x] = th[x]
<1>1. th' = [th EXCEPT ![c] = [th[c] EXCEPT ![w] = [pc |-> pc, tries |-> tries, ticks |-> ticks]]]
  BY DEF Goto
<1>2. th \in [Cube -> [Caller -> Thread]] BY DEF TypeOK
<1>3. th'[c] = [th[c] EXCEPT ![w] = [pc |-> pc, tries |-> tries, ticks |-> ticks]]
  BY <1>1, <1>2
<1>4. th[c] \in [Caller -> Thread] BY <1>2
<1> QED BY <1>1, <1>2, <1>3, <1>4

LEMMA GoneType ==
  ASSUME TypeInv, NEW c \in Cube, NEW w \in Caller, NEW pc, NEW tries, NEW ticks,
         Goto(c, w, pc, tries, ticks),
         [pc |-> pc, tries |-> tries, ticks |-> ticks] \in Allowed(w)
  PROVE  th' \in [Cube -> [Caller -> Thread]] /\ Within'
<1> DEFINE new == [pc |-> pc, tries |-> tries, ticks |-> ticks]
<1>1. \A v \in Caller : Allowed(v) \subseteq Thread BY DEF Allowed
<1>2. \A x \in Cube, v \in Caller : th[x][v] \in Allowed(v) BY DEF TypeInv, Within
<1>3. \A x \in Cube : th[x] \in [Caller -> Thread] BY DEF TypeInv, TypeOK
<1>4. /\ th' = [x \in Cube |-> th'[x]]
      /\ th'[c] = [v \in Caller |-> th'[c][v]]
      /\ th'[c][w] = new
      /\ \A v \in Caller \ {w} : th'[c][v] = th[c][v]
      /\ \A x \in Cube \ {c} : th'[x] = th[x]
  BY Gone DEF TypeInv
<1>5. new \in Allowed(w) OBVIOUS
<1> HIDE DEF new
<1>6. \A v \in Caller : th'[c][v] \in Allowed(v)
  BY <1>2, <1>4, <1>5
<1>7. th'[c] \in [Caller -> Thread] BY <1>1, <1>4, <1>6
<1>8. \A x \in Cube : th'[x] \in [Caller -> Thread] BY <1>3, <1>4, <1>7
<1>9. th' \in [Cube -> [Caller -> Thread]] BY <1>4, <1>8
<1>10. \A x \in Cube, v \in Caller : th'[x][v] \in Allowed(v) BY <1>2, <1>4, <1>6
<1> QED BY <1>9, <1>10 DEF Within, Allowed

(* The places a thread gets to that begin a new round.                     *)
LEMMA Fresh ==
  ASSUME NEW w \in Caller, NEW pc \in {"loop", "cooling", "beacon", "pass", "urgent", "send", "wait"},
         NEW ticks \in {0, Cooldown, PassWait}
  PROVE  [pc |-> pc, tries |-> 0, ticks |-> ticks] \in Allowed(w)
<1>1. [pc |-> pc, tries |-> 0, ticks |-> ticks] \in Thread BY Numbers DEF Thread
<1> QED BY <1>1, Numbers DEF Allowed

LEMMA PassType ==
  ASSUME TypeInv, NEW c \in Cube, NEW w \in Caller, NEW r, PassBaton(c, w, r)
  PROVE  th' \in [Cube -> [Caller -> Thread]] /\ Within'
<1>1. PICK pc \in {"loop", "pass", "urgent"} : Goto(c, w, pc, 0, 0)
  BY DEF PassBaton
<1>2. [pc |-> pc, tries |-> 0, ticks |-> 0] \in Allowed(w) BY Fresh
<1> QED BY <1>1, <1>2, GoneType

LEMMA Packets ==
  /\ Holder \in Packet /\ Ack \in Packet
  /\ \A a \in 0..255 : Pass(a) \in Packet
  /\ \A n \in Announced : MaxCube(n) \in Packet
  /\ \A p \in Packet : p.type = "maxcube" => p.max \in Announced
  /\ \A p \in Packet : p.type = "pass" => p.to \in 0..255 /\ p = Pass(p.to)
<1>1. /\ Holder \in Packet /\ Ack \in Packet
      /\ \A a \in 0..255 : Pass(a) \in Packet
      /\ \A n \in Announced : MaxCube(n) \in Packet
  BY DEF Packet
<1>2. ASSUME NEW p \in Packet
      PROVE  /\ p.type = "maxcube" => p.max \in Announced
             /\ p.type = "pass" => p.to \in 0..255 /\ p = Pass(p.to)
  <2>1. CASE p = Holder \/ p = Ack BY <2>1 DEF Holder, Ack
  <2>2. CASE \E a \in 0..255 : p = Pass(a)
    <3>1. PICK a \in 0..255 : p = Pass(a) BY <2>2
    <3>2. p.type = "pass" /\ p.to = a BY <3>1 DEF Pass
    <3> QED BY <3>1, <3>2
  <2>3. CASE \E n \in Announced : p = MaxCube(n)
    <3>1. PICK n \in Announced : p = MaxCube(n) BY <2>3
    <3>2. p.type = "maxcube" /\ p.max = n BY <3>1 DEF MaxCube
    <3> QED BY <3>2
  <2> QED BY <2>1, <2>2, <2>3 DEF Packet
<1> QED BY <1>1, <1>2

LEMMA Frame ==
  ASSUME TypeInv, UNCHANGED <<state, to, retry, uses, max, inbox, acks, aged, left>>,
         th' \in [Cube -> [Caller -> Thread]], Within'
  PROVE  TypeInv'
BY DEF TypeInv, TypeOK

LEMMA EventType ==
  ASSUME TypeInv, NEW c \in Cube, EventThread(c)
  PROVE  TypeInv'
<1> USE DEF TypeInv, TypeOK, Within
<1>1. CASE HandleHolder(c) BY <1>1 DEF HandleHolder, Unload
<1>2. CASE HandlePass(c)
  <2>1. AckDup \in 0..AckDup BY Numbers
  <2>2. inbox' \in [Cube -> Packet \cup {None}] BY <1>2 DEF HandlePass, Unload
  <2>3. /\ state' \in [Cube -> {"holding", "passing", "not"}] /\ acks' \in [Cube -> 0..AckDup]
    BY <1>2, <2>1 DEF HandlePass
  <2> QED BY <1>2, <2>2, <2>3 DEF HandlePass
<1>3. CASE SendAck(c)
  <2>1. left' \in 0..Losses /\ inbox' \in [Cube -> Packet \cup {None}]
    BY <1>3, SentType, Packets DEF SendAck, Transmit
  <2>2. acks' \in [Cube -> 0..AckDup]
    <3>1. acks[c] - 1 \in 0..AckDup BY <1>3, Numbers DEF SendAck
    <3> QED BY <1>3, <3>1 DEF SendAck
  <2>3. aged' \in [Cube -> BOOLEAN]
    <3>1. (aged[c] /\ acks[c] > 1) \in BOOLEAN OBVIOUS
    <3> QED BY <1>3, <3>1 DEF SendAck
  <2> QED BY <1>3, <2>1, <2>2, <2>3 DEF SendAck
<1>4. CASE HandleAck(c) BY <1>4 DEF HandleAck, Unload
<1>5. CASE HandleMaxCube(c)
  <2>1. inbox[c].max \in Announced BY <1>5, Packets DEF HandleMaxCube, Delivered
  <2> QED BY <1>5, <2>1 DEF HandleMaxCube, Unload
<1> QED BY <1>1, <1>2, <1>3, <1>4, <1>5 DEF EventThread

(* The address a baton is passed to fits a byte.                           *)
LEMMA TargetsFit == ASSUME TypeOK, NEW c \in Cube PROVE Targets(c) \subseteq (0..255) \ {c}
<1>1. max[c] \in 0..255 BY BatonAssumption DEF TypeOK
<1> QED BY <1>1 DEF Targets

LEMMA ResendType ==
  ASSUME TypeInv, NEW c \in Cube, NEW w \in Caller, Resend(c, w)
  PROVE  th' \in [Cube -> [Caller -> Thread]] /\ Within'
<1> DEFINE tries == th[c][w].tries + 1
<1>1. th[c][w] \in Allowed(w) /\ th[c][w] \in Thread /\ th[c][w].pc = "resend"
  BY DEF TypeInv, TypeOK, Within, Resend, At
<1>2. th[c][w].tries \in Nat /\ tries \in Nat BY <1>1, Numbers DEF Thread
<1>3. CASE w = "fx"
  <2>1. tries <= FxRetries BY <1>1, <1>2, <1>3, Numbers DEF Allowed
  <2>2. [pc |-> "loop", tries |-> tries, ticks |-> 0] \in Allowed(w)
    BY <1>2, <1>3, <2>1, Numbers DEF Allowed, Thread
  <2>3. Goto(c, w, "loop", tries, 0) BY <1>3 DEF Resend
  <2> QED BY <2>2, <2>3, GoneType
<1>4. CASE w = "baton"
  <2>1. tries <= MaxRetries + 1 BY <1>1, <1>2, <1>4, Numbers DEF Allowed
  <2>2. tries > MaxRetries => [pc |-> "giveup", tries |-> tries, ticks |-> 1] \in Allowed(w)
    BY <1>2, <1>4, <2>1, Numbers DEF Allowed, Thread
  <2>3. ~(tries > MaxRetries) => [pc |-> "loop", tries |-> tries, ticks |-> 1] \in Allowed(w)
    BY <1>2, <1>4, <2>1, Numbers DEF Allowed, Thread
  <2>4. CASE tries > MaxRetries
    <3>1. Goto(c, w, "giveup", tries, 1) BY <1>4, <2>4 DEF Resend
    <3> QED BY <2>2, <2>4, <3>1, GoneType
  <2>5. CASE ~(tries > MaxRetries)
    <3>1. Goto(c, w, "loop", tries, 1) BY <1>4, <2>5 DEF Resend
    <3> QED BY <2>3, <2>5, <3>1, GoneType
  <2> QED BY <2>4, <2>5
<1> QED BY <1>3, <1>4 DEF Caller

LEMMA PasserType ==
  ASSUME TypeInv, NEW c \in Cube, NEW w \in Caller, Passer(c, w)
  PROVE  TypeInv'
<1> DEFINE Types == th' \in [Cube -> [Caller -> Thread]] /\ Within'
<1>1. TypeOK /\ c \in 0..255 BY Numbers DEF TypeInv
<1>2. to[c] \in 0..255 BY DEF TypeInv, TypeOK
<1>3. CASE StartPass(c, w)
  <2>1. Goto(c, w, "send", 0, 0) BY <1>3 DEF StartPass
  <2>2. Types BY <2>1, Fresh, GoneType
  <2>3. to' \in [Cube -> 0..255] BY <1>1, <1>3, TargetsFit DEF StartPass, TypeOK
  <2> QED BY <1>3, <2>2, <2>3 DEF StartPass, At, TypeInv, TypeOK
<1>4. CASE SendPass(c, w)
  <2>1. Goto(c, w, "wait", 0, PassWait) BY <1>4 DEF SendPass
  <2>2. Types BY <2>1, Fresh, GoneType
  <2>3. left' \in 0..Losses /\ inbox' \in [Cube -> Packet \cup {None}]
    BY <1>1, <1>2, <1>4, SentType, Packets DEF SendPass, Transmit
  <2> QED BY <1>4, <2>2, <2>3 DEF SendPass, TypeInv, TypeOK
<1>5. CASE PassDone(c, w)
  <2>1. Goto(c, w, "loop", 0, 0) BY <1>5 DEF PassDone
  <2>2. Types BY <2>1, Fresh, GoneType
  <2> QED BY <1>5, <2>2, Frame DEF PassDone
<1>6. CASE Resend(c, w)
  <2>1. left' \in 0..Losses /\ inbox' \in [Cube -> Packet \cup {None}]
    BY <1>1, <1>2, <1>6, SentType, Packets DEF Resend, Transmit
  <2>2. UNCHANGED <<state, to, retry, uses, max, acks, aged>> BY <1>6 DEF Resend
  <2> QED BY <1>6, <2>1, <2>2, ResendType DEF TypeInv, TypeOK
<1>7. CASE SendBeacon(c, w)
  <2>1. left' \in 0..Losses /\ inbox' \in [Cube -> Packet \cup {None}]
    BY <1>1, <1>7, SentType, Packets DEF SendBeacon, Transmit
  <2>2. th[c][w] \in Allowed(w) /\ th[c][w] \in Thread /\ th[c][w].pc = "beacon"
    BY <1>7 DEF TypeInv, TypeOK, Within, SendBeacon, At
  <2>3. [pc |-> "loop", tries |-> th[c][w].tries, ticks |-> 0] \in Allowed(w)
    BY <2>2, Numbers DEF Allowed, Thread
  <2>4. Types BY <1>7, <2>3, GoneType DEF SendBeacon
  <2> QED BY <1>7, <2>1, <2>4 DEF SendBeacon, TypeInv, TypeOK
<1> QED BY <1>3, <1>4, <1>5, <1>6, <1>7 DEF Passer

LEMMA BatonType ==
  ASSUME TypeInv, NEW c \in Cube, BatonThread(c)
  PROVE  TypeInv'
<1> DEFINE Types == th' \in [Cube -> [Caller -> Thread]] /\ Within'
<1>1. "baton" \in Caller BY DEF Caller
<1>2. CASE BatonRetry(c)
  <2>1. th[c]["baton"] \in Allowed("baton") /\ th[c]["baton"] \in Thread /\ th[c]["baton"].pc = "loop"
    BY <1>1, <1>2 DEF TypeInv, TypeOK, Within, BatonRetry, At
  <2>2. [pc |-> "resend", tries |-> th[c]["baton"].tries, ticks |-> 0] \in Allowed("baton")
    BY <2>1, Numbers DEF Allowed, Thread
  <2>3. Types BY <1>1, <1>2, <2>2, GoneType DEF BatonRetry
  <2> QED BY <1>2, <2>3, Frame DEF BatonRetry
<1>3. CASE BatonGiveUp(c) BY <1>1, <1>3, PassType, Frame DEF BatonGiveUp
<1>4. CASE BatonHold(c)
  <2>1. \/ \E pc \in {"beacon", "loop"} : Goto(c, "baton", pc, 0, 0)
        \/ Goto(c, "baton", "cooling", 0, Cooldown)
    BY <1>4 DEF BatonHold
  <2>2. Types BY <1>1, <2>1, Fresh, GoneType
  <2> QED BY <1>4, <2>2, Frame DEF BatonHold
<1>5. CASE BatonCooled(c) BY <1>1, <1>5, PassType, Frame DEF BatonCooled
<1>6. CASE Passer(c, "baton") BY <1>1, <1>6, PasserType
<1> QED BY <1>2, <1>3, <1>4, <1>5, <1>6 DEF BatonThread

LEMMA FxType ==
  ASSUME TypeInv, NEW c \in Cube, FxThread(c)
  PROVE  TypeInv'
<1> DEFINE Types == th' \in [Cube -> [Caller -> Thread]] /\ Within'
<1>1. "fx" \in Caller BY DEF Caller
<1>2. th[c]["fx"] \in Thread /\ th[c]["fx"].tries <= FxRetries
  BY <1>1 DEF TypeInv, TypeOK, Within, Allowed
<1>3. CASE FxBeacon(c)
  <2>1. [pc |-> "beacon", tries |-> th[c]["fx"].tries, ticks |-> 0] \in Allowed("fx")
    BY <1>2, Numbers DEF Allowed, Thread
  <2>2. Types BY <1>1, <1>3, <2>1, GoneType DEF FxBeacon
  <2> QED BY <1>3, <2>2, Frame DEF FxBeacon
<1>4. CASE FxWhacked(c) BY <1>1, <1>4, PassType, Frame DEF FxWhacked
<1>5. CASE FxRetry(c)
  <2>1. CASE th[c]["fx"].tries + 1 < FxRetries
    <3>1. [pc |-> "resend", tries |-> th[c]["fx"].tries, ticks |-> 0] \in Allowed("fx")
      BY <1>2, <2>1, Numbers DEF Allowed, Thread
    <3>2. Types BY <1>1, <1>5, <2>1, <3>1, GoneType DEF FxRetry
    <3> QED BY <1>5, <3>2, Frame DEF FxRetry
  <2>2. CASE ~(th[c]["fx"].tries + 1 < FxRetries)
    BY <1>1, <1>5, <2>2, PassType, Frame DEF FxRetry
  <2> QED BY <2>1, <2>2
<1>6. CASE Passer(c, "fx") BY <1>1, <1>6, PasserType
<1> QED BY <1>3, <1>4, <1>5, <1>6 DEF FxThread

LEMMA ElapseType == ASSUME TypeInv, Elapse PROVE TypeInv'
<1>1. /\ th' = [c \in Cube |-> [w \in Caller |->
                  [th[c][w] EXCEPT !.ticks = IF @ > 0 THEN @ - 1 ELSE @]]]
      /\ aged' = [c \in Cube |-> acks[c] > 0]
  BY DEF Elapse
<1>2. ASSUME NEW c \in Cube, NEW w \in Caller
      PROVE  th'[c][w] \in Thread /\ th'[c][w] \in Allowed(w)
  <2>1. th[c][w] \in Thread /\ th[c][w] \in Allowed(w) BY DEF TypeInv, TypeOK, Within
  <2>2. th'[c][w] = [th[c][w] EXCEPT !.ticks = IF @ > 0 THEN @ - 1 ELSE @] BY <1>1
  <2>3. /\ th'[c][w] \in Thread
        /\ th'[c][w].pc = th[c][w].pc /\ th'[c][w].tries = th[c][w].tries
    BY <2>1, <2>2, Numbers DEF Thread
  <2> QED BY <2>1, <2>3 DEF Allowed
<1>3. th' \in [Cube -> [Caller -> Thread]] BY <1>1, <1>2
<1>4. Within' BY <1>2 DEF Within, Allowed
<1>5. aged' \in [Cube -> BOOLEAN] BY <1>1
<1> QED BY <1>3, <1>4, <1>5 DEF Elapse, TypeInv, TypeOK

LEMMA CubeType == TypeInv /\ CubeNext => TypeInv'
BY EventType, BatonType, FxType DEF CubeNext

LEMMA StutterType == TypeInv /\ UNCHANGED vars => TypeInv'
BY DEF vars, TypeInv, TypeOK, Within

LEMMA CubeInitType == CubeInit => TypeInv
<1> SUFFICES ASSUME CubeInit PROVE TypeInv
  OBVIOUS
<1>1. \A w \in Caller : /\ [pc |-> "loop", tries |-> 0, ticks |-> 0] \in Allowed(w)
                        /\ Allowed(w) \subseteq Thread
  BY Fresh DEF Allowed
<1>2. th \in [Cube -> [Caller -> Thread]] /\ Within
  BY <1>1 DEF CubeInit, Within
<1>3. acks \in [Cube -> 0..AckDup] /\ left \in 0..Losses /\ to \in [Cube -> 0..255]
  BY Numbers DEF CubeInit
<1> QED BY <1>2, <1>3 DEF CubeInit, TypeInv, TypeOK

(* A change of the effect touches nothing of the baton thread.             *)
LEMMA NextType == TypeInv /\ [SwitchNext]_vars => TypeInv'
<1> SUFFICES ASSUME TypeInv, [SwitchNext]_vars PROVE TypeInv'
  OBVIOUS
<1>1. CASE CubeNext BY <1>1, CubeType
<1>2. CASE Tick BY <1>2, ElapseType DEF Tick
<1>3. ASSUME NEW c \in Cube, SwitchEffect(c) PROVE TypeInv'
  BY <1>3 DEF SwitchEffect, TypeInv, TypeOK, Within
<1>4. CASE UNCHANGED vars BY <1>4, StutterType
<1> QED BY <1>1, <1>2, <1>3, <1>4 DEF SwitchNext, Next

(* No pass is sent more often than BATON_MAX_AUTORETRIES allows, whoever   *)
(* plays Whackamole, and no packet is lost that was not sent.              *)
THEOREM TypeCorrect == Spec => []TypeOK
<1>1. Init => TypeInv BY CubeInitType DEF Init
<1>2. TypeInv /\ [Next]_vars => TypeInv' BY NextType DEF SwitchNext
<1>3. TypeInv => TypeOK BY DEF TypeInv
<1> QED BY <1>1, <1>2, <1>3, PTL DEF Spec

(* Nor however the effects of the cubes change.                            *)
THEOREM SwitchTypeCorrect == SwitchSpec => []TypeOK
<1>1. Init => TypeInv BY CubeInitType DEF Init
<1>2. TypeInv /\ [SwitchNext]_vars => TypeInv' BY NextType
<1>3. TypeInv => TypeOK BY DEF TypeInv
<1> QED BY <1>1, <1>2, <1>3, PTL DEF SwitchSpec

-----------------------------------------------------------------------------
(* The master badge.                                                       *)

Badge == [pc : {"idle", "maxcubes", "clear", "pause", "pass", "asleep"},
          more : 0..(MaxDup + Beacons + Passes), ticks : 0..(Pause + 1), addr : 0..Known,
          passing : BOOLEAN, silence : 0..Silence]

(* The packets still to be sent in each loop of baton_new_random.          *)
Loops ==
  /\ badge.pc = "maxcubes" => badge.more \in 1..MaxDup
  /\ badge.pc = "clear" => badge.more \in 1..Beacons
  /\ badge.pc \in {"pause", "pass"} => badge.more \in 1..Passes
  /\ badge.pc = "asleep" => badge.more \in 0..Passes

MasterInv == TypeInv /\ badge \in Badge /\ Loops

LEMMA MasterNumbers ==
  /\ Known \in Nat /\ Known > 0 /\ Known \in Announced
  /\ MaxDup \in Nat /\ MaxDup > 0 /\ Beacons \in Nat /\ Beacons > 0
  /\ Passes \in Nat /\ Passes > 0 /\ Pause \in Nat /\ Silence \in Nat
BY MasterAssumption

LEMMA Going ==
  ASSUME badge \in Badge,
         NEW pc \in {"idle", "maxcubes", "clear", "pause", "pass", "asleep"},
         NEW more \in 0..(MaxDup + Beacons + Passes), NEW ticks \in 0..(Pause + 1),
         Go(pc, more, ticks)
  PROVE  badge' \in Badge /\ badge'.pc = pc /\ badge'.more = more
BY DEF Go, Badge

LEMMA AtRest == Resting \in Badge /\ Resting.pc = "idle"
<1>1. /\ 0 \in 0..(MaxDup + Beacons + Passes) /\ 0 \in 0..(Pause + 1)
      /\ 0 \in 0..Known /\ 0 \in 0..Silence /\ FALSE \in BOOLEAN
  BY MasterNumbers
<1>2. NoBadge \in [pc : {"off"}, more : 0..(MaxDup + Beacons + Passes), ticks : 0..(Pause + 1),
                   addr : 0..Known, passing : BOOLEAN, silence : 0..Silence]
  BY <1>1 DEF NoBadge
<1> QED BY <1>2 DEF Resting, Badge

LEMMA LoopBounds ==
  /\ 1..MaxDup \subseteq 0..(MaxDup + Beacons + Passes)
  /\ 1..Beacons \subseteq 0..(MaxDup + Beacons + Passes)
  /\ 0..Passes \subseteq 0..(MaxDup + Beacons + Passes)
  /\ MaxDup \in 1..MaxDup /\ Beacons \in 1..Beacons /\ Passes \in 1..Passes
  /\ {0, 1, Pause} \subseteq 0..(Pause + 1)
BY MasterNumbers

(* What the badge hears changes neither its place nor its loops.           *)
LEMMA Heard ==
  ASSUME badge \in Badge, Loops, NEW p, Overhear(p)
  PROVE  badge' \in Badge /\ Loops'
<1> USE MasterNumbers
<1>1. CASE UNCHANGED badge BY <1>1 DEF Loops
<1>2. CASE HearBeacon
  <2>1. PICK b \in {badge.passing, FALSE} : badge' = [badge EXCEPT !.passing = b, !.silence = 0]
    BY <1>2 DEF HearBeacon
  <2>2. badge.passing \in BOOLEAN /\ 0 \in 0..Silence BY DEF Badge
  <2>3. b \in BOOLEAN BY <2>1, <2>2
  <2>4. badge' \in Badge BY <2>1, <2>2, <2>3 DEF Badge
  <2>5. badge'.pc = badge.pc /\ badge'.more = badge.more BY <2>1 DEF Badge
  <2> QED BY <2>4, <2>5 DEF Loops
<1>3. CASE HearPass BY <1>3 DEF HearPass, Badge, Loops
<1>4. CASE HearAck BY <1>4 DEF HearAck, Badge, Loops
<1> QED BY <1>1, <1>2, <1>3, <1>4 DEF Overhear

LEMMA CubesHeard ==
  ASSUME badge \in Badge, Loops, CubeNext
  PROVE  badge' \in Badge /\ Loops'
<1>1. PICK c \in Cube : EventThread(c) \/ BatonThread(c) \/ FxThread(c)
  BY DEF CubeNext
<1>2. UNCHANGED badge \/ \E p : Overhear(p)
  <2>1. CASE EventThread(c)
    BY <2>1 DEF EventThread, HandleHolder, HandlePass, SendAck, HandleAck, HandleMaxCube, Transmit
  <2>2. ASSUME NEW w \in Caller, Passer(c, w) PROVE UNCHANGED badge \/ \E p : Overhear(p)
    BY <2>2 DEF Passer, StartPass, SendPass, PassDone, Resend, SendBeacon, Transmit
  <2>3. CASE BatonThread(c)
    BY <2>2, <2>3 DEF BatonThread, BatonRetry, BatonGiveUp, BatonHold, BatonCooled, Caller
  <2>4. CASE FxThread(c)
    BY <2>2, <2>4 DEF FxThread, FxBeacon, FxWhacked, FxRetry, Caller
  <2> QED BY <1>1, <2>1, <2>3, <2>4
<1> QED BY <1>2, Heard DEF Loops

(* The badge's packets are lost like those of the cubes.                   *)
LEMMA SendType ==
  ASSUME TypeInv, NEW p \in Packet, Send(p)
  PROVE  TypeInv'
<1>1. left' \in 0..Losses /\ inbox' \in [Cube -> Packet \cup {None}]
  BY SentType DEF Send, TypeInv
<1> QED BY <1>1 DEF Send, TypeInv, TypeOK, Within

LEMMA RestType == TypeInv /\ CubesRest => TypeInv'
BY DEF CubesRest, TypeInv, TypeOK, Within

(* The step of the badge from each place to the next.                      *)
LEMMA BadgeNext ==
  ASSUME badge \in Badge, Loops, PressKey \/ Making
  PROVE  badge' \in Badge /\ Loops'
<1> USE DEF Ready
<1>0. badge.more \in Int BY MasterNumbers DEF Badge
<1>1. CASE PressKey
  <2>1. badge' = [Resting EXCEPT !.pc = "maxcubes", !.more = MaxDup] BY <1>1 DEF PressKey
  <2>2. badge' \in Badge BY <2>1, AtRest, LoopBounds DEF Badge
  <2>3. badge'.pc = "maxcubes" /\ badge'.more = MaxDup BY <2>1, AtRest DEF Badge
  <2> QED BY <2>2, <2>3, LoopBounds DEF Loops
<1>2. CASE SendMaxCube
  <2>1. badge.more \in 1..MaxDup BY <1>2 DEF SendMaxCube, Loops
  <2>2. CASE badge.more > 1
    <3>1. Go("maxcubes", badge.more - 1, 0) /\ badge.more - 1 \in 1..MaxDup
      BY <1>2, <2>1, <2>2, MasterNumbers DEF SendMaxCube
    <3>2. badge' \in Badge /\ badge'.pc = "maxcubes" /\ badge'.more = badge.more - 1
      BY <3>1, LoopBounds, Going
    <3> QED BY <3>1, <3>2 DEF Loops
  <2>3. CASE ~(badge.more > 1)
    <3>1. badge' \in Badge /\ badge'.pc = "clear" /\ badge'.more = Beacons
      BY <1>2, <2>3, LoopBounds, Going DEF SendMaxCube
    <3> QED BY <3>1, LoopBounds DEF Loops
  <2> QED BY <2>2, <2>3
<1>3. CASE SendClear
  <2>1. badge.more \in 1..Beacons BY <1>3 DEF SendClear, Loops
  <2>2. CASE badge.more > 1
    <3>1. Go("clear", badge.more - 1, 0) /\ badge.more - 1 \in 1..Beacons
      BY <1>3, <2>1, <2>2, MasterNumbers DEF SendClear
    <3>2. badge' \in Badge /\ badge'.pc = "clear" /\ badge'.more = badge.more - 1
      BY <3>1, LoopBounds, Going
    <3> QED BY <3>1, <3>2 DEF Loops
  <2>3. CASE ~(badge.more > 1)
    <3>1. badge' \in Badge /\ badge'.pc = "pause" /\ badge'.more = Passes
      BY <1>3, <2>3, LoopBounds, Going DEF SendClear
    <3> QED BY <3>1, LoopBounds DEF Loops
  <2> QED BY <2>2, <2>3
<1>4. CASE Draw
  <2>1. PICK a \in 1..Known :
          badge' = [badge EXCEPT !.pc = "pass", !.addr = a, !.passing = TRUE]
    BY <1>4 DEF Draw
  <2>2. a \in 0..Known BY MasterNumbers
  <2>3. badge' \in Badge BY <2>1, <2>2 DEF Badge
  <2>4. badge'.pc = "pass" /\ badge'.more = badge.more BY <2>1 DEF Badge
  <2>5. badge.more \in 1..Passes BY <1>4 DEF Draw, Loops
  <2> QED BY <2>3, <2>4, <2>5 DEF Loops
<1>5. CASE SendNewPass
  <2>1. badge.more \in 1..Passes BY <1>5 DEF SendNewPass, Loops
  <2>2. badge.more - 1 \in 0..Passes BY <2>1, MasterNumbers
  <2>3. badge' \in Badge /\ badge'.pc = "asleep" /\ badge'.more = badge.more - 1
    BY <1>5, <2>2, LoopBounds, Going DEF SendNewPass
  <2> QED BY <2>2, <2>3 DEF Loops
<1>6. CASE Awake
  <2>1. CASE badge' = Resting BY <2>1, AtRest DEF Loops
  <2>2. CASE badge' # Resting
    <3>1. Go("pass", badge.more, 0) /\ badge.more > 0 /\ badge.pc = "asleep"
      BY <1>6, <2>2 DEF Awake
    <3>2. badge.more \in 0..Passes /\ badge.more \in 1..Passes
      BY <3>1, MasterNumbers DEF Loops
    <3>3. badge' \in Badge /\ badge'.pc = "pass" /\ badge'.more = badge.more
      BY <3>1, <3>2, LoopBounds, Going
    <3> QED BY <3>2, <3>3 DEF Loops
  <2> QED BY <2>1, <2>2
<1> QED BY <1>1, <1>2, <1>3, <1>4, <1>5, <1>6 DEF Making, Whackamole

LEMMA MasterNextType == MasterInv /\ [MasterNext]_vars => MasterInv'
<1> SUFFICES ASSUME MasterInv, [MasterNext]_vars PROVE MasterInv'
  OBVIOUS
<1>1. TypeInv /\ badge \in Badge /\ Loops BY DEF MasterInv
<1>2. CASE CubeNext BY <1>1, <1>2, CubeType, CubesHeard DEF MasterInv
<1>3. CASE PressKey \/ Making
  <2>1. badge' \in Badge /\ Loops' BY <1>1, <1>3, BadgeNext
  <2>2. badge.addr \in 0..255 BY <1>1, MasterAssumption DEF Badge
  <2>3. CubesRest \/ \E p \in Packet : Send(p)
    BY <1>3, <2>2, Packets, MasterNumbers
       DEF Making, Whackamole, PressKey, SendMaxCube, SendClear, Draw, SendNewPass, Awake
  <2>4. TypeInv' BY <1>1, <2>3, RestType, SendType
  <2> QED BY <2>1, <2>4 DEF MasterInv
<1>4. CASE TickAll
  <2>1. /\ badge'.pc = badge.pc /\ badge'.more = badge.more
        /\ badge' = [badge EXCEPT !.ticks = badge'.ticks, !.silence = badge'.silence]
    BY <1>1, <1>4 DEF TickAll, Badge
  <2>2. badge'.ticks \in 0..(Pause + 1)
    BY <1>1, <1>4, MasterNumbers DEF TickAll, Badge
  <2>3. badge'.silence \in 0..Silence
    BY <1>1, <1>4, MasterNumbers DEF TickAll, Badge
  <2>4. badge' \in Badge BY <1>1, <2>1, <2>2, <2>3 DEF Badge
  <2> QED BY <1>1, <1>4, <2>1, <2>4, ElapseType DEF TickAll, MasterInv, Loops
<1>5. CASE UNCHANGED vars
  BY <1>1, <1>5, StutterType DEF vars, MasterInv, Loops
<1> QED BY <1>2, <1>3, <1>4, <1>5 DEF MasterNext

(* The badge never sends more packets than its loops allow, and passes     *)
(* only to an address it has handed out.                                   *)
THEOREM MasterTypeCorrect == MasterSpec => []MasterTypeOK
<1>1. MasterInit => MasterInv
  BY CubeInitType, AtRest DEF MasterInit, MasterInv, Loops
<1>2. MasterInv /\ [MasterNext]_vars => MasterInv' BY MasterNextType
<1>3. MasterInv => MasterTypeOK BY DEF MasterInv, TypeInv, MasterTypeOK, Badge
<1> QED BY <1>1, <1>2, <1>3, PTL DEF MasterSpec

-----------------------------------------------------------------------------
(* One baton.                                                              *)

(* The protocol's own numbers outdo the losses: an offer is repeated, and  *)
(* an answer to it, more often than packets are lost, the baton stays for  *)
(* longer than the answers and their echoes do, and a pass is sent again   *)
(* only when its first packet had time to arrive.                          *)
Reliable ==
  /\ Losses <= MaxRetries /\ Losses < AckDup
  /\ Cooldown >= 4 /\ PassWait >= 1
  /\ Players = {} /\ \E h \in Cube : Holders = {h}

(* The baton thread of a cube.                                             *)
Pc(c) == th[c]["baton"].pc
Tries(c) == th[c]["baton"].tries
Ticks(c) == th[c]["baton"].ticks

Idle(c) == Pc(c) \in {"loop", "wait"}

(* The baton of h is at most n ticks old: it has not begun to cool down,   *)
(* or no longer ago.                                                       *)
Young(h, n) == Idle(h) \/ (Pc(h) = "cooling" /\ Ticks(h) >= Cooldown - n)

(* Whackamole is not played, so nobody sends beacons.                      *)
Plain ==
  /\ \A c \in Cube : ~uses[c] /\ th[c]["fx"].pc = "loop" /\ Pc(c) # "beacon"
  /\ \A c \in Cube : inbox[c] = None \/ inbox[c] = Ack \/ inbox[c].type = "pass"
  /\ \A c \in Cube : (Pc(c) = "wait" => Tries(c) = 0) /\ (aged[c] => acks[c] > 0)

(* A cube h has the baton.  What is left of its hand-over - resends of the *)
(* cube it came from, answers, and resends and answers still in an inbox - *)
(* is gone when the baton is four ticks old.                               *)
Kept(h) ==
  /\ state[h] = "holding" /\ \A c \in Cube \ {h} : state[c] = "not"
  /\ Idle(h) \/ Pc(h) \in {"cooling", "pass", "urgent"}
  /\ \A c \in Cube \ {h} :
       Idle(c) \/ (Pc(c) \in {"resend", "giveup"} /\ to[c] = h /\ Young(h, 1))
  /\ \A c \in Cube : inbox[c] = Pass(c) =>
       c = h /\ (Young(h, 1) \/ (Young(h, 2) /\ (acks[h] = 0 \/ aged[h])))
  /\ \A c \in Cube : inbox[c] = Ack => c # h /\ Young(h, 3)
  /\ \A c \in Cube : acks[c] > 0 => c = h /\ (Young(h, 2) \/ (Young(h, 3) /\ aged[h]))

(* The offers of p that its addressee d may miss: one packet is lost for   *)
(* each that it does not have.                                             *)
Missed(p, d) ==
  /\ d # p
  /\ Pc(p) \in {"send", "resend"} => inbox[d] # Pass(d)
  /\ Idle(p) /\ inbox[d] = Pass(d) => Ticks(p) >= 1 /\ left + Tries(p) <= Losses
  /\ (Idle(p) \/ Pc(p) = "resend") /\ inbox[d] # Pass(d) => left + Tries(p) + 1 <= Losses

(* A cube p offers the baton, and nobody has taken it.  It gives up only   *)
(* on an address that is no cube's.                                        *)
Offered(p) ==
  /\ state[p] = "passing" /\ \A c \in Cube \ {p} : state[c] = "not" /\ Idle(c)
  /\ Idle(p) \/ Pc(p) \in {"send", "resend", "giveup", "pass", "urgent"}
  /\ Pc(p) \in {"giveup", "pass", "urgent"} => to[p] \notin Cube
  /\ \A c \in Cube : acks[c] = 0 /\ inbox[c] # Ack /\ (inbox[c] = Pass(c) => c = to[p])
  /\ to[p] \in Cube => Missed(p, to[p])

(* The answers of d that p may miss: p has one, or more are to come than   *)
(* may be lost, and meanwhile p sends its offer again once at the most.    *)
Answered(p, d) ==
  \/ inbox[p] = Ack
  \/ /\ acks[d] > left
     /\ ~aged[d] => /\ Young(d, 0) /\ Idle(p) /\ Ticks(p) >= 1
                    /\ left + Tries(p) + AckDup <= Losses + acks[d]
     /\ aged[d] => left + Tries(p) + 1 <= Losses \/ (Pc(p) = "loop" /\ Ticks(p) >= 1)

(* A cube d has taken the baton that p offers, and p does not know yet.    *)
Taken(p, d) ==
  /\ d # p /\ to[p] = d /\ state[p] = "passing" /\ state[d] = "holding"
  /\ \A c \in Cube \ {p, d} : state[c] = "not" /\ Idle(c)
  /\ Idle(p) \/ Pc(p) = "resend"
  /\ Young(d, 1)
  /\ \A c \in Cube : /\ acks[c] > 0 => c = d
                     /\ inbox[c] = Ack => c # d
                     /\ inbox[c] = Pass(c) => c = d
  /\ Answered(p, d)

One == \E p \in Cube : Kept(p) \/ Offered(p) \/ \E d \in Cube : Taken(p, d)

OneInv == TypeInv /\ Plain /\ One

(* What there is to know about the numbers and the packets.                *)
LEMMA View ==
  ASSUME TypeInv
  PROVE  /\ left \in Nat /\ left <= Losses
         /\ \A c \in Cube : /\ Ticks(c) \in Nat /\ Tries(c) \in Nat
                            /\ Pc(c) = "giveup" \/ Tries(c) <= MaxRetries
                            /\ acks[c] \in Nat /\ acks[c] <= AckDup
                            /\ aged[c] \in BOOLEAN /\ to[c] \in 0..255
<1>1. left \in Nat /\ left <= Losses BY Numbers DEF TypeInv, TypeOK
<1>2. ASSUME NEW c \in Cube
      PROVE  /\ Ticks(c) \in Nat /\ Tries(c) \in Nat
             /\ Pc(c) = "giveup" \/ Tries(c) <= MaxRetries
  <2>1. th[c]["baton"] \in Thread /\ th[c]["baton"] \in Allowed("baton")
    BY DEF TypeInv, TypeOK, Within, Caller
  <2> QED BY <2>1, Numbers DEF Ticks, Tries, Pc, Thread, Allowed
<1>3. \A c \in Cube : acks[c] \in Nat /\ acks[c] <= AckDup /\ aged[c] \in BOOLEAN /\ to[c] \in 0..255
  BY Numbers DEF TypeInv, TypeOK
<1> QED BY <1>1, <1>2, <1>3

LEMMA Kinds ==
  /\ Ack # None /\ \A a : Pass(a) # None /\ Pass(a) # Ack /\ Pass(a).type = "pass"
  /\ \A a, b : Pass(a) = Pass(b) => a = b
  /\ Ack.type = "ack" /\ None.type = "none" /\ Holder.type = "holder"
<1>1. Ack.type = "ack" /\ None.type = "none" /\ Holder.type = "holder"
  BY DEF Ack, None, Holder
<1>2. \A a : Pass(a).type = "pass" /\ Pass(a).to = a BY DEF Pass
<1> QED BY <1>1, <1>2

Same(c) == Pc(c)' = Pc(c) /\ Tries(c)' = Tries(c) /\ Ticks(c)' = Ticks(c)

Move(c, pc, tries, ticks) ==
  /\ Pc(c)' = pc /\ Tries(c)' = tries /\ Ticks(c)' = ticks
  /\ \A x \in Cube \ {c} : Same(x)
  /\ \A x \in Cube : th'[x]["fx"] = th[x]["fx"]

LEMMA Moved ==
  ASSUME TypeInv, NEW c \in Cube, NEW pc, NEW tries, NEW ticks,
         Goto(c, "baton", pc, tries, ticks)
  PROVE  Move(c, pc, tries, ticks)
<1> DEFINE new == [pc |-> pc, tries |-> tries, ticks |-> ticks]
<1>1. new.pc = pc /\ new.tries = tries /\ new.ticks = ticks OBVIOUS
<1>2. th' = [th EXCEPT ![c] = [th[c] EXCEPT !["baton"] = new]] BY DEF Goto
<1> HIDE DEF new
<1>3. \A x \in Cube : th \in [Cube -> [Caller -> Thread]] /\ th[x] \in [Caller -> Thread]
  BY DEF TypeInv, TypeOK
<1>4. \A x \in Cube \ {c} : th'[x] = th[x] BY <1>2, <1>3
<1>5. th'[c] = [th[c] EXCEPT !["baton"] = new] BY <1>2, <1>3
<1>6. th'[c]["baton"] = new /\ th'[c]["fx"] = th[c]["fx"] BY <1>3, <1>5 DEF Caller
<1> QED BY <1>1, <1>4, <1>6 DEF Move, Same, Pc, Tries, Ticks

Unmoved == UNCHANGED <<state, to, inbox, acks, aged, left>>

(* What each step of the baton thread is for the invariant.                *)
Retries(c) == Pc(c) = "loop" /\ Ticks(c) = 0 /\ state[c] = "passing"
              /\ Move(c, "resend", Tries(c), 0) /\ Unmoved
GivesUp(c) == Pc(c) = "giveup" /\ Unmoved
              /\ \E pc \in {"loop", "pass", "urgent"} :
                   Move(c, pc, 0, 0) /\ (state[c] = "not" => pc = "loop")
Holds(c) == Pc(c) = "loop" /\ state[c] = "holding" /\ Move(c, "cooling", 0, Cooldown) /\ Unmoved
Cools(c) == Pc(c) = "cooling" /\ Ticks(c) = 0 /\ Unmoved
            /\ \E pc \in {"loop", "urgent"} : Move(c, pc, 0, 0)
Starts(c) ==
  /\ Pc(c) \in {"pass", "urgent"} /\ Move(c, "send", 0, 0)
  /\ state'[c] = "passing" /\ to'[c] # c
  /\ \A x \in Cube \ {c} : state'[x] = state[x] /\ to'[x] = to[x]
  /\ UNCHANGED <<inbox, acks, aged, left>>
Sends(c) == Pc(c) = "send" /\ Broadcast(c, Pass(to[c])) /\ Move(c, "wait", 0, PassWait)
            /\ UNCHANGED <<state, to, acks, aged>>
Resends(c) ==
  /\ Pc(c) = "resend" /\ Broadcast(c, Pass(to[c]))
  /\ \/ Tries(c) + 1 > MaxRetries /\ Move(c, "giveup", Tries(c) + 1, 1)
     \/ Tries(c) + 1 <= MaxRetries /\ Move(c, "loop", Tries(c) + 1, 1)
  /\ UNCHANGED <<state, to, acks, aged>>
Waits(c) == Pc(c) = "wait" /\ Ticks(c) = 0 /\ Move(c, "loop", 0, 0) /\ Unmoved

BatonStep(c) == Retries(c) \/ GivesUp(c) \/ Holds(c) \/ Cools(c) \/ Starts(c) \/ Sends(c)
                \/ Resends(c) \/ Waits(c)

LEMMA PassView ==
  ASSUME TypeInv, NEW c \in Cube, NEW r, PassBaton(c, "baton", r)
  PROVE  \E pc \in {"loop", IF r THEN "urgent" ELSE "pass"} :
           Move(c, pc, 0, 0) /\ (state[c] = "not" => pc = "loop")
<1>1. CASE state[c] = "not" \/ max[c] < 2
  <2>1. Move(c, "loop", 0, 0) BY <1>1, Moved DEF PassBaton
  <2> QED BY <2>1
<1>2. CASE ~(state[c] = "not" \/ max[c] < 2)
  <2> DEFINE pc == IF r THEN "urgent" ELSE "pass"
  <2>1. Goto(c, "baton", pc, 0, 0) BY <1>2 DEF PassBaton
  <2> HIDE DEF pc
  <2>2. Move(c, pc, 0, 0) BY <2>1, Moved
  <2> QED BY <1>2, <2>2 DEF pc
<1> QED BY <1>1, <1>2

LEMMA BatonView ==
  ASSUME TypeInv, Plain, NEW c \in Cube, BatonThread(c)
  PROVE  BatonStep(c) /\ UNCHANGED uses /\ ~Preempted(c)
<1> USE DEF At, Pc, Tries, Ticks, Due
<1>1. CASE BatonRetry(c)
  <2>1. Move(c, "resend", Tries(c), 0) BY <1>1, Moved DEF BatonRetry
  <2> QED BY <1>1, <2>1 DEF BatonRetry, BatonStep, Retries, Unmoved, BatonThread
<1>2. CASE BatonGiveUp(c)
  <2>1. \E pc \in {"loop", "pass", "urgent"} :
          Move(c, pc, 0, 0) /\ (state[c] = "not" => pc = "loop")
    BY <1>2, PassView DEF BatonGiveUp
  <2> QED BY <1>2, <2>1 DEF BatonGiveUp, BatonStep, GivesUp, Unmoved, BatonThread
<1>3. CASE BatonHold(c)
  <2>1. Move(c, "cooling", 0, Cooldown) BY <1>3, Moved DEF BatonHold, Plain
  <2> QED BY <1>3, <2>1 DEF BatonHold, BatonStep, Holds, Unmoved, BatonThread
<1>4. CASE BatonCooled(c)
  <2>1. \E pc \in {"loop", "urgent"} : Move(c, pc, 0, 0)
    BY <1>4, PassView DEF BatonCooled
  <2> QED BY <1>4, <2>1 DEF BatonCooled, BatonStep, Cools, Unmoved, BatonThread
<1>5. CASE StartPass(c, "baton")
  <2>1. Move(c, "send", 0, 0) BY <1>5, Moved DEF StartPass
  <2>2. Targets(c) \subseteq (0..255) \ {c} BY TargetsFit DEF TypeInv
  <2>3. state'[c] = "passing" /\ to'[c] # c BY <1>5, <2>2 DEF StartPass, TypeInv, TypeOK
  <2>4. \A x \in Cube \ {c} : state'[x] = state[x] /\ to'[x] = to[x]
    BY <1>5 DEF StartPass, TypeInv, TypeOK
  <2> QED BY <1>5, <2>1, <2>3, <2>4 DEF StartPass, BatonStep, Starts, BatonThread
<1>6. CASE SendPass(c, "baton")
  <2>1. Move(c, "wait", 0, PassWait) BY <1>6, Moved DEF SendPass
  <2> QED BY <1>6, <2>1 DEF SendPass, Transmit, BatonStep, Sends, BatonThread
<1>7. CASE PassDone(c, "baton")
  <2>1. Move(c, "loop", 0, 0) BY <1>7, Moved DEF PassDone
  <2> QED BY <1>7, <2>1 DEF PassDone, BatonStep, Waits, Unmoved, BatonThread
<1>8. CASE Resend(c, "baton")
  <2>1. \/ Tries(c) + 1 > MaxRetries /\ Goto(c, "baton", "giveup", Tries(c) + 1, 1)
        \/ ~(Tries(c) + 1 > MaxRetries) /\ Goto(c, "baton", "loop", Tries(c) + 1, 1)
    BY <1>8 DEF Resend
  <2>2. \/ Tries(c) + 1 > MaxRetries /\ Move(c, "giveup", Tries(c) + 1, 1)
        \/ Tries(c) + 1 <= MaxRetries /\ Move(c, "loop", Tries(c) + 1, 1)
    <3> HIDE DEF Tries
    <3>1. Tries(c) + 1 <= MaxRetries \/ Tries(c) + 1 > MaxRetries BY View, Numbers
    <3>2. Tries(c) \in Nat BY View
    <3> QED BY <2>1, <3>1, <3>2, Numbers, Moved
  <2> QED BY <1>8, <2>2 DEF Resend, Transmit, BatonStep, Resends, BatonThread
<1>9. CASE SendBeacon(c, "baton") BY <1>9 DEF SendBeacon, Plain
<1> QED BY <1>1, <1>2, <1>3, <1>4, <1>5, <1>6, <1>7, <1>8, <1>9 DEF BatonThread, Passer

(* Whackamole is not played: its thread does nothing.                      *)
LEMMA NoFx == ASSUME Plain, NEW c \in Cube, FxThread(c) PROVE FALSE
BY DEF Plain, FxThread, FxBeacon, FxWhacked, FxRetry, Passer, StartPass, SendPass, PassDone,
       Resend, SendBeacon, At

(* What a tick is for the invariant: the threads wait, and so does the     *)
(* event thread, unless it has just begun to answer.                       *)
Ticked ==
  /\ UNCHANGED <<state, to, inbox, acks, left, uses>>
  /\ \A c \in Cube :
       /\ aged'[c] = (acks[c] > 0) /\ th'[c]["fx"].pc = th[c]["fx"].pc
       /\ Pc(c) \in {"loop", "cooling", "wait"} /\ Pc(c)' = Pc(c) /\ Tries(c)' = Tries(c)
       /\ Ticks(c)' = (IF Ticks(c) > 0 THEN Ticks(c) - 1 ELSE Ticks(c))
       /\ inbox[c] # None => acks[c] > 0
       /\ acks[c] # AckDup /\ (acks[c] > 0 => ~aged[c])

LEMMA TickView == ASSUME TypeInv, Tick PROVE Ticked
<1>1. ASSUME NEW c \in Cube, NEW w \in Caller
      PROVE  /\ th'[c][w].pc = th[c][w].pc /\ th'[c][w].tries = th[c][w].tries
             /\ th'[c][w].ticks = (IF th[c][w].ticks > 0 THEN th[c][w].ticks - 1 ELSE th[c][w].ticks)
             /\ th[c][w].pc \in {"loop", "cooling", "wait"}
  <2>1. th[c][w] \in Thread BY DEF TypeInv, TypeOK
  <2>2. th'[c][w] = [th[c][w] EXCEPT !.ticks = IF @ > 0 THEN @ - 1 ELSE @]
    BY DEF Tick, Elapse
  <2>3. th[c][w].pc \in {"loop", "cooling", "wait"} BY DEF Tick, Rested, ThreadsRest
  <2> QED BY <2>1, <2>2, <2>3 DEF Thread
<1>2. "baton" \in Caller /\ "fx" \in Caller BY DEF Caller
<1>3. ASSUME NEW c \in Cube
      PROVE  /\ Pc(c) \in {"loop", "cooling", "wait"} /\ Pc(c)' = Pc(c) /\ Tries(c)' = Tries(c)
             /\ Ticks(c)' = (IF Ticks(c) > 0 THEN Ticks(c) - 1 ELSE Ticks(c))
             /\ th'[c]["fx"].pc = th[c]["fx"].pc
  BY <1>1, <1>2 DEF Pc, Tries, Ticks
<1>4. ASSUME NEW c \in Cube
      PROVE  /\ aged'[c] = (acks[c] > 0) /\ (inbox[c] # None => acks[c] > 0)
             /\ acks[c] # AckDup /\ (acks[c] > 0 => ~aged[c])
  <2>1. ~Preempted(c) /\ (acks[c] > 0 => ~aged[c]) /\ acks[c] \in Nat
    BY View DEF Tick, Rested
  <2> QED BY <2>1 DEF Tick, Elapse, Preempted, Delivered
<1> QED BY <1>3, <1>4 DEF Ticked, Tick, Elapse

(* And what each step of the event thread is.                              *)
Emptied(c) == \A x \in Cube : inbox'[x] = IF x = c THEN None ELSE inbox[x]
Takes(c) ==
  /\ inbox[c] = Pass(c) /\ acks[c] = 0 /\ Emptied(c)
  /\ \A x \in Cube : /\ state'[x] = IF x = c THEN "holding" ELSE state[x]
                     /\ acks'[x] = IF x = c THEN AckDup ELSE acks[x]
  /\ UNCHANGED <<to, aged, left>>
Ignores(c) ==
  /\ inbox[c] # Pass(c) /\ inbox[c] # Ack /\ Emptied(c)
  /\ UNCHANGED <<state, to, acks, aged, left>>
Settles(c) ==
  /\ inbox[c] = Ack /\ acks[c] = 0 /\ Emptied(c)
  /\ \A x \in Cube : state'[x] = IF x = c /\ state[x] = "passing" THEN "not" ELSE state[x]
  /\ UNCHANGED <<to, acks, aged, left>>
Answers(c) ==
  /\ acks[c] > 0 /\ Broadcast(c, Ack)
  /\ \A x \in Cube : /\ acks'[x] = IF x = c THEN acks[x] - 1 ELSE acks[x]
                     /\ aged'[x] = IF x = c THEN aged[x] /\ acks[x] > 1 ELSE aged[x]
  /\ UNCHANGED <<state, to>>

EventStep(c) == Takes(c) \/ Ignores(c) \/ Settles(c) \/ Answers(c)

LEMMA EventView ==
  ASSUME TypeInv, Plain, NEW c \in Cube, EventThread(c)
  PROVE  EventStep(c) /\ UNCHANGED uses /\ UNCHANGED th
<1>1. CASE HandleHolder(c)
  BY <1>1, Kinds DEF HandleHolder, Delivered, Plain
<1>2. CASE HandlePass(c)
  <2>1. Emptied(c) BY <1>2 DEF HandlePass, Unload, Emptied, TypeInv, TypeOK
  <2>2. inbox[c] \in Packet BY <1>2 DEF HandlePass, Delivered, TypeInv, TypeOK
  <2>3. inbox[c] = Pass(inbox[c].to) BY <1>2, <2>2, Packets DEF HandlePass
  <2>4. inbox[c] # Ack BY <2>3, Kinds
  <2>5. CASE inbox[c].to = c
    BY <1>2, <2>1, <2>3, <2>5 DEF HandlePass, Delivered, EventStep, Takes, TypeInv, TypeOK
  <2>6. CASE inbox[c].to # c
    <3>1. inbox[c] # Pass(c) BY <2>3, <2>6, Kinds
    <3> QED BY <1>2, <2>1, <2>4, <2>6, <3>1 DEF HandlePass, EventStep, Ignores
  <2> QED BY <2>5, <2>6
<1>3. CASE SendAck(c)
  BY <1>3 DEF SendAck, Transmit, EventStep, Answers, TypeInv, TypeOK
<1>4. CASE HandleAck(c)
  <2>1. Emptied(c) BY <1>4 DEF HandleAck, Unload, Emptied, TypeInv, TypeOK
  <2> QED BY <1>4, <2>1 DEF HandleAck, Delivered, EventStep, Settles, TypeInv, TypeOK
<1>5. CASE HandleMaxCube(c)
  BY <1>5, Kinds DEF HandleMaxCube, Delivered, Plain
<1> QED BY <1>1, <1>2, <1>3, <1>4, <1>5 DEF EventThread

LEMMA SameAll == ASSUME UNCHANGED th PROVE \A c \in Cube : Same(c)
BY DEF Same, Pc, Tries, Ticks

(* Nobody begins to play, and nothing is sent but passes and answers.      *)
LEMMA PlainEvent ==
  ASSUME TypeInv, Plain, NEW c \in Cube, EventThread(c)
  PROVE  Plain'
<1>1. EventStep(c) /\ UNCHANGED uses /\ UNCHANGED th BY EventView
<1>2. \A x \in Cube : Same(x) BY <1>1, SameAll
<1>3. \A x \in Cube : acks[x] \in Nat BY View
<1>4. ASSUME NEW x \in Cube PROVE inbox'[x] = None \/ inbox'[x] = Ack \/ inbox'[x].type = "pass"
  <2>1. CASE Answers(c)
    <3>1. inbox'[x] = inbox[x] \/ inbox'[x] = Ack BY <2>1, Sent DEF Answers, TypeInv
    <3> QED BY <3>1 DEF Plain
  <2>2. CASE ~Answers(c)
    BY <1>1, <2>2 DEF EventStep, Takes, Ignores, Settles, Emptied, Plain
  <2> QED BY <2>1, <2>2
<1>5. ASSUME NEW x \in Cube PROVE aged'[x] => acks'[x] > 0
  <2>1. CASE Answers(c)
    <3>1. CASE x = c
      <4>1. aged'[x] => acks[x] > 1 BY <2>1, <3>1 DEF Answers
      <4>2. acks'[x] = acks[x] - 1 BY <2>1, <3>1 DEF Answers
      <4> QED BY <1>3, <4>1, <4>2
    <3>2. CASE x # c
      <4>1. aged'[x] = aged[x] /\ acks'[x] = acks[x] BY <2>1, <3>2 DEF Answers
      <4> QED BY <4>1 DEF Plain
    <3> QED BY <3>1, <3>2
  <2>2. CASE ~Answers(c)
    BY <1>1, <1>3, <2>2, Numbers DEF EventStep, Takes, Ignores, Settles, Plain
  <2> QED BY <2>1, <2>2
<1> QED BY <1>1, <1>2, <1>4, <1>5 DEF Plain, Same

LEMMA PlainBaton ==
  ASSUME TypeInv, Plain, NEW c \in Cube, BatonThread(c)
  PROVE  Plain'
<1>1. BatonStep(c) /\ UNCHANGED uses BY BatonView
<1>2. PICK pc, tries, ticks :
        /\ pc \in {"loop", "resend", "giveup", "cooling", "pass", "urgent", "send", "wait"}
        /\ Move(c, pc, tries, ticks) /\ (pc = "wait" => tries = 0)
  BY <1>1 DEF BatonStep, Retries, GivesUp, Holds, Cools, Starts, Sends, Resends, Waits
<1>3. \A x \in Cube : /\ th'[x]["fx"].pc = "loop" /\ Pc(x)' # "beacon"
                      /\ Pc(x)' = "wait" => Tries(x)' = 0
  BY <1>2 DEF Move, Same, Plain
<1>4. UNCHANGED <<acks, aged>>
  BY <1>1 DEF BatonStep, Retries, GivesUp, Holds, Cools, Starts, Sends, Resends, Waits, Unmoved
<1>5. ASSUME NEW x \in Cube PROVE inbox'[x] = None \/ inbox'[x] = Ack \/ inbox'[x].type = "pass"
  <2>1. CASE Broadcast(c, Pass(to[c]))
    <3>1. inbox'[x] = inbox[x] \/ inbox'[x] = Pass(to[c]) BY <2>1, Sent DEF TypeInv
    <3> QED BY <3>1, Kinds DEF Plain
  <2>2. CASE UNCHANGED inbox BY <2>2 DEF Plain
  <2> QED
    BY <1>1, <2>1, <2>2
       DEF BatonStep, Retries, GivesUp, Holds, Cools, Starts, Sends, Resends, Waits, Unmoved
<1> QED BY <1>1, <1>3, <1>4, <1>5 DEF Plain

LEMMA PlainTick == ASSUME TypeInv, Plain, Tick PROVE Plain'
BY TickView DEF Ticked, Plain

LEMMA Ages ==
  ASSUME TypeInv, NEW c \in Cube
  PROVE  /\ Young(c, 0) => Young(c, 1)
         /\ Young(c, 1) => Young(c, 2)
         /\ Young(c, 2) => Young(c, 3)
BY View, Numbers DEF Young

LEMMA SameAge ==
  ASSUME NEW c, Same(c)
  PROVE  /\ Idle(c)' = Idle(c) /\ \A n : Young(c, n)' = Young(c, n)
BY DEF Same, Idle, Young

-----------------------------------------------------------------------------
(* A cube has the baton.                                                   *)

LEMMA KeptEvent ==
  ASSUME TypeInv, Plain, NEW h \in Cube, Kept(h), NEW c \in Cube, EventThread(c)
  PROVE  Kept(h)'
<1>1. EventStep(c) /\ \A x \in Cube : Same(x) BY EventView, SameAll
<1>2. \A x \in Cube : /\ Idle(x)' = Idle(x) /\ Pc(x)' = Pc(x)
                      /\ \A n : Young(x, n)' = Young(x, n)
  BY <1>1, SameAge DEF Same
<1>3. Young(h, 1) => Young(h, 2) BY Ages
<1>4. Young(h, 2) => Young(h, 3) BY Ages
<1> USE Kinds DEF Kept
<1>5. CASE Takes(c) BY <1>2, <1>3, <1>5 DEF Takes, Emptied
<1>6. CASE Ignores(c) BY <1>2, <1>6 DEF Ignores, Emptied
<1>7. CASE Settles(c) BY <1>2, <1>7 DEF Settles, Emptied
<1>8. CASE Answers(c)
  <2>1. c = h /\ (Young(h, 2) \/ (Young(h, 3) /\ aged[h])) BY <1>8 DEF Answers
  <2>2. \A x \in Cube : inbox'[x] = inbox[x] \/ (x # h /\ inbox'[x] = Ack)
    BY <1>8, <2>1, Sent DEF Answers, TypeInv
  <2>3. UNCHANGED <<state, to>> BY <1>8 DEF Answers
  <2>4. ASSUME NEW x \in Cube, acks'[x] > 0
        PROVE  x = h /\ (Young(h, 2) \/ (Young(h, 3) /\ aged'[h]))
    <3>1. x = h BY <1>8, <2>1, <2>4 DEF Answers
    <3>2. acks[h] \in Nat /\ acks'[h] = acks[h] - 1 BY <1>8, <2>1, View DEF Answers
    <3>3. acks[h] > 1 BY <2>4, <3>1, <3>2
    <3>4. aged'[h] = aged[h] BY <1>8, <2>1, <3>3 DEF Answers, TypeInv, TypeOK
    <3> QED BY <2>1, <3>1, <3>4
  <2>5. ASSUME Young(h, 2) /\ (acks[h] = 0 \/ aged[h]) PROVE acks'[h] = 0 \/ aged'[h]
    <3>1. acks[h] \in Nat /\ acks'[h] = acks[h] - 1 /\ acks[h] > 0 BY <1>8, <2>1, View DEF Answers
    <3>2. acks[h] = 1 \/ acks[h] > 1 BY <3>1
    <3>3. acks[h] > 1 => aged'[h] = aged[h] BY <1>8, <2>1 DEF Answers, TypeInv, TypeOK
    <3>4. acks[h] # 0 BY <3>1
    <3> QED BY <2>5, <3>1, <3>2, <3>3, <3>4
  <2>6. ASSUME NEW x \in Cube, inbox'[x] = Pass(x)
        PROVE  x = h /\ (Young(h, 1) \/ (Young(h, 2) /\ (acks'[h] = 0 \/ aged'[h])))
    <3>1. inbox[x] = Pass(x) BY <2>2, <2>6
    <3> QED BY <2>5, <3>1
  <2>7. ASSUME NEW x \in Cube, inbox'[x] = Ack PROVE x # h /\ Young(h, 3)
    BY <1>4, <2>1, <2>2, <2>7
  <2> QED BY <1>2, <2>3, <2>4, <2>6, <2>7
<1> QED BY <1>1, <1>5, <1>6, <1>7, <1>8 DEF EventStep

(* A thread that moves leaves the age of other batons alone.               *)
LEMMA Others ==
  ASSUME NEW c \in Cube, NEW pc, NEW tries, NEW ticks, Move(c, pc, tries, ticks)
  PROVE  \A x \in Cube \ {c} : /\ Pc(x)' = Pc(x) /\ Tries(x)' = Tries(x) /\ Ticks(x)' = Ticks(x)
                               /\ Idle(x)' = Idle(x) /\ \A n : Young(x, n)' = Young(x, n)
BY SameAge DEF Move, Same

(* What is left of the last hand-over on the way of other cubes: they go   *)
(* back to the head of their loops, after a resend at the most.            *)
LEMMA KeptOthers ==
  ASSUME TypeInv, Plain, NEW h \in Cube, Kept(h), NEW c \in Cube, c # h, BatonThread(c)
  PROVE  Kept(h)'
<1>1. BatonStep(c) BY BatonView
<1>2. state[c] = "not" BY DEF Kept
<1>3. Pc(c) \in {"loop", "wait"} \/ (Pc(c) \in {"resend", "giveup"} /\ to[c] = h /\ Young(h, 1))
  BY DEF Kept, Idle
<1>4. CASE Waits(c) \/ GivesUp(c)
  <2>1. Move(c, "loop", 0, 0) /\ Unmoved BY <1>2, <1>4 DEF Waits, GivesUp
  <2>2. Idle(c)' BY <2>1 DEF Move, Idle
  <2> QED BY <2>1, <2>2, Others DEF Kept, Unmoved
<1>5. CASE Resends(c)
  <2>1. to[c] = h /\ Young(h, 1) /\ Broadcast(c, Pass(h)) BY <1>3, <1>5 DEF Resends
  <2>2. \A x \in Cube : inbox'[x] = inbox[x] \/ inbox'[x] = Pass(h)
    BY <2>1, Sent DEF TypeInv
  <2>3. \E pc, tries, ticks : pc \in {"loop", "giveup"} /\ Move(c, pc, tries, ticks)
    BY <1>5 DEF Resends
  <2>4. /\ \A x \in Cube \ {c} : /\ Pc(x)' = Pc(x) /\ Idle(x)' = Idle(x)
                                 /\ \A n : Young(x, n)' = Young(x, n)
        /\ Pc(c)' = "loop" \/ Pc(c)' = "giveup"
    BY <2>3, Others DEF Move
  <2>5. Idle(c)' \/ Pc(c)' = "giveup" BY <2>4 DEF Idle
  <2>6. UNCHANGED <<state, to, acks, aged>> BY <1>5 DEF Resends
  <2>7. \A x \in Cube : inbox'[x] = Ack => inbox[x] = Ack BY <2>2, Kinds
  <2>8. \A x \in Cube : inbox'[x] = Pass(x) => inbox[x] = Pass(x) \/ x = h BY <2>2, Kinds
  <2> QED BY <2>1, <2>4, <2>5, <2>6, <2>7, <2>8 DEF Kept
<1>6. ~Retries(c) /\ ~Holds(c) /\ ~Cools(c) /\ ~Starts(c) /\ ~Sends(c)
  BY <1>2, <1>3 DEF Retries, Holds, Cools, Starts, Sends
<1> QED BY <1>1, <1>4, <1>5, <1>6 DEF BatonStep

(* An old baton: nothing is left.                                          *)
LEMMA Clean ==
  ASSUME TypeInv, Reliable, NEW h \in Cube, Kept(h),
         Pc(h) \in {"pass", "urgent"} \/ (Pc(h) = "cooling" /\ Ticks(h) = 0)
  PROVE  /\ \A c \in Cube \ {h} : Idle(c)
         /\ \A c \in Cube : acks[c] = 0 /\ inbox[c] # Ack /\ inbox[c] # Pass(c)
<1>1. ~Young(h, 1) /\ ~Young(h, 2) /\ ~Young(h, 3)
  BY Numbers DEF Young, Idle, Reliable
<1>2. \A c \in Cube : acks[c] \in Nat BY View
<1> QED BY <1>1, <1>2 DEF Kept

(* The holder cools the baton down, then begins to pass it on.             *)
LEMMA KeptHolder ==
  ASSUME TypeInv, Plain, Reliable, NEW h \in Cube, Kept(h), BatonThread(h)
  PROVE  Kept(h)' \/ Offered(h)'
<1>1. BatonStep(h) BY BatonView
<1>2. /\ state[h] = "holding"
      /\ Pc(h) \in {"loop", "wait", "cooling", "pass", "urgent"}
  BY DEF Kept, Idle
<1>3. CASE Waits(h)
  <2>1. Move(h, "loop", 0, 0) /\ Unmoved BY <1>3 DEF Waits
  <2>2. Idle(h)' /\ \A n : Young(h, n)' BY <2>1 DEF Move, Idle, Young
  <2> QED BY <2>1, <2>2, Others DEF Kept, Unmoved
<1>4. CASE Holds(h)
  <2>1. Move(h, "cooling", 0, Cooldown) /\ Unmoved BY <1>4 DEF Holds
  <2>2. Pc(h)' = "cooling" /\ \A n \in Nat : Young(h, n)'
    BY <2>1, Numbers DEF Move, Young
  <2>3. Young(h, 1)' /\ Young(h, 2)' /\ Young(h, 3)' BY <2>2
  <2> QED BY <2>1, <2>2, <2>3, Others DEF Kept, Unmoved
<1>5. CASE Cools(h)
  <2>1. PICK pc \in {"loop", "urgent"} : Move(h, pc, 0, 0) BY <1>5 DEF Cools
  <2>2. Idle(h)' \/ Pc(h)' = "urgent" BY <2>1 DEF Move, Idle
  <2>3. Unmoved /\ Pc(h) = "cooling" /\ Ticks(h) = 0 BY <1>5 DEF Cools
  <2>4. /\ \A c \in Cube \ {h} : Idle(c)
        /\ \A c \in Cube : acks[c] = 0 /\ inbox[c] # Ack /\ inbox[c] # Pass(c)
    BY <2>3, Clean
  <2> QED BY <2>1, <2>2, <2>3, <2>4, Others DEF Kept, Unmoved
<1>6. CASE Starts(h)
  <2>1. Move(h, "send", 0, 0) /\ state'[h] = "passing" /\ to'[h] # h BY <1>6 DEF Starts
  <2>2. UNCHANGED <<inbox, acks, left>> BY <1>6 DEF Starts
  <2>3. /\ \A c \in Cube \ {h} : Idle(c)
        /\ \A c \in Cube : acks[c] = 0 /\ inbox[c] # Ack /\ inbox[c] # Pass(c)
    BY <1>6, Clean DEF Starts
  <2>4. Pc(h)' = "send" /\ ~Idle(h)' BY <2>1 DEF Move, Idle
  <2>5. \A c \in Cube \ {h} : state'[c] = "not" /\ Idle(c)'
    BY <1>6, <2>1, <2>3, Others DEF Starts, Kept
  <2>6. to'[h] \in Cube => Missed(h, to[h])' BY <2>1, <2>2, <2>3, <2>4 DEF Missed
  <2> QED BY <2>1, <2>2, <2>3, <2>4, <2>5, <2>6 DEF Offered
<1>7. ~Retries(h) /\ ~GivesUp(h) /\ ~Sends(h) /\ ~Resends(h)
  BY <1>2 DEF Retries, GivesUp, Sends, Resends
<1> QED BY <1>1, <1>3, <1>4, <1>5, <1>6, <1>7 DEF BatonStep

LEMMA TickAges ==
  ASSUME TypeInv, Ticked, NEW c \in Cube
  PROVE  /\ Idle(c)' = Idle(c) /\ \A n \in 0..2 : Young(c, n) => Young(c, n + 1)'
         /\ Idle(c) \/ Pc(c) = "cooling"
BY View, Numbers DEF Ticked, Idle, Young

LEMMA KeptTick ==
  ASSUME TypeInv, Plain, NEW h \in Cube, Kept(h), Tick
  PROVE  Kept(h)'
<1>1. Ticked BY TickView
<1>2. /\ Young(h, 1) => Young(h, 2)'
      /\ Young(h, 2) => Young(h, 3)'
      /\ \A c \in Cube : Idle(c)' = Idle(c) /\ Pc(c)' = Pc(c) /\ (Idle(c) \/ Pc(c) = "cooling")
  <2>1. 1 \in 0..2 /\ 2 \in 0..2 /\ 1 + 1 = 2 /\ 2 + 1 = 3 OBVIOUS
  <2> QED BY <1>1, <2>1, TickAges DEF Ticked
<1>3. \A c \in Cube \ {h} : Idle(c) BY <1>2 DEF Kept
<1>4. \A c \in Cube : acks[c] \in Nat BY View
<1>5. \A c \in Cube : inbox[c] # Ack
  <2>1. \A c \in Cube : inbox[c] = Ack => c # h /\ acks[c] > 0
    BY <1>1, Kinds DEF Ticked, Kept
  <2> QED BY <2>1 DEF Kept
<1>6. ASSUME NEW c \in Cube, acks[c] > 0 PROVE c = h /\ Young(h, 3)' /\ aged'[h]
  <2>1. c = h /\ Young(h, 2) BY <1>1, <1>6 DEF Ticked, Kept
  <2> QED BY <1>1, <1>2, <1>6, <2>1 DEF Ticked
<1>7. ASSUME NEW c \in Cube, inbox[c] = Pass(c) PROVE c = h /\ Young(h, 2)' /\ aged'[h]
  <2>1. acks[c] > 0 /\ ~aged[c] BY <1>1, <1>7, Kinds DEF Ticked
  <2>2. c = h /\ Young(h, 1) BY <1>4, <1>7, <2>1 DEF Kept
  <2> QED BY <1>2, <1>6, <2>1, <2>2
<1>8. UNCHANGED <<state, to, inbox, acks>> BY <1>1 DEF Ticked
<1> QED BY <1>2, <1>3, <1>5, <1>6, <1>7, <1>8 DEF Kept

-----------------------------------------------------------------------------
(* A cube offers the baton.                                                *)

LEMMA OfferedEvent ==
  ASSUME TypeInv, Plain, Reliable, NEW p \in Cube, Offered(p), NEW c \in Cube, EventThread(c)
  PROVE  Offered(p)' \/ \E d \in Cube : d = to[p] /\ Taken(p, d)'
<1>1. EventStep(c) /\ \A x \in Cube : Same(x) BY EventView, SameAll
<1>2. \A x \in Cube : /\ Idle(x)' = Idle(x) /\ \A n : Young(x, n)' = Young(x, n)
                      /\ Pc(x)' = Pc(x) /\ Tries(x)' = Tries(x) /\ Ticks(x)' = Ticks(x)
  BY <1>1, SameAge DEF Same
<1>3. acks[c] = 0 /\ inbox[c] # Ack BY DEF Offered
<1>4. CASE Takes(c)
  <2>1. c = to[p] /\ Missed(p, c) BY <1>4 DEF Takes, Offered
  <2>2. c # p /\ Pc(p) \notin {"send", "resend"} BY <1>4, <2>1 DEF Takes, Missed
  <2>3. Idle(p) BY <2>1, <2>2 DEF Offered
  <2>4. Ticks(p) >= 1 /\ left + Tries(p) <= Losses BY <1>4, <2>1, <2>3 DEF Takes, Missed
  <2>5. Idle(c) BY <2>2 DEF Offered
  <2>6. Young(c, 0) /\ Young(c, 1) BY <2>5 DEF Young
  <2>7. ~aged[c] BY <1>3, View DEF Plain
  <2>8. acks'[c] = AckDup /\ aged' = aged /\ left' = left /\ to' = to BY <1>4 DEF Takes
  <2>9. left \in Nat /\ left <= Losses BY View
  <2>10. Answered(p, c)'
    BY <1>2, <2>3, <2>4, <2>6, <2>7, <2>8, <2>9, Numbers, View DEF Answered, Reliable
  <2>11. \A x \in Cube : /\ acks'[x] > 0 => x = c
                         /\ inbox'[x] = Ack => x # c
                         /\ inbox'[x] = Pass(x) => x = c
    <3>1. \A x \in Cube : acks'[x] = IF x = c THEN AckDup ELSE 0
      BY <1>4 DEF Takes, Offered
    <3>2. \A x \in Cube : inbox'[x] # Ack /\ (inbox'[x] = Pass(x) => inbox[x] = Pass(x))
      BY <1>4, Kinds DEF Takes, Emptied, Offered
    <3> QED BY <2>1, <3>1, <3>2 DEF Offered
  <2>12. \A x \in Cube : state'[x] = IF x = c THEN "holding" ELSE state[x]
    BY <1>4 DEF Takes
  <2>13. Taken(p, c)'
    BY <1>2, <2>1, <2>2, <2>3, <2>6, <2>8, <2>10, <2>11, <2>12 DEF Taken, Offered
  <2> QED BY <2>1, <2>13
<1>5. CASE Ignores(c)
  <2>1. UNCHANGED <<state, to, acks, left>> BY <1>5 DEF Ignores
  <2>2. \A x \in Cube : /\ inbox'[x] # Ack
                        /\ inbox'[x] = Pass(x) <=> inbox[x] = Pass(x)
    BY <1>5, Kinds DEF Ignores, Emptied, Offered
  <2>3. to[p] \in Cube => Missed(p, to[p])' BY <1>2, <2>1, <2>2 DEF Missed, Offered
  <2> QED BY <1>2, <2>1, <2>2, <2>3 DEF Offered
<1>6. ~Settles(c) /\ ~Answers(c) BY <1>3 DEF Settles, Answers
<1> QED BY <1>1, <1>4, <1>5, <1>6 DEF EventStep

(* The others wait.                                                        *)
LEMMA OfferedOthers ==
  ASSUME TypeInv, Plain, NEW p \in Cube, Offered(p), NEW c \in Cube, c # p, BatonThread(c)
  PROVE  Offered(p)'
<1>1. BatonStep(c) BY BatonView
<1>2. state[c] = "not" /\ Pc(c) \in {"loop", "wait"} BY DEF Offered, Idle
<1>3. Waits(c)
  BY <1>1, <1>2 DEF BatonStep, Retries, GivesUp, Holds, Cools, Starts, Sends, Resends
<1>4. Move(c, "loop", 0, 0) /\ Unmoved BY <1>3 DEF Waits
<1>5. Idle(c)' BY <1>4 DEF Move, Idle
<1>6. to[p] \in Cube => Missed(p, to[p])' BY <1>4, Others DEF Missed, Unmoved, Offered
<1> QED BY <1>4, <1>5, <1>6, Others DEF Offered, Unmoved

(* The packets of the offer.  Each one its addressee misses is lost.       *)
LEMMA OfferedSends ==
  ASSUME TypeInv, Plain, Reliable, NEW p \in Cube, Offered(p), Sends(p) \/ Resends(p)
  PROVE  Offered(p)'
<1> DEFINE d == to[p]
<1>1. Broadcast(p, Pass(d)) /\ UNCHANGED <<state, to, acks, aged>> BY DEF Sends, Resends
<1>2. /\ left' \in Nat /\ left' <= left /\ left \in Nat /\ left <= Losses
      /\ \A x \in Cube : inbox'[x] = inbox[x] \/ (x # p /\ inbox'[x] = Pass(d))
      /\ \A x \in Cube : x # p /\ ~Busy(x) /\ inbox'[x] # Pass(d) => left' < left
  BY <1>1, Sent, View, Numbers DEF TypeInv
<1>3. \A x \in Cube : acks[x] = 0 /\ ~Busy(x) BY DEF Offered, Busy
<1>4. \A x \in Cube : inbox'[x] # Ack /\ (inbox'[x] = Pass(x) => x = d)
  BY <1>2, Kinds DEF Offered
<1>5. Tries(p) \in Nat /\ MaxRetries \in Nat /\ Losses \in Nat /\ PassWait \in Nat BY View, Numbers
<1>6. ASSUME d \in Cube PROVE Missed(p, d)' /\ Idle(p)'
  <2>1. Missed(p, d) BY <1>6 DEF Offered
  <2>2. d # p /\ inbox[d] # Pass(d) BY <2>1 DEF Missed, Sends, Resends
  <2>3. inbox'[d] # Pass(d) => left' < left BY <1>2, <1>3, <1>6, <2>2
  <2>4. CASE Sends(p)
    <3>1. Pc(p)' = "wait" /\ Tries(p)' = 0 /\ Ticks(p)' = PassWait BY <2>4 DEF Sends, Move
    <3>2. Idle(p)' /\ Ticks(p)' >= 1 BY <1>5, <3>1 DEF Idle, Reliable
    <3>3. left' + Tries(p)' <= Losses /\ (left' < left => left' + Tries(p)' + 1 <= Losses)
      BY <1>2, <1>5, <3>1
    <3> QED BY <1>1, <2>2, <2>3, <3>1, <3>2, <3>3 DEF Missed
  <2>5. CASE Resends(p)
    <3>1. left + Tries(p) + 1 <= Losses BY <2>1, <2>2, <2>5 DEF Missed, Resends
    <3>2. Tries(p) + 1 <= MaxRetries BY <1>2, <1>5, <3>1 DEF Reliable
    <3>3. Pc(p)' = "loop" /\ Tries(p)' = Tries(p) + 1 /\ Ticks(p)' = 1
      BY <1>5, <2>5, <3>2 DEF Resends, Move
    <3>4. Idle(p)' /\ Ticks(p)' >= 1 BY <3>3 DEF Idle
    <3>5. left' + Tries(p)' <= Losses /\ (left' < left => left' + Tries(p)' + 1 <= Losses)
      BY <1>2, <1>5, <3>1, <3>3
    <3> QED BY <1>1, <2>2, <2>3, <3>3, <3>4, <3>5 DEF Missed
  <2> QED BY <2>4, <2>5
<1>7. \A x \in Cube \ {p} : Idle(x)' = Idle(x) BY Others DEF Sends, Resends
<1>8. Idle(p)' \/ (Pc(p)' = "giveup" /\ ~Idle(p)') BY DEF Sends, Resends, Move, Idle
<1>9. Pc(p)' \in {"giveup", "pass", "urgent"} => ~Idle(p)' BY DEF Idle
<1> QED BY <1>1, <1>3, <1>4, <1>6, <1>7, <1>8, <1>9 DEF Offered

LEMMA OfferedPasser ==
  ASSUME TypeInv, Plain, Reliable, NEW p \in Cube, Offered(p), BatonThread(p)
  PROVE  Offered(p)'
<1>1. BatonStep(p) BY BatonView
<1>2. state[p] = "passing" /\ Pc(p) \in {"loop", "wait", "send", "resend", "giveup", "pass", "urgent"}
  BY DEF Offered, Idle
<1>3. left \in Nat BY View
<1>4. CASE Sends(p) \/ Resends(p) BY <1>4, OfferedSends
<1>5. CASE Waits(p) \/ Retries(p)
  <2>1. Unmoved /\ Idle(p) /\ Ticks(p) = 0 BY <1>5 DEF Waits, Retries, Idle
  <2>2. PICK pc \in {"loop", "resend"} : Move(p, pc, Tries(p), 0)
    BY <1>5 DEF Waits, Retries, Plain
  <2>3. /\ Pc(p)' = pc /\ Tries(p)' = Tries(p) /\ Idle(p)' = (pc = "loop")
        /\ \A x \in Cube \ {p} : Idle(x)' = Idle(x)
    BY <2>2, Others DEF Move, Idle
  <2>4. ASSUME to[p] \in Cube PROVE Missed(p, to[p])'
    <3>1. Missed(p, to[p]) BY <2>4 DEF Offered
    <3>2. inbox[to[p]] # Pass(to[p]) /\ left + Tries(p) + 1 <= Losses
      BY <2>1, <3>1 DEF Missed
    <3> QED BY <2>1, <2>3, <3>1, <3>2 DEF Missed, Unmoved
  <2> QED BY <2>1, <2>3, <2>4 DEF Offered, Unmoved
<1>6. CASE GivesUp(p)
  <2>1. Unmoved /\ to[p] \notin Cube BY <1>6 DEF GivesUp, Offered
  <2>2. PICK pc \in {"loop", "pass", "urgent"} : Move(p, pc, 0, 0) BY <1>6 DEF GivesUp
  <2>3. /\ Pc(p)' = pc /\ (Idle(p)' \/ Pc(p)' \in {"pass", "urgent"})
        /\ \A x \in Cube \ {p} : Idle(x)' = Idle(x)
    BY <2>2, Others DEF Move, Idle
  <2> QED BY <2>1, <2>3 DEF Offered, Unmoved
<1>7. CASE Starts(p)
  <2>1. Move(p, "send", 0, 0) /\ state'[p] = "passing" /\ to'[p] # p BY <1>7 DEF Starts
  <2>2. UNCHANGED <<inbox, acks, left>> BY <1>7 DEF Starts
  <2>3. to[p] \notin Cube BY <1>7 DEF Starts, Offered
  <2>4. \A c \in Cube : inbox[c] # Pass(c) BY <2>3 DEF Offered
  <2>5. Pc(p)' = "send" /\ ~Idle(p)' BY <2>1 DEF Move, Idle
  <2>6. \A c \in Cube \ {p} : state'[c] = "not" /\ Idle(c)'
    BY <1>7, <2>1, Others DEF Starts, Offered
  <2>7. to'[p] \in Cube => Missed(p, to[p])' BY <2>1, <2>2, <2>4, <2>5 DEF Missed
  <2> QED BY <2>1, <2>2, <2>4, <2>5, <2>6, <2>7 DEF Offered
<1>8. ~Holds(p) /\ ~Cools(p) BY <1>2 DEF Holds, Cools
<1> QED BY <1>1, <1>4, <1>5, <1>6, <1>7, <1>8 DEF BatonStep

LEMMA OfferedTick ==
  ASSUME TypeInv, Plain, NEW p \in Cube, Offered(p), Tick
  PROVE  Offered(p)'
<1>1. Ticked BY TickView
<1>2. \A c \in Cube : /\ Idle(c)' = Idle(c) /\ Pc(c)' = Pc(c) /\ Tries(c)' = Tries(c)
                      /\ inbox[c] = None
  BY <1>1, TickAges DEF Ticked, Offered
<1>3. UNCHANGED <<state, to, inbox, acks, left>> BY <1>1 DEF Ticked
<1>4. to[p] \in Cube => Missed(p, to[p])'
  BY <1>2, <1>3, Kinds DEF Missed, Offered
<1> QED BY <1>2, <1>3, <1>4 DEF Offered

-----------------------------------------------------------------------------
(* A cube has taken the baton and the one that offers it does not know.    *)

(* An answer that is not lost, and those that are.                         *)
LEMMA TakenAnswers ==
  ASSUME TypeInv, Plain, NEW p \in Cube, NEW d \in Cube, Taken(p, d), Answers(d),
         \A x \in Cube : Same(x)
  PROVE  Answered(p, d)'
<1>1. /\ Idle(p)' = Idle(p) /\ Pc(p)' = Pc(p) /\ Tries(p)' = Tries(p) /\ Ticks(p)' = Ticks(p)
      /\ \A n : Young(d, n)' = Young(d, n)
  BY SameAge DEF Same
<1>2. /\ left \in Nat /\ left' \in Nat /\ Tries(p) \in Nat /\ acks[d] \in Nat
      /\ AckDup \in Nat /\ Losses \in Nat
  BY Sent, View, Numbers DEF TypeInv, Answers
<1>3. CASE inbox'[p] = Ack BY <1>3 DEF Answered
<1>4. CASE inbox'[p] # Ack
  <2>1. d # p /\ ~Busy(p) BY View DEF Taken, Busy
  <2>2. left' < left BY <1>4, <2>1, Sent DEF Answers, TypeInv
  <2>3. inbox[p] # Ack BY <1>4, Sent, Kinds DEF Answers, TypeInv
  <2>4. /\ acks[d] > left
        /\ ~aged[d] => /\ Young(d, 0) /\ Idle(p) /\ Ticks(p) >= 1
                       /\ left + Tries(p) + AckDup <= Losses + acks[d]
        /\ aged[d] => left + Tries(p) + 1 <= Losses \/ (Pc(p) = "loop" /\ Ticks(p) >= 1)
    BY <2>3 DEF Taken, Answered
  <2>5. acks'[d] = acks[d] - 1 /\ aged'[d] = (aged[d] /\ acks[d] > 1) BY DEF Answers
  <2>6. acks'[d] > left' /\ acks[d] > 1 BY <1>2, <2>2, <2>4, <2>5
  <2>7. aged'[d] = aged[d] BY <2>5, <2>6, View
  <2>8. left + Tries(p) + AckDup <= Losses + acks[d] => left' + Tries(p) + AckDup <= Losses + acks'[d]
    BY <1>2, <2>2, <2>5
  <2>9. left + Tries(p) + 1 <= Losses => left' + Tries(p) + 1 <= Losses
    BY <1>2, <2>2
  <2> QED BY <1>1, <2>4, <2>6, <2>7, <2>8, <2>9 DEF Answered
<1> QED BY <1>3, <1>4

LEMMA TakenEvent ==
  ASSUME TypeInv, Plain, NEW p \in Cube, NEW d \in Cube, Taken(p, d), NEW c \in Cube,
         EventThread(c)
  PROVE  Taken(p, d)' \/ Kept(d)'
<1>1. EventStep(c) /\ \A x \in Cube : Same(x) BY EventView, SameAll
<1>2. \A x \in Cube : /\ Idle(x)' = Idle(x) /\ \A n : Young(x, n)' = Young(x, n)
                      /\ Pc(x)' = Pc(x) /\ Tries(x)' = Tries(x) /\ Ticks(x)' = Ticks(x)
  BY <1>1, SameAge DEF Same
<1>3. d # p /\ to[p] = d /\ left \in Nat /\ Young(d, 1) BY View DEF Taken
<1>4. CASE Takes(c)
  <2>1. c = d /\ acks[d] = 0 BY <1>4 DEF Takes, Taken
  <2>2. inbox[p] = Ack BY <1>3, <2>1 DEF Taken, Answered
  <2>3. inbox'[p] = Ack BY <1>3, <1>4, <2>1, <2>2 DEF Takes, Emptied
  <2>4. \A x \in Cube : /\ acks'[x] > 0 => x = d
                        /\ inbox'[x] = Ack => x # d
                        /\ inbox'[x] = Pass(x) => x = d
    BY <1>4, <2>1, Kinds DEF Takes, Emptied, Taken
  <2>5. UNCHANGED to /\ \A x \in Cube : state'[x] = state[x]
    BY <1>4, <2>1 DEF Takes, Taken
  <2> QED BY <1>2, <2>3, <2>4, <2>5 DEF Taken, Answered
<1>5. CASE Ignores(c)
  <2>1. UNCHANGED <<state, to, acks, aged, left>> BY <1>5 DEF Ignores
  <2>2. \A x \in Cube : /\ inbox'[x] = Ack => x # d
                        /\ inbox'[x] = Pass(x) => x = d
    BY <1>5, Kinds DEF Ignores, Emptied, Taken
  <2>3. inbox[p] = Ack => inbox'[p] = Ack BY <1>5 DEF Ignores, Emptied
  <2>4. Answered(p, d)' BY <1>2, <2>1, <2>3 DEF Answered, Taken
  <2> QED BY <1>2, <2>1, <2>2, <2>4 DEF Taken
<1>6. CASE Settles(c)
  <2>1. c # d /\ UNCHANGED <<to, acks, aged, left>> BY <1>6 DEF Settles, Taken
  <2>2. \A x \in Cube : /\ inbox'[x] = Ack => x # d
                        /\ inbox'[x] = Pass(x) => x = d
    BY <1>6, Kinds DEF Settles, Emptied, Taken
  <2>3. CASE c = p
    <3>1. \A x \in Cube : state'[x] = IF x = d THEN "holding" ELSE "not"
      BY <1>3, <1>6, <2>3 DEF Settles, Taken
    <3>2. Young(d, 2) /\ Young(d, 3) BY <1>3, Ages
    <3>3. Idle(d) \/ Pc(d) = "cooling" BY <1>3 DEF Young
    <3>4. \A x \in Cube : acks[x] > 0 => x = d BY DEF Taken
    <3>5. \A x \in Cube \ {d} : Idle(x) \/ (Pc(x) = "resend" /\ to[x] = d) BY <1>3 DEF Taken
    <3>6. Kept(d)' BY <1>2, <1>3, <2>1, <2>2, <3>1, <3>2, <3>3, <3>4, <3>5 DEF Kept
    <3> QED BY <3>6
  <2>4. CASE c # p
    <3>1. \A x \in Cube : state'[x] = state[x] BY <1>6, <2>1, <2>4 DEF Settles, Taken
    <3>2. inbox'[p] = inbox[p] BY <1>6, <2>4 DEF Settles, Emptied
    <3>3. Answered(p, d)' BY <1>2, <2>1, <3>2 DEF Answered, Taken
    <3> QED BY <1>2, <2>1, <2>2, <3>1, <3>3 DEF Taken
  <2> QED BY <2>3, <2>4
<1>7. CASE Answers(c)
  <2>1. c = d BY <1>7 DEF Answers, Taken
  <2>2. Answered(p, d)' BY <1>1, <1>7, <2>1, TakenAnswers
  <2>3. \A x \in Cube : inbox'[x] = inbox[x] \/ (x # d /\ inbox'[x] = Ack)
    BY <1>7, <2>1, Sent DEF Answers, TypeInv
  <2>4. \A x \in Cube : acks'[x] > 0 => x = d BY <1>7, <2>1 DEF Answers, Taken
  <2>5. UNCHANGED <<state, to>> BY <1>7 DEF Answers
  <2>6. \A x \in Cube : /\ inbox'[x] = Ack => x # d
                        /\ inbox'[x] = Pass(x) => x = d
    BY <2>3, Kinds DEF Taken
  <2> QED BY <1>2, <2>2, <2>4, <2>5, <2>6 DEF Taken
<1> QED BY <1>1, <1>4, <1>5, <1>6, <1>7 DEF EventStep

LEMMA TakenOthers ==
  ASSUME TypeInv, Plain, NEW p \in Cube, NEW d \in Cube, Taken(p, d), NEW c \in Cube \ {p, d},
         BatonThread(c)
  PROVE  Taken(p, d)'
<1>1. BatonStep(c) BY BatonView
<1>2. state[c] = "not" /\ Pc(c) \in {"loop", "wait"} BY DEF Taken, Idle
<1>3. Waits(c)
  BY <1>1, <1>2 DEF BatonStep, Retries, GivesUp, Holds, Cools, Starts, Sends, Resends
<1>4. Move(c, "loop", 0, 0) /\ Unmoved BY <1>3 DEF Waits
<1>5. Idle(c)' BY <1>4 DEF Move, Idle
<1>6. Answered(p, d)' BY <1>4, Others DEF Answered, Unmoved, Taken
<1> QED BY <1>4, <1>5, <1>6, Others DEF Taken, Unmoved

(* It begins to cool down, and does not get to the end of that.            *)
LEMMA TakenTaker ==
  ASSUME TypeInv, Plain, Reliable, NEW p \in Cube, NEW d \in Cube, Taken(p, d), BatonThread(d)
  PROVE  Taken(p, d)'
<1>1. BatonStep(d) BY BatonView
<1>2. /\ state[d] = "holding" /\ Pc(d) \in {"loop", "wait", "cooling"}
      /\ Pc(d) = "cooling" => Ticks(d) # 0
  BY Numbers DEF Taken, Young, Idle, Reliable
<1>3. Waits(d) \/ Holds(d)
  BY <1>1, <1>2 DEF BatonStep, Retries, GivesUp, Cools, Starts, Sends, Resends
<1>4. PICK pc, ticks :
        pc \in {"loop", "cooling"} /\ Move(d, pc, 0, ticks) /\ (pc = "cooling" => ticks = Cooldown)
  BY <1>3 DEF Waits, Holds
<1>5. Unmoved BY <1>3 DEF Waits, Holds
<1>6. Young(d, 0)' /\ Young(d, 1)' BY <1>4, Numbers DEF Move, Young, Idle
<1>7. Answered(p, d)' BY <1>4, <1>5, <1>6, Others DEF Answered, Unmoved, Taken
<1> QED BY <1>4, <1>5, <1>6, <1>7, Others DEF Taken, Unmoved

(* The offer is sent again once more at the most while the answers come.   *)
LEMMA TakenPasser ==
  ASSUME TypeInv, Plain, Reliable, NEW p \in Cube, NEW d \in Cube, Taken(p, d), BatonThread(p)
  PROVE  Taken(p, d)'
<1>1. BatonStep(p) /\ ~Preempted(p) BY BatonView
<1>2. state[p] = "passing" /\ Pc(p) \in {"loop", "wait", "resend"} /\ d # p /\ to[p] = d
  BY DEF Taken, Idle
<1>3. acks[p] = 0 BY View DEF Taken
<1>4. inbox[p] # Ack BY <1>1, <1>3, Kinds DEF Preempted, Delivered
<1>5. /\ acks[d] > left
      /\ ~aged[d] => Idle(p) /\ Ticks(p) >= 1
      /\ aged[d] => left + Tries(p) + 1 <= Losses \/ (Pc(p) = "loop" /\ Ticks(p) >= 1)
  BY <1>4 DEF Taken, Answered
<1>6. Waits(p) \/ Retries(p) \/ Resends(p)
  BY <1>1, <1>2 DEF BatonStep, GivesUp, Holds, Cools, Starts, Sends
<1>7. aged[d] /\ left + Tries(p) + 1 <= Losses
  BY <1>5, <1>6 DEF Waits, Retries, Resends, Idle
<1>8. CASE Waits(p) \/ Retries(p)
  <2>1. PICK pc \in {"loop", "resend"} : Move(p, pc, Tries(p), 0)
    BY <1>8 DEF Waits, Retries, Plain
  <2>2. Unmoved BY <1>8 DEF Waits, Retries
  <2>3. Idle(p)' \/ Pc(p)' = "resend" BY <2>1 DEF Move, Idle
  <2>4. Answered(p, d)' BY <1>5, <1>7, <2>1, <2>2 DEF Answered, Unmoved, Move
  <2> QED BY <2>1, <2>2, <2>3, <2>4, Others DEF Taken, Unmoved
<1>9. CASE Resends(p)
  <2>1. Tries(p) + 1 <= MaxRetries BY <1>7, View, Numbers DEF Reliable
  <2>2. Move(p, "loop", Tries(p) + 1, 1) BY <1>9, <2>1, View, Numbers DEF Resends
  <2>3. Pc(p)' = "loop" /\ Ticks(p)' >= 1 /\ Idle(p)' BY <2>2 DEF Move, Idle
  <2>4. UNCHANGED <<state, to, acks, aged>> /\ Broadcast(p, Pass(d)) BY <1>2, <1>9 DEF Resends
  <2>5. \A x \in Cube : inbox'[x] = inbox[x] \/ inbox'[x] = Pass(d)
    BY <2>4, Sent DEF TypeInv
  <2>6. \A x \in Cube : /\ inbox'[x] = Ack => x # d
                        /\ inbox'[x] = Pass(x) => x = d
    BY <2>5, Kinds DEF Taken
  <2>7. acks[d] > left'
    <3>1. left' \in Nat /\ left' <= left BY <2>4, Sent, Numbers DEF TypeInv
    <3> QED BY <1>5, <3>1, View
  <2>8. Answered(p, d)' BY <1>7, <2>3, <2>4, <2>7 DEF Answered
  <2> QED BY <2>2, <2>3, <2>4, <2>6, <2>8, Others DEF Taken
<1> QED BY <1>6, <1>8, <1>9

(* A tick finds the answers begun, and is the only one.                    *)
LEMMA TakenTick ==
  ASSUME TypeInv, Plain, NEW p \in Cube, NEW d \in Cube, Taken(p, d), Tick
  PROVE  Taken(p, d)'
<1>1. Ticked BY TickView
<1>2. \A c \in Cube : Idle(c)' = Idle(c) /\ Pc(c)' = Pc(c) /\ Tries(c)' = Tries(c)
  BY <1>1, TickAges DEF Ticked
<1>3. UNCHANGED <<state, to, inbox, acks, left>> BY <1>1 DEF Ticked
<1>4. inbox[p] # Ack
  <2>1. acks[p] = 0 BY View DEF Taken
  <2> QED BY <1>1, <2>1, Kinds DEF Ticked
<1>5. acks[d] > left /\ (~aged[d] => Young(d, 0)
                                     /\ left + Tries(p) + AckDup <= Losses + acks[d])
  BY <1>4 DEF Taken, Answered
<1>6. left \in Nat /\ acks[d] \in Nat /\ acks[d] <= AckDup /\ Tries(p) \in Nat BY View
<1>7. acks[d] > 0 BY <1>5, <1>6
<1>8. ~aged[d] /\ acks[d] # AckDup /\ aged'[d] BY <1>1, <1>7 DEF Ticked
<1>9. left + Tries(p) + 1 <= Losses BY <1>5, <1>6, <1>8, Numbers
<1>10. Young(d, 1)'
  <2>1. 0 \in 0..2 /\ 0 + 1 = 1 OBVIOUS
  <2> QED BY <1>1, <1>5, <1>8, <2>1, TickAges
<1>11. Answered(p, d)' BY <1>2, <1>3, <1>5, <1>8, <1>9 DEF Answered
<1>12. Idle(p) BY <1>1, TickAges DEF Taken, Ticked
<1> QED BY <1>2, <1>3, <1>10, <1>11, <1>12 DEF Taken

-----------------------------------------------------------------------------
(* The hand-over as a whole.                                               *)

LEMMA InitKept == Init /\ Reliable => Plain /\ \E h \in Cube : Kept(h)
<1> SUFFICES ASSUME Init, Reliable PROVE Plain /\ \E h \in Cube : Kept(h)
  OBVIOUS
<1>1. PICK h \in Cube : Holders = {h} BY DEF Reliable
<1>2. \A c \in Cube : /\ Pc(c) = "loop" /\ Tries(c) = 0 /\ th[c]["fx"].pc = "loop"
                      /\ ~uses[c] /\ inbox[c] = None /\ acks[c] = 0 /\ ~aged[c]
                      /\ state[c] = IF c = h THEN "holding" ELSE "not"
  BY <1>1 DEF Init, CubeInit, Reliable, Pc, Tries, Caller
<1>3. Plain BY <1>2 DEF Plain
<1>4. Kept(h) BY <1>2, Kinds DEF Kept, Idle
<1> QED BY <1>3, <1>4

LEMMA InitOne == Init /\ Reliable => OneInv
BY CubeInitType, InitKept DEF Init, OneInv, One

(* Each phase goes on or leads to the next one.                            *)
LEMMA KeptNext ==
  ASSUME TypeInv, Plain, Reliable, Next, NEW h \in Cube, Kept(h)
  PROVE  Kept(h)' \/ Offered(h)'
<1>1. CASE Tick BY <1>1, KeptTick
<1>2. ASSUME NEW c \in Cube, EventThread(c) PROVE Kept(h)' BY <1>2, KeptEvent
<1>3. ASSUME NEW c \in Cube, BatonThread(c) PROVE Kept(h)' \/ Offered(h)'
  <2>1. CASE c = h BY <1>3, <2>1, KeptHolder
  <2>2. CASE c # h BY <1>3, <2>2, KeptOthers
  <2> QED BY <2>1, <2>2
<1> QED BY <1>1, <1>2, <1>3, NoFx DEF Next, CubeNext

LEMMA OfferedNext ==
  ASSUME TypeInv, Plain, Reliable, Next, NEW p \in Cube, Offered(p)
  PROVE  Offered(p)' \/ \E d \in Cube : d = to[p] /\ Taken(p, d)'
<1>1. CASE Tick BY <1>1, OfferedTick
<1>2. ASSUME NEW c \in Cube, EventThread(c)
      PROVE  Offered(p)' \/ \E d \in Cube : d = to[p] /\ Taken(p, d)'
  BY <1>2, OfferedEvent
<1>3. ASSUME NEW c \in Cube, BatonThread(c) PROVE Offered(p)'
  <2>1. CASE c = p BY <1>3, <2>1, OfferedPasser
  <2>2. CASE c # p BY <1>3, <2>2, OfferedOthers
  <2> QED BY <2>1, <2>2
<1> QED BY <1>1, <1>2, <1>3, NoFx DEF Next, CubeNext

LEMMA TakenNext ==
  ASSUME TypeInv, Plain, Reliable, Next, NEW p \in Cube, NEW d \in Cube, Taken(p, d)
  PROVE  Taken(p, d)' \/ Kept(d)'
<1>1. CASE Tick BY <1>1, TakenTick
<1>2. ASSUME NEW c \in Cube, EventThread(c) PROVE Taken(p, d)' \/ Kept(d)' BY <1>2, TakenEvent
<1>3. ASSUME NEW c \in Cube, BatonThread(c) PROVE Taken(p, d)'
  <2>1. CASE c = p BY <1>3, <2>1, TakenPasser
  <2>2. CASE c = d BY <1>3, <2>2, TakenTaker
  <2>3. CASE c \in Cube \ {p, d} BY <1>3, <2>3, TakenOthers
  <2> QED BY <2>1, <2>2, <2>3
<1> QED BY <1>1, <1>2, <1>3, NoFx DEF Next, CubeNext

LEMMA NextOne == Reliable /\ OneInv /\ [Next]_vars => OneInv'
<1> SUFFICES ASSUME Reliable, OneInv, [Next]_vars PROVE OneInv'
  OBVIOUS
<1>1. TypeInv /\ Plain /\ One BY DEF OneInv
<1>2. CASE Next
  <2>1. TypeInv' BY <1>1, <1>2, CubeType, ElapseType DEF Next, Tick
  <2>2. Plain' BY <1>1, <1>2, PlainEvent, PlainBaton, PlainTick, NoFx DEF Next, CubeNext
  <2>3. One' BY <1>1, <1>2, KeptNext, OfferedNext, TakenNext DEF One
  <2> QED BY <2>1, <2>2, <2>3 DEF OneInv
<1>3. CASE UNCHANGED vars
  <2>1. TypeInv' BY <1>1, <1>3, StutterType
  <2>2. Plain' BY <1>1, <1>3 DEF vars, Plain, Pc, Tries
  <2>3. UNCHANGED <<state, to, inbox, acks, aged, left>> BY <1>3 DEF vars
  <2>4. \A c \in Cube : /\ Idle(c)' = Idle(c) /\ \A n : Young(c, n)' = Young(c, n)
                        /\ Pc(c)' = Pc(c) /\ Tries(c)' = Tries(c) /\ Ticks(c)' = Ticks(c)
    BY <1>3, SameAll, SameAge DEF vars, Same
  <2>5. ASSUME NEW h \in Cube, Kept(h) PROVE Kept(h)' BY <2>3, <2>4, <2>5 DEF Kept
  <2>6. ASSUME NEW p \in Cube, Offered(p) PROVE Offered(p)'
    BY <2>3, <2>4, <2>6 DEF Offered, Missed
  <2>7. ASSUME NEW p \in Cube, NEW d \in Cube, Taken(p, d) PROVE Taken(p, d)'
    <3>1. Answered(p, d)' BY <2>3, <2>4, <2>7 DEF Taken, Answered
    <3> QED BY <2>3, <2>4, <2>7, <3>1 DEF Taken
  <2>8. One' BY <1>1, <2>5, <2>6, <2>7 DEF One
  <2> QED BY <2>1, <2>2, <2>8 DEF OneInv
<1> QED BY <1>2, <1>3

(* In each of the three phases one cube at the most holds the baton, one   *)
(* at the most passes it on, and one does either.                          *)
LEMMA OneIsOne == One => OneBaton
<1> SUFFICES ASSUME One PROVE OneBaton
  OBVIOUS
<1>1. Cardinality({}) = 0 /\ \A x : Cardinality({x}) = 1 BY FS_EmptySet, FS_Singleton
<1>2. ASSUME NEW h \in Cube, Kept(h) PROVE OneBaton
  <2>1. In("holding") = {h} /\ In("passing") = {} BY <1>2 DEF In, Kept
  <2> QED BY <1>1, <2>1 DEF OneBaton
<1>3. ASSUME NEW p \in Cube, Offered(p) PROVE OneBaton
  <2>1. In("holding") = {} /\ In("passing") = {p} BY <1>3 DEF In, Offered
  <2> QED BY <1>1, <2>1 DEF OneBaton
<1>4. ASSUME NEW p \in Cube, NEW d \in Cube, Taken(p, d) PROVE OneBaton
  <2>1. In("holding") = {d} /\ In("passing") = {p} BY <1>4 DEF In, Taken
  <2>2. d \in In("holding") BY <2>1
  <2>3. Cardinality(In("holding")) = 1 /\ Cardinality(In("passing")) = 1 BY <1>1, <2>1
  <2> QED BY <2>2, <2>3 DEF OneBaton
<1> QED BY <1>2, <1>3, <1>4 DEF One

(* With one baton to begin with and nobody at Whackamole, there always is  *)
(* a baton and never more than one cube holds it, whatever AckDup - 1 or   *)
(* fewer packets are lost, for any number of cubes, if the delays and the  *)
(* numbers of retries are as Reliable has them.                            *)
THEOREM AlwaysOneBaton == ASSUME Reliable PROVE Spec => []OneBaton
<1>1. Init => OneInv BY InitOne
<1>2. OneInv /\ [Next]_vars => OneInv' BY NextOne
<1>3. OneInv => OneBaton BY OneIsOne DEF OneInv
<1> QED BY <1>1, <1>2, <1>3, PTL DEF Spec

-----------------------------------------------------------------------------
(* The hand-over implements Token.                                         *)

(* The phases in terms of Token.                                           *)
Mapping ==
  /\ \A h \in Cube : Kept(h) => Bearer = h /\ OfferedTo = h
  /\ \A p \in Cube : Offered(p) => Bearer = p /\ OfferedTo = to[p]
  /\ \A p, d \in Cube : Taken(p, d) => Bearer = d /\ OfferedTo = d

LEMMA Mapped == Mapping
<1>1. ASSUME NEW h \in Cube, Kept(h) PROVE Bearer = h /\ OfferedTo = h
  <2>1. \A c \in Cube : (state[c] = "holding" \/ (In("holding") = {} /\ state[c] = "passing"))
                        <=> c = h
    BY <1>1 DEF Kept
  <2>2. Bearer = h BY <2>1 DEF Bearer
  <2> QED BY <1>1, <2>2 DEF OfferedTo, Kept
<1>2. ASSUME NEW p \in Cube, Offered(p) PROVE Bearer = p /\ OfferedTo = to[p]
  <2>1. In("holding") = {} BY <1>2 DEF In, Offered
  <2>2. \A c \in Cube : (state[c] = "holding" \/ (In("holding") = {} /\ state[c] = "passing"))
                        <=> c = p
    BY <1>2, <2>1 DEF Offered
  <2>3. Bearer = p BY <2>2 DEF Bearer
  <2> QED BY <1>2, <2>3 DEF OfferedTo, Offered
<1>3. ASSUME NEW p \in Cube, NEW d \in Cube, Taken(p, d) PROVE Bearer = d /\ OfferedTo = d
  <2>1. d \in In("holding") BY <1>3 DEF In, Taken
  <2>2. \A c \in Cube : (state[c] = "holding" \/ (In("holding") = {} /\ state[c] = "passing"))
                        <=> c = d
    BY <1>3, <2>1 DEF Taken
  <2>3. Bearer = d BY <2>2 DEF Bearer
  <2> QED BY <1>3, <2>3 DEF OfferedTo, Taken
<1> QED BY <1>1, <1>2, <1>3 DEF Mapping

LEMMA MappedNext == Mapping'
BY Mapped, PTL

(* An offer goes to another address only if there is no cube with its own. *)
LEMMA Readdressed ==
  ASSUME TypeInv, Plain, Next, NEW p \in Cube, Offered(p)
  PROVE  to'[p] = to[p] \/ to[p] \notin Cube
<1>1. CASE Tick BY <1>1 DEF Tick, Elapse
<1>2. ASSUME NEW c \in Cube, EventThread(c) PROVE to'[p] = to[p]
  BY <1>2, EventView DEF EventStep, Takes, Ignores, Settles, Answers
<1>3. ASSUME NEW c \in Cube, BatonThread(c) PROVE to'[p] = to[p] \/ to[p] \notin Cube
  <2>1. BatonStep(c) BY <1>3, BatonView
  <2>2. CASE Starts(c)
    <3>1. CASE c = p BY <2>2, <3>1 DEF Starts, Offered
    <3>2. CASE c # p BY <2>2, <3>2 DEF Starts
    <3> QED BY <3>1, <3>2
  <2>3. CASE ~Starts(c)
    BY <2>1, <2>3 DEF BatonStep, Retries, GivesUp, Holds, Cools, Sends, Resends, Waits, Unmoved
  <2> QED BY <2>2, <2>3
<1> QED BY <1>1, <1>2, <1>3, NoFx DEF Next, CubeNext

LEMMA StepsOn ==
  ASSUME Reliable, OneInv, Next
  PROVE  [Handover!Next]_(Handover!vars)
<1>1. TypeInv /\ Plain /\ One /\ Mapping /\ Mapping' BY Mapped, MappedNext DEF OneInv
<1>2. TypeInv' BY NextOne DEF OneInv
<1>3. \A c \in Cube : to'[c] \in 0..255 BY <1>2 DEF TypeInv, TypeOK
<1> USE DEF Handover!Next, Handover!Offer, Handover!Take, Handover!vars
<1>4. ASSUME NEW h \in Cube, Kept(h) PROVE [Handover!Next]_(Handover!vars)
  <2>1. Bearer = h /\ OfferedTo = h BY <1>1, <1>4 DEF Mapping
  <2>2. CASE Kept(h)' BY <1>1, <2>1, <2>2 DEF Mapping
  <2>3. CASE Offered(h)'
    <3>1. Bearer' = h /\ OfferedTo' = to'[h] BY <1>1, <2>3 DEF Mapping
    <3>2. to'[h] # h BY <2>3 DEF Offered, Missed
    <3> QED BY <1>3, <2>1, <3>1, <3>2
  <2> QED BY <1>1, <1>4, <2>2, <2>3, KeptNext
<1>5. ASSUME NEW p \in Cube, Offered(p) PROVE [Handover!Next]_(Handover!vars)
  <2>1. Bearer = p /\ OfferedTo = to[p] BY <1>1, <1>5 DEF Mapping
  <2>2. to'[p] = to[p] \/ to[p] \notin Cube BY <1>1, <1>5, Readdressed
  <2>3. CASE Offered(p)'
    <3>1. Bearer' = p /\ OfferedTo' = to'[p] BY <1>1, <2>3 DEF Mapping
    <3>2. to'[p] # p BY <2>3 DEF Offered, Missed
    <3> QED BY <1>3, <2>1, <2>2, <3>1, <3>2
  <2>4. ASSUME NEW d \in Cube, d = to[p], Taken(p, d)' PROVE [Handover!Next]_(Handover!vars)
    <3>1. Bearer' = d /\ OfferedTo' = d BY <1>1, <2>4 DEF Mapping
    <3> QED BY <2>1, <2>4, <3>1
  <2> QED BY <1>1, <1>5, <2>3, <2>4, OfferedNext
<1>6. ASSUME NEW p \in Cube, NEW d \in Cube, Taken(p, d) PROVE [Handover!Next]_(Handover!vars)
  <2>1. Bearer = d /\ OfferedTo = d BY <1>1, <1>6 DEF Mapping
  <2>2. Bearer' = d /\ OfferedTo' = d BY <1>1, <1>6, TakenNext DEF Mapping
  <2> QED BY <2>1, <2>2
<1> QED BY <1>1, <1>4, <1>5, <1>6 DEF One

(* Under the same conditions the hand-over is that of a token: an offer to *)
(* a cube that is there stands until this cube takes it, and no other one  *)
(* does, however late and however often its packets and their answers come *)
(* (baton.c:84, :226).                                                     *)
THEOREM HandsOverToken == ASSUME Reliable PROVE Spec => HandsOver
<1>1. Init => OneInv BY InitOne
<1>2. OneInv /\ [Next]_vars => OneInv' BY NextOne
<1>3. Init => Handover!Init
  <2> SUFFICES ASSUME Init PROVE Handover!Init
    OBVIOUS
  <2>1. PICK h \in Cube : Kept(h) BY InitKept
  <2> QED BY <2>1, Mapped DEF Mapping, Handover!Init
<1>4. OneInv /\ [Next]_vars => [Handover!Next]_(Handover!vars)
  <2> SUFFICES ASSUME OneInv, [Next]_vars PROVE [Handover!Next]_(Handover!vars)
    OBVIOUS
  <2>1. CASE Next BY <2>1, StepsOn
  <2>2. CASE UNCHANGED vars
    BY <2>2 DEF vars, Handover!vars, Bearer, OfferedTo, In
  <2> QED BY <2>1, <2>2
<1> QED BY <1>1, <1>2, <1>3, <1>4, PTL DEF Spec, HandsOver, Handover!Spec
=============================================================================
