---------------------------- MODULE AddressProofs ----------------------------
(***************************************************************************)
(* Proofs about Address, for any set of cubes, any range of addresses and  *)
(* any settings of the operator.  An address is held by a cube that uses   *)
(* it or that a packet on its way gives it to.  The inductive invariant    *)
(* IInv says that the addresses below floor that are held are below the    *)
(* counter (Behind), but for the one being handed out, which only its cube *)
(* may hold, and that no two cubes hold the same one (Single).             *)
(***************************************************************************)
EXTENDS Address, TLAPS

Held(c, a) ==
  \/ a \in Addresses(c)
  \/ \E d \in Cubes : heard[d] # None /\ heard[d].id = c /\ heard[d].address = a

Passed(c, a) ==
  IF serving = None THEN a < counter
  ELSE a < serving.address \/ (sent /\ c = serving.id /\ a = serving.address)

Behind == \A c \in Cubes, a \in Byte : Held(c, a) => a >= floor \/ Passed(c, a)

Single ==
  \A c, d \in Cubes, a \in Byte : c # d /\ Held(c, a) /\ Held(d, a) => a >= floor

Chosen == \A c \in Cubes : setting[c] # None => setting[c] >= floor

IInv == TypeOK /\ Behind /\ Single /\ Chosen

-----------------------------------------------------------------------------
LEMMA InitInv == ASSUME AddressAssumption PROVE Init => IInv
<1> SUFFICES ASSUME Init PROVE IInv
  OBVIOUS
<1> USE DEF Init
<1>1. First \in Byte \ {0} /\ Blank \in Byte /\ Default \in Byte /\ Upsets \in 0..Upsets
  BY DEF AddressAssumption, Byte, First
<1>2. TypeOK
  BY <1>1 DEF TypeOK
<1>3. \A c \in Cubes, a \in Byte : ~Held(c, a)
  BY DEF Held, Addresses
<1>4. Chosen
  BY DEF Chosen
<1> QED
  BY <1>2, <1>3, <1>4 DEF IInv, Behind, Single

(* A step that hands out no address: nobody holds one below floor that it  *)
(* did not hold before.                                                    *)
LEMMA NoneHandedOut ==
  ASSUME AddressAssumption, IInv, TypeOK', Chosen', floor' <= floor,
         \A c \in Cubes, a \in Byte : Held(c, a)' => Held(c, a) \/ a >= floor',
         \A c \in Cubes, a \in Byte : Passed(c, a) => Passed(c, a)' \/ a >= floor'
  PROVE  IInv'
<1>1. floor \in Int /\ floor' \in Int /\ Byte \subseteq Int
  BY DEF IInv, TypeOK, Byte, AddressAssumption
<1>2. Behind'
  BY <1>1 DEF IInv, Behind, Byte
<1>3. Single'
  BY <1>1 DEF IInv, Single, Byte
<1> QED
  BY <1>2, <1>3 DEF IInv

LEMMA ChosenByte ==
  ASSUME AddressAssumption, IInv
  PROVE  \A c \in Cubes : setting[c] # None => setting[c] \in 0..Blank /\ setting[c] >= floor
<1>1. \A c \in Cubes : setting[c] # None => setting[c] \in Settings
  BY DEF IInv, TypeOK
<1>2. Settings \subseteq 0..Blank
  BY DEF AddressAssumption
<1> QED
  BY <1>1, <1>2 DEF IInv, Chosen

(* floor only goes down, so what the operator chose stays above it.        *)
LEMMA StillChosen ==
  ASSUME AddressAssumption, IInv, UNCHANGED setting, floor' \in Byte, floor' <= floor
  PROVE  Chosen'
<1>1. floor \in 0..Blank /\ floor' \in 0..Blank /\ Blank \in Nat
  BY DEF AddressAssumption, IInv, TypeOK, Byte
<1>2. SUFFICES ASSUME NEW c \in Cubes, setting[c] # None PROVE setting[c] >= floor'
  BY DEF Chosen
<1>3. setting[c] \in 0..Blank /\ setting[c] >= floor
  BY <1>2, ChosenByte
<1> QED
  BY <1>1, <1>3

LEMMA UpsetLeft == ASSUME AddressAssumption, IInv, Upset PROVE left' \in 0..Upsets
BY DEF AddressAssumption, IInv, TypeOK, Upset

-----------------------------------------------------------------------------
(* The badge: only Reply hands an address out, to the cube it serves.      *)

LEMMA RequestInv == ASSUME AddressAssumption, IInv, NEW c \in Cubes, Request(c) PROVE IInv'
BY DEF IInv, TypeOK, Behind, Single, Chosen, Held, Addresses, Passed, Request, badge, cube

LEMMA ServeInv == ASSUME AddressAssumption, IInv, Serve PROVE IInv'
<1>1. TypeOK'
  <2>1. counter \in Byte \ {0} /\ asked \in Cubes
    BY DEF IInv, TypeOK, Serve
  <2>2. serving' \in Answer \cup {None}
    <3>1. CASE counter > MaxAssignable
      BY <3>1 DEF IInv, TypeOK, Serve
    <3>2. CASE ~(counter > MaxAssignable)
      BY <2>1, <3>2 DEF AddressAssumption, Byte, Serve, Answer
    <3> QED BY <3>1, <3>2
  <2> QED
    BY <2>2 DEF IInv, TypeOK, Serve, cube
<1>2. \A c \in Cubes, a \in Byte : Held(c, a)' => Held(c, a)
  BY DEF Serve, cube, Held, Addresses
<1>3. \A c \in Cubes, a \in Byte : Passed(c, a) => Passed(c, a)'
  BY DEF IInv, TypeOK, Serve, Passed
<1>4. Chosen' /\ floor' <= floor
  BY DEF AddressAssumption, IInv, TypeOK, Byte, Chosen, Serve, cube
<1> QED
  BY <1>1, <1>2, <1>3, <1>4, NoneHandedOut

LEMMA ReplyInv == ASSUME AddressAssumption, IInv, Reply PROVE IInv'
<1> DEFINE n == serving.address
           to == serving.id
<1>1. /\ serving \in Answer /\ n \in Byte /\ to \in Cubes
      /\ UNCHANGED <<serving, floor, setting, radio, cfg, saved, counter>>
  BY DEF AddressAssumption, IInv, TypeOK, Reply, Answer, Byte, cube
<1>2. TypeOK'
  BY <1>1 DEF IInv, TypeOK, Reply, cube
<1>3. \A c \in Cubes, a \in Byte : Held(c, a)' => Held(c, a) \/ (c = to /\ a = n)
  BY <1>1 DEF IInv, TypeOK, Reply, Held, Addresses
<1>4. \A c \in Cubes, a \in Byte : Held(c, a) => a >= floor \/ a < n
  BY DEF IInv, Behind, Passed, Reply
<1>5. \A c \in Cubes, a \in Byte : Passed(c, a)' <=> a < n \/ (c = to /\ a = n)
  BY <1>1 DEF Reply, Passed
<1>6. Behind'
  BY <1>1, <1>3, <1>4, <1>5 DEF Behind
<1>7. Single'
  BY <1>1, <1>3, <1>4 DEF AddressAssumption, IInv, Single, Byte
<1>8. Chosen'
  BY <1>1 DEF IInv, Chosen
<1> QED
  BY <1>2, <1>6, <1>7, <1>8 DEF IInv

LEMMA AdvanceInv == ASSUME AddressAssumption, IInv, Advance PROVE IInv'
<1>1. TypeOK'
  <2>1. serving \in Answer
    BY DEF IInv, TypeOK, Advance
  <2>2. serving.address + 1 \in Byte \ {0}
    BY <2>1 DEF AddressAssumption, Answer, Byte
  <2> QED
    BY <2>2 DEF IInv, TypeOK, Advance, cube
<1>2. \A c \in Cubes, a \in Byte : Held(c, a)' => Held(c, a)
  BY DEF Advance, cube, Held, Addresses
<1>3. \A c \in Cubes, a \in Byte : Passed(c, a) => Passed(c, a)'
  BY DEF AddressAssumption, IInv, TypeOK, Answer, Byte, Advance, Passed
<1>4. Chosen' /\ floor' <= floor
  BY DEF AddressAssumption, IInv, TypeOK, Byte, Chosen, Advance, cube
<1> QED
  BY <1>1, <1>2, <1>3, <1>4, NoneHandedOut

LEMMA BadgeFlushInv == ASSUME AddressAssumption, IInv, BadgeFlush PROVE IInv'
<1>1. TypeOK'
  BY DEF IInv, TypeOK, BadgeFlush, cube
<1>2. \A c \in Cubes, a \in Byte : Held(c, a)' => Held(c, a)
  BY DEF BadgeFlush, cube, Held, Addresses
<1>3. \A c \in Cubes, a \in Byte : Passed(c, a) => Passed(c, a)'
  BY DEF BadgeFlush, Passed
<1>4. Chosen' /\ floor' <= floor
  BY DEF AddressAssumption, IInv, TypeOK, Byte, Chosen, BadgeFlush, cube
<1> QED
  BY <1>1, <1>2, <1>3, <1>4, NoneHandedOut

(* floor follows the counter when the operator takes it back ...           *)
LEMMA BadgeSetInv == ASSUME AddressAssumption, IInv, BadgeSet PROVE IInv'
<1>1. PICK n \in Settings :
        counter' = n /\ IF n < counter THEN Lower(n) ELSE UNCHANGED floor
  BY DEF BadgeSet
<1>2. n \in Byte \ {0} /\ floor \in Byte /\ counter \in Byte
  BY DEF AddressAssumption, IInv, TypeOK, Byte
<1>3. floor' \in Byte /\ floor' <= floor /\ (n < counter => floor' <= n)
  BY <1>1, <1>2 DEF AddressAssumption, Byte, Lower
<1>4. TypeOK'
  BY <1>1, <1>2, <1>3, UpsetLeft DEF IInv, TypeOK, BadgeSet, cube
<1>5. \A c \in Cubes, a \in Byte : Held(c, a)' => Held(c, a)
  BY DEF BadgeSet, cube, Held, Addresses
<1>6. \A c \in Cubes, a \in Byte : Passed(c, a) => Passed(c, a)' \/ a >= floor'
  BY <1>1, <1>2, <1>3 DEF BadgeSet, Passed, AddressAssumption, Byte
<1>7. Chosen'
  BY <1>3, StillChosen DEF BadgeSet, cube
<1> QED
  BY <1>3, <1>4, <1>5, <1>6, <1>7, NoneHandedOut

(* ... and when a loss of power does.                                      *)
LEMMA BadgeCutInv == ASSUME AddressAssumption, IInv, BadgeCut PROVE IInv'
<1>1. kept' \in Byte \ {0} /\ counter' = kept' /\ floor \in Byte
  BY DEF AddressAssumption, IInv, TypeOK, Byte, BadgeCut, First
<1>2. floor' \in Byte /\ floor' <= floor /\ floor' <= counter'
  BY <1>1 DEF AddressAssumption, Byte, BadgeCut, Lower
<1>3. TypeOK'
  BY <1>1, <1>2, UpsetLeft DEF IInv, TypeOK, BadgeCut, cube
<1>4. \A c \in Cubes, a \in Byte : Held(c, a)' => Held(c, a)
  BY DEF BadgeCut, cube, Held, Addresses
<1>5. \A c \in Cubes, a \in Byte : Passed(c, a)' \/ a >= floor'
  BY <1>1, <1>2 DEF BadgeCut, Passed, AddressAssumption, Byte
<1>6. Chosen'
  BY <1>2, StillChosen DEF BadgeCut, cube
<1> QED
  BY <1>2, <1>3, <1>4, <1>5, <1>6, NoneHandedOut

-----------------------------------------------------------------------------
(* The cubes: an address moves from a packet to the cube it is for, or     *)
(* comes from the operator.                                                *)

LEMMA CubeStep ==
  ASSUME AddressAssumption, IInv, TypeOK', Chosen', floor' <= floor,
         UNCHANGED <<counter, serving, sent>>,
         \A c \in Cubes, a \in Byte : Held(c, a)' => Held(c, a) \/ a >= floor'
  PROVE  IInv'
<1>1. \A c \in Cubes, a \in Byte : Passed(c, a) => Passed(c, a)'
  BY DEF Passed
<1> QED
  BY <1>1, NoneHandedOut

LEMMA HandleInv == ASSUME AddressAssumption, IInv, NEW c \in Cubes, Handle(c) PROVE IInv'
<1>1. heard[c] \in Answer /\ heard[c].address \in Byte
  BY DEF AddressAssumption, IInv, TypeOK, Answer, Byte, Handle
<1>2. TypeOK'
  BY <1>1 DEF IInv, TypeOK, Handle, badge
<1>3. \A d \in Cubes, a \in Byte : Held(d, a)' => Held(d, a)
  <2> SUFFICES ASSUME NEW d \in Cubes, NEW a \in Byte, Held(d, a)' PROVE Held(d, a)
    OBVIOUS
  <2>1. CASE a \in Addresses(d)'
    BY <1>1, <2>1 DEF IInv, TypeOK, Handle, Held, Addresses
  <2>2. CASE a \notin Addresses(d)'
    BY <2>2 DEF IInv, TypeOK, Handle, Held
  <2> QED BY <2>1, <2>2
<1>4. Chosen' /\ floor' <= floor /\ UNCHANGED <<counter, serving, sent>>
  BY DEF AddressAssumption, IInv, TypeOK, Byte, Chosen, Handle, badge
<1> QED
  BY <1>2, <1>3, <1>4, CubeStep

LEMMA SetRadioInv == ASSUME AddressAssumption, IInv, NEW c \in Cubes, SetRadio(c) PROVE IInv'
<1>1. PICK n \in Settings : /\ radio' = [radio EXCEPT ![c] = n]
                            /\ setting' = [setting EXCEPT ![c] = n]
                            /\ Lower(n)
  BY DEF SetRadio
<1>2. n \in Byte /\ floor \in Byte
  BY DEF AddressAssumption, IInv, TypeOK, Byte
<1>3. floor' \in Byte /\ floor' <= floor /\ floor' <= n
  BY <1>1, <1>2 DEF AddressAssumption, Byte, Lower
<1>4. TypeOK'
  BY <1>1, <1>2, <1>3, UpsetLeft DEF IInv, TypeOK, SetRadio, badge
<1>5. \A d \in Cubes, a \in Byte : Held(d, a)' => Held(d, a) \/ a >= floor'
  <2>1. \A d \in Cubes, a \in Byte : a \in Addresses(d)' => a \in Addresses(d) \/ a = n
    <3>1. \A d \in Cubes : radio'[d] = radio[d] \/ radio'[d] = n
      BY <1>1 DEF IInv, TypeOK
    <3> QED
      BY <3>1 DEF SetRadio, Addresses
  <2> QED
    BY <1>3, <2>1 DEF SetRadio, Held
<1>6. Chosen'
  <2>1. \A d \in Cubes : setting'[d] = IF d = c THEN n ELSE setting[d]
    BY <1>1 DEF IInv, TypeOK
  <2>2. floor \in 0..Blank /\ floor' \in 0..Blank /\ Blank \in Nat
    BY <1>2, <1>3 DEF AddressAssumption, Byte
  <2>3. SUFFICES ASSUME NEW d \in Cubes, setting'[d] # None PROVE setting'[d] >= floor'
    BY DEF Chosen
  <2>4. CASE d = c
    BY <1>3, <2>1, <2>4
  <2>5. CASE d # c
    <3>1. setting[d] \in 0..Blank /\ setting[d] >= floor
      BY <2>1, <2>3, <2>5, ChosenByte
    <3> QED
      BY <1>3, <2>1, <2>2, <2>5, <3>1
  <2> QED
    BY <2>4, <2>5
<1> QED
  BY <1>3, <1>4, <1>5, <1>6, CubeStep DEF SetRadio, badge

LEMMA SetConfigInv == ASSUME AddressAssumption, IInv, NEW c \in Cubes, SetConfig(c) PROVE IInv'
<1>1. setting[c] \in Byte /\ setting[c] >= floor
  BY ChosenByte DEF SetConfig, Byte
<1>2. TypeOK'
  BY <1>1 DEF IInv, TypeOK, SetConfig, badge
<1>3. \A d \in Cubes, a \in Byte : Held(d, a)' => Held(d, a) \/ a >= floor'
  BY <1>1 DEF IInv, TypeOK, SetConfig, Held, Addresses
<1>4. Chosen' /\ floor' <= floor
  BY DEF AddressAssumption, IInv, TypeOK, Byte, Chosen, SetConfig
<1> QED
  BY <1>2, <1>3, <1>4, CubeStep DEF SetConfig, badge

LEMMA FlushInv == ASSUME AddressAssumption, IInv, NEW c \in Cubes, Flush(c) PROVE IInv'
<1>1. TypeOK'
  BY DEF IInv, TypeOK, Flush, badge
<1>2. \A d \in Cubes, a \in Byte : Held(d, a)' => Held(d, a)
  BY DEF IInv, TypeOK, Flush, Held, Addresses
<1>3. Chosen' /\ floor' <= floor
  BY DEF AddressAssumption, IInv, TypeOK, Byte, Chosen, Flush
<1> QED
  BY <1>1, <1>2, <1>3, CubeStep DEF Flush, badge

LEMMA ShipModeInv == ASSUME AddressAssumption, IInv, NEW c \in Cubes, ShipMode(c) PROVE IInv'
<1>1. TypeOK'
  BY DEF AddressAssumption, IInv, TypeOK, ShipMode, Upset, badge
<1>2. \A d \in Cubes, a \in Byte : Held(d, a)' => Held(d, a)
  BY DEF IInv, TypeOK, ShipMode, Held, Addresses
<1>3. Chosen' /\ floor' <= floor
  BY DEF AddressAssumption, IInv, TypeOK, Byte, Chosen, ShipMode
<1> QED
  BY <1>1, <1>2, <1>3, CubeStep DEF ShipMode, badge

LEMMA PowerCutInv == ASSUME AddressAssumption, IInv, NEW c \in Cubes, PowerCut(c) PROVE IInv'
<1>1. PICK b \in {saved[c], cfg[c], Default, Blank} : saved' = [saved EXCEPT ![c] = b]
  BY DEF PowerCut
<1>2. b \in Byte
  BY DEF AddressAssumption, IInv, TypeOK, Byte
<1>3. TypeOK'
  BY <1>1, <1>2 DEF AddressAssumption, IInv, TypeOK, PowerCut, Upset, badge
<1>4. \A d \in Cubes, a \in Byte : Held(d, a)' => Held(d, a)
  BY <1>1, <1>2 DEF IInv, TypeOK, PowerCut, Held, Addresses
<1>5. Chosen' /\ floor' <= floor
  BY DEF AddressAssumption, IInv, TypeOK, Byte, Chosen, PowerCut
<1> QED
  BY <1>3, <1>4, <1>5, CubeStep DEF PowerCut, badge

LEMMA BootInv == ASSUME AddressAssumption, IInv, NEW c \in Cubes, Boot(c) PROVE IInv'
<1>1. TypeOK'
  BY DEF IInv, TypeOK, Boot, badge
<1>2. \A d \in Cubes, a \in Byte : Held(d, a)' => Held(d, a)
  BY DEF IInv, TypeOK, Boot, Held, Addresses
<1>3. Chosen' /\ floor' <= floor
  BY DEF AddressAssumption, IInv, TypeOK, Byte, Chosen, Boot
<1> QED
  BY <1>1, <1>2, <1>3, CubeStep DEF Boot, badge

-----------------------------------------------------------------------------
LEMMA NextInv == ASSUME AddressAssumption, IInv, [Next]_vars PROVE IInv'
<1>1. CASE Badge
  BY <1>1, ServeInv, ReplyInv, AdvanceInv, BadgeFlushInv, BadgeSetInv, BadgeCutInv DEF Badge
<1>2. ASSUME NEW c \in Cubes,
             \/ Request(c) \/ Handle(c) \/ SetRadio(c) \/ SetConfig(c)
             \/ Flush(c) \/ ShipMode(c) \/ PowerCut(c) \/ Boot(c)
      PROVE IInv'
  BY <1>2, RequestInv, HandleInv, SetRadioInv, SetConfigInv, FlushInv, ShipModeInv,
     PowerCutInv, BootInv
<1>3. CASE UNCHANGED vars
  BY <1>3 DEF vars, badge, cube, IInv, TypeOK, Behind, Single, Chosen, Held, Addresses, Passed
<1> QED
  BY <1>1, <1>2, <1>3 DEF Next

LEMMA Invariance == ASSUME AddressAssumption PROVE Spec => []IInv
<1>1. Init => IInv
  BY InitInv
<1>2. IInv /\ [Next]_vars => IInv'
  BY NextInv
<1> QED
  BY <1>1, <1>2, PTL DEF Spec

(* Counters and addresses fit in their byte and the badge only ever hands  *)
(* out assignable addresses, whatever the operator and losses of power do  *)
(* (src-heart/address.c:39-61).                                            *)
THEOREM TypeCorrect == ASSUME AddressAssumption PROVE Spec => []TypeOK
<1>1. IInv => TypeOK
  BY DEF IInv
<1> QED
  BY <1>1, Invariance, PTL

(* For any number of cubes: two of them share no address below all numbers *)
(* the counter went back to or a cube was set to (src/address.c:49-60,     *)
(* src-heart/address.c:39-61).                                             *)
THEOREM NoReuse == ASSUME AddressAssumption PROVE Spec => []OnlyRecentReused
<1>1. IInv => OnlyRecentReused
  <2> SUFFICES ASSUME IInv, NEW c \in Cubes, NEW d \in Cubes, c # d,
                      NEW a \in Addresses(c) \cap Addresses(d)
               PROVE  a >= floor
    BY DEF OnlyRecentReused
  <2>1. a \in Byte
    BY DEF IInv, TypeOK, Addresses
  <2> QED
    BY <2>1 DEF IInv, Single, Held
<1> QED
  BY <1>1, Invariance, PTL
=============================================================================
