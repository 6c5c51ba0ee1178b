------------------------------- MODULE Address -------------------------------
(***************************************************************************)
(* Where the cubes get their addresses from.  A cube without one asks the  *)
(* master badge (src/address.c), which answers every request with the next *)
(* number of its counter (src-heart/address.c).  Both keep what they know  *)
(* in the userconfig structure (userconfig.c): a cache in RAM, which       *)
(* configLazyFlush writes to its block of the flash once a second.         *)
(*                                                                         *)
(* Packets are broadcast and may be lost; a radio holds one until its      *)
(* event thread takes it.  Power may go at any time.  What that leaves of  *)
(* a flush that is under way is what Storage shows to be possible: the old *)
(* block, the new one, or one whose words are blank from some word on.     *)
(* Without a signature or a version the next boot replaces it by the       *)
(* defaults, otherwise it is taken as it is.  Other fields of userconfig   *)
(* make a flush necessary too, so there may always be one under way.       *)
(***************************************************************************)
EXTENDS Integers

CONSTANTS
  Cubes,          (* the cubes, each with an identifier of its own         *)
  None,
  MaxAssignable,  (* MAX_ASSIGNABLE_ADDRESS                                *)
  Default,        (* RADIO_DEFAULT_NODE_ADDRESS of a cube: it has none     *)
  Blank,          (* an erased byte                                        *)
  Settings,       (* what the operator sets an address or the counter to   *)
  Upsets          (* bound: how often the operator sets one, or power goes *)

ASSUME AddressAssumption ==
  /\ MaxAssignable \in Nat \ {0} /\ Blank \in Nat /\ MaxAssignable + 1 < Blank
  /\ Default \in 1..MaxAssignable
  /\ Settings \subseteq 1..(Blank - 1)
  /\ Upsets \in Nat
  /\ None \notin Cubes

Byte == 0..Blank
First == 1                  (* the counter of a badge with defaults        *)
Answer == [id : Cubes, address : 1..MaxAssignable]

VARIABLES
  counter,        (* the badge's cfg_addressCounter                        *)
  kept,           (* that field in its flash                               *)
  asked,          (* the request its radio holds                           *)
  serving,        (* the answer handleAddressRequest is about to give      *)
  sent,           (* has that answer been sent?                            *)
  radio,          (* radio->address of each cube                           *)
  cfg,            (* its cfg_address                                       *)
  saved,          (* that field in its flash                               *)
  heard,          (* the answer its radio holds                            *)
  setting,        (* the address radioSetAddress has yet to put into cfg,  *)
                  (* called by the shell                                   *)
  power,          (* "on", "off" or "shipped": switched off in good order  *)
  floor,          (* the smallest number a cube was set to or the counter  *)
                  (* went back to, by the operator or by a loss of power   *)
  left            (* how many upsets are left                              *)

badge == <<counter, kept, serving, sent>>
cube == <<radio, cfg, saved, setting, power>>
vars == <<badge, asked, cube, heard, floor, left>>

Upset == left > 0 /\ left' = left - 1
Lower(n) == floor' = IF n < floor THEN n ELSE floor

-----------------------------------------------------------------------------
(* The badge.  Its event thread, which runs the handler, also flushes the  *)
(* configuration; the shell can run while the handler sleeps.              *)

(* requestRadioAddress: at boot, by an effect that needs the address, or   *)
(* from the shell.                                                         *)
Request(c) ==
  /\ power[c] = "on"
  /\ asked = None /\ asked' = c
  /\ UNCHANGED <<badge, cube, heard, floor, left>>

(* Mutant: the counter is not compared with the last address.              *)
ServeAlways ==
  /\ asked # None /\ serving = None
  /\ asked' = None
  /\ serving' = [id |-> asked, address |-> counter]
  /\ UNCHANGED <<counter, kept, sent, cube, heard, floor, left>>

(* handleAddressRequest reads the counter ...                              *)
Serve ==
  /\ asked # None /\ serving = None
  /\ asked' = None
  /\ IF counter > MaxAssignable THEN UNCHANGED serving
     ELSE serving' = [id |-> asked, address |-> counter]
  /\ UNCHANGED <<counter, kept, sent, cube, heard, floor, left>>

(* ... sends the answer after 10 ms ...                                    *)
Reply ==
  /\ serving # None /\ ~sent
  /\ \E got \in SUBSET {c \in Cubes : power[c] = "on" /\ heard[c] = None} :
       heard' = [c \in Cubes |-> IF c \in got THEN serving ELSE heard[c]]
  /\ sent' = TRUE
  /\ UNCHANGED <<counter, kept, serving, asked, cube, floor, left>>

(* ... and then writes the counter back.                                   *)
Advance ==
  /\ serving # None /\ sent
  /\ counter' = serving.address + 1
  /\ serving' = None /\ sent' = FALSE
  /\ UNCHANGED <<kept, asked, cube, heard, floor, left>>

BadgeFlush ==
  /\ serving = None /\ kept # counter
  /\ kept' = counter
  /\ UNCHANGED <<counter, serving, sent, asked, cube, heard, floor, left>>

(* The shell's "address set" on the badge.                                 *)
BadgeSet ==
  /\ Upset
  /\ \E n \in Settings :
       /\ counter' = n
       /\ IF n < counter THEN Lower(n) ELSE UNCHANGED floor
  /\ UNCHANGED <<kept, serving, sent, asked, cube, heard>>

(* Power goes, and comes back.                                             *)
BadgeCut ==
  /\ Upset
  /\ kept' \in {kept, counter, First, Blank}
  /\ counter' = kept' /\ Lower(kept')
  /\ serving' = None /\ sent' = FALSE /\ asked' = None
  /\ UNCHANGED <<cube, heard>>

-----------------------------------------------------------------------------
(* A cube.                                                                 *)

(* Mutant: the identifier in the answer is not looked at.                  *)
HandleAny(c) ==
  /\ heard[c] # None
  /\ heard' = [heard EXCEPT ![c] = None]
  /\ radio' = [radio EXCEPT ![c] = heard[c].address]
  /\ cfg' = [cfg EXCEPT ![c] = heard[c].address]
  /\ UNCHANGED <<badge, asked, saved, setting, power, floor, left>>

(* handleAddressResponse: radioSetAddress if the answer is for this cube.  *)
Handle(c) ==
  /\ heard[c] # None
  /\ heard' = [heard EXCEPT ![c] = None]
  /\ IF heard[c].id = c
     THEN /\ radio' = [radio EXCEPT ![c] = heard[c].address]
          /\ cfg' = [cfg EXCEPT ![c] = heard[c].address]
     ELSE UNCHANGED <<radio, cfg>>
  /\ UNCHANGED <<badge, asked, saved, setting, power, floor, left>>

(* radioSetAddress again, for the shell's "address set".  The event thread *)
(* may come in between its two assignments.                                *)
SetRadio(c) ==
  /\ Upset
  /\ power[c] = "on" /\ setting[c] = None
  /\ \E n \in Settings : /\ radio' = [radio EXCEPT ![c] = n]
                         /\ setting' = [setting EXCEPT ![c] = n]
                         /\ Lower(n)
  /\ UNCHANGED <<badge, asked, cfg, saved, heard, power>>

SetConfig(c) ==
  /\ setting[c] # None
  /\ cfg' = [cfg EXCEPT ![c] = setting[c]]
  /\ setting' = [setting EXCEPT ![c] = None]
  /\ UNCHANGED <<badge, asked, radio, saved, heard, power, floor, left>>

(* configLazyFlush.                                                        *)
Flush(c) ==
  /\ power[c] = "on" /\ saved[c] # cfg[c]
  /\ saved' = [saved EXCEPT ![c] = cfg[c]]
  /\ UNCHANGED <<badge, asked, radio, cfg, setting, power, heard, floor, left>>

(* The switch has been held for two seconds: sw_proc calls chargerShipMode, *)
(* which cuts the power off.                                               *)
ShipMode(c) ==
  /\ Upset
  /\ power[c] = "on"
  /\ power' = [power EXCEPT ![c] = "shipped"]
  /\ heard' = [heard EXCEPT ![c] = None]
  /\ setting' = [setting EXCEPT ![c] = None]
  /\ UNCHANGED <<badge, asked, radio, cfg, saved, floor>>

PowerCut(c) ==
  /\ Upset
  /\ power[c] = "on"
  /\ power' = [power EXCEPT ![c] = "off"]
  /\ \E a \in {saved[c], cfg[c], Default, Blank} : saved' = [saved EXCEPT ![c] = a]
  /\ heard' = [heard EXCEPT ![c] = None]
  /\ setting' = [setting EXCEPT ![c] = None]
  /\ UNCHANGED <<badge, asked, radio, cfg, floor>>

(* configStart and radioStart.                                             *)
Boot(c) ==
  /\ power[c] # "on"
  /\ power' = [power EXCEPT ![c] = "on"]
  /\ radio' = [radio EXCEPT ![c] = saved[c]]
  /\ cfg' = [cfg EXCEPT ![c] = saved[c]]
  /\ UNCHANGED <<badge, asked, saved, heard, setting, floor, left>>

-----------------------------------------------------------------------------
Init ==
  /\ counter = First /\ kept = First /\ asked = None /\ serving = None /\ sent = FALSE
  /\ radio = [c \in Cubes |-> Default] /\ cfg = radio /\ saved = radio
  /\ heard = [c \in Cubes |-> None] /\ setting = heard
  /\ power = [c \in Cubes |-> "on"]
  /\ floor = Blank /\ left = Upsets

Badge == Serve \/ Reply \/ Advance \/ BadgeFlush \/ BadgeSet \/ BadgeCut

Next ==
  \/ Badge
  \/ \E c \in Cubes :
       \/ Request(c) \/ Handle(c) \/ SetRadio(c) \/ SetConfig(c)
       \/ Flush(c) \/ ShipMode(c) \/ PowerCut(c) \/ Boot(c)

Spec == Init /\ [][Next]_vars

-----------------------------------------------------------------------------
TypeOK ==
  /\ counter \in Byte \ {0} /\ kept \in Byte \ {0}
  /\ asked \in Cubes \cup {None} /\ serving \in Answer \cup {None} /\ sent \in BOOLEAN
  /\ radio \in [Cubes -> Byte] /\ cfg \in [Cubes -> Byte] /\ saved \in [Cubes -> Byte]
  /\ heard \in [Cubes -> Answer \cup {None}] /\ setting \in [Cubes -> Settings \cup {None}]
  /\ power \in [Cubes -> {"on", "off", "shipped"}]
  /\ floor \in Byte /\ left \in 0..Upsets

Addresses(c) == {radio[c], cfg[c], saved[c]} \ {Default, Blank}

(* An address handed out is not handed out again: two cubes only ever share *)
(* one that is not below the number the badge's counter was set back to by *)
(* a loss of power before its flush, or that the operator gave.  Lost      *)
(* packets, repeated requests and the operator's changes of the counter in *)
(* the middle of an answer (address.c:40-60) make no difference.           *)
OnlyRecentReused ==
  \A c, d \in Cubes : c # d => \A a \in Addresses(c) \cap Addresses(d) : a >= floor
=============================================================================
