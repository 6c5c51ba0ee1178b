------------------------------- MODULE Friends -------------------------------
(***************************************************************************)
(* Who is near: the list of friends in src-heart/orchard-app.c.  Everybody *)
(* pings every MinGap to MaxGap seconds.  A ping heard adds a credit to    *)
(* its sender's record, every other ping sent takes one from all records,  *)
(* and a record without credit is freed.                                   *)
(*                                                                         *)
(* All of it runs in the event thread, but for friendClear, which an       *)
(* application calls under friend_mutex.  A record is the credit of a name, *)
(* 0 when there is none; the order of the list is not kept.                *)
(***************************************************************************)
EXTENDS Integers, FiniteSets

CONSTANTS
  Names,                 (* of the others                                  *)
  MaxFriends,            (* MAX_FRIENDS, the records there is room for     *)
  InitCredit, MaxCredit, (* FRIENDS_INIT_CREDIT and FRIENDS_MAX_CREDIT     *)
  MinGap, MaxGap,        (* the shortest and the longest time between two  *)
                         (* pings, in seconds.  rand() is signed, so it is *)
                         (* PING_MIN_INTERVAL less or more than nearly     *)
                         (* PING_RAND_INTERVAL: 3001 to 6999 ms            *)
  Grace,                 (* pings heard for which a new friend is sure to  *)
                         (* be kept                                        *)
  Losses,                (* bound: pings lost                              *)
  Moves                  (* bound: arrivals, departures and changes of mode *)

ASSUME FriendsAssumption ==
  /\ IsFiniteSet(Names) /\ MaxFriends \in Nat
  /\ InitCredit \in 1..MaxCredit /\ MaxCredit \in Nat
  /\ MinGap \in 1..MaxGap /\ MaxGap \in Nat
  /\ {Grace, Losses, Moves} \subseteq Nat

VARIABLES
  credit,       (* credit of each name, 0 if it has no record              *)
  cleanup,      (* cleanup_state                                           *)
  anonymous,    (* silent mode                                             *)
  timer,        (* seconds until ping_timer ends                           *)
  due,          (* seconds until each of the others pings                  *)
  near,         (* who is near, and not in silent mode                     *)
  since,        (* pings heard of each since its record was added, counted *)
                (* up to Grace + 1; only NearKept reads it                 *)
  losses, moves (* how many are left                                       *)

vars == <<credit, cleanup, anonymous, timer, due, near, since, losses, moves>>

Gap == MinGap..MaxGap
Friends == {n \in Names : credit[n] > 0}

-----------------------------------------------------------------------------
(* Mutant: friend_cleanup at every ping.                                   *)
PingAndCleanup ==
  /\ timer = 0
  /\ credit' = [n \in Names |-> IF credit[n] > 0 THEN credit[n] - 1 ELSE 0]
  /\ cleanup' = ~cleanup
  /\ timer' \in Gap
  /\ UNCHANGED <<anonymous, due, near, since, losses, moves>>

(* Mutant: friend_cleanup as long as there is more than one credit.        *)
PingKeeping ==
  /\ timer = 0
  /\ credit' = [n \in Names |-> IF cleanup /\ credit[n] > 1 THEN credit[n] - 1 ELSE credit[n]]
  /\ cleanup' = ~cleanup
  /\ timer' \in Gap
  /\ UNCHANGED <<anonymous, due, near, since, losses, moves>>

(* handle_ping_timeout, with friend_cleanup at every other ping.           *)
Ping ==
  /\ timer = 0
  /\ credit' = [n \in Names |-> IF cleanup /\ credit[n] > 0 THEN credit[n] - 1 ELSE credit[n]]
  /\ cleanup' = ~cleanup
  /\ timer' \in Gap
  /\ UNCHANGED <<anonymous, due, near, since, losses, moves>>

(* Mutant: the credit of a friend has no limit.                            *)
CreditedMore(n) ==
  IF n \in Friends THEN credit[n] + 1
  ELSE IF Cardinality(Friends) < MaxFriends THEN InitCredit + 1 ELSE 0

(* friend_lookup, friend_add and the credit of this ping.                  *)
Credited(n) ==
  LET found == IF n \in Friends THEN credit[n]
               ELSE IF Cardinality(Friends) < MaxFriends THEN InitCredit ELSE 0
  IN IF found \in 1..(MaxCredit - 1) THEN found + 1 ELSE found

Counted(n) ==
  IF n \notin Friends THEN 0 ELSE IF since[n] <= Grace THEN since[n] + 1 ELSE since[n]

(* radio_ping_received.                                                    *)
Received(n) ==
  /\ due[n] = 0 /\ n \in near
  /\ credit' = [credit EXCEPT ![n] = IF anonymous THEN @ ELSE Credited(n)]
  /\ since' = [since EXCEPT ![n] = Counted(n)]
  /\ due' \in {[due EXCEPT ![n] = g] : g \in Gap}
  /\ UNCHANGED <<cleanup, anonymous, timer, near, losses, moves>>

Lost(n) ==
  /\ due[n] = 0 /\ n \in near /\ losses > 0
  /\ losses' = losses - 1
  /\ due' \in {[due EXCEPT ![n] = g] : g \in Gap}
  /\ UNCHANGED <<credit, cleanup, anonymous, timer, near, since, moves>>

-----------------------------------------------------------------------------
(* friendClear, at a change of the radio's settings.                       *)
Clear ==
  /\ moves > 0 /\ moves' = moves - 1
  /\ credit' = [n \in Names |-> 0]
  /\ UNCHANGED <<cleanup, anonymous, timer, due, near, since, losses>>

(* Silent mode goes on, which clears the list, or off.                     *)
Silent ==
  /\ moves > 0 /\ moves' = moves - 1
  /\ anonymous' = ~anonymous
  /\ credit' = [n \in Names |-> IF anonymous' THEN 0 ELSE credit[n]]
  /\ UNCHANGED <<cleanup, timer, due, near, since, losses>>

(* Who comes back before it was forgotten is taken for near all the time,  *)
(* its pings for lost.                                                     *)
Arrive(n) ==
  /\ n \notin near \cup Friends /\ moves > 0 /\ moves' = moves - 1
  /\ near' = near \cup {n}
  /\ due' \in {[due EXCEPT ![n] = g] : g \in 0..MaxGap}
  /\ UNCHANGED <<credit, cleanup, anonymous, timer, since, losses>>

Leave(n) ==
  /\ n \in near /\ moves > 0 /\ moves' = moves - 1
  /\ near' = near \ {n}
  /\ due' = [due EXCEPT ![n] = MaxGap]
  /\ UNCHANGED <<credit, cleanup, anonymous, timer, since, losses>>

(* A second.                                                               *)
Tick ==
  /\ timer > 0 /\ \A n \in near : due[n] > 0
  /\ timer' = timer - 1
  /\ due' = [n \in Names |-> IF n \in near THEN due[n] - 1 ELSE due[n]]
  /\ UNCHANGED <<credit, cleanup, anonymous, near, since, losses, moves>>

(* orchardAppInit pings at once.                                           *)
Init ==
  /\ credit = [n \in Names |-> 0]
  /\ cleanup = FALSE /\ anonymous = FALSE /\ timer = 0
  /\ due = [n \in Names |-> MaxGap] /\ near = {} /\ since = [n \in Names |-> 0]
  /\ losses = Losses /\ moves = Moves

Next ==
  \/ Ping \/ Clear \/ Silent \/ Tick
  \/ \E n \in Names : Received(n) \/ Lost(n) \/ Arrive(n) \/ Leave(n)

Spec == Init /\ [][Next]_vars

(* Time goes on and the event thread runs.                                 *)
FairSpec == Spec /\ WF_vars(Ping) /\ WF_vars(Tick) /\ \A n \in Names : WF_vars(Received(n))

-----------------------------------------------------------------------------
(* The credit is what one byte per record is meant to hold.                *)
TypeOK ==
  /\ credit \in [Names -> 0..MaxCredit] /\ Cardinality(Friends) <= MaxFriends
  /\ cleanup \in BOOLEAN /\ anonymous \in BOOLEAN
  /\ timer \in 0..MaxGap /\ due \in [Names -> 0..MaxGap] /\ near \subseteq Names
  /\ since \in [Names -> 0..(Grace + 1)]
  /\ losses \in 0..Losses /\ moves \in 0..Moves

(* A friend who stays near keeps its record for Grace pings at least,      *)
(* whatever the phases of the two timers, though its pings may come less   *)
(* often than the clean-ups and Losses of them get lost, unless the list   *)
(* is cleared (orchard-app.c:87-95).                                       *)
NearKept ==
  [][\A n \in near : credit[n] > 0 /\ since[n] <= Grace => credit'[n] > 0 \/ moves' < moves]_vars

(* Who is near for good, and alone, gets onto the list, and back onto it   *)
(* whenever it was dropped, however full the list is of people who have    *)
(* gone (orchard-app.c:148-149, 190-214).                                  *)
Noticed == \A n \in Names :
  <>[](near = {n} /\ ~anonymous) => []<>(credit[n] > 0)

(* Who has gone is forgotten, and so is everybody in silent mode: no late  *)
(* ping brings a record back.                                              *)
Forgotten == \A n \in Names : <>[](n \notin near \/ anonymous) => <>[](credit[n] = 0)
=============================================================================
