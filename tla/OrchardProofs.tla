---------------------------- MODULE OrchardProofs ----------------------------
(***************************************************************************)
(* The two components of src-heart/orchard-app.c.                          *)
(*                                                                         *)
(* For any set of applications: the working area of the application's      *)
(* thread is used again only when its thread is gone, and a thread is told *)
(* to end only by a request made to it.                                    *)
(*                                                                         *)
(* For any credits, intervals and number of names: the list of friends     *)
(* keeps to its bounds, and a friend who stays near keeps its record for a *)
(* number of pings, however the two timers meet, if the first credits      *)
(* outlast these pings and the longest silence (Enough).                   *)
(***************************************************************************)
EXTENDS Apps, Friends, FiniteSetTheorems, TLAPS

-----------------------------------------------------------------------------
(* Applications.                                                           *)

(* The event is pending only from the exit of the thread to the next one,  *)
(* and the pointer is cleared only in between.                             *)
Handed == ended => pc = "dead"
Cleared == ~thr => pc = "dead"

(* The event of a request does not outlive the thread.                     *)
Quiet == pc = "dead" => ~evt

(* A thread on its way to its end, or that will be, knows what comes next. *)
Told == pc = "end" \/ ((term \/ evt) /\ Running) => next # None

AppsInv == AppsTypeOK /\ Handed /\ Cleared /\ Quiet /\ Told

LEMMA AppsInitInv == AppsInit => AppsInv
<1> SUFFICES ASSUME AppsInit PROVE AppsInv
  OBVIOUS
<1>1. ~term /\ ~evt /\ ~ended /\ pc = "dead" BY DEF AppsInit
<1>2. AppsTypeOK
  <2>1. presses \in 0..Presses BY AppsAssumption DEF AppsInit
  <2>2. ~(term /\ (Running \/ pc = "end")) BY <1>1
  <2>3. /\ thr \in BOOLEAN /\ term \in BOOLEAN /\ evt \in BOOLEAN /\ ended \in BOOLEAN
        /\ held \in BOOLEAN /\ touch \in BOOLEAN /\ engaged \in BOOLEAN /\ armed \in BOOLEAN
    BY DEF AppsInit
  <2> QED BY <1>1, <2>1, <2>2, <2>3, AppsAssumption DEF AppsTypeOK, AppsInit
<1>3. Handed /\ Cleared /\ Quiet /\ Told BY <1>1 DEF Handed, Cleared, Quiet, Told, Running
<1> QED BY <1>2, <1>3 DEF AppsInv

(* The application's own steps.                                            *)
LEMMA AppInv ==
  ASSUME AppsInv, App \/ (\E a \in Apps : Run(a))
  PROVE  AppsInv'
<1> USE AppsAssumption DEF AppsInv, AppsTypeOK, Handed, Cleared, Quiet, Told, Running, keys
<1>1. CASE Begin BY <1>1 DEF Begin
<1>2. CASE Check
  <2>1. term => pc' = "end" BY <1>2 DEF Check
  <2>2. ~term => pc' = "wait" BY <1>2 DEF Check
  <2> QED BY <1>2, <2>1, <2>2 DEF Check
<1>3. CASE Terminate BY <1>3 DEF Terminate
<1>4. CASE Decide BY <1>4 DEF Decide
<1>5. CASE ClearNext BY <1>5 DEF ClearNext
<1>6. CASE ResetTimer BY <1>6 DEF ResetTimer
<1>7. CASE Exit BY <1>7 DEF Exit
<1>8. ASSUME NEW a \in Apps, Run(a) PROVE AppsInv' BY <1>8 DEF Run
<1> QED BY <1>1, <1>2, <1>3, <1>4, <1>5, <1>6, <1>7, <1>8 DEF App

(* The steps of the event thread, of the interrupt, the key and the shell. *)
LEMMA AppsOthersInv ==
  ASSUME AppsInv, EventThread \/ Press \/ RunLauncher \/ Fault \/ (\E a \in Apps : RunTest(a))
  PROVE  AppsInv'
<1> USE AppsAssumption DEF AppsInv, AppsTypeOK, Handed, Cleared, Quiet, Told, Running, keys
<1>1. CASE Release BY <1>1 DEF Release
<1>2. CASE Create BY <1>2 DEF Create
<1>3. CASE Poke BY <1>3 DEF Poke
<1>4. CASE Press BY <1>4 DEF Press
<1>5. CASE RunLauncher BY <1>5 DEF RunLauncher, Hooked
<1>6. CASE Fault BY <1>6 DEF Fault
<1>7. ASSUME NEW a \in Apps, RunTest(a) PROVE AppsInv' BY <1>7 DEF RunTest, Hooked
<1> QED BY <1>1, <1>2, <1>3, <1>4, <1>5, <1>6, <1>7 DEF EventThread

LEMMA AppsNextInv == AppsInv /\ [AppsNext]_appsVars => AppsInv'
<1> SUFFICES ASSUME AppsInv, [AppsNext]_appsVars PROVE AppsInv'
  OBVIOUS
<1>1. CASE UNCHANGED appsVars
  BY <1>1 DEF AppsInv, AppsTypeOK, Handed, Cleared, Quiet, Told, Running, appsVars, keys
<1>2. CASE AppsNext
  BY <1>2, AppInv, AppsOthersInv DEF AppsNext
<1> QED BY <1>1, <1>2

(* A thread is told to end only by a request made while it runs.           *)
THEOREM AppsTypeCorrect == AppsSpec => []AppsTypeOK
<1>1. AppsInit => AppsInv BY AppsInitInv
<1>2. AppsInv /\ [AppsNext]_appsVars => AppsInv' BY AppsNextInv
<1>3. AppsInv => AppsTypeOK BY DEF AppsInv
<1> QED BY <1>1, <1>2, <1>3, PTL DEF AppsSpec

(* The assertion of orchardAppRestart never fires.                         *)
THEOREM NeverAsserts == AppsSpec => []NoAssert
<1>1. AppsInit => AppsInv BY AppsInitInv
<1>2. AppsInv /\ [AppsNext]_appsVars => AppsInv' BY AppsNextInv
<1>3. AppsInv => NoAssert BY DEF AppsInv, Handed, Cleared, NoAssert
<1> QED BY <1>1, <1>2, <1>3, PTL DEF AppsSpec

-----------------------------------------------------------------------------
(* Friends.                                                                *)

(* The shortest time between two clean-ups.                                *)
Pair == 2 * MinGap

(* The time that c credits last, and the time that l lost pings take.      *)
Worth(c) == c * Pair
Owed(l) == l * MaxGap

(* What a ping that is heard costs at most, since it may come later than   *)
(* the clean-up whose credit it makes good, and what p of them do.         *)
Slack == IF MaxGap > Pair THEN MaxGap - Pair ELSE 0
Drain(p) == p * Slack

(* With the firmware's values, in milliseconds: Pair is 6002, MaxGap 6999, *)
(* so Grace may be 17 if no ping is lost, 10 with one lost and 3 with two. *)
Enough == InitCredit < MaxCredit /\ Drain(Grace) + Owed(Losses + 1) < Worth(InitCredit)

LEMMA Times ==
  /\ MinGap \in Nat /\ MaxGap \in Nat /\ Pair \in Nat /\ Pair > 0
  /\ InitCredit \in Nat /\ InitCredit > 0 /\ InitCredit <= MaxCredit /\ MaxCredit \in Nat
  /\ Losses \in Nat /\ Moves \in Nat /\ MaxFriends \in Nat /\ Grace \in Nat
  /\ Slack \in Nat /\ MaxGap <= Pair + Slack
BY FriendsAssumption DEF Pair, Slack

LEMMA WorthFacts ==
  /\ Worth(1) = Pair
  /\ \A c \in Nat : Worth(c) \in Nat /\ Worth(c + 1) = Worth(c) + Pair
  /\ \A c \in Nat : c > 0 => c - 1 \in Nat /\ Worth(c) = Worth(c - 1) + Pair
BY Times DEF Worth

LEMMA OwedFacts ==
  /\ \A l \in Nat : Owed(l) \in Nat /\ Owed(l + 1) = Owed(l) + MaxGap
  /\ \A l \in Nat : l > 0 => Owed(l) = Owed(l - 1) + MaxGap
  /\ \A k, l \in Nat : k <= l => Owed(k) <= Owed(l)
BY Times DEF Owed

LEMMA DrainFacts ==
  /\ \A p \in Nat : Drain(p) \in Nat
  /\ \A p \in Nat : p > 0 => Drain(p) = Drain(p - 1) + Slack
  /\ \A p, q \in Nat : p <= q => Drain(p) <= Drain(q)
BY Times DEF Drain

LEMMA WorthGrows == \A c, d \in Nat : c <= d => Worth(c) <= Worth(d)
BY Times DEF Worth

-----------------------------------------------------------------------------
(* The list.                                                               *)

LEMMA FriendsFinite == IsFiniteSet(Friends)
BY FriendsAssumption, FS_Subset DEF Friends

LEMMA InitTypeOK == Init => TypeOK
<1> SUFFICES ASSUME Init PROVE TypeOK
  OBVIOUS
<1>1. Friends = {} BY DEF Init, Friends
<1>2. Cardinality(Friends) <= MaxFriends BY <1>1, FS_EmptySet, Times
<1>3. credit \in [Names -> 0..MaxCredit] /\ due \in [Names -> 0..MaxGap]
  BY Times DEF Init
<1>4. timer \in 0..MaxGap /\ losses \in 0..Losses /\ moves \in 0..Moves
  BY Times DEF Init
<1>5. cleanup \in BOOLEAN /\ anonymous \in BOOLEAN /\ near \subseteq Names
  BY DEF Init
<1>6. since \in [Names -> 0..(Grace + 1)]
  BY Times DEF Init
<1> QED BY <1>2, <1>3, <1>4, <1>5, <1>6 DEF TypeOK

(* Whatever only takes credits away leaves no more friends.                *)
LEMMA NotMore ==
  ASSUME TypeOK, credit' \in [Names -> 0..MaxCredit], Friends' \subseteq Friends
  PROVE  Cardinality(Friends') <= MaxFriends
<1>1. /\ Cardinality(Friends') <= Cardinality(Friends)
      /\ Cardinality(Friends) \in Nat /\ Cardinality(Friends') \in Nat
  BY FriendsFinite, FS_Subset, FS_CardinalityType
<1> QED BY <1>1, Times DEF TypeOK

(* A record is added only if there is room for one.                        *)
LEMMA ReceivedTypeOK ==
  ASSUME TypeOK, NEW n \in Names, Received(n)
  PROVE  TypeOK'
<1>1. Credited(n) \in 0..MaxCredit
  BY Times DEF TypeOK, Credited, Friends
<1>2. credit' \in [Names -> 0..MaxCredit]
  BY <1>1 DEF TypeOK, Received
<1>3. Cardinality(Friends') <= MaxFriends
  <2>1. CASE Friends' \subseteq Friends
    BY <1>2, <2>1, NotMore
  <2>2. CASE ~(Friends' \subseteq Friends)
    <3>1. n \notin Friends /\ Friends' = Friends \cup {n}
      BY <2>2, Times DEF TypeOK, Received, Friends
    <3>2. ~anonymous /\ Credited(n) > 0
      BY <2>2 DEF TypeOK, Received, Friends
    <3>3. Cardinality(Friends) < MaxFriends
      BY <3>1, <3>2 DEF Credited
    <3>4. Cardinality(Friends') = Cardinality(Friends) + 1 /\ Cardinality(Friends) \in Nat
      BY <3>1, FriendsFinite, FS_AddElement, FS_CardinalityType
    <3> QED BY <3>3, <3>4, Times
  <2> QED BY <2>1, <2>2
<1>4. due' \in [Names -> 0..MaxGap]
  BY Times DEF TypeOK, Received, Gap
<1>5. since' \in [Names -> 0..(Grace + 1)]
  <2>1. Counted(n) \in 0..(Grace + 1)
    BY Times DEF TypeOK, Counted
  <2> QED BY <2>1 DEF TypeOK, Received
<1> QED BY <1>2, <1>3, <1>4, <1>5 DEF TypeOK, Received

LEMMA NextTypeOK == TypeOK /\ [Next]_vars => TypeOK'
<1> SUFFICES ASSUME TypeOK, [Next]_vars PROVE TypeOK'
  OBVIOUS
<1>1. CASE UNCHANGED vars BY <1>1 DEF vars, TypeOK, Friends
<1>2. CASE Ping
  <2>1. credit' \in [Names -> 0..MaxCredit] BY <1>2, Times DEF Ping, TypeOK
  <2>2. Friends' \subseteq Friends BY <1>2, Times DEF Ping, TypeOK, Friends
  <2>3. timer' \in 0..MaxGap BY <1>2, Times DEF Ping, Gap
  <2> QED BY <1>2, <2>1, <2>2, <2>3, NotMore DEF Ping, TypeOK
<1>3. CASE Clear
  <2>1. credit' \in [Names -> 0..MaxCredit] BY <1>3, Times DEF Clear
  <2>2. Friends' \subseteq Friends BY <1>3 DEF Clear, Friends
  <2> QED BY <1>3, <2>1, <2>2, NotMore, Times DEF Clear, TypeOK
<1>4. CASE Silent
  <2>1. credit' \in [Names -> 0..MaxCredit] BY <1>4, Times DEF Silent, TypeOK
  <2>2. Friends' \subseteq Friends BY <1>4, Times DEF Silent, TypeOK, Friends
  <2> QED BY <1>4, <2>1, <2>2, NotMore, Times DEF Silent, TypeOK
<1>5. CASE Tick
  <2>1. timer' \in 0..MaxGap BY <1>5, Times DEF Tick, TypeOK
  <2>2. due' \in [Names -> 0..MaxGap] BY <1>5, Times DEF Tick, TypeOK
  <2> QED BY <1>5, <2>1, <2>2 DEF Tick, TypeOK, Friends
<1>6. ASSUME NEW n \in Names, Received(n) PROVE TypeOK' BY <1>6, ReceivedTypeOK
<1>7. ASSUME NEW n \in Names, Lost(n) PROVE TypeOK'
  <2>1. due' \in [Names -> 0..MaxGap] BY <1>7, Times DEF Lost, TypeOK, Gap
  <2> QED BY <1>7, <2>1, Times DEF Lost, TypeOK, Friends
<1>8. ASSUME NEW n \in Names, Arrive(n) PROVE TypeOK'
  <2>1. due' \in [Names -> 0..MaxGap] BY <1>8, Times DEF Arrive, TypeOK
  <2> QED BY <1>8, <2>1, Times DEF Arrive, TypeOK, Friends
<1>9. ASSUME NEW n \in Names, Leave(n) PROVE TypeOK'
  <2>1. due' \in [Names -> 0..MaxGap] BY <1>9, Times DEF Leave, TypeOK
  <2> QED BY <1>9, <2>1, Times DEF Leave, TypeOK, Friends
<1> QED
  BY <1>1, <1>2, <1>3, <1>4, <1>5, <1>6, <1>7, <1>8, <1>9 DEF Next

(* The list and the credits keep to their bounds.                          *)
THEOREM TypeCorrect == Spec => []TypeOK
BY InitTypeOK, NextTypeOK, PTL DEF Spec

-----------------------------------------------------------------------------
(* The credits of a friend who is near outlast the longest silence: the    *)
(* pings that may still be lost and the one that is due.                   *)

NextCleanup == timer + (IF cleanup THEN 0 ELSE MinGap)
Cost(n) == Owed(losses) + Drain(Grace - since[n])
Silence(n) == due[n] + Cost(n)
Lasts(n) == Silence(n) + Pair < Worth(credit[n]) + NextCleanup
Hidden == anonymous => \A n \in Names : credit[n] = 0

Young(n) == credit[n] > 0 /\ since[n] <= Grace

IInv == TypeOK /\ Hidden /\ \A n \in near : Young(n) => Lasts(n)

LEMMA CostFacts ==
  ASSUME TypeOK, NEW n \in Names, since[n] <= Grace
  PROVE  Cost(n) \in Nat /\ Cost(n) >= Drain(Grace - since[n]) /\ Drain(Grace - since[n]) \in Nat
<1>1. losses \in Nat /\ Grace - since[n] \in Nat
  BY Times DEF TypeOK
<1>2. Owed(losses) \in Nat /\ Drain(Grace - since[n]) \in Nat
  BY <1>1, OwedFacts, DrainFacts
<1> QED BY <1>2 DEF Cost

LEMMA InitInv == Init => IInv
<1> SUFFICES ASSUME Init PROVE IInv
  OBVIOUS
<1>1. TypeOK BY InitTypeOK
<1>2. Hidden /\ near = {} BY DEF Init, Hidden
<1> QED BY <1>1, <1>2 DEF IInv

(* What clean-ups and pings do to the balance, in numbers.                 *)
LEMMA CleanupKeeps ==
  ASSUME NEW c \in Nat, c > 0, NEW d \in Nat, NEW o \in Nat, NEW t \in Nat, t >= MinGap,
         d + o + Pair < Worth(c) + 0
  PROVE  c - 1 > 0 /\ d + o + Pair < Worth(c - 1) + (t + MinGap)
<1>1. Worth(c) \in Nat /\ Worth(c) = Worth(c - 1) + Pair /\ c - 1 \in Nat /\ Worth(c - 1) \in Nat
  BY WorthFacts
<1>2. c # 1 BY Times, WorthFacts
<1>3. t + MinGap >= Pair BY Times DEF Pair
<1> QED BY <1>1, <1>2, <1>3, Times

(* A new record, one at the limit and one that gains a credit, after which *)
(* the next ping is at most MaxGap away; o is owed and q is what the       *)
(* remaining pings may cost.                                               *)
LEMMA CreditKeeps ==
  ASSUME Enough, NEW c \in 0..MaxCredit, NEW e \in 0..MaxCredit, NEW o \in Nat, NEW g \in 0..MaxGap,
         NEW w \in Nat, NEW q \in Nat, o <= Owed(Losses), q <= Drain(Grace),
         \/ c > 0 /\ c < MaxCredit /\ e = c + 1 /\ o + q + Slack + Pair < Worth(c) + w
         \/ e = InitCredit + 1
         \/ e = MaxCredit
  PROVE  g + (o + q) + Pair < Worth(e) + w
<1>1. /\ Worth(InitCredit + 1) = Worth(InitCredit) + Pair /\ Worth(InitCredit) \in Nat
      /\ Owed(Losses + 1) = Owed(Losses) + MaxGap /\ Owed(Losses) \in Nat
      /\ Drain(Grace) \in Nat
  BY Times, WorthFacts, OwedFacts, DrainFacts
<1>2. g + (o + q) + Pair < Worth(InitCredit + 1)
  BY <1>1, Times DEF Enough
<1>3. CASE c > 0 /\ c < MaxCredit /\ e = c + 1 /\ o + q + Slack + Pair < Worth(c) + w
  <2>1. Worth(e) = Worth(c) + Pair /\ Worth(c) \in Nat BY <1>3, WorthFacts
  <2>2. g <= Pair + Slack BY Times
  <2> QED BY <1>3, <2>1, <2>2, Times
<1>4. CASE e = InitCredit + 1
  BY <1>1, <1>2, <1>4, Times
<1>5. CASE e = MaxCredit
  <2>1. InitCredit + 1 \in Nat /\ e \in Nat /\ InitCredit + 1 <= e
    BY <1>5, Times DEF Enough
  <2>2. Worth(InitCredit + 1) <= Worth(e) BY <2>1, WorthGrows
  <2>3. Worth(e) \in Nat BY <2>1, WorthFacts
  <2> QED BY <1>1, <1>2, <2>2, <2>3, Times
<1> QED BY <1>3, <1>4, <1>5

LEMMA PingInv ==
  ASSUME IInv, Ping
  PROVE  /\ IInv'
         /\ \A n \in near : Young(n) => credit'[n] > 0
<1>1. TypeOK' /\ near' = near /\ due' = due /\ losses' = losses /\ anonymous' = anonymous /\ since' = since
  BY NextTypeOK DEF IInv, Ping, Next
<1>2. Hidden' BY <1>1 DEF IInv, Hidden, Ping
<1>3. ASSUME NEW n \in near, Young(n)
      PROVE  credit'[n] > 0 /\ Lasts(n)'
  <2>1. /\ n \in Names /\ credit[n] \in Nat /\ credit[n] > 0 /\ due[n] \in Nat
        /\ Cost(n) \in Nat /\ Worth(credit[n]) \in Nat
    <3>1. n \in Names /\ credit[n] \in Nat /\ due[n] \in Nat
      BY <1>3, Times DEF IInv, TypeOK
    <3> QED BY <1>3, <3>1, CostFacts, WorthFacts DEF IInv, Young
  <2>2. PICK t \in Gap : timer' = t
    BY DEF Ping
  <2>3. t \in Nat /\ t >= MinGap
    BY Times DEF Gap
  <2>4. Cost(n)' = Cost(n)
    BY <1>1 DEF Cost
  <2>5. CASE cleanup
    <3>1. credit'[n] = credit[n] - 1 /\ cleanup' = FALSE
      BY <2>1, <2>5 DEF Ping, IInv, TypeOK
    <3>2. due[n] + Cost(n) + Pair < Worth(credit[n]) + 0
      BY <1>3, <2>5 DEF IInv, Lasts, Silence, NextCleanup, Ping
    <3>3. /\ credit[n] - 1 > 0
          /\ due[n] + Cost(n) + Pair < Worth(credit[n] - 1) + (t + MinGap)
      BY <2>1, <2>3, <3>2, CleanupKeeps
    <3>4. NextCleanup' = t + MinGap
      BY <2>2, <3>1 DEF NextCleanup
    <3> QED BY <1>1, <2>4, <3>1, <3>3, <3>4 DEF Lasts, Silence
  <2>6. CASE ~cleanup
    <3>1. credit'[n] = credit[n] /\ cleanup' = TRUE
      BY <2>1, <2>6 DEF Ping, IInv, TypeOK
    <3>2. due[n] + Cost(n) + Pair < Worth(credit[n]) + (0 + MinGap)
      BY <1>3, <2>6 DEF IInv, Lasts, Silence, NextCleanup, Ping
    <3>3. due[n] + Cost(n) + Pair < Worth(credit[n]) + (t + 0)
      BY <2>1, <2>3, <3>2, Times
    <3>4. NextCleanup' = t + 0
      BY <2>2, <3>1 DEF NextCleanup
    <3> QED BY <1>1, <2>1, <2>4, <3>1, <3>3, <3>4 DEF Lasts, Silence
  <2> QED BY <2>5, <2>6
<1>4. ASSUME NEW n \in near, Young(n)'
      PROVE  Young(n)
  BY <1>1, <1>4, Times DEF Ping, IInv, TypeOK, Young
<1> QED BY <1>1, <1>2, <1>3, <1>4 DEF IInv

LEMMA ReceivedInv ==
  ASSUME Enough, IInv, NEW m \in Names, Received(m)
  PROVE  /\ IInv'
         /\ \A n \in near : Young(n) => credit'[n] > 0
<1>1. TypeOK' /\ near' = near /\ losses' = losses /\ NextCleanup' = NextCleanup
  <2>1. Next BY DEF Next
  <2>2. TypeOK' BY <2>1, NextTypeOK DEF IInv
  <2> QED BY <2>2 DEF Received, NextCleanup
<1>2. Hidden' BY DEF IInv, Hidden, Received, TypeOK
<1>3. m \in near /\ NextCleanup \in Nat /\ Owed(losses) \in Nat /\ Owed(losses) <= Owed(Losses)
  <2>1. m \in near /\ timer \in Nat /\ losses \in Nat /\ losses <= Losses
    BY Times DEF IInv, TypeOK, Received
  <2>2. NextCleanup \in Nat BY <2>1, Times DEF NextCleanup
  <2>3. Owed(losses) \in Nat /\ Owed(losses) <= Owed(Losses)
    BY <2>1, Times, OwedFacts
  <2> QED BY <2>1, <2>2, <2>3
<1>4. ASSUME NEW n \in near, n # m
      PROVE  credit'[n] = credit[n] /\ due'[n] = due[n] /\ since'[n] = since[n]
  BY <1>4 DEF IInv, TypeOK, Received
<1>5. credit[m] > 0 => credit'[m] > 0
  BY Times DEF IInv, TypeOK, Received, Credited, Friends
<1>6. ASSUME Young(m)'
      PROVE  Lasts(m)'
  <2>1. PICK g \in Gap : due'[m] = g
    BY DEF Received, IInv, TypeOK
  <2>2. /\ g \in 0..MaxGap /\ credit[m] \in 0..MaxCredit /\ credit'[m] \in 0..MaxCredit
        /\ since[m] \in Nat /\ since'[m] \in Nat /\ since'[m] <= Grace /\ credit'[m] > 0
    BY <1>1, <1>6, Times DEF Gap, IInv, TypeOK, Young
  <2>3. ~anonymous /\ credit'[m] = Credited(m) /\ since'[m] = Counted(m)
    BY <2>2 DEF IInv, TypeOK, Received, Hidden
  <2>4. \/ credit[m] > 0 /\ credit[m] < MaxCredit /\ credit'[m] = credit[m] + 1
        \/ credit'[m] = InitCredit + 1
        \/ credit'[m] = MaxCredit
    BY <2>2, <2>3, Times DEF Credited, Friends, Enough
  <2>5. PICK q \in Nat : q = Drain(Grace - since'[m]) /\ q <= Drain(Grace)
    <3>1. Grace - since'[m] \in Nat /\ Grace - since'[m] <= Grace
      BY <2>2, Times
    <3> QED BY <3>1, Times, DrainFacts
  <2>6. credit[m] > 0 => Owed(losses) + q + Slack + Pair < Worth(credit[m]) + NextCleanup
    <3> SUFFICES ASSUME credit[m] > 0 PROVE Owed(losses) + q + Slack + Pair < Worth(credit[m]) + NextCleanup
      OBVIOUS
    <3>1. since'[m] = since[m] + 1 /\ since[m] <= Grace /\ since[m] + 1 <= Grace
      BY <2>2, <2>3, Times DEF Counted, Friends
    <3>2. Grace - since[m] \in Nat /\ Grace - since[m] > 0 /\ (Grace - since[m]) - 1 = Grace - since'[m]
      BY <2>2, <3>1, Times
    <3>3. Drain(Grace - since[m]) = q + Slack
      BY <2>5, <3>2, DrainFacts
    <3>4. due[m] = 0 BY DEF Received
    <3>5. 0 + (Owed(losses) + (q + Slack)) + Pair < Worth(credit[m]) + NextCleanup
      BY <1>3, <3>1, <3>3, <3>4 DEF IInv, Lasts, Silence, Cost, Young
    <3>6. Worth(credit[m]) \in Nat
      BY <2>2, WorthFacts
    <3> QED BY <1>3, <3>5, <3>6, Times
  <2>7. g + (Owed(losses) + q) + Pair < Worth(credit'[m]) + NextCleanup
    BY <1>3, <2>2, <2>4, <2>5, <2>6, CreditKeeps
  <2> QED BY <1>1, <2>1, <2>5, <2>7 DEF Lasts, Silence, Cost
<1>7. ASSUME NEW n \in near', Young(n)'
      PROVE  Lasts(n)'
  <2>1. CASE n = m BY <1>6, <1>7, <2>1
  <2>2. CASE n # m
    <3>1. credit'[n] = credit[n] /\ due'[n] = due[n] /\ since'[n] = since[n] BY <1>1, <1>4, <2>2
    <3>2. Lasts(n) BY <1>1, <1>7, <3>1 DEF IInv, Young
    <3> QED BY <1>1, <3>1, <3>2 DEF Lasts, Silence, Cost
  <2> QED BY <2>1, <2>2
<1> QED BY <1>1, <1>2, <1>4, <1>5, <1>7 DEF IInv, Young

LEMMA OthersInv ==
  ASSUME IInv, Clear \/ Silent \/ Tick \/ (\E n \in Names : Lost(n) \/ Arrive(n) \/ Leave(n))
  PROVE  /\ IInv'
         /\ \A n \in near : Young(n) => credit'[n] > 0 \/ moves' < moves
<1>1. TypeOK'
  <2>1. Next BY DEF Next
  <2> QED BY <2>1, NextTypeOK DEF IInv
<1>2. CASE Clear
  <2>1. \A n \in Names : credit'[n] = 0 BY <1>2 DEF Clear
  <2>2. near' \subseteq Names /\ moves' < moves BY <1>2, Times DEF Clear, IInv, TypeOK
  <2> QED BY <1>1, <2>1, <2>2 DEF IInv, Hidden, Young
<1>3. CASE Silent
  <2>1. near' = near /\ due' = due /\ losses' = losses /\ since' = since /\ NextCleanup' = NextCleanup
    BY <1>3 DEF Silent, NextCleanup
  <2>2. moves' < moves BY <1>3, Times DEF Silent, IInv, TypeOK
  <2>3. \A n \in Names : credit'[n] = IF anonymous' THEN 0 ELSE credit[n]
    BY <1>3 DEF Silent
  <2>4. Hidden' BY <2>3 DEF Hidden
  <2>5. ASSUME NEW n \in near', Young(n)'
        PROVE  Lasts(n)'
    <3>1. n \in Names /\ n \in near BY <2>1, <2>5 DEF IInv, TypeOK
    <3>2. credit'[n] = credit[n] BY <2>3, <2>5, <3>1 DEF Young
    <3> QED BY <2>1, <2>5, <3>1, <3>2 DEF IInv, Lasts, Silence, Cost, Young
  <2> QED BY <1>1, <2>2, <2>4, <2>5 DEF IInv
<1>4. CASE Tick
  <2>1. near' = near /\ credit' = credit /\ losses' = losses /\ anonymous' = anonymous /\ since' = since
    BY <1>4 DEF Tick
  <2>2. Hidden' BY <2>1 DEF IInv, Hidden
  <2>3. ASSUME NEW n \in near, Young(n)
        PROVE  Lasts(n)'
    <3>1. /\ n \in Names /\ due[n] \in Nat /\ timer \in Nat /\ credit[n] \in Nat
      BY <2>3, Times DEF IInv, TypeOK
    <3>2. Cost(n) \in Nat /\ Worth(credit[n]) \in Nat /\ Cost(n)' = Cost(n)
      BY <2>1, <2>3, <3>1, CostFacts, WorthFacts DEF IInv, Young, Cost
    <3>3. due'[n] = due[n] - 1
      BY <1>4, <2>3, <3>1 DEF Tick
    <3>4. NextCleanup' = timer - 1 + (IF cleanup THEN 0 ELSE MinGap)
      BY <1>4 DEF Tick, NextCleanup
    <3>5. (due[n] - 1) + Cost(n) + Pair < Worth(credit[n]) + (timer - 1 + (IF cleanup THEN 0 ELSE MinGap))
      <4>1. Lasts(n) BY <2>3 DEF IInv
      <4>2. CASE cleanup BY <3>1, <3>2, <4>1, <4>2, Times DEF Lasts, Silence, NextCleanup
      <4>3. CASE ~cleanup BY <3>1, <3>2, <4>1, <4>3, Times DEF Lasts, Silence, NextCleanup
      <4> QED BY <4>2, <4>3
    <3> QED BY <2>1, <3>2, <3>3, <3>4, <3>5 DEF Lasts, Silence
  <2> QED BY <1>1, <2>1, <2>2, <2>3 DEF IInv, Young
<1>5. ASSUME NEW m \in Names, Lost(m)
      PROVE  IInv' /\ credit' = credit
  <2>1. /\ near' = near /\ credit' = credit /\ anonymous' = anonymous /\ since' = since
        /\ NextCleanup' = NextCleanup
    BY <1>5 DEF Lost, NextCleanup
  <2>2. Hidden' BY <2>1 DEF IInv, Hidden
  <2>3. losses \in Nat /\ losses > 0 /\ losses' = losses - 1 /\ losses - 1 \in Nat
    BY <1>5, Times DEF Lost, IInv, TypeOK
  <2>4. Owed(losses) = Owed(losses') + MaxGap /\ Owed(losses') \in Nat
    BY <2>3, OwedFacts
  <2>5. ASSUME NEW n \in near, Young(n)
        PROVE  Lasts(n)'
    <3>1. /\ n \in Names /\ due[n] \in Nat /\ credit[n] \in Nat /\ due'[n] \in 0..MaxGap
          /\ NextCleanup \in Nat
      BY <1>1, <2>1, <2>5, Times DEF IInv, TypeOK, NextCleanup
    <3>2. Worth(credit[n]) \in Nat BY <3>1, WorthFacts
    <3>3. n # m => due'[n] = due[n] BY <1>5, <3>1 DEF Lost, IInv, TypeOK
    <3>4. PICK d \in 0..MaxGap : due'[n] = d /\ (n # m => d = due[n])
      BY <3>1, <3>3
    <3>5. PICK o \in Nat : Owed(losses') = o /\ Owed(losses) = o + MaxGap
      BY <2>4
    <3>6. PICK q \in Nat : q = Drain(Grace - since[n])
      BY <2>5, <3>1, CostFacts DEF IInv, Young
    <3>7. d + (o + q) + Pair < Worth(credit[n]) + NextCleanup
      <4>1. due[n] + ((o + MaxGap) + q) + Pair < Worth(credit[n]) + NextCleanup
        BY <2>5, <3>5, <3>6 DEF IInv, Lasts, Silence, Cost
      <4> QED BY <3>1, <3>2, <4>1, Times
    <3> QED BY <2>1, <3>4, <3>5, <3>6, <3>7 DEF Lasts, Silence, Cost
  <2> QED BY <1>1, <2>1, <2>2, <2>5 DEF IInv, Young
<1>6. ASSUME NEW m \in Names, Arrive(m) \/ Leave(m)
      PROVE  IInv' /\ moves' < moves
  <2>1. /\ credit' = credit /\ anonymous' = anonymous /\ losses' = losses /\ since' = since
        /\ NextCleanup' = NextCleanup
    BY <1>6 DEF Arrive, Leave, NextCleanup
  <2>2. Hidden' BY <2>1 DEF IInv, Hidden
  <2>3. moves' < moves BY <1>6, Times DEF Arrive, Leave, IInv, TypeOK
  <2>4. ASSUME NEW n \in near', Young(n)
        PROVE  n \in near /\ due'[n] = due[n]
    <3>1. n \in Names BY <1>1, <2>4 DEF TypeOK
    <3>2. n # m BY <1>6, <2>4 DEF Arrive, Leave, Friends, Young
    <3> QED BY <1>6, <2>4, <3>1, <3>2 DEF Arrive, Leave, IInv, TypeOK
  <2> QED BY <1>1, <2>1, <2>2, <2>3, <2>4 DEF IInv, Lasts, Silence, Cost, Young
<1> QED BY <1>2, <1>3, <1>4, <1>5, <1>6 DEF Young

(* A friend who stays near keeps its record for Grace pings                *)
(* (orchard-app.c:87-95).                                                  *)
THEOREM KeepsNear == ASSUME Enough PROVE Spec => NearKept
<1>1. IInv /\ [Next]_vars => IInv'
  <2>1. CASE UNCHANGED vars
    BY <2>1 DEF vars, IInv, TypeOK, Friends, Hidden, Lasts, Silence, Cost, Young, NextCleanup
  <2>2. CASE Next
    BY <2>2, PingInv, ReceivedInv, OthersInv DEF Next
  <2> QED BY <2>1, <2>2
<1>2. IInv /\ [Next]_vars
        => [\A n \in near : credit[n] > 0 /\ since[n] <= Grace => credit'[n] > 0 \/ moves' < moves]_vars
  BY PingInv, ReceivedInv, OthersInv DEF Next, Young
<1> QED
  BY <1>1, <1>2, InitInv, PTL DEF Spec, NearKept
=============================================================================
