------------------------------ MODULE SyncProofs ------------------------------
(***************************************************************************)
(* For any frame time, latency, clock and number of restarts: nothing but  *)
(* a restart, or a time packet in the middle of a major adjustment, takes  *)
(* the frame counter away from the time of the last frame, and both stay   *)
(* within bounds of the clock.                                             *)
(***************************************************************************)
EXTENDS Sync, TLAPS

(* The clocks are integers, whatever the network does to them.             *)
Clock ==
  /\ err \in Int /\ lag \in Int /\ drift \in Int /\ air \in Int
  /\ pc \in {"top", "adjust", "recount", "frame", "sleep", "wait", "draw", "off"}

LEMMA ClockInit == Init => Clock
BY SyncAssumption DEF Init, Clock, None

(* What is left alone is proved for all steps at once, what a step does to *)
(* the clocks one by one.                                                  *)
LEMMA ClockNext == Clock /\ [Next]_vars => Clock'
<1> SUFFICES ASSUME Clock, [Next]_vars PROVE Clock'
  OBVIOUS
<1> USE SyncAssumption DEF Clock, None
<1>1. CASE UNCHANGED vars BY <1>1 DEF vars
<1>2. CASE Broadcast BY <1>2 DEF Broadcast
<1>3. CASE Lose BY <1>3 DEF Lose
<1>4. CASE Receive BY <1>4 DEF Receive
<1>5. CASE Check
  <2>1. pc' \in {"adjust", "frame"} BY <1>5 DEF Check
  <2> QED BY <1>5, <2>1 DEF Check
<1>11. CASE Adjust BY <1>11 DEF Adjust
<1>12. CASE Recount BY <1>12 DEF Recount
<1>6. CASE Frame
  <2>1. lag' \in Int /\ pc' \in {"wait", "sleep"} BY <1>6 DEF Frame
  <2> QED BY <1>6, <2>1 DEF Frame
<1>7. CASE Draw BY <1>7 DEF Draw
<1>8. CASE Stop BY <1>8 DEF Stop
<1>9. CASE Start BY <1>9 DEF Start
<1>10. CASE Tick BY <1>10 DEF Tick
<1> QED
  BY <1>1, <1>2, <1>3, <1>4, <1>5, <1>6, <1>7, <1>8, <1>9, <1>10, <1>11, <1>12 DEF Next, Thread

(* What Locked says in the part of the loop where a frame that was due is  *)
(* not counted yet, and in the rest of it.                                 *)
InPart ==
  /\ pc = "recount" => Locked
  /\ pc \in {"wait", "draw"} => (Locked <=> Redraw <= drift - lag /\ drift - lag < 2 * Redraw)
  /\ pc \notin {"recount", "wait", "draw"} => (Locked <=> 0 <= drift - lag /\ drift - lag < Redraw)

LEMMA LockedIs == Clock => InPart
<1> SUFFICES ASSUME Clock PROVE InPart
  OBVIOUS
<1>1. Redraw \in Int BY SyncAssumption
<1>2. CASE pc \in {"wait", "draw"}
  <2>1. Behind = drift - lag - Redraw BY <1>2 DEF Behind
  <2> QED BY <1>1, <1>2, <2>1 DEF Locked, InPart, Clock
<1>3. CASE pc \notin {"recount", "wait", "draw"}
  <2>1. Behind = drift - lag - 0 BY <1>3 DEF Behind
  <2>2. Behind = drift - lag BY <1>1, <2>1 DEF Clock
  <2> QED BY <1>1, <1>3, <2>2 DEF Locked, InPart, Clock
<1>4. CASE pc = "recount" BY <1>4 DEF Locked, InPart
<1> QED BY <1>2, <1>3, <1>4

LEMMA LockedNext ==
  ASSUME Clock, Clock', InPart, InPart', Next, Locked
  PROVE  Locked' \/ pc = "off" \/ CameBetween
<1>0. Redraw \in Int BY SyncAssumption
<1> USE <1>0 DEF Clock, InPart
<1>1. CASE Broadcast BY <1>1 DEF Broadcast
<1>2. CASE Lose BY <1>2 DEF Lose
<1>3. CASE Receive
  <2>1. lag' = lag + (-air - err) /\ drift' = drift + (-air - err) /\ pc' = pc
    BY <1>3 DEF Receive
  <2>2. -air - err \in Int
    OBVIOUS
  <2>3. PICK k \in Int : lag' = lag + k /\ drift' = drift + k
    BY <2>1, <2>2, Zenon
  <2>4. drift' - lag' <= drift - lag /\ drift' - lag' >= drift - lag
    BY <2>3
  <2> QED BY <2>1, <2>4
<1>4. CASE Check
  <2>1. pc = "top" /\ pc' \in {"adjust", "frame"} BY <1>4 DEF Check
  <2>2. lag' = lag /\ drift' = drift BY <1>4 DEF Check
  <2> QED BY <2>1, <2>2
<1>10. CASE Adjust
  <2>1. pc' = "recount" BY <1>10 DEF Adjust
  <2> QED BY <2>1
<1>11. CASE Recount
  <2>1. pc = "recount" /\ pc' = "frame" /\ lag' = lag /\ drift' \in 0..(Redraw - 1)
    BY <1>11 DEF Recount
  <2>2. CASE lag = 0
    <3>1. PICK j \in 0..(Redraw - 1) : drift' = j
      BY <2>1
    <3>2. 0 <= j - 0 /\ j - 0 < Redraw
      OBVIOUS
    <3> QED BY <2>1, <2>2, <3>1, <3>2
  <2>3. CASE lag # 0 BY <2>1, <2>3 DEF CameBetween
  <2> QED BY <2>2, <2>3
<1>5. CASE Frame
  <2>1. pc = "frame" /\ drift' = drift BY <1>5 DEF Frame
  <2>2. CASE lag > Redraw
    <3>1. lag' = lag - Redraw /\ pc' = "wait" BY <1>5, <2>2 DEF Frame
    <3> QED BY <2>1, <3>1
  <2>3. CASE ~(lag > Redraw)
    <3>1. lag' = lag /\ pc' = "sleep" BY <1>5, <2>3 DEF Frame
    <3> QED BY <2>1, <3>1
  <2> QED BY <2>2, <2>3
<1>6. CASE Draw BY <1>6 DEF Draw
<1>7. CASE Stop BY <1>7 DEF Stop
<1>8. CASE Start BY <1>8 DEF Start
<1>9. CASE Tick
  <2>1. CASE pc = "sleep"
    <3>1. lag' = lag + 1 /\ drift' = drift + 1 /\ pc' = "top" BY <1>9, <2>1 DEF Tick
    <3> QED BY <2>1, <3>1
  <2>2. CASE pc = "wait"
    <3>1. lag' = lag + 1 /\ drift' = drift + 1 /\ pc' = "draw" BY <1>9, <2>2 DEF Tick
    <3> QED BY <2>2, <3>1
  <2> QED BY <1>9, <2>1, <2>2 DEF Tick
<1> QED
  BY <1>1, <1>2, <1>3, <1>4, <1>5, <1>6, <1>7, <1>8, <1>9, <1>10, <1>11 DEF Next, Thread

(* Only a restart, or a time packet that comes between the two readings of *)
(* a major adjustment, takes the frame counter away from last_time         *)
(* (led.c:695-727).                                                        *)
THEOREM StaysLocked == Spec => KeepsLocked
<1>1. Clock /\ Clock' /\ InPart /\ InPart' /\ [Next]_vars => [Locked => Locked' \/ pc = "off" \/ CameBetween]_vars
  BY LockedNext
<1>2. Spec => []Clock
  BY ClockInit, ClockNext, PTL DEF Spec
<1>3. Spec => []InPart
  BY <1>2, LockedIs, PTL
<1> QED
  BY <1>1, <1>2, <1>3, PTL DEF Spec, KeepsLocked

(***************************************************************************)
(* The clocks stay near each other.  Counted from the master's clock, so   *)
(* that a time packet changes nothing: last_time is at most a major        *)
(* adjustment away when the thread has looked, and a tick more when it     *)
(* looks again.  The frame counter follows last_time while the thread      *)
(* runs, and each restart, which sets last_time only, adds a Fall.         *)
(***************************************************************************)
Jump == Major * Redraw
Apart == Skew + Latency

(* Restarts begun.                                                         *)
Falls == (Restarts - left + 1) * Fall

Near ==
  /\ err \in Skews \cup -Latency..0
  /\ air \in None..Latency /\ left \in 0..Restarts
  /\ lag - err >= -(Jump + Apart)
  /\ lag - err <= Jump + Apart + (IF pc \in {"frame", "sleep", "wait"} THEN 0 ELSE 1)
  /\ pc = "recount" =>
       /\ -Apart <= lag - err /\ lag - err <= Apart
       /\ -(Falls + Jump + Apart) <= drift - err /\ drift - err <= Falls + Jump + Apart + 1
  /\ pc \notin {"recount", "off"} => -Falls <= Behind /\ Behind <= Falls
  /\ pc = "off" => Apart + Redraw - Falls <= drift - err /\ drift - err <= Falls - Apart

IInv == Clock /\ Near

LEMMA Numbers ==
  /\ Redraw \in Nat /\ Redraw > 1 /\ Pause \in Nat /\ Jump \in Nat /\ Apart \in Nat /\ Latency \in Nat
  /\ Slip = Jump + 2 * Apart /\ Slip \in Nat /\ Fall = Slip + Redraw + Pause /\ Fall \in Nat
  /\ Restarts \in Nat
  /\ Far <=> lag > Jump \/ lag < -Jump
  /\ \A e \in Skews \cup -Latency..0 : e \in Int /\ -Apart <= e /\ e <= Apart
<1>1. /\ Redraw \in Nat /\ Redraw > 1 /\ Pause \in Nat /\ Latency \in Nat /\ Skew \in Nat /\ Major \in Nat
      /\ Restarts \in Nat
  BY SyncAssumption
<1>2. Major * Redraw \in Nat /\ -Major * Redraw = -(Major * Redraw)
  BY <1>1
<1>3. Jump \in Nat /\ Apart \in Nat /\ Slip = Jump + 2 * Apart
  BY <1>1, <1>2 DEF Jump, Apart, Slip
<1>4. Slip \in Nat /\ Fall = Slip + Redraw + Pause /\ Fall \in Nat
  BY <1>1, <1>3 DEF Fall
<1>5. Far <=> lag > Jump \/ lag < -Jump
  BY <1>2 DEF Far, Jump
<1>6. \A e \in Skews \cup -Latency..0 : e \in Int /\ -Apart <= e /\ e <= Apart
  BY <1>1, SyncAssumption DEF Apart
<1> QED BY <1>1, <1>3, <1>4, <1>5, <1>6

LEMMA FallsAre ==
  ASSUME left \in 0..Restarts
  PROVE  /\ Falls \in Int /\ Falls >= Fall /\ Falls <= (Restarts + 1) * Fall
         /\ \A n \in Int : (Restarts - (n - 1) + 1) * Fall = (Restarts - n + 1) * Fall + Fall
<1>1. /\ Restarts \in Int /\ Fall \in Int /\ Fall >= 0 /\ left \in Int /\ 0 <= left /\ left <= Restarts
  BY Numbers
<1>2. PICK m \in Int : m = Restarts - left
  BY <1>1
<1>3. 0 <= m /\ m <= Restarts /\ Restarts - left + 1 = m + 1
  BY <1>1, <1>2
<1>4. ASSUME NEW a \in Int, NEW b \in Int, a <= b PROVE a * Fall <= b * Fall
  <2>1. PICK c \in Nat : b = a + c
    BY <1>4
  <2>2. b * Fall = a * Fall + c * Fall /\ c * Fall >= 0
    BY <1>1, <2>1
  <2> QED BY <1>1, <2>2
<1>5. 1 * Fall = Fall /\ 1 <= m + 1 /\ m + 1 <= Restarts + 1 /\ m + 1 \in Int /\ Restarts + 1 \in Int
  BY <1>1, <1>3
<1>6. (m + 1) * Fall \in Int /\ Fall <= (m + 1) * Fall /\ (m + 1) * Fall <= (Restarts + 1) * Fall
  BY <1>1, <1>4, <1>5
<1>7. ASSUME NEW n \in Int PROVE (Restarts - (n - 1) + 1) * Fall = (Restarts - n + 1) * Fall + Fall
  <2>1. Restarts - (n - 1) + 1 = (Restarts - n + 1) + 1
    BY <1>1
  <2> QED BY <1>1, <2>1
<1> QED BY <1>3, <1>6, <1>7 DEF Falls

(* Behind in the two parts of the loop.                                    *)
LEMMA BehindIs ==
  ASSUME Clock
  PROVE  /\ Behind \in Int
         /\ pc \in {"wait", "draw"} => Behind = drift - lag - Redraw
         /\ pc \notin {"wait", "draw"} => Behind = drift - lag
<1>1. Redraw \in Int
  BY Numbers
<1> QED BY <1>1 DEF Behind, Clock

LEMMA NearInit == Init => Near
<1> SUFFICES ASSUME Init PROVE Near
  OBVIOUS
<1>1. /\ err \in Skews /\ lag = 0 /\ drift \in Int /\ 0 <= drift /\ drift <= Redraw - 1 /\ pc = "off" /\ air = None
      /\ left = Restarts
  BY Numbers DEF Init
<1>2. err \in Int /\ -Apart <= err /\ err <= Apart
  BY <1>1, Numbers
<1>3. left \in 0..Restarts /\ air \in None..Latency
  BY <1>1, Numbers DEF None
<1>4. Falls \in Int /\ Falls >= Fall
  BY <1>3, FallsAre
<1>5. Apart + Redraw - Falls <= drift - err /\ drift - err <= Falls - Apart
  BY <1>1, <1>2, <1>4, Numbers
<1>6. lag - err >= -(Jump + Apart) /\ lag - err <= Jump + Apart + 1
  BY <1>1, <1>2, Numbers
<1> QED BY <1>1, <1>3, <1>5, <1>6 DEF Near

(* No step but Stop begins a restart.                                      *)
LEMMA FallsSame ==
  ASSUME left' = left
  PROVE  Falls' = Falls
BY DEF Falls, Fall, Slip

LEMMA NearNext == ASSUME Clock, Clock', Near, Next PROVE Near'
<1>1. /\ err \in Int /\ lag \in Int /\ drift \in Int /\ air \in Int
      /\ err' \in Int /\ lag' \in Int /\ drift' \in Int /\ air' \in Int
      /\ pc \in {"top", "adjust", "recount", "frame", "sleep", "wait", "draw", "off"}
      /\ pc' \in {"top", "adjust", "recount", "frame", "sleep", "wait", "draw", "off"}
  BY DEF Clock
<1>2. /\ Redraw \in Int /\ Redraw > 1 /\ Pause \in Int /\ Pause >= 0 /\ Jump \in Int /\ Jump >= 0
      /\ Apart \in Int /\ Apart >= 0 /\ Fall \in Int /\ Fall = Jump + 2 * Apart + Redraw + Pause
      /\ Latency \in Int /\ Latency >= 0 /\ -Apart <= err /\ err <= Apart
  BY Numbers DEF Near
<1>3. Falls \in Int /\ Falls >= Fall
  BY FallsAre DEF Near
<1>4. /\ Behind \in Int /\ Behind' \in Int
      /\ pc \in {"wait", "draw"} => Behind = drift - lag - Redraw
      /\ pc \notin {"wait", "draw"} => Behind = drift - lag
      /\ pc' \in {"wait", "draw"} => Behind' = drift' - lag' - Redraw
      /\ pc' \notin {"wait", "draw"} => Behind' = drift' - lag'
  <2>1. /\ Behind' \in Int
        /\ pc' \in {"wait", "draw"} => Behind' = drift' - lag' - Redraw
        /\ pc' \notin {"wait", "draw"} => Behind' = drift' - lag'
    BY <1>1, <1>2 DEF Behind
  <2> QED BY <2>1, BehindIs
<1>5. /\ air >= -1 /\ air <= Latency /\ left \in 0..Restarts
      /\ lag - err >= -(Jump + Apart)
      /\ lag - err <= Jump + Apart + 1
      /\ pc \in {"frame", "sleep", "wait"} => lag - err <= Jump + Apart
      /\ pc = "recount" =>
           /\ -Apart <= lag - err /\ lag - err <= Apart
           /\ -(Falls + Jump + Apart) <= drift - err /\ drift - err <= Falls + Jump + Apart + 1
      /\ pc \notin {"recount", "off"} => -Falls <= Behind /\ Behind <= Falls
      /\ pc = "off" => Apart + Redraw - Falls <= drift - err /\ drift - err <= Falls - Apart
  BY <1>1, <1>2 DEF Near, None
<1> DEFINE Goal ==
      /\ err' \in Skews \cup -Latency..0
      /\ air' >= -1 /\ air' <= Latency /\ left' \in 0..Restarts
      /\ lag' - err' >= -(Jump + Apart)
      /\ lag' - err' <= Jump + Apart + 1
      /\ pc' \in {"frame", "sleep", "wait"} => lag' - err' <= Jump + Apart
      /\ pc' = "recount" =>
           /\ -Apart <= lag' - err' /\ lag' - err' <= Apart
           /\ -(Falls' + Jump + Apart) <= drift' - err' /\ drift' - err' <= Falls' + Jump + Apart + 1
      /\ pc' \notin {"recount", "off"} => -(Falls') <= Behind' /\ Behind' <= Falls'
      /\ pc' = "off" => Apart + Redraw - Falls' <= drift' - err' /\ drift' - err' <= Falls' - Apart
<1>6. ASSUME Goal PROVE Near'
  <2>1. air' \in None..Latency
    BY <1>1, <1>2, <1>6 DEF None
  <2>2. lag' - err' <= Jump + Apart + (IF pc' \in {"frame", "sleep", "wait"} THEN 0 ELSE 1)
    <3>1. CASE pc' \in {"frame", "sleep", "wait"}
      <4>1. lag' - err' <= Jump + Apart /\ Jump + Apart + 0 = Jump + Apart
        BY <1>2, <1>6, <3>1
      <4> QED BY <3>1, <4>1
    <3>2. CASE pc' \notin {"frame", "sleep", "wait"}
      BY <1>6, <3>2
    <3> QED BY <3>1, <3>2
  <2> QED BY <1>6, <2>1, <2>2 DEF Near, Jump, Apart
<1>7. err \in Skews \cup -Latency..0
  BY DEF Near
<1>8. ASSUME left' = left PROVE Falls' = Falls /\ left' \in 0..Restarts
  BY <1>5, <1>8, FallsSame
<1> HIDE DEF Goal
<1>9. CASE Broadcast \/ Lose
  <2>1. /\ err' = err /\ lag' = lag /\ drift' = drift /\ pc' = pc /\ left' = left /\ (air' = 0 \/ air' = -1)
    BY <1>9 DEF Broadcast, Lose, None
  <2>2. Falls' = Falls /\ left' \in 0..Restarts
    BY <1>8, <2>1
  <2>3. Goal
    BY <1>1, <1>2, <1>3, <1>4, <1>5, <1>7, <2>1, <2>2 DEF Goal
  <2> QED BY <1>6, <2>3
<1>10. CASE Receive
  <2>1. /\ err' = -air /\ lag' = lag + (err' - err) /\ drift' = drift + (err' - err) /\ pc' = pc /\ left' = left
        /\ air' = -1 /\ air # -1
    BY <1>10 DEF Receive, None
  <2>2. Falls' = Falls /\ left' \in 0..Restarts
    BY <1>8, <2>1
  <2>3. err' \in -Latency..0
    BY <1>1, <1>2, <1>5, <2>1
  <2>4. lag' - err' = lag - err /\ drift' - err' = drift - err /\ drift' - lag' = drift - lag
    BY <1>1, <2>1
  <2>5. Behind' = Behind
    BY <1>1, <1>2, <1>4, <2>1, <2>4
  <2>6. Goal
    BY <1>1, <1>2, <1>3, <1>5, <2>1, <2>2, <2>3, <2>4, <2>5 DEF Goal
  <2> QED BY <1>6, <2>6
<1>11. CASE Check
  <2>1. pc = "top" /\ err' = err /\ air' = air /\ left' = left /\ lag' = lag /\ drift' = drift
    BY <1>11 DEF Check
  <2>2. Falls' = Falls /\ left' \in 0..Restarts
    BY <1>8, <2>1
  <2>3. pc' = "adjust" \/ (pc' = "frame" /\ lag <= Jump)
    BY <1>1, <1>2, <1>11, Numbers DEF Check
  <2>4. pc' = "frame" => lag - err <= Jump + Apart
    BY <1>1, <1>2, <2>3
  <2>5. Behind' = Behind
    BY <1>4, <2>1, <2>3
  <2>6. Goal
    BY <1>5, <1>7, <2>1, <2>2, <2>3, <2>4, <2>5 DEF Goal
  <2> QED BY <1>6, <2>6
<1>17. CASE Adjust
  <2>1. /\ pc = "adjust" /\ pc' = "recount" /\ err' = err /\ air' = air /\ left' = left
        /\ lag' = 0 /\ drift' = drift
    BY <1>17 DEF Adjust
  <2>2. Falls' = Falls /\ left' \in 0..Restarts
    BY <1>8, <2>1
  <2>3. -Falls <= drift - lag /\ drift - lag <= Falls
    BY <1>4, <1>5, <2>1
  <2>4. /\ -(Falls + Jump + Apart) <= drift - err /\ drift - err <= Falls + Jump + Apart + 1
        /\ -Apart <= 0 - err /\ 0 - err <= Apart
    BY <1>1, <1>2, <1>3, <1>5, <2>3
  <2>5. 0 - err >= -(Jump + Apart) /\ 0 - err <= Jump + Apart + 1
    BY <1>1, <1>2
  <2>6. Goal
    BY <1>5, <1>7, <2>1, <2>2, <2>4, <2>5 DEF Goal
  <2> QED BY <1>6, <2>6
<1>18. CASE Recount
  <2>1. /\ pc = "recount" /\ pc' = "frame" /\ err' = err /\ air' = air /\ left' = left
        /\ lag' = lag /\ drift' \in 0..(Redraw - 1)
    BY <1>18 DEF Recount
  <2>2. Falls' = Falls /\ left' \in 0..Restarts
    BY <1>8, <2>1
  <2>3. PICK j \in Int : drift' = j /\ 0 <= j /\ j <= Redraw - 1
    BY <1>2, <2>1
  <2>4. Behind' = j - lag
    BY <1>4, <2>1, <2>3
  <2>5. -Apart <= lag - err /\ lag - err <= Apart
    BY <1>5, <2>1
  <2>6. -Falls <= j - lag /\ j - lag <= Falls
    BY <1>1, <1>2, <1>3, <2>3, <2>5
  <2>7. lag - err <= Jump + Apart
    BY <1>1, <1>2, <2>5
  <2>8. Goal
    BY <1>5, <1>7, <2>1, <2>2, <2>4, <2>6, <2>7 DEF Goal
  <2> QED BY <1>6, <2>8
<1>12. CASE Frame
  <2>1. pc = "frame" /\ err' = err /\ air' = air /\ left' = left /\ drift' = drift
    BY <1>12 DEF Frame
  <2>2. Falls' = Falls /\ left' \in 0..Restarts
    BY <1>8, <2>1
  <2>3. CASE lag > Redraw /\ lag' = lag - Redraw /\ pc' = "wait"
    <3>1. Behind' = Behind
      BY <1>1, <1>2, <1>4, <2>1, <2>3
    <3>2. /\ lag' - err' >= -(Jump + Apart) /\ lag' - err' <= Jump + Apart
          /\ lag' - err' <= Jump + Apart + 1
      BY <1>1, <1>2, <1>5, <2>1, <2>3
    <3>3. Goal
      BY <1>5, <1>7, <2>1, <2>2, <2>3, <3>1, <3>2 DEF Goal
    <3> QED BY <1>6, <3>3
  <2>4. CASE lag' = lag /\ pc' = "sleep"
    <3>1. Behind' = Behind
      BY <1>1, <1>2, <1>4, <2>1, <2>4
    <3>2. Goal
      BY <1>5, <1>7, <2>1, <2>2, <2>4, <3>1 DEF Goal
    <3> QED BY <1>6, <3>2
  <2> QED BY <1>12, <2>3, <2>4 DEF Frame
<1>13. CASE Draw
  <2>1. pc = "draw" /\ err' = err /\ air' = air /\ left' = left /\ drift' = drift - Redraw /\ lag' = lag /\ pc' = "top"
    BY <1>13 DEF Draw
  <2>2. Falls' = Falls /\ left' \in 0..Restarts
    BY <1>8, <2>1
  <2>3. Goal
    BY <1>1, <1>2, <1>3, <1>4, <1>5, <1>7, <2>1, <2>2 DEF Goal
  <2> QED BY <1>6, <2>3
<1>14. CASE Stop
  <2>1. /\ pc = "top" /\ err' = err /\ air' = air /\ left > 0 /\ left' = left - 1 /\ drift' = drift /\ lag' = lag
        /\ pc' = "off"
    BY <1>14 DEF Stop
  <2>2. left' \in 0..Restarts
    BY <1>5, <2>1, Numbers
  <2>3. Falls' = Falls + Fall
    <3>1. Falls' = (Restarts - (left - 1) + 1) * Fall
      BY <2>1 DEF Falls, Fall, Slip
    <3>2. left \in Int
      BY <1>5, Numbers
    <3> QED BY <1>5, <3>1, <3>2, FallsAre DEF Falls
  <2>4. Goal
    BY <1>1, <1>2, <1>3, <1>4, <1>5, <1>7, <2>1, <2>2, <2>3 DEF Goal
  <2> QED BY <1>6, <2>4
<1>15. CASE Start
  <2>1. pc = "off" /\ err' = err /\ air' = air /\ left' = left /\ drift' = drift - Redraw /\ lag' = 0 /\ pc' = "top"
    BY <1>15 DEF Start
  <2>2. Falls' = Falls /\ left' \in 0..Restarts
    BY <1>8, <2>1
  <2>3. Goal
    BY <1>1, <1>2, <1>3, <1>4, <1>5, <1>7, <2>1, <2>2 DEF Goal
  <2> QED BY <1>6, <2>3
<1>16. CASE Tick
  <2>1. err' = err /\ left' = left /\ drift' = drift + 1 /\ air < Latency /\ (air' = -1 \/ air' = air + 1)
    BY <1>16 DEF Tick, None
  <2>2. Falls' = Falls /\ left' \in 0..Restarts /\ air' >= -1 /\ air' <= Latency
    BY <1>1, <1>2, <1>5, <1>8, <2>1
  <2>3. CASE pc = "off" /\ drift < Pause /\ lag' = lag /\ pc' = "off"
    <3>1. Apart + Redraw - Falls' <= drift' - err' /\ drift' - err' <= Falls' - Apart
      BY <1>1, <1>2, <1>3, <1>5, <2>1, <2>2, <2>3
    <3>2. Goal
      BY <1>5, <1>7, <2>1, <2>2, <2>3, <3>1 DEF Goal
    <3> QED BY <1>6, <3>2
  <2>4. CASE pc = "sleep" \/ pc = "wait"
    <3>1. /\ lag' = lag + 1
          /\ pc = "sleep" => pc' = "top"
          /\ pc = "wait" => pc' = "draw"
      BY <1>16, <2>4 DEF Tick
    <3>2. Behind' = Behind
      BY <1>1, <1>2, <1>4, <2>1, <2>4, <3>1
    <3>3. /\ lag' - err' >= -(Jump + Apart) /\ lag' - err' <= Jump + Apart + 1
          /\ pc # "off" /\ pc' \in {"top", "draw"}
      BY <1>1, <1>2, <1>5, <2>1, <2>4, <3>1
    <3>4. Goal
      BY <1>5, <1>7, <2>1, <2>2, <2>4, <3>2, <3>3 DEF Goal
    <3> QED BY <1>6, <3>4
  <2>5. CASE pc = "off"
    <3>1. lag' = lag /\ pc' = "off" /\ drift < Pause
      BY <1>16, <2>5 DEF Tick
    <3> QED BY <2>3, <2>5, <3>1
  <2> QED BY <1>16, <2>4, <2>5 DEF Tick
<1> QED
  BY <1>9, <1>10, <1>11, <1>12, <1>13, <1>14, <1>15, <1>16, <1>17, <1>18 DEF Next, Thread

(* last_time stays near the clock, and the frame counter within what the   *)
(* restarts have left in it (led.c:692-727, :792).                         *)
THEOREM TypeCorrect == Spec => []TypeOK
<1>1. Init => IInv
  BY ClockInit, NearInit DEF IInv
<1>2. IInv /\ [Next]_vars => IInv'
  <2>1. ASSUME IInv, Next PROVE IInv'
    BY <2>1, ClockNext, NearNext DEF IInv
  <2>2. ASSUME IInv, UNCHANGED vars PROVE IInv'
    BY <2>2 DEF IInv, Clock, Near, vars, Falls, Fall, Slip, Jump, Apart, Behind, None
  <2> QED BY <2>1, <2>2
<1>3. ASSUME IInv PROVE TypeOK
  <2>1. /\ err \in Int /\ lag \in Int /\ drift \in Int /\ -Apart <= err /\ err <= Apart
        /\ Jump \in Int /\ Apart \in Int /\ Apart >= 0 /\ Redraw \in Int /\ Slip \in Int /\ Slip >= 0
        /\ Slip = Jump + 2 * Apart /\ Redraw > 1 /\ Jump >= 0
    BY <1>3, Numbers DEF IInv, Clock, Near
  <2>2. lag - err >= -(Jump + Apart) /\ lag - err <= Jump + Apart + 1
    BY <1>3, <2>1 DEF IInv, Near
  <2>3. lag \in -Slip..(Slip + 1)
    BY <2>1, <2>2
  <2>4. PICK most : most = (Restarts + 1) * Fall
    OBVIOUS
  <2>5. Falls \in Int /\ Falls <= most /\ most \in Int
    BY <1>3, <2>4, FallsAre, Numbers DEF IInv, Near
  <2>6. /\ pc \notin {"recount", "off"} => -Falls <= Behind /\ Behind <= Falls
        /\ pc = "recount" => -(Falls + Jump + Apart) <= drift - err /\ drift - err <= Falls + Jump + Apart + 1
        /\ pc = "off" => Apart + Redraw - Falls <= drift - err /\ drift - err <= Falls - Apart
        /\ Behind = drift - lag \/ Behind = drift - lag - Redraw
    BY <1>3, BehindIs DEF IInv, Near
  <2>7. drift >= -(most + Slip + Redraw + 1) /\ drift <= most + Slip + Redraw + 1
    BY <2>1, <2>3, <2>5, <2>6
  <2>8. drift \in -Furthest..Furthest
    BY <2>1, <2>4, <2>5, <2>7 DEF Furthest
  <2> QED BY <1>3, <2>3, <2>8 DEF TypeOK, IInv, Near, Clock
<1> QED BY <1>1, <1>2, <1>3, PTL DEF Spec
=============================================================================
