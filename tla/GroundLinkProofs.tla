--------------------------- MODULE GroundLinkProofs ---------------------------
(***************************************************************************)
(* What the Pi believes of the laptop is never far behind it, whatever the *)
(* network does to the heartbeats and however often the laptop crashes.    *)
(***************************************************************************)
EXTENDS GroundLink, TLAPS

\* The age of a heartbeat accepted, up to its limit, bounds the laptop's silence.
Follows(ages, limit) ==
  \A age \in ages : age \in Nat /\ (age <= limit => silent <= age + BeatDelay)

BeatsFollow ==
  /\ sequence \in Nat
  /\ silent \in Nat
  /\ beats \subseteq [seq : Nat, age : Nat]
  /\ \A b \in beats : silent <= b.age /\ b.age <= BeatDelay

GateFollows ==
  /\ Follows(gate_heartbeat_age, GateHeartbeatAge)
  /\ passed # {} => silent <= GateHeartbeatAge + BeatDelay

WatchdogFollows ==
  /\ Follows(heartbeat_age, WatchdogHeartbeatAge)
  /\ link_ok => silent <= WatchdogHeartbeatAge + BeatDelay + IF tick_due THEN 1 ELSE 0

LEMMA Bounds ==
  {GateHeartbeatAge, WatchdogHeartbeatAge, BeatDelay, LongSilence} \subseteq Nat
BY GateAssumption, WatchdogAssumption, GroundLinkAssumption DEF LongSilence

------------------------------------------------------------------------------
(* Heartbeats under way.                                                   *)

LEMMA SilenceGrows ==
  ASSUME BeatsFollow, Elapse
  PROVE  silent' \in Nat /\ silent' <= silent + 1
BY Bounds DEF BeatsFollow, Elapse

LEMMA BeatsFollowInit == Init => BeatsFollow
BY Bounds DEF Init, BeatsFollow

LEMMA BeatsFollowNext ==
  ASSUME BeatsFollow, [Next]_vars
  PROVE  BeatsFollow'
<1>1. CASE Beat
  <2>1. sequence' \in Nat /\ silent' = 0
    BY <1>1, GroundLinkAssumption DEF Beat, BeatsFollow
  <2>2. beats' = beats \cup {[seq |-> sequence', age |-> 0]}
    BY <1>1 DEF Beat
  <2> QED BY <2>1, <2>2, Bounds DEF BeatsFollow
<1>2. CASE Elapse
  <2>1. ASSUME NEW b \in beats'
        PROVE  b \in [seq : Nat, age : Nat] /\ silent' <= b.age /\ b.age <= BeatDelay
    <3>1. PICK m \in beats : m.age < BeatDelay /\ b = [m EXCEPT !.age = @ + 1]
      BY <1>2, <2>1 DEF Elapse, OneOlder
    <3>2. m \in [seq : Nat, age : Nat] /\ silent <= m.age
      BY <3>1 DEF BeatsFollow
    <3>3. b \in [seq : Nat, age : Nat] /\ b.age = m.age + 1
      BY <3>1, <3>2
    <3> QED BY <1>2, <3>1, <3>2, <3>3, SilenceGrows, Bounds DEF BeatsFollow
  <2> QED BY <1>2, <2>1, SilenceGrows DEF Elapse, BeatsFollow
<1>3. CASE \/ PublishFrame \/ Crash \/ GateReceives \/ GateInterval
           \/ WatchdogReceives \/ WatchdogTicks \/ UNCHANGED vars
  BY <1>3 DEF PublishFrame, Crash, GateReceives, GateInterval, WatchdogReceives,
    WatchdogTicks, vars, laptop, network, BeatsFollow
<1>4. CASE Start
  BY <1>4 DEF Start, network, BeatsFollow
<1> QED BY <1>1, <1>2, <1>3, <1>4 DEF Next

------------------------------------------------------------------------------
(* The gate and the watchdog.                                              *)

\* A beat just received is at most BeatDelay old.
LEMMA ReceivedFollows ==
  ASSUME BeatsFollow, NEW b \in beats, NEW limit \in Nat, silent' = silent
  PROVE  Follows({0}, limit)'
BY Bounds DEF BeatsFollow, Follows

LEMMA OlderFollows ==
  ASSUME BeatsFollow, Elapse, NEW ages, NEW limit \in Nat, Follows(ages, limit)
  PROVE  \A age \in {IF a > limit THEN a ELSE a + 1 : a \in ages} :
           age \in Nat /\ (age <= limit => silent' <= age + BeatDelay)
BY SilenceGrows, Bounds DEF BeatsFollow, Follows

LEMMA GateFollowsNext ==
  ASSUME BeatsFollow, RequireHeartbeat = TRUE, GateFollows, [Next]_vars
  PROVE  GateFollows'
<1>1. CASE Beat
  <2>1. silent' = 0 /\ UNCHANGED gate
    BY <1>1 DEF Beat
  <2> QED BY <2>1, Bounds DEF gate, GateFollows, Follows
<1>2. CASE Elapse
  <2>1. passed' = {} /\ gate_heartbeat_age' = OlderIn(gate_heartbeat_age, GateHeartbeatAge)
    BY <1>2 DEF Elapse, GateElapse
  <2> QED BY <1>2, <2>1, OlderFollows, Bounds DEF OlderIn, GateFollows, Follows
<1>3. CASE \E b \in beats : GateOnHeartbeat(b.seq) /\ silent' = silent
  <2>1. passed' = {}
    BY <1>3 DEF GateOnHeartbeat
  <2>2. gate_heartbeat_age' = gate_heartbeat_age \/ gate_heartbeat_age' = {0}
    BY <1>3 DEF GateOnHeartbeat
  <2> QED BY <1>3, <2>1, <2>2, ReceivedFollows, Bounds DEF GateFollows, Follows
<1>4. CASE \E f \in frames : GateOnDetections(f) /\ silent' = silent
  <2>1. gate_heartbeat_age' = gate_heartbeat_age
    BY <1>4 DEF GateOnDetections
  <2>2. passed' # {} => \E age \in gate_heartbeat_age : age <= GateHeartbeatAge
    BY <1>4 DEF GateOnDetections, HeartbeatFresh
  <2>3. passed' # {} => silent <= GateHeartbeatAge + BeatDelay
    BY <2>2, Bounds DEF GateFollows, Follows, BeatsFollow
  <2> QED BY <1>4, <2>1, <2>3 DEF GateFollows, Follows
<1>5. CASE GateInterval
  BY <1>5 DEF GateInterval, RateIntervalPasses, GateFollows, Follows
<1>6. CASE UNCHANGED <<gate, silent>>
  BY <1>6 DEF gate, GateFollows, Follows
<1> QED BY <1>1, <1>2, <1>3, <1>4, <1>5, <1>6
        DEF Next, PublishFrame, Crash, Start, GateReceives, WatchdogReceives,
            WatchdogTicks, vars

LEMMA WatchdogFollowsNext ==
  ASSUME BeatsFollow, WatchdogFollows, [Next]_vars
  PROVE  WatchdogFollows'
<1>1. CASE Beat
  <2>1. silent' = 0 /\ UNCHANGED watchdog
    BY <1>1 DEF Beat
  <2> QED BY <2>1, Bounds DEF watchdog, WatchdogFollows, Follows
<1>2. CASE Elapse
  <2>1. /\ ~tick_due /\ tick_due' /\ link_ok' = link_ok
        /\ heartbeat_age' = OlderAge(heartbeat_age, WatchdogHeartbeatAge)
    BY <1>2 DEF Elapse, WatchdogElapse
  <2>2. Follows(heartbeat_age, WatchdogHeartbeatAge)'
    BY <1>2, <2>1, OlderFollows, Bounds DEF OlderAge, WatchdogFollows, Follows
  <2>3. link_ok => silent' <= WatchdogHeartbeatAge + BeatDelay + 1
    BY <1>2, <2>1, SilenceGrows, Bounds DEF WatchdogFollows, BeatsFollow
  <2> QED BY <2>1, <2>2, <2>3 DEF WatchdogFollows
<1>3. CASE \E b \in beats : WatchdogOnHeartbeat(b.seq) /\ silent' = silent
  <2>1. UNCHANGED <<link_ok, tick_due>>
    BY <1>3 DEF WatchdogOnHeartbeat
  <2>2. heartbeat_age' = heartbeat_age \/ heartbeat_age' = {0}
    BY <1>3 DEF WatchdogOnHeartbeat
  <2> QED BY <1>3, <2>1, <2>2, ReceivedFollows, Bounds DEF WatchdogFollows, Follows
<1>4. CASE WatchdogOnDetections /\ silent' = silent
  BY <1>4 DEF WatchdogOnDetections, WatchdogFollows, Follows
<1>5. CASE WatchdogTicks
  <2>1. /\ heartbeat_age' = heartbeat_age /\ silent' = silent
        /\ link_ok' = HeartbeatOK /\ ~tick_due'
    BY <1>5 DEF WatchdogTicks, Tick
  <2>2. HeartbeatOK => silent <= WatchdogHeartbeatAge + BeatDelay
    BY Bounds DEF HeartbeatOK, WatchdogFollows, Follows, BeatsFollow
  <2> QED BY <2>1, <2>2, Bounds DEF WatchdogFollows, Follows, BeatsFollow
<1>6. CASE UNCHANGED <<watchdog, silent>>
  BY <1>6 DEF watchdog, WatchdogFollows, Follows
<1> QED BY <1>1, <1>2, <1>3, <1>4, <1>5, <1>6
        DEF Next, PublishFrame, Crash, Start, GateReceives, GateInterval,
            WatchdogReceives, vars

------------------------------------------------------------------------------
(* The theorems.                                                           *)

\* A laptop that has gone silent is noticed within the watchdog's timeout, the delay
\* of its last beat and one check, for every timeout and delay.
THEOREM LossNoticedInTime == Spec => []LossIsNoticed
<1>1. Init => BeatsFollow /\ WatchdogFollows
  BY BeatsFollowInit DEF Init, WatchdogInit, WatchdogFollows, Follows
<1>2. BeatsFollow /\ WatchdogFollows /\ [Next]_vars => BeatsFollow' /\ WatchdogFollows'
  BY BeatsFollowNext, WatchdogFollowsNext
<1>3. BeatsFollow /\ WatchdogFollows => LossIsNoticed
  BY Bounds DEF BeatsFollow, WatchdogFollows, LossIsNoticed
<1> QED BY <1>1, <1>2, <1>3, PTL DEF Spec

\* With require_heartbeat, detections reach the tracker only while the laptop is
\* there or was within the gate's timeout and the delay of a beat.
THEOREM FramesFollowLaptop ==
  ASSUME RequireHeartbeat = TRUE
  PROVE  Spec => LaptopBehindFrames
<1>1. Init => BeatsFollow /\ GateFollows
  BY BeatsFollowInit DEF Init, GateInit, GateFollows, Follows
<1>2. BeatsFollow /\ GateFollows /\ [Next]_vars => BeatsFollow' /\ GateFollows'
  BY BeatsFollowNext, GateFollowsNext
<1>3. ASSUME BeatsFollow, GateFollows, GateFollows', Next, passed' # {}
      PROVE  silent <= GateHeartbeatAge + BeatDelay
  <2>1. CASE silent' = silent
    BY <1>3, <2>1 DEF GateFollows
  <2>2. CASE Beat
    BY <1>3, <2>2 DEF Beat, gate, GateFollows
  <2>3. CASE Elapse
    BY <1>3, <2>3 DEF Elapse, GateElapse
  <2> QED BY <1>3, <2>1, <2>2, <2>3
          DEF Next, PublishFrame, Crash, Start, GateReceives, GateInterval,
              WatchdogReceives, WatchdogTicks
<1>4. BeatsFollow /\ GateFollows /\ GateFollows' /\ [Next]_vars
        => [passed' # {} => silent <= GateHeartbeatAge + BeatDelay]_vars
  BY <1>3
<1> QED BY <1>1, <1>2, <1>4, PTL DEF Spec, LaptopBehindFrames
==============================================================================
