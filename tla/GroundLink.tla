------------------------------ MODULE GroundLink ------------------------------
(***************************************************************************)
(* The link between the laptop and the Pi: heartbeat_node and yolo_node on *)
(* the laptop, a best-effort network, detection_gate_node and              *)
(* ground_station_watchdog_node on the Pi.                                 *)
(*                                                                         *)
(* A message is under way for at most BeatDelay or FrameDelay units.  In   *)
(* that time each subscriber may receive it never, once or repeatedly, in  *)
(* any order with the others.  The laptop may crash and be restarted at    *)
(* any moment, with its sequence counting from 1 again.                    *)
(***************************************************************************)
EXTENDS DetectionGate, LinkWatchdog

CONSTANTS
  BeatDelay,
  FrameDelay,
  Detections,     \* what may be in the frames of the laptop
  MaxSequence     \* bound: the laptop is restarted at the latest here

ASSUME GroundLinkAssumption ==
  /\ {BeatDelay, FrameDelay} \subseteq Nat
  /\ Detections \subseteq Seq(Detection)
  /\ MaxSequence \in Nat \ {0}

VARIABLES
  laptop_up,
  sequence,     \* of the last beat since the laptop was started
  beat_due,     \* no beat yet in this unit of time
  beats,        \* heartbeats under way
  frames,       \* detection arrays under way, by the age of their image
  silent        \* time since the laptop sent a beat

laptop == <<laptop_up, sequence, beat_due>>
network == <<beats, frames>>
vars == <<gate, watchdog, laptop, network, silent>>

LongSilence == GateHeartbeatAge + WatchdogHeartbeatAge + BeatDelay + 2

Init ==
  /\ GateInit
  /\ WatchdogInit
  /\ laptop_up = FALSE /\ sequence = 0
  /\ beat_due = TRUE
  /\ beats = {} /\ frames = {}
  /\ silent = LongSilence

------------------------------------------------------------------------------
(* The laptop.                                                             *)

Beat ==
  /\ laptop_up /\ beat_due
  /\ sequence' = IF sequence = MaxSequence THEN 1 ELSE sequence + 1
  /\ beats' = beats \cup {[seq |-> sequence', age |-> 0]}
  /\ beat_due' = FALSE
  /\ silent' = 0
  /\ UNCHANGED <<gate, watchdog, laptop_up, frames>>

\* One image per unit of time is enough to tell images by their ages.
PublishFrame ==
  /\ laptop_up
  /\ \A f \in frames : f.age > 0
  /\ \E d \in Detections :
       frames' = frames \cup {[age |-> 0, detections |-> d]}
  /\ UNCHANGED <<gate, watchdog, laptop_up, sequence, beat_due, beats, silent>>

Crash ==
  /\ laptop_up
  /\ laptop_up' = FALSE
  /\ UNCHANGED <<gate, watchdog, sequence, beat_due, network, silent>>

Start ==
  /\ ~laptop_up
  /\ laptop_up' = TRUE
  /\ sequence' = 0
  /\ UNCHANGED <<gate, watchdog, beat_due, network, silent>>

------------------------------------------------------------------------------
(* The Pi.                                                                 *)

GateReceives ==
  /\ \/ \E b \in beats : GateOnHeartbeat(b.seq)
     \/ \E f \in frames : GateOnDetections(f)
  /\ UNCHANGED <<watchdog, laptop, network, silent>>

GateInterval == RateIntervalPasses /\ UNCHANGED <<watchdog, laptop, network, silent>>

WatchdogReceives ==
  /\ \/ \E b \in beats : WatchdogOnHeartbeat(b.seq)
     \/ frames # {} /\ WatchdogOnDetections
  /\ UNCHANGED <<gate, laptop, network, silent>>

WatchdogTicks == tick_due /\ Tick /\ UNCHANGED <<gate, laptop, network, silent>>

OneOlder(messages, delay) ==
  {[m EXCEPT !.age = @ + 1] : m \in {n \in messages : n.age < delay}}

\* One unit of time passes: a running laptop has sent its beat.
Elapse ==
  /\ laptop_up => ~beat_due
  /\ GateElapse
  /\ WatchdogElapse
  /\ beats' = OneOlder(beats, BeatDelay)
  /\ frames' = OneOlder(frames, FrameDelay)
  /\ beat_due' = TRUE
  /\ silent' = IF silent < LongSilence THEN silent + 1 ELSE silent
  /\ UNCHANGED <<laptop_up, sequence>>

Next == Beat \/ PublishFrame \/ Crash \/ Start \/ GateReceives \/ GateInterval
        \/ WatchdogReceives \/ WatchdogTicks \/ Elapse

Spec == Init /\ [][Next]_vars

\* A beat not seen before is not lost for ever.
NewBeatReceived ==
  /\ \E b \in beats : b.seq # heartbeat_seq /\ WatchdogOnHeartbeat(b.seq)
  /\ UNCHANGED <<gate, laptop, network, silent>>

\* Timers keep firing, time passes, and the network is not dead.
FairSpec == /\ Spec
            /\ WF_vars(Beat) /\ WF_vars(WatchdogTicks)
            /\ WF_vars(Elapse) /\ SF_vars(NewBeatReceived)

------------------------------------------------------------------------------
(* Properties.                                                             *)

\* Detections reach the tracker only while a laptop is really there, or was
\* within the heartbeat timeout and the delay of a beat: no mixture of late,
\* repeated and reordered messages, crashes and restarts keeps the gate open.
LaptopBehindFrames ==
  [][passed' # {} => silent <= GateHeartbeatAge + BeatDelay]_vars

\* A laptop that has gone silent is noticed within the timeout, the delay of
\* its last beat and one check.
LossIsNoticed ==
  silent > WatchdogHeartbeatAge + BeatDelay + 1 => ~link_ok

\* A link that was up and whose laptop is gone ends in the requests being
\* withdrawn, whatever the verdict said of the detections meanwhile.
LossEndsInDeassert ==
  link_ok /\ ~laptop_up ~> (deasserted \/ laptop_up)

\* A laptop that stays up is seen again, however often it was restarted.
LinkRecovers == <>[]laptop_up => []<>link_ok
==============================================================================
