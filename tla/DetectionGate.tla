---------------------------- MODULE DetectionGate ----------------------------
(***************************************************************************)
(* detection_gate_node: the trust boundary of the Pi.  Detections computed *)
(* on the laptop are republished to the tracker only at a bounded rate,    *)
(* over a link that is alive, while they are young, in the order of their  *)
(* stamps, and without the malformed ones.                                 *)
(*                                                                         *)
(* A stamp is the age of what it stamps: the clock that stamps a frame and *)
(* the one it is compared with are both the Pi's, and do not step.  The    *)
(* Python value None is the empty set.                                     *)
(***************************************************************************)
EXTENDS Naturals, Sequences

CONSTANTS
  GateHeartbeatAge,   \* max_heartbeat_age_s
  GateDetectionAge,   \* max_detection_age_s
  RequireHeartbeat,   \* require_heartbeat
  MaxDetections       \* max_detections

\* What _detection_valid decides: finite, inside the image, confident enough.
Detection == [valid : BOOLEAN]
Frame == [age : Nat, detections : Seq(Detection)]

ASSUME GateAssumption ==
  /\ {GateHeartbeatAge, GateDetectionAge} \subseteq Nat
  /\ RequireHeartbeat \in BOOLEAN
  /\ MaxDetections \in Nat \ {0}

VARIABLES
  gate_heartbeat_age,   \* {} or the age of the last heartbeat accepted
  gate_heartbeat_seq,   \* {} or its sequence
  last_passed_stamp,    \* {} or the age of the last frame passed
  rate_open,            \* the shortest time between two frames has gone by
  passed                \* {} or the frame the last callback republished

gate == <<gate_heartbeat_age, gate_heartbeat_seq, last_passed_stamp, rate_open,
          passed>>

GateInit ==
  /\ gate_heartbeat_age = {}
  /\ gate_heartbeat_seq = {}
  /\ last_passed_stamp = {}
  /\ rate_open = TRUE
  /\ passed = {}

------------------------------------------------------------------------------
\* Plausible bug: a link that was up once counts as up.
HeartbeatEverSeen ==
  IF gate_heartbeat_age = {} THEN ~RequireHeartbeat ELSE TRUE

HeartbeatFresh ==
  IF gate_heartbeat_age = {} THEN ~RequireHeartbeat
  ELSE \A age \in gate_heartbeat_age : age <= GateHeartbeatAge

\* The loop over the detections stops at MaxDetections kept.
Sanitized(detections) ==
  LET kept == SelectSeq(detections, LAMBDA d : d.valid)
  IN IF Len(kept) > MaxDetections THEN SubSeq(kept, 1, MaxDetections) ELSE kept

\* A frame as old as the last one passed, or older, is out of order.
InOrder(frame) == \A age \in last_passed_stamp : frame.age < age

\* Only an exact duplicate of the last beat is ignored; a sequence that goes
\* back is a ground station that was restarted.
GateOnHeartbeat(seq) ==
  /\ IF seq \in gate_heartbeat_seq
     THEN UNCHANGED <<gate_heartbeat_age, gate_heartbeat_seq>>
     ELSE gate_heartbeat_age' = {0} /\ gate_heartbeat_seq' = {seq}
  /\ passed' = {}
  /\ UNCHANGED <<last_passed_stamp, rate_open>>

\* A frame that comes too soon does not restart the interval; one dropped later
\* does.
GateOnDetections(frame) ==
  /\ rate_open' = FALSE
  /\ IF rate_open /\ HeartbeatFresh /\ frame.age <= GateDetectionAge
          /\ InOrder(frame)
     THEN /\ passed' = {[frame EXCEPT !.detections = Sanitized(@)]}
          /\ last_passed_stamp' = {frame.age}
     ELSE passed' = {} /\ UNCHANGED last_passed_stamp
  /\ UNCHANGED <<gate_heartbeat_age, gate_heartbeat_seq>>

\* The interval between frames is short against a unit of time.
RateIntervalPasses ==
  /\ ~rate_open
  /\ rate_open' = TRUE
  /\ passed' = {}
  /\ UNCHANGED <<gate_heartbeat_age, gate_heartbeat_seq, last_passed_stamp>>

\* An age matters only until it is past its limit.
OlderIn(ages, limit) == {IF age > limit THEN age ELSE age + 1 : age \in ages}

GateElapse ==
  /\ rate_open' = TRUE
  /\ gate_heartbeat_age' = OlderIn(gate_heartbeat_age, GateHeartbeatAge)
  /\ last_passed_stamp' = OlderIn(last_passed_stamp, GateDetectionAge)
  /\ passed' = {}
  /\ UNCHANGED gate_heartbeat_seq
==============================================================================
