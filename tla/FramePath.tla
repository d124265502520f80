----------------------------- MODULE FramePath -----------------------------
(***************************************************************************)
(* The way of an image from the camera to the detections made of it: the   *)
(* camera, on some setups a node that encodes what it gets from a topic    *)
(* (camera_compressor_node behind camera_node, or gz_cam_republisher), and *)
(* yolo_node.  Each topic keeps its last few images only, and any of them  *)
(* may be lost.                                                            *)
(*                                                                         *)
(* Callbacks that can run do so before time passes; what takes time is     *)
(* encoding an image and inferring on it.                                  *)
(***************************************************************************)
EXTENDS YoloNode, Sequences

CONSTANTS
  Period, Jitter,      \* image k is taken at k * Period, up to Jitter late
  EncodeTime,          \* the longest encoding ...
  InferenceTime,       \* ... and inference
  RelayDepths,         \* the depths of the encoder's subscription, 0: no encoder
  Restamps,            \* the encoder is gz_cam_republisher
  Horizon              \* bound of the runs: the time to look at

ASSUME FramePathAssumption ==
  /\ Period \in Nat \ {0} /\ Jitter \in 0..(Period - 1)
  /\ EncodeTime \in Nat /\ InferenceTime \in Nat /\ Horizon \in Nat
  /\ RelayDepths \subseteq Nat /\ Restamps \in BOOLEAN

VARIABLES
  frame,                  \* the number of the next image
  relay_depth,
  relay,                  \* the images in the encoder's subscription
  encoding, encoding_for, \* {} or {stamp}, and for how long
  skipped                 \* images the throttle skipped since its last anchor

relaying == <<relay_depth, relay, encoding, encoding_for>>
path == <<frame, relaying, skipped>>

PathInit ==
  /\ YoloInit
  /\ frame \in {StartTime \div Period + 1}
  /\ relay_depth \in RelayDepths
  /\ relay = <<>> /\ encoding = {} /\ encoding_for = 0
  /\ skipped = 0

------------------------------------------------------------------------------
\* Best effort, keep last: the oldest image makes room.
Keep(queue, stamp, depth) ==
  LET all == Append(queue, stamp)
  IN  IF Len(all) > depth THEN Tail(all) ELSE all

\* Plausible bug: an image is stamped with when it was due.
DueStamp == frame * Period

\* The camera stamps an image when it has read it.
CameraStamp == now

\* An image may be lost, or the read may fail.
CameraFrame ==
  /\ now \in (frame * Period)..(frame * Period + Jitter)
  /\ frame' = frame + 1
  /\ \/ UNCHANGED <<yolo, relay>>
     \/ relay_depth = 0 /\ ImageArrives(CameraStamp) /\ UNCHANGED relay
     \/ relay_depth > 0 /\ relay' = Keep(relay, CameraStamp, relay_depth) /\ UNCHANGED yolo
  /\ UNCHANGED <<relay_depth, encoding, encoding_for, skipped>>

\* The compressor encodes only when somebody subscribes, as yolo_node does here.
EncodeFrame ==
  /\ relay # <<>> /\ encoding = {}
  /\ encoding' = {Head(relay)} /\ encoding_for' = 0
  /\ relay' = Tail(relay)
  /\ UNCHANGED <<yolo, frame, relay_depth, skipped>>

\* The compressor keeps the stamp of the camera, where gz_cam_republisher, whose
\* images carry simulated time, sets its own; an encoding that fails, or an image
\* lost, arrives nowhere.
FrameEncoded ==
  /\ encoding # {}
  /\ encoding' = {} /\ encoding_for' = 0
  /\ UNCHANGED yolo \/ \E s \in encoding : ImageArrives(IF Restamps THEN now ELSE s)
  /\ UNCHANGED <<frame, relay_depth, relay, skipped>>

Detector ==
  /\ Callbacks \/ InferenceEnds
  /\ skipped' = IF SkipImage THEN skipped + 1
                ELSE IF StartInference /\ FarBehind THEN 0 ELSE skipped
  /\ UNCHANGED <<frame, relaying>>

CanRun == \/ relay # <<>> /\ encoding = {}
          \/ image # {} /\ inferring = {}

TimePasses ==
  /\ now < Horizon
  /\ ~CanRun
  /\ now < frame * Period + Jitter
  /\ encoding # {} => encoding_for < EncodeTime
  /\ \A i \in inferring : now - i.since < InferenceTime
  /\ Tick
  /\ encoding_for' = IF encoding = {} THEN 0 ELSE encoding_for + 1
  /\ UNCHANGED <<frame, relay_depth, relay, encoding, skipped>>

PathNext == CameraFrame \/ EncodeFrame \/ FrameEncoded \/ Detector \/ TimePasses
PathSpec == PathInit /\ [][PathNext]_<<yolo, path>>

------------------------------------------------------------------------------
(* Properties.                                                             *)

\* The longest an encoder makes an image wait: behind the one it is encoding and
\* those in its queue, with its own encoding.
LongestRelay == IF relay_depth = 0 THEN 0 ELSE (relay_depth + 1) * EncodeTime

\* An array of detections is never older than the images in front of it in the
\* encoder's queue and two inferences can make it, however far the detector
\* falls behind the camera: nothing piles up.
DetectionsAreRecent ==
  \A array \in detections :
    array.time - array.stamp <= LongestRelay + 2 * InferenceTime

\* With max_fps at the rate of the camera, the throttle does not drop every other
\* image for arriving a little early: between two anchors of its schedule it
\* skips no more than two.
FewAreSkipped == relay_depth = 0 /\ Interval <= Period => skipped <= 2
==============================================================================
