------------------------------ MODULE YoloNode ------------------------------
(***************************************************************************)
(* yolo_node: the throttle that decides which images are inferred on.      *)
(* One thread runs the callbacks, so an image that arrives during an       *)
(* inference waits in the subscription, which keeps the last one only.     *)
(* An image is its stamp; boxes and classes are left out.                  *)
(***************************************************************************)
EXTENDS Integers

CONSTANTS
  Interval,          \* min_process_interval_s; 0 is a max_fps of 0: no throttle
  EveryN,            \* process_every_n_frames
  StartTime          \* what the monotonic clock shows when the node starts

ASSUME YoloAssumption ==
  Interval \in Nat /\ EveryN \in Nat \ {0} /\ StartTime \in Nat

VARIABLES
  now,
  model_loaded,
  image,                  \* {} or {stamp} of the image in the subscription
  inferring,              \* {} or the image under inference: its stamp, the start
  received_frames,        \* modulo EveryN, which is all that is asked of it
  next_process_time,
  detections              \* {} or the array published just now: its stamp, the time

yolo == <<now, model_loaded, image, inferring, received_frames,
          next_process_time, detections>>

YoloInit ==
  /\ now = StartTime
  /\ model_loaded \in BOOLEAN
  /\ image = {} /\ inferring = {}
  /\ received_frames = 0
  /\ next_process_time = 0
  /\ detections = {}

------------------------------------------------------------------------------
\* Plausible bug: each slot counts from the image processed last.
NextSlotFromNow == now + Interval

\* Plausible bug: a schedule that fell behind is caught up with.
NextSlotCatchingUp == next_process_time + Interval

\* The schedule keeps its anchor, unless it fell more than an interval behind.
FarBehind == next_process_time + Interval <= now - Interval

NextSlot == (IF FarBehind THEN now ELSE next_process_time) + Interval

SlotReached == Interval = 0 \/ now >= next_process_time

Selected(count) == model_loaded /\ count = 0

ImageArrives(stamp) ==
  /\ image' = {stamp}
  /\ UNCHANGED <<now, model_loaded, inferring, received_frames, next_process_time,
                 detections>>

TakeImage == image # {} /\ inferring = {} /\ image' = {}

\* An image that cannot be decoded is not even counted.
DecodeFails ==
  /\ TakeImage
  /\ UNCHANGED <<now, model_loaded, inferring, received_frames, next_process_time,
                 detections>>

CountFrame == received_frames' = (received_frames + 1) % EveryN

\* Not its turn, or no model.
PassOver ==
  /\ TakeImage /\ CountFrame
  /\ ~Selected(received_frames')
  /\ UNCHANGED <<now, model_loaded, inferring, next_process_time, detections>>

\* The next slot has not come yet.
SkipImage ==
  /\ TakeImage /\ CountFrame
  /\ Selected(received_frames') /\ ~SlotReached
  /\ UNCHANGED <<now, model_loaded, inferring, next_process_time, detections>>

StartInference ==
  /\ TakeImage /\ CountFrame
  /\ Selected(received_frames') /\ SlotReached
  /\ next_process_time' = IF Interval = 0 THEN next_process_time ELSE NextSlot
  /\ inferring' = {[stamp |-> s, since |-> now] : s \in image}
  /\ UNCHANGED <<now, model_loaded, detections>>

\* The detections carry the stamp of their image; an inference that raised an
\* exception publishes nothing.
InferenceEnds ==
  /\ inferring # {}
  /\ inferring' = {}
  /\ \/ UNCHANGED detections
     \/ detections' = {[stamp |-> i.stamp, time |-> now] : i \in inferring}
  /\ UNCHANGED <<now, model_loaded, image, received_frames, next_process_time>>

Callbacks == DecodeFails \/ PassOver \/ SkipImage \/ StartInference

Tick ==
  /\ now' = now + 1
  /\ detections' = {}
  /\ UNCHANGED <<model_loaded, image, inferring, received_frames, next_process_time>>

OtherYoloSteps ==
  \/ \E stamp \in 0..now : ImageArrives(stamp)
  \/ DecodeFails \/ PassOver \/ SkipImage \/ InferenceEnds \/ Tick

YoloSpec == YoloInit /\ [][StartInference \/ OtherYoloSteps]_yolo
==============================================================================
