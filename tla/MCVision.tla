------------------------------ MODULE MCVision ------------------------------
(***************************************************************************)
(* Small instances of the parts an image passes on its way to a target     *)
(* error, one after the other: part says which of them a behaviour is of.  *)
(***************************************************************************)
EXTENDS MCTargetTracker, FramePath, YoloRate, JpegStream

VARIABLE part

detecting == <<yolo, path, starts>>
tracking == <<vars, history>>

\* Instead of the native camera of the cfg: an encoder three times slower than the
\* camera, and every second image passed over.
Encoder ==
  INSTANCE FramePath WITH
    Interval <- 0, EveryN <- 2, StartTime <- 4, Period <- 1, Jitter <- 0,
    RelayDepths <- {1}, Horizon <- 24

\* The rate is that of inferences, whatever becomes of their detections.
RateHorizon == 22

PartInit ==
  /\ HInit /\ StreamInit
  /\ \/ part = "encoder" /\ Encoder!PathInit
     \/ part \in {"native", "rate", "splitter", "tracker"} /\ PathInit
  /\ starts = <<>>

NativeStep == part = "native" /\ PathNext /\ UNCHANGED starts
EncoderStep == part = "encoder" /\ Encoder!PathNext /\ UNCHANGED starts
RateStep ==
  /\ part = "rate" /\ RateNext
  /\ now' <= RateHorizon /\ image' \subseteq {0} /\ detections' = {}
  /\ UNCHANGED path

PartNext ==
  /\ \/ NativeStep /\ UNCHANGED <<stream, tracking>>
     \/ EncoderStep /\ UNCHANGED <<stream, tracking>>
     \/ RateStep /\ UNCHANGED <<stream, tracking>>
     \/ part = "splitter" /\ StreamNext /\ UNCHANGED <<detecting, tracking>>
     \/ part = "tracker" /\ HNext /\ UNCHANGED <<stream, detecting>>
  /\ UNCHANGED part

PartSpec ==
  /\ PartInit /\ [][PartNext]_<<part, stream, detecting, tracking>>
  /\ WF_tracking(part = "tracker" /\ publish_due /\ HPublish)
  /\ WF_tracking(part = "tracker" /\ HElapse)
=============================================================================
