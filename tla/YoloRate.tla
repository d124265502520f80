------------------------------ MODULE YoloRate ------------------------------
(***************************************************************************)
(* YoloNode with a memory of when its inferences started.                  *)
(***************************************************************************)
EXTENDS YoloNode, Sequences

VARIABLE starts

RateInit == YoloInit /\ starts = <<>>

RateStart == StartInference /\ starts' = Append(starts, now)

RateOther == OtherYoloSteps /\ UNCHANGED starts

RateNext == RateStart \/ RateOther
RateSpec == RateInit /\ [][RateNext]_<<yolo, starts>>

\* However images and inferences come, and however late the schedule is, max_fps
\* is kept but for a fixed allowance: from the first start to the last, n
\* inferences take more than n - 3 intervals.  A schedule that has fallen behind
\* is never caught up with in a burst.
RateIsKept ==
  Interval > 0 =>
    \A i, j \in DOMAIN starts :
      i <= j => starts[j] - starts[i] > (j - i - 2) * Interval
==============================================================================
