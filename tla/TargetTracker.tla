---------------------------- MODULE TargetTracker ----------------------------
(***************************************************************************)
(* tracker_node: turns arrays of detections into one target.  A frame      *)
(* without a usable detection is forgiven for a few frames and a short     *)
(* time; then the target is lost.  The timer (30 Hz) expires the target    *)
(* and publishes the TargetError everything else decides on.               *)
(*                                                                         *)
(* A place is a column of the image, 1 in the middle; a confidence is a    *)
(* percentage.  The smoothing filters are left open: a filtered value is   *)
(* anything between the last output and the new input.                     *)
(***************************************************************************)
EXTENDS DroneInterfaces, Sequences

CONSTANTS
  MissedThreshold,       \* missed_detection_threshold
  CoastTimeout,          \* coast_timeout
  StaleTimeout,          \* stale_detection_timeout
  ReacquisitionTimeout,  \* reacquisition_timeout
  LockConfirmFrames,     \* lock_confirm_frames
  TrackerFrames          \* the detection arrays that may arrive

Place == 0 .. 2
Middle == 1

\* usable: the class is the target's, confidence and area are in range.
SeenDetection == [usable : BOOLEAN, place : Place, confidence : 0 .. 100,
                  range : Range]

ASSUME TrackerAssumption ==
  /\ {MissedThreshold, LockConfirmFrames} \subseteq Nat \ {0}
  /\ {CoastTimeout, StaleTimeout, ReacquisitionTimeout} \subseteq Nat
  /\ TrackerFrames \subseteq Seq(SeenDetection)

VARIABLES
  tracking_state,
  message_age,            \* {} or the age of the last detection array
  valid_age,              \* {} or the age of the last usable detection
  last_known_place,       \* where that was, for ranking only
  missed_count,           \* missed_detection_count, up to the threshold
  valid_count,            \* consecutive valid detections, up to the lock
  visible_for_control,    \* target_visible_for_control
  current_place,          \* what is steered at
  current_range,
  error_filter,           \* {} or the last output of the error filter
  range_filter,           \* {} or the last output of the distance filter
  published,              \* the TargetError last published
  publish_due             \* not yet published in this unit of time

memory  == <<message_age, valid_age, last_known_place>>
counts  == <<missed_count, valid_count>>
target  == <<tracking_state, visible_for_control, current_place, current_range,
             error_filter, range_filter>>
vars    == <<memory, counts, target, published, publish_due>>

Init ==
  /\ tracking_state = "SEARCHING"
  /\ message_age = {} /\ valid_age = {}
  /\ last_known_place = Middle
  /\ missed_count = 0 /\ valid_count = 0
  /\ visible_for_control = FALSE
  /\ current_place = Middle /\ current_range = "invalid"
  /\ error_filter = {} /\ range_filter = {}
  /\ published = NoTarget
  /\ publish_due = TRUE

------------------------------------------------------------------------------
(* The best detection of a frame.                                          *)

Within(ages, timeout) == \E age \in ages : age <= timeout
Beyond(ages, timeout) == \E age \in ages : age > timeout

Columns(p, q) == IF p > q THEN p - q ELSE q - p

\* Memory ranks the detections of the frame while it is recent: 0.3 for the same
\* place, half the distance against any other (a column is half an image).
Score(d) ==
  d.confidence +
    IF ~Within(valid_age, ReacquisitionTimeout) THEN 0
    ELSE IF d.place = last_known_place THEN 30
    ELSE -25 * Columns(d.place, last_known_place)

\* The indices of the best detection: none, or the first with the top score.
BestDetection(frame) ==
  {i \in DOMAIN frame :
     /\ frame[i].usable
     /\ \A j \in DOMAIN frame : frame[j].usable =>
          \/ Score(frame[i]) > Score(frame[j])
          \/ Score(frame[i]) = Score(frame[j]) /\ i <= j}

------------------------------------------------------------------------------
(* Smoothing.                                                              *)

Between(a, b) == {x \in Sign : (a <= x /\ x <= b) \/ (b <= x /\ x <= a)}
Smoothed(filter, input) ==
  IF filter = {} THEN {input} ELSE UNION {Between(a, input) : a \in filter}

RangeSign(r) == CASE r = "near" -> -1 [] r = "at" -> 0 [] r = "far" -> 1
SignRange(s) == CASE s = -1 -> "near" [] s = 0 -> "at" [] s = 1 -> "far"

\* A detection too small to measure makes the distance invalid.
UpdateRange(r) ==
  IF r = "invalid"
  THEN current_range' = "invalid" /\ range_filter' = {}
  ELSE \E s \in Smoothed(range_filter, RangeSign(r)) :
         current_range' = SignRange(s) /\ range_filter' = {s}

------------------------------------------------------------------------------
ClearTarget ==
  /\ current_place' = Middle /\ current_range' = "invalid"
  /\ error_filter' = {} /\ range_filter' = {}

\* Plausible bug: a lost target is cleared but stays visible.
MarkLostStillVisible(age) ==
  /\ UNCHANGED visible_for_control
  /\ ClearTarget
  /\ tracking_state' = IF Within(age, ReacquisitionTimeout) THEN "LOST"
                       ELSE "SEARCHING"

\* age is that of the last usable detection.
MarkLost(age) ==
  /\ visible_for_control' = FALSE
  /\ ClearTarget
  /\ tracking_state' = IF Within(age, ReacquisitionTimeout) THEN "LOST"
                       ELSE "SEARCHING"

ValidDetection(d) ==
  /\ message_age' = {0} /\ valid_age' = {0}
  /\ last_known_place' = d.place
  /\ missed_count' = 0
  /\ valid_count' = IF valid_count < LockConfirmFrames THEN valid_count + 1
                    ELSE valid_count
  /\ current_place' = d.place
  /\ UpdateRange(d.range)
  /\ visible_for_control' = (valid_count' >= LockConfirmFrames)
  /\ tracking_state' = IF valid_count' >= LockConfirmFrames THEN "LOCKED"
                       ELSE "SEARCHING"
  /\ UNCHANGED error_filter

\* Plausible bug: the count starts again once the target is given up.
CountMissAgain ==
  missed_count' = IF missed_count + 1 < MissedThreshold THEN missed_count + 1 ELSE 0

CountMiss ==
  missed_count' = IF missed_count < MissedThreshold THEN missed_count + 1
                  ELSE missed_count

\* Plausible bug: the time of the last detection is not asked for.
HoldsLockByCount == valid_age # {} /\ missed_count + 1 < MissedThreshold

\* Plausible bug: one frame too many is forgiven.
HoldsLockOneMore ==
  Within(valid_age, CoastTimeout) /\ missed_count < MissedThreshold

HoldsLock ==
  Within(valid_age, CoastTimeout) /\ missed_count + 1 < MissedThreshold

MissedDetection ==
  /\ message_age' = {0}
  /\ UNCHANGED <<valid_age, last_known_place>>
  /\ valid_count' = 0
  /\ CountMiss
  /\ IF HoldsLock
     THEN /\ visible_for_control' = TRUE
          /\ tracking_state' = "LOCKED"
          /\ UNCHANGED <<current_place, current_range, error_filter, range_filter>>
     ELSE MarkLost(valid_age)

DetectionCallback(frame) ==
  /\ IF BestDetection(frame) = {} THEN MissedDetection
     ELSE \E i \in BestDetection(frame) : ValidDetection(frame[i])
  /\ UNCHANGED <<published, publish_due>>

------------------------------------------------------------------------------
(* The timer.                                                              *)

StreamStale == Beyond(message_age, StaleTimeout)

\* Plausible bug: only a stream that stopped expires a target.
TargetExpiredByStream == visible_for_control /\ StreamStale

TargetExpired ==
  visible_for_control /\ (StreamStale \/ Beyond(valid_age, CoastTimeout))

\* Plausible bug: only missed frames send a lost target back to the search.
LostForGoodByFrames ==
  /\ ~visible_for_control /\ tracking_state = "LOST"
  /\ missed_count = MissedThreshold

LostForGood ==
  /\ ~visible_for_control /\ tracking_state = "LOST"
  /\ Beyond(valid_age, ReacquisitionTimeout)

\* Leaves error_filter to PublishError unless it clears it.
ExpireTarget ==
  \/ /\ TargetExpired
     /\ MarkLost(valid_age)
     /\ UNCHANGED counts
  \/ /\ LostForGood
     /\ tracking_state' = "SEARCHING"
     /\ missed_count' = 0
     /\ UNCHANGED <<valid_count, visible_for_control, current_place, current_range,
                    range_filter>>
  \/ /\ ~TargetExpired /\ ~LostForGood
     /\ UNCHANGED <<counts, tracking_state, visible_for_control, current_place,
                    current_range, range_filter>>

\* Plausible bug: the error is not taken from the middle of the image.
ErrorOfUncentred(place) == place

ErrorOf(place) == place - Middle

\* What is published is tested once more; only then is the error smoothed.
PublishError ==
  LET visible == /\ visible_for_control' /\ tracking_state' = "LOCKED"
                 /\ ~StreamStale
                 /\ Within(valid_age, CoastTimeout)
  IN
  /\ ExpireTarget
  /\ \/ /\ visible
        /\ \E e \in Smoothed(error_filter, ErrorOf(current_place')) :
             /\ error_filter' = {e}
             /\ published' = [target_visible |-> TRUE,
                              tracking_state |-> tracking_state',
                              bearing |-> e, range |-> current_range']
     \/ /\ ~visible
        /\ ~TargetExpired => UNCHANGED error_filter
        /\ published' = [NoTarget EXCEPT !.tracking_state = tracking_state']
  /\ publish_due' = FALSE
  /\ UNCHANGED memory

LongestTimeout ==
  CHOOSE t \in {CoastTimeout, StaleTimeout, ReacquisitionTimeout} :
    \A u \in {CoastTimeout, StaleTimeout, ReacquisitionTimeout} : u <= t

OneOlder(ages) == {IF age > LongestTimeout THEN age ELSE age + 1 : age \in ages}

\* One unit of time passes; the timer fires at least once in it.
Elapse ==
  /\ ~publish_due
  /\ publish_due' = TRUE
  /\ message_age' = OneOlder(message_age)
  /\ valid_age' = OneOlder(valid_age)
  /\ UNCHANGED <<last_known_place, counts, target, published>>

Next == \/ \E frame \in TrackerFrames : DetectionCallback(frame)
        \/ PublishError
        \/ Elapse

Spec == Init /\ [][Next]_vars

\* rclpy keeps the timer firing and time passes.
FairSpec == Spec /\ WF_vars(publish_due /\ PublishError) /\ WF_vars(Elapse)

------------------------------------------------------------------------------
(* Properties.                                                             *)

\* No age, or one.
AgeType(ages) == ages \subseteq Nat /\ \A a, b \in ages : a = b

\* Every variable holds a value of its type.
TypeOK ==
  /\ tracking_state \in {"SEARCHING", "LOCKED", "LOST"}
  /\ AgeType(message_age) /\ AgeType(valid_age)
  /\ last_known_place \in Place /\ current_place \in Place
  /\ missed_count \in 0 .. MissedThreshold
  /\ valid_count \in 0 .. LockConfirmFrames
  /\ visible_for_control \in BOOLEAN
  /\ current_range \in Range
  /\ error_filter \subseteq Sign /\ range_filter \subseteq Sign
  /\ published \in TargetError
  /\ publish_due \in BOOLEAN

\* What is steered at is where the target was last seen, through every loss,
\* grace period and reset.
SteersAtTarget == visible_for_control => current_place = last_known_place

\* LOCKED and visible are published together: the consumers ask for both, and
\* the operator reads the one.
LockedMeansVisible ==
  (published.tracking_state = "LOCKED") <=> published.target_visible
==============================================================================
