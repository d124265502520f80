--------------------------- MODULE ExecutorProofs ---------------------------
(***************************************************************************)
(* mission_executor_node takes back what it requested, for every plan, any *)
(* number of starts, stops and uploads, and every behaviour of the vehicle *)
(* and the target.                                                         *)
(***************************************************************************)
EXTENDS StepHistory, TLAPS

\* A request: nothing published yet, or the value published last.
LastValues == {{}, {TRUE}, {FALSE}}
Request == [last : LastValues, age : Nat, out : Seq(BOOLEAN)]

RequestTypes == autonomy_request \in Request /\ offboard_request \in Request

ReleaseInv == RequestTypes /\ IdleMeansReleased

------------------------------------------------------------------------------
(* Requests.                                                               *)

LEMMA LastValuesAre ==
  {} \in LastValues /\ {TRUE} \in LastValues /\ {FALSE} \in LastValues
BY Zenon DEF LastValues

LEMMA QuietKeeps ==
  ASSUME NEW r \in Request
  PROVE  Quiet(r) \in Request /\ Quiet(r).last = r.last
<1>1. <<>> \in Seq(BOOLEAN)
  OBVIOUS
<1> QED BY <1>1 DEF Request, Quiet

\* Whether it is suppressed or not, the value asked for is the last one published.
LEMMA PublishSets ==
  ASSUME NEW r \in Request, NEW on \in BOOLEAN
  PROVE  Publish(r, on) \in Request /\ Publish(r, on).last = {on}
<1>1. CASE on \in r.last /\ r.age < RepublishTime
  <2>1. Publish(r, on) = r
    BY <1>1 DEF Publish
  <2>2. r.last = {on}
    <3>1. r.last \in LastValues
      BY DEF Request
    <3> QED BY <1>1, <3>1, Zenon DEF LastValues
  <2> QED BY <2>1, <2>2
<1>2. CASE ~(on \in r.last /\ r.age < RepublishTime)
  <2>1. Publish(r, on) = [last |-> {on}, age |-> 0, out |-> Append(r.out, on)]
    BY <1>2 DEF Publish
  <2>2. {on} \in LastValues
    BY Zenon DEF LastValues
  <2>3. Append(r.out, on) \in Seq(BOOLEAN)
    BY DEF Request
  <2> QED BY <2>1, <2>2, <2>3 DEF Request
<1> QED BY <1>1, <1>2

LEMMA QuietPublishSets ==
  ASSUME NEW r \in Request, NEW on \in BOOLEAN
  PROVE  Publish(Quiet(r), on) \in Request /\ Publish(Quiet(r), on).last = {on}
BY QuietKeeps, PublishSets

LEMMA AgedKeeps ==
  ASSUME NEW r \in Request
  PROVE  LET older == [Quiet(r) EXCEPT !.age = Aged(@, RepublishTime)]
         IN  older \in Request /\ older.last = r.last
<1>1. Quiet(r) \in Request /\ Quiet(r).last = r.last
  BY QuietKeeps
<1>2. Aged(Quiet(r).age, RepublishTime) \in Nat
  BY <1>1 DEF Request, Aged
<1> QED BY <1>1, <1>2 DEF Request

\* What a pass through a step does to the requests.
LEMMA PassPublishes ==
  ASSUME RequestTypes,
         NEW offboard \in LastValues, NEW mode, NEW yaw_rate, NEW done,
         Pass(offboard, mode, yaw_rate, done)
  PROVE  /\ RequestTypes'
         /\ mission_active' = mission_active
         /\ offboard = {FALSE} => offboard_request'.last = {FALSE}
<1>1. autonomy_request' = Publish(Quiet(autonomy_request), TRUE)
  BY DEF Pass
<1>2. autonomy_request' \in Request
  BY <1>1, QuietPublishSets DEF RequestTypes
<1>3. CASE offboard = {}
  BY <1>2, <1>3, QuietKeeps DEF Pass, RequestTypes
<1>4. CASE offboard = {TRUE}
  BY <1>2, <1>4, QuietPublishSets DEF Pass, RequestTypes
<1>5. CASE offboard = {FALSE}
  <2>1. (TRUE \in offboard) = FALSE /\ offboard # {}
    BY <1>5
  <2>2. offboard_request' = Publish(Quiet(offboard_request), FALSE)
    BY <2>1 DEF Pass
  <2> QED BY <1>2, <2>2, QuietPublishSets DEF Pass, RequestTypes
<1> QED BY <1>3, <1>4, <1>5 DEF LastValues

------------------------------------------------------------------------------
(* One lemma for the handlers of the steps: a pass of the loop through a   *)
(* step is a Pass, and sends an action PX4 flies only with FALSE.          *)

FlownByPX4 == \E i \in DOMAIN actions' : actions'[i].action # "DO_ORBIT"

HandlesStep ==
  \/ StepTakeoff \/ StepPrimeOffboard \/ StepScan \/ StepTrackCenter
  \/ StepApproach \/ StepGoto \/ StepOrbit \/ StepRtl \/ StepLand \/ StepHold

Passes ==
  \E offboard \in LastValues :
    /\ \E mode, yaw_rate, done : Pass(offboard, mode, yaw_rate, done)
    /\ FlownByPX4 => offboard = {FALSE}

LEMMA HandlerPasses ==
  ASSUME HandlesStep
  PROVE  Running /\ Passes
<1>1. ASSUME NEW offboard \in LastValues, NEW mode, NEW yaw_rate, NEW done,
             Pass(offboard, mode, yaw_rate, done), NoAction
      PROVE  Passes
  <2>1. ~FlownByPX4
    BY <1>1 DEF NoAction, FlownByPX4
  <2> QED BY <1>1, <2>1, Zenon DEF Passes
<1>2. ASSUME NEW mode, NEW yaw_rate, NEW done, Pass({FALSE}, mode, yaw_rate, done)
      PROVE  Passes
  BY <1>2, LastValuesAre, Zenon DEF Passes
<1>3. ASSUME NEW offboard \in LastValues, Blocked(offboard)
      PROVE  Passes
  BY <1>1, <1>3, LastValuesAre, Zenon DEF Blocked
<1>4. CASE StepTakeoff
  BY <1>2, <1>3, <1>4, LastValuesAre DEF StepTakeoff, InStep
<1>5. CASE StepPrimeOffboard
  BY <1>1, <1>3, <1>5, LastValuesAre DEF StepPrimeOffboard, InStep
<1>6. CASE StepScan
  BY <1>1, <1>3, <1>6, LastValuesAre DEF StepScan, InStep
<1>7. CASE StepTrackCenter
  BY <1>1, <1>3, <1>7, LastValuesAre DEF StepTrackCenter, InStep
<1>8. CASE StepApproach
  BY <1>1, <1>3, <1>8, LastValuesAre DEF StepApproach, InStep
<1>9. CASE StepGoto
  BY <1>2, <1>3, <1>9, LastValuesAre DEF StepGoto, InStep
<1>10. CASE StepOrbit
  <2>1. ASSUME NEW done, Pass({TRUE}, "HOLD", 0, done), SendActionOnce("DO_ORBIT", 0, FALSE)
        PROVE  Passes
    <3>1. ~FlownByPX4
      BY <2>1 DEF SendActionOnce, FlownByPX4
    <3> QED BY <2>1, <3>1, LastValuesAre, Zenon DEF Passes
  <2> QED BY <1>1, <1>3, <1>10, <2>1, LastValuesAre DEF StepOrbit, InStep
<1>11. CASE StepRtl
  BY <1>2, <1>11, LastValuesAre DEF StepRtl, InStep
<1>12. CASE StepLand
  BY <1>2, <1>12, LastValuesAre DEF StepLand, InStep
<1>13. CASE StepHold
  BY <1>1, <1>13, LastValuesAre DEF StepHold, InStep
<1> QED BY <1>4, <1>5, <1>6, <1>7, <1>8, <1>9, <1>10, <1>11, <1>12, <1>13
        DEF HandlesStep

------------------------------------------------------------------------------
(* The invariant.                                                          *)

\* Publishing FALSE on both topics releases.
LEMMA BothReleased ==
  ASSUME RequestTypes,
         autonomy_request' = Publish(Quiet(autonomy_request), FALSE),
         offboard_request' = Publish(Quiet(offboard_request), FALSE)
  PROVE  ReleaseInv'
BY QuietPublishSets DEF RequestTypes, ReleaseInv, IdleMeansReleased

\* A callback that publishes nothing, and neither starts nor ends a mission.
LEMMA NothingChanges ==
  ASSUME ReleaseInv, mission_active' = mission_active,
         autonomy_request' = Quiet(autonomy_request),
         offboard_request' = Quiet(offboard_request)
  PROVE  ReleaseInv'
BY QuietKeeps DEF RequestTypes, ReleaseInv, IdleMeansReleased

LEMMA ReleaseInvInit == Init => ReleaseInv
BY ExecutorAssumption, LastValuesAre
DEF Init, NeverPublished, ReleaseInv, RequestTypes, Request, IdleMeansReleased

LEMMA ReleaseInvLoop ==
  ASSUME ReleaseInv, Loop
  PROVE  ReleaseInv'
<1>1. CASE HandlesStep
  <2>1. Running
    BY <1>1, HandlerPasses
  <2>2. PICK offboard \in LastValues :
          \E mode, yaw_rate, done : Pass(offboard, mode, yaw_rate, done)
    BY <1>1, HandlerPasses DEF Passes
  <2>3. RequestTypes' /\ mission_active' = mission_active
    BY <2>2, PassPublishes DEF ReleaseInv
  <2> QED BY <2>1, <2>3 DEF Running, ReleaseInv, IdleMeansReleased
<1>2. CASE EnterComplete
  <2>1. Publish(Quiet(autonomy_request), TRUE) \in Request
    BY QuietPublishSets DEF ReleaseInv, RequestTypes
  <2>2. /\ autonomy_request' \in Request /\ autonomy_request'.last = {FALSE}
        /\ offboard_request' \in Request /\ offboard_request'.last = {FALSE}
    BY <1>2, <2>1, PublishSets, QuietPublishSets
    DEF EnterComplete, ReleaseInv, RequestTypes
  <2> QED BY <2>2 DEF ReleaseInv, RequestTypes, IdleMeansReleased
<1>3. CASE LoopIdle
  <2>1. CASE MissionEnabled
    BY <1>3, <2>1, NothingChanges DEF LoopIdle
  <2>2. CASE ~MissionEnabled
    BY <1>3, <2>2, BothReleased DEF LoopIdle, ReleaseInv
  <2> QED BY <2>1, <2>2
<1> QED BY <1>1, <1>2, <1>3 DEF Loop, HandlesStep

LEMMA ReleaseInvCallback ==
  ASSUME ReleaseInv, Callback
  PROVE  ReleaseInv'
<1>1. CASE MissionStart
  BY <1>1, QuietPublishSets
  DEF MissionStart, ReleaseInv, RequestTypes, IdleMeansReleased
<1>2. CASE MissionStop
  BY <1>2, BothReleased DEF MissionStop, ReleaseInv
<1>3. CASE \E p \in Plans : MissionPlanCallback(p)
  BY <1>3, NothingChanges DEF MissionPlanCallback, NothingPublished
<1>4. CASE \E msg \in TargetInputs : TargetCallback(msg)
  BY <1>4, NothingChanges DEF TargetCallback, NothingPublished
<1>5. CASE \E msg \in TelemetryInputs : TelemetryCallback(msg)
  BY <1>5, NothingChanges DEF TelemetryCallback, NothingPublished
<1> QED BY <1>1, <1>2, <1>3, <1>4, <1>5 DEF Callback, MissionRequestCallback

LEMMA ReleaseInvNext ==
  ASSUME ReleaseInv, [Next]_vars
  PROVE  ReleaseInv'
<1>1. CASE Elapse
  <2>1. RequestTypes' /\ autonomy_request'.last = autonomy_request.last
                      /\ offboard_request'.last = offboard_request.last
    BY <1>1, AgedKeeps DEF Elapse, ReleaseInv, RequestTypes
  <2> QED BY <1>1, <2>1 DEF Elapse, ReleaseInv, IdleMeansReleased
<1>2. CASE UNCHANGED vars
  BY <1>2 DEF vars, outputs, ReleaseInv, RequestTypes, IdleMeansReleased
<1> QED BY <1>1, <1>2, ReleaseInvLoop, ReleaseInvCallback DEF Next

------------------------------------------------------------------------------
(* The theorems.                                                           *)

\* A mission that is stopped, complete or disabled has taken back both requests:
\* no publication is lost to the suppression of unchanged requests.
THEOREM EndedMeansReleased == Spec => []IdleMeansReleased
<1>1. ReleaseInv => IdleMeansReleased
  BY DEF ReleaseInv
<1> QED BY <1>1, ReleaseInvInit, ReleaseInvNext, PTL DEF Spec

\* An action that makes PX4 fly by itself is sent in a pass that has the Offboard
\* request taken back.
LEMMA ActionsFollowRelease ==
  ASSUME ReleaseInv, [Next]_vars
  PROVE  [\A i \in DOMAIN actions' :
            actions'[i].action # "DO_ORBIT" => TRUE \notin offboard_request'.last]_vars
<1> SUFFICES ASSUME Next, FlownByPX4
             PROVE  TRUE \notin offboard_request'.last
  BY DEF FlownByPX4
<1>1. HandlesStep
  <2>1. actions' # <<>>
    BY DEF FlownByPX4
  <2>2. ~Elapse /\ ~Callback /\ ~EnterComplete /\ ~LoopIdle
    BY <2>1 DEF Elapse, Callback, MissionRequestCallback, MissionStart, MissionStop,
                MissionPlanCallback, TargetCallback, TelemetryCallback,
                NothingPublished, EnterComplete, LoopIdle
  <2> QED BY <2>2 DEF Next, Loop, HandlesStep
<1>2. \E mode, yaw_rate, done : Pass({FALSE}, mode, yaw_rate, done)
  BY <1>1, HandlerPasses DEF Passes
<1>3. offboard_request'.last = {FALSE}
  BY <1>2, PassPublishes, LastValuesAre DEF ReleaseInv
<1> QED BY <1>3

THEOREM PX4FliesReleased == Spec => OffboardReleasedForPX4
<1> QED BY ReleaseInvInit, ReleaseInvNext, ActionsFollowRelease, PTL
        DEF Spec, OffboardReleasedForPX4

------------------------------------------------------------------------------
(* Destinations.                                                           *)

LEMMA DestinationsKept ==
  ASSUME [Next]_vars
  PROVE  [/\ \A i \in DOMAIN goto_targets \cap DOMAIN goto_targets' :
               goto_targets'[i] = goto_targets[i]
          /\ \A i \in DOMAIN actions' : actions'[i].action = "GOTO_LOCATION" =>
               actions'[i].place = goto_targets'[step_index]]_vars
<1> DEFINE Kept == \A i \in DOMAIN goto_targets \cap DOMAIN goto_targets' :
                      goto_targets'[i] = goto_targets[i]
           Sent == \A i \in DOMAIN actions' : actions'[i].action = "GOTO_LOCATION" =>
                      actions'[i].place = goto_targets'[step_index]
<1> SUFFICES ASSUME Next PROVE Kept /\ Sent
  OBVIOUS
<1>1. ASSUME UNCHANGED goto_targets, actions' = <<>>
      PROVE  Kept /\ Sent
  BY <1>1
<1>2. ASSUME UNCHANGED goto_targets, NEW action, NEW place, NEW rearm,
             action # "GOTO_LOCATION", SendActionOnce(action, place, rearm)
      PROVE  Kept /\ Sent
  BY <1>2 DEF SendActionOnce
<1>3. ASSUME goto_targets' = <<>>, actions' = <<>>
      PROVE  Kept /\ Sent
  BY <1>3
<1>4. CASE HandlesStep
  <2>1. ASSUME NoAction PROVE Kept /\ Sent
    BY <1>1, <2>1 DEF NoAction
  <2>2. ASSUME NEW offboard, Blocked(offboard) PROVE Kept /\ Sent
    BY <2>1, <2>2 DEF Blocked
  <2>3. CASE StepGoto
    <3>1. ASSUME NEW target,
                 step_index \in DOMAIN goto_targets => target = goto_targets[step_index],
                 goto_targets' = [i \in DOMAIN goto_targets \cup {step_index} |->
                   IF i = step_index THEN target ELSE goto_targets[i]],
                 SendActionOnce("GOTO_LOCATION", target, FALSE)
          PROVE  Kept /\ Sent
      <4>1. Kept /\ goto_targets'[step_index] = target
        BY <3>1
      <4>2. \A i \in DOMAIN actions' : actions'[i].place = target
        BY <3>1 DEF SendActionOnce
      <4> QED BY <4>1, <4>2
    <3> QED BY <2>2, <2>3, <3>1 DEF StepGoto
  <2>4. CASE StepOrbit
    BY <1>2, <2>1, <2>2, <2>4 DEF StepOrbit
  <2>5. CASE StepTakeoff \/ StepRtl \/ StepLand
    BY <1>2, <2>1, <2>2, <2>5 DEF StepTakeoff, StepRtl, StepLand
  <2>6. CASE StepPrimeOffboard \/ StepScan \/ StepTrackCenter \/ StepApproach \/ StepHold
    BY <2>1, <2>2, <2>6
    DEF StepPrimeOffboard, StepScan, StepTrackCenter, StepApproach, StepHold
  <2> QED BY <1>4, <2>3, <2>4, <2>5, <2>6 DEF HandlesStep
<1>5. CASE EnterComplete \/ LoopIdle \/ Elapse
  BY <1>1, <1>5 DEF EnterComplete, LoopIdle, Elapse, plan_cursor
<1>6. CASE Callback
  <2>1. CASE \E p \in Plans : MissionPlanCallback(p)
    BY <1>1, <1>3, <2>1 DEF MissionPlanCallback, NothingPublished, plan_cursor
  <2>2. CASE MissionStart \/ MissionStop
    BY <1>1, <1>3, <2>2 DEF MissionStart, MissionStop
  <2> QED BY <1>1, <1>6, <2>1, <2>2
          DEF Callback, MissionRequestCallback, TargetCallback, TelemetryCallback,
              NothingPublished, plan_cursor
<1> QED BY <1>4, <1>5, <1>6 DEF Next, Loop, HandlesStep

\* A destination, once captured from where the vehicle was, does not move with it,
\* and PX4 is sent to it, for every plan and every way the vehicle moves.
THEOREM DestinationsFixed == Spec => GotoDestinationFixed
<1> QED BY DestinationsKept, PTL DEF Spec, GotoDestinationFixed

------------------------------------------------------------------------------
(* What a step published.                                                  *)

\* The keys kept are of this step or of earlier ones, and those of this step are
\* of actions published since it began: however often the plan repeats an action,
\* its key of an earlier step is not taken for that of this one.
VisitInv ==
  /\ step_index \in Nat \ {0}
  /\ \A key \in actions_sent :
       /\ key[1] \in Nat /\ key[1] <= step_index
       /\ key[1] = step_index => key[2] \in visit_actions

LEMMA VisitInvInit == HInit => VisitInv
BY DEF HInit, Init, VisitInv

\* Published now, or its key says that it was.
LEMMA SentOncePublishes ==
  ASSUME VisitInv, NEW action, NEW place, NEW rearm,
         SendActionOnce(action, place, rearm)
  PROVE  action \in visit_actions \cup ActionsOf(actions')
<1>1. CASE actions' = <<[action |-> action, place |-> place]>>
  BY <1>1 DEF ActionsOf
<1>2. CASE StepActionKey(action) \in actions_sent
  BY <1>2 DEF VisitInv, StepActionKey
<1> QED BY <1>1, <1>2 DEF SendActionOnce

\* The steps whose actions PX4 flies by itself, with the action.
FlownSteps == {<<"goto", "GOTO_LOCATION">>, <<"rtl", "RETURN_TO_LAUNCH">>,
               <<"land", "LAND">>, <<"orbit", "DO_ORBIT">>}

LeavesAfterAction ==
  step_index' = step_index + 1 =>
    \A pair \in FlownSteps :
      InStep(pair[1]) /\ (pair[1] = "orbit" => UseMavsdkOrbit) =>
        pair[2] \in visit_actions \cup ActionsOf(actions')

\* What a handler does to the keys, the index and the actions.
KeysFollow ==
  \/ UNCHANGED actions_sent
  \/ \E action, place, rearm : SendActionOnce(action, place, rearm)

LEMMA HandlerVisits ==
  ASSUME VisitInv, HandlesStep
  PROVE  /\ KeysFollow
         /\ step_index' = step_index \/ step_index' = step_index + 1
         /\ LeavesAfterAction
<1>1. step_index' = step_index \/ step_index' = step_index + 1
  <2>1. \E offboard, mode, yaw_rate, done : Pass(offboard, mode, yaw_rate, done)
    BY HandlerPasses DEF Passes
  <2> QED BY <2>1 DEF Pass
<1>2. ASSUME NEW offboard, Blocked(offboard)
      PROVE  KeysFollow /\ LeavesAfterAction
  BY <1>2 DEF Blocked, Pass, NoAction, KeysFollow, LeavesAfterAction, VisitInv
<1>3. ASSUME NoAction, \A pair \in FlownSteps : InStep(pair[1]) => pair[1] = "orbit" /\ ~UseMavsdkOrbit
      PROVE  KeysFollow /\ LeavesAfterAction
  BY <1>3 DEF NoAction, KeysFollow, LeavesAfterAction
<1>4. ASSUME NEW action, NEW place, NEW rearm, SendActionOnce(action, place, rearm),
             \A pair \in FlownSteps : InStep(pair[1]) => pair[2] = action
      PROVE  KeysFollow /\ LeavesAfterAction
  BY <1>4, SentOncePublishes DEF KeysFollow, LeavesAfterAction
<1>5. CASE StepGoto
  <2>1. \A pair \in FlownSteps : InStep(pair[1]) => pair[2] = "GOTO_LOCATION"
    BY <1>5 DEF StepGoto, InStep, FlownSteps
  <2>2. CASE \E target : SendActionOnce("GOTO_LOCATION", target, FALSE)
    BY <1>1, <1>4, <2>1, <2>2
  <2> QED BY <1>1, <1>2, <1>5, <2>2 DEF StepGoto
<1>6. CASE StepRtl
  <2>1. \A pair \in FlownSteps : InStep(pair[1]) => pair[2] = "RETURN_TO_LAUNCH"
    BY <1>6 DEF StepRtl, InStep, FlownSteps
  <2> QED BY <1>1, <1>4, <1>6, <2>1 DEF StepRtl
<1>7. CASE StepLand
  <2>1. \A pair \in FlownSteps : InStep(pair[1]) => pair[2] = "LAND"
    BY <1>7 DEF StepLand, InStep, FlownSteps
  <2> QED BY <1>1, <1>4, <1>7, <2>1 DEF StepLand
<1>8. CASE StepOrbit
  <2>1. \A pair \in FlownSteps : InStep(pair[1]) =>
                                 pair[1] = "orbit" /\ pair[2] = "DO_ORBIT"
    BY <1>8 DEF StepOrbit, InStep, FlownSteps
  <2>2. CASE Pass({TRUE}, "TRACK_CENTER", 0, FALSE) /\ NoAction
    BY <1>1, <2>2 DEF Pass, NoAction, KeysFollow, LeavesAfterAction, VisitInv
  <2>3. CASE SendActionOnce("DO_ORBIT", 0, FALSE)
    BY <1>1, <1>4, <2>1, <2>3
  <2>4. CASE ~UseMavsdkOrbit /\ NoAction
    BY <1>1, <1>3, <2>1, <2>4
  <2> QED BY <1>1, <1>2, <1>8, <2>2, <2>3, <2>4 DEF StepOrbit
<1>9. CASE StepTakeoff
  <2>1. \A pair \in FlownSteps : ~InStep(pair[1])
    BY <1>9 DEF StepTakeoff, InStep, FlownSteps
  <2> QED BY <1>1, <1>2, <1>3, <1>4, <1>9, <2>1 DEF StepTakeoff
<1>10. CASE StepPrimeOffboard \/ StepScan \/ StepTrackCenter \/ StepApproach \/ StepHold
  <2>1. \A pair \in FlownSteps : ~InStep(pair[1])
    BY <1>10
    DEF StepPrimeOffboard, StepScan, StepTrackCenter, StepApproach, StepHold,
                 InStep, FlownSteps
  <2> QED BY <1>1, <1>2, <1>3, <1>10, <2>1
          DEF StepPrimeOffboard, StepScan, StepTrackCenter, StepApproach, StepHold
<1> QED BY <1>1, <1>5, <1>6, <1>7, <1>8, <1>9, <1>10 DEF HandlesStep

\* A step that leaves index, keys and history alone, and one that forgets them.
LEMMA VisitKept ==
  ASSUME VisitInv, UNCHANGED <<step_index, actions_sent, visit_actions>>
  PROVE  VisitInv' /\ LeavesAfterAction
BY DEF VisitInv, LeavesAfterAction

LEMMA VisitBegins ==
  ASSUME VisitInv, step_index' \in {1, step_index}, actions_sent' = {}
  PROVE  VisitInv' /\ LeavesAfterAction
BY DEF VisitInv, LeavesAfterAction

LEMMA VisitInvLoop ==
  ASSUME VisitInv, HLoop
  PROVE  VisitInv' /\ LeavesAfterAction
<1>1. CASE HandlesStep
  <2>1. /\ KeysFollow /\ LeavesAfterAction
        /\ step_index' = step_index \/ step_index' = step_index + 1
    BY <1>1, HandlerVisits
  <2>2. \A key \in actions_sent' :
          \/ key \in actions_sent
          \/ \E action : /\ key = StepActionKey(action)
                         /\ action \in visit_actions \cup ActionsOf(actions')
    <3>1. ASSUME NEW action, NEW place, NEW rearm, SendActionOnce(action, place, rearm)
          PROVE  /\ actions_sent' = actions_sent \cup {StepActionKey(action)}
                 /\ action \in visit_actions \cup ActionsOf(actions')
      BY <3>1, SentOncePublishes DEF SendActionOnce
    <3> QED BY <2>1, <3>1 DEF KeysFollow
  <2>3. \A key \in actions_sent' :
          /\ key[1] \in Nat /\ key[1] <= step_index
          /\ key[1] = step_index => key[2] \in visit_actions \cup ActionsOf(actions')
    BY <2>2 DEF StepActionKey, VisitInv
  <2>4. CASE step_index' = step_index + 1
    BY <2>1, <2>3, <2>4 DEF VisitInv
  <2>5. CASE step_index' = step_index
    <3>1. visit_actions' = visit_actions \cup ActionsOf(actions')
      BY <2>5 DEF HLoop
    <3> QED BY <2>1, <2>3, <2>5, <3>1 DEF VisitInv
  <2> QED BY <2>1, <2>4, <2>5
<1>2. CASE EnterComplete \/ LoopIdle
  <2>1. UNCHANGED <<step_index, actions_sent>> /\ actions' = <<>>
    BY <1>2 DEF EnterComplete, LoopIdle, plan_cursor
  <2>2. UNCHANGED visit_actions
    BY <2>1 DEF HLoop, ActionsOf
  <2> QED BY <2>1, <2>2, VisitKept
<1> QED BY <1>1, <1>2 DEF HLoop, Loop, HandlesStep

LEMMA VisitInvNext ==
  ASSUME VisitInv, [HNext]_<<vars, visit_actions>>
  PROVE  VisitInv' /\ LeavesAfterAction
<1>1. CASE HRequest
  <2>1. CASE \E on \in BOOLEAN : MissionRequestCallback(on)
    BY <2>1, VisitBegins DEF MissionRequestCallback, MissionStart, MissionStop
  <2>2. CASE \E p \in Plans : /\ MissionPlanCallback(p)
                              /\ mission_active => UNCHANGED visit_actions
    <3>1. CASE mission_active
      <4>1. UNCHANGED <<step_index, actions_sent, visit_actions>>
        BY <2>2, <3>1 DEF MissionPlanCallback, plan_cursor
      <4> QED BY <4>1, VisitKept
    <3>2. CASE ~mission_active
      <4>1. step_index' = 1 /\ actions_sent' = {}
        BY <2>2, <3>2 DEF MissionPlanCallback
      <4> QED BY <4>1, VisitBegins
    <3> QED BY <3>1, <3>2
  <2> QED BY <1>1, <2>1, <2>2 DEF HRequest
<1>2. CASE HReceive
  BY <1>2, VisitKept DEF HReceive, TargetCallback, TelemetryCallback, plan_cursor
<1>3. CASE HElapse
  BY <1>3, VisitKept DEF HElapse, Elapse
<1>4. CASE UNCHANGED <<vars, visit_actions>>
  BY <1>4, VisitKept DEF vars, plan_cursor
<1> QED BY <1>1, <1>2, <1>3, <1>4, VisitInvLoop DEF HNext

\* No step that hands the vehicle to PX4 is left without its action, for every
\* plan, whatever it repeats, and every order of starts, stops and uploads.
THEOREM ActionBeforeLeaving == HSpec => LeaveOnlyAfterAction
<1>1. ASSUME VisitInv, [HNext]_<<vars, visit_actions>>
      PROVE  [LeavesAfterAction]_<<vars, visit_actions>>
  BY <1>1, VisitInvNext
<1> QED BY <1>1, VisitInvInit, VisitInvNext, PTL
        DEF HSpec, LeaveOnlyAfterAction, LeavesAfterAction, FlownSteps
==============================================================================
