---------------------------- MODULE StepHistory ----------------------------
(***************************************************************************)
(* MissionExecutor with a memory of the actions published since the        *)
(* current step began.                                                     *)
(***************************************************************************)
EXTENDS MissionExecutor

VARIABLE visit_actions   \* actions published since the step began

HInit == Init /\ visit_actions = {}

Forget == visit_actions' = {}

ActionsOf(cmds) == {cmds[i].action : i \in DOMAIN cmds}

HLoop ==
  /\ Loop
  /\ IF step_index' # step_index THEN Forget
     ELSE visit_actions' = visit_actions \cup ActionsOf(actions')

\* Starts and stops, and the uploads that are not refused, begin a step.
HRequest ==
  \/ \E on \in BOOLEAN : MissionRequestCallback(on) /\ Forget
  \/ \E p \in Plans : /\ MissionPlanCallback(p)
                      /\ IF mission_active THEN UNCHANGED visit_actions ELSE Forget

HReceive ==
  /\ \/ \E msg \in TargetInputs : TargetCallback(msg)
     \/ \E msg \in TelemetryInputs : TelemetryCallback(msg)
  /\ UNCHANGED visit_actions

HElapse == Elapse /\ UNCHANGED visit_actions

HNext == HLoop \/ HRequest \/ HReceive \/ HElapse
HSpec == HInit /\ [][HNext]_<<vars, visit_actions>>

\* A step that hands the vehicle to PX4 is never left without its action
\* having been published since the step began, even when the plan repeats it.
LeaveOnlyAfterAction ==
  [][step_index' = step_index + 1 =>
       \A pair \in {<<"goto", "GOTO_LOCATION">>, <<"rtl", "RETURN_TO_LAUNCH">>,
                    <<"land", "LAND">>, <<"orbit", "DO_ORBIT">>} :
         InStep(pair[1]) /\ (pair[1] = "orbit" => UseMavsdkOrbit) =>
           pair[2] \in visit_actions \cup ActionsOf(actions')]_<<vars, visit_actions>>
==============================================================================
