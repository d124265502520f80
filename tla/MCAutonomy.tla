------------------------------ MODULE MCAutonomy ------------------------------
(***************************************************************************)
(* Small instances of the two nodes that turn a target into motion: the    *)
(* manager, which decides whether, and control_node, which decides how.    *)
(* part says which of them a behaviour is of.                              *)
(***************************************************************************)
EXTENDS MCAutonomyManager

CONSTANTS
  ControlTargetTimeout, ControlTelemetryTimeout, ControlMissionTimeout,
  ControlMinBattery, RequireArmed, RequireGps, EnableApproachTranslation,
  ControlTargetInputs, ControlTelemetryInputs, ControlMissionInputs

VARIABLES
  part,
  control_enabled, control_target, control_target_age, control_telemetry,
  control_telemetry_age, control_mission, control_mission_age,
  hold_position, control_command, control_due, places

controlling ==
  <<control_enabled, control_target, control_target_age, control_telemetry,
    control_telemetry_age, control_mission, control_mission_age,
    hold_position, control_command, control_due, places>>

------------------------------------------------------------------------------
(* What control_node receives.                                             *)

At(place) == [Flying EXCEPT !.place = place]
ControlTelemetry == {At(1), At(2), [At(1) EXCEPT !.local_position_valid = FALSE],
                     [At(2) EXCEPT !.battery = 0],
                     [At(2) EXCEPT !.healthy = FALSE]}

Locked == [target_visible |-> TRUE, tracking_state |-> "LOCKED", bearing |-> 1,
           range |-> "far"]
ControlTargets == {Locked,
                   [NoTarget EXCEPT !.tracking_state = "LOST"]}

New(mode, step) == [mode |-> mode, active |-> TRUE, step |-> step, yaw_rate |-> 0]
ControlMissions == {NoMission, New("HOLD", "PRIME_OFFBOARD"), New("HOLD", "TAKEOFF"),
                    [New("SCAN", "SCAN") EXCEPT !.yaw_rate = -1],
                    New("APPROACH_TARGET", "APPROACH_TARGET")}

Control ==
  INSTANCE ControlPlaces WITH
    TargetTimeout <- ControlTargetTimeout,
    TelemetryTimeout <- ControlTelemetryTimeout,
    MissionTimeout <- ControlMissionTimeout, MinBattery <- ControlMinBattery,
    TargetInputs <- ControlTargetInputs, TelemetryInputs <- ControlTelemetryInputs,
    MissionInputs <- ControlMissionInputs,
    autonomy_enabled <- control_enabled,
    last_target <- control_target, target_age <- control_target_age,
    last_telemetry <- control_telemetry, telemetry_age <- control_telemetry_age,
    last_mission <- control_mission, mission_age <- control_mission_age

ASSUME ControlAssumption == Control!ControlConstants

------------------------------------------------------------------------------
ControlStep(A) == part = "control" /\ A

\* The initial states of one part; the other stays in one of its own.
PartInit ==
  /\ Init /\ Control!HInit
  /\ \/ part = "manager" /\ ~control_enabled
     \/ part = "control" /\ ~autonomy_requested /\ ~offboard_requested

PartNext ==
  /\ \/ part = "manager" /\ Next /\ UNCHANGED controlling
     \/ ControlStep(Control!HNext) /\ UNCHANGED vars
  /\ UNCHANGED part

PartSpec ==
  /\ PartInit /\ [][PartNext]_<<part, vars, controlling>>
  /\ WF_vars(part = "manager" /\ UpdateStateMachine)
  /\ WF_controlling(ControlStep(control_due /\ Control!HLoop))
  /\ WF_controlling(ControlStep(Control!HElapse))

------------------------------------------------------------------------------
\* See ControlNode and ControlPlaces.
NothingStandsDisabled == Control!NothingStandsDisabled
NeverSentBack == Control!NeverSentBack
MotionEndsWithMessages == Control!MotionEndsWithMessages
HoldingResumes == Control!HoldingResumes
==============================================================================
