----------------------------- MODULE ControlNode -----------------------------
(***************************************************************************)
(* control_node: turns the target and the mission command into the setpoint*)
(* the bridge may send.  While autonomy is enabled it holds one place, the *)
(* anchor, and only turns; with approach translation it also moves along   *)
(* the line of sight.  The anchor is captured when autonomy starts, or     *)
(* while the mission primes Offboard and autonomy is still disabled.       *)
(*                                                                         *)
(* A velocity is its sign.  The last velocities, which limit the next      *)
(* ones, are those of the command last published.  The heading that the    *)
(* yaw rate is summed up to is left out.                                   *)
(***************************************************************************)
EXTENDS DroneInterfaces

CONSTANTS
  TargetTimeout, TelemetryTimeout, MissionTimeout,
  MinBattery,                  \* min_battery_percent
  RequireArmed,
  RequireGps,                  \* require_gps; healthy is health_gps_ok
  EnableApproachTranslation,
  \* the messages that may arrive
  TargetInputs, TelemetryInputs, MissionInputs

\* What the constants must be.
ControlConstants ==
  /\ {TargetTimeout, TelemetryTimeout, MissionTimeout} \subseteq Nat
  /\ MinBattery \in 0 .. 100
  /\ {RequireArmed, RequireGps, EnableApproachTranslation} \subseteq BOOLEAN
  /\ TargetInputs \subseteq TargetError
  /\ TelemetryInputs \subseteq Telemetry
  /\ MissionInputs \subseteq MissionCommand

VARIABLES
  autonomy_enabled,
  last_target, target_age,
  last_telemetry, telemetry_age,
  last_mission, mission_age,
  hold_position,      \* {} or the anchor: {place}
  control_command,    \* the ControlCommand last published
  control_due         \* the loop has not run in this unit of time

received == <<last_target, target_age, last_telemetry, telemetry_age,
              last_mission, mission_age>>
vars == <<autonomy_enabled, received, hold_position, control_command, control_due>>

Init ==
  /\ autonomy_enabled \in BOOLEAN
  /\ last_target = NoTarget /\ target_age = 0
  /\ last_telemetry = NoTelemetry /\ telemetry_age = 0
  /\ last_mission = NoMission /\ mission_age = 0
  /\ hold_position = {}
  /\ control_command = IdleCommand
  /\ control_due = TRUE

------------------------------------------------------------------------------
(* Callbacks.                                                              *)

\* Plausible bug: the anchor outlives the autonomy it was captured for.
AutonomyEnableCallbackKeepsAnchor(on) ==
  /\ autonomy_enabled' = on
  /\ control_command' = IF on THEN control_command ELSE IdleCommand
  /\ UNCHANGED <<hold_position, received, control_due>>

\* Plausible bug: the zero command waits for the next loop.
AutonomyEnableCallbackLater(on) ==
  /\ autonomy_enabled' = on
  /\ hold_position' = IF autonomy_enabled /\ ~on THEN {} ELSE hold_position
  /\ UNCHANGED <<control_command, received, control_due>>

\* A disable stops at once, and forgets the anchor if it disables anything.
AutonomyEnableCallback(on) ==
  /\ autonomy_enabled' = on
  /\ hold_position' = IF autonomy_enabled /\ ~on THEN {} ELSE hold_position
  /\ control_command' = IF on THEN control_command ELSE IdleCommand
  /\ UNCHANGED <<received, control_due>>

\* The parameter autonomy_enabled.  It is assigned before set_autonomy_enabled
\* compares: no disable is found, and the anchor stays.  (The alias
\* autonomous_enabled does what the message does.)
SetAutonomyParameter(on) ==
  /\ autonomy_enabled' = on
  /\ control_command' = IF on THEN control_command ELSE IdleCommand
  /\ UNCHANGED <<hold_position, received, control_due>>

MissionCommandCallback(msg) ==
  /\ last_mission' = msg /\ mission_age' = 0
  /\ hold_position' = IF ~msg.active \/ msg.mode = "IDLE" \/ msg.step = "TAKEOFF"
                      THEN {} ELSE hold_position
  /\ UNCHANGED <<autonomy_enabled, last_target, target_age, last_telemetry,
                 telemetry_age, control_command, control_due>>

TargetErrorCallback(msg) ==
  /\ last_target' = msg /\ target_age' = 0
  /\ UNCHANGED <<autonomy_enabled, last_telemetry, telemetry_age, last_mission,
                 mission_age, hold_position, control_command, control_due>>

TelemetryCallback(msg) ==
  /\ last_telemetry' = msg /\ telemetry_age' = 0
  /\ UNCHANGED <<autonomy_enabled, last_target, target_age, last_mission,
                 mission_age, hold_position, control_command, control_due>>

------------------------------------------------------------------------------
(* The loop.                                                               *)

\* A battery that is not reported is a low one here.
SafetyOK ==
  /\ telemetry_age <= TelemetryTimeout
  /\ last_telemetry.connected
  /\ last_telemetry.battery >= MinBattery
  /\ RequireGps => last_telemetry.healthy
  /\ RequireArmed => last_telemetry.armed

\* Plausible bug: a mission command is followed however old it is.
MissionIsActiveOfAnyAge == last_mission.active

MissionIsActive == last_mission.active /\ mission_age <= MissionTimeout

\* Without a mission the node tracks.
Mode == IF MissionIsActive THEN last_mission.mode ELSE "TRACK_CENTER"

PrimeOffboardHold ==
  MissionIsActive /\ last_mission.mode = "HOLD" /\ last_mission.step = "PRIME_OFFBOARD"

TargetUsable == IsLocked(last_target) /\ target_age <= TargetTimeout

Here == {last_telemetry.place}

Between(a, b) == {x \in Sign : (a <= x /\ x <= b) \/ (b <= x /\ x <= a)}
\* From rest the wanted direction is taken at once, another one step by step.
RateLimited(wanted, last) == IF last = 0 THEN {wanted} ELSE Between(last, wanted)

ApproachForward(range) ==
  CASE range = "far" -> 1 [] range = "near" -> -1 [] OTHER -> 0

PublishPositionHold(yaw, sent) ==
  control_command' = [command_type |-> "POSITION", executed |-> TRUE, sent |-> sent,
                      place |-> CHOOSE p \in hold_position' : TRUE,
                      forward |-> 0, yaw_rate |-> yaw]

PublishVelocity(forward, yaw) ==
  control_command' = [command_type |-> "VELOCITY", executed |-> TRUE,
                      sent |-> FALSE,   \* the status is APPROACH_TRANSLATION
                      place |-> 0, forward |-> forward, yaw_rate |-> yaw]

Turns(wanted, sent) ==
  \E yaw \in RateLimited(wanted, control_command.yaw_rate) : PublishPositionHold(yaw, sent)

FollowMission ==
  \/ /\ Mode \in {"IDLE", "HOLD"}
     /\ PublishPositionHold(0, FALSE)
  \/ /\ Mode = "SCAN"
     /\ Turns(last_mission.yaw_rate, FALSE)
  \/ /\ Mode \in {"TRACK_CENTER", "APPROACH_TARGET", "ORBIT_TARGET"}
     /\ ~TargetUsable
     /\ PublishPositionHold(0, FALSE)
  \/ /\ Mode = "APPROACH_TARGET" /\ EnableApproachTranslation
     /\ TargetUsable
     /\ \E forward \in RateLimited(ApproachForward(last_target.range),
                                   control_command.forward),
           yaw \in RateLimited(last_target.bearing, control_command.yaw_rate) :
          PublishVelocity(forward, yaw)
  \/ /\ \/ Mode \in {"TRACK_CENTER", "ORBIT_TARGET"}
        \/ Mode = "APPROACH_TARGET" /\ ~EnableApproachTranslation
     /\ TargetUsable
     /\ Turns(last_target.bearing, TRUE)

\* Autonomy is disabled; priming may already capture the anchor.
LoopDisabled ==
  /\ ~autonomy_enabled
  /\ hold_position' =
       IF /\ PrimeOffboardHold /\ hold_position = {} /\ SafetyOK
          /\ last_telemetry.local_position_valid
       THEN Here ELSE hold_position
  /\ control_command' = IdleCommand

\* Plausible bug: only priming captures an anchor.
LoopUnsafeOrUnprimed ==
  /\ autonomy_enabled /\ (~SafetyOK \/ hold_position = {})
  /\ control_command' = IdleCommand
  /\ UNCHANGED hold_position

LoopUnsafe ==
  /\ autonomy_enabled /\ ~SafetyOK
  /\ control_command' = IdleCommand
  /\ UNCHANGED hold_position

\* Whatever was to be published, an anchor is not held without a position.
LoopWithoutPosition ==
  /\ autonomy_enabled /\ SafetyOK /\ ~last_telemetry.local_position_valid
  /\ hold_position' = {}
  /\ control_command' = IdleCommand

LoopHolding ==
  /\ autonomy_enabled /\ SafetyOK /\ last_telemetry.local_position_valid
  /\ hold_position' = IF hold_position = {} THEN Here ELSE hold_position
  /\ FollowMission

ControlLoop ==
  /\ LoopDisabled \/ LoopUnsafe \/ LoopWithoutPosition \/ LoopHolding
  /\ control_due' = FALSE
  /\ UNCHANGED <<autonomy_enabled, received>>

\* One unit of time passes; the loop runs at least once in it.
Elapse ==
  /\ ~control_due
  /\ control_due' = TRUE
  /\ target_age' = Older(target_age, TargetTimeout)
  /\ telemetry_age' = Older(telemetry_age, TelemetryTimeout)
  /\ mission_age' = Older(mission_age, MissionTimeout)
  /\ UNCHANGED <<autonomy_enabled, last_target, last_telemetry, last_mission,
                 hold_position, control_command>>

Next ==
  \/ \E on \in BOOLEAN : AutonomyEnableCallback(on) \/ SetAutonomyParameter(on)
  \/ \E msg \in MissionInputs : MissionCommandCallback(msg)
  \/ \E msg \in TargetInputs : TargetErrorCallback(msg)
  \/ \E msg \in TelemetryInputs : TelemetryCallback(msg)
  \/ ControlLoop
  \/ Elapse

Spec == Init /\ [][Next]_vars

\* rclpy keeps the timer firing and time passes.
FairSpec == Spec /\ WF_vars(control_due /\ ControlLoop) /\ WF_vars(Elapse)

------------------------------------------------------------------------------
(* Properties.                                                             *)

\* The command in the bridge's hands is never one to execute once autonomy is
\* disabled: the node does not leave the last one standing until its next loop.
NothingStandsDisabled == control_command.executed => autonomy_enabled

\* A vehicle whose executor and tracker have gone silent does not keep turning
\* or moving.
MotionEndsWithMessages ==
  mission_age > 0 /\ target_age > 0 ~>
    \/ mission_age = 0 \/ target_age = 0
    \/ control_command.yaw_rate = 0 /\ control_command.forward = 0

\* After a loss of position, of telemetry or of safety the vehicle holds again
\* as soon as all is well.
HoldingResumes ==
  autonomy_enabled /\ SafetyOK /\ last_telemetry.local_position_valid ~>
    \/ control_command.executed
    \/ ~(autonomy_enabled /\ SafetyOK /\ last_telemetry.local_position_valid)
==============================================================================
