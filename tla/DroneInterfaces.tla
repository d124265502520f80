--------------------------- MODULE DroneInterfaces ---------------------------
(***************************************************************************)
(* The messages exchanged on the Pi (drone_interfaces/msg), reduced to     *)
(* what some node decides on.  A position is the number of a grid cell of  *)
(* the local NED frame; an estimated distance is its relation to the       *)
(* desired one; velocities and rates are signs.                            *)
(***************************************************************************)
EXTENDS Naturals, Integers

Sign == {-1, 0, 1}

\* "invalid" stands for distance_valid = false (or a distance <= 0), "at" for
\* a distance within the tolerance of the desired one.
Range == {"invalid", "near", "at", "far"}

TargetError == [target_visible : BOOLEAN,
                tracking_state : {"SEARCHING", "LOCKED", "LOST"},
                bearing        : Sign,       \* error_x beyond the dead band
                range          : Range]

\* landed_state with relative_altitude: on the ground, in the air below the
\* executor's airborne_altitude_m, or above it.
Height == {"ground", "low", "high"}

\* battery is battery_remaining_percent, 0 when PX4 does not report it;
\* global_position is a latitude and longitude other than 0, 0.
Telemetry == [connected : BOOLEAN, armed : BOOLEAN, healthy : BOOLEAN,
              local_position_valid : BOOLEAN, global_position : BOOLEAN,
              height : Height, battery : 0 .. 100, place : Nat]

MissionMode == {"IDLE", "HOLD", "SCAN", "TRACK_CENTER", "APPROACH_TARGET",
                "ORBIT_TARGET"}

\* step is the executor state behind step_name and the "priming" status text.
MissionStep == {"DISABLED", "IDLE", "TAKEOFF", "PRIME_OFFBOARD", "SCAN",
                "TRACK_CENTER", "APPROACH_TARGET", "GOTO", "DO_ORBIT",
                "RETURN_TO_LAUNCH", "LAND", "HOLD", "COMPLETE"}

MissionCommand == [mode : MissionMode, active : BOOLEAN, step : MissionStep,
                   yaw_rate : Sign]

\* A MavsdkActionCommand: each one published is a new command (the bridge tells
\* them apart by id and stamp); place is the destination of a GOTO_LOCATION.
Action == {"ARM", "TAKEOFF", "DO_ORBIT", "GOTO_LOCATION", "RETURN_TO_LAUNCH",
           "LAND", "HOLD"}
ActionCommand == [action : Action, place : Nat]
NewAction(a) == [action |-> a, place |-> 0]

\* sent abstracts execution_status: TRUE exactly when it is "SENT".
ControlCommand == [command_type : {"IDLE", "POSITION", "VELOCITY"},
                   executed : BOOLEAN, sent : BOOLEAN,
                   place : Nat, forward : Sign, yaw_rate : Sign]

\* Before the first message a node behaves as it would with these values: no
\* target seen, no vehicle connected, no active mission, nothing approved.
NoTarget == [target_visible |-> FALSE, tracking_state |-> "SEARCHING",
             bearing |-> 0, range |-> "invalid"]
NoTelemetry == [connected |-> FALSE, armed |-> FALSE, healthy |-> FALSE,
                local_position_valid |-> FALSE, global_position |-> FALSE,
                height |-> "ground", battery |-> 0, place |-> 0]
NoMission == [mode |-> "IDLE", active |-> FALSE, step |-> "IDLE",
              yaw_rate |-> 0]
IdleCommand == [command_type |-> "IDLE", executed |-> FALSE, sent |-> FALSE,
                place |-> 0, forward |-> 0, yaw_rate |-> 0]

\* What every consumer of the target calls a lock (apart from its age).
IsLocked(t) == t.target_visible /\ t.tracking_state = "LOCKED"

\* One unit of time later.  The code only asks whether an age exceeds its
\* timeout, so an age stops growing two units past it.
Older(age, timeout) == IF age > timeout + 1 THEN age ELSE age + 1
==============================================================================
