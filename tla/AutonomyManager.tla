--------------------------- MODULE AutonomyManager ---------------------------
(***************************************************************************)
(* autonomy_manager_node: the decision maker that owns the two safety      *)
(* gates, /drone/autonomy/enabled and /drone/mavsdk/offboard_enable.       *)
(*                                                                         *)
(* The node runs on a single-threaded executor, so every subscription      *)
(* callback and the timer callback is one atomic action here.  Times are   *)
(* ages: how many units ago a message was received.  The code only asks    *)
(* whether "now - last > timeout".  A unit is at least one timer period:   *)
(* the timer fires at least once per unit, which timer_due enforces.       *)
(***************************************************************************)
EXTENDS DroneInterfaces

CONSTANTS
  ManagerEnabled,      \* manager_enabled
  TargetTimeout,       \* target_timeout
  TelemetryTimeout,    \* telemetry_timeout
  RequestTimeout,      \* request_timeout; 0 disables the check
  MissionTimeout,      \* mission_command_timeout
  AllowScanWithoutLock,
  EnableOffboardWhenReady,
  RequireHealth,       \* require_health_all_ok or require_gps
  MinBattery,          \* min_battery_percent
  TargetInputs,        \* the messages that may arrive, one set per topic
  TelemetryInputs,
  MissionInputs

ASSUME ManagerAssumption ==
  /\ ManagerEnabled \in BOOLEAN
  /\ TargetTimeout \in Nat \ {0}
  /\ TelemetryTimeout \in Nat \ {0}
  /\ RequestTimeout \in Nat
  /\ MissionTimeout \in Nat
  /\ AllowScanWithoutLock \in BOOLEAN
  /\ EnableOffboardWhenReady \in BOOLEAN
  /\ RequireHealth \in BOOLEAN
  /\ MinBattery \in Nat
  /\ TargetInputs \subseteq TargetError
  /\ TelemetryInputs \subseteq Telemetry
  /\ MissionInputs \subseteq MissionCommand

VARIABLES
  autonomy_requested,  \* last value on /drone/autonomy/request
  offboard_requested,  \* last value on /drone/mavsdk/offboard_request
  request_age,         \* age of the autonomy request
  last_target,         \* last TargetError
  target_age,
  last_telemetry,      \* last DroneTelemetry
  telemetry_age,
  last_mission,        \* last MissionCommand
  mission_age,
  state,               \* the mission/autonomy state
  had_target_lock,
  had_safe_autonomy,
  autonomy_enabled,    \* last value published on /drone/autonomy/enabled
  offboard_enabled,    \* last value published on /drone/mavsdk/offboard_enable
  timer_due            \* the timer has not fired yet in this unit

inputs == <<last_target, target_age, last_telemetry, telemetry_age,
            last_mission, mission_age>>
gates  == <<autonomy_enabled, offboard_enabled>>
vars   == <<autonomy_requested, offboard_requested, request_age, inputs,
            state, had_target_lock, had_safe_autonomy, gates, timer_due>>

------------------------------------------------------------------------------

MissionState == {"STANDBY", "PREFLIGHT_BLOCKED", "READY", "TRACKING",
                 "SCANNING", "TARGET_LOST", "FAILSAFE"}

\* The states in which the request is on and every safety check passed.
SafeStates == {"READY", "TRACKING", "SCANNING", "TARGET_LOST"}

Init ==
  /\ autonomy_requested \in BOOLEAN     \* initial_autonomy_request
  /\ offboard_requested \in BOOLEAN     \* initial_offboard_request
  /\ request_age = 0
  /\ last_target = NoTarget
  /\ target_age = 0
  /\ last_telemetry = NoTelemetry
  /\ telemetry_age = 0
  /\ last_mission = NoMission
  /\ mission_age = 0
  /\ state = "STANDBY"
  /\ had_target_lock = FALSE
  /\ had_safe_autonomy = FALSE
  /\ autonomy_enabled = FALSE
  /\ offboard_enabled = FALSE
  /\ timer_due = TRUE

------------------------------------------------------------------------------
(* The tests the decision is made of.                                      *)

RequestIsFresh ==
  /\ autonomy_requested
  /\ RequestTimeout = 0 \/ request_age <= RequestTimeout

TargetLocked ==
  /\ target_age <= TargetTimeout
  /\ IsLocked(last_target)

\* The battery check is skipped when the level reads 0 (unknown).
TelemetrySafetyOK ==
  /\ telemetry_age <= TelemetryTimeout
  /\ last_telemetry.connected
  /\ last_telemetry.armed
  /\ ~(last_telemetry.battery > 0 /\ last_telemetry.battery < MinBattery)
  /\ RequireHealth => last_telemetry.healthy

MissionIsScan ==
  /\ mission_age <= MissionTimeout
  /\ last_mission.active
  /\ last_mission.mode = "SCAN"

ScanYawAuthorized ==
  AllowScanWithoutLock /\ ~TargetLocked /\ MissionIsScan

DecideState ==
  IF ~ManagerEnabled \/ ~RequestIsFresh THEN "STANDBY"
  ELSE IF ~TelemetrySafetyOK
    THEN IF had_safe_autonomy \/ state \in SafeStates
           THEN "FAILSAFE" ELSE "PREFLIGHT_BLOCKED"
  ELSE IF TargetLocked THEN "TRACKING"
  ELSE IF ScanYawAuthorized THEN "SCANNING"
  ELSE IF had_target_lock THEN "TARGET_LOST"
  ELSE "READY"

AutonomyGate(s) == s \in {"TRACKING", "SCANNING"}

\* Plausible bug: the gate stays open in FAILSAFE, blocked only when idle.
OffboardReadyUnlessIdle(s) == s \notin {"STANDBY", "PREFLIGHT_BLOCKED"}

OffboardReady(s) ==
  s \in IF EnableOffboardWhenReady THEN SafeStates ELSE {"TRACKING", "SCANNING"}

------------------------------------------------------------------------------
(* Callbacks.                                                              *)

\* Plausible bug: OFF leaves the Offboard request standing.
AutonomyRequestKeepsOffboard(on) ==
  /\ autonomy_requested' = on
  /\ request_age' = 0
  /\ had_target_lock' = (on /\ had_target_lock)
  /\ had_safe_autonomy' = (on /\ had_safe_autonomy)
  /\ UNCHANGED <<offboard_requested, inputs, state, gates, timer_due>>

AutonomyRequestCallback(on) ==
  /\ autonomy_requested' = on
  /\ request_age' = 0
  /\ had_target_lock' = (on /\ had_target_lock)
  /\ had_safe_autonomy' = (on /\ had_safe_autonomy)
  /\ offboard_requested' = (on /\ offboard_requested)
  /\ UNCHANGED <<inputs, state, gates, timer_due>>

OffboardRequestCallback(on) ==
  /\ offboard_requested' = on
  /\ UNCHANGED <<autonomy_requested, request_age, inputs, state,
                 had_target_lock, had_safe_autonomy, gates, timer_due>>

\* The lock flag is set when the message just stored passes the lock test.
TargetErrorCallback(msg) ==
  /\ last_target' = msg
  /\ target_age' = 0
  /\ had_target_lock' = (had_target_lock \/ TargetLocked')
  /\ UNCHANGED <<autonomy_requested, offboard_requested, request_age,
                 last_telemetry, telemetry_age, last_mission, mission_age,
                 state, had_safe_autonomy, gates, timer_due>>

\* Plausible bug: the receive time is reset to a "never" sentinel.
TelemetryCallbackSentinel(msg) ==
  /\ last_telemetry' = msg
  /\ telemetry_age' = -1
  /\ UNCHANGED <<autonomy_requested, offboard_requested, request_age,
                 last_target, target_age, last_mission, mission_age,
                 state, had_target_lock, had_safe_autonomy, gates, timer_due>>

TelemetryCallback(msg) ==
  /\ last_telemetry' = msg
  /\ telemetry_age' = 0
  /\ UNCHANGED <<autonomy_requested, offboard_requested, request_age,
                 last_target, target_age, last_mission, mission_age,
                 state, had_target_lock, had_safe_autonomy, gates, timer_due>>

MissionCommandCallback(msg) ==
  /\ last_mission' = msg
  /\ mission_age' = 0
  /\ UNCHANGED <<autonomy_requested, offboard_requested, request_age,
                 last_target, target_age, last_telemetry, telemetry_age,
                 state, had_target_lock, had_safe_autonomy, gates, timer_due>>

\* Plausible bug: the gates are published before the new state is stored.
UpdateStateMachineLateStore ==
  /\ state' = DecideState
  /\ had_safe_autonomy' = CASE DecideState \in SafeStates -> TRUE
                            [] DecideState = "STANDBY"    -> FALSE
                            [] OTHER                      -> had_safe_autonomy
  /\ autonomy_enabled' = AutonomyGate(state)
  /\ offboard_enabled' = (offboard_requested /\ OffboardReady(state))
  /\ timer_due' = FALSE
  /\ UNCHANGED <<autonomy_requested, offboard_requested, request_age, inputs,
                 had_target_lock>>

\* The timer callback: decide, latch, publish both gates.
UpdateStateMachine ==
  /\ state' = DecideState
  /\ had_safe_autonomy' = CASE DecideState \in SafeStates -> TRUE
                            [] DecideState = "STANDBY"    -> FALSE
                            [] OTHER                      -> had_safe_autonomy
  /\ autonomy_enabled' = AutonomyGate(DecideState)
  /\ offboard_enabled' = (offboard_requested /\ OffboardReady(DecideState))
  /\ timer_due' = FALSE
  /\ UNCHANGED <<autonomy_requested, offboard_requested, request_age, inputs,
                 had_target_lock>>

\* One unit of time passes.
Elapse ==
  /\ ~timer_due
  /\ timer_due' = TRUE
  /\ request_age' = Older(request_age, RequestTimeout)
  /\ target_age' = Older(target_age, TargetTimeout)
  /\ telemetry_age' = Older(telemetry_age, TelemetryTimeout)
  /\ mission_age' = Older(mission_age, MissionTimeout)
  /\ UNCHANGED <<autonomy_requested, offboard_requested, last_target,
                 last_telemetry, last_mission, state, had_target_lock,
                 had_safe_autonomy, gates>>

Callback ==
  \/ \E on \in BOOLEAN : AutonomyRequestCallback(on)
  \/ \E on \in BOOLEAN : OffboardRequestCallback(on)
  \/ \E msg \in TargetInputs : TargetErrorCallback(msg)
  \/ \E msg \in TelemetryInputs : TelemetryCallback(msg)
  \/ \E msg \in MissionInputs : MissionCommandCallback(msg)

Next == Callback \/ UpdateStateMachine \/ Elapse

Spec == Init /\ [][Next]_vars

\* rclpy keeps the timer firing: update_state_machine always runs again.
FairSpec == Spec /\ WF_vars(UpdateStateMachine)

------------------------------------------------------------------------------
(* Properties.                                                             *)

\* Every variable of the node holds a value of its type.
TypeOK ==
  /\ autonomy_requested \in BOOLEAN
  /\ offboard_requested \in BOOLEAN
  /\ request_age \in Nat
  /\ last_target \in TargetError
  /\ target_age \in Nat
  /\ last_telemetry \in Telemetry
  /\ telemetry_age \in Nat
  /\ last_mission \in MissionCommand
  /\ mission_age \in Nat
  /\ state \in MissionState
  /\ had_target_lock \in BOOLEAN
  /\ had_safe_autonomy \in BOOLEAN
  /\ autonomy_enabled \in BOOLEAN
  /\ offboard_enabled \in BOOLEAN
  /\ timer_due \in BOOLEAN

\* A piece of evidence changed since the timer last fired: its message came
\* after that, or it has just passed its timeout.
JustChanged(age, timeout) ==
  \/ age <= IF timer_due THEN 1 ELSE 0
  \/ timer_due /\ age = timeout + 1

RequestStillCounts ==
  RequestIsFresh \/ JustChanged(request_age, RequestTimeout)

TelemetryStillCounts ==
  TelemetrySafetyOK \/ JustChanged(telemetry_age, TelemetryTimeout)

LockOrScanStillCounts ==
  \/ TargetLocked
  \/ ScanYawAuthorized
  \/ JustChanged(target_age, TargetTimeout)
  \/ AllowScanWithoutLock /\ JustChanged(mission_age, MissionTimeout)

\* An open autonomy gate outlives each piece of evidence it was opened on (the
\* operator's request, safe telemetry, a lock or an authorised scan) by at
\* most one timer period, whatever order messages, timeouts and ticks come in.
AutonomyGateFollowsEvidence ==
  autonomy_enabled =>
    RequestStillCounts /\ TelemetryStillCounts /\ LockOrScanStillCounts

\* The same bound for the Offboard gate, which needs no lock when the executor
\* is allowed to be ready early.
OffboardGateFollowsEvidence ==
  offboard_enabled =>
    /\ RequestStillCounts
    /\ TelemetryStillCounts
    /\ EnableOffboardWhenReady \/ LockOrScanStillCounts

PhaseOf(s) == CASE s = "STANDBY"           -> "idle"
                [] s = "PREFLIGHT_BLOCKED" -> "blocked"
                [] s = "FAILSAFE"          -> "failsafe"
                [] OTHER                   -> "operating"

Contract == INSTANCE GateContract WITH
  consent <- autonomy_requested, offboard_consent <- offboard_requested,
  phase <- PhaseOf(state), proven <- had_safe_autonomy

\* The manager keeps the gate contract: gates only while operating under
\* consent, loud failure after safe operation, and withdrawn consent closes.
ImplementsContract == Contract!CSpec
==============================================================================
