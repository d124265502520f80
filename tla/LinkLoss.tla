------------------------------- MODULE LinkLoss -------------------------------
(***************************************************************************)
(* What becomes of the reaction to a lost link: the watchdog and the       *)
(* mission executor both publish the autonomy and the Offboard request,    *)
(* and the autonomy manager obeys whichever came last.                     *)
(*                                                                         *)
(* The vehicle stays fit to fly; what the manager hears of it is in time.  *)
(* The operator's requests come over the link, so none comes while it is   *)
(* down.                                                                   *)
(***************************************************************************)
EXTENDS DroneInterfaces, Sequences

CONSTANTS
  Plans,
  MaxStepAge,      \* bound on the age of a step
  Report,          \* what telemetry_node reports of the vehicle
  HeartbeatTimeout

VARIABLES
  \* mission_executor_node
  state, mission_active, plan, step_index, step_age, actions_sent, goto_targets,
  takeoff_cmd_age, land_cmd_age, autonomy_request, offboard_request, actions,
  commands, last_target, target_age, last_telemetry, telemetry_age, loop_due,
  \* autonomy_manager_node
  autonomy_requested, offboard_requested, request_age, manager_target,
  manager_target_age, manager_telemetry, manager_telemetry_age, last_mission,
  mission_age, manager_state, had_target_lock, had_safe_autonomy,
  autonomy_enabled, offboard_enabled, timer_due,
  \* ground_station_watchdog_node
  heartbeat_age, heartbeat_seq, detection_age, link_ok, link_initialized, reason,
  deasserted, hold_requested, tick_due,
  \* the topics of the two requests, and the link
  autonomy_topic, offboard_topic, link,
  reaction_received   \* as the last word, and the link has not returned since

Executor == INSTANCE MissionExecutor WITH
  MissionEnabled <- TRUE, TelemetryTimeout <- 1, TargetTimeout <- 0,
  RepublishTime <- 1, TakeoffRetry <- 1, LandRetry <- 1, LandSettle <- 1,
  GotoSettle <- 1, UseMavsdkOrbit <- TRUE, RequireDistance <- TRUE,
  RequireCentered <- TRUE, TargetInputs <- {}, TelemetryInputs <- {Report}

Manager == INSTANCE AutonomyManager WITH
  ManagerEnabled <- TRUE, TargetTimeout <- 1, TelemetryTimeout <- 1,
  RequestTimeout <- 0, MissionTimeout <- 1, AllowScanWithoutLock <- FALSE,
  EnableOffboardWhenReady <- TRUE, RequireHealth <- FALSE, MinBattery <- 20,
  TargetInputs <- {}, TelemetryInputs <- {Report}, MissionInputs <- {},
  state <- manager_state, last_target <- manager_target,
  target_age <- manager_target_age, last_telemetry <- manager_telemetry,
  telemetry_age <- manager_telemetry_age

Watchdog == INSTANCE LinkWatchdog WITH
  WatchdogHeartbeatAge <- HeartbeatTimeout, WatchdogDetectionAge <- 0,
  DeassertOnLinkLoss <- TRUE, RequestHoldOnLinkLoss <- FALSE

executor == <<state, mission_active, plan, step_index, step_age, actions_sent,
  goto_targets, takeoff_cmd_age, land_cmd_age, autonomy_request,
  offboard_request, actions, commands, last_target, target_age, last_telemetry,
  telemetry_age, loop_due>>
manager == <<autonomy_requested, offboard_requested, request_age, manager_target,
  manager_target_age, manager_telemetry, manager_telemetry_age, last_mission,
  mission_age, manager_state, had_target_lock, had_safe_autonomy,
  autonomy_enabled, offboard_enabled, timer_due>>
watchdog == <<heartbeat_age, heartbeat_seq, detection_age, link_ok,
  link_initialized, reason, deasserted, hold_requested, tick_due>>
topics == <<autonomy_topic, offboard_topic>>
vars == <<executor, manager, watchdog, topics, link, reaction_received>>

Init ==
  /\ Executor!Init
  /\ Manager!Init /\ ~autonomy_requested /\ ~offboard_requested
  /\ Watchdog!WatchdogInit
  /\ autonomy_topic = <<>> /\ offboard_topic = <<>>
  /\ link = FALSE
  /\ reaction_received = FALSE

------------------------------------------------------------------------------
\* A message is marked with the node it is from.
From(node, values) == [i \in DOMAIN values |-> [on |-> values[i], from |-> node]]

VehicleReports ==
  /\ telemetry_age > 0 \/ last_telemetry # Report
  /\ Executor!TelemetryCallback(Report)
  /\ Manager!TelemetryCallback(Report)
  /\ UNCHANGED <<watchdog, topics, link, reaction_received>>

ExecutorPublishes ==
  /\ autonomy_topic' = autonomy_topic \o From("executor", autonomy_request'.out)
  /\ offboard_topic' = offboard_topic \o From("executor", offboard_request'.out)
  /\ UNCHANGED <<manager, watchdog, link, reaction_received>>

OperatorRequests ==
  /\ link /\ last_telemetry = Report
  /\ Executor!MissionRequestCallback(~mission_active)
  /\ ExecutorPublishes

ExecutorLoop ==
  /\ loop_due /\ last_telemetry = Report
  /\ Executor!Loop
  /\ ExecutorPublishes

\* The link comes and goes; while it is up each unit brings a new beat.
LinkChanges ==
  /\ link' = ~link
  /\ reaction_received' = FALSE
  /\ UNCHANGED <<executor, manager, watchdog, topics>>

BeatArrives ==
  /\ link /\ heartbeat_age # {0}
  /\ Watchdog!WatchdogOnHeartbeat(IF heartbeat_seq = 1 THEN 2 ELSE 1)
  /\ UNCHANGED <<executor, manager, topics, link, reaction_received>>

WatchdogTicks ==
  /\ tick_due
  /\ Watchdog!Tick
  /\ LET out == From("watchdog", IF deasserted' THEN <<FALSE>> ELSE <<>>)
     IN /\ autonomy_topic' = autonomy_topic \o out
        /\ offboard_topic' = offboard_topic \o out
  /\ UNCHANGED <<executor, manager, link, reaction_received>>

ManagerReceives ==
  /\ \/ /\ autonomy_topic # <<>>
        /\ Manager!AutonomyRequestCallback(Head(autonomy_topic).on)
        /\ autonomy_topic' = Tail(autonomy_topic)
        /\ reaction_received' = (reaction_received
             \/ (Head(autonomy_topic).from = "watchdog" /\ ~link
                   /\ Len(autonomy_topic) = 1))
        /\ UNCHANGED offboard_topic
     \/ /\ offboard_topic # <<>>
        /\ Manager!OffboardRequestCallback(Head(offboard_topic).on)
        /\ offboard_topic' = Tail(offboard_topic)
        /\ UNCHANGED <<autonomy_topic, reaction_received>>
  /\ UNCHANGED <<executor, watchdog, link>>

ManagerTimer ==
  /\ Manager!UpdateStateMachine
  /\ UNCHANGED <<executor, watchdog, topics, link, reaction_received>>

\* Within a unit of time every message is received and every timer has fired.
Elapse ==
  /\ topics = <<<<>>, <<>>>>
  /\ telemetry_age = 0
  /\ link => heartbeat_age = {0}
  /\ Executor!Elapse
  /\ Watchdog!WatchdogElapse
  /\ UNCHANGED <<manager, topics, link, reaction_received>>

Next == \/ VehicleReports \/ OperatorRequests \/ ExecutorLoop \/ LinkChanges
        \/ BeatArrives \/ WatchdogTicks \/ ManagerReceives \/ ManagerTimer
        \/ Elapse

Spec == Init /\ [][Next]_vars

------------------------------------------------------------------------------
\* "The reaction fires once on the UP->DOWN edge, so an operator can still
\* re-arm/recover deliberately once the link returns": as long as the link has
\* not returned, the withdrawn autonomy request is not given back.
ReactionStands ==
  [][reaction_received /\ reaction_received' =>
       (autonomy_requested' => autonomy_requested)]_vars
==============================================================================
