-------------------------- MODULE OffboardHandover --------------------------
(***************************************************************************)
(* Who flies the vehicle: mission_executor_node, autonomy_manager_node and *)
(* telemetry_node with PX4 behind it, joined by their topics.  The         *)
(* executor releases Offboard and sends an action in the same pass of its  *)
(* loop; the release reaches the bridge through the manager and its timer, *)
(* the action directly.  So do the release and the action of the buttons   *)
(* Abort/Hold and Land of web_dashboard_node.  The bridge is MavsdkBridge  *)
(* itself (its variables are vars), the executor and the manager instances.*)
(*                                                                         *)
(* The vehicle stays fit to fly and in the air; messages the manager needs *)
(* arrive in time, so its ages stay 0.  control_node is silent: its        *)
(* commands say where Offboard holds, not who flies.                       *)
(***************************************************************************)
EXTENDS MavsdkBridge, Sequences

CONSTANTS
  Plans,
  MaxStepAge,    \* bound on the age of a step
  LandRetry,     \* LAND is sent again after this
  Report,        \* what telemetry_node reports of the vehicle, all the time
  Buttons,       \* the actions of the buttons that may be pressed, one of them once
  QueueDepth     \* the depth of every subscription

VARIABLES
  \* mission_executor_node
  state, mission_active, plan, step_index, step_age, actions_sent, goto_targets,
  takeoff_cmd_age, land_cmd_age, autonomy_request, offboard_request, actions,
  commands, last_target, target_age, last_telemetry, telemetry_age, loop_due,
  \* autonomy_manager_node
  autonomy_requested, offboard_requested, request_age, manager_target,
  manager_target_age, manager_telemetry, manager_telemetry_age, last_mission,
  mission_age, manager_state, had_target_lock, had_safe_autonomy,
  autonomy_enabled, offboard_enabled, timer_due,
  \* messages published and not yet received
  autonomy_topic, offboard_topic, enable_topic, action_topic, mission_topic,
  \* web_dashboard_node
  pressed        \* the actions of the buttons pressed

Executor == INSTANCE MissionExecutor WITH
  MissionEnabled <- TRUE, TelemetryTimeout <- 1, TargetTimeout <- 0,
  RepublishTime <- 1, TakeoffRetry <- 1, LandSettle <- 1, GotoSettle <- 1,
  UseMavsdkOrbit <- TRUE, RequireDistance <- TRUE, RequireCentered <- TRUE,
  TargetInputs <- {}, TelemetryInputs <- {Report}

Manager == INSTANCE AutonomyManager WITH
  ManagerEnabled <- TRUE, TargetTimeout <- 1, TelemetryTimeout <- 1,
  RequestTimeout <- 0, MissionTimeout <- 1, AllowScanWithoutLock <- FALSE,
  EnableOffboardWhenReady <- TRUE, RequireHealth <- FALSE, MinBattery <- 20,
  TargetInputs <- {}, TelemetryInputs <- {Report}, MissionInputs <- {},
  state <- manager_state, last_target <- manager_target,
  target_age <- manager_target_age, last_telemetry <- manager_telemetry,
  telemetry_age <- manager_telemetry_age

ASSUME HandoverAssumption ==
  /\ QueueDepth \in Nat \ {0} /\ Buttons \subseteq Action
  /\ {MaxStepAge, LandRetry} \subseteq Nat
  /\ \A p \in Plans :
       /\ p \in Seq(Executor!PlanStep) /\ p # <<>>
       /\ \A i \in 1 .. Len(p) : p[i].timeout < MaxStepAge

executor == <<state, mission_active, plan, step_index, step_age, actions_sent,
  goto_targets, takeoff_cmd_age, land_cmd_age, autonomy_request,
  offboard_request, actions, commands, last_target, target_age, last_telemetry,
  telemetry_age, loop_due>>
manager == <<autonomy_requested, offboard_requested, request_age, manager_target,
  manager_target_age, manager_telemetry, manager_telemetry_age, last_mission,
  mission_age, manager_state, had_target_lock, had_safe_autonomy,
  autonomy_enabled, offboard_enabled, timer_due>>
topics == <<autonomy_topic, offboard_topic, enable_topic, action_topic>>
dashboard == <<mission_topic, pressed>>
all_nodes == <<executor, manager, vars, topics, dashboard>>

------------------------------------------------------------------------------
(* KEEP_LAST: a subscription that is full loses its oldest message.        *)

KeepLast(queue, msgs) ==
  LET all == queue \o msgs
      drop == IF Len(all) > QueueDepth THEN Len(all) - QueueDepth ELSE 0
  IN SubSeq(all, drop + 1, Len(all))

ExecutorPublishes ==
  /\ autonomy_topic' = KeepLast(autonomy_topic, autonomy_request'.out)
  /\ offboard_topic' = KeepLast(offboard_topic, offboard_request'.out)
  /\ action_topic' = KeepLast(action_topic, actions')
  /\ UNCHANGED enable_topic

------------------------------------------------------------------------------
HandoverInit ==
  /\ Executor!Init
  /\ Manager!Init /\ ~autonomy_requested /\ ~offboard_requested
  /\ InitWith([Report EXCEPT !.connected = FALSE], Stream)
  /\ autonomy_topic = <<>> /\ offboard_topic = <<>>
  /\ enable_topic = <<>> /\ action_topic = <<>>
  /\ mission_topic = <<>> /\ pressed = {}

\* Both subscribers of the telemetry hear of the vehicle.
VehicleReports ==
  /\ telemetry_age > 0 \/ last_telemetry # Report
  /\ Executor!TelemetryCallback(Report)
  /\ Manager!TelemetryCallback(Report)
  /\ UNCHANGED <<vars, topics, dashboard>>

\* The operator starts an idle mission or stops a running one (bound: not after a
\* button was pressed).
OperatorRequests ==
  /\ pressed = {}
  /\ last_telemetry = Report
  /\ Executor!MissionRequestCallback(~mission_active)
  /\ ExecutorPublishes
  /\ UNCHANGED <<manager, vars, dashboard>>

\* Abort/Hold or Land: everything is withdrawn on the topics of the requests, and the
\* action sent.
DashboardStops(action) ==
  /\ state = "PRIME_OFFBOARD" /\ offboard_active /\ topics = <<<<>>, <<>>, <<>>, <<>>>>
  /\ pressed = {} /\ pressed' = {action}
  /\ autonomy_topic' = KeepLast(autonomy_topic, <<FALSE>>)
  /\ offboard_topic' = KeepLast(offboard_topic, <<FALSE>>)
  /\ mission_topic' = <<FALSE>>
  /\ action_topic' = KeepLast(action_topic, <<NewAction(action)>>)
  /\ UNCHANGED <<enable_topic, executor, manager, vars>>

ExecutorReceives ==
  /\ mission_topic # <<>> /\ mission_topic' = <<>>
  /\ Executor!MissionRequestCallback(Head(mission_topic))
  /\ ExecutorPublishes
  /\ UNCHANGED <<pressed, manager, vars>>

ExecutorLoop ==
  /\ loop_due /\ last_telemetry = Report
  /\ Executor!Loop
  /\ ExecutorPublishes
  /\ UNCHANGED <<manager, vars, dashboard>>

ManagerReceives ==
  /\ \/ /\ autonomy_topic # <<>>
        /\ Manager!AutonomyRequestCallback(Head(autonomy_topic))
        /\ autonomy_topic' = Tail(autonomy_topic)
        /\ UNCHANGED offboard_topic
     \/ /\ offboard_topic # <<>>
        /\ Manager!OffboardRequestCallback(Head(offboard_topic))
        /\ offboard_topic' = Tail(offboard_topic)
        /\ UNCHANGED autonomy_topic
  /\ UNCHANGED <<enable_topic, action_topic, executor, vars, dashboard>>

ManagerTimer ==
  /\ Manager!UpdateStateMachine
  /\ enable_topic' = KeepLast(enable_topic, <<offboard_enabled'>>)
  /\ UNCHANGED <<autonomy_topic, offboard_topic, action_topic, executor,
                 vars, dashboard>>

BridgeReceives ==
  /\ \/ /\ enable_topic # <<>>
        /\ OffboardEnableCallback(Head(enable_topic))
        /\ enable_topic' = Tail(enable_topic)
        /\ UNCHANGED action_topic
     \/ /\ action_topic # <<>>
        /\ ActionCommandCallback(Head(action_topic))
        /\ action_topic' = Tail(action_topic)
        /\ UNCHANGED enable_topic
  /\ UNCHANGED <<autonomy_topic, offboard_topic, executor, manager, dashboard>>

BridgeRuns ==
  /\ \/ OffboardLoop
     \/ ActionLoop
     \/ \E l \in Loops : PX4Serves(l)
  /\ UNCHANGED <<executor, manager, topics, dashboard>>

\* A unit of the executor's time (a second) is long against a timer period and
\* an answer of PX4: before it ends every message has been received, the gate
\* published and obeyed, and no call is under way.
Settled ==
  /\ topics = <<<<>>, <<>>, <<>>, <<>>>> /\ mission_topic = <<>>
  /\ action_handled /\ action_pc = "idle" /\ offboard_pc = "idle"
  /\ offboard_enabled =
       (offboard_requested /\ Manager!OffboardReady(Manager!DecideState))
  /\ mavsdk_offboard_enabled = offboard_enabled
  /\ offboard_active => mavsdk_offboard_enabled

Elapse ==
  /\ Settled
  /\ telemetry_age = 0
  /\ Executor!Elapse
  /\ UNCHANGED <<manager, vars, topics, dashboard>>

HandoverNext ==
  \/ VehicleReports \/ OperatorRequests
  \/ \E action \in Buttons : DashboardStops(action)
  \/ ExecutorReceives \/ ExecutorLoop
  \/ ManagerReceives \/ ManagerTimer
  \/ BridgeReceives \/ BridgeRuns
  \/ Elapse

HandoverSpec == HandoverInit /\ [][HandoverNext]_all_nodes

------------------------------------------------------------------------------
(* Properties.                                                             *)

\* A mission that ends with a landing leaves the vehicle to PX4's landing,
\* whichever of the release and the action the bridge saw first and whatever
\* its loops were doing: the second LAND lands when the first was lost.
LandingSurvivesHandover ==
  state = "COMPLETE" /\ plan[Len(plan)].type = "land" /\ Settled =>
    px4_mode = "LAND"

\* A mission that was stopped, by a request or a button, or is over leaves PX4 out of
\* Offboard, whatever was under way when it ended.
EndOfMissionEndsOffboard ==
  ~mission_active /\ Settled => px4_mode # "OFFBOARD"

\* "Better a controlled land": the landing that the button Land asked for is not taken
\* back by an Offboard that the same press has withdrawn.
LandButtonLands ==
  [][pressed = {"LAND"} /\ px4_mode = "LAND" => px4_mode' # "OFFBOARD"]_all_nodes

\* "Offboard is released - PX4's own Hold/reposition controller owns the
\* motion": during a goto step whose action was sent, once everything has settled.
GotoOwnedByPX4 ==
  Executor!InStep("goto") /\ goto_targets # <<>> /\ Settled =>
    px4_mode = "GOTO_LOCATION"
==============================================================================
