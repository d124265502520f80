--------------------------- MODULE MissionExecutor ---------------------------
(***************************************************************************)
(* mission_executor_node: walks a mission plan one step at a time.  Each   *)
(* pass of the loop (the 10 Hz timer) runs the handler of the current      *)
(* step, which publishes its requests, a MissionCommand and perhaps one    *)
(* MavsdkActionCommand, and reports whether the step is done.              *)
(*                                                                         *)
(* What a callback publishes is kept until the next step of the node: in   *)
(* the out field of the two requests, in actions and in commands.          *)
(***************************************************************************)
EXTENDS MissionPlan

CONSTANTS
  Plans,             \* the mission plans that may be loaded or uploaded
  MissionEnabled,    \* mission_enabled
  TelemetryTimeout,  \* telemetry_timeout_s
  TargetTimeout,     \* target_timeout_s
  RepublishTime,     \* an unchanged request is published again after this
  TakeoffRetry,      \* TAKEOFF is sent again after this
  LandRetry,         \* LAND is sent again after this
  LandSettle,        \* a landing is not believed before this
  GotoSettle,        \* an arrival is not believed before this
  MaxStepAge,        \* bound: a step's age stops growing here
  UseMavsdkOrbit,    \* use_mavsdk_do_orbit
  RequireDistance,   \* require_distance_for_orbit
  RequireCentered,   \* require_target_centered_for_orbit
  TargetInputs,
  TelemetryInputs

ASSUME ExecutorAssumption ==
  /\ Plans # {}
  /\ \A p \in Plans :
       /\ p \in Seq(PlanStep) /\ p # <<>>
       /\ \A i \in 1 .. Len(p) :
            p[i].timeout < MaxStepAge /\ p[i].hold <= MaxStepAge
  /\ MaxStepAge \in Nat /\ LandSettle < MaxStepAge /\ GotoSettle < MaxStepAge
  /\ MissionEnabled \in BOOLEAN
  /\ {TelemetryTimeout, TargetTimeout, RepublishTime, TakeoffRetry, LandRetry,
      LandSettle, GotoSettle} \subseteq Nat
  /\ {UseMavsdkOrbit, RequireDistance, RequireCentered} \subseteq BOOLEAN
  /\ TargetInputs \subseteq TargetError
  /\ TelemetryInputs \subseteq Telemetry

VARIABLES
  state,             \* what is shown and named in the mission command
  mission_active,
  plan,
  step_index,        \* 1 .. Len(plan) + 1
  step_age,          \* time since step_enter_time
  actions_sent,      \* keys of the one-shot actions already sent
  goto_targets,      \* destinations captured so far, per step index
  takeoff_cmd_age,   \* time since TAKEOFF was last re-armed
  land_cmd_age,      \* time since LAND was last re-armed
  autonomy_request,  \* [last, age, out] of the autonomy request
  offboard_request,  \* the same for the Offboard request
  actions,           \* MavsdkActionCommands published by the last callback
  commands,          \* MissionCommands published by the last callback
  last_target, target_age, last_telemetry, telemetry_age,
  loop_due           \* the loop timer has not fired yet in this unit

plan_cursor == <<plan, step_index, step_age, actions_sent, goto_targets,
                 takeoff_cmd_age, land_cmd_age>>
outputs == <<autonomy_request, offboard_request, actions, commands>>
inputs  == <<last_target, target_age, last_telemetry, telemetry_age>>
vars    == <<state, mission_active, plan_cursor, outputs, inputs, loop_due>>

------------------------------------------------------------------------------
(* The two requests.  An unchanged value is not published again within     *)
(* RepublishTime of the last time.                                         *)

NeverPublished == [last |-> {}, age |-> RepublishTime, out |-> <<>>]
Quiet(request) == [request EXCEPT !.out = <<>>]

\* Plausible bug: the republication period holds back changes as well.
PublishRateLimited(request, on) ==
  IF request.last # {} /\ request.age < RepublishTime
  THEN request
  ELSE [last |-> {on}, age |-> 0, out |-> Append(request.out, on)]

Publish(request, on) ==
  IF on \in request.last /\ request.age < RepublishTime
  THEN request
  ELSE [last |-> {on}, age |-> 0, out |-> Append(request.out, on)]

\* The age of a request or of a command only matters up to the time it is
\* compared with.
Aged(age, bound) == IF age < bound THEN age + 1 ELSE age

NothingPublished ==
  /\ autonomy_request' = Quiet(autonomy_request)
  /\ offboard_request' = Quiet(offboard_request)
  /\ actions' = <<>>
  /\ commands' = <<>>

PublishCommand(st, mode, active, yaw_rate) ==
  commands' = <<[mode |-> mode, active |-> active, step |-> st,
                 yaw_rate |-> yaw_rate]>>

------------------------------------------------------------------------------
(* What the handlers ask about the vehicle and the target.                 *)

TelemetryIsFresh == telemetry_age <= TelemetryTimeout

PreflightOK ==
  TelemetryIsFresh /\ last_telemetry.connected /\ last_telemetry.armed

IsAirborne == last_telemetry.height = "high"

AirborneLocal ==
  /\ TelemetryIsFresh
  /\ last_telemetry.connected
  /\ IsAirborne
  /\ last_telemetry.local_position_valid

TargetIsFreshLocked == target_age <= TargetTimeout /\ IsLocked(last_target)

TargetDistanceReady == TargetIsFreshLocked /\ last_target.range # "invalid"

TargetCentered == TargetIsFreshLocked /\ last_target.bearing = 0

ApproachDone == TargetDistanceReady /\ last_target.range = "at"

UntilSatisfied(until) ==
  \/ until = "airborne" /\ IsAirborne
  \/ until = "centered" /\ TargetCentered
  \/ until = "locked" /\ TargetIsFreshLocked
  \/ until = "approach_done" /\ ApproachDone

\* A timeout of 0 disables it for the steps that may run forever.
TimedOut(timeout) == timeout > 0 /\ step_age > timeout

------------------------------------------------------------------------------
Init ==
  /\ state = IF MissionEnabled THEN "IDLE" ELSE "DISABLED"
  /\ mission_active = FALSE                        \* auto_start is off
  /\ plan \in Plans
  /\ step_index = 1
  /\ step_age = 0
  /\ actions_sent = {}
  /\ goto_targets = <<>>
  /\ takeoff_cmd_age = TakeoffRetry
  /\ land_cmd_age = LandRetry
  /\ autonomy_request = NeverPublished
  /\ offboard_request = NeverPublished
  /\ actions = <<>>
  /\ commands = <<>>
  /\ last_target = NoTarget /\ target_age = 0
  /\ last_telemetry = NoTelemetry /\ telemetry_age = 0
  /\ loop_due = TRUE

------------------------------------------------------------------------------
(* One pass of the loop through the current step.                          *)

Running == MissionEnabled /\ mission_active /\ step_index <= Len(plan)
Step == plan[step_index]
InStep(type) == Running /\ Step.type = type

StateOf(type) == CASE type = "takeoff"        -> "TAKEOFF"
                   [] type = "prime_offboard" -> "PRIME_OFFBOARD"
                   [] type = "scan"           -> "SCAN"
                   [] type = "track_center"   -> "TRACK_CENTER"
                   [] type = "approach"       -> "APPROACH_TARGET"
                   [] type = "goto"           -> "GOTO"
                   [] type = "orbit"          -> "DO_ORBIT"
                   [] type = "rtl"            -> "RETURN_TO_LAUNCH"
                   [] type = "land"           -> "LAND"
                   [] type = "hold"           -> "HOLD"
                   [] type = "complete"       -> "COMPLETE"

\* The common part of every handler: the requests (offboard is a set, empty
\* when the handler does not publish that request), the command, and advance.
Pass(offboard, mode, yaw_rate, done) ==
  /\ state' = StateOf(Step.type)
  /\ autonomy_request' = Publish(Quiet(autonomy_request), TRUE)
  /\ offboard_request' =
       IF offboard = {} THEN Quiet(offboard_request)
       ELSE Publish(Quiet(offboard_request), TRUE \in offboard)
  /\ PublishCommand(StateOf(Step.type), mode, TRUE, yaw_rate)
  /\ step_index' = IF done THEN step_index + 1 ELSE step_index
  /\ step_age' = IF done THEN 0 ELSE step_age
  /\ loop_due' = FALSE
  /\ UNCHANGED <<mission_active, plan, inputs>>

NoAction ==
  /\ actions' = <<>>
  /\ UNCHANGED <<actions_sent, goto_targets, takeoff_cmd_age, land_cmd_age>>

Blocked(offboard) == Pass(offboard, "HOLD", 0, FALSE) /\ NoAction

\* Plausible bug: one-shot actions are keyed by their name alone.
ActionNameKey(action) == <<0, action>>

\* One-shot actions are keyed by plan position, for plans that repeat a verb.
StepActionKey(action) == <<step_index, action>>

\* Discarding the key first (rearm) sends the action again.
SendActionOnce(action, place, rearm) ==
  /\ actions' = IF rearm \/ StepActionKey(action) \notin actions_sent
                THEN <<[action |-> action, place |-> place]>> ELSE <<>>
  /\ actions_sent' = actions_sent \cup {StepActionKey(action)}

StepTakeoff ==
  /\ InStep("takeoff")
  /\ \/ ~PreflightOK /\ Blocked({})
     \/ PreflightOK /\ IsAirborne /\ Pass({FALSE}, "HOLD", 0, TRUE) /\ NoAction
     \/ LET rearm == takeoff_cmd_age >= TakeoffRetry IN
        /\ PreflightOK /\ ~IsAirborne
        /\ Pass({FALSE}, "HOLD", 0, FALSE)
        /\ SendActionOnce("TAKEOFF", 0, rearm)
        /\ takeoff_cmd_age' = IF rearm THEN 0 ELSE takeoff_cmd_age
        /\ UNCHANGED <<goto_targets, land_cmd_age>>

StepPrimeOffboard ==
  /\ InStep("prime_offboard")
  /\ \/ ~PreflightOK /\ Blocked({})
     \/ PreflightOK /\ Pass({TRUE}, "HOLD", 0, step_age >= Step.hold) /\ NoAction

\* Plausible bug: only a lock ends the scan.
StepScanUntilLocked ==
  /\ InStep("scan")
  /\ \/ ~PreflightOK /\ Blocked({})
     \/ /\ PreflightOK
        /\ Pass({TRUE}, "SCAN", Step.yaw_rate, UntilSatisfied(Step.until))
        /\ NoAction

\* The sweep is measured by the age of the step.
StepScan ==
  /\ InStep("scan")
  /\ \/ ~PreflightOK /\ Blocked({})
     \/ /\ PreflightOK
        /\ Pass({TRUE}, "SCAN", IF TargetIsFreshLocked THEN 0 ELSE Step.yaw_rate,
                UntilSatisfied(Step.until) \/ step_age >= Step.hold
                  \/ TimedOut(Step.timeout))
        /\ NoAction

StepTrackCenter ==
  /\ InStep("track_center")
  /\ \/ ~PreflightOK /\ Blocked({})
     \/ /\ PreflightOK
        /\ Pass({TRUE}, "TRACK_CENTER", 0,
                UntilSatisfied(Step.until) \/ TimedOut(Step.timeout))
        /\ NoAction

StepApproach ==
  /\ InStep("approach")
  /\ \/ ~AirborneLocal /\ Blocked({FALSE})
     \/ /\ AirborneLocal
        /\ Pass({TRUE}, "APPROACH_TARGET", 0,
                ApproachDone \/ step_age > Step.timeout)
        /\ NoAction

\* Plausible bug: the destination is computed again on every pass.
StepGotoRecomputed ==
  /\ InStep("goto")
  /\ AirborneLocal /\ last_telemetry.global_position
  /\ LET target == last_telemetry.place + Step.offset
     IN /\ goto_targets' = [i \in DOMAIN goto_targets \cup {step_index} |->
              IF i = step_index THEN target ELSE goto_targets[i]]
        /\ SendActionOnce("GOTO_LOCATION", target, FALSE)
        /\ Pass({FALSE}, "HOLD", 0, step_age > Step.timeout)
  /\ UNCHANGED <<takeoff_cmd_age, land_cmd_age>>

\* The destination is captured once, relative to where the vehicle is then.
StepGoto ==
  /\ InStep("goto")
  /\ \/ ~AirborneLocal /\ Blocked({FALSE})
     \/ /\ AirborneLocal
        /\ step_index \notin DOMAIN goto_targets /\ ~last_telemetry.global_position
        /\ Blocked({FALSE})
     \/ /\ AirborneLocal
        /\ step_index \in DOMAIN goto_targets \/ last_telemetry.global_position
        /\ LET target == IF step_index \in DOMAIN goto_targets
                         THEN goto_targets[step_index]
                         ELSE last_telemetry.place + Step.offset
           IN /\ goto_targets' = [i \in DOMAIN goto_targets \cup {step_index} |->
                    IF i = step_index THEN target ELSE goto_targets[i]]
              /\ SendActionOnce("GOTO_LOCATION", target, FALSE)
              /\ Pass({FALSE}, "HOLD", 0,
                      \/ step_age > GotoSettle /\ last_telemetry.place = target
                      \/ step_age > Step.timeout)
        /\ UNCHANGED <<takeoff_cmd_age, land_cmd_age>>

\* While the target is not ready the step waits, whatever its timeout.
StepOrbit ==
  LET ready == /\ RequireDistance => TargetDistanceReady
               /\ RequireCentered => TargetCentered
  IN
  /\ InStep("orbit")
  /\ \/ ~AirborneLocal /\ Blocked({FALSE})
     \/ AirborneLocal /\ ~ready
        /\ Pass({TRUE}, "TRACK_CENTER", 0, FALSE) /\ NoAction
     \/ /\ AirborneLocal /\ ready /\ UseMavsdkOrbit
        /\ SendActionOnce("DO_ORBIT", 0, FALSE)
        /\ Pass({TRUE}, "HOLD", 0, step_age > Step.timeout)
        /\ UNCHANGED <<goto_targets, takeoff_cmd_age, land_cmd_age>>
     \/ /\ AirborneLocal /\ ready /\ ~UseMavsdkOrbit
        /\ Pass({TRUE}, "ORBIT_TARGET", 0, step_age > Step.timeout) /\ NoAction

\* Plausible bug: RTL leaves the Offboard request as the last step set it.
StepRtlKeepsOffboard ==
  /\ InStep("rtl")
  /\ Pass({}, "HOLD", 0, step_age > Step.timeout)
  /\ SendActionOnce("RETURN_TO_LAUNCH", 0, FALSE)
  /\ UNCHANGED <<goto_targets, takeoff_cmd_age, land_cmd_age>>

StepRtl ==
  /\ InStep("rtl")
  /\ Pass({FALSE}, "HOLD", 0, step_age > Step.timeout)
  /\ SendActionOnce("RETURN_TO_LAUNCH", 0, FALSE)
  /\ UNCHANGED <<goto_targets, takeoff_cmd_age, land_cmd_age>>

\* Plausible bug: LAND is sent once, like every other action.
StepLandOnce ==
  /\ InStep("land")
  /\ Pass({FALSE}, "HOLD", 0,
          (step_age > LandSettle /\ ~IsAirborne) \/ step_age > Step.timeout)
  /\ SendActionOnce("LAND", 0, FALSE)
  /\ UNCHANGED <<goto_targets, takeoff_cmd_age, land_cmd_age>>

StepLand ==
  LET rearm == IsAirborne /\ land_cmd_age >= LandRetry IN
  /\ InStep("land")
  /\ Pass({FALSE}, "HOLD", 0,
          (step_age > LandSettle /\ ~IsAirborne) \/ step_age > Step.timeout)
  /\ SendActionOnce("LAND", 0, rearm)
  /\ land_cmd_age' = IF rearm THEN 0 ELSE land_cmd_age
  /\ UNCHANGED <<goto_targets, takeoff_cmd_age>>

StepHold ==
  /\ InStep("hold")
  /\ Pass({TRUE}, "HOLD", 0, Step.timeout > 0 /\ step_age >= Step.timeout)
  /\ NoAction

\* The plan is over, by its last step or by a complete step.
EnterComplete ==
  /\ MissionEnabled /\ mission_active
  /\ step_index > Len(plan) \/ InStep("complete")
  /\ state' = "COMPLETE"
  /\ mission_active' = FALSE
  /\ autonomy_request' = Publish(Publish(Quiet(autonomy_request), TRUE), FALSE)
  /\ offboard_request' = Publish(Quiet(offboard_request), FALSE)
  /\ actions' = <<>>
  /\ PublishCommand("COMPLETE", "IDLE", FALSE, 0)
  /\ loop_due' = FALSE
  /\ UNCHANGED <<plan_cursor, inputs>>

\* A mission that is disabled or not started only says so.
LoopIdle ==
  /\ ~(MissionEnabled /\ mission_active)
  /\ state' = IF MissionEnabled THEN state ELSE "DISABLED"
  /\ IF MissionEnabled
     THEN /\ autonomy_request' = Quiet(autonomy_request)
          /\ offboard_request' = Quiet(offboard_request)
     ELSE /\ autonomy_request' = Publish(Quiet(autonomy_request), FALSE)
          /\ offboard_request' = Publish(Quiet(offboard_request), FALSE)
  /\ actions' = <<>>
  /\ PublishCommand(state', "IDLE", FALSE, 0)
  /\ loop_due' = FALSE
  /\ UNCHANGED <<mission_active, plan_cursor, inputs>>

Loop == \/ StepTakeoff \/ StepPrimeOffboard \/ StepScan \/ StepTrackCenter
        \/ StepApproach \/ StepGoto \/ StepOrbit \/ StepRtl \/ StepLand
        \/ StepHold \/ EnterComplete \/ LoopIdle

------------------------------------------------------------------------------
(* The subscriptions.                                                      *)

\* Plausible bug: a start goes on where the plan was stopped.
MissionStartResumes ==
  /\ MissionEnabled
  /\ mission_active' = TRUE
  /\ autonomy_request' = Publish(Quiet(autonomy_request), TRUE)
  /\ offboard_request' = Publish(Quiet(offboard_request), FALSE)
  /\ actions' = <<>> /\ commands' = <<>>
  /\ UNCHANGED <<state, plan_cursor, inputs, loop_due>>

\* A start runs the plan from its first step, also when one is running.
MissionStart ==
  /\ MissionEnabled
  /\ mission_active' = TRUE
  /\ state' = StateOf(plan[1].type)
  /\ step_index' = 1
  /\ step_age' = 0
  /\ actions_sent' = {}
  /\ goto_targets' = <<>>
  /\ takeoff_cmd_age' = TakeoffRetry
  /\ land_cmd_age' = LandRetry
  /\ autonomy_request' = Publish(Quiet(autonomy_request), TRUE)
  /\ offboard_request' = Publish(Quiet(offboard_request), FALSE)
  /\ actions' = <<>> /\ commands' = <<>>
  /\ UNCHANGED <<plan, inputs, loop_due>>

\* A stop, or a start while the mission is disabled (when no action was ever
\* sent, so that clearing the keys changes nothing).
MissionStop ==
  /\ mission_active' = FALSE
  /\ state' = IF MissionEnabled THEN "IDLE" ELSE "DISABLED"
  /\ actions_sent' = {}
  /\ autonomy_request' = Publish(Quiet(autonomy_request), FALSE)
  /\ offboard_request' = Publish(Quiet(offboard_request), FALSE)
  /\ actions' = <<>> /\ commands' = <<>>
  /\ UNCHANGED <<plan, step_index, step_age, goto_targets, takeoff_cmd_age,
                 land_cmd_age, inputs, loop_due>>

MissionRequestCallback(on) == IF on /\ MissionEnabled THEN MissionStart
                              ELSE MissionStop

\* An upload is refused while a mission is active.
MissionPlanCallback(p) ==
  /\ IF mission_active THEN UNCHANGED plan_cursor
     ELSE /\ plan' = p
          /\ step_index' = 1
          /\ step_age' = 0
          /\ actions_sent' = {}
          /\ goto_targets' = <<>>
          /\ UNCHANGED <<takeoff_cmd_age, land_cmd_age>>
  /\ NothingPublished
  /\ UNCHANGED <<state, mission_active, inputs, loop_due>>

TargetCallback(msg) ==
  /\ last_target' = msg
  /\ target_age' = 0
  /\ NothingPublished
  /\ UNCHANGED <<state, mission_active, plan_cursor, last_telemetry,
                 telemetry_age, loop_due>>

TelemetryCallback(msg) ==
  /\ last_telemetry' = msg
  /\ telemetry_age' = 0
  /\ NothingPublished
  /\ UNCHANGED <<state, mission_active, plan_cursor, last_target, target_age,
                 loop_due>>

\* One unit of time passes; the loop runs at least once per unit.
Elapse ==
  /\ ~loop_due
  /\ loop_due' = TRUE
  /\ step_age' = Aged(step_age, MaxStepAge)
  /\ takeoff_cmd_age' = Aged(takeoff_cmd_age, TakeoffRetry)
  /\ land_cmd_age' = Aged(land_cmd_age, LandRetry)
  /\ target_age' = Aged(target_age, TargetTimeout + 1)
  /\ telemetry_age' = Aged(telemetry_age, TelemetryTimeout + 1)
  /\ autonomy_request' = [Quiet(autonomy_request) EXCEPT
                            !.age = Aged(@, RepublishTime)]
  /\ offboard_request' = [Quiet(offboard_request) EXCEPT
                            !.age = Aged(@, RepublishTime)]
  /\ actions' = <<>>
  /\ commands' = <<>>
  /\ UNCHANGED <<state, mission_active, plan, step_index, actions_sent,
                 goto_targets, last_target, last_telemetry>>

Callback ==
  \/ \E on \in BOOLEAN : MissionRequestCallback(on)
  \/ \E p \in Plans : MissionPlanCallback(p)
  \/ \E msg \in TargetInputs : TargetCallback(msg)
  \/ \E msg \in TelemetryInputs : TelemetryCallback(msg)

Next == Loop \/ Callback \/ Elapse

Spec == Init /\ [][Next]_vars

\* rclpy keeps the timer firing and time passes.
FairSpec == Spec /\ WF_vars(Loop) /\ WF_vars(Elapse)

------------------------------------------------------------------------------
(* Properties.                                                             *)

\* A mission that is stopped, complete or disabled has taken back both
\* requests, however it ended and whatever was suppressed as a repetition.
IdleMeansReleased ==
  ~mission_active =>
    TRUE \notin autonomy_request.last /\ TRUE \notin offboard_request.last

\* PX4 is asked to move by itself (TAKEOFF, GOTO_LOCATION, RETURN_TO_LAUNCH,
\* LAND) only when the Offboard request has been taken back.
OffboardReleasedForPX4 ==
  [][\A i \in DOMAIN actions' :
       actions'[i].action # "DO_ORBIT" => TRUE \notin offboard_request'.last]_vars

\* A destination, once captured, does not move with the vehicle, and it is the
\* one PX4 was sent.
GotoDestinationFixed ==
  [][/\ \A i \in DOMAIN goto_targets \cap DOMAIN goto_targets' :
          goto_targets'[i] = goto_targets[i]
     /\ \A i \in DOMAIN actions' : actions'[i].action = "GOTO_LOCATION" =>
          actions'[i].place = goto_targets'[step_index]]_vars

\* The current step has a time-out; it also has what it needs to go on.
InTimedStep == Running /\ Step.type \notin {"takeoff", "prime_offboard", "complete"}
                       /\ Step.timeout > 0
TimedStepCanGoOn ==
  CASE Step.type \in {"scan", "track_center"} -> PreflightOK
    [] Step.type = "approach" -> AirborneLocal
    [] Step.type = "goto" -> /\ AirborneLocal
                             /\ \/ last_telemetry.global_position
                                \/ step_index \in DOMAIN goto_targets
    [] Step.type = "orbit" -> AirborneLocal /\ TargetDistanceReady /\ TargetCentered
    [] OTHER -> TRUE

\* No mission stays in a step that has a time-out, whether what the step waits for
\* is reported or not, unless what it needs to go on is taken away; returning and
\* landing need nothing.
TimedStepsEnd == InTimedStep ~> ~InTimedStep \/ ~TimedStepCanGoOn
==============================================================================
