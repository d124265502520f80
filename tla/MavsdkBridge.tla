---------------------------- MODULE MavsdkBridge ----------------------------
(***************************************************************************)
(* telemetry_node: the only owner of the MAVSDK connection to PX4.  The    *)
(* ROS callbacks run in one thread; in another, an asyncio loop runs two   *)
(* coroutines, the Offboard command loop (20 Hz) and the action command    *)
(* loop (10 Hz).  What a coroutine does between two awaits is one step;    *)
(* every call to PX4 is an await, during which the other coroutine, the    *)
(* callbacks and PX4 may run.                                              *)
(*                                                                         *)
(* A timeout is a step that may happen at any time after the message it    *)
(* is about: command_fresh, action_fresh and fresh say what has not yet    *)
(* timed out.                                                              *)
(***************************************************************************)
EXTENDS DroneInterfaces, FiniteSets

CONSTANTS
  AllowMavsdkActions,      \* allow_mavsdk_actions
  AllowArmViaMavsdk,       \* allow_arm_via_mavsdk
  RequireArmed,            \* require_armed_for_offboard
  StopOffboardOnDisable,   \* stop_offboard_on_disable
  AllowTranslation,        \* allow_translation_commands
  MinBattery,              \* min_battery_percent
  LinkFaults,              \* the link to PX4 may drop, lose a call or an answer
  Preemption,              \* a ROS callback may run in the middle of a step
  ControlInputs,
  ActionInputs,
  VehicleInputs,
  StallingStreams          \* the streams that may fall silent

\* The PX4 streams something is decided on.
Stream == {"position", "local_position", "armed", "landed_state", "battery",
           "health"}

ASSUME BridgeAssumption ==
  /\ {AllowMavsdkActions, AllowArmViaMavsdk, RequireArmed, LinkFaults,
      StopOffboardOnDisable, AllowTranslation, Preemption} \subseteq BOOLEAN
  /\ MinBattery \in Nat
  /\ ControlInputs \subseteq ControlCommand
  /\ ActionInputs \subseteq ActionCommand
  /\ VehicleInputs \subseteq Telemetry
  /\ StallingStreams \subseteq Stream

VARIABLES
  mavsdk_offboard_enabled,
  latest_command, command_fresh,   \* nothing received yet: not fresh
  latest_action, action_fresh,     \* the one slot for an action ...
  action_handled,                  \* ... and whether it was handled
  connected,                       \* what _watch_connection_state believes
  vehicle, fresh,                  \* _telemetry_data, the streams not stale
  offboard_active,
  action_in_progress,
  prime_hold,                      \* {} or {place} of _prime_hold_position
  offboard_pc, setpoint,           \* the Offboard loop and its setpoint
  action_pc, command,              \* the action loop and its command
  rpc,                             \* the call each loop waits for
  px4_mode, px4_setpoint

received == <<latest_command, command_fresh, latest_action, action_fresh>>
stream_data == <<vehicle, fresh>>
offboard_loop == <<offboard_pc, setpoint>>
action_loop == <<action_pc, command, action_handled, action_in_progress>>
px4  == <<px4_mode, px4_setpoint>>
vars == <<mavsdk_offboard_enabled, received, connected, stream_data,
          offboard_active, prime_hold, offboard_loop, action_loop, rpc, px4>>

------------------------------------------------------------------------------
(* Setpoints and calls.                                                    *)

HoldAt(p) == [type |-> "POSITION", place |-> p, forward |-> 0]
Moving(v) == [type |-> "VELOCITY", place |-> 0, forward |-> v]
ZeroVelocity == Moving(0)

Loops == {"offboard", "action"}
NoCall == [call |-> "none", status |-> "none"]

Issue(loop, c) == rpc' = [rpc EXCEPT ![loop] = [call |-> c, status |-> "pending"]]
Answered(loop) == rpc[loop].status \in {"ok", "failed"}
Succeeded(loop) == rpc[loop].status = "ok"
AwaitsNothing(loop) == rpc' = [rpc EXCEPT ![loop] = NoCall]

------------------------------------------------------------------------------
(* PX4 with MAVSDK in front of it.  Two calls under way are served in any  *)
(* order.                                                                  *)

Mode == {"HOLD", "OFFBOARD", "TAKEOFF", "LAND", "RETURN_TO_LAUNCH",
         "GOTO_LOCATION", "DO_ORBIT"}

TakeEffect(c) ==
  /\ px4_mode' = CASE c = "start" -> "OFFBOARD"
                   [] c = "stop" -> "HOLD"
                   [] c \in Mode -> c
                   [] OTHER -> px4_mode
  /\ px4_setpoint' = CASE c = "set" -> setpoint
                        [] c = "set_zero" -> ZeroVelocity
                        [] OTHER -> px4_setpoint

Answer(loop, status) == rpc' = [rpc EXCEPT ![loop].status = status]

\* PX4 may deny Offboard; with a faulty link the call or its answer is lost.
PX4Serves(loop) ==
  /\ rpc[loop].status = "pending"
  /\ \/ TakeEffect(rpc[loop].call) /\ Answer(loop, "ok")
     \/ rpc[loop].call = "start" /\ Answer(loop, "failed") /\ UNCHANGED px4
     \/ LinkFaults /\ Answer(loop, "failed") /\ UNCHANGED px4
     \/ LinkFaults /\ TakeEffect(rpc[loop].call) /\ Answer(loop, "failed")
  /\ UNCHANGED <<mavsdk_offboard_enabled, received, connected, stream_data,
                 offboard_active, prime_hold, offboard_loop, action_loop>>

------------------------------------------------------------------------------
\* The state in which the loops start, when PX4 has reported as much as v and f
\* say: nothing, at first.
InitWith(v, f) ==
  /\ mavsdk_offboard_enabled = FALSE
  /\ latest_command = IdleCommand /\ command_fresh = FALSE
  /\ latest_action = NewAction("HOLD") /\ action_fresh = FALSE
  /\ action_handled = TRUE
  /\ connected = TRUE                \* the loops start once PX4 is connected
  /\ vehicle = v /\ fresh = f
  /\ offboard_active = FALSE
  /\ action_in_progress = FALSE
  /\ prime_hold = {}
  /\ offboard_pc = "idle" /\ setpoint = ZeroVelocity
  /\ action_pc = "idle" /\ command = NewAction("HOLD")
  /\ rpc = [l \in Loops |-> NoCall]
  /\ px4_mode = "HOLD" /\ px4_setpoint = ZeroVelocity

Init == InitWith(NoTelemetry, {})

------------------------------------------------------------------------------
(* The Offboard command loop.                                              *)

SafeForOffboard ==
  /\ mavsdk_offboard_enabled
  /\ connected
  /\ RequireArmed => vehicle.armed
  /\ vehicle.battery = 0 \/ vehicle.battery >= MinBattery

LocalPositionUsable ==
  vehicle.local_position_valid /\ "local_position" \in fresh

\* Plausible bug: the last command is valid for ever.
CommandValidForEver ==
  /\ SafeForOffboard
  /\ latest_command.executed
  /\ \/ latest_command.command_type = "POSITION" /\ LocalPositionUsable
     \/ latest_command.command_type = "VELOCITY" /\ latest_command.sent

CommandValid ==
  /\ SafeForOffboard
  /\ command_fresh
  /\ latest_command.executed
  /\ \/ latest_command.command_type = "POSITION" /\ LocalPositionUsable
     \/ latest_command.command_type = "VELOCITY" /\ latest_command.sent

CommandedSetpoint ==
  IF latest_command.command_type = "POSITION" THEN HoldAt(latest_command.place)
  ELSE Moving(IF AllowTranslation THEN latest_command.forward ELSE 0)

\* _prime_hold_position is set, or can be: never on a stale position.
PrimeAvailable == prime_hold # {} \/ LocalPositionUsable
CapturePrime ==
  prime_hold' = IF prime_hold = {} THEN {vehicle.place} ELSE prime_hold

\* The asyncio loop is not in the middle of using the prime hold.
LoopFree == offboard_pc \notin {"priming", "holding"}

OffboardAsleep == offboard_pc = "idle" /\ UNCHANGED <<px4, action_loop, received,
                    mavsdk_offboard_enabled, connected, stream_data>>

StopAndSleep ==
  IF offboard_active
  THEN Issue("offboard", "stop") /\ offboard_pc' = "stopping"
  ELSE UNCHANGED <<rpc, offboard_pc>>

SendSetpoint(s) ==
  /\ setpoint' = s
  /\ offboard_pc' = "sending"
  /\ Issue("offboard", "set")

\* Plausible bug: a velocity command is sent before the start as it is.
SetAnythingBeforeStart(s) ==
  /\ setpoint' = s
  /\ offboard_pc' = "presetting"
  /\ Issue("offboard", "set")

\* PX4 wants a setpoint before it starts Offboard: the position to be commanded,
\* or zero velocity when a velocity is.
SetBeforeStart(s) ==
  /\ setpoint' = s
  /\ offboard_pc' = "presetting"
  /\ Issue("offboard", IF s.type = "POSITION" THEN "set" ELSE "set_zero")

PauseForAction ==
  /\ OffboardAsleep /\ action_in_progress
  /\ StopAndSleep
  /\ UNCHANGED <<setpoint, prime_hold, offboard_active>>

\* Plausible bug: a disabled executor only pauses.
ExecutorDisabledPauses ==
  /\ OffboardAsleep /\ ~action_in_progress /\ ~mavsdk_offboard_enabled
  /\ UNCHANGED <<rpc, offboard_pc, setpoint, prime_hold, offboard_active>>

ExecutorDisabled ==
  /\ OffboardAsleep /\ ~action_in_progress /\ ~mavsdk_offboard_enabled
  /\ IF StopOffboardOnDisable THEN StopAndSleep ELSE UNCHANGED <<rpc, offboard_pc>>
  /\ UNCHANGED <<setpoint, prime_hold, offboard_active>>

\* No valid command, but safe to hold: prime Offboard.
PrimeOffboard ==
  /\ OffboardAsleep /\ ~action_in_progress /\ SafeForOffboard /\ ~CommandValid
  /\ \/ /\ PrimeAvailable
        /\ CapturePrime
        /\ offboard_pc' = "priming"
        /\ UNCHANGED rpc
     \/ ~PrimeAvailable /\ StopAndSleep /\ UNCHANGED prime_hold
  /\ UNCHANGED <<setpoint, offboard_active>>

\* Not safe any more while Offboard is active: hold where we are.
HoldWhileUnsafe ==
  /\ OffboardAsleep /\ ~action_in_progress
  /\ mavsdk_offboard_enabled /\ ~SafeForOffboard
  /\ \/ ~offboard_active /\ UNCHANGED <<prime_hold, offboard_loop, rpc>>
     \/ /\ offboard_active /\ PrimeAvailable
        /\ CapturePrime
        /\ offboard_pc' = "holding"
        /\ UNCHANGED <<setpoint, rpc>>
     \/ /\ offboard_active /\ ~PrimeAvailable
        /\ SendSetpoint(ZeroVelocity)
        /\ UNCHANGED prime_hold
  /\ UNCHANGED offboard_active

\* A callback that clears the prime hold between its test and its use raises an
\* exception nobody handles: the loop ends and the session is given up.  (The
\* next session, after reconnect_interval, is not modelled.)
UsePrimeHold ==
  /\ offboard_pc \in {"priming", "holding"}
  /\ IF prime_hold = {}
     THEN /\ offboard_pc' = "dead"
          /\ connected' = FALSE
          /\ offboard_active' = FALSE
          /\ UNCHANGED <<setpoint, rpc>>
     ELSE /\ \E p \in prime_hold :
               IF offboard_pc = "holding" \/ offboard_active
               THEN SendSetpoint(HoldAt(p)) ELSE SetBeforeStart(HoldAt(p))
          /\ UNCHANGED <<connected, offboard_active>>
  /\ UNCHANGED <<mavsdk_offboard_enabled, received, stream_data, prime_hold,
                 action_loop, px4>>

FollowCommand ==
  /\ OffboardAsleep /\ ~action_in_progress /\ CommandValid
  /\ IF offboard_active THEN SendSetpoint(CommandedSetpoint)
     ELSE SetBeforeStart(CommandedSetpoint)
  /\ UNCHANGED <<prime_hold, offboard_active>>

\* The awaits of the Offboard loop.
OffboardResumes(pc) ==
  /\ offboard_pc = pc /\ Answered("offboard")
  /\ UNCHANGED <<mavsdk_offboard_enabled, received, connected, stream_data,
                 action_loop, px4>>

OffboardPreset ==
  /\ OffboardResumes("presetting")
  /\ IF Succeeded("offboard")
     THEN Issue("offboard", "start") /\ offboard_pc' = "starting"
     ELSE AwaitsNothing("offboard") /\ offboard_pc' = "idle"
  /\ UNCHANGED <<setpoint, offboard_active, prime_hold>>

\* Plausible bug: the loop forgets to note that Offboard is active.
OffboardStartedUnnoticed ==
  /\ OffboardResumes("starting")
  /\ AwaitsNothing("offboard") /\ offboard_pc' = "idle"
  /\ UNCHANGED <<setpoint, offboard_active, prime_hold>>

\* The setpoint that follows the start is the one decided on before it.
OffboardStarted ==
  /\ OffboardResumes("starting")
  /\ IF Succeeded("offboard")
     THEN /\ offboard_active' = TRUE
          /\ SendSetpoint(setpoint)
     ELSE /\ AwaitsNothing("offboard") /\ offboard_pc' = "idle"
          /\ UNCHANGED <<setpoint, offboard_active>>
  /\ UNCHANGED prime_hold

OffboardSent ==
  /\ OffboardResumes("sending")
  /\ AwaitsNothing("offboard") /\ offboard_pc' = "idle"
  /\ offboard_active' = (offboard_active /\ Succeeded("offboard"))
  /\ UNCHANGED <<setpoint, prime_hold>>

\* A stop that failed keeps the prime hold.
Stopped(loop) ==
  /\ offboard_active' = FALSE
  /\ prime_hold' = IF Succeeded(loop) THEN {} ELSE prime_hold

OffboardStopped ==
  /\ OffboardResumes("stopping")
  /\ AwaitsNothing("offboard") /\ offboard_pc' = "idle"
  /\ Stopped("offboard")
  /\ UNCHANGED setpoint

OffboardLoop ==
  \/ PauseForAction \/ ExecutorDisabled \/ PrimeOffboard \/ HoldWhileUnsafe
  \/ UsePrimeHold \/ FollowCommand \/ OffboardPreset \/ OffboardStarted
  \/ OffboardSent \/ OffboardStopped

------------------------------------------------------------------------------
(* The action command loop.                                                *)

Airborne == vehicle.height # "ground"

ActionPolicyAllows(action) ==
  CASE action = "ARM" ->
         /\ AllowArmViaMavsdk
         /\ {"armed", "landed_state"} \subseteq fresh
         /\ ~vehicle.armed /\ ~Airborne
    [] action = "TAKEOFF" ->
         /\ {"position", "armed", "landed_state"} \subseteq fresh
         /\ vehicle.armed /\ ~Airborne
    [] action \in {"DO_ORBIT", "GOTO_LOCATION"} ->
         /\ {"position", "local_position", "landed_state"} \subseteq fresh
         /\ Airborne /\ vehicle.local_position_valid
    [] OTHER -> TRUE                       \* LAND, RETURN_TO_LAUNCH, HOLD

FirstCall(action) ==
  IF action = "TAKEOFF" THEN "set_takeoff_altitude" ELSE action

ActionAccepted ==
  /\ action_fresh
  /\ AllowMavsdkActions
  /\ connected
  /\ ActionPolicyAllows(latest_action.action)

\* Plausible bug: an action is marked handled only where it is refused.
TakeActionUnmarked ==
  /\ LoopFree /\ action_pc = "idle" /\ ~action_handled
  /\ action_handled' = ~ActionAccepted
  /\ command' = latest_action
  /\ IF ActionAccepted
     THEN /\ action_in_progress' = TRUE
          /\ IF offboard_active
             THEN action_pc' = "stopping" /\ Issue("action", "stop")
             ELSE /\ action_pc' = "executing"
                  /\ Issue("action", FirstCall(latest_action.action))
     ELSE UNCHANGED <<action_in_progress, action_pc, rpc>>
  /\ UNCHANGED <<mavsdk_offboard_enabled, received, connected, stream_data,
                 offboard_active, prime_hold, offboard_loop, px4>>

\* A new action is handled once, whatever becomes of it; when it is accepted,
\* Offboard is stopped first.
TakeAction ==
  /\ LoopFree /\ action_pc = "idle" /\ ~action_handled
  /\ action_handled' = TRUE
  /\ command' = latest_action
  /\ IF ActionAccepted
     THEN /\ action_in_progress' = TRUE
          /\ IF offboard_active
             THEN action_pc' = "stopping" /\ Issue("action", "stop")
             ELSE /\ action_pc' = "executing"
                  /\ Issue("action", FirstCall(latest_action.action))
     ELSE UNCHANGED <<action_in_progress, action_pc, rpc>>
  /\ UNCHANGED <<mavsdk_offboard_enabled, received, connected, stream_data,
                 offboard_active, prime_hold, offboard_loop, px4>>

ActionResumes(pc) ==
  /\ LoopFree /\ action_pc = pc /\ Answered("action")
  /\ UNCHANGED <<mavsdk_offboard_enabled, received, connected, stream_data,
                 offboard_loop, px4, command, action_handled>>

ActionStopped ==
  /\ ActionResumes("stopping")
  /\ Stopped("action")
  /\ action_pc' = "executing"
  /\ Issue("action", FirstCall(command.action))
  /\ UNCHANGED action_in_progress

ActionAltitudeSet ==
  /\ ActionResumes("executing") /\ rpc["action"].call = "set_takeoff_altitude"
  /\ Issue("action", "TAKEOFF")
  /\ UNCHANGED <<action_pc, action_in_progress, offboard_active, prime_hold>>

ActionExecuted ==
  /\ ActionResumes("executing") /\ rpc["action"].call # "set_takeoff_altitude"
  /\ AwaitsNothing("action")
  /\ action_pc' = "idle"
  /\ action_in_progress' = FALSE
  /\ UNCHANGED <<offboard_active, prime_hold>>

ActionLoop == TakeAction \/ ActionStopped \/ ActionAltitudeSet \/ ActionExecuted

------------------------------------------------------------------------------
(* The callbacks, in the thread of the ROS executor.  Without Preemption   *)
(* they run only while the asyncio loop waits.                             *)

CallbackRuns == Preemption \/ LoopFree

ControlCommandCallback(msg) ==
  /\ CallbackRuns
  /\ latest_command' = msg /\ command_fresh' = TRUE
  /\ UNCHANGED <<mavsdk_offboard_enabled, latest_action, action_fresh, connected,
                 stream_data, offboard_active, prime_hold, offboard_loop,
                 action_loop, rpc, px4>>

\* A change forgets the prime hold.
OffboardEnableCallback(enabled) ==
  /\ CallbackRuns
  /\ mavsdk_offboard_enabled' = enabled
  /\ prime_hold' = IF enabled # mavsdk_offboard_enabled THEN {} ELSE prime_hold
  /\ UNCHANGED <<received, connected, stream_data, offboard_active,
                 offboard_loop, action_loop, rpc, px4>>

\* The slot holds the last action only, and every message is a new action.
ActionCommandCallback(msg) ==
  /\ CallbackRuns
  /\ latest_action' = msg /\ action_fresh' = TRUE
  /\ action_handled' = FALSE
  /\ UNCHANGED <<mavsdk_offboard_enabled, latest_command, command_fresh, connected,
                 stream_data, offboard_active, prime_hold, offboard_loop,
                 action_pc, command, action_in_progress, rpc, px4>>

------------------------------------------------------------------------------
(* The streams and the connection, in the asyncio loop; time.              *)

StreamReports(s, v) ==
  /\ LoopFree
  /\ vehicle' = CASE s = "armed" -> [vehicle EXCEPT !.armed = v.armed]
                  [] s = "landed_state" -> [vehicle EXCEPT !.height = v.height]
                  [] s = "battery" -> [vehicle EXCEPT !.battery = v.battery]
                  [] s = "health" -> [vehicle EXCEPT !.healthy = v.healthy]
                  [] s = "local_position" ->
                       [vehicle EXCEPT !.place = v.place,
                          !.local_position_valid = v.local_position_valid]
                  [] s = "position" ->
                       [vehicle EXCEPT !.global_position = v.global_position]
  /\ fresh' = fresh \cup {s}
  /\ UNCHANGED <<mavsdk_offboard_enabled, received, connected, offboard_active,
                 prime_hold, offboard_loop, action_loop, rpc, px4>>

\* Not heard of for the grace period.
ConnectionLost ==
  /\ LoopFree /\ LinkFaults /\ connected
  /\ connected' = FALSE
  /\ offboard_active' = FALSE
  /\ prime_hold' = {}
  /\ UNCHANGED <<mavsdk_offboard_enabled, received, stream_data, offboard_loop,
                 action_loop, rpc, px4>>

ConnectionRecovered ==
  /\ LoopFree /\ LinkFaults /\ ~connected
  /\ connected' = TRUE
  /\ UNCHANGED <<mavsdk_offboard_enabled, received, stream_data, offboard_active,
                 prime_hold, offboard_loop, action_loop, rpc, px4>>

TimesOut ==
  /\ \/ command_fresh' = FALSE /\ UNCHANGED <<action_fresh, fresh>>
     \/ action_fresh' = FALSE /\ UNCHANGED <<command_fresh, fresh>>
     \/ /\ \E s \in StallingStreams : fresh' = fresh \ {s}
        /\ UNCHANGED <<command_fresh, action_fresh>>
  /\ UNCHANGED <<mavsdk_offboard_enabled, latest_command, latest_action, connected,
                 vehicle, offboard_active, prime_hold, offboard_loop,
                 action_loop, rpc, px4>>

Callback ==
  \/ \E msg \in ControlInputs : ControlCommandCallback(msg)
  \/ \E enabled \in BOOLEAN : OffboardEnableCallback(enabled)
  \/ \E msg \in ActionInputs : ActionCommandCallback(msg)

Next == \/ OffboardLoop \/ ActionLoop \/ Callback
        \/ \E l \in Loops : PX4Serves(l)
        \/ \E s \in Stream, v \in VehicleInputs : StreamReports(s, v)
        \/ ConnectionLost \/ ConnectionRecovered \/ TimesOut

Spec == Init /\ [][Next]_vars

\* asyncio resumes both loops, and MAVSDK answers every call or gives up.
Fairness == /\ WF_vars(OffboardLoop) /\ WF_vars(ActionLoop)
            /\ \A l \in Loops : WF_vars(PX4Serves(l))
FairSpec == Spec /\ Fairness

------------------------------------------------------------------------------
(* Properties.                                                             *)

\* As long as no call or answer is lost, PX4 is in Offboard only when the
\* bridge knows it (and will stop it) or is about to learn it, whatever the
\* two loops do to each other.
BridgeKnowsOffboard ==
  px4_mode = "OFFBOARD" => offboard_active \/ offboard_pc = "starting"

\* When PX4 enters Offboard it has been given a position to hold or zero
\* velocity, even when an earlier session left another setpoint behind and
\* when answers are lost.
EntersOffboardHolding ==
  [][px4_mode' = "OFFBOARD" /\ px4_mode # "OFFBOARD" => px4_setpoint.forward = 0]_vars

\* Disabling the executor ends Offboard.
DisableEndsOffboard ==
  ~mavsdk_offboard_enabled ~> mavsdk_offboard_enabled \/ px4_mode # "OFFBOARD"

\* A vehicle whose control commands have stopped coming does not keep moving:
\* it ends up holding, or out of Offboard.
MotionEndsWithCommands ==
  ~command_fresh ~> \/ command_fresh
                    \/ px4_mode # "OFFBOARD"
                    \/ px4_setpoint.forward = 0
==============================================================================
