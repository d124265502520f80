--------------------------- MODULE MCBridge ----------------------------------
(***************************************************************************)
(* Three instances of the bridge; part says which a behaviour is of.       *)
(* "reliable": no call is lost and a callback runs between two steps, with *)
(* a memory of what was done about the last action received.  "faulty":    *)
(* calls, answers and the connection are lost, callbacks run anywhere.     *)
(* "sessions": BridgeSessions.                                             *)
(***************************************************************************)
EXTENDS MCMavsdkBridge, ActionHistory

CONSTANTS Grace, ReconnectInterval, ConnectionTimeout, MaxSessions, MaxFailures

VARIABLES
  part,
  main, waited, session, server, coroutines, link, down_for, seen, grace_timer,
  session_connected, session_handled, executing, failures
sessions == <<main, waited, session, server, coroutines, link, down_for, seen,
              grace_timer, session_connected, session_handled, executing, failures>>

Faulty ==
  INSTANCE MavsdkBridge WITH
    LinkFaults <- TRUE, Preemption <- TRUE, ControlInputs <- {Fly},
    ActionInputs <- MCTakeoff, VehicleInputs <- MCVehicleInputs

Sessions ==
  INSTANCE BridgeSessions WITH
    connected <- session_connected, action_handled <- session_handled

PartInit ==
  /\ FlyingInit /\ NothingReceived /\ Sessions!Init
  /\ part \in {"reliable", "faulty", "sessions"}
  /\ part # "sessions" => ~link

ReliableStep(A) == part = "reliable" /\ A

PartNext ==
  /\ \/ ReliableStep(HNext) /\ UNCHANGED sessions
     \/ part = "faulty" /\ Faulty!Next /\ UNCHANGED <<history, sessions>>
     \/ part = "sessions" /\ Sessions!Next /\ UNCHANGED <<vars, history>>
  /\ UNCHANGED part

\* The fairness of MavsdkBridge for one part, that of BridgeSessions for another.
PartSpec ==
  /\ PartInit /\ [][PartNext]_<<part, vars, history, sessions>>
  /\ WF_vars(ReliableStep(OffboardLoop)) /\ WF_vars(ReliableStep(ActionLoop))
  /\ \A l \in Loops : WF_vars(ReliableStep(PX4Serves(l)))
  /\ WF_sessions(part = "sessions" /\ Sessions!Prompt)
  /\ WF_sessions(part = "sessions" /\ Sessions!Tick)

------------------------------------------------------------------------------
\* See MavsdkBridge: BridgeKnowsOffboard, DisableEndsOffboard and
\* MotionEndsWithCommands of a reliable link.
KnowsOffboard == part = "reliable" => BridgeKnowsOffboard

DisableEnds ==
  (part = "reliable" /\ ~mavsdk_offboard_enabled)
    ~> mavsdk_offboard_enabled \/ px4_mode # "OFFBOARD"

MotionEnds ==
  (part = "reliable" /\ ~command_fresh)
    ~> command_fresh \/ px4_mode # "OFFBOARD" \/ px4_setpoint.forward = 0

\* See BridgeSessions.
LossNeedsGrace == Sessions!LossNeedsGrace
ConnectedFollowsLink == Sessions!ConnectedFollowsLink
==============================================================================
