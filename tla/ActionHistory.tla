---------------------------- MODULE ActionHistory ----------------------------
(***************************************************************************)
(* MavsdkBridge with a memory of what was done about the last action       *)
(* received.                                                               *)
(***************************************************************************)
EXTENDS MavsdkBridge

VARIABLES
  executions,   \* calls to PX4 that carry out the last action received
  allowed,      \* the policy allowed it at some time since it was received
  taken         \* what the action loop is working on is that action
history == <<executions, allowed, taken>>

NothingReceived == executions = 0 /\ allowed = FALSE /\ taken = FALSE

PolicyAllows ==
  AllowMavsdkActions /\ ActionPolicyAllows(latest_action.action)

Executes == /\ rpc'["action"].call = command'.action
            /\ rpc["action"].call # command'.action \/ action_pc = "idle"

HReceive ==
  /\ \E msg \in ActionInputs : ActionCommandCallback(msg)
  /\ executions' = 0
  /\ allowed' = PolicyAllows'
  /\ taken' = FALSE

Observe ==
  /\ taken' = (taken \/ (action_pc = "idle" /\ action_pc' # "idle"))
  /\ executions' = IF taken' /\ Executes THEN executions + 1 ELSE executions
  /\ allowed' = (allowed \/ PolicyAllows')

Others == \/ OffboardLoop \/ ActionLoop
          \/ \E l \in Loops : PX4Serves(l)
          \/ \E msg \in ControlInputs : ControlCommandCallback(msg)
          \/ \E enabled \in BOOLEAN : OffboardEnableCallback(enabled)
          \/ \E s \in Stream, v \in VehicleInputs : StreamReports(s, v)
          \/ ConnectionLost \/ ConnectionRecovered \/ TimesOut

HNext == HReceive \/ (Others /\ Observe)

HSpec == Init /\ NothingReceived /\ [][HNext]_<<vars, history>>

------------------------------------------------------------------------------
\* An action received is carried out at most once, whatever arrives
\* or is refused meanwhile, and never when its policy did not allow it at any time
\* since it was received.
ActionOnceUnderPolicy == executions <= 1 /\ (executions > 0 => allowed)
==============================================================================
