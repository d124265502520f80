----------------------------- MODULE BridgeProofs -----------------------------
(***************************************************************************)
(* The bridge enters Offboard holding whatever is lost on the way to PX4,  *)
(* and when nothing is lost it knows whether PX4 is in Offboard, whatever  *)
(* the two loops do to each other.  Its Offboard loop outlives everything  *)
(* but the race of its two threads.                                        *)
(***************************************************************************)
EXTENDS MavsdkBridge, TLAPS

ActionCall == {"none", "stop", "set_takeoff_altitude"} \cup Action
Call == {"set", "set_zero", "start"} \cup ActionCall
Status == {"none", "pending", "ok", "failed"}

CallTypes ==
  /\ rpc \in [Loops -> [call : Call, status : Status]]
  /\ rpc["action"].call \in ActionCall
  /\ latest_action.action \in Action
  /\ command.action \in Action

------------------------------------------------------------------------------
(* Calls.                                                                  *)

LEMMA CallTypesInit ==
  ASSUME NEW v, NEW f, InitWith(v, f)
  PROVE  CallTypes
<1>1. NewAction("HOLD").action \in Action
  BY DEF NewAction, Action
<1>2. NoCall \in [call : Call, status : Status] /\ NoCall.call \in ActionCall
  BY DEF NoCall, Call, ActionCall, Status
<1> QED BY <1>1, <1>2 DEF InitWith, CallTypes, Loops

\* Only the Offboard loop asks for a setpoint or for Offboard.
LEMMA CallTypesNext ==
  ASSUME CallTypes, [Next]_vars
  PROVE  CallTypes'
<1>1. CASE OffboardLoop
  <2>1. /\ rpc' \in [Loops -> [call : Call, status : Status]]
        /\ rpc'["action"] = rpc["action"]
    BY <1>1 DEF OffboardLoop, PauseForAction, ExecutorDisabled, PrimeOffboard,
      HoldWhileUnsafe, UsePrimeHold, FollowCommand, OffboardPreset, OffboardStarted,
      OffboardSent, OffboardStopped, StopAndSleep, SendSetpoint, SetBeforeStart,
      Issue, AwaitsNothing, NoCall, CallTypes, Call, ActionCall, Status, Loops,
      offboard_loop
  <2>2. latest_action' = latest_action /\ command' = command
    BY <1>1 DEF OffboardLoop, PauseForAction, ExecutorDisabled, PrimeOffboard,
      HoldWhileUnsafe, UsePrimeHold, FollowCommand, OffboardPreset, OffboardStarted,
      OffboardSent, OffboardStopped, OffboardAsleep, OffboardResumes, received,
      action_loop
  <2> QED BY <2>1, <2>2 DEF CallTypes
<1>2. CASE ActionLoop
  <2>1. \A a \in Action : FirstCall(a) \in ActionCall
    BY DEF FirstCall, ActionCall
  <2>2. ActionCall \subseteq Call /\ "TAKEOFF" \in ActionCall
    BY DEF ActionCall, Call, Action
  <2> QED BY <1>2, <2>1, <2>2
    DEF ActionLoop, TakeAction, ActionStopped, ActionAltitudeSet, ActionExecuted,
        ActionResumes, Issue, AwaitsNothing, NoCall, CallTypes, ActionCall, Status,
        Loops, received
<1>3. CASE Callback
  BY <1>3, BridgeAssumption
  DEF Callback, ControlCommandCallback, OffboardEnableCallback, ActionCommandCallback,
      action_loop, received, CallTypes, ActionCommand
<1>4. CASE \E l \in Loops : PX4Serves(l)
  BY <1>4 DEF PX4Serves, Answer, received, action_loop, CallTypes, Status, Loops
<1>5. CASE \/ \E s \in Stream, v \in VehicleInputs : StreamReports(s, v)
           \/ ConnectionLost \/ ConnectionRecovered \/ TimesOut
           \/ UNCHANGED vars
  BY <1>5 DEF StreamReports, ConnectionLost, ConnectionRecovered, TimesOut, vars,
              received, action_loop, CallTypes
<1> QED BY <1>1, <1>2, <1>3, <1>4, <1>5 DEF Next

------------------------------------------------------------------------------
(* What PX4 holds when Offboard starts.                                    *)

EnterInv ==
  /\ CallTypes
  /\ setpoint.type = "POSITION" => setpoint.forward = 0
  /\ rpc["offboard"].call = "start" => offboard_pc = "starting"
  /\ offboard_pc = "presetting" =>
       /\ \/ rpc["offboard"].call = "set" /\ setpoint.forward = 0
          \/ rpc["offboard"].call = "set_zero"
       /\ rpc["offboard"].status = "ok" => px4_setpoint.forward = 0
  /\ offboard_pc = "starting" =>
       rpc["offboard"].call = "start" /\ px4_setpoint.forward = 0

LEMMA SetpointTypes ==
  /\ \A p : HoldAt(p).type = "POSITION" /\ HoldAt(p).forward = 0
  /\ ZeroVelocity.type = "VELOCITY" /\ ZeroVelocity.forward = 0
  /\ CommandedSetpoint.type = "POSITION" => CommandedSetpoint.forward = 0
BY DEF HoldAt, ZeroVelocity, Moving, CommandedSetpoint

LEMMA EnterInvOffboardLoop ==
  ASSUME EnterInv, CallTypes', OffboardLoop
  PROVE  EnterInv'
<1>1. px4_setpoint' = px4_setpoint
  BY DEF OffboardLoop, PauseForAction, ExecutorDisabled, PrimeOffboard,
    HoldWhileUnsafe, UsePrimeHold, FollowCommand, OffboardPreset, OffboardStarted,
    OffboardSent, OffboardStopped, OffboardAsleep, OffboardResumes, px4
<1>2. \A c : Issue("offboard", c) =>
              rpc'["offboard"].call = c /\ rpc'["offboard"].status = "pending"
  BY DEF EnterInv, CallTypes, Loops, Issue
<1>3. AwaitsNothing("offboard") => rpc'["offboard"].call = "none"
  BY DEF EnterInv, CallTypes, Loops, AwaitsNothing, NoCall
<1>4. ASSUME UNCHANGED <<rpc, setpoint>>, offboard_pc = "idle",
             offboard_pc' \in {"idle", "priming", "holding"}
      PROVE  EnterInv'
  BY <1>4 DEF EnterInv
<1>5. ASSUME UNCHANGED setpoint, offboard_pc = "idle", StopAndSleep
      PROVE  EnterInv'
  BY <1>2, <1>5 DEF StopAndSleep, EnterInv
<1>6. ASSUME NEW s, s.type = "POSITION" => s.forward = 0, SendSetpoint(s)
      PROVE  EnterInv'
  BY <1>2, <1>6 DEF SendSetpoint, EnterInv
<1>7. ASSUME NEW s, s.type = "POSITION" => s.forward = 0, SetBeforeStart(s)
      PROVE  EnterInv'
  BY <1>2, <1>7 DEF SetBeforeStart, EnterInv
<1>8. ASSUME UNCHANGED setpoint, AwaitsNothing("offboard"), offboard_pc' = "idle"
      PROVE  EnterInv'
  BY <1>3, <1>8 DEF EnterInv
<1>9. CASE PauseForAction
  BY <1>5, <1>9 DEF PauseForAction, OffboardAsleep
<1>10. CASE ExecutorDisabled
  BY <1>4, <1>5, <1>10 DEF ExecutorDisabled, OffboardAsleep
<1>11. CASE PrimeOffboard
  BY <1>4, <1>5, <1>11 DEF PrimeOffboard, OffboardAsleep
<1>12. CASE HoldWhileUnsafe
  BY <1>4, <1>6, <1>12, SetpointTypes
  DEF HoldWhileUnsafe, OffboardAsleep, offboard_loop
<1>13. CASE UsePrimeHold
  <2>1. CASE prime_hold = {}
    BY <1>1, <1>13, <2>1 DEF UsePrimeHold, EnterInv
  <2>2. CASE prime_hold # {}
    BY <1>6, <1>7, <1>13, <2>2, SetpointTypes DEF UsePrimeHold
  <2> QED BY <2>1, <2>2
<1>14. CASE FollowCommand
  BY <1>6, <1>7, <1>14, SetpointTypes DEF FollowCommand
<1>15. CASE OffboardPreset
  <2>1. CASE Succeeded("offboard")
    BY <1>1, <1>2, <1>15, <2>1
    DEF OffboardPreset, OffboardResumes, Succeeded, EnterInv
  <2>2. CASE ~Succeeded("offboard")
    BY <1>8, <1>15, <2>2 DEF OffboardPreset
  <2> QED BY <2>1, <2>2
<1>16. CASE OffboardStarted
  BY <1>6, <1>8, <1>16 DEF OffboardStarted, EnterInv
<1>17. CASE OffboardSent \/ OffboardStopped
  BY <1>8, <1>17 DEF OffboardSent, OffboardStopped
<1> QED BY <1>9, <1>10, <1>11, <1>12, <1>13, <1>14, <1>15, <1>16, <1>17
        DEF OffboardLoop

\* What the other steps leave alone, those of PX4 apart.
LEMMA OthersLeaveOffboard ==
  ASSUME CallTypes,
         \/ ActionLoop \/ Callback
         \/ \E s \in Stream, v \in VehicleInputs : StreamReports(s, v)
         \/ ConnectionLost \/ ConnectionRecovered \/ TimesOut
         \/ UNCHANGED vars
  PROVE  UNCHANGED <<offboard_pc, setpoint, rpc["offboard"], px4_mode, px4_setpoint>>
<1>1. CASE ActionLoop
  BY <1>1 DEF ActionLoop, TakeAction, ActionStopped, ActionAltitudeSet,
    ActionExecuted, ActionResumes, Issue, AwaitsNothing, offboard_loop, px4,
    CallTypes, Loops
<1>2. CASE Callback
  BY <1>2 DEF Callback, ControlCommandCallback, OffboardEnableCallback,
    ActionCommandCallback, offboard_loop, px4
<1>3. CASE \/ \E s \in Stream, v \in VehicleInputs : StreamReports(s, v)
           \/ ConnectionLost \/ ConnectionRecovered \/ TimesOut
           \/ UNCHANGED vars
  BY <1>3 DEF StreamReports, ConnectionLost, ConnectionRecovered, TimesOut, vars,
    offboard_loop, px4
<1> QED BY <1>1, <1>2, <1>3

\* PX4 takes a setpoint or starts Offboard only for the Offboard loop.
LEMMA ActionCallsKeep ==
  ASSUME CallTypes, PX4Serves("action")
  PROVE  /\ px4_setpoint' = px4_setpoint
         /\ px4_mode' = "OFFBOARD" => px4_mode = "OFFBOARD"
         /\ rpc'["offboard"] = rpc["offboard"]
<1>1. rpc["action"].call \notin {"set", "set_zero", "start", "OFFBOARD"}
  BY DEF CallTypes, ActionCall, Action
<1>2. rpc'["offboard"] = rpc["offboard"]
  BY DEF PX4Serves, Answer, CallTypes, Loops
<1> QED BY <1>1, <1>2 DEF PX4Serves, TakeEffect, px4, Mode

LEMMA EnterInvServes ==
  ASSUME EnterInv, CallTypes', NEW l \in Loops, PX4Serves(l)
  PROVE  EnterInv'
<1>1. UNCHANGED <<offboard_pc, setpoint>>
  BY DEF PX4Serves, offboard_loop
<1>2. CASE l = "action"
  BY <1>1, <1>2, ActionCallsKeep DEF EnterInv
<1>3. CASE l = "offboard"
  <2>1. /\ rpc["offboard"].status = "pending"
        /\ rpc'["offboard"].call = rpc["offboard"].call
        /\ rpc'["offboard"].status \in {"ok", "failed"}
    BY <1>3 DEF PX4Serves, Answer, EnterInv, CallTypes, Loops
  <2>2. CASE offboard_pc = "presetting"
    <3>1. rpc'["offboard"].status = "ok" => TakeEffect(rpc["offboard"].call)
      BY <1>3, <2>2 DEF PX4Serves, Answer, EnterInv, CallTypes, Loops
    <3>2. TakeEffect(rpc["offboard"].call) => px4_setpoint'.forward = 0
      BY <2>2, SetpointTypes DEF TakeEffect, EnterInv
    <3> QED BY <1>1, <2>1, <2>2, <3>1, <3>2 DEF EnterInv
  <2>3. CASE offboard_pc = "starting"
    <3>1. px4_setpoint' = px4_setpoint
      BY <1>3, <2>3 DEF PX4Serves, TakeEffect, px4, EnterInv
    <3> QED BY <1>1, <2>1, <2>3, <3>1 DEF EnterInv
  <2> QED BY <1>1, <2>1, <2>2, <2>3 DEF EnterInv
<1> QED BY <1>2, <1>3 DEF Loops

LEMMA EnterInvInit ==
  ASSUME NEW v, NEW f, InitWith(v, f)
  PROVE  EnterInv
BY CallTypesInit, SetpointTypes DEF InitWith, NoCall, Loops, EnterInv

LEMMA EnterInvNext ==
  ASSUME EnterInv, [Next]_vars
  PROVE  EnterInv'
<1>1. CallTypes'
  BY CallTypesNext DEF EnterInv
<1>2. CASE OffboardLoop
  BY <1>1, <1>2, EnterInvOffboardLoop
<1>3. CASE \E l \in Loops : PX4Serves(l)
  BY <1>1, <1>3, EnterInvServes
<1>4. CASE ~OffboardLoop /\ ~(\E l \in Loops : PX4Serves(l))
  <2>1. UNCHANGED <<offboard_pc, setpoint, rpc["offboard"], px4_mode, px4_setpoint>>
    BY <1>4, OthersLeaveOffboard DEF Next, EnterInv
  <2> QED BY <1>1, <2>1 DEF EnterInv
<1> QED BY <1>2, <1>3, <1>4

LEMMA EntersHolding ==
  ASSUME EnterInv, [Next]_vars
  PROVE  [px4_mode' = "OFFBOARD" /\ px4_mode # "OFFBOARD"
            => px4_setpoint.forward = 0]_vars
<1> SUFFICES ASSUME Next, px4_mode' = "OFFBOARD", px4_mode # "OFFBOARD"
             PROVE  px4_setpoint.forward = 0
  OBVIOUS
<1>1. ~OffboardLoop
  BY DEF OffboardLoop, PauseForAction, ExecutorDisabled, PrimeOffboard,
    HoldWhileUnsafe, UsePrimeHold, FollowCommand, OffboardPreset, OffboardStarted,
    OffboardSent, OffboardStopped, OffboardAsleep, OffboardResumes, px4
<1>2. \E l \in Loops : PX4Serves(l)
  BY <1>1, OthersLeaveOffboard DEF Next, EnterInv
<1>3. PX4Serves("offboard")
  BY <1>2, ActionCallsKeep DEF Loops, EnterInv
<1>4. rpc["offboard"].call = "start"
  <2>1. rpc["offboard"].call # "OFFBOARD"
    BY DEF EnterInv, CallTypes, Loops, Call, ActionCall, Action
  <2> QED BY <1>3, <2>1 DEF PX4Serves, TakeEffect, px4, Mode
<1> QED BY <1>4 DEF EnterInv

\* When PX4 enters Offboard it holds a position or zero velocity, whatever an
\* earlier session left behind, whichever call or answer is lost and wherever a
\* callback runs.
THEOREM EntersHoldingAlways == Spec => EntersOffboardHolding
<1>1. Init => EnterInv
  BY EnterInvInit DEF Init
<1> QED BY <1>1, EnterInvNext, EntersHolding, PTL
        DEF Spec, EntersOffboardHolding

------------------------------------------------------------------------------
(* What the bridge knows, when no call is lost and no callback runs in the *)
(* middle of a step.                                                       *)

KnowInv ==
  /\ EnterInv
  /\ BridgeKnowsOffboard
  /\ \A l \in Loops : rpc[l].status = "failed" => rpc[l].call = "start"
  /\ offboard_pc \in {"priming", "holding"} => prime_hold # {}
  /\ offboard_pc \in {"presetting", "starting"} => ~offboard_active
  /\ offboard_pc = "starting" /\ rpc["offboard"].status # "ok" => px4_mode # "OFFBOARD"
  /\ offboard_pc = "sending" => rpc["offboard"].call = "set"
  /\ offboard_pc = "stopping" =>
       /\ rpc["offboard"].call = "stop"
       /\ rpc["offboard"].status = "ok" => px4_mode # "OFFBOARD"
  /\ action_pc = "stopping" =>
       /\ action_in_progress
       /\ offboard_pc \notin {"priming", "holding", "presetting", "starting"}
       /\ rpc["action"].call = "stop"
       /\ rpc["action"].status = "ok" => px4_mode # "OFFBOARD"

LEMMA KnowInvInit ==
  ASSUME NEW v, NEW f, InitWith(v, f)
  PROVE  KnowInv
BY EnterInvInit DEF InitWith, NoCall, Loops, KnowInv, BridgeKnowsOffboard

LEMMA KnowInvOffboardLoop ==
  ASSUME KnowInv, EnterInv', OffboardLoop
  PROVE  KnowInv'
<1> DEFINE Rest == UNCHANGED <<action_pc, action_in_progress, px4_mode, rpc["action"]>>
<1>1. Rest
  BY DEF OffboardLoop, PauseForAction, ExecutorDisabled, PrimeOffboard,
    HoldWhileUnsafe, UsePrimeHold, FollowCommand, OffboardPreset, OffboardStarted,
    OffboardSent, OffboardStopped, OffboardAsleep, OffboardResumes, px4, action_loop,
    offboard_loop, StopAndSleep, SendSetpoint, SetBeforeStart, Issue, AwaitsNothing,
    KnowInv, EnterInv, CallTypes, Loops
<1>2. \A c : Issue("offboard", c) =>
              rpc'["offboard"].call = c /\ rpc'["offboard"].status = "pending"
  BY DEF KnowInv, EnterInv, CallTypes, Loops, Issue
<1>3. AwaitsNothing("offboard") => rpc'["offboard"].status = "none"
  BY DEF KnowInv, EnterInv, CallTypes, Loops, AwaitsNothing, NoCall
<1>4. ASSUME UNCHANGED <<rpc, offboard_active>>, offboard_pc = "idle",
             \/ offboard_pc' = "idle"
             \/ /\ offboard_pc' \in {"priming", "holding"}
                /\ prime_hold' # {} /\ ~action_in_progress
      PROVE  KnowInv'
  BY <1>1, <1>4 DEF KnowInv, BridgeKnowsOffboard
<1>5. ASSUME UNCHANGED offboard_active, offboard_pc = "idle", StopAndSleep
      PROVE  KnowInv'
  BY <1>1, <1>2, <1>5 DEF StopAndSleep, KnowInv, BridgeKnowsOffboard, Loops
<1>6. ASSUME NEW s, SendSetpoint(s), offboard_active'
      PROVE  KnowInv'
  BY <1>1, <1>2, <1>6 DEF SendSetpoint, KnowInv, BridgeKnowsOffboard, Loops
<1>7. ASSUME NEW s, SetBeforeStart(s), ~offboard_active, ~offboard_active',
             offboard_pc # "starting", action_pc # "stopping"
      PROVE  KnowInv'
  BY <1>1, <1>2, <1>7 DEF SetBeforeStart, KnowInv, BridgeKnowsOffboard, Loops
<1>8. ASSUME AwaitsNothing("offboard"), offboard_pc' = "idle",
             px4_mode = "OFFBOARD" => offboard_active'
      PROVE  KnowInv'
  BY <1>1, <1>3, <1>8 DEF KnowInv, BridgeKnowsOffboard, Loops
<1>9. ~action_in_progress => action_pc # "stopping"
  BY DEF KnowInv
<1>10. CASE PauseForAction
  BY <1>5, <1>10 DEF PauseForAction, OffboardAsleep
<1>11. CASE ExecutorDisabled
  BY <1>4, <1>5, <1>11 DEF ExecutorDisabled, OffboardAsleep
<1>12. CASE PrimeOffboard
  BY <1>4, <1>5, <1>12 DEF PrimeOffboard, OffboardAsleep, CapturePrime
<1>13. CASE HoldWhileUnsafe
  BY <1>4, <1>6, <1>13
  DEF HoldWhileUnsafe, OffboardAsleep, CapturePrime, offboard_loop
<1>14. CASE UsePrimeHold
  <2>1. prime_hold # {} /\ action_pc # "stopping"
    BY <1>14 DEF UsePrimeHold, KnowInv
  <2>2. CASE offboard_active
    BY <1>6, <1>14, <2>1, <2>2 DEF UsePrimeHold
  <2>3. CASE ~offboard_active /\ offboard_pc = "holding"
    <3>1. PICK p \in prime_hold : SendSetpoint(HoldAt(p))
      BY <1>14, <2>1, <2>3 DEF UsePrimeHold
    <3>2. px4_mode # "OFFBOARD" /\ offboard_active' = offboard_active
      BY <1>14, <2>1, <2>3 DEF UsePrimeHold, KnowInv, BridgeKnowsOffboard
    <3> QED BY <1>1, <1>2, <2>1, <2>3, <3>1, <3>2
            DEF SendSetpoint, KnowInv, BridgeKnowsOffboard, Loops
  <2>4. CASE ~offboard_active /\ offboard_pc = "priming"
    BY <1>7, <1>14, <2>1, <2>4 DEF UsePrimeHold
  <2> QED BY <1>14, <2>2, <2>3, <2>4 DEF UsePrimeHold
<1>15. CASE FollowCommand
  BY <1>6, <1>7, <1>9, <1>15 DEF FollowCommand, OffboardAsleep
<1>16. CASE OffboardPreset
  <2>1. ~offboard_active /\ action_pc # "stopping" /\ px4_mode # "OFFBOARD"
    BY <1>16 DEF OffboardPreset, OffboardResumes, KnowInv, BridgeKnowsOffboard
  <2>2. CASE Succeeded("offboard")
    BY <1>1, <1>2, <1>16, <2>1, <2>2
    DEF OffboardPreset, KnowInv, BridgeKnowsOffboard, Loops
  <2>3. CASE ~Succeeded("offboard")
    BY <1>8, <1>16, <2>1, <2>3 DEF OffboardPreset
  <2> QED BY <2>2, <2>3
<1>17. CASE OffboardStarted
  <2>1. CASE Succeeded("offboard")
    BY <1>6, <1>17, <2>1 DEF OffboardStarted
  <2>2. CASE ~Succeeded("offboard")
    BY <1>8, <1>17, <2>2 DEF OffboardStarted, OffboardResumes, Succeeded, KnowInv
  <2> QED BY <2>1, <2>2
<1>18. CASE OffboardSent
  <2>1. Succeeded("offboard")
    BY <1>18 DEF OffboardSent, OffboardResumes, Answered, Succeeded, KnowInv, Loops
  <2> QED BY <1>8, <1>18, <2>1
          DEF OffboardSent, OffboardResumes, KnowInv, BridgeKnowsOffboard
<1>19. CASE OffboardStopped
  <2>1. Succeeded("offboard")
    BY <1>19
    DEF OffboardStopped, OffboardResumes, Answered, Succeeded, KnowInv, Loops
  <2> QED BY <1>8, <1>19, <2>1
          DEF OffboardStopped, OffboardResumes, Succeeded, KnowInv
<1> QED BY <1>10, <1>11, <1>12, <1>13, <1>14, <1>15, <1>16, <1>17, <1>18, <1>19
        DEF OffboardLoop

LEMMA KnowInvActionLoop ==
  ASSUME KnowInv, EnterInv', ActionLoop
  PROVE  KnowInv'
<1>1. UNCHANGED <<offboard_pc, px4_mode, rpc["offboard"]>>
  BY OthersLeaveOffboard DEF KnowInv, EnterInv
<1>2. \A c : Issue("action", c) =>
              rpc'["action"].call = c /\ rpc'["action"].status = "pending"
  BY DEF KnowInv, EnterInv, CallTypes, Loops, Issue
<1>3. AwaitsNothing("action") => rpc'["action"].status = "none"
  BY DEF KnowInv, EnterInv, CallTypes, Loops, AwaitsNothing, NoCall
<1>4. CASE TakeAction
  <2>1. UNCHANGED <<offboard_active, prime_hold>>
    BY <1>4 DEF TakeAction
  <2>2. CASE ~ActionAccepted
    BY <1>1, <1>4, <2>1, <2>2 DEF TakeAction, KnowInv, BridgeKnowsOffboard
  <2>3. CASE ActionAccepted
    BY <1>1, <1>2, <1>4, <2>1, <2>3
    DEF TakeAction, LoopFree, KnowInv, BridgeKnowsOffboard, Loops
  <2> QED BY <2>2, <2>3
<1>5. CASE ActionStopped
  <2>1. Succeeded("action")
    BY <1>5 DEF ActionStopped, ActionResumes, Answered, Succeeded, KnowInv, Loops
  <2>2. px4_mode # "OFFBOARD"
    BY <1>5, <2>1 DEF ActionStopped, ActionResumes, Succeeded, KnowInv
  <2> QED BY <1>1, <1>2, <1>5, <2>2
          DEF ActionStopped, ActionResumes, Stopped, LoopFree, KnowInv,
              BridgeKnowsOffboard, Loops
<1>6. CASE ActionAltitudeSet
  BY <1>1, <1>2, <1>6
  DEF ActionAltitudeSet, ActionResumes, KnowInv, BridgeKnowsOffboard, Loops
<1>7. CASE ActionExecuted
  BY <1>1, <1>3, <1>7
  DEF ActionExecuted, ActionResumes, KnowInv, BridgeKnowsOffboard, Loops
<1> QED BY <1>4, <1>5, <1>6, <1>7 DEF ActionLoop

\* What a call does to the mode.
LEMMA ModeAfterCall ==
  ASSUME CallTypes, NEW l \in Loops, PX4Serves(l)
  PROVE  /\ rpc[l].call # "start" /\ px4_mode' = "OFFBOARD" => px4_mode = "OFFBOARD"
         /\ rpc[l].call = "stop" /\ rpc'[l].status = "ok" => px4_mode' # "OFFBOARD"
         /\ \A k \in Loops : k # l => rpc'[k] = rpc[k]
         /\ rpc[l].status = "pending" /\ rpc'[l].call = rpc[l].call
         /\ rpc'[l].status = "failed" => rpc[l].call = "start" \/ LinkFaults
<1>1. rpc[l].call # "OFFBOARD"
  BY DEF CallTypes, Call, ActionCall, Action
<1>2. /\ \A k \in Loops : k # l => rpc'[k] = rpc[k]
      /\ rpc[l].status = "pending" /\ rpc'[l].call = rpc[l].call
      /\ rpc'[l].status = "failed" => rpc[l].call = "start" \/ LinkFaults
      /\ rpc'[l].status = "ok" => TakeEffect(rpc[l].call)
  BY DEF PX4Serves, Answer, CallTypes
<1>3. TakeEffect(rpc[l].call) \/ UNCHANGED px4
  BY DEF PX4Serves
<1> QED BY <1>1, <1>2, <1>3 DEF TakeEffect, px4, Mode

LEMMA KnowInvServes ==
  ASSUME KnowInv, EnterInv', LinkFaults = FALSE, NEW l \in Loops, PX4Serves(l)
  PROVE  KnowInv'
<1>1. UNCHANGED <<offboard_pc, action_pc, action_in_progress, offboard_active, prime_hold>>
  BY DEF PX4Serves, offboard_loop, action_loop
<1>2. CallTypes
  BY DEF KnowInv, EnterInv
<1>3. \A k \in Loops : rpc'[k].status = "failed" => rpc'[k].call = "start"
  BY <1>2, ModeAfterCall DEF KnowInv
<1>4. CASE l = "action"
  <2>1. rpc["action"].call # "start"
    BY <1>2 DEF CallTypes, ActionCall, Action
  <2> QED BY <1>1, <1>2, <1>3, <1>4, <2>1, ModeAfterCall
          DEF KnowInv, BridgeKnowsOffboard, Loops
<1>5. CASE l = "offboard"
  <2>1. CASE offboard_pc = "starting"
    <3>1. /\ rpc["offboard"].call = "start" /\ px4_mode # "OFFBOARD"
          /\ action_pc # "stopping"
      BY <1>2, <1>5, <2>1, ModeAfterCall DEF KnowInv, EnterInv
    <3>2. rpc'["offboard"].status # "ok" => px4_mode' = px4_mode
      BY <1>2, <1>5, <3>1 DEF PX4Serves, Answer, CallTypes, px4
    <3> QED BY <1>1, <1>3, <2>1, <3>1, <3>2 DEF KnowInv, BridgeKnowsOffboard
  <2>2. CASE offboard_pc # "starting"
    <3>1. rpc["offboard"].call # "start"
      BY <2>2 DEF KnowInv, EnterInv
    <3> QED BY <1>1, <1>2, <1>3, <1>5, <2>2, <3>1, ModeAfterCall
            DEF KnowInv, BridgeKnowsOffboard, Loops
  <2> QED BY <2>1, <2>2
<1> QED BY <1>4, <1>5 DEF Loops

LEMMA KnowInvNext ==
  ASSUME KnowInv, LinkFaults = FALSE, Preemption = FALSE, [Next]_vars
  PROVE  KnowInv'
<1>1. EnterInv'
  BY EnterInvNext DEF KnowInv
<1>2. CASE Callback
  <2>1. LoopFree
    BY <1>2 DEF Callback, ControlCommandCallback, OffboardEnableCallback,
      ActionCommandCallback, CallbackRuns
  <2> QED BY <1>1, <1>2, <2>1
    DEF Callback, ControlCommandCallback, OffboardEnableCallback, ActionCommandCallback,
        LoopFree, offboard_loop, action_loop, px4, KnowInv, BridgeKnowsOffboard
<1>3. CASE \/ \E s \in Stream, v \in VehicleInputs : StreamReports(s, v)
           \/ ConnectionLost \/ ConnectionRecovered \/ TimesOut
           \/ UNCHANGED vars
  <2>1. UNCHANGED <<offboard_active, prime_hold, offboard_pc, action_pc,
                    action_in_progress, rpc, px4_mode>>
    BY <1>3 DEF StreamReports, ConnectionLost, ConnectionRecovered, TimesOut, vars,
      offboard_loop, action_loop, px4
  <2> QED BY <1>1, <2>1 DEF KnowInv, BridgeKnowsOffboard
<1> QED BY <1>1, <1>2, <1>3, KnowInvOffboardLoop, KnowInvActionLoop, KnowInvServes
        DEF Next

\* When no call or answer is lost and callbacks run only while the coroutines wait,
\* PX4 is in Offboard only when the bridge knows it or is about to learn it, however
\* the awaits of the two coroutines interleave.
THEOREM KnowsWithoutLoss ==
  ASSUME LinkFaults = FALSE, Preemption = FALSE
  PROVE  Spec => []BridgeKnowsOffboard
<1>1. KnowInv => BridgeKnowsOffboard
  BY DEF KnowInv
<1>2. KnowInv /\ [Next]_vars => KnowInv'
  BY KnowInvNext
<1>3. Init => KnowInv
  BY KnowInvInit DEF Init
<1> QED BY <1>1, <1>2, <1>3, PTL DEF Spec

------------------------------------------------------------------------------
(* The Offboard loop survives as long as no callback comes between the     *)
(* test of the prime hold and its use, whatever is lost on the way to PX4. *)

\* What was tested is still there when it is used.
PrimeHoldInv == offboard_pc # "dead" /\ (~LoopFree => prime_hold # {})

LEMMA PrimeHoldInvLoop ==
  ASSUME PrimeHoldInv, OffboardLoop
  PROVE  PrimeHoldInv'
<1>1. CASE PauseForAction \/ ExecutorDisabled \/ FollowCommand
  BY <1>1
  DEF PauseForAction, ExecutorDisabled, FollowCommand, OffboardAsleep, StopAndSleep,
      SendSetpoint, SetBeforeStart, PrimeHoldInv, LoopFree
<1>2. CASE PrimeOffboard \/ HoldWhileUnsafe
  BY <1>2
  DEF PrimeOffboard, HoldWhileUnsafe, OffboardAsleep, StopAndSleep, SendSetpoint,
      CapturePrime, offboard_loop, PrimeHoldInv, LoopFree
<1>3. CASE UsePrimeHold
  BY <1>3 DEF UsePrimeHold, SendSetpoint, SetBeforeStart, PrimeHoldInv, LoopFree
<1>4. CASE OffboardPreset \/ OffboardStarted \/ OffboardSent \/ OffboardStopped
  BY <1>4
  DEF OffboardPreset, OffboardStarted, OffboardSent, OffboardStopped,
      OffboardResumes, SendSetpoint, PrimeHoldInv, LoopFree
<1> QED BY <1>1, <1>2, <1>3, <1>4 DEF OffboardLoop

LEMMA PrimeHoldInvNext ==
  ASSUME Preemption = FALSE, PrimeHoldInv, [Next]_vars
  PROVE  PrimeHoldInv'
<1>1. CASE OffboardLoop
  BY <1>1, PrimeHoldInvLoop
<1>2. ASSUME offboard_pc' = offboard_pc, LoopFree
      PROVE  PrimeHoldInv'
  BY <1>2 DEF PrimeHoldInv, LoopFree
<1>3. ASSUME offboard_pc' = offboard_pc, prime_hold' = prime_hold
      PROVE  PrimeHoldInv'
  BY <1>3 DEF PrimeHoldInv, LoopFree
<1>4. CASE ActionLoop
  BY <1>2, <1>4
  DEF ActionLoop, TakeAction, ActionStopped, ActionAltitudeSet, ActionExecuted,
      ActionResumes, offboard_loop
<1>5. CASE Callback
  BY <1>2, <1>5
  DEF Callback, ControlCommandCallback, OffboardEnableCallback, ActionCommandCallback,
      CallbackRuns, offboard_loop
<1>6. CASE \E l \in Loops : PX4Serves(l)
  BY <1>3, <1>6 DEF PX4Serves, offboard_loop
<1>7. CASE ConnectionLost \/ ConnectionRecovered
  BY <1>2, <1>7 DEF ConnectionLost, ConnectionRecovered, offboard_loop
<1>8. CASE TimesOut \/ \E s \in Stream, v \in VehicleInputs : StreamReports(s, v)
  BY <1>3, <1>8 DEF TimesOut, StreamReports, offboard_loop
<1>9. CASE UNCHANGED vars
  BY <1>3, <1>9 DEF vars, offboard_loop
<1> QED BY <1>1, <1>4, <1>5, <1>6, <1>7, <1>8, <1>9 DEF Next

\* The exception that ends the Offboard loop needs the second thread between two
\* reads: without it the loop outlives every refused call, lost answer and lost
\* connection, and every order of the awaits.
THEOREM OffboardLoopSurvives ==
  ASSUME Preemption = FALSE
  PROVE  Spec => [](offboard_pc # "dead")
<1>1. Init => PrimeHoldInv
  BY DEF Init, InitWith, PrimeHoldInv, LoopFree
<1>2. PrimeHoldInv /\ [Next]_vars => PrimeHoldInv'
  BY PrimeHoldInvNext
<1>3. PrimeHoldInv => offboard_pc # "dead"
  BY DEF PrimeHoldInv
<1> QED BY <1>1, <1>2, <1>3, PTL DEF Spec
==============================================================================
