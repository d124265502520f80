--------------------------- MODULE BridgeRunProofs ---------------------------
(***************************************************************************)
(* Of the three parts the bridge is checked in: what the bridge knows when *)
(* nothing is lost, what is done about each action it receives, and what a *)
(* loss of the connection takes before the bridge believes it, after one   *)
(* failure and after any number.                                           *)
(***************************************************************************)
EXTENDS MCBridge, BridgeProofs

------------------------------------------------------------------------------
(* The part whose link is reliable.                                        *)

\* KnowsWithoutLoss of the part the run checks it in.
THEOREM ReliablePartKnows ==
  ASSUME LinkFaults = FALSE, Preemption = FALSE
  PROVE  PartSpec => []KnowsOffboard
<1> DEFINE PartInv == part = "reliable" => KnowInv
<1>1. PartInit => PartInv
  BY KnowInvInit DEF PartInit, FlyingInit
<1>2. PartInv /\ [PartNext]_<<part, vars, history, sessions>> => PartInv'
  <2> SUFFICES ASSUME PartInv, [PartNext]_<<part, vars, history, sessions>>,
                      part' = "reliable"
               PROVE  KnowInv'
    OBVIOUS
  <2>1. HNext => Next
    BY DEF HNext, HReceive, Others, Next, Callback
  <2>2. part = "reliable" /\ [Next]_vars
    BY <2>1 DEF PartNext, ReliableStep
  <2> QED BY <2>2, KnowInvNext
<1>3. PartInv => KnowsOffboard
  BY DEF KnowInv, KnowsOffboard
<1> HIDE DEF PartInv
<1> QED BY <1>1, <1>2, <1>3, PTL DEF PartSpec

------------------------------------------------------------------------------
(* What is done about an action.                                           *)

ActionInv ==
  /\ CallTypes
  /\ executions \in {0, 1}
  /\ ~taken => executions = 0
  /\ taken => action_handled /\ allowed
  /\ action_pc = "idle" => rpc["action"].call = "none"
  /\ rpc["action"].call = "set_takeoff_altitude" => command.action = "TAKEOFF"
  /\ taken /\ action_pc = "stopping" => executions = 0 /\ rpc["action"].call = "stop"
  /\ taken /\ action_pc = "executing" =>
       \/ rpc["action"].call = "set_takeoff_altitude" /\ executions = 0
       \/ rpc["action"].call = command.action

\* The action loop is the only one that asks PX4 for an action.
LEMMA OthersLeaveAction ==
  ASSUME CallTypes, Others, ~ActionLoop
  PROVE  /\ UNCHANGED <<action_pc, command, action_handled, latest_action>>
         /\ rpc'["action"].call = rpc["action"].call
<1>1. CASE OffboardLoop
  <2>1. rpc'["action"] = rpc["action"]
    BY <1>1 DEF OffboardLoop, PauseForAction, ExecutorDisabled, PrimeOffboard,
      HoldWhileUnsafe, UsePrimeHold, FollowCommand, OffboardPreset, OffboardStarted,
      OffboardSent, OffboardStopped, StopAndSleep, SendSetpoint, SetBeforeStart,
      Issue, AwaitsNothing, offboard_loop, CallTypes, Loops
  <2>2. UNCHANGED <<action_loop, received>>
    BY <1>1 DEF OffboardLoop, PauseForAction, ExecutorDisabled, PrimeOffboard,
      HoldWhileUnsafe, UsePrimeHold, FollowCommand, OffboardPreset, OffboardStarted,
      OffboardSent, OffboardStopped, OffboardAsleep, OffboardResumes
  <2> QED BY <2>1, <2>2 DEF action_loop, received
<1>2. CASE \E l \in Loops : PX4Serves(l)
  BY <1>2 DEF PX4Serves, Answer, action_loop, received, CallTypes, Loops
<1>3. CASE \/ \E msg \in ControlInputs : ControlCommandCallback(msg)
           \/ \E enabled \in BOOLEAN : OffboardEnableCallback(enabled)
           \/ \E s \in Stream, v \in VehicleInputs : StreamReports(s, v)
           \/ ConnectionLost \/ ConnectionRecovered \/ TimesOut
  BY <1>3 DEF ControlCommandCallback, OffboardEnableCallback, StreamReports,
    ConnectionLost, ConnectionRecovered, TimesOut, action_loop, received
<1> QED BY <1>1, <1>2, <1>3 DEF Others

LEMMA ActionInvInit == Init /\ NothingReceived => ActionInv
<1>1. Init => CallTypes
  BY CallTypesInit DEF Init
<1> QED BY <1>1
        DEF Init, InitWith, NothingReceived, NoCall, Loops, NewAction, ActionInv

LEMMA ActionInvLoop ==
  ASSUME ActionInv, CallTypes', ActionLoop, Observe
  PROVE  ActionInv'
<1>1. \A c : Issue("action", c) => rpc'["action"].call = c
  BY DEF ActionInv, CallTypes, Loops, Issue
<1>2. /\ command.action \in Action /\ command'.action \in Action
      /\ latest_action.action \in Action
      /\ {"none", "stop", "set_takeoff_altitude"} \cap Action = {}
  BY DEF ActionInv, CallTypes, Action
<1>3. CASE TakeAction
  <2>1. /\ ~taken /\ executions = 0 /\ action_handled' /\ command' = latest_action
    BY <1>3 DEF TakeAction, ActionInv
  <2>2. CASE ~ActionAccepted
    <3>1. UNCHANGED <<action_pc, rpc>> /\ action_pc = "idle"
      BY <1>3, <2>2 DEF TakeAction
    <3>2. ~taken' /\ executions' = 0
      BY <2>1, <3>1 DEF Observe
    <3>3. rpc'["action"].call = "none"
      BY <3>1 DEF ActionInv
    <3> QED BY <2>1, <3>1, <3>2, <3>3 DEF ActionInv
  <2>3. CASE ActionAccepted
    <3>1. taken' /\ action_pc = "idle" /\ action_pc' \in {"stopping", "executing"}
      BY <1>3, <2>3 DEF TakeAction, Observe
    <3>2. PolicyAllows'
      BY <1>3, <2>3
      DEF TakeAction, ActionAccepted, PolicyAllows, ActionPolicyAllows,
        Airborne, received, stream_data
    <3>3. allowed'
      BY <3>2 DEF Observe
    <3>4. CASE action_pc' = "stopping"
      <4>1. rpc'["action"].call = "stop"
        BY <1>1, <1>3, <2>3, <3>4 DEF TakeAction
      <4>2. executions' = 0
        BY <1>2, <2>1, <4>1 DEF Observe, Executes
      <4> QED BY <2>1, <3>1, <3>3, <3>4, <4>1, <4>2 DEF ActionInv
    <3>5. CASE action_pc' = "executing"
      <4>1. rpc'["action"].call = FirstCall(command'.action)
        BY <1>1, <1>3, <2>1, <2>3, <3>5 DEF TakeAction
      <4>2. CASE command'.action = "TAKEOFF"
        <5>1. rpc'["action"].call = "set_takeoff_altitude"
          BY <4>1, <4>2 DEF FirstCall
        <5>2. executions' = 0
          BY <1>2, <2>1, <5>1 DEF Observe, Executes
        <5> QED BY <2>1, <3>1, <3>3, <3>5, <4>2, <5>1, <5>2 DEF ActionInv
      <4>3. CASE command'.action # "TAKEOFF"
        <5>1. rpc'["action"].call = command'.action
          BY <4>1, <4>3 DEF FirstCall
        <5>2. executions' \in {0, 1}
          BY <2>1 DEF Observe
        <5> QED BY <1>2, <2>1, <3>1, <3>3, <3>5, <5>1, <5>2 DEF ActionInv
      <4> QED BY <4>2, <4>3
    <3> QED BY <3>1, <3>4, <3>5
  <2> QED BY <2>2, <2>3
<1>4. ASSUME action_pc # "idle", UNCHANGED <<command, action_handled>>
      PROVE  /\ taken' <=> taken
             /\ taken => action_handled' /\ allowed'
             /\ ~taken => executions' = 0
             /\ executions' = executions \/ executions' = executions + 1
  <2>1. taken' <=> taken
    BY <1>4 DEF Observe, ActionInv
  <2>2. executions' = IF taken' /\ Executes THEN executions + 1 ELSE executions
    BY DEF Observe
  <2> QED BY <1>4, <2>1, <2>2 DEF Observe, ActionInv
<1>5. CASE ActionStopped
  <2>1. /\ action_pc = "stopping" /\ action_pc' = "executing"
        /\ UNCHANGED <<command, action_handled>>
        /\ rpc'["action"].call = FirstCall(command.action)
    BY <1>1, <1>5 DEF ActionStopped, ActionResumes
  <2>2. executions = 0
    BY <2>1 DEF ActionInv
  <2>3. CASE command.action = "TAKEOFF"
    <3>1. rpc'["action"].call = "set_takeoff_altitude"
      BY <2>1, <2>3 DEF FirstCall
    <3>2. executions' = 0
      BY <1>2, <2>1, <2>2, <3>1 DEF Observe, Executes
    <3> QED BY <1>4, <2>1, <2>3, <3>1, <3>2 DEF ActionInv
  <2>4. CASE command.action # "TAKEOFF"
    <3>1. rpc'["action"].call = command'.action
      BY <2>1, <2>4 DEF FirstCall
    <3> QED BY <1>2, <1>4, <2>1, <2>2, <3>1 DEF ActionInv
  <2> QED BY <2>3, <2>4
<1>6. CASE ActionAltitudeSet
  <2>1. /\ action_pc = "executing" /\ action_pc' = "executing"
        /\ UNCHANGED <<command, action_handled>>
        /\ rpc["action"].call = "set_takeoff_altitude"
        /\ rpc'["action"].call = "TAKEOFF"
    BY <1>1, <1>6 DEF ActionAltitudeSet, ActionResumes
  <2>2. command.action = "TAKEOFF" /\ executions = 0
    BY <1>2, <2>1 DEF ActionInv
  <2> QED BY <1>4, <2>1, <2>2 DEF ActionInv
<1>7. CASE ActionExecuted
  <2>1. /\ action_pc = "executing" /\ action_pc' = "idle"
        /\ UNCHANGED <<command, action_handled>>
        /\ rpc'["action"].call = "none"
    BY <1>7 DEF ActionExecuted, ActionResumes, AwaitsNothing, NoCall, ActionInv,
      CallTypes, Loops
  <2>2. executions' = executions
    BY <1>2, <2>1 DEF Observe, Executes
  <2> QED BY <1>4, <2>1, <2>2 DEF ActionInv
<1> QED BY <1>3, <1>5, <1>6, <1>7 DEF ActionLoop

LEMMA ActionInvNext ==
  ASSUME ActionInv, [HNext]_<<vars, history>>
  PROVE  ActionInv'
<1>1. CASE HReceive
  <2>1. Callback
    BY <1>1 DEF HReceive, Callback
  <2>2. CallTypes'
    BY <2>1, CallTypesNext DEF Next, ActionInv
  <2>3. UNCHANGED <<action_pc, command, rpc>> /\ ~taken' /\ executions' = 0
    BY <1>1 DEF HReceive, ActionCommandCallback
  <2> QED BY <2>2, <2>3 DEF ActionInv
<1>2. CASE Others /\ Observe
  <2>1. CallTypes'
    BY <1>2, CallTypesNext DEF Others, Callback, Next, ActionInv
  <2>2. CASE ActionLoop
    BY <1>2, <2>1, <2>2, ActionInvLoop
  <2>3. CASE ~ActionLoop
    <3>1. /\ UNCHANGED <<action_pc, command, action_handled>>
          /\ rpc'["action"].call = rpc["action"].call
      BY <1>2, <2>3, OthersLeaveAction DEF ActionInv
    <3>2. command.action # "none"
      BY DEF ActionInv, CallTypes, Action
    <3>3. ~Executes
      BY <3>1, <3>2 DEF Executes, ActionInv
    <3>4. (taken' <=> taken) /\ executions' = executions /\ (allowed => allowed')
      BY <1>2, <3>1, <3>3 DEF Observe
    <3> QED BY <2>1, <3>1, <3>4 DEF ActionInv
  <2> QED BY <2>2, <2>3
<1>3. CASE UNCHANGED <<vars, history>>
  <2>1. CallTypes'
    BY <1>3, CallTypesNext DEF ActionInv
  <2> QED BY <1>3, <2>1 DEF vars, history, action_loop, ActionInv
<1> QED BY <1>1, <1>2, <1>3 DEF HNext

\* Whatever is lost, wherever a callback runs and whatever the Offboard loop does
\* meanwhile, what the action loop asks PX4 for is an action received that its policy
\* allowed since, and it asks for it once.
THEOREM ActionOnce == HSpec => []ActionOnceUnderPolicy
<1>1. ActionInv => ActionOnceUnderPolicy
  BY DEF ActionInv, ActionOnceUnderPolicy
<1>2. ActionInv /\ [HNext]_<<vars, history>> => ActionInv'
  BY ActionInvNext
<1> QED BY <1>1, <1>2, ActionInvInit, PTL DEF HSpec
------------------------------------------------------------------------------
(* The sessions.  A grace timer that runs is that of a watcher which was   *)
(* told of the loss and has not been told of a recovery; or it lingers,    *)
(* after its server died, while the node sleeps and nothing else can hear  *)
(* PX4.  It runs out before the node connects again.                       *)

\* One failure, and the timers in the order they have in the code: a grace period
\* shorter than the wait before a reconnection, and no longer than the time-out.
OneFailureShortGrace ==
  /\ {Grace, ReconnectInterval, ConnectionTimeout} \subseteq Nat
  /\ MaxSessions \in Nat \ {0}
  /\ Grace < ReconnectInterval /\ Grace <= ConnectionTimeout
  /\ MaxFailures = 1

TimesLoss(s, t) ==
  /\ "watch" \in coroutines[s] /\ ~seen[s] /\ t <= down_for
  /\ s \in server \/ (main = "streaming" /\ s = session)
Lingers(t) == main = "sleeping" /\ ~session_connected /\ server = {} /\ waited <= t

SessionTypes ==
  /\ session \in Sessions!Session
  /\ waited \in Nat /\ down_for \in Nat /\ failures \in {0, 1}
  /\ main \in {"connecting", "streaming", "sleeping"}
  /\ grace_timer \in [Sessions!Session -> SUBSET Nat]
  /\ coroutines \in [Sessions!Session -> SUBSET Sessions!Coroutine]
  /\ seen \in [Sessions!Session -> BOOLEAN] /\ link \in BOOLEAN

FirstSession ==
  failures = 0 =>
    /\ session = 1 /\ server = {1}
    /\ coroutines[1] # {} => main = "streaming"
    /\ session_connected => main = "streaming"

SessionInv ==
  /\ SessionTypes
  /\ FirstSession
  /\ \A s \in Sessions!Session : s > session => coroutines[s] = {}
  /\ main # "sleeping" /\ session \notin server => server = {}
  /\ main = "connecting" =>
       /\ waited <= down_for \/ Grace <= down_for
       /\ session \notin server => ~session_connected
  /\ \A s \in Sessions!Session : \A t \in grace_timer[s] :
       t <= Grace /\ (TimesLoss(s, t) \/ Lingers(t))

LEMMA SessionTypesNext ==
  ASSUME OneFailureShortGrace, SessionTypes, Sessions!Next
  PROVE  SessionTypes'
<1> USE DEF SessionTypes, OneFailureShortGrace, Sessions!Session,
            Sessions!connection, Sessions!watching, Sessions!acting
<1>1. CASE Sessions!Connect
  BY <1>1 DEF Sessions!Connect
<1>2. CASE Sessions!ConnectRaises \/ Sessions!ConnectTimesOut
  BY <1>2 DEF Sessions!ConnectRaises, Sessions!ConnectTimesOut, Sessions!Sleep
<1>3. CASE Sessions!Reconnect
  BY <1>3 DEF Sessions!Reconnect
<1>4. CASE \E s \in Sessions!Session : Sessions!Watch(s)
  BY <1>4 DEF Sessions!Watch
<1>5. CASE \E s \in Sessions!Session : Sessions!GraceOver(s)
  BY <1>5 DEF Sessions!GraceOver
<1>6. CASE \E s \in Sessions!Session : \E c \in Sessions!Coroutine : Sessions!StreamRaises(s, c)
  BY <1>6 DEF Sessions!StreamRaises, Sessions!Raise, Sessions!Sleep
<1>7. CASE Sessions!LinkChanges \/ Sessions!ActionArrives
  <2>1. link' \in BOOLEAN
    BY <1>7 DEF Sessions!LinkChanges, Sessions!ActionArrives
  <2> QED BY <1>7, <2>1 DEF Sessions!LinkChanges, Sessions!ActionArrives
<1>8. CASE Sessions!Tick
  <2>1. waited' \in Nat /\ down_for' \in Nat
    BY <1>8 DEF Sessions!Tick, Sessions!Least
  <2>2. grace_timer' \in [Sessions!Session -> SUBSET Nat]
    BY <1>8 DEF Sessions!Tick
  <2> QED BY <1>8, <2>1, <2>2 DEF Sessions!Tick
<1>9. CASE \E s \in Sessions!Session : Sessions!ServerDies(s)
  BY <1>9 DEF Sessions!ServerDies
<1>10. CASE \E s \in Sessions!Session : Sessions!OffboardRaises(s)
  BY <1>10 DEF Sessions!OffboardRaises, Sessions!Raise, Sessions!Sleep
<1>11. CASE \E s \in Sessions!Session : Sessions!TakeAction(s) \/ Sessions!ActionEnds(s)
  BY <1>11 DEF Sessions!TakeAction, Sessions!ActionEnds
<1> QED BY <1>1, <1>2, <1>3, <1>4, <1>5, <1>6, <1>7, <1>8, <1>9, <1>10, <1>11
        DEF Sessions!Next, Sessions!Prompt
LEMMA SessionInvInit ==
  ASSUME OneFailureShortGrace, Sessions!Init
  PROVE  SessionInv
<1>1. SessionTypes
  BY DEF Sessions!Init, SessionTypes, OneFailureShortGrace, Sessions!Session
<1> QED BY <1>1
        DEF Sessions!Init, SessionInv, SessionTypes, FirstSession, Sessions!Session

LEMMA SessionInvQuiet ==
  ASSUME SessionInv, UNCHANGED sessions
  PROVE  SessionInv'
BY DEF SessionInv, SessionTypes, FirstSession, TimesLoss, Lingers, sessions,
       Sessions!Session, Sessions!Coroutine

LEMMA SessionInvConnect ==
  ASSUME OneFailureShortGrace, SessionInv, SessionTypes',
         Sessions!Connect \/ Sessions!ConnectRaises \/ Sessions!ConnectTimesOut
  PROVE  SessionInv'
<1> USE DEF SessionInv, SessionTypes, FirstSession, TimesLoss, Lingers,
            Sessions!connection, Sessions!watching, Sessions!acting,
            OneFailureShortGrace
<1>1. CASE Sessions!Connect
  <2>1. \A s \in Sessions!Session : "watch" \in coroutines[s] => "watch" \in coroutines'[s]
    BY <1>1 DEF Sessions!Connect, Sessions!Coroutine
  <2>2. \A s \in Sessions!Session : \A t \in grace_timer'[s] :
          t <= Grace /\ TimesLoss(s, t)'
    BY <1>1, <2>1 DEF Sessions!Connect
  <2>3. \A s \in Sessions!Session : s > session => coroutines'[s] = {}
    BY <1>1 DEF Sessions!Connect, Sessions!Session
  <2> QED BY <1>1, <2>2, <2>3 DEF Sessions!Connect
<1>2. CASE Sessions!ConnectRaises \/ Sessions!ConnectTimesOut
  BY <1>2 DEF Sessions!ConnectRaises, Sessions!ConnectTimesOut, Sessions!Sleep
<1> QED BY <1>1, <1>2

LEMMA SessionInvReconnect ==
  ASSUME OneFailureShortGrace, SessionInv, SessionTypes', Sessions!Reconnect
  PROVE  SessionInv'
<1> USE DEF SessionInv, SessionTypes, FirstSession, TimesLoss, Lingers,
            Sessions!connection, Sessions!watching, Sessions!acting,
            OneFailureShortGrace
<1>1. \A s \in Sessions!Session : \A t \in grace_timer[s] : ~Lingers(t)
  BY DEF Sessions!Reconnect, Sessions!SleptLongEnough
<1>2. coroutines[session'] = {}
  BY DEF Sessions!Reconnect, Sessions!Session
<1>3. \A s \in Sessions!Session : \A t \in grace_timer'[s] : t <= Grace /\ TimesLoss(s, t)'
  BY <1>1, <1>2 DEF Sessions!Reconnect
<1> QED BY <1>2, <1>3 DEF Sessions!Reconnect, Sessions!Session

LEMMA SessionInvWatch ==
  ASSUME OneFailureShortGrace, SessionInv, SessionTypes',
         NEW s \in Sessions!Session, Sessions!Watch(s) \/ Sessions!GraceOver(s)
  PROVE  SessionInv'
<1> USE DEF SessionInv, SessionTypes, FirstSession, TimesLoss, Lingers,
            Sessions!connection, Sessions!watching, Sessions!acting,
            OneFailureShortGrace
<1>1. CASE Sessions!Watch(s)
  BY <1>1 DEF Sessions!Watch, Sessions!Watches
<1>2. CASE Sessions!GraceOver(s)
  BY <1>2 DEF Sessions!GraceOver
<1> QED BY <1>1, <1>2

LEMMA SessionInvRaises ==
  ASSUME OneFailureShortGrace, SessionInv, SessionTypes',
         NEW s \in Sessions!Session,
         \/ Sessions!OffboardRaises(s) \/ Sessions!ServerDies(s)
         \/ \E c \in Sessions!Coroutine : Sessions!StreamRaises(s, c)
  PROVE  SessionInv'
<1> USE DEF SessionInv, SessionTypes, FirstSession, TimesLoss, Lingers,
            Sessions!connection, Sessions!watching, Sessions!acting,
            OneFailureShortGrace
<1>1. CASE Sessions!OffboardRaises(s)
  BY <1>1 DEF Sessions!OffboardRaises, Sessions!Raise, Sessions!Sleep
<1>2. CASE Sessions!ServerDies(s)
  BY <1>2 DEF Sessions!ServerDies
<1>3. CASE \E c \in Sessions!Coroutine : Sessions!StreamRaises(s, c)
  BY <1>3 DEF Sessions!StreamRaises, Sessions!Raise, Sessions!Sleep
<1> QED BY <1>1, <1>2, <1>3

LEMMA SessionInvTime ==
  ASSUME OneFailureShortGrace, SessionInv, SessionTypes',
         Sessions!LinkChanges \/ Sessions!Tick
  PROVE  SessionInv'
<1> USE DEF SessionInv, SessionTypes, FirstSession, TimesLoss, Lingers,
            Sessions!connection, Sessions!watching, Sessions!acting,
            OneFailureShortGrace
<1>1. CASE Sessions!LinkChanges
  <2>1. UNCHANGED <<main, waited, session, server, session_connected, coroutines,
                    seen, grace_timer, failures>>
    BY <1>1 DEF Sessions!LinkChanges
  <2>2. CASE link
    <3>1. main # "connecting"
      BY <1>1, <2>2 DEF Sessions!LinkChanges, Sessions!Told
    <3>2. \A s \in Sessions!Session : \A t \in grace_timer[s] : ~TimesLoss(s, t)
      BY <1>1, <2>2 DEF Sessions!LinkChanges, Sessions!Told, Sessions!Watches,
                        Sessions!Orphaned
    <3> QED BY <2>1, <3>1, <3>2
  <2>3. CASE ~link
    BY <1>1, <2>1, <2>3 DEF Sessions!LinkChanges
  <2> QED BY <2>2, <2>3
<1>2. CASE Sessions!Tick
  <2>1. UNCHANGED <<main, session, server, session_connected, coroutines, link, seen,
                    failures>>
    BY <1>2 DEF Sessions!Tick
  <2>2. waited' <= waited + 1 /\ (main = "streaming" => waited' = waited)
    BY <1>2 DEF Sessions!Tick, Sessions!Least
  <2>3. ~link => down_for' = down_for + 1 \/ down_for' = Grace
    BY <1>2 DEF Sessions!Tick, Sessions!Least
  <2>4. main = "connecting" => ~link
    BY <1>2 DEF Sessions!Tick, Sessions!AnyDue, Sessions!Told
  <2>5. main = "connecting" => waited' <= down_for' \/ Grace <= down_for'
    BY <1>2, <2>2, <2>3, <2>4 DEF Sessions!Tick, Sessions!Least
  <2>6. ASSUME NEW s \in Sessions!Session, NEW t \in grace_timer[s]
        PROVE  t + 1 <= Grace /\ (TimesLoss(s, t + 1)' \/ Lingers(t + 1)')
    <3>1. t \in Nat /\ t < Grace
      BY <1>2 DEF Sessions!Tick, Sessions!AnyDue
    <3>2. CASE TimesLoss(s, t)
      <4>1. s \in server /\ ~link
        BY <1>2, <3>2 DEF Sessions!Tick, Sessions!AnyDue, Sessions!Told,
                          Sessions!Watches, Sessions!Orphaned
      <4> QED BY <2>1, <2>3, <3>1, <3>2, <4>1
    <3>3. CASE Lingers(t)
      BY <2>1, <2>2, <3>1, <3>3
    <3> QED BY <3>1, <3>2, <3>3
  <2>7. \A s \in Sessions!Session : \A t \in grace_timer'[s] :
          \E u \in grace_timer[s] : t = u + 1
    BY <1>2 DEF Sessions!Tick
  <2>8. \A s \in Sessions!Session : \A t \in grace_timer'[s] :
          t <= Grace /\ (TimesLoss(s, t)' \/ Lingers(t)')
    BY <2>6, <2>7
  <2> QED BY <2>1, <2>5, <2>8
<1> QED BY <1>1, <1>2
LEMMA SessionInvNext ==
  ASSUME OneFailureShortGrace, SessionInv, Sessions!Next \/ UNCHANGED sessions
  PROVE  SessionInv'
<1>1. CASE Sessions!Next
  <2>1. SessionTypes'
    BY <1>1, SessionTypesNext DEF SessionInv
  <2>2. CASE \/ Sessions!ActionArrives
             \/ \E s \in Sessions!Session : Sessions!TakeAction(s) \/ Sessions!ActionEnds(s)
    BY <2>1, <2>2
    DEF Sessions!ActionArrives, Sessions!TakeAction, Sessions!ActionEnds,
        Sessions!connection, Sessions!watching, SessionInv, FirstSession,
        TimesLoss, Lingers
  <2> QED BY <1>1, <2>1, <2>2, SessionInvConnect, SessionInvReconnect, SessionInvWatch,
             SessionInvRaises, SessionInvTime
          DEF Sessions!Next, Sessions!Prompt
<1>2. CASE UNCHANGED sessions
  BY <1>2, SessionInvQuiet
<1> QED BY <1>1, <1>2

LEMMA LossLasted ==
  ASSUME OneFailureShortGrace, SessionInv, Sessions!Next,
         session_connected, ~session_connected'
  PROVE  down_for >= Grace \/ (main = "streaming" /\ main' = "sleeping")
<1>1. CASE \E s \in Sessions!Session : Sessions!GraceOver(s)
  BY <1>1 DEF Sessions!GraceOver, SessionInv, SessionTypes, TimesLoss, Lingers,
              OneFailureShortGrace
<1>2. CASE Sessions!ConnectTimesOut
  BY <1>2
  DEF Sessions!ConnectTimesOut, SessionInv, SessionTypes, OneFailureShortGrace
<1>3. CASE Sessions!ConnectRaises
  BY <1>3 DEF Sessions!ConnectRaises, SessionInv
<1>4. CASE \E s \in Sessions!Session :
             \/ Sessions!OffboardRaises(s)
             \/ \E c \in Sessions!Coroutine : Sessions!StreamRaises(s, c)
  BY <1>4 DEF Sessions!OffboardRaises, Sessions!StreamRaises, Sessions!Raise,
              Sessions!Sleep
<1>5. CASE \/ Sessions!Connect \/ Sessions!Reconnect \/ Sessions!LinkChanges
           \/ Sessions!ActionArrives \/ Sessions!Tick
           \/ \E s \in Sessions!Session :
                \/ Sessions!Watch(s) \/ Sessions!ServerDies(s)
                \/ Sessions!TakeAction(s) \/ Sessions!ActionEnds(s)
  BY <1>5 DEF Sessions!Connect, Sessions!Reconnect, Sessions!LinkChanges,
    Sessions!ActionArrives, Sessions!Tick, Sessions!Watch, Sessions!ServerDies,
    Sessions!TakeAction, Sessions!ActionEnds, Sessions!connection
<1> QED BY <1>1, <1>2, <1>3, <1>4, <1>5 DEF Sessions!Next, Sessions!Prompt

\* With the timers of the code and one failure, only a loss of PX4 that has lasted for
\* the grace period, or the end of the session, makes the bridge disconnected: neither
\* the timer of an ended session nor a reconnection that times out does it sooner.
THEOREM LossIsGraced ==
  ASSUME OneFailureShortGrace
  PROVE  PartSpec => LossNeedsGrace
<1> DEFINE Step == Sessions!Next \/ UNCHANGED sessions
<1>1. PartInit => SessionInv
  BY SessionInvInit DEF PartInit
<1>2. [PartNext]_<<part, vars, history, sessions>> => Step
  BY DEF PartNext, ReliableStep
<1>3. SessionInv /\ Step => SessionInv'
  BY SessionInvNext
<1>4. SessionInv /\ Step =>
        [session_connected /\ ~session_connected' =>
           down_for >= Grace \/ (main = "streaming" /\ main' = "sleeping")]_(Sessions!vars)
  BY LossLasted DEF Sessions!vars, Sessions!connection, Sessions!watching,
    Sessions!acting, sessions
<1> HIDE DEF Step
<1> QED BY <1>1, <1>2, <1>3, <1>4, PTL
        DEF PartSpec, LossNeedsGrace, Sessions!LossNeedsGrace

------------------------------------------------------------------------------
(* Any number of failures and sessions.  A timer whose server lives times  *)
(* a loss its watcher knows of, whichever session it is of; only the timer *)
(* of a dead server, which nobody can cancel, may run out too soon.        *)

TimeoutCoversGrace ==
  /\ {Grace, ReconnectInterval, ConnectionTimeout} \subseteq Nat
  /\ MaxSessions \in Nat \ {0} /\ Grace <= ConnectionTimeout

\* What makes the bridge disconnected is a loss that has lasted for the grace period,
\* the end of the session, or a server that is dead: one the node tries to connect
\* through, or one whose session left its grace timer running.
LossOrDeadServer ==
  [][session_connected /\ ~session_connected' =>
       \/ down_for >= Grace
       \/ main = "streaming" /\ main' = "sleeping"
       \/ main = "connecting" /\ main' = "sleeping" /\ session \notin server
       \/ \E s \in Sessions!Session \ server :
            Grace \in grace_timer[s] /\ grace_timer'[s] = {}]_sessions

ManyTypes ==
  /\ session \in Sessions!Session
  /\ waited \in Nat /\ down_for \in Nat
  /\ main \in {"connecting", "streaming", "sleeping"}
  /\ grace_timer \in [Sessions!Session -> SUBSET Nat]
  /\ coroutines \in [Sessions!Session -> SUBSET Sessions!Coroutine]
  /\ seen \in [Sessions!Session -> BOOLEAN] /\ link \in BOOLEAN

\* Of a session: the action loop is the last to end, and a timer was started by a
\* watcher that is told of PX4 as long as the server lives.
SessionRuns(s) ==
  /\ s > session => coroutines[s] = {}
  /\ coroutines[s] = {} => grace_timer[s] = {}
  /\ coroutines[s] # {} => "action" \in coroutines[s]
  /\ \A t \in grace_timer[s] :
       /\ t <= Grace
       /\ s \in server => "watch" \in coroutines[s] /\ ~seen[s] /\ t <= down_for

ManyInv ==
  /\ ManyTypes
  /\ main = "connecting" =>
       coroutines[session] = {} /\ (waited <= down_for \/ Grace <= down_for)
  /\ \A s \in Sessions!Session : SessionRuns(s)

LEMMA ManyTypesNext ==
  ASSUME TimeoutCoversGrace, ManyTypes, Sessions!Next
  PROVE  ManyTypes'
<1> USE DEF ManyTypes, TimeoutCoversGrace, Sessions!Session,
            Sessions!connection, Sessions!watching, Sessions!acting
<1>1. CASE Sessions!Connect
  BY <1>1 DEF Sessions!Connect
<1>2. CASE Sessions!ConnectRaises \/ Sessions!ConnectTimesOut
  BY <1>2 DEF Sessions!ConnectRaises, Sessions!ConnectTimesOut, Sessions!Sleep
<1>3. CASE Sessions!Reconnect
  BY <1>3 DEF Sessions!Reconnect
<1>4. CASE \E s \in Sessions!Session : Sessions!Watch(s)
  BY <1>4 DEF Sessions!Watch
<1>5. CASE \E s \in Sessions!Session : Sessions!GraceOver(s)
  BY <1>5 DEF Sessions!GraceOver
<1>6. CASE \E s \in Sessions!Session : \E c \in Sessions!Coroutine :
             Sessions!StreamRaises(s, c)
  BY <1>6 DEF Sessions!StreamRaises, Sessions!Raise, Sessions!Sleep
<1>7. CASE Sessions!LinkChanges \/ Sessions!ActionArrives
  <2>1. link' \in BOOLEAN
    BY <1>7 DEF Sessions!LinkChanges, Sessions!ActionArrives
  <2> QED BY <1>7, <2>1 DEF Sessions!LinkChanges, Sessions!ActionArrives
<1>8. CASE Sessions!Tick
  <2>1. waited' \in Nat /\ down_for' \in Nat
    BY <1>8 DEF Sessions!Tick, Sessions!Least
  <2>2. grace_timer' \in [Sessions!Session -> SUBSET Nat]
    BY <1>8 DEF Sessions!Tick
  <2> QED BY <1>8, <2>1, <2>2 DEF Sessions!Tick
<1>9. CASE \E s \in Sessions!Session : Sessions!ServerDies(s)
  BY <1>9 DEF Sessions!ServerDies
<1>10. CASE \E s \in Sessions!Session : Sessions!OffboardRaises(s)
  BY <1>10 DEF Sessions!OffboardRaises, Sessions!Raise, Sessions!Sleep
<1>11. CASE \E s \in Sessions!Session : Sessions!TakeAction(s) \/ Sessions!ActionEnds(s)
  BY <1>11 DEF Sessions!TakeAction, Sessions!ActionEnds
<1> QED BY <1>1, <1>2, <1>3, <1>4, <1>5, <1>6, <1>7, <1>8, <1>9, <1>10, <1>11
        DEF Sessions!Next, Sessions!Prompt

LEMMA ManyInvInit ==
  ASSUME TimeoutCoversGrace, Sessions!Init
  PROVE  ManyInv
BY DEF Sessions!Init, ManyInv, ManyTypes, SessionRuns, TimeoutCoversGrace,
       Sessions!Session

\* Of connecting: the session that starts has no timer yet, and one that is tried has
\* been tried for no longer than PX4 is not heard.
LEMMA ManyInvConnection ==
  ASSUME TimeoutCoversGrace, ManyInv, ManyTypes',
         \/ Sessions!Connect \/ Sessions!ConnectRaises \/ Sessions!ConnectTimesOut
         \/ Sessions!Reconnect
  PROVE  ManyInv'
<1> USE DEF ManyInv, ManyTypes, SessionRuns, TimeoutCoversGrace, Sessions!connection,
            Sessions!watching, Sessions!acting
<1>1. CASE Sessions!Connect
  <2>1. \A s \in Sessions!Session : SessionRuns(s)'
    BY <1>1 DEF Sessions!Connect, Sessions!Coroutine, Sessions!Session
  <2> QED BY <1>1, <2>1 DEF Sessions!Connect
<1>2. CASE Sessions!ConnectRaises \/ Sessions!ConnectTimesOut
  BY <1>2 DEF Sessions!ConnectRaises, Sessions!ConnectTimesOut, Sessions!Sleep
<1>3. CASE Sessions!Reconnect
  <2>1. coroutines[session'] = {}
    BY <1>3 DEF Sessions!Reconnect, Sessions!Session
  <2>2. \A s \in Sessions!Session : SessionRuns(s)'
    BY <1>3, <2>1 DEF Sessions!Reconnect, Sessions!Session
  <2> QED BY <1>3, <2>1, <2>2 DEF Sessions!Reconnect
<1> QED BY <1>1, <1>2, <1>3

LEMMA ManyInvSession ==
  ASSUME TimeoutCoversGrace, ManyInv, ManyTypes', NEW s \in Sessions!Session,
         \/ Sessions!Watch(s) \/ Sessions!GraceOver(s) \/ Sessions!ServerDies(s)
         \/ Sessions!OffboardRaises(s)
         \/ \E c \in Sessions!Coroutine : Sessions!StreamRaises(s, c)
  PROVE  ManyInv'
<1> USE DEF ManyInv, ManyTypes, SessionRuns, TimeoutCoversGrace, Sessions!connection,
            Sessions!watching, Sessions!acting
<1>1. CASE Sessions!Watch(s)
  BY <1>1 DEF Sessions!Watch, Sessions!Watches
<1>2. CASE Sessions!GraceOver(s)
  BY <1>2 DEF Sessions!GraceOver
<1>3. CASE Sessions!ServerDies(s)
  BY <1>3 DEF Sessions!ServerDies
<1>4. ASSUME NEW c \in {"watch", "stream", "offboard"}, Sessions!Raise(s, c),
             c = "watch" => s \notin server
      PROVE  ManyInv'
  <2>1. coroutines' = [coroutines EXCEPT ![s] = coroutines[s] \ {c}]
    BY <1>4 DEF Sessions!Raise
  <2>2. /\ UNCHANGED <<session, server, link, down_for, seen, grace_timer>>
        /\ UNCHANGED <<main, waited>> \/ main' = "sleeping"
    BY <1>4 DEF Sessions!Raise, Sessions!Sleep
  <2>3. "action" \in coroutines[s] /\ c # "action"
    BY <1>4 DEF Sessions!Raise
  <2>4. ASSUME NEW r \in Sessions!Session PROVE SessionRuns(r)'
    <3>1. CASE r # s
      BY <2>1, <2>2, <3>1
    <3>2. CASE r = s
      <4>1. coroutines'[r] = coroutines[r] \ {c} /\ "action" \in coroutines'[r]
        BY <2>1, <2>3, <3>2
      <4>2. r \in server /\ "watch" \in coroutines[r] => "watch" \in coroutines'[r]
        BY <1>4, <3>2, <4>1
      <4> QED BY <2>2, <3>2, <4>1, <4>2
    <3> QED BY <3>1, <3>2
  <2>5. main' = "connecting" => coroutines'[session'] = {}
    BY <2>1, <2>2
  <2> QED BY <2>2, <2>4, <2>5
<1>5. CASE Sessions!OffboardRaises(s)
  BY <1>4, <1>5 DEF Sessions!OffboardRaises
<1>6. CASE \E c \in Sessions!Coroutine : Sessions!StreamRaises(s, c)
  BY <1>4, <1>6 DEF Sessions!StreamRaises
<1> QED BY <1>1, <1>2, <1>3, <1>5, <1>6

LEMMA ManyInvTime ==
  ASSUME TimeoutCoversGrace, ManyInv, ManyTypes', Sessions!LinkChanges \/ Sessions!Tick
  PROVE  ManyInv'
<1> USE DEF ManyInv, ManyTypes, TimeoutCoversGrace, Sessions!connection,
            Sessions!watching, Sessions!acting
<1>1. \A s \in Sessions!Session : \A t \in grace_timer[s] : s \in server => ~link
  BY DEF SessionRuns, Sessions!LinkChanges, Sessions!Tick, Sessions!AnyDue,
         Sessions!Told, Sessions!Watches
<1>2. main = "connecting" => ~link
  BY DEF Sessions!LinkChanges, Sessions!Tick, Sessions!AnyDue, Sessions!Told
<1>3. CASE Sessions!LinkChanges
  <2>1. /\ UNCHANGED <<main, waited, session, server, session_connected, coroutines,
                       seen, grace_timer>>
        /\ ~link => down_for' = down_for
    BY <1>3 DEF Sessions!LinkChanges
  <2>2. \A s \in Sessions!Session : SessionRuns(s)'
    BY <1>1, <2>1 DEF SessionRuns
  <2> QED BY <1>2, <2>1, <2>2
<1>4. CASE Sessions!Tick
  <2>1. UNCHANGED <<main, session, server, coroutines, link, seen>>
    BY <1>4 DEF Sessions!Tick
  <2>2. /\ main = "connecting" => waited' <= waited + 1
        /\ ~link => down_for' = down_for + 1 \/ (down_for' = Grace /\ Grace <= down_for + 1)
    BY <1>4 DEF Sessions!Tick, Sessions!Least
  <2>3. main = "connecting" => waited' <= down_for' \/ Grace <= down_for'
    BY <1>2, <2>2
  <2>4. ASSUME NEW s \in Sessions!Session PROVE SessionRuns(s)'
    <3>1. grace_timer'[s] = {t + 1 : t \in grace_timer[s]}
      BY <1>4 DEF Sessions!Tick
    <3>2. \A t \in grace_timer[s] : t \in Nat /\ t + 1 <= Grace
      BY <1>4 DEF Sessions!Tick, Sessions!AnyDue, SessionRuns
    <3>3. ASSUME NEW t \in grace_timer[s], s \in server
          PROVE  "watch" \in coroutines[s] /\ ~seen[s] /\ t + 1 <= down_for'
      <4>1. ~link /\ "watch" \in coroutines[s] /\ ~seen[s] /\ t <= down_for
        BY <1>1, <3>3 DEF SessionRuns
      <4> QED BY <2>2, <3>2, <4>1
    <3>4. \A u \in grace_timer'[s] : \E t \in grace_timer[s] : u = t + 1
      BY <3>1
    <3>5. grace_timer[s] = {} => grace_timer'[s] = {}
      BY <3>1
    <3>6. \A u \in grace_timer'[s] :
            /\ u <= Grace
            /\ s \in server => "watch" \in coroutines[s] /\ ~seen[s] /\ u <= down_for'
      BY <3>2, <3>3, <3>4
    <3> QED BY <2>1, <3>5, <3>6 DEF SessionRuns
  <2> QED BY <2>1, <2>3, <2>4
<1> QED BY <1>3, <1>4

LEMMA ManyInvNext ==
  ASSUME TimeoutCoversGrace, ManyInv, Sessions!Next \/ UNCHANGED sessions
  PROVE  ManyInv'
<1>1. CASE Sessions!Next
  <2>1. ManyTypes'
    BY <1>1, ManyTypesNext DEF ManyInv
  <2>2. CASE \/ Sessions!ActionArrives
             \/ \E s \in Sessions!Session : Sessions!TakeAction(s) \/ Sessions!ActionEnds(s)
    BY <2>1, <2>2
    DEF Sessions!ActionArrives, Sessions!TakeAction, Sessions!ActionEnds,
        Sessions!connection, Sessions!watching, ManyInv, SessionRuns
  <2> QED BY <1>1, <2>1, <2>2, ManyInvConnection, ManyInvSession, ManyInvTime
          DEF Sessions!Next, Sessions!Prompt
<1>2. CASE UNCHANGED sessions
  BY <1>2 DEF sessions, ManyInv, ManyTypes, SessionRuns, Sessions!Session,
              Sessions!Coroutine
<1> QED BY <1>1, <1>2

LEMMA LossExplained ==
  ASSUME TimeoutCoversGrace, ManyInv, Sessions!Next,
         session_connected, ~session_connected'
  PROVE  \/ down_for >= Grace
         \/ main = "streaming" /\ main' = "sleeping"
         \/ main = "connecting" /\ main' = "sleeping" /\ session \notin server
         \/ \E s \in Sessions!Session \ server :
              Grace \in grace_timer[s] /\ grace_timer'[s] = {}
<1> USE DEF ManyInv, ManyTypes, TimeoutCoversGrace
<1>1. ASSUME NEW s \in Sessions!Session, Sessions!GraceOver(s)
      PROVE  \/ down_for >= Grace
             \/ s \notin server /\ Grace \in grace_timer[s] /\ grace_timer'[s] = {}
  BY <1>1 DEF Sessions!GraceOver, SessionRuns
<1>2. CASE Sessions!ConnectTimesOut
  BY <1>2 DEF Sessions!ConnectTimesOut
<1>3. CASE Sessions!ConnectRaises
  BY <1>3 DEF Sessions!ConnectRaises, Sessions!Sleep
<1>4. CASE \E s \in Sessions!Session :
             \/ Sessions!OffboardRaises(s)
             \/ \E c \in Sessions!Coroutine : Sessions!StreamRaises(s, c)
  BY <1>4 DEF Sessions!OffboardRaises, Sessions!StreamRaises, Sessions!Raise,
              Sessions!Sleep
<1>5. CASE \/ Sessions!Connect \/ Sessions!Reconnect \/ Sessions!LinkChanges
           \/ Sessions!ActionArrives \/ Sessions!Tick
           \/ \E s \in Sessions!Session :
                \/ Sessions!Watch(s) \/ Sessions!ServerDies(s)
                \/ Sessions!TakeAction(s) \/ Sessions!ActionEnds(s)
  BY <1>5 DEF Sessions!Connect, Sessions!Reconnect, Sessions!LinkChanges,
    Sessions!ActionArrives, Sessions!Tick, Sessions!Watch, Sessions!ServerDies,
    Sessions!TakeAction, Sessions!ActionEnds, Sessions!connection
<1> QED BY <1>1, <1>2, <1>3, <1>4, <1>5 DEF Sessions!Next, Sessions!Prompt

\* Whatever fails, and however often the bridge connects again: while servers live no
\* timer, of this session or an ended one, makes a loss count before its grace period
\* is over, and no attempt to connect times out that soon.
THEOREM OnlyDeadServersHurry ==
  ASSUME TimeoutCoversGrace
  PROVE  PartSpec => LossOrDeadServer
<1> DEFINE Step == Sessions!Next \/ UNCHANGED sessions
<1>1. PartInit => ManyInv
  BY ManyInvInit DEF PartInit
<1>2. [PartNext]_<<part, vars, history, sessions>> => Step
  BY DEF PartNext, ReliableStep
<1>3. ManyInv /\ Step => ManyInv'
  BY ManyInvNext
<1>4. ManyInv /\ Step =>
        [session_connected /\ ~session_connected' =>
           \/ down_for >= Grace
           \/ main = "streaming" /\ main' = "sleeping"
           \/ main = "connecting" /\ main' = "sleeping" /\ session \notin server
           \/ \E s \in Sessions!Session \ server :
                Grace \in grace_timer[s] /\ grace_timer'[s] = {}]_sessions
  BY LossExplained DEF sessions
<1> HIDE DEF Step
<1> QED BY <1>1, <1>2, <1>3, <1>4, PTL DEF PartSpec, LossOrDeadServer
==============================================================================
