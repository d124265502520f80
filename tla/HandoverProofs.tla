---------------------------- MODULE HandoverProofs ----------------------------
(***************************************************************************)
(* A mission that has ended leaves PX4 out of Offboard: what the executor  *)
(* asked for last is what the manager believes once its topic is empty,    *)
(* the manager's gate follows it, and the bridge knows whether PX4 is in   *)
(* Offboard.  One that ended with a landing leaves PX4 landing: the LAND   *)
(* that is sent again finds the release settled.  A goto, which is sent    *)
(* once, is lost at once or never.  And each of the three nodes keeps its  *)
(* own specification here.                                                 *)
(***************************************************************************)
EXTENDS OffboardHandover, BridgeProofs

------------------------------------------------------------------------------
(* KEEP_LAST drops the oldest messages, never the newest one.              *)

LEMMA NewestIsKept ==
  ASSUME NEW S, NEW queue \in Seq(S), NEW msgs \in Seq(S)
  PROVE  LET all == queue \o msgs
             kept == KeepLast(queue, msgs)
         IN /\ kept \in Seq(S)
            /\ all = <<>> => kept = <<>>
            /\ all # <<>> => /\ kept # <<>>
                             /\ kept[Len(kept)] = all[Len(all)]
<1> DEFINE all == queue \o msgs
           drop == IF Len(all) > QueueDepth THEN Len(all) - QueueDepth ELSE 0
<1>1. all \in Seq(S) /\ Len(all) \in Nat
  OBVIOUS
<1>2. drop \in Nat /\ drop <= Len(all) /\ (all # <<>> => drop < Len(all))
  BY <1>1, HandoverAssumption
<1>3. KeepLast(queue, msgs) = SubSeq(all, drop + 1, Len(all))
  BY DEF KeepLast
<1> HIDE DEF all, drop
<1>4. /\ SubSeq(all, drop + 1, Len(all)) \in Seq(S)
      /\ Len(SubSeq(all, drop + 1, Len(all))) = Len(all) - drop
      /\ \A i \in 1 .. Len(all) - drop :
           SubSeq(all, drop + 1, Len(all))[i] = all[drop + i]
  BY <1>1, <1>2
<1>5. ASSUME all # <<>>
      PROVE  /\ KeepLast(queue, msgs) # <<>>
             /\ KeepLast(queue, msgs)[Len(KeepLast(queue, msgs))] = all[Len(all)]
  <2>1. Len(all) - drop \in 1 .. Len(all) - drop
    BY <1>1, <1>2, <1>5
  <2>2. drop + (Len(all) - drop) = Len(all)
    BY <1>1, <1>2
  <2>3. Len(KeepLast(queue, msgs)) = Len(all) - drop
    BY <1>3, <1>4
  <2>4. KeepLast(queue, msgs)[Len(all) - drop] = all[drop + (Len(all) - drop)]
    BY <1>3, <1>4, <2>1
  <2>5. KeepLast(queue, msgs) # <<>>
    BY <2>1, <2>3
  <2> QED BY <2>2, <2>3, <2>4, <2>5
<1>6. all = <<>> => KeepLast(queue, msgs) = <<>>
  BY <1>1, <1>2, <1>3, <1>4
<1> QED BY <1>3, <1>4, <1>5, <1>6 DEF all

LEMMA NewestOfTail ==
  ASSUME NEW S, NEW queue \in Seq(S), queue # <<>>
  PROVE  /\ Tail(queue) \in Seq(S)
         /\ Tail(queue) = <<>> => Head(queue) = queue[Len(queue)]
         /\ Tail(queue) # <<>> =>
              Tail(queue)[Len(Tail(queue))] = queue[Len(queue)]
<1>1. /\ Tail(queue) \in Seq(S) /\ Len(Tail(queue)) = Len(queue) - 1
      /\ Len(queue) \in Nat /\ Len(queue) >= 1
      /\ Head(queue) = queue[1]
      /\ \A i \in 1 .. Len(queue) - 1 : Tail(queue)[i] = queue[i + 1]
  OBVIOUS
<1> DEFINE rest == Tail(queue)
<1> HIDE DEF rest
<1>2. rest \in Seq(S) => (rest = <<>> <=> Len(rest) = 0)
  OBVIOUS
<1>3. CASE Len(queue) = 1
  <2>1. Tail(queue) = <<>>
    BY <1>1, <1>2, <1>3 DEF rest
  <2> QED BY <1>1, <1>3, <2>1
<1>4. CASE Len(queue) > 1
  <2>1. Len(queue) - 1 \in 1 .. Len(queue) - 1 /\ Len(queue) - 1 + 1 = Len(queue)
    BY <1>1, <1>4
  <2>2. Tail(queue) # <<>>
    BY <1>1, <1>2, <1>4 DEF rest
  <2> QED BY <1>1, <2>1, <2>2
<1> QED BY <1>1, <1>3, <1>4

------------------------------------------------------------------------------
(* What a callback of the executor asks for.                               *)

Asked == {{}, {TRUE}, {FALSE}}
Request == [last : Asked, age : Nat, out : Seq(BOOLEAN)]

\* Nothing new is asked; or on is asked for, and published unless it was last time.
AsksNothing ==
  offboard_request'.out = <<>> /\ offboard_request'.last = offboard_request.last
Asks(on) ==
  /\ offboard_request'.last = {on}
  /\ \/ offboard_request'.out = <<on>>
     \/ offboard_request'.out = <<>> /\ offboard_request.last = {on}

SendsActions == actions' = <<>> \/ \E c : actions' = <<c>> /\ c.action \in Action

\* A callback after which no mission is active has asked for the release, or left
\* things as they were.
ExecutorSays ==
  /\ offboard_request' \in Request
  /\ AsksNothing \/ Asks(TRUE) \/ Asks(FALSE)
  /\ ~mission_active' => Asks(FALSE) \/ (AsksNothing /\ ~mission_active)
  /\ SendsActions

LEMMA AskedAre == {} \in Asked /\ {TRUE} \in Asked /\ {FALSE} \in Asked
BY Zenon DEF Asked

LEMMA QuietAsksNothing ==
  ASSUME NEW r \in Request
  PROVE  /\ Executor!Quiet(r) \in Request
         /\ Executor!Quiet(r).last = r.last /\ Executor!Quiet(r).out = <<>>
<1>1. <<>> \in Seq(BOOLEAN)
  OBVIOUS
<1> QED BY <1>1 DEF Request, Executor!Quiet

LEMMA PublishAsks ==
  ASSUME offboard_request \in Request, NEW on \in BOOLEAN,
         offboard_request' = Executor!Publish(Executor!Quiet(offboard_request), on)
  PROVE  offboard_request' \in Request /\ Asks(on)
<1> DEFINE r == Executor!Quiet(offboard_request)
<1>1. r \in Request /\ r.last = offboard_request.last /\ r.out = <<>>
  BY QuietAsksNothing
<1> HIDE DEF r
<1>2. CASE on \in r.last /\ r.age < 1
  <2>1. offboard_request' = r
    BY <1>2 DEF Executor!Publish, r
  <2>2. r.last = {on}
    <3>1. r.last \in Asked
      BY <1>1 DEF Request
    <3> QED BY <1>2, <3>1, Zenon DEF Asked
  <2> QED BY <1>1, <2>1, <2>2 DEF Asks
<1>3. CASE ~(on \in r.last /\ r.age < 1)
  <2>1. offboard_request' = [last |-> {on}, age |-> 0, out |-> Append(r.out, on)]
    BY <1>3 DEF Executor!Publish, r
  <2>2. {on} \in Asked
    BY Zenon DEF Asked
  <2>3. Append(r.out, on) = <<on>> /\ <<on>> \in Seq(BOOLEAN)
    BY <1>1
  <2> QED BY <2>1, <2>2, <2>3 DEF Request, Asks
<1> QED BY <1>2, <1>3

LEMMA SendsOne ==
  ASSUME NEW a \in Action, NEW place, NEW rearm,
         Executor!SendActionOnce(a, place, rearm)
  PROVE  SendsActions
BY DEF Executor!SendActionOnce, SendsActions

\* A pass through a step.
PassSays ==
  /\ offboard_request' \in Request
  /\ AsksNothing \/ Asks(TRUE) \/ Asks(FALSE)
  /\ mission_active' = mission_active
  /\ SendsActions

LEMMA HandlersSay ==
  ASSUME offboard_request \in Request,
         \/ Executor!StepTakeoff \/ Executor!StepPrimeOffboard \/ Executor!StepScan
         \/ Executor!StepTrackCenter \/ Executor!StepApproach \/ Executor!StepGoto
         \/ Executor!StepOrbit \/ Executor!StepRtl \/ Executor!StepLand
         \/ Executor!StepHold
  PROVE  Executor!Running /\ PassSays
<1>1. ASSUME NEW offboard \in Asked, NEW mode, NEW yaw_rate, NEW done, SendsActions,
             Executor!Pass(offboard, mode, yaw_rate, done)
      PROVE  PassSays
  <2>1. CASE offboard = {}
    BY <1>1, <2>1, QuietAsksNothing DEF Executor!Pass, PassSays, AsksNothing
  <2>2. CASE offboard = {TRUE}
    BY <1>1, <2>2, PublishAsks DEF Executor!Pass, PassSays
  <2>3. CASE offboard = {FALSE}
    <3>1. (TRUE \in offboard) = FALSE /\ offboard # {}
      BY <2>3
    <3> QED BY <1>1, <3>1, PublishAsks DEF Executor!Pass, PassSays
  <2> QED BY <2>1, <2>2, <2>3 DEF Asked
<1>2. Executor!NoAction => SendsActions
  BY DEF Executor!NoAction, SendsActions
<1>3. ASSUME NEW offboard \in Asked, Executor!Blocked(offboard)
      PROVE  PassSays
  BY <1>1, <1>2, <1>3 DEF Executor!Blocked
<1>4. \A a \in {"TAKEOFF", "GOTO_LOCATION", "DO_ORBIT", "RETURN_TO_LAUNCH", "LAND"} :
        \A place, rearm : Executor!SendActionOnce(a, place, rearm) => SendsActions
  BY SendsOne DEF Action
<1>5. CASE Executor!StepTakeoff
  BY <1>1, <1>3, <1>4, <1>2, <1>5, AskedAre
  DEF Executor!StepTakeoff, Executor!InStep
<1>6. CASE Executor!StepPrimeOffboard
  BY <1>1, <1>2, <1>3, <1>6, AskedAre
  DEF Executor!StepPrimeOffboard, Executor!InStep
<1>7. CASE Executor!StepScan
  BY <1>1, <1>2, <1>3, <1>7, AskedAre DEF Executor!StepScan, Executor!InStep
<1>8. CASE Executor!StepTrackCenter
  BY <1>1, <1>2, <1>3, <1>8, AskedAre DEF Executor!StepTrackCenter, Executor!InStep
<1>9. CASE Executor!StepApproach
  BY <1>1, <1>2, <1>3, <1>9, AskedAre DEF Executor!StepApproach, Executor!InStep
<1>10. CASE Executor!StepGoto
  BY <1>1, <1>3, <1>4, <1>10, AskedAre DEF Executor!StepGoto, Executor!InStep
<1>11. CASE Executor!StepOrbit
  BY <1>1, <1>2, <1>3, <1>4, <1>11, AskedAre DEF Executor!StepOrbit, Executor!InStep
<1>12. CASE Executor!StepRtl
  BY <1>1, <1>4, <1>12, AskedAre DEF Executor!StepRtl, Executor!InStep
<1>13. CASE Executor!StepLand
  BY <1>1, <1>4, <1>13, AskedAre DEF Executor!StepLand, Executor!InStep
<1>14. CASE Executor!StepHold
  BY <1>1, <1>2, <1>14, AskedAre DEF Executor!StepHold, Executor!InStep
<1> QED BY <1>5, <1>6, <1>7, <1>8, <1>9, <1>10, <1>11, <1>12, <1>13, <1>14

LEMMA LoopSays ==
  ASSUME offboard_request \in Request, Executor!Loop
  PROVE  ExecutorSays
<1>1. CASE Executor!EnterComplete
  BY <1>1, PublishAsks DEF Executor!EnterComplete, ExecutorSays, SendsActions
<1>2. CASE Executor!LoopIdle
  BY <1>2, QuietAsksNothing
  DEF Executor!LoopIdle, ExecutorSays, AsksNothing, SendsActions
<1>3. CASE ~Executor!EnterComplete /\ ~Executor!LoopIdle
  <2>1. Executor!Running /\ PassSays
    BY <1>3, HandlersSay DEF Executor!Loop
  <2> QED BY <2>1 DEF Executor!Running, PassSays, ExecutorSays
<1> QED BY <1>1, <1>2, <1>3

LEMMA RequestSays ==
  ASSUME offboard_request \in Request, NEW on, Executor!MissionRequestCallback(on)
  PROVE  ExecutorSays
BY PublishAsks DEF Executor!MissionRequestCallback, Executor!MissionStart,
  Executor!MissionStop, ExecutorSays, SendsActions

------------------------------------------------------------------------------
(* The invariant.                                                          *)

ReleaseInv ==
  /\ offboard_request \in Request
  /\ ~mission_active => offboard_request.last # {TRUE}

\* The newest message under way, or else what the manager believes, is the last
\* request, unless it is a withdrawal of someone else.
NewestIsLast ==
  /\ offboard_topic \in Seq(BOOLEAN)
  /\ offboard_topic = <<>> /\ offboard_requested => offboard_request.last = {TRUE}
  /\ offboard_topic # <<>> /\ offboard_topic[Len(offboard_topic)] = TRUE =>
       offboard_request.last = {TRUE}

ActionsUnderWay ==
  \E S : action_topic \in Seq(S) /\ \A c \in S : c.action \in Action

HandoverInv == KnowInv /\ ReleaseInv /\ NewestIsLast /\ ActionsUnderWay

LEMMA HandoverInvInit == HandoverInit => HandoverInv
<1> SUFFICES ASSUME HandoverInit PROVE HandoverInv
  OBVIOUS
<1>1. KnowInv
  BY KnowInvInit DEF HandoverInit
<1>2. ReleaseInv
  <2>1. <<>> \in Seq(BOOLEAN)
    OBVIOUS
  <2>2. offboard_request = [last |-> {}, age |-> 1, out |-> <<>>]
    BY DEF HandoverInit, Executor!Init, Executor!NeverPublished
  <2> QED BY <2>1, <2>2, AskedAre DEF ReleaseInv, Request
<1>3. NewestIsLast
  <2>1. offboard_topic = <<>> /\ ~offboard_requested /\ <<>> \in Seq(BOOLEAN)
    BY DEF HandoverInit
  <2> QED BY <2>1 DEF NewestIsLast
<1>4. action_topic \in Seq({})
  BY DEF HandoverInit
<1> QED BY <1>1, <1>2, <1>3, <1>4 DEF HandoverInv, ActionsUnderWay

\* An action is added to those under way.
LEMMA ActionsPublished ==
  ASSUME ActionsUnderWay, SendsActions,
         action_topic' = KeepLast(action_topic, actions')
  PROVE  ActionsUnderWay'
<1>1. PICK S : action_topic \in Seq(S) /\ \A c \in S : c.action \in Action
  BY DEF ActionsUnderWay
<1>2. CASE actions' = <<>>
  <2>1. actions' \in Seq(S)
    BY <1>2
  <2> QED BY <1>1, <2>1, NewestIsKept DEF ActionsUnderWay
<1>3. ASSUME NEW c, actions' = <<c>>, c.action \in Action
      PROVE  ActionsUnderWay'
  <2>1. actions' \in Seq(S \cup {c}) /\ action_topic \in Seq(S \cup {c})
    BY <1>1, <1>3
  <2>2. \A d \in S \cup {c} : d.action \in Action
    BY <1>1, <1>3
  <2> QED BY <2>1, <2>2, NewestIsKept DEF ActionsUnderWay
<1> QED BY <1>2, <1>3 DEF SendsActions

LEMMA HandoverInvSays ==
  ASSUME LinkFaults = FALSE, Preemption = FALSE,
         HandoverInv, ExecutorSays, ExecutorPublishes, UNCHANGED <<manager, vars>>
  PROVE  HandoverInv'
<1>1. KnowInv'
  BY KnowInvNext DEF HandoverInv
<1>2. ReleaseInv'
  BY DEF HandoverInv, ReleaseInv, ExecutorSays, Asks, AsksNothing
<1>3. ActionsUnderWay'
  BY ActionsPublished DEF HandoverInv, ExecutorSays, ExecutorPublishes
<1>4. NewestIsLast'
  <2> DEFINE out == offboard_request'.out
             all == offboard_topic \o out
  <2>1. /\ out \in Seq(BOOLEAN) /\ offboard_topic \in Seq(BOOLEAN)
        /\ offboard_topic' = KeepLast(offboard_topic, out)
    BY DEF HandoverInv, NewestIsLast, ExecutorSays, Request, ExecutorPublishes
  <2>2. /\ offboard_topic' \in Seq(BOOLEAN)
        /\ all = <<>> => offboard_topic' = <<>>
        /\ all # <<>> => /\ offboard_topic' # <<>>
                         /\ offboard_topic'[Len(offboard_topic')] = all[Len(all)]
    BY <2>1, NewestIsKept
  <2>3. offboard_requested' = offboard_requested
    BY Zenon DEF manager
  <2>4. CASE out = <<>>
    <3>1. offboard_request'.last = offboard_request.last
      <4>1. <<TRUE>> # <<>> /\ <<FALSE>> # <<>>
        OBVIOUS
      <4> QED BY <2>4, <4>1, Zenon DEF ExecutorSays, AsksNothing, Asks
    <3>2. all = offboard_topic
      BY <2>1, <2>4
    <3> HIDE DEF out, all
    <3> QED BY <2>2, <2>3, <3>1, <3>2, Zenon DEF HandoverInv, NewestIsLast
  <2>5. ASSUME NEW on \in BOOLEAN, Asks(on), out = <<on>>
        PROVE  NewestIsLast'
    <3>1. all # <<>> /\ all[Len(all)] = on
      BY <2>1, <2>5
    <3>2. offboard_request'.last = {on}
      BY <2>5 DEF Asks
    <3> HIDE DEF out, all
    <3>3. CASE on = TRUE
      BY <2>2, <3>1, <3>2, <3>3, Zenon DEF NewestIsLast
    <3>4. CASE on = FALSE
      BY <2>2, <3>1, <3>4, Zenon DEF NewestIsLast
    <3> QED BY <3>3, <3>4
  <2> QED BY <2>4, <2>5 DEF ExecutorSays, AsksNothing, Asks
<1> QED BY <1>1, <1>2, <1>3, <1>4 DEF HandoverInv

LEMMA KnowInvReceives ==
  ASSUME KnowInv, Preemption = FALSE,
         \/ \E on : OffboardEnableCallback(on)
         \/ \E msg : ActionCommandCallback(msg) /\ msg.action \in Action
  PROVE  KnowInv'
<1>1. LoopFree
  BY DEF OffboardEnableCallback, ActionCommandCallback, CallbackRuns
<1>2. UNCHANGED <<rpc, command, setpoint, px4_setpoint, offboard_pc>>
  BY DEF OffboardEnableCallback, ActionCommandCallback, offboard_loop, action_loop, px4
<1>3. latest_action'.action \in Action
  BY DEF OffboardEnableCallback, ActionCommandCallback, received, KnowInv, EnterInv,
         CallTypes
<1>4. EnterInv'
  BY <1>2, <1>3 DEF KnowInv, EnterInv, CallTypes
<1>5. UNCHANGED <<offboard_active, action_pc, action_in_progress, px4_mode>>
  BY DEF OffboardEnableCallback, ActionCommandCallback, action_loop, px4
<1> QED BY <1>1, <1>2, <1>4, <1>5 DEF LoopFree, KnowInv, BridgeKnowsOffboard

\* A step that leaves the executor and its topics alone.
LEMMA HandoverInvKept ==
  ASSUME HandoverInv, KnowInv',
         UNCHANGED <<mission_active, offboard_request, offboard_topic>>,
         offboard_requested' => offboard_requested,
         action_topic' = action_topic
           \/ (action_topic # <<>> /\ action_topic' = Tail(action_topic))
  PROVE  HandoverInv'
<1>1. PICK S : action_topic \in Seq(S) /\ \A c \in S : c.action \in Action
  BY DEF HandoverInv, ActionsUnderWay
<1>2. action_topic' \in Seq(S)
  BY <1>1
<1>3. ActionsUnderWay'
  BY <1>1, <1>2 DEF ActionsUnderWay
<1>4. ReleaseInv' /\ NewestIsLast'
  BY Zenon DEF HandoverInv, ReleaseInv, NewestIsLast
<1> QED BY <1>3, <1>4 DEF HandoverInv

LEMMA HandoverInvManager ==
  ASSUME LinkFaults = FALSE, Preemption = FALSE, HandoverInv,
         ManagerReceives \/ ManagerTimer
  PROVE  HandoverInv'
<1>1. KnowInv'
  BY KnowInvNext DEF HandoverInv, ManagerReceives, ManagerTimer
<1>2. UNCHANGED <<mission_active, offboard_request, action_topic>>
  BY DEF ManagerReceives, ManagerTimer, executor
<1>3. CASE ManagerTimer
  <2>1. offboard_topic' = offboard_topic /\ offboard_requested' = offboard_requested
    BY <1>3, Zenon DEF ManagerTimer, Manager!UpdateStateMachine
  <2> QED BY <1>1, <1>2, <2>1, HandoverInvKept
<1>4. ASSUME offboard_topic' = offboard_topic,
             NEW on, Manager!AutonomyRequestCallback(on)
      PROVE  HandoverInv'
  <2>1. offboard_requested' => offboard_requested
    BY <1>4 DEF Manager!AutonomyRequestCallback
  <2> QED BY <1>1, <1>2, <1>4, <2>1, HandoverInvKept
<1>5. ASSUME offboard_topic # <<>>, offboard_topic' = Tail(offboard_topic),
             Manager!OffboardRequestCallback(Head(offboard_topic))
      PROVE  HandoverInv'
  <2>1. offboard_requested' = Head(offboard_topic)
    BY <1>5, Zenon DEF Manager!OffboardRequestCallback
  <2>2. offboard_topic \in Seq(BOOLEAN)
    BY DEF HandoverInv, NewestIsLast
  <2>3. /\ Tail(offboard_topic) \in Seq(BOOLEAN)
        /\ Tail(offboard_topic) = <<>> =>
             Head(offboard_topic) = offboard_topic[Len(offboard_topic)]
        /\ Tail(offboard_topic) # <<>> =>
             Tail(offboard_topic)[Len(Tail(offboard_topic))]
               = offboard_topic[Len(offboard_topic)]
    BY <1>5, <2>2, NewestOfTail
  <2>4. Head(offboard_topic) \in BOOLEAN
    BY <1>5, <2>2
  <2>5. NewestIsLast'
    BY <1>2, <1>5, <2>1, <2>3, <2>4, Zenon DEF HandoverInv, NewestIsLast
  <2>6. ReleaseInv' /\ ActionsUnderWay'
    BY <1>2 DEF HandoverInv, ReleaseInv, ActionsUnderWay
  <2> QED BY <1>1, <2>5, <2>6 DEF HandoverInv
<1> QED BY <1>3, <1>4, <1>5 DEF ManagerReceives

LEMMA HandoverInvBridge ==
  ASSUME LinkFaults = FALSE, Preemption = FALSE, HandoverInv,
         BridgeReceives \/ BridgeRuns
  PROVE  HandoverInv'
<1>1. UNCHANGED <<mission_active, offboard_request, offboard_topic>>
  BY DEF BridgeReceives, BridgeRuns, executor, topics
<1>2. offboard_requested' = offboard_requested
  BY Zenon DEF BridgeReceives, BridgeRuns, manager
<1>3. action_topic # <<>> => Head(action_topic).action \in Action
  BY DEF HandoverInv, ActionsUnderWay
<1>4. CASE BridgeReceives
  <2>1. KnowInv'
    BY <1>3, <1>4, KnowInvReceives DEF BridgeReceives, HandoverInv
  <2> QED BY <1>1, <1>2, <1>4, <2>1, HandoverInvKept DEF BridgeReceives
<1>5. CASE BridgeRuns
  <2>1. Next
    BY <1>5 DEF BridgeRuns, Next
  <2>2. KnowInv'
    BY <2>1, KnowInvNext DEF HandoverInv
  <2> QED BY <1>1, <1>2, <1>5, <2>2, HandoverInvKept DEF BridgeRuns, topics
<1> QED BY <1>4, <1>5

\* The buttons withdraw and send, whatever the executor asks for.
LEMMA HandoverInvDashboard ==
  ASSUME LinkFaults = FALSE, Preemption = FALSE, HandoverInv,
         NEW action \in Buttons, DashboardStops(action)
  PROVE  HandoverInv'
<1>1. UNCHANGED <<mission_active, offboard_request>> /\ UNCHANGED vars
  BY DEF DashboardStops, executor
<1>2. KnowInv'
  BY <1>1, KnowInvNext DEF HandoverInv
<1>3. NewestIsLast'
  <2>1. offboard_topic = <<>> /\ offboard_topic' = KeepLast(<<>>, <<FALSE>>)
    BY DEF DashboardStops, topics
  <2>2. <<>> \in Seq(BOOLEAN) /\ <<FALSE>> \in Seq(BOOLEAN)
    OBVIOUS
  <2>3. /\ <<>> \o <<FALSE>> = <<FALSE>> /\ <<FALSE>> # <<>>
        /\ <<FALSE>>[Len(<<FALSE>>)] = FALSE
    OBVIOUS
  <2>4. /\ offboard_topic' \in Seq(BOOLEAN) /\ offboard_topic' # <<>>
        /\ offboard_topic'[Len(offboard_topic')] = FALSE
    BY <2>1, <2>2, <2>3, NewestIsKept
  <2> QED BY <2>4, Zenon DEF NewestIsLast
<1>4. ActionsUnderWay'
  <2>1. NewAction(action).action \in Action
    BY HandoverAssumption DEF NewAction
  <2>2. PICK S : action_topic \in Seq(S) /\ \A c \in S : c.action \in Action
    BY DEF HandoverInv, ActionsUnderWay
  <2>3. /\ action_topic \in Seq(S \cup {NewAction(action)})
        /\ <<NewAction(action)>> \in Seq(S \cup {NewAction(action)})
        /\ \A c \in S \cup {NewAction(action)} : c.action \in Action
    BY <2>1, <2>2
  <2>4. action_topic' \in Seq(S \cup {NewAction(action)})
    BY <2>3, NewestIsKept DEF DashboardStops
  <2> QED BY <2>3, <2>4 DEF ActionsUnderWay
<1> QED BY <1>1, <1>2, <1>3, <1>4 DEF HandoverInv, ReleaseInv

\* A report or the passage of time: the executor publishes nothing.
LEMMA HandoverInvQuiet ==
  ASSUME LinkFaults = FALSE, Preemption = FALSE, HandoverInv,
         VehicleReports \/ Elapse
  PROVE  HandoverInv'
<1>1. UNCHANGED vars /\ UNCHANGED <<mission_active, offboard_topic, action_topic>>
  BY DEF VehicleReports, Elapse, topics, Executor!TelemetryCallback, Executor!Elapse
<1>2. KnowInv'
  BY <1>1, KnowInvNext DEF HandoverInv
<1>3. offboard_requested' = offboard_requested
  BY Zenon DEF VehicleReports, Elapse, manager, Manager!TelemetryCallback
<1>4. offboard_request' \in Request /\ offboard_request'.last = offboard_request.last
  <2>1. offboard_request \in Request
    BY DEF HandoverInv, ReleaseInv
  <2>2. CASE VehicleReports
    BY <2>1, <2>2, QuietAsksNothing
    DEF VehicleReports, Executor!TelemetryCallback, Executor!NothingPublished
  <2>3. CASE Elapse
    <3>1. Executor!Quiet(offboard_request) \in Request
      BY <2>1, QuietAsksNothing
    <3>2. Executor!Aged(Executor!Quiet(offboard_request).age, 1) \in Nat
      BY <3>1 DEF Request, Executor!Aged
    <3> QED BY <2>1, <2>3, <3>1, <3>2, QuietAsksNothing
            DEF Elapse, Executor!Elapse, Request
  <2> QED BY <2>2, <2>3
<1>5. ReleaseInv' /\ NewestIsLast' /\ ActionsUnderWay'
  BY <1>1, <1>3, <1>4, Zenon
  DEF HandoverInv, ReleaseInv, NewestIsLast, ActionsUnderWay
<1> QED BY <1>2, <1>5 DEF HandoverInv

LEMMA HandoverInvNext ==
  ASSUME LinkFaults = FALSE, Preemption = FALSE, HandoverInv,
         [HandoverNext]_all_nodes
  PROVE  HandoverInv'
<1>1. CASE OperatorRequests \/ ExecutorReceives \/ ExecutorLoop
  <2>1. offboard_request \in Request
    BY DEF HandoverInv, ReleaseInv
  <2>2. ExecutorSays /\ ExecutorPublishes /\ UNCHANGED <<manager, vars>>
    BY <1>1, <2>1, LoopSays, RequestSays
    DEF OperatorRequests, ExecutorReceives, ExecutorLoop
  <2> QED BY <2>2, HandoverInvSays
<1>2. CASE UNCHANGED all_nodes
  <2>1. /\ UNCHANGED vars /\ offboard_requested' = offboard_requested
        /\ UNCHANGED <<mission_active, offboard_request, offboard_topic, action_topic>>
    BY <1>2, Zenon DEF all_nodes, executor, manager, topics
  <2>2. KnowInv'
    BY <2>1, KnowInvNext DEF HandoverInv
  <2> QED BY <2>1, <2>2, HandoverInvKept
<1> QED BY <1>1, <1>2, HandoverInvManager, HandoverInvBridge, HandoverInvDashboard,
           HandoverInvQuiet DEF HandoverNext

\* A mission that has ended, by its last step, a request or a button, leaves PX4 out
\* of Offboard once everything has settled: for every plan, any depth of the queues,
\* and every order in which the release, the actions and PX4's answers come in.
THEOREM EndedLeavesOffboard ==
  ASSUME LinkFaults = FALSE, Preemption = FALSE
  PROVE  HandoverSpec => []EndOfMissionEndsOffboard
<1>1. HandoverInv => EndOfMissionEndsOffboard
  <2> SUFFICES ASSUME HandoverInv, ~mission_active, Settled
               PROVE  px4_mode # "OFFBOARD"
    BY DEF EndOfMissionEndsOffboard
  <2>1. ~offboard_requested
    BY Zenon DEF HandoverInv, ReleaseInv, NewestIsLast, Settled, topics
  <2>2. ~offboard_enabled
    BY <2>1 DEF Settled
  <2>3. ~offboard_active
    BY <2>2, Zenon DEF Settled
  <2> QED BY <2>3 DEF HandoverInv, KnowInv, BridgeKnowsOffboard, Settled
<1>2. HandoverInv /\ [HandoverNext]_all_nodes => HandoverInv'
  BY HandoverInvNext
<1> QED BY <1>1, <1>2, HandoverInvInit, PTL DEF HandoverSpec

------------------------------------------------------------------------------
(* A landing survives.  By the time a LAND is sent again, the unit before  *)
(* has settled with the release; nothing takes that LAND back.             *)

\* The vehicle flies, actions are allowed, and a plan that ends with a landing gives
\* it the time to send LAND again and has no other end.  (land_wait_s is 10 s, LAND is
\* repeated after 2 s.)
LandingHasTime ==
  /\ AllowMavsdkActions /\ Report.height = "high"
  /\ \A p \in Plans : p[Len(p)].type = "land" =>
       /\ p[Len(p)].timeout >= 1 /\ p[Len(p)].timeout >= LandRetry
       /\ \A i \in 1 .. Len(p) : p[i].type # "complete"

\* A loop that waits for nothing has no call under way; an action received is new.
BridgeAwake ==
  /\ connected
  /\ ~action_handled => action_fresh
  /\ offboard_pc = "idle" => rpc["offboard"].status = "none"
  /\ action_pc = "idle" => rpc["action"].status = "none"

\* Nothing asks for Offboard, and the bridge is out of it.
Released ==
  /\ offboard_topic \in Seq({FALSE}) /\ enable_topic \in Seq({FALSE})
  /\ ~offboard_requested /\ ~mavsdk_offboard_enabled
  /\ ~offboard_active /\ offboard_pc = "idle"

\* Of the actions, only LAND is under way.
OnlyLand ==
  /\ action_topic \in Seq({NewAction("LAND")})
  /\ ~action_handled => latest_action.action = "LAND"
  /\ action_pc \in {"idle", "executing"}
  /\ action_pc = "executing" => rpc["action"].call = "LAND"

\* PX4 lands, or will.
Landing ==
  \/ px4_mode = "LAND"
  \/ action_topic # <<>> \/ ~action_handled
  \/ rpc["action"].status = "pending"

CursorTypes ==
  /\ plan \in Plans /\ step_index \in 1 .. Len(plan) + 1
  /\ step_age \in Nat /\ land_cmd_age \in 0 .. LandRetry

LandTimeout == plan[Len(plan)].timeout

\* The last step is under way, and is a landing ...
LandingStep ==
  plan[Len(plan)].type = "land" /\ mission_active /\ step_index = Len(plan)

\* ... or is behind.
Landed ==
  /\ plan[Len(plan)].type = "land" /\ step_index > Len(plan)
  /\ mission_active \/ state = "COMPLETE"

\* The last pass of the step finds it time to send LAND again.
LandComesAgain == LandRetry + step_age <= LandTimeout + 1 + land_cmd_age

LandingStepInv ==
  /\ step_age <= LandTimeout + 1
  /\ ~loop_due => step_age <= LandTimeout
  /\ ~loop_due /\ step_age >= 1 => offboard_request.last = {FALSE}
  /\ step_age >= 2 => Released /\ OnlyLand
  /\ LandComesAgain \/ (step_age >= 2 /\ Landing)

LandInv ==
  /\ HandoverInv /\ BridgeAwake /\ CursorTypes
  /\ state = "COMPLETE" /\ plan[Len(plan)].type = "land" => step_index > Len(plan)
  /\ LandingStep => LandingStepInv
  /\ Landed => Released /\ OnlyLand /\ Landing
LEMMA BridgeAwakeInit ==
  ASSUME NEW v, NEW f, InitWith(v, f)
  PROVE  BridgeAwake
BY DEF InitWith, BridgeAwake, NoCall, Loops

LEMMA BridgeAwakeRuns ==
  ASSUME KnowInv, BridgeAwake, OffboardLoop \/ ActionLoop \/ \E l \in Loops : PX4Serves(l)
  PROVE  BridgeAwake'
<1>1. rpc \in [Loops -> [call : Call, status : Status]]
  BY DEF KnowInv, EnterInv, CallTypes
<1>2. \A l \in Loops : AwaitsNothing(l) =>
        \A k \in Loops : rpc'[k] = IF k = l THEN NoCall ELSE rpc[k]
  BY <1>1 DEF AwaitsNothing
<1>3. \A l \in Loops : \A c : Issue(l, c) =>
        \A k \in Loops : k # l => rpc'[k] = rpc[k]
  BY <1>1 DEF Issue
<1>4. NoCall.status = "none" /\ Loops = {"offboard", "action"}
  BY DEF NoCall, Loops
<1>5. CASE OffboardLoop
  <2>1. connected' = connected /\ UNCHANGED <<action_handled, action_fresh, action_pc>>
    BY <1>5 DEF OffboardLoop, PauseForAction, ExecutorDisabled, PrimeOffboard,
      HoldWhileUnsafe, UsePrimeHold, FollowCommand, OffboardPreset, OffboardStarted,
      OffboardSent, OffboardStopped, OffboardAsleep, OffboardResumes, received,
      action_loop, KnowInv
  <2>2. /\ rpc'["action"] = rpc["action"]
        /\ offboard_pc' = "idle" => rpc'["offboard"].status = "none"
    BY <1>2, <1>3, <1>4, <1>5
    DEF OffboardLoop, PauseForAction, ExecutorDisabled, PrimeOffboard,
      HoldWhileUnsafe, UsePrimeHold, FollowCommand, OffboardPreset, OffboardStarted,
      OffboardSent, OffboardStopped, OffboardAsleep, OffboardResumes, StopAndSleep,
      SendSetpoint, SetBeforeStart, offboard_loop, BridgeAwake
  <2> QED BY <2>1, <2>2 DEF BridgeAwake
<1>6. CASE ActionLoop
  BY <1>2, <1>3, <1>4, <1>6
  DEF ActionLoop, TakeAction, ActionStopped, ActionAltitudeSet, ActionExecuted,
      ActionResumes, received, offboard_loop, BridgeAwake
<1>7. ASSUME NEW l \in Loops, PX4Serves(l)
      PROVE  BridgeAwake'
  BY <1>1, <1>4, <1>7
  DEF PX4Serves, Answer, received, offboard_loop, action_loop, BridgeAwake
<1> QED BY <1>5, <1>6, <1>7

LEMMA BridgeAwakeReceives ==
  ASSUME BridgeAwake,
         (\E on : OffboardEnableCallback(on)) \/ (\E msg : ActionCommandCallback(msg))
  PROVE  BridgeAwake'
BY DEF OffboardEnableCallback, ActionCommandCallback, offboard_loop, action_loop,
       received, BridgeAwake

\* Out of Offboard and with a LAND under way, the bridge can only land.
LEMMA ReleasedRuns ==
  ASSUME LinkFaults = FALSE, AllowMavsdkActions, KnowInv, BridgeAwake,
         Released, OnlyLand, BridgeRuns
  PROVE  Released' /\ OnlyLand' /\ (Landing => Landing')
<1>1. rpc \in [Loops -> [call : Call, status : Status]]
  BY DEF KnowInv, EnterInv, CallTypes
<1>2. UNCHANGED topics /\ offboard_requested' = offboard_requested
  BY Zenon DEF BridgeRuns, manager
<1>3. CASE OffboardLoop
  <2>1. /\ UNCHANGED <<mavsdk_offboard_enabled, offboard_active, offboard_pc, rpc,
                       px4_mode, action_handled, action_pc, latest_action>>
    BY <1>3 DEF OffboardLoop, PauseForAction, ExecutorDisabled, PrimeOffboard,
      HoldWhileUnsafe, UsePrimeHold, FollowCommand, OffboardPreset, OffboardStarted,
      OffboardSent, OffboardStopped, OffboardAsleep, OffboardResumes, StopAndSleep,
      SafeForOffboard, CommandValid, received, action_loop, offboard_loop, px4, Released
  <2> QED BY <1>2, <2>1 DEF Released, OnlyLand, Landing, topics
<1>4. CASE ActionLoop
  <2>1. /\ UNCHANGED <<mavsdk_offboard_enabled, offboard_pc, px4_mode, latest_action>>
        /\ ~offboard_active'
    BY <1>4 DEF ActionLoop, TakeAction, ActionStopped, ActionAltitudeSet,
      ActionExecuted, ActionResumes, Stopped, received, offboard_loop, px4, Released
  <2>2. Released'
    BY <1>2, <2>1 DEF Released, topics
  <2>3. CASE TakeAction
    <3>1. ActionAccepted /\ latest_action.action = "LAND"
      BY <2>3
      DEF TakeAction, ActionAccepted, BridgeAwake, OnlyLand, ActionPolicyAllows
    <3>2. rpc'["action"] = [call |-> "LAND", status |-> "pending"]
      BY <1>1, <2>3, <3>1 DEF TakeAction, Released, Issue, FirstCall, Loops
    <3>3. action_pc' = "executing" /\ action_handled'
      BY <2>3, <3>1 DEF TakeAction, Released
    <3> QED BY <1>2, <2>1, <2>2, <3>2, <3>3 DEF OnlyLand, Landing, topics
  <2>4. CASE ActionExecuted
    <3>1. /\ action_pc' = "idle" /\ action_handled' = action_handled
          /\ rpc["action"].status # "pending"
      BY <2>4 DEF ActionExecuted, ActionResumes, Answered
    <3> QED BY <1>2, <2>1, <2>2, <3>1 DEF OnlyLand, Landing, topics
  <2>5. ~ActionStopped /\ ~ActionAltitudeSet
    BY DEF ActionStopped, ActionAltitudeSet, ActionResumes, OnlyLand
  <2> QED BY <1>4, <2>3, <2>4, <2>5 DEF ActionLoop
<1>5. ASSUME NEW l \in Loops, PX4Serves(l)
      PROVE  Released' /\ OnlyLand' /\ (Landing => Landing')
  <2>1. l = "action" /\ action_pc = "executing" /\ rpc[l].call = "LAND"
    BY <1>5 DEF PX4Serves, Loops, Released, BridgeAwake, OnlyLand
  <2>2. px4_mode' = "LAND"
    BY <1>5, <2>1 DEF PX4Serves, TakeEffect, Mode
  <2>3. rpc'["action"].call = "LAND"
    BY <1>1, <1>5, <2>1 DEF PX4Serves, Answer, Loops
  <2>4. UNCHANGED <<mavsdk_offboard_enabled, offboard_active, offboard_pc,
                    action_handled, action_pc, latest_action>>
    BY <1>5 DEF PX4Serves, received, offboard_loop, action_loop
  <2> QED BY <1>2, <2>2, <2>3, <2>4 DEF Released, OnlyLand, Landing, topics
<1> QED BY <1>3, <1>4, <1>5 DEF BridgeRuns
LEMMA RestOfQueue ==
  ASSUME NEW S, NEW queue \in Seq(S), queue # <<>>
  PROVE  Head(queue) \in S /\ Tail(queue) \in Seq(S)
OBVIOUS

LEMMA ReleasedReceives ==
  ASSUME Released, OnlyLand, BridgeReceives
  PROVE  Released' /\ OnlyLand' /\ (Landing => Landing')
<1>1. offboard_topic' = offboard_topic /\ offboard_requested' = offboard_requested
  BY Zenon DEF BridgeReceives, manager
<1>2. ASSUME enable_topic # <<>>, OffboardEnableCallback(Head(enable_topic)),
             enable_topic' = Tail(enable_topic), action_topic' = action_topic
      PROVE  Released' /\ OnlyLand' /\ (Landing => Landing')
  <2>1. Head(enable_topic) \in {FALSE} /\ enable_topic' \in Seq({FALSE})
    <3>1. enable_topic \in Seq({FALSE})
      BY DEF Released
    <3> QED BY <1>2, <3>1, RestOfQueue
  <2>2. /\ ~mavsdk_offboard_enabled'
        /\ UNCHANGED <<offboard_active, offboard_pc, rpc, px4_mode, action_handled,
                       action_pc, latest_action>>
    BY <1>2, <2>1
    DEF OffboardEnableCallback, received, offboard_loop, action_loop, px4
  <2> QED BY <1>1, <1>2, <2>1, <2>2 DEF Released, OnlyLand, Landing
<1>3. ASSUME action_topic # <<>>, ActionCommandCallback(Head(action_topic)),
             action_topic' = Tail(action_topic), enable_topic' = enable_topic
      PROVE  Released' /\ OnlyLand' /\ Landing'
  <2>1. /\ Head(action_topic) = NewAction("LAND")
        /\ action_topic' \in Seq({NewAction("LAND")})
    BY <1>3, RestOfQueue DEF OnlyLand
  <2>2. /\ ~action_handled' /\ latest_action'.action = "LAND"
        /\ UNCHANGED <<mavsdk_offboard_enabled, offboard_active, offboard_pc, rpc,
                       action_pc>>
    BY <1>3, <2>1 DEF ActionCommandCallback, NewAction, offboard_loop
  <2> QED BY <1>1, <1>3, <2>1, <2>2 DEF Released, OnlyLand, Landing
<1> QED BY <1>2, <1>3 DEF BridgeReceives

\* The manager has no request to follow but releases.
LEMMA ReleasedManager ==
  ASSUME Released, OnlyLand, ManagerReceives \/ ManagerTimer
  PROVE  Released' /\ OnlyLand' /\ (Landing => Landing')
<1>1. /\ UNCHANGED vars /\ UNCHANGED action_topic
      /\ UNCHANGED <<mavsdk_offboard_enabled, offboard_active, offboard_pc, rpc,
                     px4_mode, action_handled, action_pc, latest_action>>
  BY DEF ManagerReceives, ManagerTimer, vars, received, offboard_loop, action_loop, px4
<1>2. OnlyLand' /\ (Landing => Landing')
  BY <1>1 DEF OnlyLand, Landing
<1>3. CASE ManagerTimer
  <2>1. /\ offboard_topic' = offboard_topic
        /\ ~offboard_requested' /\ offboard_enabled' = FALSE
        /\ enable_topic' = KeepLast(enable_topic, <<offboard_enabled'>>)
    BY <1>3, Zenon DEF ManagerTimer, Manager!UpdateStateMachine, Released
  <2>2. <<FALSE>> \in Seq({FALSE})
    OBVIOUS
  <2>3. enable_topic' \in Seq({FALSE})
    BY <2>1, <2>2, NewestIsKept DEF Released
  <2> QED BY <1>1, <1>2, <2>1, <2>3 DEF Released
<1>4. CASE ManagerReceives
  <2>1. /\ offboard_topic' \in Seq({FALSE}) /\ enable_topic' = enable_topic
    BY <1>4, RestOfQueue DEF ManagerReceives, Released
  <2>2. offboard_topic # <<>> => Head(offboard_topic) \in {FALSE}
    BY RestOfQueue DEF Released
  <2>3. ~offboard_requested'
    BY <1>4, <2>2, Zenon
    DEF ManagerReceives, Released, Manager!AutonomyRequestCallback,
        Manager!OffboardRequestCallback
  <2> QED BY <1>1, <1>2, <2>1, <2>3 DEF Released
<1> QED BY <1>3, <1>4

\* The executor goes on asking for the release and sending LAND.
LEMMA ReleasedPublishes ==
  ASSUME Released, OnlyLand, ExecutorPublishes, UNCHANGED <<manager, vars>>,
         offboard_request' \in Request, AsksNothing \/ Asks(FALSE),
         actions' \in Seq({NewAction("LAND")})
  PROVE  /\ Released' /\ OnlyLand'
         /\ Landing \/ actions' # <<>> => Landing'
<1>1. offboard_request'.out \in Seq({FALSE})
  <2>1. <<FALSE>> \in Seq({FALSE}) /\ <<>> \in Seq({FALSE})
    OBVIOUS
  <2> QED BY <2>1 DEF AsksNothing, Asks
<1>2. offboard_topic' \in Seq({FALSE}) /\ enable_topic' = enable_topic
  BY <1>1, NewestIsKept DEF ExecutorPublishes, Released
<1>3. /\ action_topic' \in Seq({NewAction("LAND")})
      /\ action_topic \o actions' # <<>> => action_topic' # <<>>
  BY NewestIsKept DEF ExecutorPublishes, OnlyLand
<1>4. action_topic # <<>> \/ actions' # <<>> => action_topic \o actions' # <<>>
  <2>1. \A q, r \in Seq({NewAction("LAND")}) : q # <<>> \/ r # <<>> => q \o r # <<>>
    OBVIOUS
  <2> QED BY <2>1 DEF OnlyLand
<1>5. offboard_requested' = offboard_requested
  BY Zenon DEF manager
<1>6. UNCHANGED <<mavsdk_offboard_enabled, offboard_active, offboard_pc, rpc,
                  px4_mode, action_handled, action_pc, latest_action>>
  BY DEF vars, received, offboard_loop, action_loop, px4
<1> QED BY <1>2, <1>3, <1>4, <1>5, <1>6 DEF Released, OnlyLand, Landing

\* Once the executor has asked for the release, everything settles in it.
LEMMA SettlesReleased ==
  ASSUME HandoverInv, BridgeAwake, Settled, offboard_request.last = {FALSE}
  PROVE  Released /\ OnlyLand
<1>1. offboard_topic = <<>> /\ enable_topic = <<>> /\ action_topic = <<>>
  BY Zenon DEF Settled, topics
<1>2. ~offboard_requested
  <2>1. {FALSE} # {TRUE}
    OBVIOUS
  <2> QED BY <1>1, <2>1, Zenon DEF HandoverInv, NewestIsLast
<1>3. offboard_enabled = FALSE
  BY <1>2 DEF Settled
<1>4. ~mavsdk_offboard_enabled /\ ~offboard_active /\ offboard_pc = "idle"
  BY <1>3, Zenon DEF Settled
<1> QED BY <1>1, <1>2, <1>4 DEF Settled, Released, OnlyLand

LEMMA SettlesLanding ==
  ASSUME BridgeAwake, Landing, Settled
  PROVE  px4_mode = "LAND"
<1>1. action_topic = <<>>
  BY Zenon DEF Settled, topics
<1> QED BY <1>1 DEF Settled, BridgeAwake, Landing
\* A pass through any step stays in it or begins the next one.
PassMoves ==
  /\ mission_active' = mission_active /\ plan' = plan /\ loop_due' = FALSE
  /\ state' = Executor!StateOf(plan[step_index].type)
  /\ \/ step_index' = step_index /\ step_age' = step_age
     \/ step_index' = step_index + 1 /\ step_age' = 0
  /\ land_cmd_age' \in 0 .. LandRetry

LEMMA HandlersMove ==
  ASSUME CursorTypes,
         \/ Executor!StepTakeoff \/ Executor!StepPrimeOffboard \/ Executor!StepScan
         \/ Executor!StepTrackCenter \/ Executor!StepApproach \/ Executor!StepGoto
         \/ Executor!StepOrbit \/ Executor!StepRtl \/ Executor!StepLand
         \/ Executor!StepHold
  PROVE  mission_active /\ step_index <= Len(plan) /\ PassMoves
<1>1. \A offboard, mode, yaw_rate, done :
        Executor!Pass(offboard, mode, yaw_rate, done) /\ land_cmd_age' \in 0 .. LandRetry
          => PassMoves
  BY DEF Executor!Pass, Executor!Step, PassMoves
<1>2. land_cmd_age \in 0 .. LandRetry /\ 0 \in 0 .. LandRetry
  BY HandoverAssumption DEF CursorTypes
<1>3. Executor!NoAction => land_cmd_age' \in 0 .. LandRetry
  BY <1>2 DEF Executor!NoAction
<1>4. \A offboard : Executor!Blocked(offboard) => PassMoves
  BY <1>1, <1>3 DEF Executor!Blocked
<1> USE DEF Executor!InStep, Executor!Running
<1>5. CASE Executor!StepTakeoff
  BY <1>1, <1>2, <1>3, <1>4, <1>5 DEF Executor!StepTakeoff
<1>6. CASE Executor!StepPrimeOffboard
  BY <1>1, <1>3, <1>4, <1>6 DEF Executor!StepPrimeOffboard
<1>7. CASE Executor!StepScan
  BY <1>1, <1>3, <1>4, <1>7 DEF Executor!StepScan
<1>8. CASE Executor!StepTrackCenter
  BY <1>1, <1>3, <1>4, <1>8 DEF Executor!StepTrackCenter
<1>9. CASE Executor!StepApproach
  BY <1>1, <1>3, <1>4, <1>9 DEF Executor!StepApproach
<1>10. CASE Executor!StepGoto
  BY <1>1, <1>2, <1>3, <1>4, <1>10 DEF Executor!StepGoto
<1>11. CASE Executor!StepOrbit
  BY <1>1, <1>2, <1>3, <1>4, <1>11 DEF Executor!StepOrbit
<1>12. CASE Executor!StepRtl
  BY <1>1, <1>2, <1>12 DEF Executor!StepRtl
<1>13. CASE Executor!StepLand
  BY <1>1, <1>2, <1>13 DEF Executor!StepLand
<1>14. CASE Executor!StepHold
  BY <1>1, <1>3, <1>14 DEF Executor!StepHold
<1> QED BY <1>5, <1>6, <1>7, <1>8, <1>9, <1>10, <1>11, <1>12, <1>13, <1>14

\* A pass through a landing, in the air: it releases, sends LAND when it is time, and
\* ends with the time-out.
LEMMA LandMoves ==
  ASSUME LandingHasTime, offboard_request \in Request, last_telemetry = Report,
         Executor!StepLand
  PROVE  /\ offboard_request' \in Request /\ Asks(FALSE)
         /\ actions' \in Seq({NewAction("LAND")})
         /\ IF land_cmd_age >= LandRetry THEN land_cmd_age' = 0 /\ actions' # <<>>
                                         ELSE land_cmd_age' = land_cmd_age
         /\ IF step_age > plan[step_index].timeout THEN step_index' = step_index + 1
                                                   ELSE step_index' = step_index
<1>1. Executor!IsAirborne
  BY DEF LandingHasTime, Executor!IsAirborne
<1>2. offboard_request' \in Request /\ Asks(FALSE)
  <2>1. offboard_request' =
          Executor!Publish(Executor!Quiet(offboard_request), TRUE \in {FALSE})
    BY DEF Executor!StepLand, Executor!Pass
  <2>2. (TRUE \in {FALSE}) = FALSE
    OBVIOUS
  <2> QED BY <2>1, <2>2, PublishAsks
<1>3. actions' = <<>> \/ actions' = <<NewAction("LAND")>>
  BY DEF Executor!StepLand, Executor!SendActionOnce, NewAction
<1>4. actions' \in Seq({NewAction("LAND")})
  <2> DEFINE land == NewAction("LAND")
  <2>1. actions' = <<>> \/ actions' = <<land>>
    BY <1>3
  <2> HIDE DEF land
  <2>2. <<>> \in Seq({land}) /\ <<land>> \in Seq({land})
    OBVIOUS
  <2>3. actions' \in Seq({land})
    BY <2>1, <2>2, Zenon
  <2> QED BY <2>3 DEF land
<1>5. IF land_cmd_age >= LandRetry THEN land_cmd_age' = 0 /\ actions' # <<>>
                                   ELSE land_cmd_age' = land_cmd_age
  BY <1>1 DEF Executor!StepLand, Executor!SendActionOnce
<1>6. IF step_age > plan[step_index].timeout THEN step_index' = step_index + 1
                                             ELSE step_index' = step_index
  BY <1>1 DEF Executor!StepLand, Executor!Pass, Executor!Step
<1> QED BY <1>2, <1>4, <1>5, <1>6

\* The last step of a plan that ends with a landing.
LEMMA LastStep ==
  ASSUME LandingHasTime, CursorTypes, plan[Len(plan)].type = "land"
  PROVE  /\ Len(plan) \in Nat \ {0}
         /\ LandTimeout \in Nat /\ LandRetry \in Nat /\ MaxStepAge \in Nat
         /\ LandTimeout >= 1 /\ LandTimeout >= LandRetry /\ LandTimeout < MaxStepAge
         /\ \A i \in 1 .. Len(plan) :
              plan[i].type \in Executor!StepType \ {"complete"}
<1>1. plan \in Seq(Executor!PlanStep) /\ plan # <<>>
  BY HandoverAssumption DEF CursorTypes
<1>2. Len(plan) \in Nat \ {0} /\ Len(plan) \in 1 .. Len(plan)
  BY <1>1
<1>3. \A i \in 1 .. Len(plan) : plan[i] \in Executor!PlanStep
  BY <1>1
<1>4. \A i \in 1 .. Len(plan) :
        plan[i].type \in Executor!StepType /\ plan[i].timeout \in Nat
  BY <1>3 DEF Executor!PlanStep
<1>5. plan \in Plans
  BY DEF CursorTypes
<1> QED BY <1>2, <1>4, <1>5, HandoverAssumption DEF LandingHasTime, LandTimeout

LEMMA OnlyCompleteSaysComplete ==
  \A type \in Executor!StepType \ {"complete"} : Executor!StateOf(type) # "COMPLETE"
BY DEF Executor!StepType, Executor!StateOf
\* A step that leaves the cursor alone, and a release and a LAND under way in place.
LEMMA LandInvKept ==
  ASSUME LandInv, HandoverInv', BridgeAwake',
         UNCHANGED <<state, mission_active, plan, step_index, step_age, land_cmd_age,
                     loop_due>>,
         offboard_request'.last = offboard_request.last,
         Released /\ OnlyLand => Released' /\ OnlyLand' /\ (Landing => Landing')
  PROVE  LandInv'
<1>1. CursorTypes' /\ LandTimeout' = LandTimeout
  BY DEF LandInv, CursorTypes, LandTimeout
<1>2. LandingStep' => LandingStepInv'
  BY <1>1 DEF LandInv, LandingStep, LandingStepInv, LandComesAgain
<1>3. Landed' => Released' /\ OnlyLand' /\ Landing'
  BY DEF LandInv, Landed
<1> QED BY <1>1, <1>2, <1>3 DEF LandInv

LEMMA LandInvLandingPass ==
  ASSUME LandingHasTime, LandInv, HandoverInv', BridgeAwake', LandingStep,
         Executor!StepLand, loop_due, last_telemetry = Report, ExecutorPublishes,
         UNCHANGED <<manager, vars>>
  PROVE  LandInv'
<1>1. /\ CursorTypes /\ LandingStepInv /\ offboard_request \in Request
      /\ step_index = Len(plan) /\ plan[step_index].timeout = LandTimeout
      /\ plan[Len(plan)].type = "land"
  BY DEF LandInv, LandingStep, HandoverInv, ReleaseInv, LandTimeout
<1>2. PassMoves
  BY <1>1, HandlersMove
<1>3. /\ offboard_request' \in Request /\ Asks(FALSE)
      /\ actions' \in Seq({NewAction("LAND")})
      /\ IF land_cmd_age >= LandRetry THEN land_cmd_age' = 0 /\ actions' # <<>>
                                      ELSE land_cmd_age' = land_cmd_age
      /\ IF step_age > LandTimeout THEN step_index' = step_index + 1
                                   ELSE step_index' = step_index
  BY <1>1, LandMoves
<1>4. /\ Len(plan) \in Nat \ {0}
      /\ LandTimeout \in Nat /\ LandRetry \in Nat
      /\ LandTimeout >= 1 /\ LandTimeout >= LandRetry
      /\ step_age \in Nat /\ land_cmd_age \in 0 .. LandRetry
  BY <1>1, LastStep DEF CursorTypes
<1>5. CursorTypes' /\ plan' = plan /\ LandTimeout' = LandTimeout
  <2>1. step_index' \in 1 .. Len(plan) + 1 /\ step_age' \in Nat
    BY <1>1, <1>2, <1>3, <1>4 DEF PassMoves
  <2> QED BY <1>1, <1>2, <2>1 DEF PassMoves, CursorTypes, LandTimeout
<1>6. state' # "COMPLETE" /\ mission_active'
  <2>1. plan[step_index].type \in Executor!StepType \ {"complete"}
    BY <1>1, <1>4, LastStep
  <2> QED BY <1>2, <2>1, OnlyCompleteSaysComplete DEF PassMoves, LandingStep
<1>7. step_age >= 2 =>
        /\ Released' /\ OnlyLand' /\ (Landing \/ actions' # <<>> => Landing')
  BY <1>1, <1>3, ReleasedPublishes DEF LandingStepInv
<1>8. CASE step_age > LandTimeout
  <2>1. step_age >= 2 /\ step_index' = Len(plan) + 1
    BY <1>1, <1>3, <1>4, <1>8
  <2>2. Landing \/ land_cmd_age >= LandRetry
    BY <1>1, <1>4, <1>8 DEF LandingStepInv, LandComesAgain
  <2>3. Released' /\ OnlyLand' /\ Landing'
    BY <1>3, <1>7, <2>1, <2>2
  <2>4. ~LandingStep' /\ step_index' > Len(plan')
    BY <1>4, <1>5, <2>1 DEF LandingStep
  <2> QED BY <1>5, <2>3, <2>4 DEF LandInv
<1>9. CASE ~(step_age > LandTimeout)
  <2>1. step_age <= LandTimeout /\ step_index' = Len(plan) /\ step_age' = step_age
    BY <1>1, <1>2, <1>3, <1>4, <1>9 DEF PassMoves
  <2>2. ~Landed'
    BY <1>4, <1>5, <2>1 DEF Landed
  <2>3. offboard_request'.last = {FALSE}
    BY <1>3 DEF Asks
  <2>4. LandComesAgain' \/ (step_age >= 2 /\ Landing')
    <3>1. CASE land_cmd_age >= LandRetry
      <4>1. land_cmd_age' = 0 /\ actions' # <<>>
        BY <1>3, <3>1
      <4>2. CASE step_age >= 2
        BY <1>7, <4>1, <4>2
      <4>3. CASE step_age < 2
        BY <1>4, <1>5, <2>1, <4>1, <4>3 DEF LandComesAgain
      <4> QED BY <1>4, <4>2, <4>3
    <3>2. CASE ~(land_cmd_age >= LandRetry)
      BY <1>1, <1>3, <1>5, <1>7, <2>1, <3>2 DEF LandingStepInv, LandComesAgain
    <3> QED BY <3>1, <3>2
  <2>5. LandingStepInv'
    BY <1>4, <1>5, <1>7, <2>1, <2>3, <2>4 DEF LandingStepInv
  <2> QED BY <1>5, <1>6, <2>2, <2>5 DEF LandInv
<1> QED BY <1>8, <1>9
LEMMA CursorTypesLoop ==
  ASSUME CursorTypes, Executor!Loop
  PROVE  CursorTypes' /\ plan' = plan
<1>1. CASE Executor!EnterComplete \/ Executor!LoopIdle
  BY <1>1
  DEF Executor!EnterComplete, Executor!LoopIdle, Executor!plan_cursor, CursorTypes
<1>2. CASE ~(Executor!EnterComplete \/ Executor!LoopIdle)
  <2>1. step_index <= Len(plan) /\ PassMoves
    BY <1>2, HandlersMove DEF Executor!Loop
  <2>2. Len(plan) \in Nat
    BY HandoverAssumption DEF CursorTypes
  <2> QED BY <2>1, <2>2 DEF PassMoves, CursorTypes
<1> QED BY <1>1, <1>2

LEMMA LandInvLoop ==
  ASSUME LandingHasTime, LandInv, HandoverInv', BridgeAwake', ExecutorLoop
  PROVE  LandInv'
<1>1. /\ CursorTypes /\ offboard_request \in Request /\ Executor!Loop /\ loop_due
      /\ last_telemetry = Report /\ ExecutorPublishes /\ UNCHANGED <<manager, vars>>
  BY DEF LandInv, HandoverInv, ReleaseInv, ExecutorLoop
<1> DEFINE Handled ==
      \/ Executor!StepTakeoff \/ Executor!StepPrimeOffboard \/ Executor!StepScan
      \/ Executor!StepTrackCenter \/ Executor!StepApproach \/ Executor!StepGoto
      \/ Executor!StepOrbit \/ Executor!StepRtl \/ Executor!StepHold
<1>2. CASE plan[Len(plan)].type # "land"
  <2>1. plan' = plan /\ CursorTypes'
    BY <1>1, CursorTypesLoop
  <2> QED BY <1>2, <2>1 DEF LandInv, LandingStep, Landed
<1>3. ASSUME plan[Len(plan)].type = "land"
      PROVE  LandInv'
  <2>1. /\ Len(plan) \in Nat \ {0}
        /\ LandTimeout \in Nat /\ LandRetry \in Nat /\ LandTimeout >= LandRetry
        /\ \A i \in 1 .. Len(plan) : plan[i].type \in Executor!StepType \ {"complete"}
    BY <1>1, <1>3, LastStep
  <2>2. step_index \in 1 .. Len(plan) + 1 /\ land_cmd_age \in 0 .. LandRetry
    BY <1>1 DEF CursorTypes
  <2>3. CASE Executor!StepLand /\ LandingStep
    BY <1>1, <2>3, LandInvLandingPass
  <2>4. CASE (Handled \/ Executor!StepLand) /\ ~LandingStep
    <3>1. mission_active /\ step_index <= Len(plan) /\ PassMoves
      BY <1>1, <2>4, HandlersMove
    <3>2. step_index < Len(plan)
      BY <1>3, <2>1, <2>2, <2>4, <3>1 DEF LandingStep
    <3>3. plan' = plan /\ step_index' \in 1 .. Len(plan) /\ LandTimeout' = LandTimeout
      BY <2>1, <2>2, <3>1, <3>2 DEF PassMoves, LandTimeout
    <3>4. state' # "COMPLETE"
      BY <2>1, <2>2, <3>1, OnlyCompleteSaysComplete DEF PassMoves
    <3>5. CursorTypes'
      BY <1>1, <2>1, <3>1, <3>3 DEF PassMoves, CursorTypes
    <3>6. LandingStep' => step_age' = 0
      BY <2>1, <2>2, <3>1, <3>2, <3>3 DEF PassMoves, LandingStep
    <3>7. LandingStep' => LandingStepInv'
      BY <2>1, <3>1, <3>3, <3>6 DEF PassMoves, LandingStepInv, LandComesAgain
    <3>8. ~Landed'
      BY <2>1, <3>3 DEF Landed
    <3> QED BY <3>4, <3>5, <3>7, <3>8 DEF LandInv
  <2>5. CASE Handled /\ LandingStep
    <3>1. plan[step_index].type = "land"
      BY <2>5 DEF LandingStep
    <3> QED BY <2>5, <3>1
        DEF Executor!StepTakeoff, Executor!StepPrimeOffboard, Executor!StepScan,
            Executor!StepTrackCenter, Executor!StepApproach, Executor!StepGoto,
            Executor!StepOrbit, Executor!StepRtl, Executor!StepHold, Executor!InStep,
            Executor!Step
  <2>6. CASE Executor!EnterComplete
    <3>1. /\ mission_active /\ step_index > Len(plan)
          /\ state' = "COMPLETE" /\ mission_active' = FALSE
          /\ UNCHANGED <<plan, step_index, step_age, land_cmd_age>>
      BY <2>1, <2>2, <2>6
      DEF Executor!EnterComplete, Executor!InStep, Executor!Running, Executor!Step,
          Executor!plan_cursor
    <3>2. Released /\ OnlyLand /\ Landing
      BY <1>3, <3>1 DEF LandInv, Landed
    <3>3. offboard_request' \in Request /\ Asks(FALSE) /\ actions' = <<>>
      BY <1>1, <2>6, PublishAsks DEF Executor!EnterComplete
    <3>4. <<>> \in Seq({NewAction("LAND")})
      OBVIOUS
    <3>5. Released' /\ OnlyLand' /\ Landing'
      BY <1>1, <3>2, <3>3, <3>4, ReleasedPublishes
    <3>6. CursorTypes' /\ ~LandingStep' /\ step_index' > Len(plan')
      BY <1>1, <3>1 DEF CursorTypes, LandingStep
    <3> QED BY <3>5, <3>6 DEF LandInv
  <2>7. CASE Executor!LoopIdle
    <3>1. /\ ~mission_active /\ ~mission_active' /\ state' = state
          /\ UNCHANGED <<plan, step_index, step_age, land_cmd_age>>
          /\ AsksNothing /\ offboard_request' \in Request /\ actions' = <<>>
      BY <1>1, <2>7, QuietAsksNothing
      DEF Executor!LoopIdle, Executor!plan_cursor, AsksNothing
    <3>2. CursorTypes' /\ ~LandingStep' /\ (Landed' => Landed)
      BY <1>1, <3>1 DEF CursorTypes, LandingStep, Landed
    <3>3. <<>> \in Seq({NewAction("LAND")})
      OBVIOUS
    <3>4. Landed' => Released' /\ OnlyLand' /\ Landing'
      BY <1>1, <3>1, <3>2, <3>3, ReleasedPublishes DEF LandInv
    <3> QED BY <3>1, <3>2, <3>4 DEF LandInv
  <2> QED BY <1>1, <2>3, <2>4, <2>5, <2>6, <2>7 DEF Executor!Loop
<1> QED BY <1>2, <1>3

\* A start begins with a step that is not behind; a stop leaves none under way.
LEMMA LandInvRequest ==
  ASSUME LandingHasTime, LandInv, HandoverInv', BridgeAwake', NEW on,
         Executor!MissionRequestCallback(on)
  PROVE  LandInv'
<1>1. CursorTypes /\ LandRetry \in Nat
  BY HandoverAssumption DEF LandInv
<1>2. CASE Executor!MissionStop
  <2>1. /\ ~mission_active' /\ state' = "IDLE"
        /\ UNCHANGED <<plan, step_index, step_age, land_cmd_age>>
    BY <1>2 DEF Executor!MissionStop
  <2>2. CursorTypes'
    BY <1>1, <2>1 DEF CursorTypes
  <2> QED BY <2>1, <2>2 DEF LandInv, LandingStep, Landed
<1>3. CASE Executor!MissionStart
  <2>1. /\ mission_active' /\ plan' = plan /\ step_index' = 1 /\ step_age' = 0
        /\ land_cmd_age' = LandRetry /\ state' = Executor!StateOf(plan[1].type)
    BY <1>3 DEF Executor!MissionStart
  <2>2. Len(plan) \in Nat \ {0}
    BY <1>1, HandoverAssumption DEF CursorTypes
  <2>3. CursorTypes'
    BY <1>1, <2>1, <2>2 DEF CursorTypes
  <2>4. CASE plan[Len(plan)].type # "land"
    BY <2>1, <2>3, <2>4 DEF LandInv, LandingStep, Landed
  <2>5. ASSUME plan[Len(plan)].type = "land"
        PROVE  LandInv'
    <3>1. /\ LandTimeout \in Nat
          /\ plan[1].type \in Executor!StepType \ {"complete"}
      BY <1>1, <2>2, <2>5, LastStep
    <3>2. state' # "COMPLETE" /\ ~Landed'
      BY <2>1, <2>2, <3>1, OnlyCompleteSaysComplete DEF Landed
    <3>3. LandingStepInv'
      BY <1>1, <2>1, <3>1 DEF LandingStepInv, LandComesAgain, LandTimeout
    <3> QED BY <2>3, <3>2, <3>3 DEF LandInv
  <2> QED BY <2>4, <2>5
<1> QED BY <1>2, <1>3 DEF Executor!MissionRequestCallback
\* What settles in a unit of the landing's time is the release.
LEMMA LandInvElapse ==
  ASSUME LandingHasTime, LandInv, HandoverInv', BridgeAwake', Elapse
  PROVE  LandInv'
<1>1. /\ CursorTypes /\ Settled /\ Executor!Elapse /\ ~loop_due
      /\ UNCHANGED <<manager, vars, topics>>
      /\ UNCHANGED <<state, mission_active, plan, step_index>>
      /\ LandTimeout' = LandTimeout
  BY DEF LandInv, Elapse, Executor!Elapse, LandTimeout
<1>2. Released /\ OnlyLand => Released' /\ OnlyLand' /\ (Landing => Landing')
  <2>1. offboard_requested' = offboard_requested
    BY <1>1, Zenon DEF manager
  <2>2. UNCHANGED <<mavsdk_offboard_enabled, offboard_active, offboard_pc, rpc,
                    px4_mode, action_handled, action_pc, latest_action,
                    offboard_topic, enable_topic, action_topic>>
    BY <1>1 DEF vars, received, offboard_loop, action_loop, px4, topics
  <2> QED BY <2>1, <2>2 DEF Released, OnlyLand, Landing
<1>3. /\ step_age \in Nat /\ land_cmd_age \in 0 .. LandRetry
      /\ LandRetry \in Nat /\ MaxStepAge \in Nat
  BY <1>1, HandoverAssumption DEF CursorTypes
<1>4. /\ step_age' = IF step_age < MaxStepAge THEN step_age + 1 ELSE step_age
      /\ land_cmd_age' = IF land_cmd_age < LandRetry THEN land_cmd_age + 1
                                                     ELSE land_cmd_age
  BY <1>1 DEF Executor!Elapse, Executor!Aged
<1>5. CursorTypes'
  BY <1>1, <1>3, <1>4 DEF CursorTypes
<1>6. ASSUME LandingStep
      PROVE  LandingStepInv'
  <2>1. /\ LandTimeout \in Nat /\ LandTimeout >= 1 /\ LandTimeout < MaxStepAge
    BY <1>1, <1>6, LastStep DEF LandingStep
  <2>2. LandingStepInv /\ step_age <= LandTimeout
    BY <1>1, <1>6 DEF LandInv, LandingStepInv
  <2>3. step_age' = step_age + 1 /\ loop_due'
    BY <1>1, <1>3, <1>4, <2>1, <2>2 DEF Executor!Elapse
  <2>4. step_age' >= 2 => Released /\ OnlyLand
    <3>1. step_age' >= 2 => step_age >= 1
      BY <1>3, <2>3
    <3>2. step_age' >= 2 => offboard_request.last = {FALSE}
      BY <1>1, <2>2, <3>1, Zenon DEF LandingStepInv
    <3> QED BY <1>1, <3>2, SettlesReleased DEF LandInv
  <2>5. LandComesAgain => LandComesAgain'
    BY <1>1, <1>3, <1>4, <2>1, <2>2, <2>3 DEF LandComesAgain
  <2>6. step_age >= 2 => step_age' >= 2
    BY <1>3, <2>3
  <2> QED BY <1>1, <1>2, <1>3, <2>1, <2>2, <2>3, <2>4, <2>5, <2>6 DEF LandingStepInv
<1>7. (LandingStep' => LandingStep) /\ (Landed' => Landed)
  BY <1>1 DEF LandingStep, Landed
<1>8. Landed' => Released' /\ OnlyLand' /\ Landing'
  BY <1>2, <1>7 DEF LandInv
<1> QED BY <1>1, <1>5, <1>6, <1>7, <1>8 DEF LandInv

LEMMA LandInvInit ==
  ASSUME LandingHasTime, HandoverInit
  PROVE  LandInv
<1>1. HandoverInv /\ BridgeAwake
  BY HandoverInvInit, BridgeAwakeInit DEF HandoverInit
<1>2. /\ state = "IDLE" /\ ~mission_active /\ plan \in Plans
      /\ step_index = 1 /\ step_age = 0 /\ land_cmd_age = LandRetry
  BY DEF HandoverInit, Executor!Init
<1>3. CursorTypes
  <2>1. Len(plan) \in Nat \ {0} /\ LandRetry \in Nat
    BY <1>2, HandoverAssumption
  <2> QED BY <1>2, <2>1 DEF CursorTypes
<1> QED BY <1>1, <1>2, <1>3 DEF LandInv, LandingStep, Landed

LEMMA LandInvNext ==
  ASSUME LinkFaults = FALSE, Preemption = FALSE, LandingHasTime, LandInv,
         [HandoverNext]_all_nodes
  PROVE  LandInv'
<1>1. HandoverInv'
  BY HandoverInvNext DEF LandInv
<1> DEFINE Cursor == <<state, mission_active, plan, step_index, step_age, land_cmd_age,
                       loop_due>>
           Same == UNCHANGED Cursor /\ offboard_request'.last = offboard_request.last
<1>2. ASSUME UNCHANGED executor PROVE Same
  BY <1>2 DEF executor
<1>3. ASSUME UNCHANGED vars PROVE BridgeAwake'
  BY <1>3 DEF LandInv, BridgeAwake, vars, received, offboard_loop, action_loop
<1>4. CASE OperatorRequests \/ ExecutorReceives
  <2>1. BridgeAwake' /\ \E on : Executor!MissionRequestCallback(on)
    BY <1>3, <1>4 DEF OperatorRequests, ExecutorReceives
  <2> QED BY <1>1, <2>1, LandInvRequest
<1>5. CASE ExecutorLoop
  <2>1. BridgeAwake'
    BY <1>3, <1>5 DEF ExecutorLoop
  <2> QED BY <1>1, <1>5, <2>1, LandInvLoop
<1>6. CASE Elapse
  <2>1. BridgeAwake'
    BY <1>3, <1>6 DEF Elapse
  <2> QED BY <1>1, <1>6, <2>1, LandInvElapse
<1>7. CASE ManagerReceives \/ ManagerTimer
  <2>1. Same /\ BridgeAwake'
    BY <1>2, <1>3, <1>7 DEF ManagerReceives, ManagerTimer
  <2> QED BY <1>1, <1>7, <2>1, ReleasedManager, LandInvKept
<1>8. CASE BridgeReceives
  <2>1. Same /\ BridgeAwake'
    BY <1>2, <1>8, BridgeAwakeReceives DEF BridgeReceives, LandInv
  <2> QED BY <1>1, <1>8, <2>1, ReleasedReceives, LandInvKept
<1>9. CASE BridgeRuns
  <2>1. Same
    BY <1>2, <1>9 DEF BridgeRuns
  <2>2. KnowInv /\ BridgeAwake /\ BridgeAwake'
    BY <1>9, BridgeAwakeRuns DEF BridgeRuns, LandInv, HandoverInv
  <2>3. Released /\ OnlyLand => Released' /\ OnlyLand' /\ (Landing => Landing')
    BY <1>9, <2>2, ReleasedRuns DEF LandingHasTime
  <2> QED BY <1>1, <2>1, <2>2, <2>3, LandInvKept
<1>10. ASSUME NEW action \in Buttons, DashboardStops(action)
       PROVE  LandInv'
  <2>1. Same /\ BridgeAwake' /\ ~Released
    BY <1>2, <1>3, <1>10 DEF DashboardStops, Released
  <2> QED BY <1>1, <2>1, LandInvKept
<1>11. CASE VehicleReports
  <2>1. Same /\ BridgeAwake'
    BY <1>3, <1>11, QuietAsksNothing
    DEF VehicleReports, Executor!TelemetryCallback, Executor!NothingPublished,
        Executor!plan_cursor, LandInv, HandoverInv, ReleaseInv
  <2>2. offboard_requested' = offboard_requested
    BY <1>11, Zenon DEF VehicleReports, Manager!TelemetryCallback
  <2>3. UNCHANGED <<mavsdk_offboard_enabled, offboard_active, offboard_pc, rpc,
                    px4_mode, action_handled, action_pc, latest_action,
                    offboard_topic, enable_topic, action_topic>>
    BY <1>11
    DEF VehicleReports, vars, received, offboard_loop, action_loop, px4, topics
  <2>4. Released /\ OnlyLand => Released' /\ OnlyLand' /\ (Landing => Landing')
    BY <2>2, <2>3 DEF Released, OnlyLand, Landing
  <2> QED BY <1>1, <2>1, <2>4, LandInvKept
<1>12. CASE UNCHANGED all_nodes
  <2>1. Same /\ BridgeAwake'
    BY <1>2, <1>3, <1>12 DEF all_nodes
  <2>2. offboard_requested' = offboard_requested
    BY <1>12, Zenon DEF all_nodes, manager
  <2>3. UNCHANGED <<mavsdk_offboard_enabled, offboard_active, offboard_pc, rpc,
                    px4_mode, action_handled, action_pc, latest_action,
                    offboard_topic, enable_topic, action_topic>>
    BY <1>12 DEF all_nodes, vars, received, offboard_loop, action_loop, px4, topics
  <2>4. Released /\ OnlyLand => Released' /\ OnlyLand' /\ (Landing => Landing')
    BY <2>2, <2>3 DEF Released, OnlyLand, Landing
  <2> QED BY <1>1, <2>1, <2>4, LandInvKept
<1> QED BY <1>4, <1>5, <1>6, <1>7, <1>8, <1>9, <1>10, <1>11, <1>12 DEF HandoverNext

\* A mission that ends with a landing ends with PX4 landing once everything has
\* settled, for every plan that gives the landing time to be asked for again, any depth
\* of the queues, and every order in which the release, LAND and PX4's answers come in.
THEOREM LandingStands ==
  ASSUME LinkFaults = FALSE, Preemption = FALSE, LandingHasTime
  PROVE  HandoverSpec => []LandingSurvivesHandover
<1>1. LandInv => LandingSurvivesHandover
  <2> SUFFICES ASSUME LandInv, state = "COMPLETE", plan[Len(plan)].type = "land", Settled
               PROVE  px4_mode = "LAND"
    BY DEF LandingSurvivesHandover
  <2>1. Landed
    BY DEF LandInv, Landed
  <2> QED BY <2>1, SettlesLanding DEF LandInv
<1>2. LandInv /\ [HandoverNext]_all_nodes => LandInv'
  BY LandInvNext
<1>3. HandoverInit => LandInv
  BY LandInvInit
<1> QED BY <1>1, <1>2, <1>3, PTL DEF HandoverSpec

------------------------------------------------------------------------------
(* A goto is lost in the first unit of its step or not at all.  The action *)
(* is sent once, in the pass that releases Offboard; by the end of that    *)
(* unit both have settled, in one order or the other, and from then on the *)
(* bridge has nothing to do.                                               *)

\* The vehicle is where it can be sent somewhere.
GotoFlies ==
  /\ Report.connected /\ Report.height = "high"
  /\ Report.local_position_valid /\ Report.global_position

GotoStep ==
  mission_active /\ step_index <= Len(plan) /\ plan[step_index].type = "goto"

\* The bridge is out of Offboard and has no action to carry out.
AtRest == Released /\ action_topic = <<>> /\ action_handled /\ action_pc = "idle"

GotoSent == Executor!StepActionKey("GOTO_LOCATION") \in actions_sent

GotoStepInv ==
  /\ ~loop_due /\ step_age >= 1 => offboard_request.last = {FALSE} /\ GotoSent
  /\ step_age >= 2 => AtRest /\ GotoSent

GotoInv ==
  /\ HandoverInv /\ BridgeAwake /\ CursorTypes
  /\ telemetry_age \in {0, 1}
  /\ GotoStep => GotoStepInv

\* From its second unit to its end a goto step leaves PX4 as it is: out of Offboard, at
\* the destination it was sent to or, when the release came last, in Hold.
GotoLeftAlone ==
  [][GotoStep /\ step_age >= 2 =>
       px4_mode' = px4_mode /\ px4_mode # "OFFBOARD"]_all_nodes

LEMMA RestIsReleased == AtRest => Released /\ OnlyLand
<1>1. <<>> \in Seq({NewAction("LAND")})
  OBVIOUS
<1> QED BY <1>1 DEF AtRest, OnlyLand

LEMMA RestLeavesOffboard ==
  ASSUME HandoverInv, AtRest
  PROVE  px4_mode # "OFFBOARD"
BY DEF HandoverInv, KnowInv, BridgeKnowsOffboard, AtRest, Released

\* Nothing wakes it.
LEMMA RestRuns ==
  ASSUME KnowInv, BridgeAwake, AtRest, BridgeRuns
  PROVE  AtRest' /\ px4_mode' = px4_mode
<1>1. UNCHANGED topics /\ offboard_requested' = offboard_requested
  BY Zenon DEF BridgeRuns, manager
<1>2. CASE OffboardLoop
  <2>1. /\ UNCHANGED <<mavsdk_offboard_enabled, offboard_active, offboard_pc,
                       px4_mode, action_handled, action_pc>>
    BY <1>2 DEF OffboardLoop, PauseForAction, ExecutorDisabled, PrimeOffboard,
      HoldWhileUnsafe, UsePrimeHold, FollowCommand, OffboardPreset, OffboardStarted,
      OffboardSent, OffboardStopped, OffboardAsleep, OffboardResumes, StopAndSleep,
      SafeForOffboard, CommandValid, received, action_loop, offboard_loop, px4,
      AtRest, Released
  <2> QED BY <1>1, <2>1 DEF AtRest, Released, topics
<1>3. ~ActionLoop
  BY DEF ActionLoop, TakeAction, ActionStopped, ActionAltitudeSet, ActionExecuted,
    ActionResumes, AtRest
<1>4. ASSUME NEW l \in Loops PROVE ~PX4Serves(l)
  BY DEF PX4Serves, Loops, BridgeAwake, AtRest, Released
<1> QED BY <1>2, <1>3, <1>4 DEF BridgeRuns

LEMMA RestReceives ==
  ASSUME AtRest, BridgeReceives
  PROVE  AtRest' /\ px4_mode' = px4_mode
<1>1. Released'
  BY RestIsReleased, ReleasedReceives
<1>2. /\ OffboardEnableCallback(Head(enable_topic)) /\ action_topic' = action_topic
  BY DEF BridgeReceives, AtRest
<1>3. UNCHANGED <<action_handled, action_pc, px4_mode>>
  BY <1>2 DEF OffboardEnableCallback, received, action_loop, px4
<1> QED BY <1>1, <1>2, <1>3 DEF AtRest

LEMMA RestManager ==
  ASSUME AtRest, ManagerReceives \/ ManagerTimer
  PROVE  AtRest'
<1>1. Released'
  BY RestIsReleased, ReleasedManager
<1>2. action_topic' = action_topic /\ UNCHANGED <<action_handled, action_pc>>
  BY DEF ManagerReceives, ManagerTimer, vars, received, action_loop
<1> QED BY <1>1, <1>2 DEF AtRest

\* The executor asks for the release again and sends nothing.
LEMMA RestPublishes ==
  ASSUME AtRest, ExecutorPublishes, UNCHANGED <<manager, vars>>,
         offboard_request' \in Request, AsksNothing \/ Asks(FALSE), actions' = <<>>
  PROVE  AtRest'
<1>1. actions' \in Seq({NewAction("LAND")})
  OBVIOUS
<1>2. Released'
  BY <1>1, RestIsReleased, ReleasedPublishes
<1>3. action_topic' = <<>>
  <2>1. <<>> \in Seq({NewAction("LAND")}) /\ <<>> \o <<>> = <<>>
    OBVIOUS
  <2>2. action_topic' = KeepLast(<<>>, <<>>)
    BY DEF ExecutorPublishes, AtRest
  <2> QED BY <2>1, <2>2, NewestIsKept
<1>4. UNCHANGED <<action_handled, action_pc>>
  BY DEF vars, received, action_loop
<1> QED BY <1>2, <1>3, <1>4 DEF AtRest

\* A pass through a goto releases Offboard and sends the action unless it was sent.
LEMMA GotoMoves ==
  ASSUME GotoFlies, telemetry_age \in {0, 1}, offboard_request \in Request,
         last_telemetry = Report, Executor!StepGoto
  PROVE  /\ offboard_request' \in Request /\ Asks(FALSE)
         /\ GotoSent => actions' = <<>>
         /\ actions_sent' = actions_sent \cup {Executor!StepActionKey("GOTO_LOCATION")}
<1>1. Executor!AirborneLocal /\ last_telemetry.global_position
  BY DEF GotoFlies, Executor!AirborneLocal, Executor!IsAirborne,
         Executor!TelemetryIsFresh
<1>2. PICK target, done :
        /\ Executor!SendActionOnce("GOTO_LOCATION", target, FALSE)
        /\ Executor!Pass({FALSE}, "HOLD", 0, done)
  BY <1>1 DEF Executor!StepGoto
<1>3. offboard_request' \in Request /\ Asks(FALSE)
  <2>1. (TRUE \in {FALSE}) = FALSE /\ {FALSE} # {}
    OBVIOUS
  <2> QED BY <1>2, <2>1, PublishAsks DEF Executor!Pass
<1> QED BY <1>2, <1>3 DEF Executor!SendActionOnce, GotoSent

LEMMA LoopLeavesTelemetry ==
  ASSUME Executor!Loop
  PROVE  telemetry_age' = telemetry_age
<1>1. \A offboard, mode, yaw_rate, done :
        Executor!Pass(offboard, mode, yaw_rate, done) => telemetry_age' = telemetry_age
  BY DEF Executor!Pass, Executor!inputs
<1>2. \A offboard : Executor!Blocked(offboard) => telemetry_age' = telemetry_age
  BY <1>1 DEF Executor!Blocked
<1>3. CASE Executor!EnterComplete \/ Executor!LoopIdle
  BY <1>3 DEF Executor!EnterComplete, Executor!LoopIdle, Executor!inputs
<1>4. CASE Executor!StepTakeoff \/ Executor!StepPrimeOffboard \/ Executor!StepScan
  BY <1>1, <1>2, <1>4
  DEF Executor!StepTakeoff, Executor!StepPrimeOffboard, Executor!StepScan
<1>5. CASE Executor!StepTrackCenter \/ Executor!StepApproach \/ Executor!StepGoto
  BY <1>1, <1>2, <1>5
  DEF Executor!StepTrackCenter, Executor!StepApproach, Executor!StepGoto
<1>6. CASE Executor!StepOrbit \/ Executor!StepRtl \/ Executor!StepLand
             \/ Executor!StepHold
  BY <1>1, <1>2, <1>6
  DEF Executor!StepOrbit, Executor!StepRtl, Executor!StepLand, Executor!StepHold
<1> QED BY <1>3, <1>4, <1>5, <1>6 DEF Executor!Loop

\* A step that leaves the cursor alone, and the bridge at rest.
LEMMA GotoInvKept ==
  ASSUME GotoInv, HandoverInv', BridgeAwake',
         UNCHANGED <<mission_active, plan, step_index, step_age, actions_sent,
                     land_cmd_age, loop_due>>,
         telemetry_age' \in {0, 1}, offboard_request'.last = offboard_request.last,
         AtRest => AtRest'
  PROVE  GotoInv'
<1>1. CursorTypes' /\ (GotoStep' => GotoStep) /\ (GotoSent => GotoSent')
  BY DEF GotoInv, CursorTypes, GotoStep, GotoSent, Executor!StepActionKey
<1>2. GotoStep' => GotoStepInv'
  BY <1>1 DEF GotoInv, GotoStepInv
<1> QED BY <1>1, <1>2 DEF GotoInv

\* A step that has just begun, or is not a goto.
LEMMA GotoBegins ==
  ASSUME GotoStep' => step_age' = 0
  PROVE  GotoStep' => GotoStepInv'
BY DEF GotoStepInv

LEMMA GotoInvLoop ==
  ASSUME GotoFlies, GotoInv, HandoverInv', BridgeAwake', ExecutorLoop
  PROVE  GotoInv'
<1>1. /\ CursorTypes /\ offboard_request \in Request /\ Executor!Loop /\ loop_due
      /\ last_telemetry = Report /\ ExecutorPublishes /\ UNCHANGED <<manager, vars>>
      /\ telemetry_age \in {0, 1}
  BY DEF GotoInv, HandoverInv, ReleaseInv, ExecutorLoop
<1>2. CursorTypes' /\ plan' = plan /\ telemetry_age' \in {0, 1}
  BY <1>1, CursorTypesLoop, LoopLeavesTelemetry
<1>3. ASSUME GotoStep' => GotoStepInv'
      PROVE  GotoInv'
  BY <1>2, <1>3 DEF GotoInv
<1>4. CASE Executor!EnterComplete \/ Executor!LoopIdle
  <2>1. ~GotoStep'
    BY <1>4 DEF Executor!EnterComplete, Executor!LoopIdle, GotoStep
  <2> QED BY <1>3, <2>1
<1>5. CASE Executor!StepGoto
  <2>1. GotoStep /\ PassMoves
    BY <1>1, <1>5, HandlersMove
    DEF Executor!StepGoto, Executor!InStep, Executor!Step, GotoStep
  <2>2. /\ offboard_request' \in Request /\ Asks(FALSE)
        /\ GotoSent => actions' = <<>>
        /\ actions_sent' = actions_sent \cup {Executor!StepActionKey("GOTO_LOCATION")}
    BY <1>1, <1>5, GotoMoves
  <2>3. CASE step_age' = 0
    BY <1>3, <2>3, GotoBegins
  <2>4. CASE step_index' = step_index /\ step_age' = step_age
    <3>1. GotoSent' /\ offboard_request'.last = {FALSE}
      BY <2>2, <2>4 DEF GotoSent, Executor!StepActionKey, Asks
    <3>2. step_age >= 2 => AtRest'
      <4>1. step_age >= 2 => AtRest /\ GotoSent
        BY <2>1 DEF GotoInv, GotoStepInv
      <4> QED BY <1>1, <2>2, <4>1, RestPublishes
    <3> QED BY <1>3, <2>4, <3>1, <3>2 DEF GotoStepInv
  <2> QED BY <2>1, <2>3, <2>4 DEF PassMoves
<1>6. CASE ~(Executor!EnterComplete \/ Executor!LoopIdle \/ Executor!StepGoto)
  <2>1. PassMoves /\ plan[step_index].type # "goto"
    BY <1>1, <1>6, HandlersMove
    DEF Executor!Loop, Executor!StepTakeoff, Executor!StepPrimeOffboard,
        Executor!StepScan, Executor!StepTrackCenter, Executor!StepApproach,
        Executor!StepOrbit, Executor!StepRtl, Executor!StepLand, Executor!StepHold,
        Executor!InStep, Executor!Step
  <2>2. GotoStep' => step_age' = 0
    BY <1>2, <2>1 DEF PassMoves, GotoStep
  <2> QED BY <1>3, <2>2, GotoBegins
<1> QED BY <1>4, <1>5, <1>6

\* A start begins with the first step; a stop leaves none.
LEMMA GotoInvRequest ==
  ASSUME GotoInv, HandoverInv', BridgeAwake', NEW on,
         Executor!MissionRequestCallback(on)
  PROVE  GotoInv'
<1>1. CASE Executor!MissionStop
  BY <1>1 DEF Executor!MissionStop, Executor!inputs, GotoInv, CursorTypes, GotoStep
<1>2. CASE Executor!MissionStart
  <2>1. Len(plan) \in Nat \ {0} /\ LandRetry \in Nat
    BY HandoverAssumption DEF GotoInv, CursorTypes
  <2>2. CursorTypes' /\ telemetry_age' \in {0, 1} /\ step_age' = 0
    BY <1>2, <2>1 DEF Executor!MissionStart, Executor!inputs, GotoInv, CursorTypes
  <2> QED BY <2>2, GotoBegins DEF GotoInv
<1> QED BY <1>1, <1>2 DEF Executor!MissionRequestCallback

\* What settles in the first unit of a goto's time is the release and the action.
LEMMA GotoInvElapse ==
  ASSUME GotoInv, HandoverInv', BridgeAwake', Elapse
  PROVE  GotoInv'
<1>1. /\ CursorTypes /\ Settled /\ Executor!Elapse /\ ~loop_due /\ telemetry_age = 0
      /\ UNCHANGED <<manager, vars, topics>>
      /\ UNCHANGED <<mission_active, plan, step_index, actions_sent>>
  BY DEF GotoInv, Elapse, Executor!Elapse
<1>2. AtRest => AtRest'
  <2>1. offboard_requested' = offboard_requested
    BY <1>1, Zenon DEF manager
  <2>2. UNCHANGED <<mavsdk_offboard_enabled, offboard_active, offboard_pc,
                    action_handled, action_pc, offboard_topic, enable_topic,
                    action_topic>>
    BY <1>1 DEF vars, received, offboard_loop, action_loop, topics
  <2> QED BY <2>1, <2>2 DEF AtRest, Released
<1>3. /\ step_age \in Nat /\ land_cmd_age \in 0 .. LandRetry
      /\ LandRetry \in Nat /\ MaxStepAge \in Nat
  BY <1>1, HandoverAssumption DEF CursorTypes
<1>4. /\ step_age' = IF step_age < MaxStepAge THEN step_age + 1 ELSE step_age
      /\ land_cmd_age' = IF land_cmd_age < LandRetry THEN land_cmd_age + 1
                                                     ELSE land_cmd_age
      /\ telemetry_age' = 1 /\ loop_due'
  BY <1>1 DEF Executor!Elapse, Executor!Aged
<1>5. CursorTypes'
  BY <1>1, <1>3, <1>4 DEF CursorTypes
<1>6. ASSUME GotoStep
      PROVE  GotoStepInv'
  <2>1. step_age >= 1 => offboard_request.last = {FALSE} /\ GotoSent
    BY <1>1, <1>6 DEF GotoInv, GotoStepInv
  <2>2. step_age >= 1 => AtRest
    <3>1. ASSUME step_age >= 1 PROVE Released
      BY <1>1, <2>1, <3>1, SettlesReleased DEF GotoInv
    <3>2. action_topic = <<>>
      BY <1>1, Zenon DEF Settled, topics
    <3> QED BY <1>1, <3>1, <3>2 DEF Settled, AtRest
  <2>3. step_age' >= 2 => step_age >= 1
    BY <1>3, <1>4
  <2>4. GotoSent => GotoSent'
    BY <1>1 DEF GotoSent, Executor!StepActionKey
  <2> QED BY <1>2, <1>4, <2>1, <2>2, <2>3, <2>4 DEF GotoStepInv
<1>7. GotoStep' => GotoStep
  BY <1>1 DEF GotoStep
<1> QED BY <1>4, <1>5, <1>6, <1>7 DEF GotoInv

LEMMA GotoInvInit ==
  ASSUME HandoverInit
  PROVE  GotoInv
<1>1. HandoverInv /\ BridgeAwake
  BY HandoverInvInit, BridgeAwakeInit DEF HandoverInit
<1>2. /\ ~mission_active /\ plan \in Plans /\ telemetry_age = 0
      /\ step_index = 1 /\ step_age = 0 /\ land_cmd_age = LandRetry
  BY DEF HandoverInit, Executor!Init
<1>3. Len(plan) \in Nat \ {0} /\ LandRetry \in Nat
  BY <1>2, HandoverAssumption
<1> QED BY <1>1, <1>2, <1>3 DEF GotoInv, CursorTypes, GotoStep

LEMMA GotoInvNext ==
  ASSUME LinkFaults = FALSE, Preemption = FALSE, GotoFlies, GotoInv,
         [HandoverNext]_all_nodes
  PROVE  /\ GotoInv'
         /\ GotoStep /\ step_age >= 2 => px4_mode' = px4_mode /\ px4_mode # "OFFBOARD"
<1>1. HandoverInv'
  BY HandoverInvNext DEF GotoInv
<1> DEFINE Same == /\ UNCHANGED <<mission_active, plan, step_index, step_age,
                                  actions_sent, land_cmd_age, loop_due>>
                   /\ telemetry_age' \in {0, 1}
                   /\ offboard_request'.last = offboard_request.last
           LeftAlone == AtRest => px4_mode' = px4_mode
<1>2. ASSUME UNCHANGED executor PROVE Same
  BY <1>2 DEF executor, GotoInv
<1>3. ASSUME UNCHANGED vars PROVE BridgeAwake' /\ LeftAlone
  BY <1>3 DEF GotoInv, BridgeAwake, vars, received, offboard_loop, action_loop, px4
<1>4. ASSUME UNCHANGED <<vars, topics>>, offboard_requested' = offboard_requested
      PROVE  AtRest => AtRest'
  BY <1>4 DEF AtRest, Released, vars, received, offboard_loop, action_loop, topics
<1>5. CASE OperatorRequests \/ ExecutorReceives
  <2>1. BridgeAwake' /\ LeftAlone /\ \E on : Executor!MissionRequestCallback(on)
    BY <1>3, <1>5 DEF OperatorRequests, ExecutorReceives
  <2>2. GotoInv'
    BY <1>1, <2>1, GotoInvRequest
  <2> QED BY <2>1, <2>2, RestLeavesOffboard DEF GotoInv, GotoStepInv
<1>6. CASE ExecutorLoop
  <2>1. BridgeAwake' /\ LeftAlone
    BY <1>3, <1>6 DEF ExecutorLoop
  <2>2. GotoInv'
    BY <1>1, <1>6, <2>1, GotoInvLoop
  <2> QED BY <2>1, <2>2, RestLeavesOffboard DEF GotoInv, GotoStepInv
<1>7. CASE Elapse
  <2>1. BridgeAwake' /\ LeftAlone
    BY <1>3, <1>7 DEF Elapse
  <2>2. GotoInv'
    BY <1>1, <1>7, <2>1, GotoInvElapse
  <2> QED BY <2>1, <2>2, RestLeavesOffboard DEF GotoInv, GotoStepInv
<1>8. ASSUME Same, BridgeAwake', LeftAlone, AtRest => AtRest'
      PROVE  /\ GotoInv'
             /\ GotoStep /\ step_age >= 2 => px4_mode' = px4_mode /\ px4_mode # "OFFBOARD"
  <2>1. GotoInv'
    BY <1>1, <1>8, GotoInvKept
  <2> QED BY <1>8, <2>1, RestLeavesOffboard DEF GotoInv, GotoStepInv
<1>9. CASE ManagerReceives \/ ManagerTimer
  <2>1. Same /\ BridgeAwake' /\ LeftAlone
    BY <1>2, <1>3, <1>9 DEF ManagerReceives, ManagerTimer
  <2> QED BY <1>8, <1>9, <2>1, RestManager
<1>10. CASE BridgeReceives
  <2>1. Same /\ BridgeAwake'
    BY <1>2, <1>10, BridgeAwakeReceives DEF BridgeReceives, GotoInv
  <2> QED BY <1>8, <1>10, <2>1, RestReceives
<1>11. CASE BridgeRuns
  <2>1. Same
    BY <1>2, <1>11 DEF BridgeRuns
  <2>2. KnowInv /\ BridgeAwake /\ BridgeAwake'
    BY <1>11, BridgeAwakeRuns DEF BridgeRuns, GotoInv, HandoverInv
  <2> QED BY <1>8, <1>11, <2>1, <2>2, RestRuns
<1>12. ASSUME NEW action \in Buttons, DashboardStops(action)
       PROVE  Same /\ BridgeAwake' /\ LeftAlone /\ ~AtRest
  BY <1>2, <1>3, <1>12 DEF DashboardStops, AtRest, Released
<1>13. CASE VehicleReports
  <2>1. Same
    BY <1>13, QuietAsksNothing
    DEF VehicleReports, Executor!TelemetryCallback, Executor!NothingPublished,
        Executor!plan_cursor, GotoInv, HandoverInv, ReleaseInv
  <2>2. offboard_requested' = offboard_requested
    BY <1>13, Zenon DEF VehicleReports, Manager!TelemetryCallback
  <2> QED BY <1>3, <1>4, <1>8, <1>13, <2>1, <2>2 DEF VehicleReports
<1>14. CASE UNCHANGED all_nodes
  <2>1. Same /\ BridgeAwake' /\ LeftAlone
    BY <1>2, <1>3, <1>14 DEF all_nodes
  <2>2. offboard_requested' = offboard_requested
    BY <1>14, Zenon DEF all_nodes, manager
  <2> QED BY <1>4, <1>8, <1>14, <2>1, <2>2 DEF all_nodes
<1> QED BY <1>5, <1>6, <1>7, <1>8, <1>9, <1>10, <1>11, <1>12, <1>13, <1>14
        DEF HandoverNext

\* What the race of a release and a goto can take is taken in the first unit of the
\* step: afterwards nothing changes PX4's mode until the step is left, for every plan,
\* any depth of the queues, and every order in which the messages and answers come in.
THEOREM GotoLostAtOnceOrNever ==
  ASSUME LinkFaults = FALSE, Preemption = FALSE, GotoFlies
  PROVE  HandoverSpec => GotoLeftAlone
<1>1. GotoInv /\ [HandoverNext]_all_nodes => GotoInv'
  BY GotoInvNext
<1>2. GotoInv /\ [HandoverNext]_all_nodes =>
        [GotoStep /\ step_age >= 2 =>
           px4_mode' = px4_mode /\ px4_mode # "OFFBOARD"]_all_nodes
  BY GotoInvNext
<1>3. HandoverInit => GotoInv
  BY GotoInvInit
<1> QED BY <1>1, <1>2, <1>3, PTL DEF HandoverSpec, GotoLeftAlone

------------------------------------------------------------------------------
(* The nodes joined by their topics are the nodes of their own modules:    *)
(* what a topic delivers is an input they are specified for.               *)

NodesInv ==
  /\ mission_active \in BOOLEAN
  /\ autonomy_request \in Request /\ offboard_request \in Request
  /\ {autonomy_topic, offboard_topic, enable_topic, mission_topic} \subseteq Seq(BOOLEAN)
  /\ ActionsUnderWay

LEMMA PublishType ==
  ASSUME NEW r \in Request, NEW on \in BOOLEAN
  PROVE  Executor!Publish(r, on) \in Request
<1>1. {on} \in Asked
  BY Zenon DEF Asked
<1>2. Append(r.out, on) \in Seq(BOOLEAN)
  BY DEF Request
<1> QED BY <1>1, <1>2 DEF Executor!Publish, Request

\* What a callback of the executor leaves in its outputs.
OutputTypes ==
  /\ mission_active' \in BOOLEAN
  /\ autonomy_request' \in Request /\ offboard_request' \in Request
  /\ SendsActions

LEMMA LoopTypes ==
  ASSUME NodesInv, Executor!Loop
  PROVE  OutputTypes
<1>1. ExecutorSays
  BY LoopSays DEF NodesInv
<1>2. Executor!Quiet(autonomy_request) \in Request
  BY QuietAsksNothing DEF NodesInv
<1>3. \A offboard, mode, yaw_rate, done :
        Executor!Pass(offboard, mode, yaw_rate, done) =>
          mission_active' = mission_active /\ autonomy_request' \in Request
  BY <1>2, PublishType DEF Executor!Pass
<1>4. \A offboard : Executor!Blocked(offboard) =>
        mission_active' = mission_active /\ autonomy_request' \in Request
  BY <1>3 DEF Executor!Blocked
<1>5. CASE Executor!EnterComplete
  BY <1>1, <1>2, <1>5, PublishType DEF Executor!EnterComplete, OutputTypes, ExecutorSays
<1>6. CASE Executor!LoopIdle
  BY <1>1, <1>2, <1>6 DEF Executor!LoopIdle, OutputTypes, ExecutorSays, NodesInv
<1>7. CASE ~(Executor!EnterComplete \/ Executor!LoopIdle)
  <2>1. mission_active' = mission_active /\ autonomy_request' \in Request
    BY <1>3, <1>4, <1>7
    DEF Executor!Loop, Executor!StepTakeoff, Executor!StepPrimeOffboard,
        Executor!StepScan, Executor!StepTrackCenter, Executor!StepApproach,
        Executor!StepGoto, Executor!StepOrbit, Executor!StepRtl, Executor!StepLand,
        Executor!StepHold
  <2> QED BY <1>1, <2>1 DEF OutputTypes, ExecutorSays, NodesInv
<1> QED BY <1>5, <1>6, <1>7

LEMMA RequestTypes ==
  ASSUME NodesInv, NEW on, Executor!MissionRequestCallback(on)
  PROVE  OutputTypes
<1>1. ExecutorSays
  BY RequestSays DEF NodesInv
<1>2. Executor!Quiet(autonomy_request) \in Request
  BY QuietAsksNothing DEF NodesInv
<1> QED BY <1>1, <1>2, PublishType
        DEF Executor!MissionRequestCallback, Executor!MissionStart,
            Executor!MissionStop, OutputTypes, ExecutorSays

LEMMA NodesInvPublishes ==
  ASSUME NodesInv, OutputTypes, ExecutorPublishes, mission_topic' \in Seq(BOOLEAN)
  PROVE  NodesInv'
<1>1. ActionsUnderWay'
  BY ActionsPublished DEF NodesInv, OutputTypes, ExecutorPublishes
<1>2. autonomy_topic' \in Seq(BOOLEAN) /\ offboard_topic' \in Seq(BOOLEAN)
  BY NewestIsKept DEF NodesInv, OutputTypes, ExecutorPublishes, Request
<1> QED BY <1>1, <1>2 DEF NodesInv, OutputTypes, ExecutorPublishes

\* The outputs of the executor stay, or only fall silent, and queues lose their head
\* or gain a message.
LEMMA NodesInvKept ==
  ASSUME NodesInv, mission_active' = mission_active,
         autonomy_request' \in Request, offboard_request' \in Request,
         {autonomy_topic', offboard_topic', enable_topic', mission_topic'}
           \subseteq Seq(BOOLEAN),
         action_topic' = action_topic
           \/ (action_topic # <<>> /\ action_topic' = Tail(action_topic))
  PROVE  NodesInv'
<1>1. PICK S : action_topic \in Seq(S) /\ \A c \in S : c.action \in Action
  BY DEF NodesInv, ActionsUnderWay
<1>2. action_topic' \in Seq(S)
  BY <1>1
<1> QED BY <1>1, <1>2 DEF NodesInv, ActionsUnderWay

LEMMA NodesInvInit == HandoverInit => NodesInv
<1> SUFFICES ASSUME HandoverInit PROVE NodesInv
  OBVIOUS
<1>1. <<>> \in Seq(BOOLEAN) /\ action_topic \in Seq({})
  BY DEF HandoverInit
<1>2. [last |-> {}, age |-> 1, out |-> <<>>] \in Request
  BY <1>1, AskedAre DEF Request
<1>3. /\ mission_active = FALSE
      /\ autonomy_request \in Request /\ offboard_request \in Request
  BY <1>2 DEF HandoverInit, Executor!Init, Executor!NeverPublished
<1>4. {autonomy_topic, offboard_topic, enable_topic, mission_topic} \subseteq Seq(BOOLEAN)
  BY <1>1 DEF HandoverInit
<1>5. ActionsUnderWay
  BY <1>1 DEF ActionsUnderWay
<1> QED BY <1>3, <1>4, <1>5 DEF NodesInv

\* What each node does in a step of the three: a step of its own, or none.  The bridge
\* may be sent any action.
BridgeNext ==
  Next \/ \E msg : msg.action \in Action /\ ActionCommandCallback(msg)

NodesMove ==
  /\ Executor!Next \/ UNCHANGED Executor!vars
  /\ Manager!Next \/ UNCHANGED Manager!vars
  /\ BridgeNext \/ UNCHANGED vars

LEMMA ExecutorStays == UNCHANGED executor => UNCHANGED Executor!vars
BY DEF executor, Executor!vars, Executor!plan_cursor, Executor!outputs, Executor!inputs

LEMMA ManagerStays == UNCHANGED manager => UNCHANGED Manager!vars
BY Zenon DEF manager, Manager!vars, Manager!inputs, Manager!gates

\* A message for the manager, its timer, a message for the bridge, or its loops.
LEMMA NodesReceive ==
  ASSUME NodesInv, ManagerReceives \/ ManagerTimer \/ BridgeReceives \/ BridgeRuns
  PROVE  NodesInv' /\ NodesMove
<1>1. UNCHANGED executor
  BY DEF ManagerReceives, ManagerTimer, BridgeReceives, BridgeRuns
<1>2. /\ mission_active' = mission_active
      /\ autonomy_request' \in Request /\ offboard_request' \in Request
  BY <1>1 DEF executor, NodesInv
<1>3. UNCHANGED Executor!vars
  BY <1>1, ExecutorStays
<1>4. \A q \in Seq(BOOLEAN) : q # <<>> => Head(q) \in BOOLEAN /\ Tail(q) \in Seq(BOOLEAN)
  BY RestOfQueue
<1>5. CASE ManagerReceives
  <2>1. UNCHANGED <<enable_topic, action_topic, mission_topic>> /\ UNCHANGED vars
    BY <1>5 DEF ManagerReceives, dashboard
  <2>2. autonomy_topic' \in Seq(BOOLEAN) /\ offboard_topic' \in Seq(BOOLEAN)
    BY <1>4, <1>5 DEF ManagerReceives, NodesInv
  <2>3. Manager!Next
    BY <1>4, <1>5 DEF ManagerReceives, NodesInv, Manager!Next, Manager!Callback
  <2> QED BY <1>2, <1>3, <2>1, <2>2, <2>3, NodesInvKept DEF NodesInv, NodesMove
<1>6. CASE ManagerTimer
  <2>1. /\ UNCHANGED <<autonomy_topic, offboard_topic, action_topic, mission_topic>>
        /\ UNCHANGED vars
    BY <1>6 DEF ManagerTimer, dashboard
  <2>2. enable_topic' \in Seq(BOOLEAN)
    <3>1. offboard_enabled' \in BOOLEAN
      BY <1>6, Zenon DEF ManagerTimer, Manager!UpdateStateMachine
    <3>2. <<offboard_enabled'>> \in Seq(BOOLEAN)
      BY <3>1
    <3> QED BY <1>6, <3>2, NewestIsKept DEF ManagerTimer, NodesInv
  <2>3. Manager!Next
    BY <1>6 DEF ManagerTimer, Manager!Next
  <2> QED BY <1>2, <1>3, <2>1, <2>2, <2>3, NodesInvKept DEF NodesInv, NodesMove
<1>7. CASE BridgeReceives
  <2>1. UNCHANGED <<autonomy_topic, offboard_topic, mission_topic>> /\ UNCHANGED manager
    BY <1>7 DEF BridgeReceives, dashboard
  <2>2. enable_topic' \in Seq(BOOLEAN)
    BY <1>4, <1>7 DEF BridgeReceives, NodesInv
  <2>3. action_topic # <<>> => Head(action_topic).action \in Action
    BY DEF NodesInv, ActionsUnderWay
  <2>4. BridgeNext
    BY <1>4, <1>7, <2>3 DEF BridgeReceives, NodesInv, BridgeNext, Next, Callback
  <2>5. action_topic' = action_topic
          \/ (action_topic # <<>> /\ action_topic' = Tail(action_topic))
    BY <1>7 DEF BridgeReceives
  <2> QED BY <1>2, <1>3, <2>1, <2>2, <2>4, <2>5, ManagerStays, NodesInvKept
          DEF NodesInv, NodesMove
<1>8. CASE BridgeRuns
  <2>1. UNCHANGED <<topics, mission_topic>> /\ UNCHANGED manager /\ BridgeNext
    BY <1>8 DEF BridgeRuns, BridgeNext, Next, dashboard
  <2> QED BY <1>2, <1>3, <2>1, ManagerStays, NodesInvKept DEF NodesInv, NodesMove, topics
<1> QED BY <1>5, <1>6, <1>7, <1>8

\* A callback or a pass of the executor, a report, time, or a button.
LEMMA NodesPublish ==
  ASSUME NodesInv,
         \/ VehicleReports \/ OperatorRequests \/ ExecutorReceives \/ ExecutorLoop
         \/ Elapse \/ \E action \in Buttons : DashboardStops(action)
  PROVE  NodesInv' /\ NodesMove
<1>1. CASE OperatorRequests \/ ExecutorReceives
  <2>1. PICK on \in BOOLEAN : Executor!MissionRequestCallback(on)
    <3>1. mission_topic # <<>> => Head(mission_topic) \in BOOLEAN
      BY RestOfQueue DEF NodesInv
    <3> QED BY <1>1, <3>1 DEF OperatorRequests, ExecutorReceives
  <2>2. mission_topic' \in Seq(BOOLEAN)
    <3>1. <<>> \in Seq(BOOLEAN)
      OBVIOUS
    <3> QED BY <1>1, <3>1 DEF OperatorRequests, ExecutorReceives, dashboard, NodesInv
  <2>3. Executor!Next
    BY <2>1 DEF Executor!Next, Executor!Callback
  <2>4. UNCHANGED manager /\ UNCHANGED vars /\ ExecutorPublishes
    BY <1>1 DEF OperatorRequests, ExecutorReceives
  <2> QED BY <2>1, <2>2, <2>3, <2>4, RequestTypes, NodesInvPublishes, ManagerStays
          DEF NodesMove
<1>2. CASE ExecutorLoop
  <2>1. /\ Executor!Loop /\ UNCHANGED manager /\ UNCHANGED vars /\ ExecutorPublishes
        /\ mission_topic' = mission_topic
    BY <1>2 DEF ExecutorLoop, dashboard
  <2> QED BY <2>1, LoopTypes, NodesInvPublishes, ManagerStays
          DEF NodesMove, NodesInv, Executor!Next
<1>3. CASE VehicleReports
  <2>1. Executor!Next /\ Manager!Next
    BY <1>3 DEF VehicleReports, Executor!Next, Executor!Callback, Manager!Next,
                Manager!Callback
  <2>2. /\ mission_active' = mission_active
        /\ autonomy_request' \in Request /\ offboard_request' \in Request
    BY <1>3, QuietAsksNothing
    DEF VehicleReports, Executor!TelemetryCallback, Executor!NothingPublished, NodesInv
  <2>3. UNCHANGED <<topics, mission_topic>> /\ UNCHANGED vars
    BY <1>3 DEF VehicleReports, dashboard
  <2> QED BY <2>1, <2>2, <2>3, NodesInvKept DEF NodesInv, NodesMove, topics
<1>4. CASE Elapse
  <2>1. /\ Executor!Next /\ UNCHANGED manager /\ UNCHANGED vars
        /\ UNCHANGED <<topics, mission_topic>>
    BY <1>4 DEF Elapse, Executor!Next, dashboard
  <2>2. ASSUME NEW r \in Request
        PROVE  [Executor!Quiet(r) EXCEPT !.age = Executor!Aged(@, 1)] \in Request
    BY QuietAsksNothing DEF Request, Executor!Aged
  <2>3. /\ mission_active' = mission_active
        /\ autonomy_request' \in Request /\ offboard_request' \in Request
    BY <1>4, <2>2 DEF Elapse, Executor!Elapse, NodesInv
  <2> QED BY <2>1, <2>3, ManagerStays, NodesInvKept DEF NodesInv, NodesMove, topics
<1>5. ASSUME NEW action \in Buttons, DashboardStops(action)
      PROVE  NodesInv' /\ NodesMove
  <2>1. UNCHANGED executor /\ UNCHANGED manager /\ UNCHANGED vars
    BY <1>5 DEF DashboardStops
  <2>2. <<FALSE>> \in Seq(BOOLEAN)
    OBVIOUS
  <2>3. {autonomy_topic', offboard_topic', enable_topic', mission_topic'}
          \subseteq Seq(BOOLEAN)
    <3>1. {autonomy_topic, offboard_topic, enable_topic} \subseteq Seq(BOOLEAN)
      BY DEF NodesInv
    <3>2. autonomy_topic' \in Seq(BOOLEAN) /\ offboard_topic' \in Seq(BOOLEAN)
      BY <1>5, <2>2, <3>1, NewestIsKept DEF DashboardStops
    <3> QED BY <1>5, <2>2, <3>1, <3>2 DEF DashboardStops
  <2>4. ActionsUnderWay'
    <3>1. PICK S : action_topic \in Seq(S) /\ \A c \in S : c.action \in Action
      BY DEF NodesInv, ActionsUnderWay
    <3>2. /\ action_topic \in Seq(S \cup {NewAction(action)})
          /\ <<NewAction(action)>> \in Seq(S \cup {NewAction(action)})
          /\ \A c \in S \cup {NewAction(action)} : c.action \in Action
      BY <3>1, HandoverAssumption DEF NewAction
    <3>3. action_topic' \in Seq(S \cup {NewAction(action)})
      BY <1>5, <3>2, NewestIsKept DEF DashboardStops
    <3> QED BY <3>2, <3>3 DEF ActionsUnderWay
  <2> QED BY <2>1, <2>3, <2>4, ExecutorStays, ManagerStays
          DEF NodesInv, NodesMove, executor
<1> QED BY <1>1, <1>2, <1>3, <1>4, <1>5

\* Joined by their topics, the executor and the manager do what their own
\* specifications allow, and so does the bridge, sent actions at any time: what holds
\* of every behaviour of MissionExecutor and of AutonomyManager holds here.
THEOREM NodesKeepTheirSpecs ==
  HandoverSpec =>
    /\ Executor!Spec
    /\ Manager!Spec
    /\ (\E v, f : InitWith(v, f)) /\ [][BridgeNext]_vars
<1>1. HandoverInit => NodesInv
  BY NodesInvInit
<1>2. NodesInv /\ [HandoverNext]_all_nodes => NodesInv' /\ NodesMove
  <2> SUFFICES ASSUME NodesInv, [HandoverNext]_all_nodes
               PROVE  NodesInv' /\ NodesMove
    OBVIOUS
  <2>1. CASE UNCHANGED all_nodes
    <3>1. /\ UNCHANGED executor /\ UNCHANGED manager /\ UNCHANGED vars
          /\ UNCHANGED <<autonomy_topic, offboard_topic, enable_topic, action_topic,
                         mission_topic>>
      BY <2>1 DEF all_nodes, topics, dashboard
    <3>2. NodesInv'
      BY <3>1, NodesInvKept DEF NodesInv, executor
    <3> QED BY <3>1, <3>2, ExecutorStays, ManagerStays DEF NodesMove
  <2> QED BY <2>1, NodesReceive, NodesPublish DEF HandoverNext
<1>3. NodesMove =>
        /\ [Executor!Next]_(Executor!vars)
        /\ [Manager!Next]_(Manager!vars)
        /\ [BridgeNext]_vars
  BY DEF NodesMove
<1>4. HandoverInit => Executor!Init /\ Manager!Init /\ \E v, f : InitWith(v, f)
  BY DEF HandoverInit
<1> HIDE DEF NodesMove
<1> QED BY <1>1, <1>2, <1>3, <1>4, PTL DEF HandoverSpec, Executor!Spec, Manager!Spec
==============================================================================
