---------------------------- MODULE AutonomyProofs ----------------------------
(***************************************************************************)
(* The two nodes that turn a target into motion, for every value of their  *)
(* constants.  The manager: its gates follow their evidence, and it keeps  *)
(* the gate contract.  control_node: nothing is left standing once         *)
(* autonomy is disabled, and no place is held that the vehicle has left    *)
(* for good.                                                               *)
(***************************************************************************)
EXTENDS MCAutonomy, TLAPS

\* Ages stay natural numbers.
LEMMA OlderType ==
  ASSUME NEW age \in Nat, NEW timeout \in Nat
  PROVE  Older(age, timeout) \in Nat
BY DEF Older

\* Every decision is one of the node's states.
LEMMA DecideStateType == DecideState \in MissionState
BY DEF DecideState, MissionState

LEMMA DefaultsType ==
  /\ NoTarget \in TargetError
  /\ NoTelemetry \in Telemetry
  /\ NoMission \in MissionCommand
BY DEF NoTarget, NoTelemetry, NoMission, TargetError, Telemetry,
       MissionCommand, Sign, Range, Height, MissionMode, MissionStep

\* One step of any action preserves the type invariant.
LEMMA TypeStep == TypeOK /\ [Next]_vars => TypeOK'
<1> SUFFICES ASSUME TypeOK, [Next]_vars
             PROVE  TypeOK'
  OBVIOUS
<1> USE ManagerAssumption DEF TypeOK, inputs, gates
<1>1. ASSUME NEW on \in BOOLEAN, AutonomyRequestCallback(on)
      PROVE  TypeOK'
  BY <1>1 DEF AutonomyRequestCallback
<1>2. ASSUME NEW on \in BOOLEAN, OffboardRequestCallback(on)
      PROVE  TypeOK'
  BY <1>2 DEF OffboardRequestCallback
<1>3. ASSUME NEW msg \in TargetInputs, TargetErrorCallback(msg)
      PROVE  TypeOK'
  <2>1. msg \in TargetError
    OBVIOUS
  <2>2. had_target_lock' \in BOOLEAN
    BY <1>3 DEF TargetErrorCallback
  <2>3. QED
    BY <1>3, <2>1, <2>2 DEF TargetErrorCallback
<1>4. ASSUME NEW msg \in TelemetryInputs, TelemetryCallback(msg)
      PROVE  TypeOK'
  BY <1>4 DEF TelemetryCallback
<1>5. ASSUME NEW msg \in MissionInputs, MissionCommandCallback(msg)
      PROVE  TypeOK'
  BY <1>5 DEF MissionCommandCallback
<1>6. CASE UpdateStateMachine
  <2>1. state' \in MissionState
    BY <1>6, DecideStateType DEF UpdateStateMachine
  <2>2. had_safe_autonomy' \in BOOLEAN
    BY <1>6 DEF UpdateStateMachine
  <2>3. autonomy_enabled' \in BOOLEAN /\ offboard_enabled' \in BOOLEAN
    BY <1>6 DEF UpdateStateMachine, AutonomyGate, OffboardReady
  <2>4. QED
    BY <1>6, <2>1, <2>2, <2>3 DEF UpdateStateMachine
<1>7. CASE Elapse
  BY <1>7, OlderType DEF Elapse
<1>8. CASE UNCHANGED vars
  BY <1>8 DEF vars
<1>9. QED
  BY <1>1, <1>2, <1>3, <1>4, <1>5, <1>6, <1>7, <1>8 DEF Next, Callback

\* Every variable keeps its type in every behaviour of the node.
THEOREM TypeCorrect == Spec => []TypeOK
<1>1. Init => TypeOK
  <2> SUFFICES ASSUME Init PROVE TypeOK
    OBVIOUS
  <2>1. /\ request_age \in Nat /\ target_age \in Nat
        /\ telemetry_age \in Nat /\ mission_age \in Nat
    BY DEF Init
  <2>2. QED
    BY <2>1, DefaultsType, Zenon DEF Init, TypeOK, MissionState
<1>2. QED
  BY <1>1, TypeStep, PTL DEF Spec

------------------------------------------------------------------------------
(* The gates follow the evidence.  Each piece of evidence is carried over  *)
(* every step other than the timer callback by a lemma of its own; the     *)
(* timer callback opens a gate only on evidence that holds as it fires.    *)

\* An age that stops growing has passed its timeout for good.
AgesBy(age, newage, timeout) ==
  newage = age + 1 \/ (newage = age /\ age > timeout + 1)

LEMMA Ageing ==
  ASSUME TypeOK, Elapse
  PROVE  /\ AgesBy(request_age, request_age', RequestTimeout)
         /\ AgesBy(target_age, target_age', TargetTimeout)
         /\ AgesBy(telemetry_age, telemetry_age', TelemetryTimeout)
         /\ AgesBy(mission_age, mission_age', MissionTimeout)
BY DEF Elapse, AgesBy, Older, TypeOK

LEMMA RequestCarriesOver ==
  ASSUME TypeOK, Callback \/ Elapse, RequestStillCounts
  PROVE  RequestStillCounts'
<1> USE ManagerAssumption
     DEF TypeOK, RequestStillCounts, RequestIsFresh, JustChanged, inputs, gates
<1>1. CASE Callback
  BY <1>1 DEF Callback, AutonomyRequestCallback, OffboardRequestCallback,
              TargetErrorCallback, TelemetryCallback, MissionCommandCallback
<1>2. CASE Elapse
  BY <1>2, Ageing DEF Elapse, AgesBy
<1>3. QED
  BY <1>1, <1>2

LEMMA TelemetryCarriesOver ==
  ASSUME TypeOK, Callback \/ Elapse, TelemetryStillCounts
  PROVE  TelemetryStillCounts'
<1> USE ManagerAssumption
     DEF TypeOK, TelemetryStillCounts, TelemetrySafetyOK, JustChanged, inputs,
         gates
<1>1. CASE Callback
  BY <1>1 DEF Callback, AutonomyRequestCallback, OffboardRequestCallback,
              TargetErrorCallback, TelemetryCallback, MissionCommandCallback
<1>2. CASE Elapse
  BY <1>2, Ageing DEF Elapse, AgesBy
<1>3. QED
  BY <1>1, <1>2

LEMMA LockOrScanCarriesOver ==
  ASSUME TypeOK, Callback \/ Elapse, LockOrScanStillCounts
  PROVE  LockOrScanStillCounts'
<1> USE ManagerAssumption
     DEF TypeOK, LockOrScanStillCounts, TargetLocked, ScanYawAuthorized,
         MissionIsScan, JustChanged, inputs, gates
<1>1. ASSUME NEW on \in BOOLEAN,
             AutonomyRequestCallback(on) \/ OffboardRequestCallback(on)
      PROVE  LockOrScanStillCounts'
  BY <1>1 DEF AutonomyRequestCallback, OffboardRequestCallback
<1>2. ASSUME NEW msg, TargetErrorCallback(msg)
      PROVE  LockOrScanStillCounts'
  BY <1>2 DEF TargetErrorCallback
<1>3. ASSUME NEW msg, TelemetryCallback(msg)
      PROVE  LockOrScanStillCounts'
  BY <1>3 DEF TelemetryCallback
<1>4. ASSUME NEW msg, MissionCommandCallback(msg)
      PROVE  LockOrScanStillCounts'
  BY <1>4 DEF MissionCommandCallback
<1>5. CASE Elapse
  BY <1>5, Ageing DEF Elapse, AgesBy
<1>6. QED
  BY <1>1, <1>2, <1>3, <1>4, <1>5 DEF Callback

\* Only the timer callback touches the gates.
LEMMA GatesOnlyOnTimer ==
  ASSUME Callback \/ Elapse
  PROVE  UNCHANGED gates
BY DEF Callback, Elapse, AutonomyRequestCallback, OffboardRequestCallback,
       TargetErrorCallback, TelemetryCallback, MissionCommandCallback, gates

\* What the timer callback has seen when it opens a gate.
LEMMA GateOpensOnEvidence ==
  ASSUME UpdateStateMachine
  PROVE  /\ autonomy_enabled' \/ offboard_enabled' =>
              RequestIsFresh /\ TelemetrySafetyOK
         /\ autonomy_enabled' \/ (offboard_enabled' /\ ~EnableOffboardWhenReady)
              => TargetLocked \/ ScanYawAuthorized
BY DEF UpdateStateMachine, DecideState, AutonomyGate, OffboardReady, SafeStates

\* The evidence itself is not touched by the timer callback.
LEMMA TimerKeepsEvidence ==
  ASSUME UpdateStateMachine
  PROVE  /\ RequestIsFresh' = RequestIsFresh
         /\ TelemetrySafetyOK' = TelemetrySafetyOK
         /\ TargetLocked' = TargetLocked
         /\ ScanYawAuthorized' = ScanYawAuthorized
BY DEF UpdateStateMachine, inputs, RequestIsFresh, TelemetrySafetyOK,
       TargetLocked, ScanYawAuthorized, MissionIsScan

GatesFollowEvidence == AutonomyGateFollowsEvidence /\ OffboardGateFollowsEvidence

LEMMA EvidenceStep ==
  TypeOK /\ GatesFollowEvidence /\ [Next]_vars => GatesFollowEvidence'
<1> SUFFICES ASSUME TypeOK, GatesFollowEvidence, [Next]_vars
             PROVE  GatesFollowEvidence'
  OBVIOUS
<1> USE DEF GatesFollowEvidence, AutonomyGateFollowsEvidence,
            OffboardGateFollowsEvidence
<1>1. CASE Callback \/ Elapse
  BY <1>1, GatesOnlyOnTimer, RequestCarriesOver, TelemetryCarriesOver,
     LockOrScanCarriesOver DEF gates
<1>2. CASE UpdateStateMachine
  BY <1>2, GateOpensOnEvidence, TimerKeepsEvidence
     DEF RequestStillCounts, TelemetryStillCounts, LockOrScanStillCounts
<1>3. CASE UNCHANGED vars
  BY <1>3 DEF vars, inputs, gates, RequestStillCounts, TelemetryStillCounts,
              LockOrScanStillCounts, RequestIsFresh, TelemetrySafetyOK,
              TargetLocked, ScanYawAuthorized, MissionIsScan, JustChanged
<1>4. QED
  BY <1>1, <1>2, <1>3 DEF Next

LEMMA EvidenceAlways == Spec => []GatesFollowEvidence
<1>1. Init => GatesFollowEvidence
  BY DEF Init, GatesFollowEvidence, AutonomyGateFollowsEvidence,
         OffboardGateFollowsEvidence
<1>2. QED
  BY <1>1, TypeCorrect, EvidenceStep, PTL DEF Spec

\* An open autonomy gate outlives the request, the safe telemetry and the lock
\* (or scan) it was opened on by at most one timer period.
THEOREM AutonomyGateBound == Spec => []AutonomyGateFollowsEvidence
<1>1. GatesFollowEvidence => AutonomyGateFollowsEvidence
  BY DEF GatesFollowEvidence
<1>2. QED
  BY <1>1, EvidenceAlways, PTL

\* The same bound for the Offboard gate.
THEOREM OffboardGateBound == Spec => []OffboardGateFollowsEvidence
<1>1. GatesFollowEvidence => OffboardGateFollowsEvidence
  BY DEF GatesFollowEvidence
<1>2. QED
  BY <1>1, EvidenceAlways, PTL

------------------------------------------------------------------------------
(* The safety part of the gate contract.                                   *)

LEMMA GateValues ==
  ASSUME TypeOK, UpdateStateMachine
  PROVE  /\ autonomy_enabled' \in BOOLEAN
         /\ offboard_enabled' \in {FALSE, offboard_requested}
<1>1. /\ AutonomyGate(DecideState) \in BOOLEAN
      /\ OffboardReady(DecideState) \in BOOLEAN
  BY DEF AutonomyGate, OffboardReady
<1>2. QED
  BY <1>1, Zenon DEF UpdateStateMachine, TypeOK

LEMMA GatesClosed ==
  ASSUME TypeOK, UpdateStateMachine, DecideState \notin SafeStates
  PROVE  autonomy_enabled' = FALSE /\ offboard_enabled' = FALSE
<1>1. ~AutonomyGate(DecideState) /\ ~OffboardReady(DecideState)
  BY DEF AutonomyGate, OffboardReady, SafeStates
<1>2. ~autonomy_enabled' /\ ~offboard_enabled'
  BY <1>1, Zenon DEF UpdateStateMachine
<1>3. autonomy_enabled' \in BOOLEAN /\ offboard_enabled' \in BOOLEAN
  BY GateValues, Zenon DEF TypeOK
<1>4. QED
  BY <1>2, <1>3, Zenon

LEMMA ContractStep == TypeOK /\ [Next]_vars => [Contract!CNext]_(Contract!cvars)
<1> SUFFICES ASSUME TypeOK, [Next]_vars
             PROVE  [Contract!CNext]_(Contract!cvars)
  OBVIOUS
<1> USE DEF Contract!cvars, gates
<1>1. ASSUME NEW on \in BOOLEAN, AutonomyRequestCallback(on)
      PROVE  Contract!CNext
  <2>1. CASE on
    BY <1>1, <2>1 DEF AutonomyRequestCallback, TypeOK, Contract!CNext,
                      Contract!Grant
  <2>2. CASE ~on
    BY <1>1, <2>2 DEF AutonomyRequestCallback, TypeOK, Contract!CNext,
                      Contract!Withdraw
  <2>3. QED
    BY <2>1, <2>2
<1>2. ASSUME NEW on \in BOOLEAN, OffboardRequestCallback(on)
      PROVE  Contract!CNext
  BY <1>2 DEF OffboardRequestCallback, Contract!CNext, Contract!RequestOffboard
<1>3. ASSUME NEW msg,
             \/ TargetErrorCallback(msg) \/ TelemetryCallback(msg)
             \/ MissionCommandCallback(msg) \/ Elapse
      PROVE  UNCHANGED Contract!cvars
  BY <1>3 DEF TargetErrorCallback, TelemetryCallback, MissionCommandCallback,
              Elapse
<1>4. CASE UpdateStateMachine
  <2>1. CASE DecideState = "STANDBY"
    <3>1. /\ PhaseOf(state)' = "idle" /\ had_safe_autonomy' = FALSE
          /\ autonomy_enabled' = FALSE /\ offboard_enabled' = FALSE
      BY <1>4, <2>1, GatesClosed DEF UpdateStateMachine, PhaseOf, SafeStates
    <3>2. QED
      BY <1>4, <3>1 DEF UpdateStateMachine, Contract!CNext, Contract!Stop,
                        Contract!GatesClose
  <2>2. CASE DecideState \in SafeStates
    <3>1. autonomy_requested
      BY <2>2 DEF DecideState, SafeStates, RequestIsFresh
    <3>2. PhaseOf(state)' = "operating" /\ had_safe_autonomy' = TRUE
      BY <1>4, <2>2 DEF UpdateStateMachine, PhaseOf, SafeStates
    <3>3. /\ autonomy_enabled' \in BOOLEAN
          /\ offboard_enabled' \in {FALSE, offboard_requested}
      BY <1>4, GateValues
    <3>4. QED
      BY <1>4, <3>1, <3>2, <3>3 DEF UpdateStateMachine, Contract!CNext,
                                    Contract!Operate
  <2>3. CASE DecideState = "FAILSAFE"
    <3>1. autonomy_requested
      BY <2>3 DEF DecideState, RequestIsFresh
    <3>2. had_safe_autonomy \/ PhaseOf(state) = "operating"
      BY <2>3 DEF DecideState, PhaseOf, SafeStates
    <3>3. /\ PhaseOf(state)' = "failsafe"
          /\ had_safe_autonomy' = had_safe_autonomy
          /\ autonomy_enabled' = FALSE /\ offboard_enabled' = FALSE
      BY <1>4, <2>3, GatesClosed DEF UpdateStateMachine, PhaseOf, SafeStates
    <3>4. QED
      BY <1>4, <3>1, <3>2, <3>3 DEF UpdateStateMachine, Contract!CNext,
                                    Contract!Fail, Contract!GatesClose
  <2>4. CASE DecideState = "PREFLIGHT_BLOCKED"
    <3>1. autonomy_requested
      BY <2>4 DEF DecideState, RequestIsFresh
    <3>2. ~had_safe_autonomy /\ PhaseOf(state) # "operating"
      BY <2>4 DEF DecideState, PhaseOf, SafeStates, TypeOK, MissionState
    <3>3. /\ PhaseOf(state)' = "blocked"
          /\ had_safe_autonomy' = had_safe_autonomy
          /\ autonomy_enabled' = FALSE /\ offboard_enabled' = FALSE
      BY <1>4, <2>4, GatesClosed DEF UpdateStateMachine, PhaseOf, SafeStates
    <3>4. QED
      BY <1>4, <3>1, <3>2, <3>3 DEF UpdateStateMachine, Contract!CNext,
                                    Contract!Block, Contract!GatesClose
  <2>5. QED
    BY <2>1, <2>2, <2>3, <2>4, DecideStateType DEF MissionState, SafeStates
<1>5. CASE UNCHANGED vars
  BY <1>5 DEF vars
<1>6. QED
  BY <1>1, <1>2, <1>3, <1>4, <1>5 DEF Next, Callback

\* Every behaviour of the manager keeps the gate contract: gates open only
\* while operating under consent, and safe operation never ends quietly.
THEOREM ManagerKeepsContract == Spec => Contract!CSafety
<1>1. Init => Contract!CInit
  BY DEF Init, PhaseOf, Contract!CInit
<1>2. QED
  BY <1>1, TypeCorrect, ContractStep, PTL DEF Spec, Contract!CSafety

------------------------------------------------------------------------------
(* control_node.                                                           *)

LEMMA IdleIsNotExecuted ==
  /\ ~Control!IdleCommand.executed
  /\ Control!IdleCommand.command_type # "POSITION"
BY DEF Control!IdleCommand

\* A callback that is not about autonomy publishes no command.
LEMMA MessagesPublishNothing ==
  ASSUME \/ \E msg \in ControlMissionInputs : Control!MissionCommandCallback(msg)
         \/ \E msg \in ControlTargetInputs : Control!TargetErrorCallback(msg)
         \/ \E msg \in ControlTelemetryInputs : Control!TelemetryCallback(msg)
  PROVE  UNCHANGED <<control_enabled, control_command>>
BY
DEF Control!MissionCommandCallback, Control!TargetErrorCallback,
    Control!TelemetryCallback

\* Whatever the loop publishes is idle, or is published while autonomy is enabled.
LEMMA LoopPublishes ==
  ASSUME Control!ControlLoop
  PROVE  /\ control_enabled' = control_enabled
         /\ ~control_enabled => control_command' = Control!IdleCommand
BY
DEF Control!ControlLoop, Control!LoopDisabled, Control!LoopUnsafe,
    Control!LoopWithoutPosition, Control!LoopHolding

\* A command to execute does not outlive the autonomy it was published under: a
\* disable, by message or by parameter, replaces it in the same callback.
THEOREM NothingStands == PartSpec => []NothingStandsDisabled
<1> DEFINE Inv == Control!NothingStandsDisabled
<1>1. PartInit => Inv
  BY IdleIsNotExecuted
  DEF PartInit, Control!HInit, Control!Init, Control!NothingStandsDisabled
<1>2. ASSUME Inv, Control!HNext
      PROVE  Inv'
  <2>1. CASE \E on \in BOOLEAN :
               Control!HEnable(on) \/ Control!SetAutonomyParameter(on)
    BY <1>2, <2>1, IdleIsNotExecuted
    DEF Control!HEnable, Control!AutonomyEnableCallback, Control!SetAutonomyParameter,
        Control!NothingStandsDisabled
  <2>2. CASE \/ \E msg \in ControlMissionInputs : Control!MissionCommandCallback(msg)
             \/ \E msg \in ControlTargetInputs : Control!TargetErrorCallback(msg)
             \/ \E msg \in ControlTelemetryInputs : Control!TelemetryCallback(msg)
    BY <1>2, <2>2, MessagesPublishNothing DEF Control!NothingStandsDisabled
  <2>3. CASE Control!HLoop
    BY <1>2, <2>3, LoopPublishes, IdleIsNotExecuted
    DEF Control!HLoop, Control!NothingStandsDisabled
  <2>4. CASE Control!HElapse
    BY <1>2, <2>4 DEF Control!HElapse, Control!Elapse, Control!NothingStandsDisabled
  <2> QED BY <1>2, <2>1, <2>2, <2>3, <2>4 DEF Control!HNext, Control!HReceive
<1>3. Inv /\ UNCHANGED controlling => Inv'
  BY DEF controlling, Control!NothingStandsDisabled
<1>4. Inv /\ [PartNext]_<<part, vars, controlling>> => Inv'
  BY <1>2, <1>3 DEF PartNext, ControlStep
<1> HIDE DEF Inv
<1>5. Inv => NothingStandsDisabled
  BY DEF Inv, NothingStandsDisabled
<1> QED BY <1>1, <1>4, <1>5, PTL DEF PartSpec

------------------------------------------------------------------------------
(* Where the vehicle is held.                                              *)

\* The anchor is a place remembered, and so is any place an anchor may be
\* captured at: while the position is known the vehicle is where it was reported.
AnchorIsRemembered ==
  /\ hold_position \subseteq places
  /\ control_telemetry.local_position_valid => control_telemetry.place \in places

PlacesInv == AnchorIsRemembered /\ Control!NeverSentBack

\* What the loop publishes while it holds is at the anchor.
LEMMA HoldsAtAnchor ==
  ASSUME Control!LoopHolding
  PROVE  /\ hold_position' = IF hold_position = {} THEN Control!Here ELSE hold_position
         /\ control_command'.command_type = "POSITION" =>
              control_command'.place \in hold_position'
<1>1. /\ hold_position' = IF hold_position = {} THEN Control!Here ELSE hold_position
      /\ Control!FollowMission
  BY DEF Control!LoopHolding
<1>2. (CHOOSE p \in hold_position' : TRUE) \in hold_position'
  BY <1>1 DEF Control!Here
<1>3. \A yaw, sent : Control!PublishPositionHold(yaw, sent) =>
        control_command'.place \in hold_position'
  BY <1>2 DEF Control!PublishPositionHold
<1>4. \A wanted, sent : Control!Turns(wanted, sent) =>
        control_command'.place \in hold_position'
  BY <1>3 DEF Control!Turns
<1>5. \A forward, yaw : Control!PublishVelocity(forward, yaw) =>
        control_command'.command_type # "POSITION"
  BY DEF Control!PublishVelocity
<1> QED BY <1>1, <1>3, <1>4, <1>5 DEF Control!FollowMission

LEMMA PlacesInvEnable ==
  ASSUME PlacesInv, NEW on \in BOOLEAN, Control!HEnable(on)
  PROVE  PlacesInv'
<1>1. /\ hold_position' = IF control_enabled /\ ~on THEN {} ELSE hold_position
      /\ control_command' = IF on THEN control_command ELSE Control!IdleCommand
      /\ control_telemetry' = control_telemetry
      /\ places' = IF control_enabled /\ ~on THEN Control!Here ELSE places
  BY DEF Control!HEnable, Control!AutonomyEnableCallback, Control!received
<1>2. AnchorIsRemembered'
  BY <1>1 DEF PlacesInv, AnchorIsRemembered, Control!Here
<1>3. Control!NeverSentBack'
  BY <1>1, IdleIsNotExecuted DEF PlacesInv, Control!NeverSentBack
<1> QED BY <1>2, <1>3 DEF PlacesInv

LEMMA PlacesInvReceive ==
  ASSUME PlacesInv, Control!HReceive
  PROVE  PlacesInv'
<1>1. CASE \E on \in BOOLEAN :
             Control!SetAutonomyParameter(on) /\ UNCHANGED places
  BY <1>1, IdleIsNotExecuted
  DEF Control!SetAutonomyParameter, Control!received, PlacesInv,
      AnchorIsRemembered, Control!NeverSentBack
<1>2. CASE \E msg \in ControlMissionInputs :
             Control!MissionCommandCallback(msg) /\ UNCHANGED places
  BY <1>2
  DEF Control!MissionCommandCallback, PlacesInv, AnchorIsRemembered,
      Control!NeverSentBack
<1>3. CASE \E msg \in ControlTargetInputs :
             Control!TargetErrorCallback(msg) /\ UNCHANGED places
  BY <1>3
  DEF Control!TargetErrorCallback, PlacesInv, AnchorIsRemembered,
      Control!NeverSentBack
<1>4. CASE \E msg \in ControlTelemetryInputs :
             Control!TelemetryCallback(msg) /\ places' = places \cup {msg.place}
  BY <1>4
  DEF Control!TelemetryCallback, PlacesInv, AnchorIsRemembered,
      Control!NeverSentBack
<1> QED BY <1>1, <1>2, <1>3, <1>4 DEF Control!HReceive

LEMMA PlacesInvLoop ==
  ASSUME PlacesInv, Control!HLoop
  PROVE  PlacesInv'
<1>1. /\ Control!ControlLoop
      /\ control_telemetry' = control_telemetry
      /\ places' = IF control_enabled /\ Control!SafetyOK
                      /\ ~control_telemetry.local_position_valid
                   THEN {} ELSE places
  BY DEF Control!HLoop, Control!ControlLoop, Control!received
<1>2. CASE Control!LoopDisabled
  BY <1>1, <1>2, IdleIsNotExecuted
  DEF Control!LoopDisabled, Control!Here, PlacesInv, AnchorIsRemembered,
      Control!NeverSentBack
<1>3. CASE Control!LoopUnsafe
  BY <1>1, <1>3, IdleIsNotExecuted
  DEF Control!LoopUnsafe, PlacesInv, AnchorIsRemembered, Control!NeverSentBack
<1>4. CASE Control!LoopWithoutPosition
  BY <1>1, <1>4, IdleIsNotExecuted
  DEF Control!LoopWithoutPosition, PlacesInv, AnchorIsRemembered, Control!NeverSentBack
<1>5. CASE Control!LoopHolding
  <2>1. places' = places /\ control_telemetry.place \in places
    BY <1>1, <1>5 DEF Control!LoopHolding, PlacesInv, AnchorIsRemembered
  <2>2. hold_position' \subseteq places
    BY <1>5, <2>1, HoldsAtAnchor DEF Control!Here, PlacesInv, AnchorIsRemembered
  <2> QED BY <1>1, <1>5, <2>1, <2>2, HoldsAtAnchor
          DEF PlacesInv, AnchorIsRemembered, Control!NeverSentBack
<1> QED BY <1>1, <1>2, <1>3, <1>4, <1>5 DEF Control!ControlLoop

\* A place the vehicle is told to hold is one it was reported at since a message
\* last switched autonomy off and since its position was last found missing.
THEOREM HeldWhereItWas == PartSpec => []NeverSentBack
<1>1. PartInit => PlacesInv
  BY IdleIsNotExecuted
  DEF PartInit, Control!HInit, Control!Init, Control!Here, PlacesInv,
      AnchorIsRemembered, Control!NeverSentBack
<1>2. ASSUME PlacesInv, Control!HNext
      PROVE  PlacesInv'
  <2>1. CASE Control!HElapse
    BY <1>2, <2>1
    DEF Control!HElapse, Control!Elapse, PlacesInv, AnchorIsRemembered,
        Control!NeverSentBack
  <2> QED BY <1>2, <2>1, PlacesInvEnable, PlacesInvReceive, PlacesInvLoop
          DEF Control!HNext
<1>3. PlacesInv /\ UNCHANGED controlling => PlacesInv'
  BY DEF controlling, PlacesInv, AnchorIsRemembered, Control!NeverSentBack
<1>4. PlacesInv /\ [PartNext]_<<part, vars, controlling>> => PlacesInv'
  BY <1>2, <1>3 DEF PartNext, ControlStep
<1>5. PlacesInv => NeverSentBack
  BY DEF PlacesInv, NeverSentBack
<1> QED BY <1>1, <1>4, <1>5, PTL DEF PartSpec
==============================================================================
