---------------------------- MODULE ControlPlaces ----------------------------
(***************************************************************************)
(* ControlNode with a memory of where the vehicle has been.                *)
(***************************************************************************)
EXTENDS ControlNode

\* Where the vehicle was reported since autonomy was last switched off by a message,
\* or since the node last gave up holding for want of a position.
VARIABLE places

HInit == Init /\ places = Here

HEnable(on) ==
  /\ AutonomyEnableCallback(on)
  /\ places' = IF autonomy_enabled /\ ~on THEN Here ELSE places

HReceive ==
  \/ /\ \/ \E on \in BOOLEAN : SetAutonomyParameter(on)
        \/ \E msg \in MissionInputs : MissionCommandCallback(msg)
        \/ \E msg \in TargetInputs : TargetErrorCallback(msg)
     /\ UNCHANGED places
  \/ \E msg \in TelemetryInputs :
       TelemetryCallback(msg) /\ places' = places \cup {msg.place}

HLoop ==
  /\ ControlLoop
  /\ places' = IF autonomy_enabled /\ SafetyOK /\ ~last_telemetry.local_position_valid
               THEN {} ELSE places

HElapse == Elapse /\ UNCHANGED places

HNext == (\E on \in BOOLEAN : HEnable(on)) \/ HReceive \/ HLoop \/ HElapse
HSpec == /\ HInit /\ [][HNext]_<<vars, places>>
         /\ WF_<<vars, places>>(control_due /\ HLoop) /\ WF_<<vars, places>>(HElapse)

\* The vehicle is never sent back to a place it has left: a place it is told to
\* hold is one it was reported at since autonomy was last switched off and since
\* its position was last found missing.  (Switching off by the parameter does not
\* count: see SetAutonomyParameter.)
NeverSentBack ==
  control_command.command_type = "POSITION" => control_command.place \in places
==============================================================================
