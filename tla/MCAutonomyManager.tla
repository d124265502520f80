-------------------------- MODULE MCAutonomyManager --------------------------
(* Small instances of AutonomyManager for TLC.                             *)
EXTENDS AutonomyManager

MCTargetInputs ==
  {[NoTarget EXCEPT !.target_visible = TRUE, !.tracking_state = "LOCKED"],
   [NoTarget EXCEPT !.tracking_state = "LOST"]}

\* Safe, disarmed, and low on battery (a level of 0 counts as unknown).
Flying == [connected |-> TRUE, armed |-> TRUE, healthy |-> TRUE,
           local_position_valid |-> TRUE, global_position |-> TRUE,
           height |-> "high", battery |-> 80, place |-> 0]
MCTelemetryInputs ==
  {Flying, [Flying EXCEPT !.armed = FALSE], [Flying EXCEPT !.battery = 19],
   [Flying EXCEPT !.battery = 0]}

MCMissionInputs ==
  {[NoMission EXCEPT !.mode = "SCAN", !.active = TRUE, !.step = "SCAN"],
   [NoMission EXCEPT !.mode = "HOLD", !.active = TRUE, !.step = "HOLD"]}
==============================================================================
