--------------------------- MODULE MCMavsdkBridge ---------------------------
(***************************************************************************)
(* Small instances of MavsdkBridge.  They begin in the state in which      *)
(* every stream of a flying vehicle has reported once and nothing else has *)
(* happened.                                                               *)
(***************************************************************************)
EXTENDS MavsdkBridge

Follow(p) == [IdleCommand EXCEPT !.command_type = "POSITION", !.executed = TRUE,
                                 !.sent = TRUE, !.place = p]
Fly == [IdleCommand EXCEPT !.command_type = "VELOCITY", !.executed = TRUE,
                           !.sent = TRUE, !.forward = 1]
MCControlInputs == {Follow(1), Fly}
MCNoControl == {}
MCActionInputs == {NewAction("TAKEOFF"), NewAction("GOTO_LOCATION")}

Flying == [connected |-> TRUE, armed |-> TRUE, healthy |-> TRUE,
           local_position_valid |-> TRUE, global_position |-> TRUE,
           height |-> "high", battery |-> 80, place |-> 0]
Landed == [Flying EXCEPT !.height = "ground"]
MCVehicleInputs == {Flying, Landed}
MCTakeoff == {NewAction("TAKEOFF")}
MCAlwaysFlying == {Flying}
MCStalling == {"local_position"}

FlyingInit == InitWith([Flying EXCEPT !.connected = FALSE], Stream)
FlyingSpec == FlyingInit /\ [][Next]_vars
FlyingFairSpec == FlyingSpec /\ Fairness
==============================================================================
