------------------------- MODULE MCOffboardHandover -------------------------
(* Two short missions for OffboardHandover.                                *)
EXTENDS OffboardHandover

MCReport == [connected |-> TRUE, armed |-> TRUE, healthy |-> TRUE,
             local_position_valid |-> TRUE, global_position |-> TRUE,
             height |-> "high", battery |-> 80, place |-> 0]

New(type) == [type |-> type, timeout |-> 2, hold |-> 1, until |-> "none",
              yaw_rate |-> 0, offset |-> 1]
MCLandPlans == {<<New("prime_offboard"), New("land")>>}
MCGotoPlans == {<<New("prime_offboard"), New("goto")>>}
==============================================================================
