------------------------------ MODULE MCLinkLoss ------------------------------
(* A mission that holds for ever, for LinkLoss.                             *)
EXTENDS LinkLoss

MCReport == [connected |-> TRUE, armed |-> TRUE, healthy |-> TRUE,
             local_position_valid |-> TRUE, global_position |-> TRUE,
             height |-> "high", battery |-> 80, place |-> 0]

MCPlans == {<<[type |-> "hold", timeout |-> 0, hold |-> 0, until |-> "none",
               yaw_rate |-> 0, offset |-> 0]>>}
==============================================================================
