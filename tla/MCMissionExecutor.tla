-------------------------- MODULE MCMissionExecutor --------------------------
(***************************************************************************)
(* Small instances of MissionExecutor, with the history of StepHistory and *)
(* a bound on the operator's requests.                                     *)
(***************************************************************************)
EXTENDS StepHistory

CONSTANT MaxRequests   \* bound: starts, stops and uploads in a behaviour

VARIABLE requests      \* operator requests so far

MInit == HInit /\ requests = 0

MLoop == HLoop /\ UNCHANGED requests
MRequest == requests < MaxRequests /\ requests' = requests + 1 /\ HRequest
MReceive == HReceive /\ UNCHANGED requests
MElapse == HElapse /\ UNCHANGED requests

observed == <<vars, visit_actions, requests>>
MNext == MLoop \/ MRequest \/ MReceive \/ MElapse
MSpec == MInit /\ [][MNext]_observed
MFairSpec == MSpec /\ WF_observed(MLoop) /\ WF_observed(MElapse)

------------------------------------------------------------------------------
(* Plans.                                                                  *)

New(type) == [type |-> type, timeout |-> 2, hold |-> 1, until |-> "none",
              yaw_rate |-> 0, offset |-> 0]
ScanStep == [New("scan") EXCEPT !.until = "locked", !.yaw_rate = -1, !.hold = 2,
                                !.timeout = 3]
GotoStep == [New("goto") EXCEPT !.offset = 1]

\* Search, reposition twice and land, the shape of missions/*.yaml; orbit twice
\* and return.  Each may be uploaded to replace the other.
MCFlightPlans == {<<New("takeoff"), New("prime_offboard"), ScanStep, GotoStep,
                    GotoStep, New("land")>>,
                  <<[New("approach") EXCEPT !.timeout = 1], New("track_center"),
                    New("orbit"), New("orbit"), New("rtl"), New("hold"),
                    New("complete")>>}

------------------------------------------------------------------------------
(* Messages.                                                               *)

Locked == [target_visible |-> TRUE, tracking_state |-> "LOCKED", bearing |-> 0,
           range |-> "at"]
MCTargetInputs == {Locked, [Locked EXCEPT !.bearing = 1, !.range = "invalid"]}

Flying == [connected |-> TRUE, armed |-> TRUE, healthy |-> TRUE,
           local_position_valid |-> TRUE, global_position |-> TRUE,
           height |-> "high", battery |-> 80, place |-> 0]
MCTelemetryInputs ==
  {Flying, [Flying EXCEPT !.place = 1],
   [Flying EXCEPT !.height = "low", !.global_position = FALSE],
   [Flying EXCEPT !.height = "ground", !.armed = FALSE]}
==============================================================================
