---------------------------- MODULE MCPlanUpload ----------------------------
(***************************************************************************)
(* Four documents: one in order, one that moves before it primes, one only *)
(* the fallback of the preview accepts, and one nobody accepts.            *)
(***************************************************************************)
EXTENDS PlanUpload, TLC

Flying == [connected |-> TRUE, armed |-> TRUE, healthy |-> TRUE,
           local_position_valid |-> TRUE, global_position |-> TRUE,
           height |-> "high", battery |-> 80, place |-> 0]
MCTelemetryInputs == {Flying}

MCInOrder == <<Written("prime_offboard"),
               [Written("scan") EXCEPT !.timeout = Given(1), !.direction = "cw"],
               [Written("orbit") EXCEPT !.timeout = Given(0), !.revolutions = Given(1)]>>
MCUnprimed == <<[Written("goto") EXCEPT !.offset = Given(1)], Written("scan")>>
MCUnknownUntil == <<[Written("track_center") EXCEPT !.until = "unknown"]>>
MCUnknownVerb == <<Written("land"), Written("unknown")>>
MCDocuments == {MCInOrder, MCUnprimed, MCUnknownUntil, MCUnknownVerb}

MCPlans == {Resolve(LoadPlan(d)) : d \in MCDocuments}

MCDefaultTimeout == [t \in StepType |-> IF t = "track_center" THEN 0 ELSE 1]
MCDefaultHold == [t \in StepType |-> 1]

MCSymmetry == Permutations(Threads)
==============================================================================
