---------------------------- MODULE GateContract ----------------------------
(***************************************************************************)
(* What the autonomy manager promises, with the evidence (telemetry,       *)
(* target, mission, clocks) abstracted away: the two gates open only while *)
(* the vehicle is operating with the operator's consent, a vehicle that    *)
(* was operating fails loudly (failsafe) and never falls back to the quiet *)
(* preflight state, and withdrawn consent eventually closes both gates.    *)
(***************************************************************************)

VARIABLES
  consent,           \* the operator's autonomy request
  offboard_consent,  \* the request for PX4 Offboard
  phase,             \* what the manager reports
  proven,            \* the vehicle has operated under the present consent
  autonomy_enabled,
  offboard_enabled

cvars == <<consent, offboard_consent, phase, proven, autonomy_enabled,
           offboard_enabled>>

Phase == {"idle", "blocked", "operating", "failsafe"}

CInit ==
  /\ consent \in BOOLEAN
  /\ offboard_consent \in BOOLEAN
  /\ phase = "idle"
  /\ proven = FALSE
  /\ autonomy_enabled = FALSE
  /\ offboard_enabled = FALSE

\* Withdrawing consent also withdraws the Offboard request: giving consent
\* back never brings Offboard with it.
Withdraw ==
  /\ consent' = FALSE
  /\ offboard_consent' = FALSE
  /\ proven' = FALSE
  /\ UNCHANGED <<phase, autonomy_enabled, offboard_enabled>>

Grant ==
  /\ consent' = TRUE
  /\ UNCHANGED <<offboard_consent, phase, proven, autonomy_enabled,
                 offboard_enabled>>

RequestOffboard ==
  /\ offboard_consent' \in BOOLEAN
  /\ UNCHANGED <<consent, phase, proven, autonomy_enabled, offboard_enabled>>

GatesClose ==
  /\ autonomy_enabled' = FALSE
  /\ offboard_enabled' = FALSE
  /\ UNCHANGED <<consent, offboard_consent>>

Stop ==
  /\ phase' = "idle"
  /\ proven' = FALSE
  /\ GatesClose

Operate ==
  /\ consent
  /\ phase' = "operating"
  /\ proven' = TRUE
  /\ autonomy_enabled' \in BOOLEAN
  /\ offboard_enabled' \in {FALSE, offboard_consent}
  /\ UNCHANGED <<consent, offboard_consent>>

Fail ==
  /\ consent
  /\ proven \/ phase = "operating"
  /\ phase' = "failsafe"
  /\ UNCHANGED proven
  /\ GatesClose

Block ==
  /\ consent
  /\ ~proven /\ phase # "operating"
  /\ phase' = "blocked"
  /\ UNCHANGED proven
  /\ GatesClose

CNext == Withdraw \/ Grant \/ RequestOffboard \/ Stop \/ Operate \/ Fail \/ Block

CSafety == CInit /\ [][CNext]_cvars

\* The manager must act on withdrawn consent; everything else is its choice.
CSpec == CSafety /\ WF_cvars(~consent /\ Stop)
=============================================================================
