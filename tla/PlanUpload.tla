----------------------------- MODULE PlanUpload -----------------------------
(***************************************************************************)
(* How a mission plan gets from the dashboard's mission builder to the     *)
(* executor: web_dashboard_node, whose HTTP threads preview and send       *)
(* plans, the topics in between, and mission_executor_node, which parses   *)
(* a plan again, stages it or refuses it, and acknowledges.  Plans, mission *)
(* requests and acknowledgements travel on topics of their own: each is in  *)
(* order, none waits for another.                                          *)
(***************************************************************************)
EXTENDS MissionExecutor

CONSTANTS
  Documents,         \* what the builder or a mission file may hold
  RunFullOrbit,      \* run_full_orbit_after_track_center
  ParserImportable,  \* drone_control can be imported where the dashboard runs
  DefaultTimeout,    \* per verb: the node's timeout parameter
  RevolutionTime,    \* what an orbit is given whose plan says how often
  DefaultHold,       \* per verb: the node's prime time, and its sweep time
  Threads,           \* HTTP handler threads
  MaxSends,          \* bound: plans sent
  MaxRequests        \* bound: mission requests published

ASSUME UploadAssumption ==
  /\ Documents \subseteq Seq(WrittenStep)
  /\ ParserImportable \in BOOLEAN /\ RunFullOrbit \in BOOLEAN
  /\ DefaultTimeout \in [StepType -> Nat] /\ DefaultHold \in [StepType -> Nat]
  /\ RevolutionTime \in Nat /\ MaxSends \in Nat /\ MaxRequests \in Nat

VARIABLES
  document,      \* the document the staged plan was parsed from
  sending,       \* per thread: the plan between its PENDING and its publication
  plan_ack,      \* the acknowledgement shown on the page
  answer,        \* the document and the warnings the last send answered with
  plan_topic, request_topic, ack_topic,   \* published and not yet received
  sends, requests,
  primed         \* a prime step was completed since the last start

dashboard == <<sending, plan_ack, answer, sends>>
upload_vars == <<vars, document, dashboard, plan_topic, request_topic, ack_topic,
                 requests, primed>>

------------------------------------------------------------------------------
(* What the handlers make of a written step.                               *)

ScanUnit(direction) == IF direction = "cw" THEN 1 ELSE -1

ResolveStep(step) ==
  [type |-> step.type,
   timeout |-> ValueOr(step.timeout,
                       IF step.type = "orbit" /\ step.revolutions.given
                       THEN RevolutionTime ELSE DefaultTimeout[step.type]),
   hold |-> ValueOr(step.hold, DefaultHold[step.type]),
   until |-> IF step.until # "absent" THEN step.until
             ELSE IF step.type = "scan" THEN "locked" ELSE "none",
   yaw_rate |-> IF step.type = "scan" THEN ScanUnit(step.direction) ELSE 0,
   offset |-> ValueOr(step.offset, 0)]

Resolve(steps) == [i \in DOMAIN steps |-> ResolveStep(steps[i])]

\* The plan the node starts with: its file, if it is accepted.
LoadPlan(file) == IF Accepts(file) THEN file ELSE DefaultPlan(RunFullOrbit)

PENDING == [status |-> "PENDING", document |-> <<>>, warnings |-> {}]
Ack(accepted, steps) ==
  [status |-> IF accepted THEN "ACCEPTED" ELSE "REJECTED", document |-> steps,
   warnings |-> IF accepted THEN Lint(steps) ELSE {}]

------------------------------------------------------------------------------
UploadInit ==
  /\ Init
  /\ \E file \in Documents : document = LoadPlan(file)
  /\ plan = Resolve(document)
  /\ sending = [t \in Threads |-> <<>>]
  /\ plan_ack = [PENDING EXCEPT !.status = "NONE"]
  /\ answer = {}
  /\ plan_topic = <<>> /\ request_topic = <<>> /\ ack_topic = <<>>
  /\ sends = 0 /\ requests = 0
  /\ primed = FALSE

(* web_dashboard_node. *)

\* PENDING is written under the lock, the plan is published after it.
BeginSend(t, text, warnings) ==
  /\ sending[t] = <<>>
  /\ sends < MaxSends
  /\ sends' = sends + 1
  /\ sending' = [sending EXCEPT ![t] = <<[text |-> text, warnings |-> warnings]>>]
  /\ plan_ack' = PENDING
  /\ UNCHANGED <<vars, document, answer, plan_topic, request_topic, ack_topic,
                 requests, primed>>

\* A plan from the builder; one that the preview rejects is answered with the
\* error and changes nothing.
SendBuilt(t, text) ==
  LET record == Preview(text, ParserImportable)
  IN record.valid /\ BeginSend(t, text, {record.warnings})

\* A plan from the catalog: its record was made when the catalog was loaded,
\* its text is read now and may be anything the file has become.
SendFromCatalog(t, text) == BeginSend(t, text, {})

PublishPlan(t) ==
  /\ sending[t] # <<>>
  /\ LET sent == sending[t][1] IN
     /\ plan_topic' = Append(plan_topic, sent.text)
     /\ answer' = {[document |-> sent.text, warnings |-> w] : w \in sent.warnings}
  /\ sending' = [sending EXCEPT ![t] = <<>>]
  /\ UNCHANGED <<vars, document, plan_ack, request_topic, ack_topic, sends,
                 requests, primed>>

PublishMissionRequest(on) ==
  /\ requests < MaxRequests
  /\ requests' = requests + 1
  /\ request_topic' = Append(request_topic, on)
  /\ UNCHANGED <<vars, document, dashboard, plan_topic, ack_topic, primed>>

\* Plausible bug: an acknowledgement is only shown while one is awaited.
OnPlanAckAwaited ==
  /\ ack_topic # <<>>
  /\ ack_topic' = Tail(ack_topic)
  /\ plan_ack' = IF plan_ack.status = "PENDING" THEN Head(ack_topic) ELSE plan_ack
  /\ UNCHANGED <<vars, document, sending, answer, sends, plan_topic, request_topic,
                 requests, primed>>

OnPlanAck ==
  /\ ack_topic # <<>>
  /\ ack_topic' = Tail(ack_topic)
  /\ plan_ack' = Head(ack_topic)
  /\ UNCHANGED <<vars, document, sending, answer, sends, plan_topic, request_topic,
                 requests, primed>>

(* mission_executor_node. *)

\* The acknowledgement of a plan, with what becomes of it.
AnswerPlan(text, accepted) ==
  /\ plan_topic' = Tail(plan_topic)
  /\ ack_topic' = Append(ack_topic, Ack(accepted, text))
  /\ IF accepted THEN MissionPlanCallback(Resolve(text)) /\ document' = text
     ELSE /\ NothingPublished
          /\ UNCHANGED <<state, mission_active, plan_cursor, inputs, loop_due,
                         document>>
  /\ UNCHANGED <<dashboard, request_topic, requests, primed>>

\* Plausible bug: what the preview let through is not checked again.
ReceivePlanTrusting ==
  /\ plan_topic # <<>>
  /\ AnswerPlan(Head(plan_topic), ~mission_active /\ FallbackAccepts(Head(plan_topic)))

ReceivePlan ==
  /\ plan_topic # <<>>
  /\ AnswerPlan(Head(plan_topic), ~mission_active /\ Accepts(Head(plan_topic)))

ReceiveMissionRequest ==
  /\ request_topic # <<>>
  /\ request_topic' = Tail(request_topic)
  /\ MissionRequestCallback(Head(request_topic))
  /\ primed' = (primed /\ ~Head(request_topic))
  /\ UNCHANGED <<document, dashboard, plan_topic, ack_topic, requests>>

ExecutorLoop ==
  /\ Loop
  /\ primed' = (primed \/ (InStep("prime_offboard") /\ step_index' # step_index))
  /\ UNCHANGED <<document, dashboard, plan_topic, request_topic, ack_topic, requests>>

ExecutorOther ==
  /\ \/ \E msg \in TargetInputs : TargetCallback(msg)
     \/ \E msg \in TelemetryInputs : TelemetryCallback(msg)
     \/ Elapse
  /\ UNCHANGED <<document, dashboard, plan_topic, request_topic, ack_topic, requests,
                 primed>>

UploadNext ==
  \/ \E t \in Threads, text \in Documents : SendBuilt(t, text)
  \/ \E t \in Threads, text \in Documents : SendFromCatalog(t, text)
  \/ \E t \in Threads : PublishPlan(t)
  \/ \E on \in BOOLEAN : PublishMissionRequest(on)
  \/ OnPlanAck
  \/ ReceivePlan
  \/ ReceiveMissionRequest
  \/ ExecutorLoop
  \/ ExecutorOther

UploadSpec == UploadInit /\ [][UploadNext]_upload_vars

------------------------------------------------------------------------------
(* Properties.                                                             *)

\* When nothing is under way any more, the page no longer shows PENDING, and
\* if it shows that a plan was accepted, that plan is the staged one: however
\* the sends of two threads, their publications and their answers interleaved.
AckIsTrue ==
  /\ \A t \in Threads : sending[t] = <<>>
  /\ plan_topic = <<>> /\ ack_topic = <<>>
  => /\ plan_ack.status # "PENDING"
     /\ plan_ack.status = "ACCEPTED" => plan_ack.document = document

\* The warnings the operator was answered with when sending a plan are those
\* the executor acknowledges it with, also when the dashboard cannot import
\* the executor's parser.
PreviewMatchesAck ==
  \A a \in answer : plan_ack.status = "ACCEPTED" /\ plan_ack.document = a.document
                      => plan_ack.warnings = a.warnings

\* What is flown was accepted by the executor's own parser, whatever the
\* dashboard sent and in whatever order uploads and starts arrived.
RefusedNeverFlies ==
  mission_active => Accepts(document) /\ plan = Resolve(document)

\* A plan that the lint finds in order commands no motion in Offboard before a
\* prime step of it was completed since the mission was last started.
CleanPlansPrimeFirst ==
  [][Unprimed(document) = {} /\ ~primed =>
       \A i \in DOMAIN commands' : commands'[i].mode \in {"IDLE", "HOLD"}]_upload_vars
==============================================================================
