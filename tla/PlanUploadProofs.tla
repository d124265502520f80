-------------------------- MODULE PlanUploadProofs --------------------------
(***************************************************************************)
(* Theorems about PlanUpload, for any documents, threads and number of     *)
(* sends: what is flown was accepted, an acknowledgement shown is true, and *)
(* preview and acknowledgement warn of the same.                           *)
(***************************************************************************)
EXTENDS PlanUpload, TLAPS

------------------------------------------------------------------------------
(* Documents.                                                              *)

\* A number of an accepted step is usable exactly when it is given.
LEMMA GivenIsUsable ==
  ASSUME NEW number \in Number, WellFormed(number)
  PROVE  number.given <=> number.value # {}
BY DEF Number, WellFormed

\* Whatever the parser accepts, the fallback accepts with the same warnings.
LEMMA FallbackAgrees ==
  ASSUME NEW text \in Seq(WrittenStep), Accepts(text)
  PROVE  FallbackAccepts(text) /\ FallbackLint(text) = Lint(text)
<1>1. \A i \in DOMAIN text : AcceptsStep(text[i]) /\ text[i] \in WrittenStep
  BY DEF Accepts
<1>2. FallbackAccepts(text)
  BY <1>1 DEF Accepts, AcceptsStep, FallbackAccepts
<1>3. \A i \in DOMAIN text : text[i].timeout.given <=> text[i].timeout.value # {}
  BY <1>1, GivenIsUsable DEF AcceptsStep, WrittenStep
<1>4. {i \in DOMAIN text : text[i].timeout.given}
        = {i \in DOMAIN text : text[i].timeout.value # {}}
  BY <1>3
<1>5. QED
  BY <1>2, <1>4 DEF Lint, FallbackLint

\* So the preview warns of what the executor's lint finds, with either parser.
LEMMA PreviewWarns ==
  ASSUME NEW text \in Seq(WrittenStep), Accepts(text)
  PROVE  Preview(text, ParserImportable).warnings = Lint(text)
BY FallbackAgrees, UploadAssumption DEF Preview

\* The built-in plans pass the parser.
LEMMA DefaultAccepted == Accepts(DefaultPlan(RunFullOrbit))
<1>1. \A type \in StepType \ {"goto"} : AcceptsStep(Written(type))
  BY DEF AcceptsStep, Written, WellFormed, ABSENT, StepType
<1>2. \A u \in Until : AcceptsStep([Written("track_center") EXCEPT !.until = u])
  BY DEF AcceptsStep, Written, WellFormed, ABSENT, StepType, Until
<1>3. CASE RunFullOrbit
  BY <1>1, <1>2, <1>3 DEF DefaultPlan, Accepts, StepType, Until
<1>4. CASE ~RunFullOrbit
  BY <1>1, <1>2, <1>4 DEF DefaultPlan, Accepts, StepType, Until
<1>5. QED
  BY <1>3, <1>4

------------------------------------------------------------------------------
(* What is flown.                                                          *)

Staged == Accepts(document) /\ plan = Resolve(document)

\* No pass of the executor's loop touches the plan.
LEMMA LoopKeepsPlan == Loop => plan' = plan
BY DEF Loop, StepTakeoff, StepPrimeOffboard, StepScan, StepTrackCenter,
       StepApproach, StepGoto, StepOrbit, StepRtl, StepLand, StepHold,
       EnterComplete, LoopIdle, Blocked, Pass, plan_cursor

\* Nor does a request or what the vehicle and the tracker report.
LEMMA CallbacksKeepPlan ==
  /\ \A on : MissionRequestCallback(on) => plan' = plan
  /\ ExecutorOther => plan' = plan
BY DEF MissionRequestCallback, MissionStart, MissionStop, ExecutorOther,
       TargetCallback, TelemetryCallback, Elapse, plan_cursor

LEMMA StagedStep == Staged /\ [UploadNext]_upload_vars => Staged'
<1> SUFFICES ASSUME Staged, [UploadNext]_upload_vars
             PROVE  Staged'
  OBVIOUS
<1>1. CASE ReceivePlan
  <2>1. CASE ~mission_active /\ Accepts(Head(plan_topic))
    BY <1>1, <2>1 DEF ReceivePlan, AnswerPlan, MissionPlanCallback, Staged
  <2>2. CASE ~(~mission_active /\ Accepts(Head(plan_topic)))
    BY <1>1, <2>2 DEF ReceivePlan, AnswerPlan, Staged, plan_cursor
  <2>3. QED
    BY <2>1, <2>2
<1>2. CASE ~ReceivePlan
  <2>1. UNCHANGED <<document, plan>>
    BY <1>2, LoopKeepsPlan, CallbacksKeepPlan
    DEF UploadNext, SendBuilt, SendFromCatalog, BeginSend, PublishPlan,
        PublishMissionRequest, OnPlanAck, ReceiveMissionRequest, ExecutorLoop,
        ExecutorOther, upload_vars, vars, plan_cursor
  <2>2. QED
    BY <2>1 DEF Staged
<1>3. QED
  BY <1>1, <1>2

LEMMA StagedInit == UploadInit => Staged
BY DefaultAccepted DEF UploadInit, LoadPlan, Staged

\* What is flown was accepted by the executor's own parser, whatever the
\* dashboard sent (mission_executor_node.mission_plan_callback).
THEOREM OnlyAcceptedPlansFly == UploadSpec => []RefusedNeverFlies
<1>1. UploadSpec => []Staged
  BY StagedInit, StagedStep, PTL DEF UploadSpec
<1>2. Staged => RefusedNeverFlies
  BY DEF Staged, RefusedNeverFlies
<1>3. QED
  BY <1>1, <1>2, PTL

------------------------------------------------------------------------------
(* What the page shows.                                                    *)

GoodAcks == {Ack(FALSE, text) : text \in Documents}
            \cup {Ack(TRUE, text) : text \in {d \in Documents : Accepts(d)}}

\* What a thread is about to send is a document, with the warnings its preview
\* found if it was previewed.
GoodSend(sent) ==
  /\ sent.text \in Documents
  /\ sent.warnings \subseteq {Preview(sent.text, ParserImportable).warnings}

\* Everything on its way is what its sender made of some document.
InFlight ==
  /\ plan_topic \in Seq(Documents)
  /\ ack_topic \in Seq(GoodAcks)
  /\ DOMAIN sending = Threads
  /\ \A t \in Threads : sending[t] # <<>> => GoodSend(sending[t][1])

Shown ==
  /\ plan_ack \in GoodAcks \/ plan_ack.status \in {"NONE", "PENDING"}
  /\ \A a \in answer :
       /\ a.document \in Documents
       /\ a.warnings = Preview(a.document, ParserImportable).warnings

\* A PENDING has its answer still to come, and the answer that comes last, or
\* is shown when none is to come, is true.
Nothing(topic) == topic = <<>>
Awaited ==
  plan_ack.status = "PENDING" =>
    \/ \E t \in Threads : sending[t] # <<>>
    \/ ~Nothing(plan_topic) \/ ~Nothing(ack_topic)
LastIsTrue ==
  LET last == IF Nothing(ack_topic) THEN plan_ack ELSE ack_topic[Len(ack_topic)]
  IN last.status = "ACCEPTED" => last.document = document

AckInv == InFlight /\ Shown /\ Awaited /\ LastIsTrue

LEMMA GoodAckFields ==
  ASSUME NEW k \in GoodAcks
  PROVE  /\ k.status \in {"ACCEPTED", "REJECTED"}
         /\ k.document \in Documents
         /\ k.status = "ACCEPTED" => Accepts(k.document) /\ k.warnings = Lint(k.document)
BY DEF GoodAcks, Ack

LEMMA AckInvInit == UploadInit => AckInv
<1> SUFFICES ASSUME UploadInit PROVE AckInv
  OBVIOUS
<1>1. plan_ack.status = "NONE" /\ answer = {} /\ plan_topic = <<>> /\ ack_topic = <<>>
      /\ sending = [t \in Threads |-> <<>>]
  BY DEF UploadInit, PENDING
<1>2. QED
  BY <1>1 DEF AckInv, InFlight, Shown, Awaited, LastIsTrue, Nothing

LEMMA BeginSendStep ==
  ASSUME AckInv, NEW t \in Threads, NEW text \in Documents, NEW warnings,
         warnings \subseteq {Preview(text, ParserImportable).warnings},
         BeginSend(t, text, warnings)
  PROVE  AckInv'
<1>1. plan_ack' = PENDING /\ plan_ack'.status = "PENDING"
  BY DEF BeginSend, PENDING
<1>2. UNCHANGED <<document, answer, plan_topic, ack_topic>>
  BY DEF BeginSend
<1>3. sending' = [sending EXCEPT ![t] = <<[text |-> text, warnings |-> warnings]>>]
  BY DEF BeginSend
<1>4. sending'[t] = <<[text |-> text, warnings |-> warnings]>>
  BY <1>3 DEF AckInv, InFlight
<1>5. InFlight'
  <2>1. GoodSend(sending'[t][1])
    BY <1>4 DEF GoodSend
  <2>2. \A u \in Threads : sending'[u] # <<>> => GoodSend(sending'[u][1])
    BY <1>3, <2>1 DEF AckInv, InFlight
  <2>3. QED
    BY <1>2, <1>3, <2>2 DEF AckInv, InFlight, GoodSend
<1>6. Shown'
  BY <1>1, <1>2 DEF AckInv, Shown
<1>7. Awaited'
  BY <1>4 DEF Awaited
<1>8. LastIsTrue'
  BY <1>1, <1>2 DEF AckInv, LastIsTrue, Nothing
<1>9. QED
  BY <1>5, <1>6, <1>7, <1>8 DEF AckInv

LEMMA PublishPlanStep ==
  ASSUME AckInv, NEW t \in Threads, PublishPlan(t)
  PROVE  AckInv'
<1> DEFINE sent == sending[t][1]
<1>1. GoodSend(sent)
  BY DEF PublishPlan, AckInv, InFlight
<1>2. /\ plan_topic' = Append(plan_topic, sent.text)
      /\ answer' = {[document |-> sent.text, warnings |-> w] : w \in sent.warnings}
      /\ sending' = [sending EXCEPT ![t] = <<>>]
      /\ UNCHANGED <<document, plan_ack, ack_topic>>
  BY DEF PublishPlan
<1>3. plan_topic' \in Seq(Documents) /\ plan_topic' # <<>>
  BY <1>1, <1>2 DEF AckInv, InFlight, GoodSend
<1>4. InFlight'
  BY <1>2, <1>3 DEF AckInv, InFlight, GoodSend
<1>5. Shown'
  BY <1>1, <1>2 DEF AckInv, Shown, GoodSend
<1>6. Awaited' /\ LastIsTrue'
  BY <1>2, <1>3 DEF AckInv, Awaited, LastIsTrue, Nothing
<1>7. QED
  BY <1>4, <1>5, <1>6 DEF AckInv

LEMMA OnPlanAckStep == AckInv /\ OnPlanAck => AckInv'
<1> SUFFICES ASSUME AckInv, OnPlanAck PROVE AckInv'
  OBVIOUS
<1>1. /\ ack_topic \in Seq(GoodAcks) /\ ack_topic # <<>>
      /\ ack_topic' = Tail(ack_topic) /\ plan_ack' = Head(ack_topic)
      /\ UNCHANGED <<document, sending, answer, plan_topic>>
  BY DEF OnPlanAck, AckInv, InFlight
<1>2. plan_ack' \in GoodAcks /\ ack_topic' \in Seq(GoodAcks)
  BY <1>1
<1>3. InFlight' /\ Shown'
  BY <1>1, <1>2 DEF AckInv, InFlight, Shown, GoodSend
<1>4. Awaited'
  BY <1>2, GoodAckFields DEF Awaited
<1>5. LastIsTrue'
  <2>1. ack_topic[Len(ack_topic)]
          = IF ack_topic' = <<>> THEN plan_ack' ELSE ack_topic'[Len(ack_topic')]
    BY <1>1
  <2>2. QED
    BY <1>1, <2>1 DEF AckInv, LastIsTrue, Nothing
<1>6. QED
  BY <1>3, <1>4, <1>5 DEF AckInv

LEMMA ReceivePlanStep == AckInv /\ ReceivePlan => AckInv'
<1> SUFFICES ASSUME AckInv, ReceivePlan PROVE AckInv'
  OBVIOUS
<1> DEFINE text == Head(plan_topic)
           accepted == ~mission_active /\ Accepts(text)
<1>1. /\ plan_topic' = Tail(plan_topic) /\ ack_topic' = Append(ack_topic, Ack(accepted, text))
      /\ UNCHANGED <<sending, plan_ack, answer>>
      /\ accepted => document' = text
  BY DEF ReceivePlan, AnswerPlan, dashboard
<1>2. text \in Documents /\ plan_topic' \in Seq(Documents)
  BY <1>1 DEF ReceivePlan, AckInv, InFlight
<1>3. Ack(accepted, text) \in GoodAcks
  <2>1. CASE accepted
    BY <1>2, <2>1 DEF GoodAcks, Ack
  <2>2. CASE ~accepted
    BY <1>2, <2>2 DEF GoodAcks, Ack
  <2>3. QED
    BY <2>1, <2>2
<1> DEFINE ack == Ack(accepted, text)
<1>4. ack.status = "ACCEPTED" => accepted /\ ack.document = text
  BY DEF Ack
<1> HIDE DEF ack, text, accepted
<1>5. /\ ack_topic' \in Seq(GoodAcks) /\ ack_topic' # <<>>
      /\ ack_topic'[Len(ack_topic')] = ack
  BY <1>1, <1>3 DEF AckInv, InFlight, ack
<1>6. InFlight' /\ Shown'
  BY <1>1, <1>2, <1>5 DEF AckInv, InFlight, Shown, GoodSend
<1>7. Awaited'
  BY <1>5 DEF Awaited, Nothing
<1>8. LastIsTrue'
  BY <1>1, <1>4, <1>5 DEF LastIsTrue, Nothing
<1>9. QED
  BY <1>6, <1>7, <1>8 DEF AckInv

LEMMA AckInvStep == AckInv /\ [UploadNext]_upload_vars => AckInv'
<1> SUFFICES ASSUME AckInv, [UploadNext]_upload_vars
             PROVE  AckInv'
  OBVIOUS
<1> DEFINE Rest == UNCHANGED <<document, sending, plan_ack, answer, plan_topic, ack_topic>>
<1>1. ASSUME NEW t \in Threads, NEW text \in Documents,
             SendBuilt(t, text) \/ SendFromCatalog(t, text)
      PROVE  AckInv'
  BY <1>1, BeginSendStep DEF SendBuilt, SendFromCatalog
<1>2. CASE Rest
  BY <1>2 DEF AckInv, InFlight, Shown, Awaited, LastIsTrue, Nothing, GoodSend
<1>3. CASE \E on \in BOOLEAN : PublishMissionRequest(on)
  BY <1>2, <1>3 DEF PublishMissionRequest, dashboard
<1>4. CASE ReceiveMissionRequest \/ ExecutorLoop \/ ExecutorOther
  BY <1>2, <1>4 DEF ReceiveMissionRequest, ExecutorLoop, ExecutorOther, dashboard
<1>5. CASE UNCHANGED upload_vars
  BY <1>2, <1>5 DEF upload_vars, dashboard
<1>6. QED
  BY <1>1, <1>3, <1>4, <1>5, PublishPlanStep, OnPlanAckStep, ReceivePlanStep
  DEF UploadNext

LEMMA AckInvAlways == UploadSpec => []AckInv
BY AckInvInit, AckInvStep, PTL DEF UploadSpec

\* When nothing is under way the page shows no PENDING, and an acceptance it
\* shows is that of the staged plan (web_dashboard_node.send_mission_payload
\* and _on_plan_ack, mission_executor_node.mission_plan_callback).
THEOREM ShownAckIsTrue == UploadSpec => []AckIsTrue
<1>1. AckInv => AckIsTrue
  BY DEF AckInv, Awaited, LastIsTrue, Nothing, AckIsTrue
<1>2. QED
  BY <1>1, AckInvAlways, PTL

\* The operator is answered with the warnings the executor acknowledges,
\* whichever parser the dashboard has (mission_preview.preview_mission_data).
THEOREM WarningsAgree == UploadSpec => []PreviewMatchesAck
<1>1. AckInv => PreviewMatchesAck
  <2> SUFFICES ASSUME AckInv, NEW a \in answer, plan_ack.status = "ACCEPTED",
                      plan_ack.document = a.document
               PROVE  plan_ack.warnings = a.warnings
    BY DEF PreviewMatchesAck
  <2>1. plan_ack \in GoodAcks
    BY DEF AckInv, Shown
  <2>2. Accepts(a.document) /\ plan_ack.warnings = Lint(a.document)
    BY <2>1, GoodAckFields
  <2>3. a.document \in Seq(WrittenStep)
    BY UploadAssumption DEF AckInv, Shown
  <2>4. a.warnings = Lint(a.document)
    BY <2>2, <2>3, PreviewWarns DEF AckInv, Shown
  <2>5. QED
    BY <2>2, <2>4
<1>2. QED
  BY <1>1, AckInvAlways, PTL

------------------------------------------------------------------------------
(* Plans in order.                                                         *)

\* Until a prime step is completed, no step before the current one is one.
NotYetPrimed ==
  /\ step_index \in Nat \ {0}
  /\ mission_active /\ ~primed =>
       \A j \in 1 .. step_index - 1 : ~Primes(document, j)

Still(cmds) == \A i \in DOMAIN cmds : cmds[i].mode \in {"IDLE", "HOLD"}

PrimeInv == /\ Staged
            /\ NotYetPrimed
            /\ Unprimed(document) = {} /\ ~primed => Still(commands)

\* The current step of the plan has the verb it has in the document.
LEMMA StepVerb ==
  ASSUME Staged, Running, step_index \in Nat \ {0}
  PROVE  step_index \in DOMAIN document /\ Step.type = document[step_index].type
BY DEF Staged, Running, Step, Resolve, ResolveStep

\* A pass of the loop advances by at most one step, of an active mission.
LEMMA LoopAdvances ==
  ASSUME Loop
  PROVE  \/ step_index' = step_index
         \/ Running /\ step_index' = step_index + 1
BY DEF Loop, StepTakeoff, StepPrimeOffboard, StepScan, StepTrackCenter,
       StepApproach, StepGoto, StepOrbit, StepRtl, StepLand, StepHold,
       EnterComplete, LoopIdle, Blocked, Pass, plan_cursor, InStep

LEMMA LoopStartsNothing == Loop => (mission_active' => mission_active)
BY DEF Loop, StepTakeoff, StepPrimeOffboard, StepScan, StepTrackCenter,
       StepApproach, StepGoto, StepOrbit, StepRtl, StepLand, StepHold,
       EnterComplete, LoopIdle, Blocked, Pass

\* Only the steps that the lint calls motion command one.
LEMMA PassMode ==
  ASSUME NEW offboard, NEW mode, NEW yaw_rate, NEW done,
         Pass(offboard, mode, yaw_rate, done), mode \in {"IDLE", "HOLD"}
  PROVE  Still(commands')
BY DEF Pass, PublishCommand, Still

LEMMA OnlyMotionMoves ==
  ASSUME Loop
  PROVE  Still(commands') \/ (Running /\ Step.type \in MotionStepTypes)
<1>1. CASE StepTakeoff
  BY <1>1, PassMode DEF StepTakeoff, Blocked
<1>2. CASE StepPrimeOffboard
  BY <1>2, PassMode DEF StepPrimeOffboard, Blocked
<1>3. CASE StepScan \/ StepTrackCenter \/ StepApproach \/ StepOrbit
  BY <1>3 DEF StepScan, StepTrackCenter, StepApproach, StepOrbit, InStep,
              MotionStepTypes
<1>4. CASE StepGoto
  BY <1>4, PassMode DEF StepGoto, Blocked
<1>5. CASE StepRtl \/ StepLand
  BY <1>5, PassMode DEF StepRtl, StepLand
<1>6. CASE StepHold
  BY <1>6, PassMode DEF StepHold, Blocked
<1>7. CASE EnterComplete \/ LoopIdle
  <2>1. \E st : commands' = <<[mode |-> "IDLE", active |-> FALSE, step |-> st,
                               yaw_rate |-> 0]>>
    BY <1>7 DEF EnterComplete, LoopIdle, PublishCommand
  <2>2. QED
    BY <2>1 DEF Still
<1>8. QED
  BY <1>1, <1>2, <1>3, <1>4, <1>5, <1>6, <1>7 DEF Loop

LEMMA UnprimedStep ==
  ASSUME NEW i \in DOMAIN document, IsMotion(document, i),
         \A k \in 1 .. i - 1 : ~Primes(document, k)
  PROVE  Unprimed(document) # {}
BY DEF Unprimed

\* A pass of the loop keeps the invariant, and commands motion only once primed.
LEMMA ExecutorLoopStep ==
  ASSUME PrimeInv, ExecutorLoop
  PROVE  /\ NotYetPrimed'
         /\ Unprimed(document) = {} /\ ~primed => Still(commands')
<1>1. Loop /\ document' = document
      /\ primed' = (primed \/ (InStep("prime_offboard") /\ step_index' # step_index))
  BY DEF ExecutorLoop
<1>2. step_index \in Nat \ {0}
  BY DEF PrimeInv, NotYetPrimed
<1>3. step_index' \in Nat \ {0}
  BY <1>1, <1>2, LoopAdvances
<1>4. ASSUME mission_active', ~primed', NEW j \in 1 .. step_index' - 1
      PROVE  ~Primes(document', j)
  <2>1. mission_active /\ ~primed
    BY <1>1, <1>4, LoopStartsNothing
  <2>2. \A k \in 1 .. step_index - 1 : ~Primes(document, k)
    BY <2>1 DEF PrimeInv, NotYetPrimed
  <2>3. CASE step_index' = step_index
    BY <1>1, <2>2, <2>3
  <2>4. CASE Running /\ step_index' = step_index + 1
    <3>1. ~InStep("prime_offboard")
      <4>1. step_index' # step_index
        BY <1>2, <2>4
      <4>2. QED
        BY <1>1, <1>4, <4>1, Zenon
    <3>2. ~Primes(document, step_index)
      BY <1>2, <2>4, <3>1, StepVerb DEF InStep, Primes, PrimeInv
    <3>3. j \in 1 .. step_index - 1 \/ j = step_index
      BY <1>2, <2>4
    <3>4. QED
      BY <1>1, <2>2, <3>2, <3>3
  <2>5. QED
    BY <1>1, <2>3, <2>4, LoopAdvances
<1>5. ASSUME Unprimed(document) = {}, ~primed
      PROVE  Still(commands')
  <2>1. SUFFICES ASSUME Running, Step.type \in MotionStepTypes
                 PROVE  FALSE
    BY <1>1, OnlyMotionMoves
  <2>2. step_index \in DOMAIN document /\ IsMotion(document, step_index)
    BY <1>2, <2>1, StepVerb DEF IsMotion, PrimeInv
  <2>3. \A k \in 1 .. step_index - 1 : ~Primes(document, k)
    BY <1>5, <2>1 DEF PrimeInv, NotYetPrimed, Running
  <2>4. QED
    BY <1>5, <2>2, <2>3, UnprimedStep
<1>6. QED
  BY <1>3, <1>4, <1>5 DEF NotYetPrimed

\* A start begins at the first step; a stop ends the flight.
LEMMA MissionRequestStep ==
  ASSUME PrimeInv, ReceiveMissionRequest
  PROVE  NotYetPrimed' /\ commands' = <<>>
<1>1. CASE MissionStart
  BY <1>1 DEF MissionStart, NotYetPrimed
<1>2. CASE MissionStop
  BY <1>2 DEF MissionStop, PrimeInv, NotYetPrimed
<1>3. MissionStart \/ MissionStop
  BY DEF ReceiveMissionRequest, MissionRequestCallback
<1>4. QED
  BY <1>1, <1>2, <1>3 DEF MissionStart, MissionStop

\* An upload is staged only while no mission is active.
LEMMA ReceivePlanKeepsPrime ==
  ASSUME PrimeInv, ReceivePlan
  PROVE  NotYetPrimed' /\ commands' = <<>>
<1>1. CASE ~mission_active /\ Accepts(Head(plan_topic))
  BY <1>1 DEF ReceivePlan, AnswerPlan, MissionPlanCallback, NothingPublished,
              NotYetPrimed
<1>2. CASE ~(~mission_active /\ Accepts(Head(plan_topic)))
  <2>1. UNCHANGED <<mission_active, step_index, document, primed>> /\ commands' = <<>>
    BY <1>2 DEF ReceivePlan, AnswerPlan, NothingPublished, plan_cursor
  <2>2. QED
    BY <2>1 DEF PrimeInv, NotYetPrimed
<1>3. QED
  BY <1>1, <1>2

\* Every other step leaves the flight alone.
LEMMA OtherStepsKeepPrime ==
  ASSUME PrimeInv, [UploadNext]_upload_vars,
         ~ReceivePlan, ~ReceiveMissionRequest, ~ExecutorLoop
  PROVE  /\ UNCHANGED <<mission_active, step_index, document, primed>>
         /\ commands' = commands \/ commands' = <<>>
<1>1. CASE ExecutorOther
  BY <1>1 DEF ExecutorOther, TargetCallback, TelemetryCallback, Elapse,
              NothingPublished, plan_cursor
<1>2. CASE ~ExecutorOther
  BY <1>2 DEF UploadNext, SendBuilt, SendFromCatalog, BeginSend, PublishPlan,
              PublishMissionRequest, OnPlanAck, upload_vars, vars, plan_cursor,
              outputs
<1>3. QED
  BY <1>1, <1>2

LEMMA NothingIsStill == Still(<<>>)
BY DEF Still

LEMMA PrimeInvStep ==
  ASSUME PrimeInv, [UploadNext]_upload_vars
  PROVE  /\ PrimeInv'
         /\ Unprimed(document) = {} /\ ~primed => Still(commands')
<1>1. Staged'
  BY StagedStep DEF PrimeInv
<1>2. CASE ExecutorLoop
  <2>1. document' = document /\ (primed => primed')
    BY <1>2 DEF ExecutorLoop
  <2>2. QED
    BY <1>1, <1>2, <2>1, ExecutorLoopStep DEF PrimeInv
<1>3. CASE ReceiveMissionRequest
  BY <1>1, <1>3, MissionRequestStep, NothingIsStill DEF PrimeInv
<1>4. CASE ReceivePlan
  BY <1>1, <1>4, ReceivePlanKeepsPrime, NothingIsStill DEF PrimeInv
<1>5. CASE ~ReceivePlan /\ ~ReceiveMissionRequest /\ ~ExecutorLoop
  <2>1. /\ UNCHANGED <<mission_active, step_index, document, primed>>
        /\ commands' = commands \/ commands' = <<>>
    BY <1>5, OtherStepsKeepPrime
  <2>2. NotYetPrimed'
    BY <2>1 DEF PrimeInv, NotYetPrimed
  <2>3. Unprimed(document) = {} /\ ~primed => Still(commands')
    BY <2>1, NothingIsStill DEF PrimeInv
  <2>4. QED
    BY <1>1, <2>1, <2>2, <2>3 DEF PrimeInv
<1>6. QED
  BY <1>2, <1>3, <1>4, <1>5

LEMMA PrimeInvInit == UploadInit => PrimeInv
BY StagedInit DEF UploadInit, Init, PrimeInv, NotYetPrimed, Still

\* A plan that the lint finds in order commands no motion before it primed
\* (mission_plan.lint_plan with the handlers of mission_executor_node).
THEOREM PlansInOrderPrimeFirst == UploadSpec => CleanPlansPrimeFirst
<1>1. UploadSpec => []PrimeInv
  BY PrimeInvInit, PrimeInvStep, PTL DEF UploadSpec
<1>2. PrimeInv /\ [UploadNext]_upload_vars =>
        [Unprimed(document) = {} /\ ~primed => Still(commands')]_upload_vars
  BY PrimeInvStep
<1>3. CleanPlansPrimeFirst
        <=> [][Unprimed(document) = {} /\ ~primed => Still(commands')]_upload_vars
  BY DEF CleanPlansPrimeFirst, Still
<1>4. QED
  BY <1>1, <1>2, <1>3, PTL DEF UploadSpec
==============================================================================
