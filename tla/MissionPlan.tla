----------------------------- MODULE MissionPlan -----------------------------
(***************************************************************************)
(* Mission documents: what drone_control/mission_plan.py accepts, what its *)
(* lint says of a plan, and the lighter checks of mission_preview.py that  *)
(* stand in for them on a laptop without drone_control.                    *)
(*                                                                         *)
(* A document is the list of steps under its "mission" key; one that has   *)
(* no such list (not a mapping, no steps, not YAML, too long) is the empty *)
(* document.                                                               *)
(***************************************************************************)
EXTENDS DroneInterfaces, Sequences

StepType == {"takeoff", "prime_offboard", "scan", "track_center", "approach",
             "goto", "orbit", "rtl", "land", "hold", "complete"}
Until == {"airborne", "centered", "locked", "approach_done", "none"}

\* A step as it is run: timeout and hold are resolved with the node's defaults;
\* hold is hold_s of a prime_offboard step and the time a full sweep takes for
\* a scan step; offset is how far a goto step goes.
PlanStep == [type : StepType, timeout : Nat, hold : Nat, until : Until,
             yaw_rate : Sign, offset : Nat]

------------------------------------------------------------------------------
(* A step as it is written.  A number may be absent, or given with a value  *)
(* that is not a finite number in the range of its key (MALFORMED).         *)

Number == {x \in [given : BOOLEAN, value : SUBSET Nat] :
             x.value # {} => x.given /\ \E n \in x.value : x.value = {n}}
ABSENT == [given |-> FALSE, value |-> {}]
MALFORMED == [given |-> TRUE, value |-> {}]
Given(n) == [given |-> TRUE, value |-> {n}]

WellFormed(number) == number.given => number.value # {}

\* get_float and timeout_s: a value that cannot be used counts as absent.
ValueOr(number, default) ==
  IF number.value = {} THEN default ELSE CHOOSE n \in number.value : TRUE

WrittenStep == [type : StepType \cup {"unknown"},
                until : Until \cup {"absent", "unknown"},
                direction : {"absent", "ccw", "cw", "unknown"},
                timeout : Number, hold : Number, offset : Number,
                revolutions : Number, other : Number]

\* other stands for the numbers no decision of the executor model reads.
Written(type) == [type |-> type, until |-> "absent", direction |-> "absent",
                  timeout |-> ABSENT, hold |-> ABSENT, offset |-> ABSENT,
                  revolutions |-> ABSENT, other |-> ABSENT]

AcceptsStep(step) ==
  /\ step.type \in StepType
  /\ step.until \in Until \cup {"absent"}
  /\ \A number \in {step.timeout, step.hold, step.offset, step.revolutions,
                     step.other} : WellFormed(number)
  /\ step.type = "scan" => step.direction \in {"absent", "ccw", "cw"}
  /\ step.type = "goto" => step.offset.given

Accepts(document) ==
  /\ document # <<>>
  /\ \A i \in DOMAIN document : AcceptsStep(document[i])

\* The built-in plan, also used when the configured file is not accepted.
DefaultPlan(run_full_orbit) ==
  <<Written("takeoff"), Written("prime_offboard"),
    [Written("track_center") EXCEPT
       !.until = IF run_full_orbit THEN "centered" ELSE "none"]>>
  \o (IF run_full_orbit
      THEN <<Written("approach"), Written("orbit"), Written("rtl"),
             Written("land")>>
      ELSE <<>>)

------------------------------------------------------------------------------
(* The lint: <<step, warning>> pairs, step 0 for the plan as a whole.       *)

MotionStepTypes == {"scan", "track_center", "approach", "orbit"}
TimeoutRecommended == {"scan", "approach", "orbit", "goto"}

IsMotion(document, i) == document[i].type \in MotionStepTypes
Primes(document, i) == document[i].type = "prime_offboard"

Unprimed(document) ==
  {<<i, "before prime">> :
     i \in {j \in DOMAIN document :
              IsMotion(document, j) /\ \A k \in 1 .. j - 1 : ~Primes(document, k)}}
  \cup IF /\ \E i \in DOMAIN document : IsMotion(document, i)
          /\ \A i \in DOMAIN document : ~Primes(document, i)
       THEN {<<0, "never primed">>} ELSE {}

\* The two warnings about steps without a timeout; timed are those with one.
Unbounded(document, timed) ==
  {<<i, "no timeout">> :
     i \in {j \in DOMAIN document \ timed :
              document[j].type \in TimeoutRecommended}}
  \cup {<<i, "endless scan">> :
          i \in {j \in DOMAIN document \ timed :
                   /\ document[j].type = "scan"
                   /\ document[j].until \in {"absent", "none"}}}

Lint(document) ==
  LET timed == {i \in DOMAIN document : document[i].timeout.value # {}}
  IN Unprimed(document) \cup Unbounded(document, timed)

------------------------------------------------------------------------------
(* The fallback of the preview: only the list and the verbs are checked.   *)

FallbackAccepts(document) ==
  /\ document # <<>>
  /\ \A i \in DOMAIN document : document[i].type \in StepType

\* Plausible bug: the fallback's list of open-loop verbs is not kept up to date.
FallbackLintShort(document) ==
  LET timed == {i \in DOMAIN document :
                  document[i].timeout.given \/ document[i].type = "goto"}
  IN Unprimed(document) \cup Unbounded(document, timed)

FallbackLint(document) ==
  LET timed == {i \in DOMAIN document : document[i].timeout.given}
  IN Unprimed(document) \cup Unbounded(document, timed)

\* The record of a previewed document; one that is not valid has no warnings.
Preview(document, parser_available) ==
  LET valid == IF parser_available THEN Accepts(document)
               ELSE FallbackAccepts(document)
  IN [valid |-> valid,
      warnings |-> CASE ~valid           -> {}
                     [] parser_available -> Lint(document)
                     [] OTHER            -> FallbackLint(document)]
==============================================================================
