---------------------------- MODULE BriefBuilder ----------------------------
(***************************************************************************)
(* The teacher's brief builder: the steps of the page, the brief they fill *)
(* in, and the requests it makes of the planning routes.                   *)
(*                                                                         *)
(* A request is answered while the page is used.  The one flag loading     *)
(* disables the buttons that make requests; the cards that were completed  *)
(* can be edited at any time, and every edit is meant to withdraw what was *)
(* found out about the brief before it.                                    *)
(***************************************************************************)
EXTENDS Naturals, FiniteSets

CONSTANTS
    Topics,             \* what may be typed as a topic
    TopicNames,         \* what the resolver may call it
    Subtopics, Grades, Profiles, Outcomes, Resources, Supports, Depths, Notes,
    Noted,              \* the profiles with the teacher's notes on the class
    Recommend(_, _, _), \* recommendSupports
    IsReady(_),         \* validate_brief has no blocker for a brief
    None

ASSUME NotedAssumption == Noted \subseteq Profiles

Steps == {"topic", "grade_level", "choose_subtopic", "class_profile", "intended_outcome",
          "resource_type", "supports", "depth", "review"}

VARIABLES
    stage,          \* what the page shows: the cards, a plan, or a generation
    active_step, completed_steps,
    brief,
    rawTopic,       \* what stands in the topic's field
    validation,     \* the validation shown: its verdict, and the brief it is about
    plannedSpec,    \* the plan shown, with the brief it was made for
    loading,
    inflight,       \* the requests that are not answered
    hydrated,       \* the account's profile has been answered
    raced           \* the brief is not the one the validation shown is about,
                    \* because it was changed while a request was under way

view     == <<stage, active_step, completed_steps>>
findings == <<validation, raced>>
requests == <<loading, inflight>>
builderVars == <<stage, active_step, completed_steps, brief, rawTopic,
                 validation, plannedSpec, loading, inflight, hydrated, raced>>

BuilderInit ==
    /\ stage = "building" /\ active_step = "topic" /\ completed_steps = {}
    /\ \E d \in Depths, p \in Profiles \ Noted, n \in Notes :
         brief = [topic |-> None, subject |-> FALSE, subtopics |-> {}, grade |-> None,
                  profile |-> p, learner |-> None, outcome |-> None, resource |-> None,
                  supports |-> {}, depth |-> d, notes |-> n]
    /\ rawTopic = None
    /\ validation = None /\ plannedSpec = None
    /\ loading = FALSE /\ inflight = {}
    /\ hydrated = FALSE /\ raced = FALSE

----------------------------------------------------------------------------
(* Only the active card has a body, and only while no plan or generation   *)
(* has the page to itself.                                                 *)
On(step) == stage \in {"building", "planning"} /\ active_step = step

ReviewReady ==
    /\ brief.subject /\ brief.topic # None /\ brief.subtopics # {}
    /\ brief.grade # None /\ brief.learner # None
    /\ brief.outcome # None /\ brief.resource # None

(* Mutant: the validation of an earlier brief stays.                       *)
KeepValidation == UNCHANGED findings
(* What was found out about the brief is withdrawn.                        *)
ClearValidation == validation' = None /\ raced' = FALSE

ResetPlanStage == stage' = "building" /\ plannedSpec' = None

(* An edit that also takes the page back from planning.                    *)
ClearValidationAndGeneratedState ==
    /\ ClearValidation
    /\ IF stage # "building" THEN ResetPlanStage ELSE UNCHANGED <<stage, plannedSpec>>

MoveToStep(current, next, completed) ==
    /\ completed_steps' = completed \union {current}
    /\ active_step' = next

Unresolved(b) == [b EXCEPT !.subject = FALSE, !.topic = None, !.subtopics = {}]
UnresolvedSteps == completed_steps \ {"choose_subtopic", "review"}

(* syncAudience: the learners' summary and, unless the teacher wrote it,   *)
(* the supports follow the grade and the profile.  A summary is named by   *)
(* the profile it describes.                                               *)
Audience(grade, profile, text, recompute) ==
    [brief EXCEPT !.grade = grade, !.profile = profile, !.learner = text,
        !.supports = IF recompute THEN Recommend(brief.resource, brief.outcome, profile)
                                  ELSE @]

Send(request) == loading' = TRUE /\ inflight' = inflight \union {request}

(* The finally block of every handler.                                     *)
Settle(request) == loading' = FALSE /\ inflight' = inflight \ {request}

Editing == UNCHANGED <<requests, hydrated>>

----------------------------------------------------------------------------
(* The cards.                                                              *)

TopicInput(value) ==
    /\ On("topic")
    /\ rawTopic' = value
    /\ IF brief.topic # None /\ value # None /\ value # brief.topic
       THEN /\ brief' = Unresolved(brief)
            /\ completed_steps' = UnresolvedSteps
            /\ ClearValidationAndGeneratedState
       ELSE UNCHANGED <<brief, completed_steps, findings, stage, plannedSpec>>
    /\ UNCHANGED active_step
    /\ Editing

TopicSubmit ==
    /\ On("topic") /\ ~loading /\ rawTopic # None
    /\ brief' = [Unresolved(brief) EXCEPT !.topic = rawTopic]
    /\ MoveToStep("topic", "grade_level", UnresolvedSteps)
    /\ ClearValidationAndGeneratedState
    /\ UNCHANGED rawTopic
    /\ Editing

(* The grade is taken, and subtopics for it are asked for.                 *)
SelectGrade(grade) ==
    /\ On("grade_level") /\ ~loading
    /\ LET b == Audience(grade, brief.profile, brief.profile, TRUE)
       IN /\ brief' = Unresolved(b)
          /\ IF rawTopic = None
             THEN UNCHANGED requests
             ELSE Send([kind |-> "resolve", brief |-> b, raced |-> FALSE])
    /\ completed_steps' = UnresolvedSteps
    /\ ClearValidationAndGeneratedState
    /\ UNCHANGED <<active_step, rawTopic, hydrated>>

ToggleSubtopic(value) ==
    /\ On("choose_subtopic")
    /\ brief' = [brief EXCEPT !.subtopics =
                    IF value \in @ THEN @ \ {value}
                    ELSE IF Cardinality(@) < 4 THEN @ \union {value} ELSE @]
    /\ ClearValidation
    /\ UNCHANGED <<view, rawTopic, plannedSpec>>
    /\ Editing

ContinueSubtopics ==
    /\ On("choose_subtopic") /\ brief.subtopics # {}
    /\ brief' = [brief EXCEPT !.supports = {}]
    /\ MoveToStep("choose_subtopic", "class_profile", completed_steps)
    /\ ClearValidation
    /\ UNCHANGED <<stage, rawTopic, plannedSpec>>
    /\ Editing

UpdateClassProfile(profile) ==
    /\ On("class_profile")
    /\ brief' = Audience(brief.grade, profile, profile, TRUE)
    /\ ClearValidationAndGeneratedState
    /\ UNCHANGED <<active_step, completed_steps, rawTopic>>
    /\ Editing

(* The teacher's own summary, or none.                                     *)
WriteSummary(text) ==
    /\ On("class_profile")
    /\ brief' = Audience(brief.grade, brief.profile, text, FALSE)
    /\ ClearValidationAndGeneratedState
    /\ UNCHANGED <<active_step, completed_steps, rawTopic>>
    /\ Editing

ContinueClassProfile ==
    /\ On("class_profile") /\ brief.learner # None
    /\ MoveToStep("class_profile", "intended_outcome", completed_steps)
    /\ UNCHANGED <<stage, brief, rawTopic, findings, plannedSpec>>
    /\ Editing

SelectOutcome(outcome) ==
    /\ On("intended_outcome")
    /\ brief' = [brief EXCEPT !.outcome = outcome,
                    !.supports = Recommend(brief.resource, outcome, brief.profile)]
    /\ MoveToStep("intended_outcome", "resource_type", completed_steps)
    /\ ClearValidationAndGeneratedState
    /\ UNCHANGED rawTopic
    /\ Editing

SelectResourceType(resource) ==
    /\ On("resource_type")
    /\ brief' = [brief EXCEPT !.resource = resource,
                    !.supports = Recommend(resource, brief.outcome, brief.profile)]
    /\ MoveToStep("resource_type", "supports", completed_steps)
    /\ ClearValidationAndGeneratedState
    /\ UNCHANGED rawTopic
    /\ Editing

ToggleSupport(support) ==
    /\ On("supports")
    /\ brief' = [brief EXCEPT !.supports = IF support \in @ THEN @ \ {support}
                                                            ELSE @ \union {support}]
    /\ ClearValidation
    /\ UNCHANGED <<view, rawTopic, plannedSpec>>
    /\ Editing

ContinueSupports ==
    /\ On("supports")
    /\ MoveToStep("supports", "depth", completed_steps)
    /\ UNCHANGED <<stage, brief, rawTopic, findings, plannedSpec>>
    /\ Editing

SelectDepth(depth) ==
    /\ On("depth")
    /\ brief' = [brief EXCEPT !.depth = depth]
    /\ MoveToStep("depth", "review", completed_steps)
    /\ ClearValidation
    /\ UNCHANGED <<stage, rawTopic, plannedSpec>>
    /\ Editing

WriteNotes(notes) ==
    /\ On("review")
    /\ brief' = [brief EXCEPT !.notes = notes]
    /\ ClearValidation
    /\ UNCHANGED <<view, rawTopic, plannedSpec>>
    /\ Editing

EditStep(step) ==
    /\ stage \in {"building", "planning"}
    /\ step \in completed_steps /\ step # active_step
    /\ active_step' = step
    /\ ClearValidationAndGeneratedState
    /\ UNCHANGED <<completed_steps, brief, rawTopic>>
    /\ Editing

(* The answer to the request for the account's profile, made when the page *)
(* was opened: its notes on the class are added if there are none.         *)
Hydrate(profile) ==
    /\ profile \in Noted \union {brief.profile}
    /\ ~hydrated /\ hydrated' = TRUE
    /\ brief' = IF brief.profile \in Noted THEN brief
                                           ELSE [brief EXCEPT !.profile = profile]
    /\ raced' = (raced \/ (validation # None /\ brief' # brief))
    /\ UNCHANGED <<view, rawTopic, validation, plannedSpec, requests>>

----------------------------------------------------------------------------
(* The requests.                                                           *)

Unanswered(kind) == {q \in inflight : q.kind = kind}

(* The subtopics of the topic that was asked for: what the brief said when *)
(* they were asked for replaces what it says now, and the page moves on.   *)
ResolveAnswered(q, topic) ==
    /\ Settle(q)
    /\ brief' = [brief EXCEPT !.subject = TRUE, !.topic = topic, !.subtopics = {},
                    !.grade = q.brief.grade, !.profile = q.brief.profile,
                    !.learner = q.brief.learner]
    /\ MoveToStep("grade_level", "choose_subtopic", completed_steps)
    /\ UNCHANGED <<stage, rawTopic, findings, plannedSpec, hydrated>>

Validate ==
    /\ On("review") /\ ~loading /\ ReviewReady
    /\ Send([kind |-> "validate", brief |-> brief, raced |-> FALSE])
    /\ UNCHANGED <<view, brief, rawTopic, findings, plannedSpec, hydrated>>

(* The verdict is shown.  A brief that is ready is also sent to a review,  *)
(* the brief being what it is by then.                                     *)
ValidateAnswered(q) ==
    /\ validation' = [ready |-> IsReady(q.brief), about |-> q.brief]
    /\ raced' = (q.brief # brief)
    /\ IF IsReady(q.brief)
       THEN /\ inflight' = (inflight \ {q})
                  \union {[kind |-> "review", brief |-> brief, raced |-> FALSE]}
            /\ UNCHANGED <<loading, completed_steps>>
       ELSE /\ Settle(q)
            /\ completed_steps' = completed_steps \union {"review"}
    /\ UNCHANGED <<stage, active_step, brief, rawTopic, plannedSpec, hydrated>>

ReviewAnswered(q) ==
    /\ Settle(q)
    /\ completed_steps' = completed_steps \union {"review"}
    /\ UNCHANGED <<stage, active_step, brief, rawTopic, findings,
                   plannedSpec, hydrated>>

(* Mutant: the button is not disabled while the page waits.                *)
PlanWhileLoading ==
    /\ On("review") /\ validation # None /\ validation.ready
    /\ Send([kind |-> "plan", brief |-> brief, raced |-> raced])
    /\ stage' = "planning"
    /\ UNCHANGED <<active_step, completed_steps, brief, rawTopic, findings,
                   plannedSpec, hydrated>>

PlanFromBrief ==
    /\ On("review") /\ validation # None /\ validation.ready /\ ~loading
    /\ Send([kind |-> "plan", brief |-> brief, raced |-> raced])
    /\ stage' = "planning"
    /\ UNCHANGED <<active_step, completed_steps, brief, rawTopic, findings,
                   plannedSpec, hydrated>>

PlanAnswered(q) ==
    /\ Settle(q)
    /\ plannedSpec' = [brief |-> q.brief, raced |-> q.raced]
    /\ stage' = "reviewing"
    /\ UNCHANGED <<active_step, completed_steps, brief, rawTopic, findings,
                   hydrated>>

(* The plan that is shown is taken back, or started.  A plan whose visuals *)
(* conflict has no button to start it; any plan may be such a one.         *)
Back ==
    /\ stage = "reviewing" /\ ~loading
    /\ ResetPlanStage
    /\ UNCHANGED <<active_step, completed_steps, brief, rawTopic, findings,
                   requests, hydrated>>

Commit ==
    /\ stage = "reviewing" /\ ~loading
    /\ Send([kind |-> "commit", brief |-> plannedSpec.brief, raced |-> plannedSpec.raced])
    /\ UNCHANGED <<view, brief, rawTopic, findings, plannedSpec, hydrated>>

CommitAnswered(q) ==
    /\ Settle(q)
    /\ stage' = "generating"
    /\ UNCHANGED <<active_step, completed_steps, brief, rawTopic, findings,
                   plannedSpec, hydrated>>

(* A request fails: nothing but its error is shown.                        *)
Fails(q) ==
    /\ Settle(q)
    /\ stage' = IF q.kind = "plan" THEN "building" ELSE stage
    /\ UNCHANGED <<active_step, completed_steps, brief, rawTopic, findings,
                   plannedSpec, hydrated>>

(* The generation's view is left for another.                              *)
StartOver ==
    /\ stage = "generating"
    /\ ResetPlanStage
    /\ UNCHANGED <<active_step, completed_steps, brief, rawTopic, findings,
                   requests, hydrated>>

----------------------------------------------------------------------------
EditTopic == (\E t \in Topics \union {None} : TopicInput(t)) \/ TopicSubmit
EditSubtopics == (\E s \in Subtopics : ToggleSubtopic(s)) \/ ContinueSubtopics
EditAudience ==
    \/ \E g \in Grades : SelectGrade(g)
    \/ \E p \in Profiles : UpdateClassProfile(p)
    \/ \E t \in Profiles \union {None} : WriteSummary(t)
    \/ ContinueClassProfile
EditShape ==
    \/ \E o \in Outcomes : SelectOutcome(o)
    \/ \E r \in Resources : SelectResourceType(r)
    \/ \E s \in Supports : ToggleSupport(s)
    \/ ContinueSupports
    \/ \E d \in Depths : SelectDepth(d)
    \/ \E n \in Notes : WriteNotes(n)

Answered ==
    \/ \E q \in Unanswered("resolve"), t \in TopicNames : ResolveAnswered(q, t)
    \/ \E q \in Unanswered("validate") : ValidateAnswered(q)
    \/ \E q \in Unanswered("review") : ReviewAnswered(q)
    \/ \E q \in Unanswered("plan") : PlanAnswered(q)

PlanNext ==
    \/ Validate \/ PlanFromBrief \/ Back \/ StartOver
    \/ \E q \in inflight \ Unanswered("commit") : Fails(q)

Page ==
    \/ EditTopic \/ EditSubtopics \/ EditAudience \/ EditShape
    \/ \E s \in Steps : EditStep(s)
    \/ \E p \in Profiles : Hydrate(p)
    \/ Answered \/ PlanNext

BuilderNext ==
    \/ Page
    \/ Commit
    \/ \E q \in Unanswered("commit") : CommitAnswered(q) \/ Fails(q)

BuilderSpec == BuilderInit /\ [][BuilderNext]_builderVars

----------------------------------------------------------------------------
(* The page has one request under way at most, and waits for it: one flag, *)
(* set by four handlers and cleared by whichever ends first, is enough.    *)
OneAtATime ==
    /\ \A q, r \in inflight : q = r
    /\ loading <=> inflight # {}

(* A plan, shown or asked for, is made of a brief that validation found    *)
(* ready, unless the brief was changed while a request was under way.      *)
OnlyRacesGetPast ==
    /\ plannedSpec # None /\ ~plannedSpec.raced => IsReady(plannedSpec.brief)
    /\ \A q \in Unanswered("plan") : ~q.raced => IsReady(q.brief)
=============================================================================
