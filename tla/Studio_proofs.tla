--------------------------- MODULE Studio_proofs ---------------------------
(***************************************************************************)
(* The bound on a user's concurrent generations and the one on the jobs of *)
(* a plan, for every number of requests and every limit; and what the      *)
(* builder that leads to a plan asks of its brief, for all topics,         *)
(* profiles and answers.                                                   *)
(***************************************************************************)
EXTENDS Studio, BriefBuilder, FiniteSetTheorems, TLAPS

(* Everything of a user's that counts, or is about to, and was not counted *)
(* in the shadow of another request.                                       *)
InTurn == (Active \union Counted) \ overlapped

LEMMA InitTypeOK == Init => TypeOK
BY DEF Init, TypeOK

LEMMA NextTypeOK == TypeOK /\ [Next]_vars => TypeOK'
<1> USE DEF TypeOK
<1>1. CASE UNCHANGED vars
  BY <1>1 DEF vars
<1>2. CASE Restart
  BY <1>2 DEF Restart
<1>3. ASSUME TypeOK, NEW r \in Requests, RequestNext(r)
      PROVE  TypeOK'
  <2>1. CASE Count(r)
    BY <1>3, <2>1 DEF Count
  <2>2. CASE Create(r) \/ SpawnJob(r) \/ EnqueueRaises(r)
    BY <1>3, <2>2 DEF Create, SpawnJob, EnqueueRaises
  <2>3. CASE JobEnds(r) \/ JobLeavesRow(r) \/ AskAgain(r)
    BY <1>3, <2>3 DEF JobEnds, JobLeavesRow, AskAgain
  <2> QED
    BY <1>3, <2>1, <2>2, <2>3 DEF RequestNext
<1> QED
  BY <1>1, <1>2, <1>3 DEF Next

LEMMA SmallerIsWithin ==
    ASSUME NEW S \in SUBSET Requests, NEW T \in SUBSET S, Cardinality(S) <= Limit
    PROVE  Cardinality(T) <= Limit
<1>1. IsFiniteSet(S)
  BY RequestsAssumption, FS_Subset
<1> QED
  BY <1>1, FS_Subset, FS_CardinalityType, LimitAssumption

(* Only an admission that overlaps no other one adds to what is in turn.   *)
LEMMA OtherStepsShrink ==
    ASSUME TypeOK, NEW r \in Requests, RequestNext(r), ~(Count(r) /\ Counted = {})
    PROVE  InTurn' \subseteq InTurn
<1> USE DEF TypeOK, InTurn, Active, Counted
<1>1. CASE Count(r) /\ Counted # {}
  BY <1>1 DEF Count
<1>2. CASE Create(r)
  BY <1>2 DEF Create
<1>3. CASE SpawnJob(r)
  BY <1>3 DEF SpawnJob
<1>4. CASE EnqueueRaises(r)
  BY <1>4 DEF EnqueueRaises
<1>5. CASE JobEnds(r)
  BY <1>5 DEF JobEnds
<1>6. CASE JobLeavesRow(r)
  BY <1>6 DEF JobLeavesRow
<1>7. CASE AskAgain(r)
  BY <1>7 DEF AskAgain
<1> QED
  BY <1>1, <1>2, <1>3, <1>4, <1>5, <1>6, <1>7 DEF RequestNext

LEMMA AdmissionAlone ==
    ASSUME TypeOK, OnlyOverlapExceedsLimit, NEW r \in Requests, Count(r), Counted = {}
    PROVE  OnlyOverlapExceedsLimit'
<1> USE DEF OnlyOverlapExceedsLimit, Active, Counted
<1>1. IsFiniteSet(Active) /\ Active \subseteq Requests
  BY RequestsAssumption, FS_Subset
<1>2. CASE Cardinality(Active) >= Limit
  <2>1. InTurn' \subseteq InTurn
    BY <1>2 DEF Count, InTurn, TypeOK
  <2> QED
    BY <2>1, SmallerIsWithin DEF InTurn
<1>3. CASE ~(Cardinality(Active) >= Limit)
  <2>1. InTurn' \subseteq Active \union {r}
    BY <1>3 DEF Count, InTurn, TypeOK
  <2>2. Cardinality(Active \union {r}) <= Limit
    <3> HIDE DEF Active
    <3>1. Cardinality(Active) \in Nat
      BY <1>1, FS_CardinalityType
    <3>2. Cardinality(Active \union {r}) \in {Cardinality(Active), Cardinality(Active) + 1}
      BY <1>1, FS_AddElement
    <3> QED
      BY <1>3, <3>1, <3>2, LimitAssumption
  <2>3. Active \union {r} \subseteq Requests
    BY <1>1
  <2> QED
    BY <2>1, <2>2, <2>3, SmallerIsWithin DEF InTurn
<1> QED
  BY <1>2, <1>3

(* Without overlapping requests a user never has more active generations   *)
(* than the limit, whatever handlers and jobs fail, abandon their rows or  *)
(* are restarted: every excess is an overlap of count and create.          *)
THEOREM OnlyOverlapExceedsLimitHolds == Spec => []OnlyOverlapExceedsLimit
<1>1. Init => OnlyOverlapExceedsLimit
  <2> SUFFICES ASSUME Init PROVE OnlyOverlapExceedsLimit
    OBVIOUS
  <2>1. (Active \union Counted) \ overlapped = {}
    BY DEF Init, Active, Counted
  <2> QED
    BY <2>1, FS_EmptySet, LimitAssumption DEF OnlyOverlapExceedsLimit
<1>2. TypeOK /\ OnlyOverlapExceedsLimit /\ [Next]_vars => OnlyOverlapExceedsLimit'
  <2> SUFFICES ASSUME TypeOK, OnlyOverlapExceedsLimit, [Next]_vars
               PROVE  OnlyOverlapExceedsLimit'
    OBVIOUS
  <2>1. InTurn \subseteq Requests /\ Cardinality(InTurn) <= Limit
    BY DEF InTurn, Active, Counted, OnlyOverlapExceedsLimit
  <2>2. CASE UNCHANGED vars
    BY <2>2 DEF vars, OnlyOverlapExceedsLimit, Active, Counted
  <2>3. CASE Restart
    <3>1. InTurn' \subseteq InTurn
      BY <2>3 DEF Restart, InTurn, Active, Counted, TypeOK
    <3> QED
      BY <2>1, <3>1, SmallerIsWithin DEF InTurn, OnlyOverlapExceedsLimit
  <2>4. ASSUME NEW r \in Requests, RequestNext(r)
        PROVE  OnlyOverlapExceedsLimit'
    <3>1. CASE Count(r) /\ Counted = {}
      BY <3>1, AdmissionAlone
    <3>2. CASE ~(Count(r) /\ Counted = {})
      BY <2>1, <2>4, <3>2, OtherStepsShrink, SmallerIsWithin DEF InTurn, OnlyOverlapExceedsLimit
    <3> QED
      BY <3>1, <3>2
  <2> QED
    BY <2>2, <2>3, <2>4 DEF Next
<1> QED
  BY <1>1, <1>2, InitTypeOK, NextTypeOK, PTL DEF Spec

-----------------------------------------------------------------------------
(* The plan and its commits.                                               *)

(* The commits that started a job, or that still can.                      *)
Live == {r \in ofPlan : r \in started \/ at[r] \in {"idle", "counted", "created"}}

(* Besides the one it waits for and the one it shows, the page has lost    *)
(* the answer of every commit that is live.                                *)
PageInv ==
    /\ TypeOK
    /\ ofPlan \subseteq Requests /\ lost \in Nat
    /\ page \in {"reviewing", "waiting", "generating"}
    /\ IF page = "waiting" THEN \E r \in ofPlan : awaited = {r} ELSE awaited = {}
    /\ Cardinality(Live \ awaited) <= lost + (IF page = "generating" THEN 1 ELSE 0)

LEMMA SubsetIsSmaller ==
    ASSUME NEW S \in SUBSET Requests, NEW T \in SUBSET S
    PROVE  /\ Cardinality(S) \in Nat /\ Cardinality(T) \in Nat
           /\ Cardinality(T) <= Cardinality(S)
<1>1. IsFiniteSet(S)
  BY RequestsAssumption, FS_Subset
<1> QED
  BY <1>1, FS_Subset, FS_CardinalityType

LEMMA OneMore ==
    ASSUME NEW S \in SUBSET Requests, NEW r \in Requests
    PROVE  Cardinality(S) <= Cardinality(S \ {r}) + 1
<1>1. IsFiniteSet(S)
  BY RequestsAssumption, FS_Subset
<1>2. Cardinality(S) \in Nat
  BY <1>1, FS_CardinalityType
<1>3. Cardinality(S \ {r}) \in {Cardinality(S), Cardinality(S) - 1}
  BY <1>1, FS_RemoveElement
<1> QED
  BY <1>2, <1>3

(* The page's requests are Admission's: what the page adds is invisible.   *)
LEMMA StudioStepIsStep == StudioNext => [Next]_vars
<1> SUFFICES ASSUME StudioNext PROVE [Next]_vars
  OBVIOUS
<1>1. CASE PageNext
  BY <1>1 DEF PageNext, PlanAnew, CommitPlan, Accepted, Refused, AnswerLost
<1>2. CASE ServerNext
  BY <1>2 DEF ServerNext, Next, RequestNext
<1> QED
  BY <1>1, <1>2 DEF StudioNext

(* No step of the server makes a commit of the plan live again.            *)
LEMMA ServerNeverRevives ==
    ASSUME PageInv, ServerNext
    PROVE  /\ Live' \subseteq Live
           /\ UNCHANGED pageVars
<1> USE DEF Live, PageInv, TypeOK
<1>1. CASE Restart /\ UNCHANGED started
  BY <1>1 DEF Restart, ServerNext, pageVars
<1>2. ASSUME NEW r \in Requests, UNCHANGED started,
             Count(r) \/ Create(r) \/ EnqueueRaises(r) \/ JobEnds(r) \/ JobLeavesRow(r)
      PROVE  Live' \subseteq Live
  <2>1. CASE Count(r)
    BY <1>2, <2>1 DEF Count, ServerNext, pageVars
  <2>2. CASE Create(r) \/ EnqueueRaises(r)
    BY <1>2, <2>2 DEF Create, EnqueueRaises, ServerNext, pageVars
  <2>3. CASE JobEnds(r) \/ JobLeavesRow(r)
    BY <1>2, <2>3 DEF JobEnds, JobLeavesRow, ServerNext, pageVars
  <2> QED
    BY <1>2, <2>1, <2>2, <2>3
<1>3. ASSUME NEW r \in Requests, SpawnJob(r), started' = started \union {r}
      PROVE  Live' \subseteq Live
  BY <1>3 DEF SpawnJob, ServerNext, pageVars
<1>4. ASSUME NEW r \in Requests \ ofPlan, AskAgain(r), started' = started \ {r}
      PROVE  Live' \subseteq Live
  BY <1>4 DEF AskAgain, ServerNext, pageVars
<1> QED
  BY <1>1, <1>2, <1>3, <1>4 DEF ServerNext

LEMMA NextPageInv == PageInv /\ [StudioNext]_studioVars => PageInv'
<1> SUFFICES ASSUME PageInv, [StudioNext]_studioVars PROVE PageInv'
  OBVIOUS
<1>1. TypeOK'
  BY StudioStepIsStep, NextTypeOK DEF PageInv, studioVars, vars
<1>2. Live \subseteq Requests /\ Live \ awaited \subseteq Requests
  BY DEF PageInv, Live
<1>3. Cardinality(Live \ awaited) \in Nat /\ Cardinality(Live) \in Nat
  BY <1>2, SubsetIsSmaller
<1>4. CASE UNCHANGED studioVars
  BY <1>4 DEF studioVars, pageVars, vars, PageInv, Live, TypeOK
<1>5. CASE PlanAnew
  <2>1. Live' = {} /\ awaited' = {}
    BY <1>5 DEF PlanAnew, Live, PageInv
  <2> QED
    BY <1>1, <1>5, <2>1, FS_EmptySet DEF PlanAnew, PageInv
<1>6. ASSUME NEW r \in Requests, CommitPlan(r) PROVE PageInv'
  <2>1. Live' \ awaited' \subseteq Live \ awaited
    BY <1>6 DEF CommitPlan, Live, PageInv, vars
  <2>2. Cardinality(Live' \ awaited') <= Cardinality(Live \ awaited)
         /\ Cardinality(Live' \ awaited') \in Nat
    BY <1>2, <2>1, SubsetIsSmaller
  <2> QED
    BY <1>1, <1>3, <1>6, <2>2 DEF CommitPlan, PageInv
<1>7. ASSUME NEW r \in Requests, Accepted(r) PROVE PageInv'
  <2>1. Live' = Live /\ awaited = {r} /\ awaited' = {} /\ Live' \ awaited' = Live
    BY <1>7 DEF Accepted, Live, PageInv, vars
  <2>2. Cardinality(Live) <= Cardinality(Live \ awaited) + 1
    BY <1>2, <2>1, OneMore
  <2>3. Cardinality(Live' \ awaited') <= lost' + 1
    BY <1>3, <1>7, <2>1, <2>2 DEF Accepted, PageInv
  <2> QED
    BY <1>1, <1>7, <2>1, <2>3 DEF Accepted, PageInv
<1>8. ASSUME NEW r \in Requests, Refused(r) PROVE PageInv'
  <2>1. Live' \ awaited' = Live \ awaited
    BY <1>8 DEF Refused, Live, PageInv, vars
  <2> QED
    BY <1>1, <1>8, <2>1 DEF Refused, PageInv
<1>9. ASSUME NEW r \in Requests, AnswerLost(r) PROVE PageInv'
  <2>1. Live' = Live /\ awaited = {r} /\ awaited' = {} /\ Live' \ awaited' = Live
    BY <1>9 DEF AnswerLost, Live, PageInv, vars
  <2>2. Cardinality(Live) <= Cardinality(Live \ awaited) + 1
    BY <1>2, <2>1, OneMore
  <2>3. Cardinality(Live' \ awaited') <= lost' + 0
    BY <1>3, <1>9, <2>1, <2>2 DEF AnswerLost, PageInv
  <2> QED
    BY <1>1, <1>9, <2>1, <2>3 DEF AnswerLost, PageInv
<1>10. CASE ServerNext
  <2>1. Live' \ awaited' \subseteq Live \ awaited /\ UNCHANGED pageVars
    BY <1>10, ServerNeverRevives DEF pageVars
  <2>2. Cardinality(Live' \ awaited') <= Cardinality(Live \ awaited)
         /\ Cardinality(Live' \ awaited') \in Nat
    BY <1>2, <2>1, SubsetIsSmaller
  <2> QED
    BY <1>1, <1>3, <2>1, <2>2 DEF pageVars, PageInv
<1> QED
  BY <1>4, <1>5, <1>6, <1>7, <1>8, <1>9, <1>10 DEF StudioNext, PageNext

LEMMA PageInvBoundsJobs == PageInv => OneJobPerPlan
<1> SUFFICES ASSUME PageInv PROVE OneJobPerPlan
  OBVIOUS
<1>1. Live \subseteq Requests /\ ofPlan \cap started \subseteq Live
  BY DEF PageInv, Live
<1>2. /\ Cardinality(Live) \in Nat /\ Cardinality(Live \ awaited) \in Nat
      /\ Cardinality(ofPlan \cap started) \in Nat
      /\ Cardinality(ofPlan \cap started) <= Cardinality(Live)
  BY <1>1, SubsetIsSmaller
<1>3. Cardinality(Live) <= lost + 1
  <2>1. CASE page = "waiting"
    <3>1. PICK r \in Requests : awaited = {r}
      BY <2>1 DEF PageInv
    <3> QED
      BY <1>1, <1>2, <2>1, <3>1, OneMore DEF PageInv
  <2>2. CASE page # "waiting"
    <3>1. Live \ awaited = Live
      BY <2>2 DEF PageInv
    <3> QED
      BY <1>2, <2>2, <3>1 DEF PageInv
  <2> QED
    BY <2>1, <2>2
<1> QED
  BY <1>2, <1>3 DEF OneJobPerPlan, PageInv

(* However often a plan's commit is refused, fails half way or loses its   *)
(* answer, and whatever the server's handlers, jobs and restarts do in     *)
(* between: the plan has started at most one job more than the page lost   *)
(* answers.                                                                *)
THEOREM OneJobPerPlanHolds == StudioSpec => []OneJobPerPlan
<1>1. StudioInit => PageInv
  <2> SUFFICES ASSUME StudioInit PROVE PageInv
    OBVIOUS
  <2>1. Live \ awaited = {}
    BY DEF StudioInit, Live
  <2> QED
    BY <2>1, InitTypeOK, FS_EmptySet DEF StudioInit, PageInv
<1> QED
  BY <1>1, NextPageInv, PageInvBoundsJobs, PTL DEF StudioSpec

(* With a page that commits plans, the server is still Admission's, and so *)
(* the bound on concurrent generations holds of it.                        *)
THEOREM StudioKeepsTheLimit == StudioSpec => []OnlyOverlapExceedsLimit
<1>1. StudioInit => Init
  BY DEF StudioInit
<1>2. [StudioNext]_studioVars => [Next]_vars
  BY StudioStepIsStep DEF studioVars, vars
<1> QED
  BY <1>1, <1>2, OnlyOverlapExceedsLimitHolds, PTL DEF StudioSpec, Spec

-----------------------------------------------------------------------------
(* The pages that lead to the plan (BriefBuilder).                         *)

(* The validation that is shown is the verdict on what it is about, which  *)
(* is the brief unless there was a race; and none is shown while subtopics *)
(* are resolved, whose answer changes the brief.                           *)
ValidationInv ==
    /\ raced \in BOOLEAN
    /\ validation # None => /\ validation.ready = IsReady(validation.about)
                            /\ raced \/ validation.about = brief
    /\ Unanswered("resolve") # {} => validation = None

FlagInv == loading \in BOOLEAN /\ OneAtATime

BuilderInv == FlagInv /\ ValidationInv /\ OnlyRacesGetPast

LEMMA InitBuilderInv == BuilderInit => BuilderInv
BY DEF BuilderInit, BuilderInv, FlagInv, OneAtATime, ValidationInv, OnlyRacesGetPast, Unanswered

(* Leaving brief and verdict alone, or withdrawing the verdict, is safe.   *)
LEMMA EditKeeps ==
    ASSUME BuilderInv, UNCHANGED requests,
           ClearValidation \/ UNCHANGED <<brief, findings>>,
           plannedSpec' = plannedSpec \/ plannedSpec' = None
    PROVE  BuilderInv'
<1>1. FlagInv'
  BY DEF BuilderInv, FlagInv, OneAtATime, requests
<1>2. ValidationInv'
  BY DEF BuilderInv, ValidationInv, ClearValidation, findings, requests, Unanswered
<1>3. OnlyRacesGetPast'
  BY DEF BuilderInv, OnlyRacesGetPast, requests, Unanswered
<1> QED
  BY <1>1, <1>2, <1>3 DEF BuilderInv

(* A request may be sent while none is under way.                          *)
LEMMA SendKeepsFlag ==
    ASSUME FlagInv, ~loading, NEW q, Send(q)
    PROVE  FlagInv' /\ inflight' = {q}
BY DEF FlagInv, OneAtATime, Send

LEMMA SettleKeepsFlag ==
    ASSUME FlagInv, NEW q \in inflight, Settle(q)
    PROVE  FlagInv' /\ inflight' = {}
BY DEF FlagInv, OneAtATime, Settle

(* The end of a request keeps what is known, as long as the brief and the  *)
(* verdict stay.                                                           *)
LEMMA SettleKeeps ==
    ASSUME BuilderInv, NEW q \in inflight, Settle(q),
           UNCHANGED <<brief, findings, plannedSpec>>
    PROVE  BuilderInv'
<1>1. FlagInv' /\ inflight' = {}
  BY SettleKeepsFlag DEF BuilderInv
<1>2. ValidationInv'
  BY <1>1 DEF BuilderInv, ValidationInv, findings, Unanswered
<1>3. OnlyRacesGetPast'
  BY <1>1 DEF BuilderInv, OnlyRacesGetPast, Unanswered
<1> QED
  BY <1>1, <1>2, <1>3 DEF BuilderInv

LEMMA SelectGradeKeeps ==
    ASSUME BuilderInv, NEW grade \in Grades, SelectGrade(grade)
    PROVE  BuilderInv'
<1>1. validation' = None /\ raced' = FALSE /\ (plannedSpec' = plannedSpec \/ plannedSpec' = None)
  BY DEF SelectGrade, ClearValidationAndGeneratedState, ClearValidation, ResetPlanStage
<1>2. CASE UNCHANGED requests
  BY <1>1, <1>2, EditKeeps DEF ClearValidation
<1>3. CASE ~(UNCHANGED requests)
  <2> DEFINE q == [kind |-> "resolve",
                   brief |-> Audience(grade, brief.profile, brief.profile, TRUE),
                   raced |-> FALSE]
  <2>1. Send(q) /\ ~loading
    BY <1>3 DEF SelectGrade
  <2>2. FlagInv' /\ inflight' = {q}
    <3> HIDE DEF q
    <3> QED
      BY <2>1, SendKeepsFlag DEF BuilderInv
  <2>3. q.kind = "resolve"
    OBVIOUS
  <2>4. ValidationInv'
    BY <1>1 DEF ValidationInv
  <2>5. OnlyRacesGetPast'
    BY <1>1, <2>2, <2>3 DEF BuilderInv, OnlyRacesGetPast, Unanswered
  <2> QED
    BY <2>2, <2>4, <2>5 DEF BuilderInv
<1> QED
  BY <1>2, <1>3

(* The answer that changes the brief finds no verdict on it.               *)
LEMMA ResolveKeeps ==
    ASSUME BuilderInv, NEW q \in Unanswered("resolve"), NEW topic, ResolveAnswered(q, topic)
    PROVE  BuilderInv'
<1>1. q \in inflight /\ validation = None
  BY DEF BuilderInv, ValidationInv, Unanswered
<1>2. Settle(q) /\ UNCHANGED <<findings, plannedSpec>>
  BY DEF ResolveAnswered
<1>3. FlagInv' /\ inflight' = {}
  BY <1>1, <1>2, SettleKeepsFlag DEF BuilderInv
<1>4. ValidationInv'
  BY <1>1, <1>2, <1>3 DEF BuilderInv, ValidationInv, findings, Unanswered
<1>5. OnlyRacesGetPast'
  BY <1>2, <1>3 DEF BuilderInv, OnlyRacesGetPast, Unanswered
<1> QED
  BY <1>3, <1>4, <1>5 DEF BuilderInv

(* The verdict is about the brief that was sent.                           *)
LEMMA ValidateKeeps ==
    ASSUME BuilderInv, NEW q \in Unanswered("validate"), ValidateAnswered(q)
    PROVE  BuilderInv'
<1>1. q \in inflight /\ q.kind = "validate" /\ inflight = {q} /\ loading = TRUE
  BY DEF Unanswered, BuilderInv, FlagInv, OneAtATime
<1>2. /\ validation' = [ready |-> IsReady(q.brief), about |-> q.brief]
      /\ raced' = (q.brief # brief) /\ UNCHANGED <<brief, plannedSpec>>
  BY DEF ValidateAnswered
<1>3. /\ validation'.ready = IsReady(validation'.about)
      /\ raced' \in BOOLEAN /\ (raced' \/ validation'.about = brief')
  BY <1>2
<1>4. /\ FlagInv'
      /\ \A r \in inflight' : r.kind = "review"
  <2>1. CASE IsReady(q.brief)
    <3> DEFINE r == [kind |-> "review", brief |-> brief, raced |-> FALSE]
    <3>1. inflight' = (inflight \ {q}) \union {r} /\ UNCHANGED loading
      BY <2>1 DEF ValidateAnswered
    <3>2. r.kind = "review"
      OBVIOUS
    <3> HIDE DEF r
    <3> QED
      BY <1>1, <3>1, <3>2 DEF FlagInv, OneAtATime
  <2>2. CASE ~IsReady(q.brief)
    <3>1. Settle(q)
      BY <2>2 DEF ValidateAnswered
    <3> QED
      BY <1>1, <3>1, SettleKeepsFlag DEF BuilderInv
  <2> QED
    BY <2>1, <2>2
<1>5. ValidationInv'
  BY <1>3, <1>4 DEF ValidationInv, Unanswered
<1>6. OnlyRacesGetPast'
  BY <1>2, <1>4 DEF BuilderInv, OnlyRacesGetPast, Unanswered
<1> QED
  BY <1>4, <1>5, <1>6 DEF BuilderInv

(* A plan is asked for on the strength of the verdict shown.               *)
LEMMA PlanFromBriefKeeps == ASSUME BuilderInv, PlanFromBrief PROVE BuilderInv'
<1> DEFINE q == [kind |-> "plan", brief |-> brief, raced |-> raced]
<1>1. Send(q) /\ ~loading /\ validation # None /\ validation.ready
      /\ UNCHANGED <<brief, findings, plannedSpec>>
  BY DEF PlanFromBrief
<1>2. q.kind = "plan" /\ q.brief = brief /\ q.raced = raced
  OBVIOUS
<1> HIDE DEF q
<1>3. FlagInv' /\ inflight' = {q}
  BY <1>1, SendKeepsFlag DEF BuilderInv
<1>4. ~q.raced => IsReady(q.brief)
  BY <1>1, <1>2 DEF BuilderInv, ValidationInv
<1>5. ValidationInv'
  BY <1>1, <1>2, <1>3 DEF BuilderInv, ValidationInv, findings, Unanswered
<1>6. OnlyRacesGetPast'
  BY <1>1, <1>3, <1>4 DEF BuilderInv, OnlyRacesGetPast, Unanswered
<1> QED
  BY <1>3, <1>5, <1>6 DEF BuilderInv

(* Other requests say nothing about plans or subtopics.                    *)
LEMMA OtherSendKeeps ==
    ASSUME BuilderInv, ~loading, NEW q, q.kind \in {"validate", "commit"}, Send(q),
           UNCHANGED <<brief, findings, plannedSpec>>
    PROVE  BuilderInv'
<1>1. FlagInv' /\ inflight' = {q}
  BY SendKeepsFlag DEF BuilderInv
<1>2. ValidationInv'
  BY <1>1 DEF BuilderInv, ValidationInv, findings, Unanswered
<1>3. OnlyRacesGetPast'
  BY <1>1 DEF BuilderInv, OnlyRacesGetPast, Unanswered
<1> QED
  BY <1>1, <1>2, <1>3 DEF BuilderInv

LEMMA PlanAnsweredKeeps ==
    ASSUME BuilderInv, NEW q \in Unanswered("plan"), PlanAnswered(q)
    PROVE  BuilderInv'
<1>1. q \in inflight /\ (~q.raced => IsReady(q.brief))
  BY DEF BuilderInv, OnlyRacesGetPast, Unanswered
<1>2. Settle(q) /\ plannedSpec' = [brief |-> q.brief, raced |-> q.raced]
      /\ UNCHANGED <<brief, findings>>
  BY DEF PlanAnswered
<1>3. FlagInv' /\ inflight' = {}
  BY <1>1, <1>2, SettleKeepsFlag DEF BuilderInv
<1>4. ValidationInv'
  BY <1>2, <1>3 DEF BuilderInv, ValidationInv, findings, Unanswered
<1>5. OnlyRacesGetPast'
  BY <1>1, <1>2, <1>3 DEF OnlyRacesGetPast, Unanswered
<1> QED
  BY <1>3, <1>4, <1>5 DEF BuilderInv

LEMMA HydrateKeeps ==
    ASSUME BuilderInv, NEW profile \in Profiles, Hydrate(profile)
    PROVE  BuilderInv'
<1>1. /\ raced' = (raced \/ (validation # None /\ brief' # brief))
      /\ UNCHANGED <<validation, plannedSpec, requests>>
  BY DEF Hydrate
<1>2. FlagInv' /\ OnlyRacesGetPast'
  BY <1>1 DEF BuilderInv, FlagInv, OneAtATime, OnlyRacesGetPast, requests, Unanswered
<1>3. ValidationInv'
  BY <1>1 DEF BuilderInv, ValidationInv, requests, Unanswered
<1> QED
  BY <1>2, <1>3 DEF BuilderInv

----------------------------------------------------------------------------
LEMMA EditsKeep ==
    ASSUME BuilderInv,
           EditTopic \/ EditSubtopics \/ EditAudience \/ EditShape
             \/ \E s \in Steps : EditStep(s)
    PROVE  BuilderInv'
<1> USE DEF Editing, ClearValidationAndGeneratedState, ResetPlanStage, findings, view
<1>1. CASE EditTopic
  BY <1>1, EditKeeps DEF EditTopic, TopicInput, TopicSubmit
<1>2. CASE EditSubtopics
  BY <1>2, EditKeeps DEF EditSubtopics, ToggleSubtopic, ContinueSubtopics
<1>3. CASE EditAudience
  <2>1. CASE \E g \in Grades : SelectGrade(g)
    BY <2>1, SelectGradeKeeps
  <2>2. CASE ~\E g \in Grades : SelectGrade(g)
    BY <1>3, <2>2, EditKeeps
       DEF EditAudience, UpdateClassProfile, WriteSummary, ContinueClassProfile
  <2> QED
    BY <2>1, <2>2
<1>4. CASE EditShape
  BY <1>4, EditKeeps
     DEF EditShape, SelectOutcome, SelectResourceType, ToggleSupport, ContinueSupports,
         SelectDepth, WriteNotes
<1>5. CASE \E s \in Steps : EditStep(s)
  BY <1>5, EditKeeps DEF EditStep
<1> QED
  BY <1>1, <1>2, <1>3, <1>4, <1>5

LEMMA AnswersKeep == ASSUME BuilderInv, Answered PROVE BuilderInv'
<1>1. ASSUME NEW q \in Unanswered("review"), ReviewAnswered(q) PROVE BuilderInv'
  BY <1>1, SettleKeeps DEF ReviewAnswered, Unanswered
<1> QED
  BY <1>1, ResolveKeeps, ValidateKeeps, PlanAnsweredKeeps DEF Answered

LEMMA RequestsKeep ==
    ASSUME BuilderInv,
           PlanNext \/ Commit
             \/ \E q \in Unanswered("commit") : CommitAnswered(q) \/ Fails(q)
    PROVE  BuilderInv'
<1>1. CASE Validate
  <2> DEFINE q == [kind |-> "validate", brief |-> brief, raced |-> FALSE]
  <2>1. ~loading /\ Send(q) /\ UNCHANGED <<brief, findings, plannedSpec>>
    BY <1>1 DEF Validate
  <2>2. q.kind = "validate"
    OBVIOUS
  <2> HIDE DEF q
  <2> QED
    BY <2>1, <2>2, OtherSendKeeps
<1>2. CASE Commit
  <2> DEFINE q == [kind |-> "commit", brief |-> plannedSpec.brief, raced |-> plannedSpec.raced]
  <2>1. ~loading /\ Send(q) /\ UNCHANGED <<brief, findings, plannedSpec>>
    BY <1>2 DEF Commit
  <2>2. q.kind = "commit"
    OBVIOUS
  <2> HIDE DEF q
  <2> QED
    BY <2>1, <2>2, OtherSendKeeps
<1>3. CASE PlanFromBrief
  BY <1>3, PlanFromBriefKeeps
<1>4. CASE Back \/ StartOver
  BY <1>4, EditKeeps DEF Back, StartOver, ResetPlanStage, findings
<1>5. ASSUME NEW q \in inflight, Fails(q) \/ CommitAnswered(q) PROVE BuilderInv'
  BY <1>5, SettleKeeps DEF Fails, CommitAnswered
<1> QED
  BY <1>1, <1>2, <1>3, <1>4, <1>5 DEF PlanNext, Unanswered

LEMMA NextBuilderInv == BuilderInv /\ [BuilderNext]_builderVars => BuilderInv'
<1> SUFFICES ASSUME BuilderInv, [BuilderNext]_builderVars PROVE BuilderInv'
  OBVIOUS
<1>1. CASE UNCHANGED builderVars
  BY <1>1, EditKeeps DEF builderVars, findings, requests
<1>2. CASE Page
  <2>1. CASE \E p \in Profiles : Hydrate(p)
    BY <2>1, HydrateKeeps
  <2> QED
    BY <1>2, <2>1, EditsKeep, AnswersKeep, RequestsKeep DEF Page
<1>3. CASE ~Page /\ BuilderNext
  BY <1>3, RequestsKeep DEF BuilderNext
<1> QED
  BY <1>1, <1>2, <1>3

(* The page never has two requests under way, and waits exactly while it   *)
(* has one, although four handlers share one flag and each clears it.      *)
THEOREM OneAtATimeHolds == BuilderSpec => []OneAtATime
<1>1. BuilderInv => OneAtATime
  BY DEF BuilderInv, FlagInv
<1> QED
  BY <1>1, InitBuilderInv, NextBuilderInv, PTL DEF BuilderSpec

(* Whatever the teacher edits in whatever order, a plan is made of a brief *)
(* that validation found ready, unless an edit or the profile's answer     *)
(* came while a request was under way.                                     *)
THEOREM OnlyRacesGetPastHolds == BuilderSpec => []OnlyRacesGetPast
<1>1. BuilderInv => OnlyRacesGetPast
  BY DEF BuilderInv
<1> QED
  BY <1>1, InitBuilderInv, NextBuilderInv, PTL DEF BuilderSpec
=============================================================================
