------------------------------- MODULE Studio -------------------------------
(***************************************************************************)
(* A plan and the generations it starts: the plan review of the builder    *)
(* commits its plan, Admission serves the requests of this page and of the *)
(* user's other tabs.  A request that is idle has not reached the server.  *)
(*                                                                         *)
(* BriefBuilder has what leads to the plan.  A commit carries nothing that *)
(* would let the server know it again, and its answer may be lost while    *)
(* the handler goes on.                                                    *)
(***************************************************************************)
EXTENDS Admission

CONSTANT MaxLost    \* bound on the lost answers of one plan

ASSUME MaxLostAssumption == MaxLost \in Nat

VARIABLES
    page,       \* "reviewing" a plan, "waiting" for its commit, "generating"
    awaited,    \* the request the page waits for, as a set of at most one
    ofPlan,     \* the requests that commit the plan that is shown
    started,    \* the requests whose job was started
    lost        \* answers to the plan's commits that were lost

pageVars == <<page, awaited, ofPlan, lost>>

StudioInit ==
    /\ Init
    /\ page = "reviewing" /\ awaited = {} /\ ofPlan = {} /\ started = {} /\ lost = 0

----------------------------------------------------------------------------
(* The page.                                                               *)

CommitPlan(r) ==
    /\ page = "reviewing" /\ at[r] = "idle" /\ r \notin ofPlan
    /\ page' = "waiting" /\ awaited' = {r} /\ ofPlan' = ofPlan \union {r}
    /\ UNCHANGED <<vars, started, lost>>

(* Mutant: the page stays with the plan it has started.                    *)
AcceptedAndShown(r) ==
    /\ page = "waiting" /\ r \in awaited \cap started
    /\ page' = "reviewing" /\ awaited' = {}
    /\ UNCHANGED <<vars, started, ofPlan, lost>>

(* The generation is accepted, whatever has become of it by now.           *)
Accepted(r) ==
    /\ page = "waiting" /\ r \in awaited \cap started
    /\ page' = "generating" /\ awaited' = {}
    /\ UNCHANGED <<vars, started, ofPlan, lost>>

(* 429, or the handler raised: the plan is still there to be committed.    *)
Refused(r) ==
    /\ page = "waiting" /\ r \in awaited \ started
    /\ at[r] \in {"refused", "over"}
    /\ page' = "reviewing" /\ awaited' = {}
    /\ UNCHANGED <<vars, started, ofPlan, lost>>

(* The connection breaks: to the page, a failure like any other.           *)
AnswerLost(r) ==
    /\ page = "waiting" /\ r \in awaited /\ lost < MaxLost
    /\ page' = "reviewing" /\ awaited' = {} /\ lost' = lost + 1
    /\ UNCHANGED <<vars, started, ofPlan>>

(* Back to the brief, or on to another lesson, and to another plan.        *)
PlanAnew ==
    /\ page \in {"reviewing", "generating"}
    /\ page' = "reviewing" /\ ofPlan' = {} /\ lost' = 0
    /\ UNCHANGED <<vars, started, awaited>>

PageNext ==
    \/ PlanAnew
    \/ \E r \in Requests : CommitPlan(r) \/ Accepted(r) \/ Refused(r) \/ AnswerLost(r)

(* The server.                                                             *)
ServerNext ==
    /\ \/ Restart /\ UNCHANGED started
       \/ \E r \in Requests :
            /\ \/ Count(r) \/ Create(r) \/ EnqueueRaises(r)
               \/ JobEnds(r) \/ JobLeavesRow(r)
            /\ UNCHANGED started
       \/ \E r \in Requests : SpawnJob(r) /\ started' = started \union {r}
       \/ \E r \in Requests \ ofPlan : AskAgain(r) /\ started' = started \ {r}
    /\ UNCHANGED pageVars

StudioNext == PageNext \/ ServerNext

studioVars == <<vars, pageVars, started>>

StudioSpec == StudioInit /\ [][StudioNext]_studioVars

----------------------------------------------------------------------------
(* A plan is generated once, however often its commit was refused or its   *)
(* handler failed half way: only a commit whose answer was lost can have   *)
(* started a job that the page does not know of when it commits again.     *)
OneJobPerPlan == Cardinality(ofPlan \cap started) <= 1 + lost
=============================================================================
