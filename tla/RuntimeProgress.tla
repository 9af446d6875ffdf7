-------------------------- MODULE RuntimeProgress --------------------------
(***************************************************************************)
(* The tasks of a superstep at work: the limiters they share, the model    *)
(* calls they make, and the tracker that shows clients what is queued and  *)
(* what is running.                                                        *)
(*                                                                         *)
(* The tracker's lock is never held across an await, so that its methods,  *)
(* and a release with the update after it, are one step of the event loop. *)
(* What the tracker counts of a section is whether it is there, not how    *)
(* often: the executors of a section share one entry.                      *)
(***************************************************************************)
EXTENDS Limiter, FiniteSets

CONSTANTS
    Tasks,          \* the tasks the graph sent
    Sections,       \* the sections they are for
    Media,          \* the media executors there are
    SectionSlots, MediaSlots, QcSlots,      \* the concurrency policy
    MaxAttempts,    \* max_attempts of a node's retry policy
    MaxExecutors    \* bound on the executors that all tasks need together

ASSUME SlotsAssumption == {SectionSlots, MediaSlots, QcSlots} \subseteq Nat \ {0}
ASSUME AttemptsAssumption == MaxAttempts \in Nat \ {0} /\ MaxExecutors \in Nat
ASSUME MediaAssumption == Media \cap {"section", "qc_agent"} = {}

VARIABLES
    task,       \* of each task: its node, its section, the executors it needs
    stage,      \* how far each task is
    pos,        \* how far each of its limited parts is
    sem,        \* the limiters
    shown,      \* the tracker: the sections shown as queued and as running
    call, attempt, unsettled    \* the model calls of the limited parts

callVars == <<call, attempt, unsettled>>
vars == <<task, stage, pos, sem, shown, callVars>>

(* A job is a part of a task that takes a limiter's slot: the whole of a   *)
(* process_section, an executor, quality control.                          *)
Jobs == Tasks \X ({"section", "qc_agent"} \union Media)

Calls == INSTANCE LlmCall WITH Callers <- Jobs

Limiters  == {"section", "media", "qc"}
Resources == Limiters \union {"retry"}
Slots     == [section |-> SectionSlots, media |-> MediaSlots, qc |-> QcSlots]

LimiterOf(j) ==
    CASE j[2] = "section" -> "section" [] j[2] = "qc_agent" -> "qc" [] OTHER -> "media"

SectionOf(j) == task[j[1]].sec

(* process_section for the first time or as a rerender, with the executors *)
(* of its media plan; or one of the graph's two retry nodes.               *)
TaskKinds ==
    [node : {"process_section"}, sec : Sections, needs : SUBSET Media, retry : BOOLEAN]
    \union [node : {"retry_media_frame"}, sec : Sections, needs : {{m} : m \in Media},
            retry : {TRUE}]
    \union [node : {"retry_field"}, sec : Sections, needs : {{}}, retry : {TRUE}]

Init ==
    /\ task \in [Tasks -> TaskKinds]
    /\ Cardinality({j \in Jobs : j[2] \in task[j[1]].needs}) <= MaxExecutors
    /\ stage = [t \in Tasks |-> "new"]
    /\ pos = [j \in Jobs |-> "idle"]
    /\ sem = [x \in Limiters |-> NewLimiter(Slots[x])]
    /\ shown = [queued |-> [x \in Resources |-> {}], running |-> [x \in Resources |-> {}]]
    /\ Calls!CallInit

-----------------------------------------------------------------------------
(* The tracker.                                                            *)

(* queue_section and queue_retry, unless the section is shown as running;  *)
(* queue_node in any case.                                                 *)
Queue(p, x, s) ==
    IF x \in {"section", "retry"} /\ s \in p.running[x] THEN p
    ELSE [p EXCEPT !.queued[x] = @ \union {s}]

(* start_section, start_node, start_retry                                  *)
Start(p, x, s) ==
    [p EXCEPT !.queued[x] = @ \ {s}, !.running[x] = @ \union {s}]

(* finish_section, finish_node, finish_retry                               *)
Finish(p, x, s) ==
    [p EXCEPT !.queued[x] = @ \ {s}, !.running[x] = @ \ {s}]

-----------------------------------------------------------------------------
(* A job and its limiter.                                                  *)

(* Mutant: a rerender is not shown as a retry.                             *)
EnteredAsFirst(p, j) == Start(p, LimiterOf(j), SectionOf(j))

(* What the tracker shows once a job has its slot.                         *)
Entered(p, j) ==
    LET q == Start(p, LimiterOf(j), SectionOf(j))
    IN  IF j[2] = "section" /\ task[j[1]].retry THEN Start(q, "retry", SectionOf(j)) ELSE q

(* With its slot a node calls its model, by run_llm if it is of text.      *)
Begin(j) ==
    IF j[2] \in {"section", "image_generator"} THEN UNCHANGED callVars
    ELSE Calls!BeginAttempt(j)

(* Queue, acquire and, if there is a slot at once, start.                  *)
Reach(j) ==
    LET x == LimiterOf(j)
        q == Queue(shown, x, SectionOf(j))
    IN  IF TakesAtOnce(sem[x])
        THEN /\ sem' = [sem EXCEPT ![x] = Take(@)]
             /\ shown' = Entered(q, j)
             /\ pos' = [pos EXCEPT ![j] = "running"]
             /\ Begin(j)
        ELSE /\ sem' = [sem EXCEPT ![x] = Wait(@, j)]
             /\ shown' = q
             /\ pos' = [pos EXCEPT ![j] = "waiting"]
             /\ UNCHANGED callVars

(* A job that waited runs with the slot it was handed.                     *)
Granted(j) ==
    LET x == LimiterOf(j)
    IN  /\ j \in sem[x].granted
        /\ sem' = [sem EXCEPT ![x] = Resume(@, j)]
        /\ shown' = Entered(shown, j)
        /\ pos' = [pos EXCEPT ![j] = "running"]
        /\ Begin(j)
        /\ UNCHANGED <<task, stage>>

-----------------------------------------------------------------------------
(* A task.                                                                 *)

(* _start_section_flow                                                     *)
StartSectionFlow(t) ==
    /\ stage[t] = "new" /\ task[t].node = "process_section"
    /\ Reach(<<t, "section">>)
    /\ stage' = [stage EXCEPT ![t] = "content"]
    /\ UNCHANGED task

(* The head of retry_media_frame and of retry_field: no section slot.      *)
StartRetry(t) ==
    /\ stage[t] = "new" /\ task[t].node # "process_section"
    /\ shown' = Start(shown, "retry", task[t].sec)
    /\ stage' = [stage EXCEPT ![t] = IF task[t].node = "retry_field" THEN "content" ELSE "media"]
    /\ UNCHANGED <<task, pos, sem, callVars>>

(* The content is written or mended, and the media is up next; or it is    *)
(* not, and the task has nothing more to do.                               *)
ContentIsWritten(t) ==
    /\ stage[t] = "content"
    /\ task[t].node = "process_section" => pos[<<t, "section">>] = "running"
    /\ \E next \in {"media", "leaving"} : stage' = [stage EXCEPT ![t] = next]
    /\ UNCHANGED <<task, pos, sem, shown, callVars>>

(* An executor, together with the section's others.                        *)
StartExecutor(t, m) ==
    /\ stage[t] = "media" /\ m \in task[t].needs
    /\ pos[<<t, m>>] = "idle"
    /\ Reach(<<t, m>>)
    /\ UNCHANGED <<task, stage>>

MediaOver(t) == stage[t] = "media" /\ \A m \in task[t].needs : pos[<<t, m>>] = "done"

(* The section is assembled and goes to quality control.                   *)
StartQc(t) ==
    /\ MediaOver(t)
    /\ Reach(<<t, "qc_agent">>)
    /\ stage' = [stage EXCEPT ![t] = "quality"]
    /\ UNCHANGED task

(* The section could not be assembled.                                     *)
SkipQc(t) ==
    /\ MediaOver(t)
    /\ stage' = [stage EXCEPT ![t] = "leaving"]
    /\ UNCHANGED <<task, pos, sem, shown, callVars>>

(* A node returns: its slot is released, then the tracker is told.         *)
(* Quality control may ask for a retry, which is shown as queued.          *)
EndNode(j) ==
    LET x    == LimiterOf(j)
        over == Finish(shown, x, SectionOf(j))
    IN  /\ x # "section" /\ pos[j] = "running"
        /\ Calls!Forget(j)
        /\ sem' = [sem EXCEPT ![x] = Release(@)]
        /\ pos' = [pos EXCEPT ![j] = "done"]
        /\ IF x = "qc"
           THEN /\ shown' \in {over, Queue(over, "retry", SectionOf(j))}
                /\ stage' = [stage EXCEPT ![j[1]] = "leaving"]
           ELSE shown' = over /\ UNCHANGED stage
        /\ UNCHANGED task

(* _finish_section_flow, and the end of the retry nodes.                   *)
Leave(t) ==
    LET s    == task[t].sec
        over == IF task[t].node = "process_section" THEN Finish(shown, "section", s) ELSE shown
    IN  /\ stage[t] = "leaving"
        /\ IF task[t].node = "process_section"
           THEN /\ sem' = [sem EXCEPT !["section"] = Release(@)]
                /\ pos' = [pos EXCEPT ![<<t, "section">>] = "done"]
           ELSE UNCHANGED <<sem, pos>>
        /\ shown' = IF task[t].retry THEN Finish(over, "retry", s) ELSE over
        /\ stage' = [stage EXCEPT ![t] = "done"]
        /\ UNCHANGED <<task, callVars>>

(* Nodes that set a limit around their call.                               *)
Budgeted == {"diagram_generator", "interaction_generator"}

CallMoves(j) == Calls!CallStep(j) /\ UNCHANGED <<task, stage, pos, sem, shown>>
CallIsCut(j) == j[2] \in Budgeted /\ Calls!Cut(j) /\ UNCHANGED <<task, stage, pos, sem, shown>>

TaskStep(t) ==
    \/ StartSectionFlow(t) \/ StartRetry(t) \/ ContentIsWritten(t)
    \/ \E m \in Media : StartExecutor(t, m)
    \/ StartQc(t) \/ SkipQc(t) \/ Leave(t)

JobStep(j) == Granted(j) \/ EndNode(j) \/ CallMoves(j)

Progress == (\E t \in Tasks : TaskStep(t)) \/ (\E j \in Jobs : JobStep(j))

Next == Progress \/ \E j \in Jobs : CallIsCut(j)

Spec == Init /\ [][Next]_vars

(* The event loop always runs something that can run: every attempt has a  *)
(* time limit, so that something always can.                               *)
FairSpec == Spec /\ WF_vars(Progress)

-----------------------------------------------------------------------------
Holders(x) == {j \in Jobs : LimiterOf(j) = x /\ pos[j] = "running"}
Retries    == {t \in Tasks : task[t].retry
                    /\ IF task[t].node = "process_section"
                       THEN pos[<<t, "section">>] = "running"
                       ELSE stage[t] \notin {"new", "done"}}

TypeOK ==
    /\ task \in [Tasks -> TaskKinds]
    /\ stage \in [Tasks -> {"new", "content", "media", "quality", "leaving", "done"}]
    /\ pos \in [Jobs -> {"idle", "waiting", "running", "done"}]
    /\ sem \in [Limiters -> [free : Nat, waiting : Seq(Jobs), granted : SUBSET Jobs]]
    /\ shown \in [queued : [Resources -> SUBSET Sections],
                  running : [Resources -> SUBSET Sections]]
    /\ Calls!CallTypeOK

(* No slot of a limiter is ever lost or made up: those free, those handed  *)
(* over and those that running jobs hold are all there are.                *)
SlotsAreKept ==
    \A x \in Limiters :
        sem[x].free + Cardinality(sem[x].granted) + Cardinality(Holders(x)) = Slots[x]

Sole(t) == \A u \in Tasks \ {t} : task[u].sec # task[t].sec

(* A section that one task works on is shown exactly as it stands; its     *)
(* media is, if one executor makes it.                                     *)
SoleTaskIsShown ==
    \A t \in Tasks : Sole(t) =>
        /\ task[t].sec \in shown.running["retry"] <=> t \in Retries
        /\ \A j \in Jobs : j[1] = t /\ (LimiterOf(j) = "media" => task[t].needs = {j[2]}) =>
              /\ SectionOf(j) \in shown.running[LimiterOf(j)] <=> pos[j] = "running"
              /\ SectionOf(j) \in shown.queued[LimiterOf(j)] <=> pos[j] = "waiting"

(* A model call that has started is settled by an event, unless the limit  *)
(* around it cut it off: then the events leave it open for ever.           *)
StartsAreSettled == Calls!StartsAreSettled

(* Every task the graph sends comes to its end: nobody waits for a slot    *)
(* that is never handed on.                                                *)
EveryTaskLeaves == <>(\A t \in Tasks : stage[t] = "done")
=============================================================================
