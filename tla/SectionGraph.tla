---------------------------- MODULE SectionGraph ---------------------------
(***************************************************************************)
(* The compiled graph of a run: the planner, a superstep with one task per *)
(* section, and supersteps of retries until the router sends nothing more. *)
(*                                                                         *)
(* A task is sent with a copy of the state as its sender's router saw it:  *)
(* the channels as they were before the superstep, and the sender's own    *)
(* writes.  The tasks of a superstep therefore do not see each other, and  *)
(* their writes meet only in the channels, in the order of the tasks.      *)
(* They share nothing but limiters while they run, so that taking them in  *)
(* that order loses no outcome.                                            *)
(***************************************************************************)
EXTENDS SectionFlow

CONSTANTS
    SectionCount,   \* section_count of the request
    MaxSections,    \* bound on the length of the outline
    MaxSlots,       \* bound on the media slots of all sections together
    MaxTasks        \* bound on the tasks of a superstep that is explored

ASSUME BoundsAssumption ==
    /\ SectionCount \in Nat \ {0}
    /\ MaxSections \in Nat \ {0} /\ MaxSlots \in Nat
    /\ MaxTasks \in Nat \ {0}

VARIABLES
    plan,      \* the media slots each section's plan asks for, and those it needs
    outline,   \* the sections of the curriculum outline, in order
    chan,      \* the channels: each section's part of the state
    acc,       \* the channels with the writes of this superstep's finished tasks
    tasks,     \* the tasks of this superstep still to run
    sends,     \* the tasks the routers have sent so far
    phase,     \* "planning", "running", "ended" or "cancelled"
    ran        \* history: how many tasks of a section ran in the superstep,
               \* where 2 is two or more

vars == <<plan, outline, chan, acc, tasks, sends, phase, ran>>

Sections == 1..MaxSections

Plans == {p \in [slots : SUBSET Kinds, need : SUBSET Kinds] :
             /\ p.need \subseteq p.slots
             /\ p.slots \ {"simulation"} \subseteq p.need}

Planned == {outline[i] : i \in DOMAIN outline}

NoneRan == [s \in Sections |-> 0]

Init ==
    /\ plan \in [Sections -> Plans]
    /\ Cardinality({x \in Sections \X Kinds : x[2] \in plan[x[1]].slots}) <= MaxSlots
    /\ outline = <<>>
    /\ chan = [s \in Sections |-> NewSection]
    /\ acc = chan
    /\ tasks = <<>> /\ sends = <<>>
    /\ phase = "planning"
    /\ ran = NoneRan

Task(s, owed, rec) == [sec |-> s, node |-> owed[1], frame |-> owed[2], rec |-> rec]

(* The lengths of outline that curriculum_planner leaves; a planner that   *)
(* fails leaves none.                                                      *)
Outlines == 0..MaxSections

(* The planner, and fan_out_sections: no outline fans out to nothing.      *)
PlanOutline ==
    /\ phase = "planning"
    /\ \E n \in Outlines :
          /\ outline' = [i \in 1..n |-> i]
          /\ tasks' = [i \in 1..n |-> Task(i, <<"process", "none">>, NewSection)]
          /\ phase' = IF n = 0 THEN "ended" ELSE "running"
    /\ UNCHANGED <<plan, chan, acc, sends, ran>>

Outcomes(t) ==
    CASE t.node = "process" -> ProcessSection(t.rec, plan[t.sec])
      [] t.node = "field"   -> RetryField(t.rec, plan[t.sec])
      [] t.node = "frame"   -> RetryFrame(t.rec, plan[t.sec], t.frame)

(* The channel of a section after a task's writes: what the task changed   *)
(* replaces what is there, and a dictionary's missing keys stay.           *)
Merge(c, from, out) ==
    [out EXCEPT
        !.content   = IF out.content = "none" THEN c.content ELSE @,
        !.schema    = IF out.schema = from.schema THEN c.schema ELSE @,
        !.planned   = @ \/ c.planned,
        !.frame     = IF \A k \in Kinds : out.frame[k] = "none" THEN c.frame ELSE @,
        !.tries     = IF out.tries = from.tries THEN c.tries ELSE @,
        !.partial   = @ \/ c.partial,
        !.life      = IF @ = "none" THEN c.life ELSE @,
        !.assembled = @ \/ c.assembled,
        !.failed    = IF @ = "no" THEN c.failed ELSE @,
        !.report    = IF @ = NoReport THEN c.report ELSE @,
        !.request   = IF out.request = from.request THEN c.request ELSE @,
        !.reruns    = IF out.reruns = from.reruns THEN c.reruns ELSE @]

(* Sections in the order of the outline, which is ascending.               *)
Ascending(S) ==
    CHOOSE q \in [1..Cardinality(S) -> S] :
        /\ \A s \in S : \E i \in DOMAIN q : q[i] = s
        /\ \A i, j \in DOMAIN q : i < j => q[i] < q[j]

(* Mutant: the router goes over the sections with a report.                *)
RoutesReported(view) ==
    LET Owes(s) == view[s].report # NoReport /\ Owed(view[s], plan[s].need) # Nothing
        due     == Ascending({s \in Planned : Owes(s)})
    IN  [i \in DOMAIN due |->
            Task(due[i], Owed(view[due[i]], plan[due[i]].need), view[due[i]])]

(* route_after_qc, over every section that has a media plan.               *)
Routes(view) ==
    LET Owes(s) == view[s].planned /\ Owed(view[s], plan[s].need) # Nothing
        due     == Ascending({s \in Planned : Owes(s)})
    IN  [i \in DOMAIN due |->
            Task(due[i], Owed(view[due[i]], plan[due[i]].need), view[due[i]])]

(* The next task of the superstep runs, and its router decides on what it  *)
(* sees: the channels with the task's own writes.                          *)
RunTask ==
    /\ phase = "running" /\ tasks # <<>>
    /\ LET t == Head(tasks)
       IN  \E out \in Outcomes(t) :
              /\ acc' = [acc EXCEPT ![t.sec] = Merge(@, t.rec, out)]
              /\ \E view \in {[chan EXCEPT ![t.sec] = Merge(@, t.rec, out)]} :
                    sends' = sends \o Routes(view)
              /\ ran' = [ran EXCEPT ![t.sec] = IF @ = 0 THEN 1 ELSE 2]
    /\ tasks' = Tail(tasks)
    /\ UNCHANGED <<plan, outline, chan, phase>>

(* The superstep is over: its writes become the channels, its sends the    *)
(* tasks of the next one.  Only supersteps within MaxTasks are explored.   *)
EndSuperstep ==
    /\ phase = "running" /\ tasks = <<>>
    /\ Len(sends) <= MaxTasks
    /\ chan' = acc
    /\ tasks' = sends /\ sends' = <<>>
    /\ phase' = IF sends = <<>> THEN "ended" ELSE "running"
    /\ ran' = IF sends = <<>> THEN ran ELSE NoneRan
    /\ UNCHANGED <<plan, outline, acc>>

(* The deadline, a shutdown, or a node that raises: what the tasks of the  *)
(* superstep have done is lost.                                            *)
Cancel ==
    /\ phase \in {"planning", "running"}
    /\ phase' = "cancelled"
    /\ acc' = chan /\ tasks' = <<>> /\ sends' = <<>> /\ ran' = NoneRan
    /\ UNCHANGED <<plan, outline, chan>>

Next == PlanOutline \/ RunTask \/ EndSuperstep \/ Cancel

Spec == Init /\ [][Next]_vars

FairSpec == Spec /\ WF_vars(PlanOutline \/ RunTask \/ EndSuperstep)

-----------------------------------------------------------------------------
(* The document _build_result makes of the channels.                       *)

FinalSections   == {s \in Planned : chan[s].assembled}
FailedSections  == {s \in Planned : chan[s].failed # "no" /\ ~chan[s].assembled}
PartialSections == {s \in Planned : chan[s].partial /\ ~chan[s].assembled
                                                   /\ chan[s].failed = "no"}

(* The errors of the state that are no failed section's: of the schema.    *)
HasTerminalError ==
    outline = <<>> \/ \E s \in Planned : chan[s].failed # "no" \/ chan[s].schema # "none"

(* As many sections as the request asked for, or the outline has.          *)
PlannedCount ==
    IF Cardinality(Planned) > SectionCount THEN Cardinality(Planned) ELSE SectionCount

(* _resolve_terminal_status                                                *)
Status ==
    CASE /\ Cardinality(FinalSections) = PlannedCount
         /\ PartialSections = {} /\ FailedSections = {} -> "completed"
      [] FinalSections = {} /\ PartialSections = {}
         /\ (FailedSections # {} \/ HasTerminalError) -> "failed"
      [] OTHER -> "partial"

-----------------------------------------------------------------------------
SectionRecord ==
    [content : {"none", "good", "field", "many"}, schema : {"none", "field", "many"},
     planned : BOOLEAN, frame : [Kinds -> {"none", "ready", "failed"}],
     tries : [Kinds -> 0..MaxMediaFrameRetries],
     partial : BOOLEAN, pending : BOOLEAN, life : {"none", "waiting", "final", "failed"},
     assembled : BOOLEAN, failed : {"no", "retryable", "terminal"},
     report : Verdicts \union {{}, NoReport}, request : (UNION Verdicts) \union {NoBlock},
     reruns : 0..MaxRerenders]

TypeOK ==
    /\ plan \in [Sections -> Plans]
    /\ outline \in {[i \in 1..n |-> i] : n \in 0..MaxSections}
    /\ chan \in [Sections -> SectionRecord] /\ acc \in [Sections -> SectionRecord]
    /\ \A q \in {tasks, sends} : \A i \in DOMAIN q :
          /\ q[i].sec \in Planned /\ q[i].rec \in SectionRecord
          /\ q[i].node \in {"process", "field", "frame"}
          /\ q[i].node = "frame" => q[i].frame \in plan[q[i].sec].need
    /\ phase \in {"planning", "running", "ended", "cancelled"}
    /\ ran \in [Sections -> 0..2]

(* The graph ends while a section with a media plan is owed a retry only   *)
(* if several tasks of it ran in the last superstep: what they wrote over  *)
(* each other in its channels was seen by no router.  Whatever else may    *)
(* be owed, by the last task's own section or by one that none worked on,  *)
(* some router of the superstep has sent it.                               *)
OnlyDuplicatesLeaveOwed ==
    phase = "ended" =>
        \A s \in Planned :
            chan[s].planned /\ Owed(chan[s], plan[s].need) # Nothing => ran[s] = 2

(* A planned section that the document lists neither as final nor as       *)
(* failed nor as partial is one whose content failed its schema.           *)
OnlySchemaFailureVanishes ==
    phase = "ended" =>
        \A s \in Planned \ (FinalSections \union FailedSections \union PartialSections) :
            chan[s].schema # "none"

(* A section the document leaves waiting for assets waits for a required   *)
(* frame that has spent its retries, or has no slot that a retry could     *)
(* fill.                                                                   *)
LeftWaitingIsSpent ==
    phase = "ended" =>
        \A s \in PartialSections :
            \/ Blocked(chan[s], plan[s].need) # {}
            \/ plan[s].slots \intersect {"svg", "image"} = {}

(* The next task regenerates content without a request to count it by.     *)
Uncounted ==
    /\ phase = "running" /\ tasks # <<>>
    /\ Head(tasks).node # "frame" /\ Head(tasks).rec.request = NoBlock

(* A run ends, unless it regenerates a section without counting for ever   *)
(* (or leaves the bound on what is explored).                              *)
EndsUnlessUncounted ==
    \/ <>(phase \in {"ended", "cancelled"})
    \/ []<>Uncounted
    \/ <>(Len(sends) > MaxTasks)

-----------------------------------------------------------------------------
(* What the repository says and the code does not do.                      *)

(* "so the retry path is both crash-free and bounded."                     *)
RetriesAreBounded ==
    <>(phase \in {"ended", "cancelled"} \/ Len(sends) > MaxTasks)
=============================================================================
