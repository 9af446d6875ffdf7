----------------------------- MODULE Telemetry -----------------------------
(***************************************************************************)
(* The report of one generation beside its row and its document: the job   *)
(* saves the document and publishes events on the bus, the telemetry       *)
(* monitor takes them from its queue one at a time and saves what the      *)
(* generation's recorder makes of them, the server stops or crashes, and   *)
(* the next start marks the row failed and backfills a missing report.     *)
(*                                                                         *)
(* The pipeline is abstracted to what it can publish and in which order    *)
(* (SectionGraph has the pipeline, GenerationJob the job's own failures).  *)
(***************************************************************************)
EXTENDS ReportRecorder, Sequences

CONSTANTS
    MaxAttempts,    \* bound: attempts at sections
    MaxLag,         \* bound: events the monitor is behind (its queue has none)
    MaxFaults       \* bound: report saves that fail

ASSUME MaxAttemptsAssumption == MaxAttempts \in Nat
ASSUME MaxLagAssumption == MaxLag \in Nat \ {0}
ASSUME MaxFaultsAssumption == MaxFaults \in Nat

VARIABLES
    overridden,     \* the application's repositories are overridden, as tests do
    server,         \* the process: up, draining and stopped in a shutdown, ...
    row, doc,       \* status and document of the generation's row
    report,         \* report_json of the row
    job,            \* where the generation's job is
    stage,          \* section |-> what its task did last
    runs,           \* attempts at sections so far
    queue,          \* the monitor's queue
    recorder,       \* the generation's recorder: its report, or NoReport
    closing,        \* terminal event whose recorder is to be finalised
    faults          \* report saves that failed

jobVars     == <<row, doc, job, stage, runs>>
monitorVars == <<report, recorder, closing, faults>>
vars == <<overridden, server, jobVars, queue, monitorVars>>

Terminal == {"completed", "partial", "failed"}

Event == [type : SectionEvents, section : Sections]
         \union [type : {"pipeline_start", "complete", "error"}]
         \union [type : {"planned"}, size : 1..Cardinality(Sections)]

Init ==
    /\ overridden \in BOOLEAN
    /\ server = "up" /\ row = "pending" /\ doc = InitialDocument
    /\ report = NoReport /\ job = "new"
    /\ stage = [s \in Sections |-> "none"] /\ runs = 0
    /\ queue = << >> /\ recorder = NoReport /\ closing = "none" /\ faults = 0

-----------------------------------------------------------------------------
(* The job and its pipeline.                                               *)

(* EventBus.publish: the monitor is subscribed until it is stopped.        *)
Publish(ev) ==
    /\ Len(queue) < MaxLag
    /\ queue' = IF server \in {"up", "draining"} THEN Append(queue, ev) ELSE queue

Said(type, s) == Publish([type |-> type, section |-> s])

Alive == server \in {"up", "draining", "stopped"}

JobStarts ==
    /\ Alive /\ job = "new"
    /\ job' = "running" /\ row' = "running"
    /\ Publish([type |-> "pipeline_start"])
    /\ UNCHANGED <<overridden, server, doc, stage, runs, monitorVars>>

CurriculumPlanned ==
    /\ Alive /\ job = "running" /\ doc.manifest = {}
    /\ \E O \in (SUBSET Sections) \ {{}} :
           /\ Publish([type |-> "planned", size |-> Cardinality(O)])
           /\ stage' = [s \in Sections |-> IF s \in O THEN "outlined" ELSE "none"]
    /\ job' = "outlined"
    /\ UNCHANGED <<overridden, server, row, doc, runs, monitorVars>>

SectionStarts(s) ==
    /\ Alive /\ job = "outlined" /\ stage[s] = "outlined"
    /\ doc' = SectionStarted(doc, s)
    /\ stage' = [stage EXCEPT ![s] = "queued"]
    /\ Said("started", s)
    /\ UNCHANGED <<overridden, server, row, job, runs, monitorVars>>

Outlined == \A s \in Sections : stage[s] # "outlined"

(* A task of the section: an attempt and what it publishes on its way.     *)
AttemptStarts(s) ==
    /\ Alive /\ job = "outlined" /\ Outlined
    /\ stage[s] = "queued" /\ runs < MaxAttempts
    /\ stage' = [stage EXCEPT ![s] = "running"] /\ runs' = runs + 1
    /\ Said("attempt", s)
    /\ UNCHANGED <<overridden, server, row, doc, job, monitorVars>>

NodeRuns(s) ==
    /\ Alive /\ job = "outlined" /\ stage[s] = "running"
    /\ \E type \in {"node", "node_failed"} : Said(type, s)
    /\ UNCHANGED <<overridden, server, jobVars, monitorVars>>

(* The assets of the draft that are pending or ready.                      *)
AssetsAreTold(s) ==
    /\ Alive /\ job = "outlined" /\ stage[s] = "running"
    /\ Said("assets", s)
    /\ UNCHANGED <<overridden, server, jobVars, monitorVars>>

(* What executors tell of frames and slots.                                *)
MediaIsTold(s) ==
    /\ Alive /\ job = "outlined" /\ stage[s] = "running"
    /\ Said("detail", s)
    /\ UNCHANGED <<overridden, server, jobVars, monitorVars>>

PartialIsSaved(s) ==
    /\ Alive /\ job = "outlined" /\ stage[s] = "running"
    /\ doc' = SectionPartial(doc, s)
    /\ Said("partial", s)
    /\ UNCHANGED <<overridden, server, row, job, stage, runs, monitorVars>>

FinalIsSaved(s) ==
    /\ Alive /\ job = "outlined" /\ stage[s] = "running"
    /\ doc' = SectionFinal(doc, s)
    /\ stage' = [stage EXCEPT ![s] = "final"]
    /\ Said("final", s)
    /\ UNCHANGED <<overridden, server, row, job, runs, monitorVars>>

ReadyIsSaved(s) ==
    /\ Alive /\ job = "outlined" /\ stage[s] = "final"
    /\ doc' = SectionReady(doc, s)
    /\ stage' = [stage EXCEPT ![s] = "done"]
    /\ Said("ready", s)
    /\ UNCHANGED <<overridden, server, row, job, runs, monitorVars>>

(* section_failed and section_retry_queued only go over the bus.           *)
SectionFails(s) ==
    /\ Alive /\ job = "outlined" /\ stage[s] = "running"
    /\ stage' = [stage EXCEPT ![s] = "failed"]
    /\ Said("section_failed", s)
    /\ UNCHANGED <<overridden, server, row, doc, job, runs, monitorVars>>

RetryIsQueued(s) ==
    /\ Alive /\ job = "outlined" /\ stage[s] \in {"running", "done"}
    /\ runs < MaxAttempts
    /\ stage' = [stage EXCEPT ![s] = "queued"]
    /\ Said("retry", s)
    /\ UNCHANGED <<overridden, server, row, doc, job, runs, monitorVars>>

(* The run's own document replaces the one of the events.                  *)
ResultIsSaved ==
    /\ Alive /\ job = "outlined" /\ Outlined
    /\ \A s \in Sections : stage[s] # "final"
    /\ doc' = ResultDocument(doc.manifest, doc.sections,
                             {s \in Sections : stage[s] = "failed"}, doc.partial)
    /\ job' = "saved"
    /\ UNCHANGED <<overridden, server, row, stage, runs, queue, monitorVars>>

RowIsSettled ==
    /\ Alive /\ job = "saved"
    /\ row' = doc.status /\ job' = "settled"
    /\ UNCHANGED <<overridden, server, doc, stage, runs, queue, monitorVars>>

(* The job fails, is late, or is cancelled with the server.                *)
JobFails ==
    /\ Alive /\ job \in {"new", "running", "outlined"}
    /\ doc' = FailedSnapshot(doc) /\ row' = "failed" /\ job' = "settled"
    /\ UNCHANGED <<overridden, server, stage, runs, queue, monitorVars>>

(* Mutant: a result whose row is still to be settled is announced.         *)
AnnouncedEarly ==
    /\ Alive /\ job \in {"saved", "settled"}
    /\ Publish([type |-> IF doc.status = "failed" THEN "error" ELSE "complete"])
    /\ job' = "announced"
    /\ UNCHANGED <<overridden, server, row, doc, stage, runs, monitorVars>>

Announce ==
    /\ Alive /\ job = "settled"
    /\ Publish([type |-> IF row = "failed" THEN "error" ELSE "complete"])
    /\ job' = "announced"
    /\ UNCHANGED <<overridden, server, row, doc, stage, runs, monitorVars>>

JobStep ==
    \/ JobStarts \/ CurriculumPlanned \/ ResultIsSaved \/ RowIsSettled \/ JobFails \/ Announce
    \/ \E s \in Sections :
           \/ SectionStarts(s) \/ AttemptStarts(s) \/ NodeRuns(s) \/ AssetsAreTold(s)
           \/ MediaIsTold(s) \/ PartialIsSaved(s) \/ FinalIsSaved(s) \/ ReadyIsSaved(s)
           \/ SectionFails(s) \/ RetryIsQueued(s)

-----------------------------------------------------------------------------
(* The monitor.                                                            *)

(* Mutant: only the event that starts a run makes a recorder.              *)
EnsuredAtStart ==
    IF recorder # NoReport \/ Head(queue).type # "pipeline_start" THEN recorder ELSE NewReport

(* _ensure_recorder                                                        *)
EnsuredRecorder == IF recorder = NoReport THEN NewReport ELSE recorder

(* A save commits the recorder's whole report, or fails and leaves it for  *)
(* the next one.                                                           *)
Saves(r) == report' = r /\ UNCHANGED faults
SaveFails == faults < MaxFaults /\ faults' = faults + 1 /\ UNCHANGED report

Monitoring == server \in {"up", "draining"} /\ closing = "none" /\ queue # << >>

(* _handle_event up to the recorder's save.  An event without a recorder   *)
(* is dropped; an exception ends the event's handling, not the monitor.    *)
Handle ==
    /\ Monitoring
    /\ queue' = Tail(queue)
    /\ IF EnsuredRecorder = NoReport
       THEN UNCHANGED monitorVars
       ELSE /\ recorder' = Applied(EnsuredRecorder, Head(queue))
            /\ \/ /\ Saves(recorder')
                  /\ closing' = IF Head(queue).type \in {"complete", "error"}
                                THEN Head(queue).type ELSE "none"
               \/ SaveFails /\ UNCHANGED closing
    /\ UNCHANGED <<overridden, server, jobVars>>

(* finalize_failure, or finalize_success with the document.  The loader of *)
(* app.py finds a document only through an overridden repository; without  *)
(* one finalize_success is given None, raises, and the recorder stays.     *)
Finalize ==
    /\ server \in {"up", "draining"} /\ closing # "none"
    /\ closing' = "none"
    /\ IF closing = "complete" /\ ~overridden
       THEN UNCHANGED <<report, recorder, faults>>
       ELSE LET final == IF closing = "complete" THEN FinalizedSuccess(recorder, doc)
                                                 ELSE FinalizedFailure(recorder)
            IN  \/ Saves(final) /\ recorder' = NoReport
                \/ SaveFails /\ recorder' = final
    /\ UNCHANGED <<overridden, server, jobVars, queue>>

MonitorStep == Handle \/ Finalize

-----------------------------------------------------------------------------
(* The server.                                                             *)

(* Shutdown: stop() waits for the queue, for five seconds at most, and     *)
(* forgets it and the recorders.                                           *)
BeginStop ==
    /\ server = "up" /\ server' = "draining"
    /\ UNCHANGED <<overridden, jobVars, queue, monitorVars>>

MonitorStops ==
    /\ server = "draining" /\ server' = "stopped"
    /\ queue' = << >> /\ recorder' = NoReport /\ closing' = "none"
    /\ UNCHANGED <<overridden, jobVars, report, faults>>

(* The process ends: after a shutdown, or in the middle of anything.       *)
Ends ==
    /\ server # "down" /\ server' = "down" /\ job' = "dead"
    /\ queue' = << >> /\ recorder' = NoReport /\ closing' = "none"
    /\ UNCHANGED <<overridden, row, doc, stage, runs, report, faults>>

(* The next start marks a row that is old enough failed; its report is     *)
(* left alone.                                                             *)
MarkStale ==
    /\ server = "down" /\ server' = "marked"
    /\ \/ UNCHANGED <<row, doc>>
       \/ /\ row \in {"pending", "running"}
          /\ row' = "failed" /\ doc' = InterruptedSnapshot(doc)
    /\ UNCHANGED <<overridden, job, stage, runs, queue, monitorVars>>

(* Mutant: a report that is there is built again.                          *)
BackfillAll ==
    /\ server = "marked" /\ server' = "up"
    /\ report' = IF row = "failed" THEN Backfilled(doc) ELSE report
    /\ UNCHANGED <<overridden, jobVars, queue, recorder, closing, faults>>

Backfill ==
    /\ server = "marked" /\ server' = "up"
    /\ report' = IF row = "failed" /\ report = NoReport THEN Backfilled(doc) ELSE report
    /\ UNCHANGED <<overridden, jobVars, queue, recorder, closing, faults>>

ServerStep == BeginStop \/ MonitorStops \/ Ends \/ MarkStale \/ Backfill

Next == JobStep \/ MonitorStep \/ ServerStep

Spec == Init /\ [][Next]_vars

(* The monitor's task is scheduled as long as the event loop runs.         *)
FairSpec == Spec /\ WF_vars(MonitorStep)

-----------------------------------------------------------------------------
(* Properties.                                                             *)

TypeOK ==
    /\ overridden \in BOOLEAN
    /\ server \in {"up", "draining", "stopped", "down", "marked"}
    /\ row \in DocumentStatus \ {"none"} /\ doc \in Document
    /\ report \in Report /\ recorder \in Report
    /\ job \in {"new", "running", "outlined", "saved", "settled", "announced", "dead"}
    /\ stage \in [Sections -> {"none", "outlined", "queued", "running",
                               "final", "done", "failed"}]
    /\ runs \in 0..MaxAttempts
    /\ Len(queue) <= MaxLag /\ \A i \in DOMAIN queue : queue[i] \in Event
    /\ closing \in {"none", "complete", "error"}
    /\ faults \in 0..MaxFaults

(* A section the report calls ready is in the saved document, whatever     *)
(* failed, and however far the monitor is behind.                          *)
ReadyIsKept == With(report, "ready") \subseteq doc.sections

(* A report says a generation ended only when its row says so, and agrees  *)
(* with it on whether it failed.                                           *)
ReportFollowsRow ==
    report.status \in {"completed", "failed"} =>
        row \in Terminal /\ (report.status = "failed" <=> row = "failed")

(* An outcome is true of the document: "full" means no section of the      *)
(* manifest is missing, and the sections called ready are those it holds.  *)
OutcomeIsTrue ==
    /\ report.outcome \in {"full", "partial"} => With(report, "ready") = doc.sections
    /\ report.outcome = "full" => doc.sections = doc.manifest
    /\ report.outcome = "failed" => row = "failed"

(* A report that has its outcome is never changed again: no event comes    *)
(* after the one that closed the recorder and starts another.              *)
OutcomeIsLast == [][report.outcome # "none" => UNCHANGED report]_vars

(* An announced end reaches the report, unless the server goes or a save   *)
(* fails.                                                                  *)
EndReachesReport ==
    (job = "announced" /\ server = "up")
        ~> (report.status \in {"completed", "failed"} \/ server # "up" \/ faults > 0)

(* What docs/project/runs/2026-04-02-phase-p4-document-storage-            *)
(* consolidation.md promises of telemetry's document loading, and the      *)
(* recorder's test asserts: a handled completion has its outcome.  It      *)
(* fails: without an override no document reaches finalize_success.        *)
CompletedHasOutcome ==
    (report.status = "completed" /\ queue = << >> /\ closing = "none" /\ faults = 0
         /\ server = "up" /\ job # "dead")
        => report.outcome # "none"
=============================================================================
