--------------------------- MODULE GenerationJob ---------------------------
(***************************************************************************)
(* One generation from the POST that accepts it to the row that outlives   *)
(* it: enqueue_generation, the background task _run_generation_job, the    *)
(* pipeline's section tasks as far as the job can see them (the events     *)
(* they send it), the generations row in the database, and the restart     *)
(* that reaps the rows of dead jobs.                                       *)
(*                                                                         *)
(* The server is one process with one event loop, so code between two      *)
(* awaits is atomic.  Each await on the database is a step that either     *)
(* returns or raises; when it raises, its write may have been committed    *)
(* all the same.  The section tasks run concurrently and each of them      *)
(* awaits its own save of the shared in-memory document: "save" holds the  *)
(* documents in flight, which reach the row in any order.                  *)
(***************************************************************************)
EXTENDS GenerationDocument, Sequences

CONSTANT MaxRounds  \* bound on the pipeline's supersteps after the fan-out

ASSUME MaxRoundsAssumption == MaxRounds \in Nat

VARIABLES
    (* the database: survives everything *)
    row,            \* the generations row
    aged,           \* created_at is before the stale cutoff
    (* the process *)
    server,         \* up, stopping, down, or where startup recovery stands
    pc,             \* the await the request handler or the job is at
    document,       \* the job's in-memory document
    heartbeat,      \* the heartbeat task
    (* the pipeline, alive only while pc = "engine" *)
    phase,          \* last thing each section's task did
    save,           \* on_event's save_document in flight for each section
    assembled,      \* keys of assembled_sections, failed_sections and
    bad,            \*   partial_sections in the pipeline state
    draft,
    rounds,         \* retry supersteps so far
    (* history *)
    readyPublished, \* sections whose SectionReadyEvent was published
    announced,      \* outcomes published as "complete" or "error"
    lostAck,        \* a committed status update was reported as failed
    reaped          \* startup recovery rewrote this generation

engineVars  == <<phase, save, assembled, bad, draft, rounds>>
historyVars == <<readyPublished, announced, lostAck, reaped>>
vars == <<row, aged, server, pc, document, heartbeat, engineVars, historyVars>>

-----------------------------------------------------------------------------
Active   == {"pending", "running"}
Outcomes == {"completed", "partial", "failed"}

(* The columns of the row that the code decides on.                        *)
Row == [status  : {"absent"} \union Active \union Outcomes,
        doc     : Document,
        hasPath : BOOLEAN]

(* Awaits of enqueue_generation and of _run_generation_job by what they    *)
(* wait for: a document to be saved, a status to be committed, a heartbeat *)
(* to be written.  At a publish step a terminal status is committed, and   *)
(* the job is about to hear of it and to publish it.                       *)
AcceptSteps == {"acc_doc", "acc_status", "acc_beat"}
SaveSteps   == {"acc_doc", "job_doc", "res_doc", "race_doc", "fail_doc", "orph_doc"}
StatusSteps == {"acc_status", "job_status", "res_status", "race_status",
                "fail_status", "orph_status"}
PublishSteps == {"res_pub", "race_pub", "fail_pub", "orph_pub"}
BeatSteps   == {"acc_beat", "job_beat"}
TrySteps    == {"job_doc", "job_status", "job_beat", "engine",
                "res_doc", "res_status", "res_pub"}
HandlerSteps == {"race_doc", "race_status", "race_pub",
                 "fail_doc", "fail_status", "fail_pub"}
FinallySteps == {"fin_beat", "fin_check", "orph_doc", "orph_status", "orph_pub"}
JobSteps    == TrySteps \union HandlerSteps \union FinallySteps

(* "done" is a job that ran to the end of its finally block, "gaveup" one  *)
(* whose safety net failed too, "escaped" one that left the finally block  *)
(* early, "refused" a request that failed before its job was spawned,      *)
(* "killed" what a crash or an exit of the process cut off.                *)
EndedSteps == {"done", "gaveup", "escaped", "refused", "killed"}

AfterSave == [acc_doc  |-> "acc_status",  job_doc  |-> "job_status",
              res_doc  |-> "res_status",  race_doc |-> "race_status",
              fail_doc |-> "fail_status", orph_doc |-> "orph_status"]

AfterStatus == [acc_status  |-> "acc_beat", job_status  |-> "job_beat",
                res_status  |-> "res_pub",  race_status |-> "race_pub",
                fail_status |-> "fail_pub", orph_status |-> "orph_pub"]

(* Where an exception, a timeout or a cancellation raised at an await      *)
(* takes the control.  A TimeoutError is only told apart from the others   *)
(* by the guard AllDone, which needs a "running" document and a manifest.  *)
RaisedAt(step) ==
    CASE step \in AcceptSteps   -> "refused"
      [] step \in TrySteps      -> "fail_doc"
      [] step \in HandlerSteps  -> "fin_beat"
      [] step = "fin_beat"      -> "fin_check"
      [] OTHER                  -> "gaveup"

-----------------------------------------------------------------------------
(* The SQL repositories.                                                   *)

(* save_document replaces document_json and clears document_path.          *)
Saved(r, doc) == [r EXCEPT !.doc = doc, !.hasPath = FALSE]

(* update_status with the locator save_document returned.                  *)
StatusSet(r, status) == [r EXCEPT !.status = status, !.hasPath = TRUE]

(* What each await is about to write.                                      *)
(* Mutant: a failure is recorded over the document the job started with.   *)
DocumentToSaveStale(step) ==
    CASE step = "acc_doc"               -> InitialDocument
      [] step \in {"fail_doc", "orph_doc"} -> FailedSnapshot(InitialDocument)
      [] OTHER                          -> document

DocumentToSave(step) ==
    CASE step = "acc_doc"               -> InitialDocument
      [] step \in {"fail_doc", "orph_doc"} -> FailedSnapshot(document)
      [] OTHER                          -> document

StatusToSet(step) ==
    CASE step = "acc_status" -> "pending"
      [] step = "job_status" -> "running"
      [] step \in {"fail_status", "orph_status"} -> "failed"
      [] OTHER               -> document.status

-----------------------------------------------------------------------------
NoPhase == [s \in Sections |-> "gone"]
NoSaves == [s \in Sections |-> NoDocument]

Init ==
    /\ row = [status |-> "absent", doc |-> NoDocument, hasPath |-> FALSE]
    /\ aged = FALSE
    /\ server = "up"
    /\ pc = "idle"
    /\ document = NoDocument
    /\ heartbeat = "none"
    /\ phase = NoPhase
    /\ save = NoSaves
    /\ assembled = {}
    /\ bad = {}
    /\ draft = {}
    /\ rounds = 0
    /\ readyPublished = {}
    /\ announced = <<>>
    /\ lostAck = FALSE
    /\ reaped = FALSE

(* The pipeline's state dies with its coroutine.                           *)
EngineGone ==
    /\ phase' = NoPhase
    /\ save' = NoSaves
    /\ assembled' = {}
    /\ bad' = {}
    /\ draft' = {}
    /\ rounds' = 0

-----------------------------------------------------------------------------
(* The awaits of the request handler and of the job outside the pipeline.  *)

(* gen_repo.create: the row exists from here on, active and without a job. *)
CreateRow ==
    /\ server = "up"
    /\ pc = "idle"
    /\ row' = [row EXCEPT !.status = "pending"]
    /\ pc' \in {"acc_doc", "refused"}
    /\ UNCHANGED <<aged, server, document, heartbeat, engineVars, historyVars>>

SaveReturns ==
    /\ pc \in SaveSteps
    /\ row' = Saved(row, DocumentToSave(pc))
    /\ pc' = AfterSave[pc]
    /\ UNCHANGED <<aged, server, document, heartbeat, engineVars, historyVars>>

StatusCommits ==
    /\ pc \in StatusSteps
    /\ row' = StatusSet(row, StatusToSet(pc))
    /\ pc' = AfterStatus[pc]
    /\ UNCHANGED <<aged, server, document, heartbeat, engineVars, historyVars>>

(* The await on update_status returns, and the events go out at once.      *)
Publish ==
    /\ pc \in PublishSteps
    /\ pc' = IF pc = "orph_pub" THEN "done" ELSE "fin_beat"
    /\ IF pc \in {"fail_pub", "orph_pub"}
       THEN /\ document' = FailedSnapshot(document)
            /\ announced' = Append(announced, "failed")
       ELSE /\ announced' = Append(announced, document.status)
            /\ UNCHANGED document
    /\ UNCHANGED <<row, aged, server, heartbeat, engineVars,
                   readyPublished, lostAck, reaped>>

(* The second await of the handler spawns the job, that of the job starts  *)
(* the heartbeat task and then the pipeline.                               *)
BeatReturns ==
    /\ pc \in BeatSteps
    /\ IF pc = "acc_beat"
       THEN /\ pc' = "job_doc"
            /\ document' = [InitialDocument EXCEPT !.status = "running"]
            /\ UNCHANGED <<heartbeat, phase>>
       ELSE /\ pc' = "engine"
            /\ heartbeat' = "alive"
            /\ phase' = [s \in Sections |-> "unplanned"]
            /\ UNCHANGED document
    /\ UNCHANGED <<row, aged, server, save, assembled, bad, draft, rounds, historyVars>>

(* An await outside the pipeline raises.  What a save was writing may be   *)
(* in the database already; so may a status, if the await was at its       *)
(* publish step or the status was not a terminal one.                      *)
Raise ==
    /\ \/ UNCHANGED row
       \/ pc \in SaveSteps /\ row' = Saved(row, DocumentToSave(pc))
       \/ pc \in {"acc_status", "job_status"} /\ row' = StatusSet(row, StatusToSet(pc))
    /\ lostAck' = (lostAck \/ pc \in PublishSteps)
    /\ pc' = RaisedAt(pc)
    /\ UNCHANGED <<aged, document, engineVars, readyPublished, announced, reaped>>

AwaitRaises ==
    /\ pc \in SaveSteps \union StatusSteps \union PublishSteps \union BeatSteps
              \union {"fin_check"}
    /\ Raise
    /\ UNCHANGED <<server, heartbeat>>

(* update_heartbeat has no guard: a database error ends the loop for good. *)
HeartbeatDies ==
    /\ server = "up"
    /\ heartbeat = "alive"
    /\ heartbeat' = "dead"
    /\ UNCHANGED <<row, aged, server, pc, document, engineVars, historyVars>>

(* Mutant: the heartbeat task is awaited and nobody cancelled it.          *)
JoinHeartbeatUncancelled ==
    /\ pc = "fin_beat"
    /\ heartbeat # "alive"
    /\ pc' = IF heartbeat = "dead" THEN "escaped" ELSE "fin_check"
    /\ heartbeat' = "none"
    /\ UNCHANGED <<row, aged, server, document, engineVars, historyVars>>

(* finally: the heartbeat task is cancelled and awaited.  Awaiting a task  *)
(* that died of an error raises that error again, past the safety net.     *)
JoinHeartbeat ==
    /\ pc = "fin_beat"
    /\ pc' = IF heartbeat = "dead" THEN "escaped" ELSE "fin_check"
    /\ heartbeat' = "none"
    /\ UNCHANGED <<row, aged, server, document, engineVars, historyVars>>

(* Mutants: the safety net overlooks pending rows; it fails every row.     *)
CheckRowPendingMissed ==
    /\ pc = "fin_check"
    /\ pc' = IF row.status = "running" THEN "orph_doc" ELSE "done"
    /\ UNCHANGED <<row, aged, server, document, heartbeat, engineVars, historyVars>>
CheckRowAlways ==
    /\ pc = "fin_check"
    /\ pc' = "orph_doc"
    /\ UNCHANGED <<row, aged, server, document, heartbeat, engineVars, historyVars>>

(* finally: the safety net reads the row again.                            *)
CheckRow ==
    /\ pc = "fin_check"
    /\ pc' = IF row.status \in Active THEN "orph_doc" ELSE "done"
    /\ UNCHANGED <<row, aged, server, document, heartbeat, engineVars, historyVars>>

-----------------------------------------------------------------------------
(* The pipeline, as the job sees it.  The main loop of                     *)
(* run_pipeline_streaming emits a SectionStartedEvent per outlined section *)
(* and only then asks the graph for the next superstep, which runs one     *)
(* task per section.  A task's events go through on_event one at a time:   *)
(* the document is rewritten at once, and its save is awaited before the   *)
(* task goes on.  A failing section is published on the bus and never      *)
(* reaches on_event.                                                       *)

Saving(s) == save[s] # NoDocument

Emit(s, step, doc) ==
    /\ ~Saving(s)
    /\ phase' = [phase EXCEPT ![s] = step]
    /\ document' = doc
    /\ save' = [save EXCEPT ![s] = doc]

EmitStarted(s) ==
    /\ pc = "engine"
    /\ phase[s] = "unplanned"
    /\ \A t \in Sections : ~Saving(t)
    /\ Emit(s, "planned", SectionStarted(document, s))
    /\ UNCHANGED <<row, aged, server, pc, heartbeat, assembled, bad, draft,
                   rounds, historyVars>>

(* The await on save_document returns: its document is in the row, and the *)
(* event is published.                                                     *)
EventSaved(s) ==
    /\ pc = "engine"
    /\ Saving(s)
    /\ row' = Saved(row, save[s])
    /\ save' = [save EXCEPT ![s] = NoDocument]
    /\ readyPublished' = IF phase[s] \in {"ready", "main_ready"}
                         THEN readyPublished \union {s} ELSE readyPublished
    /\ UNCHANGED <<aged, server, pc, document, heartbeat, phase, assembled, bad,
                   draft, rounds, announced, lostAck, reaped>>

FannedOut == \A t \in Sections : /\ phase[t] # "unplanned"
                                 /\ phase[t] = "planned" => ~Saving(t)

(* content_generator fails for good and nothing was generated before.      *)
ContentFails(s) ==
    /\ pc = "engine"
    /\ FannedOut
    /\ phase[s] = "planned"
    /\ phase' = [phase EXCEPT ![s] = "failed"]
    /\ bad' = bad \union {s}
    /\ UNCHANGED <<row, aged, server, pc, document, heartbeat, save, assembled,
                   draft, rounds, historyVars>>

(* A rerender that fails leaves the old content in place and a failed      *)
(* record behind; the section goes on with the old content.                *)
RerenderRecord(s) == IF phase[s] = "rerender" THEN {bad, bad \union {s}} ELSE {bad}

(* schema_validator finds errors: the task returns after its first phase.  *)
SchemaRejects(s) ==
    /\ pc = "engine"
    /\ FannedOut
    /\ phase[s] \in {"planned", "rerender"}
    /\ phase' = [phase EXCEPT ![s] = "parked"]
    /\ bad' \in RerenderRecord(s)
    /\ UNCHANGED <<row, aged, server, pc, document, heartbeat, save, assembled,
                   draft, rounds, historyVars>>

(* The content is there: a first partial snapshot goes out.                *)
EmitFirstPartial(s) ==
    /\ pc = "engine"
    /\ FannedOut
    /\ phase[s] \in {"planned", "rerender"}
    /\ Emit(s, "partial", SectionPartial(document, s))
    /\ draft' = draft \union {s}
    /\ bad' \in RerenderRecord(s)
    /\ UNCHANGED <<row, aged, server, pc, heartbeat, assembled, rounds, historyVars>>

(* Only when required media slots are pending.                             *)
EmitAssetPending(s) ==
    /\ pc = "engine"
    /\ phase[s] = "partial"
    /\ Emit(s, "asset_pending", SectionAssets(document, s))
    /\ UNCHANGED <<row, aged, server, pc, heartbeat, assembled, bad, draft,
                   rounds, historyVars>>

(* The media executors are through: a second partial snapshot goes out.    *)
EmitSecondPartial(s) ==
    /\ pc = "engine"
    /\ phase[s] \in {"partial", "asset_pending"}
    /\ Emit(s, IF phase[s] = "partial" THEN "finalizing" ELSE "drawn",
               SectionPartial(document, s))
    /\ UNCHANGED <<row, aged, server, pc, heartbeat, assembled, bad, draft,
                   rounds, historyVars>>

(* Only when an asset that was pending no longer is.                       *)
EmitAssetReady(s) ==
    /\ pc = "engine"
    /\ phase[s] = "drawn"
    /\ Emit(s, "asset_ready", SectionAssets(document, s))
    /\ UNCHANGED <<row, aged, server, pc, heartbeat, assembled, bad, draft,
                   rounds, historyVars>>

(* section_assembler defers the section (assets still pending) or fails it *)
(* (contract violation).  A section assembled in an earlier round keeps    *)
(* that assembly and takes the other branch.                               *)
AssembleStops(s) ==
    /\ pc = "engine"
    /\ phase[s] \in {"finalizing", "drawn", "asset_ready"}
    /\ ~Saving(s)
    /\ s \notin assembled
    /\ phase' = [phase EXCEPT ![s] = "parked"]
    /\ bad' \in {bad, bad \union {s}}
    /\ UNCHANGED <<row, aged, server, pc, document, heartbeat, save, assembled,
                   draft, rounds, historyVars>>

(* section_assembler and qc_agent are through: SectionFinalEvent.  Media   *)
(* issues may make qc_agent record an assembled section as failed; that    *)
(* record is never read.                                                   *)
EmitFinal(s) ==
    /\ pc = "engine"
    /\ phase[s] \in {"finalizing", "drawn", "asset_ready"}
    /\ Emit(s, "final", SectionFinal(document, s))
    /\ assembled' = assembled \union {s}
    /\ UNCHANGED <<row, aged, server, pc, heartbeat, bad, draft, rounds, historyVars>>

EmitReady(s) ==
    /\ pc = "engine"
    /\ phase[s] = "final"
    /\ Emit(s, "ready", SectionReady(document, s))
    /\ UNCHANGED <<row, aged, server, pc, heartbeat, assembled, bad, draft,
                   rounds, historyVars>>

(* A superstep ends when all its tasks have.  The router then sends some   *)
(* sections that have content back to process_section ("rerender") and     *)
(* others to retry_media_frame or retry_field ("retry").                   *)
Resting(s) == phase[s] \in {"ready", "main_ready", "parked", "failed"} /\ ~Saving(s)

RetryRound ==
    /\ pc = "engine"
    /\ rounds < MaxRounds
    /\ \A s \in Sections : Resting(s)
    /\ \E again, narrow \in SUBSET {s \in Sections : phase[s] # "failed"} :
          /\ again \intersect narrow = {}
          /\ again \union narrow # {}
          /\ phase' = [s \in Sections |-> CASE s \in again  -> "rerender"
                                            [] s \in narrow -> "retry"
                                            [] OTHER        -> phase[s]]
    /\ rounds' = rounds + 1
    /\ UNCHANGED <<row, aged, server, pc, document, heartbeat, save, assembled,
                   bad, draft, historyVars>>

(* A narrow retry emits nothing itself; its output carries the section if  *)
(* it is assembled, now or since an earlier round.                         *)
RetryAssembles(s) ==
    /\ pc = "engine"
    /\ phase[s] = "retry"
    /\ phase' = [phase EXCEPT ![s] = "assembled"]
    /\ assembled' = assembled \union {s}
    /\ UNCHANGED <<row, aged, server, pc, document, heartbeat, save, bad, draft,
                   rounds, historyVars>>

RetryStops(s) ==
    /\ pc = "engine"
    /\ phase[s] = "retry"
    /\ s \notin assembled
    /\ phase' = [phase EXCEPT ![s] = "parked"]
    /\ bad' \in {bad, bad \union {s}}
    /\ draft' \in {draft, draft \union {s}}
    /\ UNCHANGED <<row, aged, server, pc, document, heartbeat, save, assembled,
                   rounds, historyVars>>

(* The main loop emits for the retries' outputs, one output after another. *)
MainEmitFinal(s) ==
    /\ pc = "engine"
    /\ phase[s] = "assembled"
    /\ \A t \in Sections : /\ phase[t] # "main_final"
                           /\ phase[t] = "main_ready" => ~Saving(t)
    /\ Emit(s, "main_final", SectionFinal(document, s))
    /\ UNCHANGED <<row, aged, server, pc, heartbeat, assembled, bad, draft,
                   rounds, historyVars>>

MainEmitReady(s) ==
    /\ pc = "engine"
    /\ phase[s] = "main_final"
    /\ Emit(s, "main_ready", SectionReady(document, s))
    /\ UNCHANGED <<row, aged, server, pc, heartbeat, assembled, bad, draft,
                   rounds, historyVars>>

(* The pipeline returns its result, which replaces the job's document.     *)
EngineReturns ==
    /\ pc = "engine"
    /\ \A s \in Sections : Resting(s)
    /\ document' = ResultDocument(Sections, assembled, bad, draft)
    /\ pc' = "res_doc"
    /\ EngineGone
    /\ UNCHANGED <<row, aged, server, heartbeat, historyVars>>

PlannerFails ==
    /\ pc = "engine"
    /\ \A s \in Sections : phase[s] = "unplanned" /\ ~Saving(s)
    /\ document' = ResultDocument({}, {}, {}, {})
    /\ pc' = "res_doc"
    /\ EngineGone
    /\ UNCHANGED <<row, aged, server, heartbeat, historyVars>>

(* Cancelling the pipeline cancels the saves in flight, and each of them   *)
(* may have been committed, the last one deciding what the row holds.      *)
InFlightCommits ==
    row' \in {row} \union {Saved(row, save[s]) : s \in {t \in Sections : Saving(t)}}

EngineLeft(step) ==
    /\ pc = "engine"
    /\ pc' = step
    /\ InFlightCommits
    /\ EngineGone
    /\ UNCHANGED <<aged, heartbeat, historyVars>>

(* A node, or an event's save, raised.                                     *)
EngineRaises == EngineLeft("fail_doc") /\ UNCHANGED <<server, document>>

(* asyncio.wait_for gives up on the pipeline.                              *)
EngineTimesOut ==
    /\ UNCHANGED server
    /\ IF AllDone(document)
       THEN EngineLeft("race_doc") /\ document' = RaceRecovered(document)
       ELSE EngineLeft("fail_doc") /\ UNCHANGED document

-----------------------------------------------------------------------------
(* The process: graceful shutdown, crash, restart with startup recovery.   *)

(* uvicorn answers open requests first; then asyncio.run cancels every     *)
(* task once, at the await it is at, and waits for all of them.            *)
Shutdown ==
    /\ server = "up"
    /\ pc \notin AcceptSteps
    /\ server' = "stopping"
    /\ \/ /\ pc = "engine"
          /\ EngineLeft("fail_doc")
          /\ UNCHANGED document
       \/ /\ pc \in JobSteps \ {"engine", "fin_beat"}
          /\ Raise
          /\ UNCHANGED heartbeat
       \/ /\ pc = "fin_beat"
          /\ pc' = "fin_check"
          /\ heartbeat' = "none"
          /\ UNCHANGED <<row, aged, document, engineVars, historyVars>>
       \/ /\ pc \notin JobSteps
          /\ UNCHANGED <<row, aged, pc, document, heartbeat, engineVars, historyVars>>

Exit ==
    /\ server = "stopping"
    /\ pc \notin JobSteps
    /\ server' = "down"
    /\ UNCHANGED <<row, aged, pc, document, heartbeat, engineVars, historyVars>>

Crash ==
    /\ server # "down"
    /\ server' = "down"
    /\ pc' = IF pc \in EndedSteps \union {"idle"} THEN pc ELSE "killed"
    /\ InFlightCommits
    /\ document' = NoDocument
    /\ heartbeat' = "none"
    /\ EngineGone
    /\ UNCHANGED <<aged, historyVars>>

(* Time passes: the row is older than the longest job plus a grace period. *)
Age ==
    /\ row.status # "absent"
    /\ ~aged
    /\ aged' = TRUE
    /\ UNCHANGED <<row, server, pc, document, heartbeat, engineVars, historyVars>>

(* Mutants: rows are selected by age alone; pending rows are overlooked.   *)
BootAnyStatus ==
    /\ server = "down"
    /\ server' = IF row.status # "absent" /\ aged THEN "reap_doc" ELSE "up"
    /\ UNCHANGED <<row, aged, pc, document, heartbeat, engineVars, historyVars>>
BootPendingMissed ==
    /\ server = "down"
    /\ server' = IF row.status = "running" /\ aged THEN "reap_doc" ELSE "up"
    /\ UNCHANGED <<row, aged, pc, document, heartbeat, engineVars, historyVars>>

(* lifespan: active rows created before the cutoff are selected.           *)
Boot ==
    /\ server = "down"
    /\ server' = IF row.status \in Active /\ aged THEN "reap_doc" ELSE "up"
    /\ UNCHANGED <<row, aged, pc, document, heartbeat, engineVars, historyVars>>

(* persist_interrupted_generation_failure loads the document only if the   *)
(* row names a path.                                                       *)
ReapSave ==
    /\ server = "reap_doc"
    /\ row' = Saved(row, InterruptedSnapshot(IF row.hasPath THEN row.doc ELSE NoDocument))
    /\ server' = "reap_status"
    /\ reaped' = TRUE
    /\ UNCHANGED <<aged, pc, document, heartbeat, engineVars,
                   readyPublished, announced, lostAck>>

ReapStatus ==
    /\ server = "reap_status"
    /\ row' = StatusSet(row, "failed")
    /\ server' = "up"
    /\ UNCHANGED <<aged, pc, document, heartbeat, engineVars, historyVars>>

(* An error in startup recovery ends the process; the container restarts.  *)
ReapRaises ==
    /\ server \in {"reap_doc", "reap_status"}
    /\ server' = "down"
    /\ \/ UNCHANGED row
       \/ server = "reap_status" /\ row' = StatusSet(row, "failed")
    /\ UNCHANGED <<aged, pc, document, heartbeat, engineVars, historyVars>>

-----------------------------------------------------------------------------
SectionNext(s) ==
    \/ EmitStarted(s)      \/ EventSaved(s)
    \/ ContentFails(s)     \/ SchemaRejects(s)
    \/ EmitFirstPartial(s) \/ EmitAssetPending(s)
    \/ EmitSecondPartial(s) \/ EmitAssetReady(s)
    \/ AssembleStops(s)    \/ EmitFinal(s)      \/ EmitReady(s)
    \/ RetryAssembles(s)   \/ RetryStops(s)
    \/ MainEmitFinal(s)    \/ MainEmitReady(s)

EngineNext ==
    \/ \E s \in Sections : SectionNext(s)
    \/ RetryRound
    \/ EngineReturns \/ PlannerFails \/ EngineRaises \/ EngineTimesOut

JobNext ==
    \/ CreateRow
    \/ SaveReturns \/ StatusCommits \/ Publish \/ BeatReturns \/ AwaitRaises
    \/ HeartbeatDies \/ JoinHeartbeat \/ CheckRow

ServerNext ==
    \/ Shutdown \/ Exit \/ Crash \/ Age
    \/ Boot \/ ReapSave \/ ReapStatus \/ ReapRaises

Next == JobNext \/ EngineNext \/ ServerNext

Spec == Init /\ [][Next]_vars

-----------------------------------------------------------------------------
(* Every await of the job returns or raises, the event loop's clock makes  *)
(* asyncio.wait_for expire, and the container is started again.            *)
AwaitEnds == SaveReturns \/ StatusCommits \/ Publish \/ BeatReturns \/ AwaitRaises

JobFairness ==
    /\ WF_vars(AwaitEnds)
    /\ WF_vars(EngineTimesOut)
    /\ WF_vars(JoinHeartbeat)
    /\ WF_vars(CheckRow)

(* Startup recovery may fail, but not every single time it is tried.       *)
RecoveryFairness ==
    /\ WF_vars(Boot)
    /\ SF_vars(ReapSave)
    /\ SF_vars(ReapStatus)

FairSpec == Spec /\ JobFairness /\ RecoveryFairness

-----------------------------------------------------------------------------
PhaseNames == {"gone", "unplanned", "planned", "rerender", "partial",
               "asset_pending", "finalizing", "drawn", "asset_ready", "final",
               "ready", "parked", "failed", "retry", "assembled",
               "main_final", "main_ready"}

TypeOK ==
    /\ row \in Row
    /\ aged \in BOOLEAN
    /\ server \in {"up", "stopping", "down", "reap_doc", "reap_status"}
    /\ pc \in {"idle"} \union AcceptSteps \union JobSteps \union EndedSteps
    /\ document \in Document
    /\ heartbeat \in {"none", "alive", "dead"}
    /\ phase \in [Sections -> PhaseNames]
    /\ save \in [Sections -> Document]
    /\ assembled \subseteq Sections
    /\ bad \subseteq Sections
    /\ draft \subseteq Sections
    /\ rounds \in 0..MaxRounds
    /\ readyPublished \subseteq Sections
    /\ announced \in Seq(Outcomes)
    /\ lostAck \in BOOLEAN
    /\ reaped \in BOOLEAN

(* The stream-ending events of _run_generation_job: at most one outcome is *)
(* published, and the row says the same from then on, whatever fails,      *)
(* stops or restarts later.                                                *)
AnnouncedIsFinal == announced # <<>> => announced = <<row.status>>

(* A section whose SectionReadyEvent a client saw is in the document of    *)
(* the finished generation, although the events' saves reach the row in    *)
(* any order and the result document replaces them all.  Startup recovery  *)
(* is the exception: it can drop them.                                     *)
ReadySectionsKept ==
    row.status \in Outcomes /\ ~reaped => readyPublished \subseteq row.doc.sections

(* Document and status are written by separate transactions, the document  *)
(* first; a terminal row never shows the document of another outcome,      *)
(* unless a committed status update was reported as failed.                *)
DocumentMatchesRow ==
    row.status \in Outcomes /\ ~lostAck => row.doc.status = row.status

(* A generation reported as completed has every outlined section, none of  *)
(* them partial or failed, on the normal path and on the timeout race.     *)
CompletedIsComplete ==
    row.status = "completed" /\ ~lostAck =>
        /\ row.doc.sections = Sections
        /\ row.doc.manifest = Sections
        /\ row.doc.partial = {}
        /\ row.doc.failed = {}

(* The finally block: a job that runs to its end leaves no active row.     *)
FinishedJobSettlesRow == pc = "done" => row.status \in Outcomes

(* The timeout race: when the deadline expires after the last section      *)
(* became ready, the generation is not failed, even if the last save is    *)
(* still in flight.                                                        *)
AllReady == \A s \in Sections : phase[s] \in {"ready", "main_ready"}
LateTimeoutSpares == [][EngineTimesOut /\ AllReady => pc' = "race_doc"]_vars

(* A job ends: the deadline, the handlers and the finally block bound it.  *)
JobEnds == pc \in JobSteps ~> pc \in EndedSteps

(* An abandoned active row past the cutoff is failed by some restart, if   *)
(* the process keeps being restarted.                                      *)
AbandonedRow == row.status \in Active /\ aged /\ pc \in EndedSteps
AbandonedRowReaped ==
    []<>(server = "down") => (AbandonedRow ~> row.status \in Outcomes)

(* The job, the pipeline, the crashes and startup recovery implement what  *)
(* clients are promised about one generation.                              *)
Lifecycle == INSTANCE GenerationLifecycle WITH status <- row.status
ImplementsLifecycle == Lifecycle!Spec

-----------------------------------------------------------------------------
(* What the repository says and the code does not do.                      *)

(* Startup recovery keeps the sections the row's document already has:     *)
(* _failed_document_snapshot copies the existing document.                 *)
ReapKeepsSections ==
    [][ReapSave => row.doc.sections \subseteq row'.doc.sections]_vars
=============================================================================
