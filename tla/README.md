# Verification of the textbook generator

TLA+ models of the generation service in `backend/src`, of the page on which a teacher builds a brief
and of the page that follows a generation live,
model-checked with TLC and, where said so, proved with TLAPS. Paths below are relative to `backend/src` unless they start with `docs/`,
`frontend/` or `tests/` (of `backend/`).

## The system

The backend is one process (uvicorn with one worker) with one asyncio event loop in front of a SQL
database. A teacher's brief is turned into a generation: a row in `generations`, a background task
that runs a LangGraph pipeline with one task per section, a document that grows as the sections
arrive, and an event stream the browser follows. Code between two `await`s is atomic; everything
below that is hard happens at the `await`s.

| component | state | operations | interacts with |
|---|---|---|---|
| Admission (`generation/service.py` `enqueue_generation`) | the user's active rows | count, refuse or create the row, spawn the job | repositories, job |
| Generation job (`generation/service.py` `_run_generation_job`) | in-memory document, heartbeat task | save, commit status, run the pipeline under a deadline, `on_event`, timeout race, failure handlers, `finally` safety net | repositories, event bus, pipeline (callback `on_event`) |
| Repositories (`generation/repositories`) | the `generations` row: status, `document_json`, `document_path`, `created_at`, heartbeat | `create`, `save_document`, `update_status`, `update_heartbeat`, `count_active_by_user` | database |
| Startup recovery (`app.py`, `generation/recovery.py`) | none | select stale active rows, rewrite document and status | repositories |
| Event bus (`core/events.py`) | a queue per subscriber | subscribe, publish, unsubscribe | job, pipeline, streams, telemetry |
| Event stream (`_stream_generation_events`) | a queue, the row as last read | subscribe, read, drain, wait, keep-alive re-read | bus, repositories, browser |
| Pipeline (`pipeline/run.py`, `graph.py`, `routers`, `nodes`) | `TextbookPipelineState`: outline, channels with assembled / failed / partial sections, reports, requests, retry counts | planner, fan-out, section flow, router, retries, result | bus (directly), job (through `on_event`) |
| Media (`pipeline/media`) | slots and frames of a section | plan, execute, retry, block, put into the section | pipeline |
| Runtime limits and progress (`pipeline/runtime_*.py`) | semaphores, what is queued and running | start and finish a section, a node, a retry | pipeline, stream |
| LLM runner (`core/llm/runner.py`) | attempts of a call | try under a time limit, back off, give up | providers, bus |
| Telemetry (`telemetry`) | recorders, the global queue, reports | consume the bus, finalise, backfill | bus, repositories |
| Planning (`planning`, `pipeline/resources`) | none; a request's plan | compose, validate, repair, fall back, enrich, route visuals, commit | LLM runner, pipeline |
| Browser (`frontend/src/lib/generation`, `GenerationView.svelte`) | the shown document and signals | load, merge events, reconnect, revalidate, finalise | stream, repositories |
| Brief builder (`frontend/src/lib/components/brief/TeacherBriefBuilder.svelte`) | the brief, the active and completed steps, the validation and the plan shown, one loading flag | edit a step, resolve, validate, review, plan, commit | planning routes, admission |
| PDF export, auth, profile, shares, health, migrations, CLI | rows, files | request-response | database |

What is hard in it:

- the section tasks share the job's document and each awaits its own save of it, so saves land in
  any order, and the one that ends the generation must make up for that;
- document and status are two transactions, and the outcome is published after both; any of the
  awaits may raise (possibly after its commit) or be cancelled, in the body, in an `except` handler
  or in `finally`;
- the deadline of `asyncio.wait_for` races the last section;
- the process may die at any point and recovery at the next start knows only the row;
- a client may connect, read and wait while the outcome is being committed and published;
- one user's requests overlap between the count of active rows and the creation of a new one;
- the tasks of a superstep work on copies of the state and their writes meet in the channels
  afterwards, while the router runs after each task on what that task saw;
- tasks hold one limiter's slot while they wait for another's, and their model calls are retried,
  timed out and cut off;
- the telemetry monitor is behind the bus by any number of events, its saves may fail, and it is
  stopped with events still queued;
- a plan is validated, and then changed by two more models;
- the answers of the brief builder's requests meet a brief that was edited since, and the answer to a
  commit may be lost while its handler goes on;
- a browser misses events whenever it is not connected, and its refresh is two requests.

What makes each part correct: a generation has one outcome, and clients hear that one or read it
(job, stream); the document of a finished generation has what clients saw become ready, and
"completed" means complete (job, pipeline); jobs and streams end (job, stream); a row no job works on
is eventually settled (recovery); the limit on concurrent generations holds as far as it can
(admission); a run leaves a retry owed only where duplicates of a section hid it from every router, and
accounts for every section (section graph); no slot is
lost and every task leaves (limits); a report never says more than row and document hold (telemetry);
a plan that comes back was checked and what it places is drawn (planning); a view shows what the row
holds and ends when the generation does (browser); a brief that is planned was found ready, and a plan
is generated once (brief builder).

## Modules

`GenerationDocument` — the document and the pure functions that rewrite it: the reducers `on_event`
applies, the guard and the result of the timeout race, the pipeline's terminal status, the snapshots
failure handlers and recovery write. A list of sections is the set of ids in it: every reducer
replaces the entry with the same id or appends one, and the closing sort by manifest position only
orders what is shown.

`GenerationLifecycle` — the abstract specification: a row goes from pending to running to an outcome,
and at most one outcome is announced, the committed one. `Revise` is the one liberty taken: a job
that was told its last commit failed may fail the generation as long as nothing was announced.

`GenerationJob` — one generation from its row's creation on. `pc` is the await the request handler or
the job is at (`res_*` the result, `race_*` the timeout race, `fail_*` the failure handlers, `fin_*`
and `orph_*` the `finally` block; `*_doc` saves a document, `*_status` commits a status, `*_pub` has
committed a terminal one and is about to publish it). `SaveReturns`, `StatusCommits`, `BeatReturns`
and `Publish` are those awaits returning, `AwaitRaises` is any of them raising, with or without its
write in the database. `phase[s]` is the last thing the task of section `s` did, `save[s]` the
document it is saving. `Emit...`, `ContentFails`, `SchemaRejects`, `AssembleStops` and the retries
follow `process_section`, `section_runner` and the main loop of `run_pipeline_streaming`. `Shutdown`,
`Crash`, `Boot` and `Reap...` are the process. `GenerationJobInv` is the inductive invariant `IInv`
behind its safety properties.

`EventStream` — extends `GenerationLifecycle`, which is its environment, with clients: `Connect`
(subscribe), `ReadRow`, `Forward`, `Drained`, `KeepAliveExpires`, `Recheck`, `Disconnect`. That the
job implements the lifecycle is what connects it to `GenerationJob`. Its events are pairs of a type
and a subject; what is not an outcome is a constant, so that `ClientStream` can say which section
events there are.

`Admission` — the requests of one user: `Count`, `Create`, `SpawnJob`, `EnqueueRaises`, the jobs'
ends, restarts.

`BriefBuilder`, `Studio` — `BriefBuilder` is the teacher's page: one action per handler
(`TopicSubmit`, `SelectGrade`, `SelectOutcome`, `EditStep`, ...), guarded by what the page shows and
enables, and one per answer (`ResolveAnswered`, `ValidateAnswered`, `ReviewAnswered`, `PlanAnswered`,
`CommitAnswered`, `Fails`). A request carries the brief it was made with. Which supports are recommended
and which briefs are ready are constants, as the server and a table decide them. `raced` is a history
variable: the brief was changed while a request was under way. `Studio` extends `Admission` with the
page that commits a plan (`CommitPlan`, `Accepted`, `Refused`, `AnswerLost`, `PlanAnew`) beside the
user's other requests.

`SectionFlow`, `SectionGraph` — the pipeline's graph. A section's entries in all channels of the state
are one record; `SectionFlow` has, for every node, the set of records it may leave (one for each
answer of the models it calls), composes them to `process_section`, `retry_field` and
`retry_media_frame`, and has `route_after_qc` for one section as `Owed`. `SectionGraph` runs them in
supersteps: `PlanOutline` (planner and `fan_out_sections`), `RunTask` (a task runs on the copy it was
sent; its writes go through the channels' reducers, `Merge`; its router may send more), `EndSuperstep`,
`Cancel`. Tasks of a superstep see nothing of each other, so that running them one after the other,
each from its own copy, loses no outcome. `ran` is a history variable: how many tasks of a section ran
in the superstep (none, one, or more). No action reads it.

`Limiter`, `LlmCall`, `RuntimeProgress` — the tasks of a superstep at work. `Limiter` is
`asyncio.Semaphore` as the run uses it (a released slot is handed to the first waiter, which runs
later). `LlmCall` is `run_llm`: attempts under a limit, what is worth another one, the pause, the
events. `RuntimeProgress` composes them with the tracker: a task takes the section's slot, its
executors the media slots, quality control its own, each a `Job` with a `pos` and a model call;
`EndNode` and `Leave` release and tell the tracker in one step, as no other code runs in between.

`ReportRecorder`, `Telemetry` — `ReportRecorder` has the report as a record with an entry per section
and one operator per event of `telemetry/recorder.py` that decides a status, and finalisation and
backfill. `Telemetry` puts it behind a queue: the job saves and publishes, `Handle` applies one event
and saves the report, `Finalize` closes the recorder, saves fail, the server drains, stops, ends and
starts again (`MarkStale`, `Backfill`).

`ResourceTemplates`, `PlanRules`, `MediaPlan`, `Planning` — the tables of what a teacher may order;
the rules that resolve roles, choose and place sections, fall back and validate; the way of a planned
section to slots, frames and pictures; and the request itself: `Compose` (with one repair), `Enrich`,
`Route`, `FallBack`, `Commit`, `PlanMedia`, `DrawAll`, `DrawOne`, `DrawNothing`, `AssembleSection`. A
model's answer is any of a set of well-formed drafts with at most one of six flaws. `MediaReport` is
what the telemetry recorder makes of the plan's slots and of each frame's outcome; the run feeds it
what the executors tell (`told`).

`ViewerState`, `ClientStream` — the studio's lesson view. `ViewerState` has the pure reducers of
`viewer-state.ts` and `live-stream.ts`; `ClientStream` extends `EventStream`, the server's half of the
connection, with the job's section events and the view: `Load`, the two answers of a refresh and its
four continuations (`Refreshed`, `RefreshFails`), `Opens`, `Deliver`, `Breaks`, `ConnectFails`,
`Reconnect`, a hidden tab, and the server's death.

`*_proofs` — the theorems. `MC*` — the instances for TLC. Operators whose comment begins with "Mutant"
are slips a plausible change could introduce; each property is violated when one of them replaces the
definition it stands next to, and none of them is part of a specification.

## Runs

| run | instance | shows |
|---|---|---|
| `job` | 2 sections, 1 retry round | `IInv` (types included); `AnnouncedIsFinal`: one outcome at most is published and the row keeps it; `ReadySectionsKept`: what clients saw become ready is in the finished document; `DocumentMatchesRow`; `CompletedIsComplete`; `FinishedJobSettlesRow`; `LateTimeoutSpares`: a deadline after the last ready section does not fail the generation; `ImplementsLifecycle`: refinement; `JobEnds`; `AbandonedRowReaped` |
| `admission` | 4 requests, limit 2, symmetric, 1 lost answer | `OnlyOverlapExceedsLimit`; `OneJobPerPlan`: a plan is generated once, plus once for each answer to its commit that was lost |
| `section_graph` | 2 sections, 2 media slots in all, 1 rerender, supersteps of up to 4 tasks | `OnlyDuplicatesLeaveOwed`: a run ends with a retry owed to a section with a media plan only if several tasks of that section ran in the last superstep; `OnlySchemaFailureVanishes`: a planned section is assembled, waiting, or recorded as failed, unless its schema failed; types |
| `section_retries` | 1 section, 3 kinds of media, 2 rerenders, 5 verdicts | `LeftWaitingIsSpent`: a draft that still waits at the end has spent a slot's retries; `EndsUnlessUncounted`: a run ends unless it regenerates content without counting |
| `runtime` | 2 tasks, 2 executors, 1 slot per limiter, 2 attempts | `SlotsAreKept`, `SoleTaskIsShown`, `StartsAreSettled`, `EveryTaskLeaves`, types |
| `telemetry` | 2 sections, 3 attempts, a lag of 1, 1 failing save | `ReadyIsKept`, `ReportFollowsRow`, `OutcomeIsTrue`, `OutcomeIsLast`, `EndReachesReport`, types |
| `planning` | every resource type, depth and outcome, 3 sets of supports (too broad a brief: none of them); 6 flaws | `ReadyIsPlannable`, `ReturnedIsChecked`, `PlacedIsDrawn` |
| `builder` | one value of most fields, 2 outcomes, a profile with and without notes | `OneAtATime`: the page has one request under way at most and knows when; `OnlyRacesGetPast`: what is planned was found ready, unless the brief was changed while a request was under way |
| `client` | 1 view, 1 section, 2 faults, 1 reconnect, a queue of 1 | `OutcomeNotMissed`: no stream waits for an outcome that is gone; `ToldTheOutcome`: a connection is told one outcome, the row's; `ViewFollowsRow`, `FinalizedShowsRow`, `SlotsStay`, `ViewEnds`, types |
| `reap`, `bounded`, `outcome` | see below | counterexamples |

Why these bounds are enough:

- `job`: two sections are the smallest number with a save of one section overtaking another's, with
  one section failed and one ready, and with a superstep that waits for a slower task; sections only
  interact through the shared document and the superstep's end. One retry round lets a section be
  written again after it was ready, with the other one resting. `MaxRounds` is a bound of the model:
  the code has counters that are meant to bound the rounds, but see `bounded` below. `SectionCount`
  equals the number of outlined sections in the runs, the case in which "completed" is possible; the
  theorems hold for any.
- `admission`: four requests against a limit of two have two overlapping admissions beside two that
  do not overlap, and a plan that is refused, committed again, lost and committed once more while a
  request of another tab is served. `MaxLost` is a bound of the model; the property counts with it.
- `builder`: of the two outcomes one makes the brief ready and the other does not, which is all the
  page learns of readiness; every other field can be set and unset. The theorems hold for any values.
- `section_graph`, `section_retries`: sections only meet in the router and the channels, for which two
  are enough; that a superstep has at most `MaxTasks` tasks cuts off further duplicates of the same
  two sections. Retries and the kinds of media concern one section each and are explored with all
  three kinds and with verdicts of none, one text block, two blocks and a media block. Within the
  bounds of `section_graph` duplicates do run in last supersteps, but what they leave is owed nothing:
  that takes the richer verdicts or the third rerender described below, with which the states are too
  many for a complete run. The theorem has no such bound.
- `runtime`: with one slot of each kind and two tasks, whose four executors and two quality controls
  compete for them, every combination of holding one and waiting for another occurs.
- `telemetry`: `MaxLag` bounds a queue that has no bound in the code; with one event between job and
  monitor every event is handled late with respect to the document. Three attempts let one section
  fail or be retried while the other goes on.
- `planning`: `MCPlanning` has every template with every limit of sections and visuals; drafts are of the fewest and of the most sections allowed and of too few.
- `client`: reducers and signals are per section, so one section has every interleaving of its events
  with refreshes; two faults make a break during a reconnect, or a failing refresh after one.

Deadlock is checked in `job`, `admission` and `builder`; the other systems stop when their run,
their request or their view is over.

### Fairness

`GenerationJob!FairSpec`: each await outside the pipeline returns or raises, and the job goes on (the
event loop runs every ready task, and database calls end or time out); `asyncio.wait_for` expires, so
no fairness is asked of the pipeline. Startup recovery's two writes are strongly fair, as they may
fail at one start but not at every start; that the process is restarted again and again is a
hypothesis of `AbandonedRowReaped`, not an assumption. `SectionGraph!FairSpec`: tasks and supersteps
end, as their calls have time limits. `RuntimeProgress!FairSpec`: the event loop always runs something
that can run; nothing is asked of a particular task, nor of limits that cut calls off.
`Telemetry!FairSpec`: the monitor's task is scheduled; nothing is asked of the job.
`ClientStream!FairClientSpec`: requests are answered, timers fire (the stream's keep-alive included), a
hidden tab is shown again and the stream is served; nothing is asked of the job.

### What the counterexamples say

- `reap`: `save_document` sets `document_path` to NULL, `on_event` does not set it again, and
  recovery loads the existing document only if it is set. A generation that dies inside the pipeline
  is reaped to an empty document although its ready sections are in the row
  (`generation/recovery.py:71`).
- `bounded`: a section whose report has blocking issues for two blocks, or for a media block whose
  frames are ready, is regenerated for ever. `qc_agent` clears the rerender request in these cases,
  `route_after_qc` sends `process_section` because of the issues, and `content_generator` counts a
  rerender only when there is a request (`pipeline/nodes/content_generator.py:485`). LangGraph's
  recursion limit or the job's deadline ends it. `EndsUnlessUncounted` says that this is the only way
  not to end.
- `outcome`: the report of a completed generation never gets an outcome. The application's
  `load_document` answers None unless a test overrides the repository, and `finalize_success` raises
  on it (`app.py:168`, `telemetry/service.py:285`, `telemetry/recorder.py:1024`).

### What the models make visible beside that

No run is spent on these; each is a behaviour of the models that the code has.

- Only rows older than the cutoff are reaped, so a freshly interrupted generation stays active after
  the restart (`app.py:123`).
- A database error ends the heartbeat task; awaiting it in `finally` raises the error again, past the
  safety net (`generation/service.py:1357`).
- The timeout's guard counts failed sections of a document that no failed section ever reaches: the
  event for them goes to the bus only (`generation/service.py:1274`).
- Requests that overlap pass the count together (`generation/service.py:1425`); requests that raise
  after creating their row leave it pending without a job and lock the user out
  (`generation/service.py:1448`).
- Parallel executors of a section each return the results they started with beside their own, and the
  merge keeps the last one's: frames already made are made again by a retry
  (`pipeline/nodes/section_runner.py:435`). All media executors of a section share one tracker entry.
- Exhausted media of a section that no retry looks at again is never recorded as blocked; the section
  stays a draft (`pipeline/graph.py:280`). A section whose schema fails in the first superstep and is
  not retried ends in no list.
- A run can end with a section that is owed a retry. A section may be sent twice in one superstep, and
  each task's router sees the channels without the other task's writes (`pipeline/routers/qc_router.py:134`).
  One duplicate may record a rerender request while its frames are failed and cannot be retried; the
  other makes the frames ready and leaves the request alone; merged (`pipeline/state.py:36`), the section
  has ready frames and a request which no router ran to see. With three rerenders, as in strict mode, a
  duplicate that started from an older copy can also set the count of rerenders back
  (`pipeline/state.py:218`), so that the last of them is owed again. Random walks of the model with these
  bounds reach both. `OnlyDuplicatesLeaveOwed` says that there is no other way.
- A limit around a row of attempts leaves the last `llm_call_started` without an answer in the events
  (`pipeline/nodes/diagram_generator.py:460`).
- Enrichment can take back the only check a plan was validated for; the fallback's spec may break
  rules the validator blocks (its focus sections group terms differently from its composition).
- A section the visual router leaves out for lack of budget, or a compare or process section that used
  it up first, may hold a diagram block without a placement: it waits for assets nobody makes
  (`pipeline/nodes/section_assembler.py:120`).
- A brief that is not ready gets planned if it is edited while its validation is under way: the verdict
  that arrives is about the brief that was sent, and enables the plan button for the one on the page
  (`TeacherBriefBuilder.svelte:404`). The answer to a grade's topic resolution overwrites a profile and a
  summary edited in the meantime (`TeacherBriefBuilder.svelte:304`), and a plan that arrives after the
  teacher went back to a step is shown all the same (`TeacherBriefBuilder.svelte:438`).
- A commit whose answer is lost leaves the plan on the page; committing it again starts a second
  generation, as nothing in the request identifies the plan (`api/teacher-brief.ts:64`).
- The textbook page (`frontend/src/routes/textbook/[id]/+page.svelte:300`) revalidates once after an
  error and then says "reconnecting" for good; the view modelled here is the studio's.
- A section's signal survives the refresh that made it moot, so after a timeout a slot may say
  "generating" for good; a refresh may pair a terminal status with an older document.

## Theorems

TLAPS proves these for every value of the constants: any set of sections, section count, number of
retry rounds, clients, requests, limits, policies, delays of the monitor, sets of verdicts and tables of
the brief builder. The assumptions are those the modules name: the sets are finite, section count and
limits are positive, bounds are natural numbers, an event is a pair that names no outcome. In each
proof an inductive invariant is a conjunction of named parts, every action has a lemma of its own, and
each property follows from the invariant at the end of the module.

`GenerationJob_proofs`, about `GenerationJob`:

- `TypeCorrect`. Types need one fact beyond themselves: publishing appends the document's status to the
  outcomes, so `TypeInv` adds that the document is terminal from the moment there is a result until it is
  published (`ResultIsTerminal`).
- `AnnouncedIsFinalHolds`, `FinishedJobSettlesRowHolds`, from `TypeInv` and `StatusInv`, which fixes for
  every await what the status column says (`RowStatusAt`), that nothing is announced before the last
  commit (`AnnouncedLast`), when a commit may have been misreported (`LostAckLate`), and that no job runs
  beside startup recovery (`ServerAlone`);
- `JobImplementsLifecycle`: the refinement of `GenerationLifecycle`, one lemma per group of actions;
- `JobInvariant`, all of `IInv`, and from it `DocumentMatchesRowHolds`, `ReadySectionsKeptHolds`,
  `CompletedIsCompleteHolds` and `LateTimeoutSparesHolds` (the last for a non-empty set of sections).
  None of the four is inductive: the last write before a terminal status is what matters, so
  `DocumentInv` says at each await what the row holds between its document's save and its status
  (`WrittenDocument`), that published sections are in the job's document (`ReadyInDocument`) and, while
  the pipeline runs, that those of the document are in `assembled`, which the result is made of
  (`EngineDocument`). That a "completed" result or timeout race is complete is a counting argument
  (`CompletedResultDocument`, `RaceIsComplete`): a set of sections as large as the outline is the
  outline, and a document with a section is past its fan-out (`AllPlanned`).

`EventStream_proofs`: `StreamTypes`, `NoOutcomeMissed` and `ToldOnce`. `OutcomeNotMissed` needs only
that what was announced is in the row (`LifecycleInv`). `ToldTheOutcome` needs to know of everything a
stream may end on that it is the row's outcome: the events that wait in queues (`QueueInv`), the
status read before the drain (`ReadInv`), and that a listening stream has told nothing yet
(`ToldInv`). The invariant is a conjunction over clients (`ByClient`), so each step of a stream is
proved for its client alone (`OneClient`), and the two steps that touch all queues use what
publishing does to one (`PublishQueues`).

`Studio_proofs`: `OnlyOverlapExceedsLimitHolds`, whose invariant is inductive once types are known:
only an admission that overlaps no other adds to what is counted, and that one compared a larger set
with the limit. `StudioKeepsTheLimit` is the same of the composition with the page, whose steps are
the server's or leave it alone. `OneJobPerPlanHolds` is a counting argument: besides the commit the
page waits for and the one it shows as accepted, every commit of the plan that has started a job, or
still can, is one whose answer was lost (`PageInv`).

`SectionGraph_proofs`:

- `TypesHold`. A task carries a copy of its section's record from the superstep in which it was sent;
  `TypeInv` says of every task, sent or running, that its copy is a record the nodes can leave behind
  (`RecordOK`) and that the retry it asks for is one its plan has (`TaskOK`).
- `OnlySchemaFailureEverVanishes`, from `AccountedInv`: a section that has been written has a draft, an
  assembly, a failure or an error of its schema, in the channels or in the record of a task under way.
- `LeftWaitingIsAlwaysSpent`, from `RetryInv`. The hard part is stale copies: two tasks of one section in
  a superstep start from different copies, and the merge of their results can bring back frames and
  retry counts that are no longer true. What saves the property is that a section that was never
  assembled is only ever retried by tasks whose copy is the channel's up to the superstep's own writes
  (`CopyOK`, `SentTo`), that until a frame of it was tried nothing makes a simulation while an image is
  needed (`ChannelOK`), and that a retry which does not end the section leaves what it tried ready or
  spent (`Retried`). That the router's list of due sections exists and is ordered
  (`AscendingExists`) is proved for sets of any size by a smallest counterexample (`LeastOf`), as
  induction over a set is out of reach.
- `OnlyDuplicatesEverLeaveOwed`, from `OwedInv`. A silent router vouches for every section it saw; while
  the whole superstep is silent, a section that at most one task worked on is owed nothing in the channels
  to come, since what that task's router saw, or any other's, is what the channels become. It needs that a
  superstep that is over had a task, or nobody would have looked.
- `ResultIsAlwaysTheJobs` and `NothingIsTakenBack` are about what `GenerationJob` takes for granted of the
  graph. Its result document (`ResultDocument`) is the graph's: that one leaves out the code's condition
  that a run without a section or a draft has an error or a failed section, which is implied because
  only a failed schema vanishes. And while a run goes on, a section once assembled, failed or drafted
  stays so, whatever older copies its tasks started from (`RetryInv`). No run checks these two.

`RuntimeProgress_proofs`: `InvHolds`, and from it `TypesHold`, `SlotsAreAlwaysKept`,
`StartsAreAlwaysSettled` and `SoleTaskIsAlwaysShown`. For any number of jobs, a limiter's waiters are
exactly the jobs at "waiting", each of them once, and its capacity is what is free, handed over or held
(`LimiterInv`); where a task stands says where its executors and its quality control can be
(`PartsFollowStage`), which is what keeps a job from waiting or holding twice; a call's attempts are
counted and settled one by one (`CallIsCounted`). What the tracker shows of a section is only right
if one task works on it, so the last property compares it with that task's parts (`ShownAt`,
`RetryShown`).

`Telemetry_proofs`: `InvHolds`, and from it `TypesHold`, `ReadyIsAlwaysKept`, `ReportAlwaysFollowsRow`,
`OutcomeIsAlwaysTrue` and the action property `OutcomeIsAlwaysLast`, for any delay between job and
monitor. Row, events that are still queued, recorder and saved report say the same thing at four
moments; the invariant orders them: `DocInv` (row and document), `ReadyInv` (whoever calls a section
ready has it from the document), `EndInv` (an end is told once, by the last event, then by the
recorder, then by the report), `OutcomeInv` (nobody is left who would change a report with its
outcome) and `ServerInv` (a process that is gone took its job, queue and recorder with it).

`Studio_proofs`, about the page alone: `OneAtATimeHolds` and `OnlyRacesGetPastHolds`. Their invariant adds
that a verdict on the page is about the brief on the page unless it raced (`ValidationInv`), which every
edit keeps because it withdraws the verdict, that none is shown while subtopics are resolved (whose
answer changes the brief and withdraws nothing), and that the flag and the requests under way agree
(`FlagInv`), which the disabled buttons keep; a request's answer is then the only one there can be.

`ClientStream_proofs`: `ClientInvariant`, and from it `ViewTypes`, `ViewFollows`, `FinalizedShows`, the
action property `SlotsNeverReopen`, and `ConnectionPromises`, the two promises of `EventStream` for the
composition. They hold for any number of sections, faults and other clients and any lag. The row, the
events still to be published, those in the view's queue and the view itself are four accounts of one
job, and none of the three properties about the view is inductive. `ViewFollowsRow` speaks of an empty
queue, so `FollowInv` says at any moment what the view lacks of a section: exactly what the events on
their way still tell (`Shows`), which needs that the events about one section follow on each other
(`ChainInv`) and that the document is what the stages say (`DraftInv`). It holds of the answer to a
request as well (`Base`), as a view that loads or revalidates will fold the same events into that
document. `SlotsStay` needs that no document the view may load knows less of a ready section than the
view does (`KeptInv`; the one exception is a document a restart replaced), and that after a failure only
media reports follow (`SignalInv`). Queues are proved about through the first event of a section after
a position (`First`), with lemmas on what appending to a queue and taking its head make of it.
`EventsAssumption` is all this adds to `EventStream`: besides outcomes, the job of this composition
publishes its sections' events only.

`Planning_proofs`: `PlansWhatIsReady`, `ChecksReturned` and `DrawsWhatIsPlaced`, for all briefs of
`BriefShape`, broad ones included, any list of supports and number of subtopics, any contents of a
section and number of frames (`BriefsAssumption`, `ContentsAssumption`, `FlawsAssumption`).

- `ChecksReturned`, from `PlanInv`: the roles are those resolved for the brief, every plan is well
  formed (`IsPlan`) and can be looked up (`IsBuilt`), and a model's plan has no fault but "check". Drafts
  of a model need not be built, so `IsBuilt` of an accepted one follows from its having no fault
  (`FaultlessIsBuilt`), that of a fallback from the tables (`FirstTwoAre`); enrichment and routing change
  nothing a fault is about except the check (`FaultsKept`).
- `DrawsWhatIsPlaced`, from `DrawingInv`: the slots agree with the outline and the executors
  (`SlotAgrees`), results have one entry per frame, and the recorder lags behind in one way only: what
  it calls planned has no result yet. `Further` says what any report does to what it was told before;
  each executor's report is proved to be such a step.
- `PlansWhatIsReady` gives the plan: `Chosen` names its roles for each type and depth, `ChosenSuits`
  that the template offers them in a number it allows, `ListedOnce` that their positions in the resolved
  list yield them once each, `MadeIsMet` that the plan made of them has none of the faults.

Lists are proved about by position, not by induction: `Nth` is the position with a given rank, which
exists by a least one (`NthIs`), and the library's `FlattenSeq` and its like are typed by a smallest
counterexample (`Flattened`).

Model-checked only: liveness (`JobEnds`, `AbandonedRowReaped`, `EndsUnlessUncounted`, `EveryTaskLeaves`,
`EndReachesReport`, `ViewEnds`), which is out of the prover's reach.

## What is not modelled

Left out of the modelled parts:

- job: `qc_agent`'s failed record of a section that is assembled, which nothing reads; a commit that
  reaches the database after its task was cancelled and the job has written again; a kill during
  graceful shutdown, which is `Crash`; request handlers finish before a graceful shutdown cancels the
  jobs; `FailedSectionEvent`'s branch in `on_event`, which no caller reaches; two tasks of one section
  in one superstep, which `SectionGraph` has, and whose events would interleave;
- section graph: prompts, texts and frames' contents; LangGraph's recursion limit;
- limits: the counts of finished sections and the merging of equal snapshots; one model call stands
  for a node's row of calls; the image executor has its own limit and no `run_llm`; content calls; the
  cancellation of a whole run, which drops its limiters; the policy's environment variables;
- telemetry: the save of a section's document and the publication of its event are one step here
  (`GenerationJob` separates them); the row and document of a failure commit as one; media decisions,
  model usage, timeline, summary figures and the trace registry; start and stop of recorders outside
  the monitor;
- planning: what topic resolution, review and feasibility checks answer, directives, bridges, titles, prompts;
  visuals on hooks, practice problems and worked examples, which no plan of this code places; the
  planner's own outline when no plan was committed; that the commit route accepts briefs
  `validate_brief` calls blocked;
- brief builder: suggestions, warnings and messages; `recommendedSupports`, which is only shown; how
  the learners' summary is composed (it is named by its profile); limits on the length of texts;
- browser: the textbook page, navigation from one generation to another, progress and quality counts,
  the slots a document without manifest gets; what assets a draft waits for, so that a slot shown from a
  draft alone has two possible statuses (`SlotStatuses`);
- wording, timestamps, error codes and quality flags.

Not modelled at all: prompts, providers, rendering, content schemas (data); PDF export (a browser and
files); auth, profile, shares and health routes (single-row requests); migrations; the CLI.

## Plan

1. The events of duplicate tasks in `GenerationJob`, and with them the refinement of its section part by
   `SectionGraph`, event by event.
2. The textbook page beside the studio's view.
