---------------------------- MODULE ClientStream ----------------------------
(***************************************************************************)
(* A lesson view of the frontend, live: it loads the row, follows the      *)
(* generation's stream and folds its events into what it shows, and looks  *)
(* at the row again when the stream faults or ends.                        *)
(*                                                                         *)
(* EventStream is the server's half of the connection; the job that moves  *)
(* sections along is here, as far as its events go.  The view is the       *)
(* studio's (GenerationView.svelte).                                       *)
(***************************************************************************)
EXTENDS EventStream, ViewerState

CONSTANTS
    Reader,                \* the view's own connection
    MaxReconnectAttempts,  \* 3 in the code
    MaxFaults,             \* bound on broken and refused connections, failed
                           \* requests, hidden tabs, lost commits, crashes
    MaxLag                 \* bound on the events in the view's queue

ASSUME ReaderAssumption == Reader \in Clients
ASSUME AttemptsAssumption == MaxReconnectAttempts \in Nat
ASSUME BoundsAssumption == MaxFaults \in Nat /\ MaxLag \in Nat \ {0}

VARIABLES
    \* the job
    doc,       \* the row's document
    stage,     \* the last event of each section's task
    unsent,    \* events whose document is saved and that are not published
    alive,     \* the job runs
    \* the view
    phase,     \* where it stands
    reply,     \* what the refresh under way has been answered
    detail,    \* status of the row the view saw last
    view,      \* the document and signals it shows
    attempts,  \* reconnectAttempts
    faults,    \* faults so far
    missed     \* an event may have passed since the document was read

jobVars    == <<doc, stage, unsent, alive>>
viewVars   == <<phase, reply, detail, view, attempts>>
clientVars == <<vars, jobVars, viewVars, faults, missed>>

Refreshing == {"loading", "revalidating", "refreshing", "finalizing"}
Over       == {"error", "settled", "finalized", "unrefreshed", "lost"}

NoReply == [detail |-> "none", document |-> NoDocument]

(* What a section's task may emit next; a ready section may be written     *)
(* again, and media work may end after its section did.                    *)
Follows ==
    [none                  |-> {"section_started"},
     section_started       |-> {"progress_update"},
     progress_update       |-> {"section_partial", "section_failed"},
     section_partial       |-> {"section_asset_ready", "section_media_blocked",
                                "section_final"},
     section_asset_ready   |-> {"section_final"},
     section_media_blocked |-> {},
     section_final         |-> {"section_ready"},
     section_ready         |-> {"section_partial", "media_frame_ready"},
     media_frame_ready     |-> {},
     section_failed        |-> {"media_frame_ready"}]

SectionEvents == (DOMAIN Follows) \X Sections

(* The job publishes nothing but these and its outcome.                    *)
ASSUME EventsAssumption == ProgressEvents = SectionEvents

(* on_event rewrites and saves the document for these; the rest, section   *)
(* failures among them, is only published.                                 *)
Saved(d, type, s) ==
    CASE type = "section_started"     -> SectionStarted(d, s)
      [] type = "section_partial"     -> SectionPartial(d, s)
      [] type = "section_asset_ready" -> SectionAssets(d, s)
      [] type = "section_final"       -> SectionFinal(d, s)
      [] type = "section_ready"       -> SectionReady(d, s)
      [] OTHER -> d

SavedEvents == {"section_started", "section_partial", "section_asset_ready",
                "section_final", "section_ready"}

Subscribing == at[Reader] \in {"read", "drain", "wait", "recheck"}

ClientInit ==
    /\ StreamInit
    /\ doc = InitialDocument
    /\ stage = [s \in Sections |-> "none"]
    /\ unsent = {}
    /\ alive = TRUE
    /\ phase = "idle"
    /\ reply = NoReply
    /\ detail = "none"
    /\ view = EmptyView
    /\ attempts = 0
    /\ faults = 0
    /\ missed = FALSE

Fault == faults < MaxFaults /\ faults' = faults + 1

-----------------------------------------------------------------------------
(* The job and the row.                                                    *)

(* An event passes a view that has read the document and is not connected. *)
Passes ==
    missed' = (missed \/ (/\ ~Subscribing
                          /\ phase \in {"open", "hidden", "waiting"} \union Refreshing))

Sent(event) ==
    /\ Len(queue[Reader]) < MaxLag
    /\ Publish(event)
    /\ Passes
    /\ UNCHANGED <<lifecycleVars, at, current, told, progress, revised>>

SectionMoves(s) ==
    /\ alive
    /\ status = "running"
    /\ doc.status \notin Outcomes
    /\ \A event \in unsent : event[2] # s
    /\ \E type \in Follows[stage[s]] :
         /\ stage' = [stage EXCEPT ![s] = type]
         /\ doc' = Saved(doc, type, s)
         /\ IF type \in SavedEvents
            THEN /\ unsent' = unsent \union {<<type, s>>}
                 /\ UNCHANGED <<vars, missed>>
            ELSE /\ Sent(<<type, s>>)
                 /\ UNCHANGED unsent
    /\ UNCHANGED <<alive, viewVars, faults>>

EventPublished ==
    /\ alive
    /\ \E event \in unsent : Sent(event) /\ unsent' = unsent \ {event}
    /\ UNCHANGED <<doc, stage, alive, viewVars, faults>>

(* The run is over: its last document is saved before the row's status.    *)
(* A deadline or an error stops the tasks where they stand.                *)
JobConcludes ==
    /\ alive
    /\ status = "running"
    /\ doc.status \notin Outcomes
    /\ \/ /\ unsent = {}
          /\ \A s \in Sections : stage[s] # "none"
          /\ doc' = ResultDocument(doc.manifest, doc.sections,
                                   {s \in Sections : stage[s] = "section_failed"},
                                   doc.partial)
       \/ doc' = FailedSnapshot(doc)
    /\ unsent' = {}
    /\ UNCHANGED <<vars, stage, alive, viewVars, faults, missed>>

(* Startup recovery rewrites the document of a row whose job is gone.      *)
Interrupted ==
    /\ ~alive
    /\ status \in Active
    /\ doc.status # "failed"
    /\ doc' \in {InterruptedSnapshot(NoDocument), InterruptedSnapshot(doc)}
    /\ UNCHANGED <<vars, stage, unsent, alive, viewVars, faults, missed>>

RowSettles ==
    /\ \/ alive /\ (Accept \/ Start)
       \/ /\ doc.status \in Outcomes
          /\ alive \/ doc.status = "failed"
          /\ Finish(doc.status)
    /\ UNCHANGED <<streamVars, progress, revised>>
    /\ UNCHANGED <<jobVars, viewVars, faults, missed>>

JobAnnounces ==
    /\ alive
    /\ OutcomePublished
    /\ UNCHANGED <<jobVars, viewVars, faults, missed>>

(* The answer to the commit was lost.                                      *)
JobRevises ==
    /\ Fault
    /\ alive
    /\ OutcomeRevised
    /\ doc' = FailedSnapshot(doc)
    /\ UNCHANGED <<stage, unsent, alive, viewVars, missed>>

-----------------------------------------------------------------------------
(* refresh: two requests, answered in any order and at any two moments.    *)
(* The document's answer decides from when on events count as missed.      *)
DetailAnswered ==
    /\ phase \in Refreshing
    /\ reply.detail = "none"
    /\ reply' = [reply EXCEPT !.detail = status]
    /\ UNCHANGED <<vars, jobVars, phase, detail, view, attempts, faults, missed>>

DocumentAnswered ==
    /\ phase \in Refreshing
    /\ reply.document = NoDocument
    /\ reply' = [reply EXCEPT !.document = doc]
    /\ missed' = FALSE
    /\ UNCHANGED <<vars, jobVars, phase, detail, view, attempts, faults>>

(* Mutant: one attempt too many.                                           *)
ReconnectOnceMore ==
    IF attempts > MaxReconnectAttempts
    THEN phase' = "lost" /\ UNCHANGED attempts
    ELSE phase' = "waiting" /\ attempts' = attempts + 1

(* scheduleReconnect                                                       *)
Reconnect ==
    IF attempts >= MaxReconnectAttempts
    THEN phase' = "lost" /\ UNCHANGED attempts
    ELSE phase' = "waiting" /\ attempts' = attempts + 1

(* The continuation of each refresh, once both answers are in.             *)
Refreshed ==
    /\ phase \in Refreshing
    /\ reply.detail # "none" /\ reply.document # NoDocument
    /\ reply' = NoReply
    /\ detail' = reply.detail
    /\ view' = Snapshot(view, reply.document)
    /\ IF phase = "finalizing"
       THEN phase' = "finalized" /\ UNCHANGED attempts
       ELSE IF reply.detail \in Outcomes
       THEN phase' = "settled" /\ UNCHANGED attempts
       ELSE IF phase = "revalidating" THEN Reconnect
       ELSE phase' = "open" /\ UNCHANGED attempts
    /\ UNCHANGED <<vars, jobVars, faults, missed>>

(* A request fails: nothing is shown of the other's answer.                *)
RefreshFails ==
    /\ Fault
    /\ phase \in Refreshing
    /\ reply' = NoReply
    /\ missed' = TRUE
    /\ CASE phase = "loading"      -> phase' = "error" /\ UNCHANGED attempts
         [] phase = "finalizing"   -> phase' = "unrefreshed" /\ UNCHANGED attempts
         [] phase = "revalidating" -> Reconnect
         [] phase = "refreshing"   -> phase' = "open" /\ UNCHANGED attempts
    /\ UNCHANGED <<vars, jobVars, detail, view>>

Load ==
    /\ phase = "idle"
    /\ status # "absent"
    /\ phase' = "loading"
    /\ UNCHANGED <<vars, jobVars, reply, detail, view, attempts, faults, missed>>

TimerFires ==
    /\ phase = "waiting"
    /\ phase' = "refreshing"
    /\ UNCHANGED <<vars, jobVars, reply, detail, view, attempts, faults, missed>>

-----------------------------------------------------------------------------
(* The connection.  A view connects only to an active row and hangs up     *)
(* whenever it leaves "open", so an error is always one of an open view    *)
(* that knows of no outcome: it revalidates.                               *)

Opens ==
    /\ phase = "open"
    /\ Connect(Reader)
    /\ attempts' = 0
    /\ UNCHANGED <<jobVars, phase, reply, detail, view, faults, missed>>

ConnectFails ==
    /\ Fault
    /\ phase = "open"
    /\ at[Reader] = "off"
    /\ phase' = "revalidating"
    /\ UNCHANGED <<vars, jobVars, reply, detail, view, attempts, missed>>

(* The connection faults, alone or with the server and the job.            *)
Breaks ==
    /\ Fault
    /\ phase = "open" /\ Subscribing
    /\ phase' = "revalidating"
    /\ \/ Disconnect(Reader) /\ UNCHANGED alive
       \/ Restart /\ alive' = FALSE
    /\ unsent' = IF alive' THEN unsent ELSE {}
    /\ missed' = TRUE
    /\ UNCHANGED <<doc, stage, reply, detail, view, attempts>>

(* The server dies while nobody is connected.                              *)
ServerDies ==
    /\ Fault
    /\ alive
    /\ ~Subscribing
    /\ Restart
    /\ alive' = FALSE
    /\ unsent' = {}
    /\ UNCHANGED <<doc, stage, viewVars, missed>>

(* fetch-event-source hangs up while the tab is hidden, and connects again *)
(* when it is shown.                                                       *)
TabHidden ==
    /\ Fault
    /\ phase = "open" /\ Subscribing
    /\ Disconnect(Reader)
    /\ phase' = "hidden"
    /\ missed' = TRUE
    /\ UNCHANGED <<jobVars, reply, detail, view, attempts>>

TabShown ==
    /\ phase = "hidden"
    /\ phase' = "open"
    /\ UNCHANGED <<vars, jobVars, reply, detail, view, attempts, faults, missed>>

(* The event forwarded is folded into the view.  An event the client       *)
(* cannot parse has passed it.                                             *)
Fold(readable) ==
    IF Len(queue'[Reader]) < Len(queue[Reader])
    THEN /\ view' = Applied(view, Head(queue[Reader]), readable)
         /\ missed' = (missed \/ ~readable)
    ELSE UNCHANGED <<view, missed>>

(* Mutant: the stream's end is believed, and the row not read again.       *)
DeliverUnchecked ==
    /\ phase = "open"
    /\ StreamNext(Reader)
    /\ IF at'[Reader] = "closed"
       THEN phase' = "finalized" /\ UNCHANGED <<view, missed>>
       ELSE (\E readable \in BOOLEAN : Fold(readable)) /\ UNCHANGED phase
    /\ UNCHANGED <<jobVars, reply, detail, attempts, faults>>

(* The server's generator takes a step.  What it forwards is applied; an   *)
(* outcome closes the stream for good, and finalizeStream refreshes.       *)
Deliver ==
    /\ phase = "open"
    /\ StreamNext(Reader)
    /\ IF at'[Reader] = "closed"
       THEN phase' = "finalizing" /\ UNCHANGED <<view, missed>>
       ELSE (\E readable \in BOOLEAN : Fold(readable)) /\ UNCHANGED phase
    /\ UNCHANGED <<jobVars, reply, detail, attempts, faults>>

(* A view that is over looks no more, so the job need not go on either.    *)
JobNext ==
    /\ phase \notin Over
    /\ \/ \E s \in Sections : SectionMoves(s)
       \/ EventPublished \/ JobConcludes \/ Interrupted
       \/ RowSettles \/ JobAnnounces

(* Steps the view waits for.                                               *)
ViewNext ==
    \/ DetailAnswered \/ DocumentAnswered \/ Refreshed
    \/ TimerFires \/ Opens \/ Deliver \/ TabShown

FaultNext == JobRevises \/ RefreshFails \/ ConnectFails \/ Breaks \/ ServerDies \/ TabHidden

ClientNext == JobNext \/ Load \/ ViewNext \/ FaultNext

ClientSpec == ClientInit /\ [][ClientNext]_clientVars

(* Requests are answered, timers fire, the tab is shown again and the      *)
(* stream is served; faults need not happen.                               *)
FairClientSpec == ClientSpec /\ WF_clientVars(ViewNext)

-----------------------------------------------------------------------------
ViewTypeOK ==
    /\ doc \in Document
    /\ stage \in [Sections -> DOMAIN Follows]
    /\ unsent \subseteq SectionEvents
    /\ alive \in BOOLEAN
    /\ phase \in {"idle", "open", "hidden", "waiting"} \union Refreshing \union Over
    /\ reply \in [detail : {"none"} \union Statuses, document : Document]
    /\ detail \in {"none"} \union Statuses
    /\ view \in View
    /\ attempts \in 0..MaxReconnectAttempts
    /\ faults \in 0..MaxFaults
    /\ missed \in BOOLEAN

(* A connected view that missed nothing, has been sent everything and has  *)
(* read it all shows what the row holds: the same sections are planned and *)
(* ready, and its drafts are the row's and some that are being finalised.  *)
ViewFollowsRow ==
    (/\ phase = "open" /\ at[Reader] \in {"drain", "wait", "recheck"}
     /\ queue[Reader] = <<>> /\ unsent = {} /\ ~missed
     /\ alive /\ doc.status \notin Outcomes)
    => \A s \in Sections :
         /\ s \in view.document.manifest <=> s \in doc.manifest
         /\ s \notin view.document.failed =>
              /\ s \in view.document.sections <=> s \in doc.sections
              /\ s \in doc.partial => s \in view.document.partial
              /\ s \in view.document.partial =>
                    s \in doc.partial \/ stage[s] = "section_final"

(* A view whose stream was ended by an outcome and that could read the row *)
(* after that shows its last document and status.                          *)
FinalizedShowsRow ==
    phase = "finalized" /\ ~revised => view.document = doc /\ detail = status

(* A slot once ready or failed never goes back to work in progress, unless *)
(* the section itself is written again: neither late media events nor a    *)
(* refresh that knows less than the view undo it.                          *)
SlotsStay ==
    [][\A s \in view.document.manifest \intersect view'.document.manifest :
         /\ SlotStatuses(view, s) \subseteq {"ready", "failed"}
         /\ ~ \E type \in SavedEvents :
                queue[Reader] # <<>> /\ Head(queue[Reader]) = <<type, s>>
         => SlotStatuses(view', s) \subseteq {"ready", "failed"}]_clientVars

(* Once the generation is over, a view that was opened ends: it shows the  *)
(* outcome, or an error, or says that the connection is lost.              *)
ViewEnds == (status \in Outcomes /\ phase # "idle") ~> phase \in Over
=============================================================================
