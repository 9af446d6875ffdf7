---------------------------- MODULE ViewerState ----------------------------
(***************************************************************************)
(* What the lesson view of the frontend shows, and the pure reducers that  *)
(* fold the events of the stream into it (viewer-state.ts,                 *)
(* live-stream.ts).                                                        *)
(*                                                                         *)
(* A view is a document and a signal per section.  Its document has the    *)
(* shape of the row's (GenerationDocument), and its reducers resemble the  *)
(* server's, but not in three places: the server drops a final section's   *)
(* draft and the view keeps it, the server never hears of a failed section *)
(* and the view does, and the view ignores a section whose content its own *)
(* schema refuses (readable is FALSE then).                                *)
(***************************************************************************)
EXTENDS GenerationDocument

Signals == {"none", "planned", "generating", "partially_ready",
            "blocked_by_required_media", "ready", "failed"}

View == [document : Document, signals : [Sections -> Signals]]

(* sectionSignals and document of a view that has loaded nothing.          *)
EmptyView == [document |-> NoDocument, signals |-> [s \in Sections |-> "none"]]

-----------------------------------------------------------------------------
(* The document after a section event.                                     *)

ViewStarted(doc, s) == SectionStarted(doc, s)

ViewPartial(doc, s, readable) == IF readable THEN SectionPartial(doc, s) ELSE doc

ViewAssets(doc, s) == SectionAssets(doc, s)

(* The draft stays until the section is ready.                             *)
ViewFinal(doc, s) == [doc EXCEPT !.status = "running"]

(* Mutant: the draft stays beside the ready section.                       *)
ViewReadyKeepsDraft(doc, s, readable) ==
    IF readable THEN [SectionReady(doc, s) EXCEPT !.partial = doc.partial] ELSE doc

ViewReady(doc, s, readable) == IF readable THEN SectionReady(doc, s) ELSE doc

ViewFailed(doc, s) ==
    [doc EXCEPT !.failed   = @ \union {s},
                !.partial  = @ \ {s},
                !.sections = @ \ {s},
                !.status   = IF @ = "failed" THEN "failed" ELSE "running"]

Shown(doc, type, s, readable) ==
    CASE type = "section_started"  -> ViewStarted(doc, s)
      [] type = "section_partial"  -> ViewPartial(doc, s, readable)
      [] type \in {"section_asset_pending", "section_asset_ready"} -> ViewAssets(doc, s)
      [] type = "section_final"    -> ViewFinal(doc, s)
      [] type = "section_ready"    -> ViewReady(doc, s, readable)
      [] type = "section_failed"   -> ViewFailed(doc, s)
      [] OTHER -> doc

-----------------------------------------------------------------------------
(* The signal after an event.  A section event sets it whatever became of  *)
(* the document; a late event about media or progress is ignored once the  *)
(* section is ready or failed.                                             *)
SectionSignal ==
    [section_partial       |-> "partially_ready",
     section_asset_pending |-> "partially_ready",
     section_asset_ready   |-> "partially_ready",
     section_final         |-> "partially_ready",
     section_ready         |-> "ready",
     section_failed        |-> "failed"]

MediaSignal ==
    [progress_update       |-> "generating",
     media_frame_started   |-> "generating",
     media_frame_ready     |-> "partially_ready",
     media_slot_ready      |-> "partially_ready",
     media_slot_failed     |-> "partially_ready",
     section_media_blocked |-> "blocked_by_required_media"]

Keeping == [media_plan_ready |-> "planned", media_frame_failed |-> "partially_ready"]

(* Mutant: late media events count.                                        *)
SignalledLate(old, type) ==
    IF type \in DOMAIN SectionSignal THEN SectionSignal[type]
    ELSE IF type \in DOMAIN MediaSignal THEN MediaSignal[type]
    ELSE IF type \in DOMAIN Keeping /\ old = "none" THEN Keeping[type]
    ELSE old

Signalled(old, type) ==
    IF type \in DOMAIN SectionSignal THEN SectionSignal[type]
    ELSE IF old \in {"ready", "failed"} THEN old
    ELSE IF type \in DOMAIN MediaSignal THEN MediaSignal[type]
    ELSE IF type \in DOMAIN Keeping /\ old = "none" THEN Keeping[type]
    ELSE old

(* applyGenerationStreamEvent, for an event <<type, section>>.             *)
Applied(view, event, readable) ==
    [document |-> Shown(view.document, event[1], event[2], readable),
     signals  |-> [view.signals EXCEPT ![event[2]] = Signalled(@, event[1])]]

(* applyGenerationSnapshot replaces the document and leaves the signals.   *)
Snapshot(view, doc) == [view EXCEPT !.document = doc]

-----------------------------------------------------------------------------
(* The statuses the slot of a section may have, of a document with a       *)
(* manifest: no slot, if the document does not mention the section, or     *)
(* one.  A signal outlives the snapshot that made it moot, and a draft's   *)
(* own status depends on whether it waits for assets, which is not kept.   *)
SlotStatuses(view, s) ==
    LET doc == view.document
    IN  IF s \notin doc.manifest
        THEN IF s \in doc.sections \union doc.partial \union doc.failed
             THEN {"unplanned_output"} ELSE {}
        ELSE IF s \in doc.sections THEN {"ready"}
        ELSE IF s \in doc.failed THEN {"failed"}
        ELSE IF view.signals[s] # "none" THEN {view.signals[s]}
        ELSE IF s \in doc.partial THEN {"generating", "partially_ready"}
        ELSE IF doc.status \in {"completed", "partial", "failed"} THEN {"failed"}
        ELSE {"planned"}
=============================================================================
