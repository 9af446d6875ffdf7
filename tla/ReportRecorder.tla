--------------------------- MODULE ReportRecorder ---------------------------
(***************************************************************************)
(* The report of one generation, and what the recorder of                  *)
(* telemetry/recorder.py makes of it for each event and at the end.        *)
(*                                                                         *)
(* A report lists sections; here it maps every section to its entry, and   *)
(* NoEntry stands for a section it does not list.  Titles, times, token    *)
(* counts, components, media decisions and the timeline are left out: none *)
(* of them decides a status.                                               *)
(***************************************************************************)
EXTENDS GenerationDocument

Entry == [status : {"none", "planned", "running", "retry_queued",
                    "ready", "failed", "stalled"},
          error  : BOOLEAN,     \* final_error is set
          tried  : BOOLEAN]     \* attempt_count > 0

NoEntry == [status |-> "none", error |-> FALSE, tried |-> FALSE]

Report == [status  : {"none", "running", "completed", "failed"},
           outcome : {"none", "full", "partial", "failed"},
           count   : Nat,
           entry   : [Sections -> Entry]]

(* A row whose report_json is NULL.                                        *)
NoReport == [status |-> "none", outcome |-> "none", count |-> 0,
             entry |-> [s \in Sections |-> NoEntry]]

NewReport == [NoReport EXCEPT !.status = "running", !.count = SectionCount]

Listed(r)    == {s \in Sections : r.entry[s].status # "none"}
With(r, st)  == {s \in Sections : r.entry[s].status = st}
PlannedOf(r) == IF Cardinality(Listed(r)) > r.count THEN Cardinality(Listed(r)) ELSE r.count

-----------------------------------------------------------------------------
(* One operator per event that says something of a section's status.       *)

(* _ensure_section: every event about a section lists it.                  *)
Ensured(e) == IF e.status = "none" THEN [e EXCEPT !.status = "planned"] ELSE e

OnSectionStarted(e) ==
    IF e.status = "stalled" THEN [e EXCEPT !.status = "planned"] ELSE Ensured(e)

OnAttemptStarted(e) == [e EXCEPT !.status = "running", !.tried = TRUE]

OnNodeStarted(e) == [e EXCEPT !.status = "running"]

OnNodeFailed(e) ==
    [e EXCEPT !.error = TRUE, !.status = IF @ = "ready" THEN "ready" ELSE "failed"]

OnSectionPartial(e) == [e EXCEPT !.status = "running", !.error = FALSE]

OnRetryQueued(e) == [e EXCEPT !.status = "retry_queued"]

OnSectionFailed(e) == [status |-> "failed", error |-> TRUE, tried |-> TRUE]

(* Mutant: the section is taken for ready before its content is kept.      *)
OnSectionFinalReady(e) == [e EXCEPT !.status = "ready", !.error = FALSE]

OnSectionFinal(e) == [Ensured(e) EXCEPT !.error = FALSE]

OnSectionReady(e) == [e EXCEPT !.status = "ready", !.error = FALSE]

SectionEvents == {"started", "attempt", "node", "node_failed", "partial", "assets",
                  "retry", "section_failed", "final", "ready", "detail"}

(* What an event makes of the section's entry.  The asset events set it    *)
(* running; "detail" stands for the events that only add to the section's  *)
(* counts, decisions and calls.                                            *)
EntryAfter(type, e) ==
    CASE type = "started"        -> OnSectionStarted(e)
      [] type = "attempt"        -> OnAttemptStarted(e)
      [] type = "node"           -> OnNodeStarted(e)
      [] type = "node_failed"    -> OnNodeFailed(e)
      [] type = "partial"        -> OnSectionPartial(e)
      [] type = "assets"         -> OnNodeStarted(e)
      [] type = "retry"          -> OnRetryQueued(e)
      [] type = "section_failed" -> OnSectionFailed(e)
      [] type = "final"          -> OnSectionFinal(e)
      [] type = "ready"          -> OnSectionReady(e)
      [] type = "detail"         -> Ensured(e)

(* apply_event                                                             *)
Applied(r, ev) ==
    CASE ev.type \in SectionEvents ->
             [r EXCEPT !.entry[ev.section] = EntryAfter(ev.type, @)]
      [] ev.type = "pipeline_start" -> [r EXCEPT !.status = "running", !.count = SectionCount]
      [] ev.type = "planned" -> [r EXCEPT !.count = IF ev.size > @ THEN ev.size ELSE @]
      [] ev.type = "complete" -> [r EXCEPT !.status = "completed"]
      [] ev.type = "error" -> [r EXCEPT !.status = "failed"]

-----------------------------------------------------------------------------
(* What ends a report.                                                     *)

(* _apply_document_snapshot: the manifest, then the sections, then the     *)
(* partial ones, then the failed ones.                                     *)
FromDocument(r, doc) ==
    LET Told(s) ==
            LET listed == IF s \in doc.manifest THEN Ensured(r.entry[s]) ELSE r.entry[s]
                kept   == IF s \in doc.sections THEN OnSectionReady(listed) ELSE listed
                drawn  == IF s \in doc.partial /\ kept.status # "ready"
                          THEN OnSectionPartial(kept) ELSE kept
            IN  IF s \in doc.failed
                THEN [drawn EXCEPT !.status = "failed", !.error = TRUE] ELSE drawn
    IN  [r EXCEPT !.count = IF doc.manifest = {} THEN @ ELSE Cardinality(doc.manifest),
                  !.entry = [s \in Sections |-> Told(s)]]

(* _finalize_incomplete_sections                                           *)
Closed(e, failed) ==
    IF e.status \in {"none", "ready"} THEN e
    ELSE [e EXCEPT !.status =
              IF e.error \/ (failed /\ e.status # "retry_queued" /\ e.tried)
              THEN "failed" ELSE "stalled"]

(* Mutant: full unless a section failed.                                   *)
DerivedFromFailures(r) == IF With(r, "failed") = {} THEN "full" ELSE "partial"

(* _derive_outcome                                                         *)
Derived(r) == IF PlannedOf(r) = Cardinality(With(r, "ready")) THEN "full" ELSE "partial"

FinalizedSuccess(r, doc) ==
    LET told   == FromDocument(r, doc)
        closed == [told EXCEPT !.status = "completed",
                               !.entry = [s \in Sections |-> Closed(told.entry[s], FALSE)]]
    IN  [closed EXCEPT !.outcome = Derived(closed)]

(* Mutant: the outcome is named after the event.                           *)
FinalizedAsError(r) ==
    [r EXCEPT !.status = "failed", !.outcome = "error"]

FinalizedFailure(r) ==
    [r EXCEPT !.status = "failed", !.outcome = "failed",
              !.entry = [s \in Sections |-> Closed(r.entry[s], TRUE)]]

(* _build_backfill_report                                                  *)
Backfilled(doc) ==
    [status |-> "failed", outcome |-> "failed",
     count  |-> IF doc.manifest = {} THEN SectionCount ELSE Cardinality(doc.manifest),
     entry  |-> [s \in Sections |->
                    IF s \notin doc.manifest THEN NoEntry
                    ELSE [NoEntry EXCEPT !.status =
                              IF s \in doc.sections THEN "ready" ELSE "failed"]]]
=============================================================================
