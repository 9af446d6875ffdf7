------------------------- MODULE GenerationDocument -------------------------
(***************************************************************************)
(* The document of one generation, and the pure functions that rewrite it. *)
(*                                                                         *)
(* A PipelineDocument lists sections by id; here each of its lists is the  *)
(* set of ids it holds.  Every reducer in generation/service.py replaces   *)
(* the entry with the same id or appends one, so no id occurs twice, and   *)
(* the sort by manifest position that ends each reducer only fixes the     *)
(* order in which the frontend shows them.                                 *)
(***************************************************************************)
EXTENDS Naturals, FiniteSets

CONSTANTS
    Sections,       \* ids of the sections the curriculum planner outlines
    SectionCount    \* section_count of the request

ASSUME SectionsAssumption == IsFiniteSet(Sections)
ASSUME SectionCountAssumption == SectionCount \in Nat \ {0}

DocumentStatus == {"none", "pending", "running", "completed", "partial", "failed"}

(* Status "none" stands for "no document": a row whose document_json is    *)
(* NULL.                                                                   *)
Document == [status   : DocumentStatus,
             manifest : SUBSET Sections,
             sections : SUBSET Sections,
             partial  : SUBSET Sections,
             failed   : SUBSET Sections]

EmptyDocument(status) ==
    [status   |-> status, manifest |-> {}, sections |-> {},
     partial  |-> {},     failed   |-> {}]

NoDocument == EmptyDocument("none")

InitialDocument == EmptyDocument("pending")

-----------------------------------------------------------------------------
(* What on_event does to the in-memory document, one operator per event.   *)

SectionStarted(doc, s) ==
    [doc EXCEPT !.manifest = @ \union {s}, !.status = "running"]

SectionPartial(doc, s) ==
    [doc EXCEPT !.partial = @ \union {s}, !.failed = @ \ {s},
                !.status  = "running"]

(* Asset events only rewrite fields inside an existing partial entry.      *)
SectionAssets(doc, s) ==
    IF s \in doc.partial THEN [doc EXCEPT !.status = "running"] ELSE doc

SectionFinal(doc, s) ==
    IF s \in doc.partial
    THEN [doc EXCEPT !.partial = @ \ {s}, !.status = "running"]
    ELSE doc

(* Mutant: the section replaces the list instead of joining it.            *)
SectionReadyReplaces(doc, s) ==
    [doc EXCEPT !.sections = {s}, !.partial = @ \ {s}, !.status = "running"]

SectionReady(doc, s) ==
    [doc EXCEPT !.sections = @ \union {s}, !.partial = @ \ {s},
                !.failed   = @ \ {s},      !.status  = "running"]

-----------------------------------------------------------------------------
(* How a document becomes terminal.                                        *)

(* Mutant: the snapshot keeps the status it had.                           *)
FailedSnapshotUnmarked(doc) == doc

FailedSnapshot(doc) == [doc EXCEPT !.status = "failed"]

(* The guard of the "timeout race" branch: every section of the manifest   *)
(* is accounted for and none is half done.  saw_pipeline_progress is left  *)
(* out: whatever puts a section in the manifest sets it.                   *)
(* Mutants: sections are not counted; the count is off by one.             *)
AllDoneUncounted(doc) ==
    doc.status = "running" /\ doc.manifest # {} /\ doc.partial = {}
AllDoneOffByOne(doc) ==
    /\ doc.status = "running"
    /\ Cardinality(doc.sections) + Cardinality(doc.failed) > Cardinality(doc.manifest)
    /\ doc.partial = {}

AllDone(doc) ==
    /\ doc.status = "running"
    /\ doc.manifest # {}
    /\ Cardinality(doc.sections) + Cardinality(doc.failed) >= Cardinality(doc.manifest)
    /\ doc.partial = {}

RaceRecovered(doc) ==
    [doc EXCEPT !.status = IF doc.failed = {} THEN "completed" ELSE "partial"]

(* The status a finished pipeline state resolves to.  "assembled", "bad"   *)
(* and "draft" are the keys of assembled_sections, failed_sections and     *)
(* partial_sections.  A run without a section and without a draft always   *)
(* carries an error or a failed section, the condition the code tests.     *)
ResultDocument(outline, assembled, bad, draft) ==
    LET partial == (draft \ assembled) \ bad
        failed  == bad \ assembled
        planned == IF Cardinality(outline) > SectionCount
                   THEN Cardinality(outline) ELSE SectionCount
        status  == IF /\ Cardinality(assembled) = planned
                      /\ partial = {}
                      /\ failed = {}
                   THEN "completed"
                   ELSE IF assembled = {} /\ partial = {} THEN "failed" ELSE "partial"
    IN  [status   |-> status,  manifest |-> outline, sections |-> assembled,
         partial  |-> partial, failed   |-> failed]

(* The document startup recovery writes for an interrupted generation:     *)
(* "existing" is NoDocument when the row names no document.                *)
InterruptedSnapshot(existing) ==
    IF existing.status = "none" THEN EmptyDocument("failed")
                                ELSE FailedSnapshot(existing)
=============================================================================
