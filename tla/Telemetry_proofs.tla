-------------------------- MODULE Telemetry_proofs --------------------------
(***************************************************************************)
(* The report of a generation never says more than its row and document,   *)
(* for every number of sections and attempts, every lag of the monitor and *)
(* every number of saves that fail.                                        *)
(***************************************************************************)
EXTENDS Telemetry, FiniteSetTheorems, SequenceTheorems, TLAPS

-----------------------------------------------------------------------------
(* The inductive invariant.                                                *)

(* The document is built up section by section, each of its manifest, and  *)
(* the row ends as the document does.                                      *)
DocInv ==
    /\ doc.status # "none"
    /\ doc.sections \cap doc.failed = {}
    /\ doc.sections \subseteq doc.manifest
    /\ \A s \in Sections : stage[s] \notin {"none", "outlined"} => s \in doc.manifest
    /\ job = "saved" => doc.status \in Terminal
    /\ job \in {"settled", "announced"} => row \in Terminal

(* Whoever knows of a ready section, knows it from the document: the       *)
(* report, the recorder, and the events still to be handled.               *)
ReadyInv ==
    /\ With(report, "ready") \subseteq doc.sections
    /\ With(recorder, "ready") \subseteq doc.sections
    /\ \A i \in 1..Len(queue) : queue[i].type = "ready" => queue[i].section \in doc.sections

(* The end is announced as the row has it, and then nothing more happens.  *)
Ended(failed) ==
    /\ job \in {"announced", "dead"} /\ row \in Terminal
    /\ failed <=> row = "failed"

EndTypes == {"complete", "error"}
EndKinds == {"completed", "failed"}

(* The end is told once: by the last event, by the recorder that handled   *)
(* it, by the report that was saved; and only that end gives an outcome.   *)
EndInv ==
    /\ \A i \in 1..Len(queue) :
          queue[i].type \in EndTypes => i = Len(queue) /\ Ended(queue[i].type = "error")
    /\ recorder.status \in EndKinds => queue = << >> /\ Ended(recorder.status = "failed")
    /\ closing # "none" =>
          /\ recorder.status = IF closing = "error" THEN "failed" ELSE "completed"
          /\ recorder.outcome = "none"
    /\ recorder.outcome # "none" => recorder.status \in EndKinds
    /\ report.status \in EndKinds => Ended(report.status = "failed")

(* A process that is gone has taken its job, queue and recorder with it.   *)
ServerInv ==
    server \in {"down", "marked"} =>
        job = "dead" /\ recorder = NoReport /\ queue = << >> /\ closing = "none"

(* A report with its outcome is true, and nobody is left to change it.     *)
OutcomeInv ==
    report.outcome # "none" =>
        /\ report.status = IF report.outcome = "failed" THEN "failed" ELSE "completed"
        /\ recorder = NoReport /\ queue = << >> /\ closing = "none"
        /\ report.outcome \in {"full", "partial"} => With(report, "ready") = doc.sections
        /\ report.outcome = "full" => doc.sections = doc.manifest

Inv ==
    /\ TypeOK /\ queue \in Seq(Event)
    /\ DocInv /\ ReadyInv /\ EndInv /\ OutcomeInv /\ ServerInv

-----------------------------------------------------------------------------
(* What the operators of the recorder give.                                *)

(* Nothing but the section's own "ready" event makes it ready.             *)
LEMMA EntryAfterFacts ==
    ASSUME NEW e \in Entry, NEW type \in SectionEvents
    PROVE  /\ EntryAfter(type, e) \in Entry
           /\ EntryAfter(type, e).status = "ready" => type = "ready" \/ e.status = "ready"
<1>1. Ensured(e) \in Entry /\ (Ensured(e).status = "ready" <=> e.status = "ready")
  BY DEF Ensured, Entry
<1>2. CASE type \in {"started", "detail", "final"}
  <2>1. CASE type = "started"
    BY <1>1, <2>1 DEF EntryAfter, OnSectionStarted, Entry
  <2>2. CASE type = "detail"
    BY <1>1, <2>2 DEF EntryAfter
  <2>3. CASE type = "final"
    BY <1>1, <2>3 DEF EntryAfter, OnSectionFinal, Entry
  <2> QED
    BY <1>2, <2>1, <2>2, <2>3
<1>3. CASE type \in {"attempt", "node", "assets", "retry", "ready"}
  <2>1. CASE type = "attempt"
    BY <2>1 DEF EntryAfter, OnAttemptStarted, Entry
  <2>2. CASE type \in {"node", "assets"}
    BY <2>2 DEF EntryAfter, OnNodeStarted, Entry
  <2>3. CASE type = "retry"
    BY <2>3 DEF EntryAfter, OnRetryQueued, Entry
  <2>4. CASE type = "ready"
    BY <2>4 DEF EntryAfter, OnSectionReady, Entry
  <2> QED
    BY <1>3, <2>1, <2>2, <2>3, <2>4
<1>4. CASE type \in {"node_failed", "partial", "section_failed"}
  <2>1. CASE type = "node_failed"
    BY <2>1 DEF EntryAfter, OnNodeFailed, Entry
  <2>2. CASE type = "partial"
    BY <2>2 DEF EntryAfter, OnSectionPartial, Entry
  <2>3. CASE type = "section_failed"
    BY <2>3 DEF EntryAfter, OnSectionFailed, Entry
  <2> QED
    BY <1>4, <2>1, <2>2, <2>3
<1> QED
  BY <1>2, <1>3, <1>4 DEF SectionEvents

(* A row without a report, and a recorder's first one.                     *)
LEMMA NoReportIs ==
    /\ NoReport \in Report /\ NoReport.status = "none" /\ NoReport.outcome = "none"
    /\ With(NoReport, "ready") = {}
    /\ NewReport \in Report /\ NewReport.status = "running" /\ NewReport.outcome = "none"
    /\ With(NewReport, "ready") = {}
<1>1. NoEntry \in Entry /\ NoEntry.status = "none"
  BY DEF NoEntry, Entry
<1> DEFINE f == [s \in Sections |-> NoEntry]
<1>2. f \in [Sections -> Entry] /\ \A s \in Sections : f[s].status = "none"
  BY <1>1
<1>3. NoReport = [status |-> "none", outcome |-> "none", count |-> 0, entry |-> f]
  BY DEF NoReport
<1> HIDE DEF f
<1>4. NoReport \in Report /\ NoReport.status = "none" /\ NoReport.outcome = "none"
      /\ NoReport.entry = f
  BY <1>2, <1>3 DEF Report
<1>5. NewReport \in Report /\ NewReport.status = "running" /\ NewReport.outcome = "none"
      /\ NewReport.entry = f
  BY <1>2, <1>3, SectionCountAssumption DEF Report, NewReport
<1> QED
  BY <1>2, <1>4, <1>5 DEF With

(* A report whose entry of one section is replaced.                        *)
EntryAt(r, s, e) == [r EXCEPT !.entry[s] = e]

LEMMA EntryAtFacts ==
    ASSUME NEW r \in Report, NEW s \in Sections, NEW e \in Entry
    PROVE  /\ EntryAt(r, s, e) \in Report
           /\ EntryAt(r, s, e).status = r.status /\ EntryAt(r, s, e).outcome = r.outcome
           /\ EntryAt(r, s, e).entry = [r.entry EXCEPT ![s] = e]
BY DEF EntryAt, Report

(* What an event changes of a report.                                      *)
LEMMA AppliedFacts ==
    ASSUME NEW r \in Report, NEW ev \in Event
    PROVE  LET a == Applied(r, ev)
           IN  /\ a \in Report /\ a.outcome = r.outcome
               /\ a.status = CASE ev.type = "pipeline_start" -> "running"
                               [] ev.type = "complete" -> "completed"
                               [] ev.type = "error" -> "failed"
                               [] OTHER -> r.status
               /\ With(a, "ready") \subseteq
                     With(r, "ready") \union (IF ev.type = "ready" THEN {ev.section} ELSE {})
<1>1. CASE ev.type \in SectionEvents
  <2> DEFINE s == ev.section
             e == EntryAfter(ev.type, r.entry[s])
  <2>1. s \in Sections /\ ev.type \notin {"pipeline_start", "complete", "error", "planned"}
    BY <1>1 DEF Event, SectionEvents
  <2>2. r.entry \in [Sections -> Entry] /\ r.entry[s] \in Entry
    BY <2>1 DEF Report
  <2>3. e \in Entry /\ (e.status = "ready" => ev.type = "ready" \/ r.entry[s].status = "ready")
    BY <1>1, <2>2, EntryAfterFacts
  <2>4. Applied(r, ev) = EntryAt(r, s, e)
    <3>1. Applied(r, ev) = [r EXCEPT !.entry[ev.section] = EntryAfter(ev.type, @)]
      BY <1>1, <2>1 DEF Applied
    <3>2. EntryAt(r, s, e) = [r EXCEPT !.entry[ev.section] = EntryAfter(ev.type, @)]
      BY Zenon DEF EntryAt
    <3> QED
      BY <3>1, <3>2
  <2> HIDE DEF e, s
  <2>5. /\ Applied(r, ev) \in Report
        /\ Applied(r, ev).status = r.status /\ Applied(r, ev).outcome = r.outcome
        /\ Applied(r, ev).entry = [r.entry EXCEPT ![s] = e]
    BY <2>1, <2>3, <2>4, EntryAtFacts
  <2>6. With(Applied(r, ev), "ready") \subseteq
          With(r, "ready") \union (IF ev.type = "ready" THEN {s} ELSE {})
    BY <2>1, <2>2, <2>3, <2>5 DEF With
  <2> QED
    BY <2>1, <2>5, <2>6 DEF s
<1>2. CASE ev.type = "pipeline_start"
  BY <1>2, SectionCountAssumption DEF Applied, Report, With, SectionEvents
<1>3. CASE ev.type = "planned"
  <2>1. ev.size \in Nat /\ r.count \in Nat
    <3>1. ev.size \in 1..Cardinality(Sections)
      BY <1>3 DEF Event, SectionEvents
    <3> QED
      BY <3>1, SectionsAssumption, FS_CardinalityType DEF Report
  <2>2. PICK n \in Nat : Applied(r, ev) = [r EXCEPT !.count = n]
    BY <1>3, <2>1 DEF Applied, SectionEvents
  <2> QED
    BY <1>3, <2>2 DEF Report, With
<1>4. CASE ev.type \in {"complete", "error"}
  BY <1>4 DEF Applied, Report, With, SectionEvents
<1> QED
  BY <1>1, <1>2, <1>3, <1>4 DEF Event

(* Closing the incomplete sections makes none of them ready or unlisted.   *)
LEMMA ClosedFacts ==
    ASSUME NEW e \in Entry, NEW failed \in BOOLEAN
    PROVE  /\ Closed(e, failed) \in Entry
           /\ Closed(e, failed).status = "ready" <=> e.status = "ready"
           /\ Closed(e, failed).status = "none" <=> e.status = "none"
<1>1. CASE e.status \in {"none", "ready"}
  BY <1>1 DEF Closed
<1>2. CASE e.status \notin {"none", "ready"}
  <2>1. PICK st \in {"failed", "stalled"} : Closed(e, failed) = [e EXCEPT !.status = st]
    BY <1>2 DEF Closed
  <2> QED
    BY <1>2, <2>1 DEF Entry
<1> QED
  BY <1>1, <1>2

(* The document's sections are the ready ones, if it contradicts neither   *)
(* itself nor the recorder; and every section of its manifest is listed.   *)
LEMMA FromDocumentFacts ==
    ASSUME NEW r \in Report, NEW d \in Document,
           d.sections \cap d.failed = {}, With(r, "ready") \subseteq d.sections
    PROVE  LET f == FromDocument(r, d)
           IN  /\ f \in Report /\ f.outcome = r.outcome
               /\ With(f, "ready") = d.sections /\ d.manifest \subseteq Listed(f)
<1> DEFINE listed(s) == IF s \in d.manifest THEN Ensured(r.entry[s]) ELSE r.entry[s]
           kept(s)   == IF s \in d.sections THEN OnSectionReady(listed(s)) ELSE listed(s)
           drawn(s)  == IF s \in d.partial /\ kept(s).status # "ready"
                        THEN OnSectionPartial(kept(s)) ELSE kept(s)
           told(s)   == IF s \in d.failed
                        THEN [drawn(s) EXCEPT !.status = "failed", !.error = TRUE] ELSE drawn(s)
           n         == IF d.manifest = {} THEN r.count ELSE Cardinality(d.manifest)
           g         == [s \in Sections |-> told(s)]
<1>1. FromDocument(r, d) = [r EXCEPT !.count = n, !.entry = g]
  BY DEF FromDocument
<1>2. ASSUME NEW s \in Sections
      PROVE  /\ told(s) \in Entry
             /\ told(s).status = "ready" <=> s \in d.sections
             /\ s \in d.manifest => told(s).status # "none"
  <2>1. r.entry[s] \in Entry /\ (r.entry[s].status = "ready" => s \in d.sections)
    BY DEF Report, With
  <2>2. /\ listed(s) \in Entry /\ (listed(s).status = "ready" => s \in d.sections)
        /\ s \in d.manifest => listed(s).status # "none"
    BY <2>1 DEF Ensured, Entry
  <2> HIDE DEF listed
  <2>3. /\ kept(s) \in Entry /\ (kept(s).status = "ready" <=> s \in d.sections)
        /\ s \in d.manifest => kept(s).status # "none"
    BY <2>2 DEF OnSectionReady, Entry
  <2> HIDE DEF kept
  <2>4. /\ drawn(s) \in Entry /\ (drawn(s).status = "ready" <=> s \in d.sections)
        /\ s \in d.manifest => drawn(s).status # "none"
    BY <2>3 DEF OnSectionPartial, Entry
  <2> HIDE DEF drawn
  <2> QED
    BY <2>4 DEF Entry
<1>3. n \in Nat
  <2>1. d.manifest \subseteq Sections /\ r.count \in Nat
    BY DEF Document, Report
  <2> QED
    BY <2>1, SectionsAssumption, FS_Subset, FS_CardinalityType
<1> HIDE DEF told, n
<1>4. /\ FromDocument(r, d) \in Report /\ FromDocument(r, d).outcome = r.outcome
      /\ FromDocument(r, d).entry = g
  <2>1. g \in [Sections -> Entry]
    BY <1>2
  <2> HIDE DEF g
  <2> QED
    BY <1>1, <1>3, <2>1 DEF Report
<1>5. d.manifest \subseteq Sections /\ d.sections \subseteq Sections
  BY DEF Document
<1> QED
  BY <1>2, <1>4, <1>5 DEF With, Listed

LEMMA FinalizedSuccessFacts ==
    ASSUME NEW r \in Report, NEW d \in Document, d.sections \subseteq d.manifest,
           d.sections \cap d.failed = {}, With(r, "ready") \subseteq d.sections
    PROVE  LET f == FinalizedSuccess(r, d)
           IN  /\ f \in Report /\ f.status = "completed" /\ f.outcome \in {"full", "partial"}
               /\ With(f, "ready") = d.sections
               /\ f.outcome = "full" => d.sections = d.manifest
<1> DEFINE told   == FromDocument(r, d)
           g      == [s \in Sections |-> Closed(told.entry[s], FALSE)]
           closed == [told EXCEPT !.status = "completed", !.entry = g]
<1>1. /\ told \in Report /\ With(told, "ready") = d.sections /\ d.manifest \subseteq Listed(told)
  BY FromDocumentFacts
<1>2. FinalizedSuccess(r, d) = [closed EXCEPT !.outcome = Derived(closed)]
  BY DEF FinalizedSuccess
<1> HIDE DEF told
<1>3. \A s \in Sections : /\ g[s] \in Entry
                          /\ g[s].status = "ready" <=> told.entry[s].status = "ready"
                          /\ g[s].status = "none" <=> told.entry[s].status = "none"
  BY <1>1, ClosedFacts DEF Report
<1> HIDE DEF g
<1>4. g \in [Sections -> Entry]
  BY <1>3 DEF g
<1>5. closed \in Report /\ closed.status = "completed" /\ closed.entry = g
  BY <1>1, <1>4 DEF Report
<1>6. With(closed, "ready") = d.sections /\ d.manifest \subseteq Listed(closed)
  BY <1>1, <1>3, <1>5 DEF With, Listed
<1> HIDE DEF closed
<1>7. Derived(closed) \in {"full", "partial"}
  BY DEF Derived
<1>8. ASSUME Derived(closed) = "full" PROVE d.sections = d.manifest
  <2> DEFINE L == Listed(closed)
  <2>1. L \subseteq Sections /\ IsFiniteSet(L) /\ Cardinality(L) \in Nat
    <3>1. L \subseteq Sections
      BY DEF Listed
    <3> QED
      BY <3>1, SectionsAssumption, FS_Subset, FS_CardinalityType
  <2>2. d.sections \subseteq L
    BY <1>6
  <2>3. Cardinality(d.sections) \in Nat /\ Cardinality(d.sections) <= Cardinality(L)
        /\ (Cardinality(d.sections) = Cardinality(L) => d.sections = L)
    BY <2>1, <2>2, FS_Subset, FS_CardinalityType
  <2>4. PlannedOf(closed) = Cardinality(d.sections) /\ closed.count \in Nat
    BY <1>5, <1>6, <1>8 DEF Derived, Report
  <2>5. Cardinality(L) <= PlannedOf(closed)
    BY <2>1, <2>4 DEF PlannedOf
  <2>6. d.sections = L
    BY <2>1, <2>3, <2>4, <2>5
  <2> QED
    BY <1>6, <2>6
<1>9. /\ FinalizedSuccess(r, d) \in Report /\ FinalizedSuccess(r, d).status = "completed"
      /\ FinalizedSuccess(r, d).outcome = Derived(closed) /\ FinalizedSuccess(r, d).entry = g
  BY <1>2, <1>5, <1>7 DEF Report
<1>10. With(FinalizedSuccess(r, d), "ready") = d.sections
  BY <1>5, <1>6, <1>9 DEF With
<1> QED
  BY <1>7, <1>8, <1>9, <1>10

LEMMA FinalizedFailureFacts ==
    ASSUME NEW r \in Report
    PROVE  LET f == FinalizedFailure(r)
           IN  /\ f \in Report /\ f.status = "failed" /\ f.outcome = "failed"
               /\ With(f, "ready") = With(r, "ready")
<1> DEFINE g == [s \in Sections |-> Closed(r.entry[s], TRUE)]
<1>1. FinalizedFailure(r) = [r EXCEPT !.status = "failed", !.outcome = "failed", !.entry = g]
  BY DEF FinalizedFailure
<1>2. \A s \in Sections : g[s] \in Entry /\ (g[s].status = "ready" <=> r.entry[s].status = "ready")
  BY ClosedFacts DEF Report
<1>3. g \in [Sections -> Entry]
  BY <1>2
<1> HIDE DEF g
<1>4. /\ FinalizedFailure(r) \in Report /\ FinalizedFailure(r).status = "failed"
      /\ FinalizedFailure(r).outcome = "failed" /\ FinalizedFailure(r).entry = g
  BY <1>1, <1>3 DEF Report
<1> QED
  BY <1>2, <1>4 DEF With

LEMMA BackfilledFacts ==
    ASSUME NEW d \in Document
    PROVE  LET f == Backfilled(d)
           IN  /\ f \in Report /\ f.status = "failed" /\ f.outcome = "failed"
               /\ With(f, "ready") \subseteq d.sections
<1> DEFINE n == IF d.manifest = {} THEN SectionCount ELSE Cardinality(d.manifest)
           g == [s \in Sections |->
                    IF s \notin d.manifest THEN NoEntry
                    ELSE [NoEntry EXCEPT !.status =
                              IF s \in d.sections THEN "ready" ELSE "failed"]]
<1>1. Backfilled(d) = [status |-> "failed", outcome |-> "failed", count |-> n, entry |-> g]
  BY DEF Backfilled
<1>2. n \in Nat
  <2>1. d.manifest \subseteq Sections
    BY DEF Document
  <2> QED
    BY <2>1, SectionCountAssumption, SectionsAssumption, FS_Subset, FS_CardinalityType
<1>3. \A s \in Sections : g[s] \in Entry /\ (g[s].status = "ready" => s \in d.sections)
  <2>1. /\ NoEntry \in Entry /\ NoEntry.status = "none"
        /\ \A st \in {"ready", "failed"} :
              [NoEntry EXCEPT !.status = st] \in Entry /\ [NoEntry EXCEPT !.status = st].status = st
    BY DEF NoEntry, Entry
  <2> QED
    BY <2>1
<1>4. g \in [Sections -> Entry]
  BY <1>3
<1> HIDE DEF n, g
<1> QED
  BY <1>1, <1>2, <1>3, <1>4 DEF Report, With

-----------------------------------------------------------------------------
(* The job's steps.                                                        *)

(* What its events make of the document.                                   *)
LEMMA DocumentSteps ==
    ASSUME NEW d \in Document, NEW s \in Sections, d.status # "none"
    PROVE  /\ SectionStarted(d, s) \in Document /\ SectionPartial(d, s) \in Document
           /\ SectionStarted(d, s).status # "none" /\ SectionPartial(d, s).status # "none"
           /\ SectionFinal(d, s).status # "none" /\ SectionReady(d, s).status # "none"
           /\ SectionFinal(d, s) \in Document /\ SectionReady(d, s) \in Document
           /\ SectionStarted(d, s).sections = d.sections /\ SectionStarted(d, s).failed = d.failed
           /\ SectionStarted(d, s).manifest = d.manifest \union {s}
           /\ SectionPartial(d, s).sections = d.sections
           /\ SectionPartial(d, s).failed = d.failed \ {s}
           /\ SectionPartial(d, s).manifest = d.manifest
           /\ SectionFinal(d, s).sections = d.sections /\ SectionFinal(d, s).failed = d.failed
           /\ SectionFinal(d, s).manifest = d.manifest
           /\ SectionReady(d, s).sections = d.sections \union {s}
           /\ SectionReady(d, s).failed = d.failed \ {s}
           /\ SectionReady(d, s).manifest = d.manifest
<1>1. /\ SectionStarted(d, s) \in Document /\ SectionStarted(d, s).status # "none"
      /\ SectionStarted(d, s).sections = d.sections /\ SectionStarted(d, s).failed = d.failed
      /\ SectionStarted(d, s).manifest = d.manifest \union {s}
  BY DEF Document, DocumentStatus, SectionStarted
<1>2. /\ SectionPartial(d, s) \in Document /\ SectionPartial(d, s).status # "none"
      /\ SectionPartial(d, s).sections = d.sections
      /\ SectionPartial(d, s).failed = d.failed \ {s}
      /\ SectionPartial(d, s).manifest = d.manifest
  BY DEF Document, DocumentStatus, SectionPartial
<1>3. /\ SectionFinal(d, s) \in Document /\ SectionFinal(d, s).status # "none"
      /\ SectionFinal(d, s).sections = d.sections /\ SectionFinal(d, s).failed = d.failed
      /\ SectionFinal(d, s).manifest = d.manifest
  BY DEF Document, DocumentStatus, SectionFinal
<1>4. /\ SectionReady(d, s) \in Document /\ SectionReady(d, s).status # "none"
      /\ SectionReady(d, s).sections = d.sections \union {s}
      /\ SectionReady(d, s).failed = d.failed \ {s}
      /\ SectionReady(d, s).manifest = d.manifest
  BY DEF Document, DocumentStatus, SectionReady
<1> QED
  BY <1>1, <1>2, <1>3, <1>4

LEMMA DocumentEnds ==
    ASSUME NEW d \in Document, NEW bad \in SUBSET Sections
    PROVE  /\ FailedSnapshot(d) \in Document
           /\ FailedSnapshot(d).sections = d.sections /\ FailedSnapshot(d).failed = d.failed
           /\ FailedSnapshot(d).manifest = d.manifest /\ FailedSnapshot(d).status = "failed"
           /\ LET r == ResultDocument(d.manifest, d.sections, bad, d.partial)
              IN  /\ r \in Document /\ r.status \in Terminal
                  /\ r.sections = d.sections /\ r.manifest = d.manifest
                  /\ r.failed = bad \ d.sections
<1>1. /\ FailedSnapshot(d) \in Document
      /\ FailedSnapshot(d).sections = d.sections /\ FailedSnapshot(d).failed = d.failed
      /\ FailedSnapshot(d).manifest = d.manifest /\ FailedSnapshot(d).status = "failed"
  BY DEF FailedSnapshot, Document, DocumentStatus
<1>2. PICK st \in Terminal :
         ResultDocument(d.manifest, d.sections, bad, d.partial) =
           [status |-> st, manifest |-> d.manifest, sections |-> d.sections,
            partial |-> (d.partial \ d.sections) \ bad, failed |-> bad \ d.sections]
  BY DEF ResultDocument, Terminal
<1> QED
  BY <1>1, <1>2 DEF Document, DocumentStatus, Terminal

Stages == {"none", "outlined", "queued", "running", "final", "done", "failed"}
Jobs   == {"new", "running", "outlined", "saved", "settled", "announced", "dead"}

(* What the job writes.                                                    *)
JobTypes ==
    /\ row \in DocumentStatus \ {"none"} /\ doc \in Document
    /\ job \in Jobs /\ stage \in [Sections -> Stages] /\ runs \in 0..MaxAttempts

QueueType == queue \in Seq(Event) /\ Len(queue) <= MaxLag

LEMMA TypesAre ==
    TypeOK /\ queue \in Seq(Event) <=>
      /\ overridden \in BOOLEAN
      /\ server \in {"up", "draining", "stopped", "down", "marked"}
      /\ JobTypes /\ QueueType
      /\ report \in Report /\ recorder \in Report
      /\ closing \in {"none", "complete", "error"}
      /\ faults \in 0..MaxFaults
BY DEF TypeOK, JobTypes, QueueType, Stages, Jobs

LEMMA PublishFacts ==
    ASSUME QueueType, NEW ev \in Event, Publish(ev)
    PROVE  /\ QueueType'
           /\ \A i \in 1..Len(queue') :
                 \/ i \in 1..Len(queue) /\ queue'[i] = queue[i]
                 \/ i = Len(queue') /\ queue'[i] = ev
<1>1. queue \in Seq(Event) /\ Len(queue) \in Nat /\ MaxLag \in Nat
  BY MaxLagAssumption DEF QueueType
<1>2. CASE queue' = queue
  BY <1>1, <1>2 DEF QueueType
<1>3. CASE queue' = Append(queue, ev)
  <2>1. queue' \in Seq(Event) /\ Len(queue') = Len(queue) + 1 /\ queue'[Len(queue')] = ev
        /\ \A i \in 1..Len(queue) : queue'[i] = queue[i]
    BY <1>1, <1>3
  <2> QED
    BY <1>1, <2>1 DEF QueueType, Publish
<1> QED
  BY <1>2, <1>3 DEF Publish

(* While the job goes on, nobody has heard of its end.                     *)
LEMMA GoingOn ==
    ASSUME EndInv, OutcomeInv, job \notin {"announced", "dead"}
    PROVE  /\ \A i \in 1..Len(queue) : queue[i].type \notin EndTypes
           /\ recorder.status \notin EndKinds /\ closing = "none" /\ recorder.outcome = "none"
           /\ report.status \notin EndKinds /\ report.outcome = "none"
BY DEF EndInv, OutcomeInv, Ended, EndKinds

PublishesNoEnd(ev) ==
    /\ Publish(ev) /\ ev.type \notin EndTypes
    /\ ev.type = "ready" => ev.section \in doc'.sections

(* A step of a job that goes on, and at most tells of something else.      *)
LEMMA GoingKeeps ==
    ASSUME Inv, job \notin {"announced", "dead"}, UNCHANGED monitorVars,
           doc.sections \subseteq doc'.sections,
           \/ queue' = queue
           \/ \E ev \in Event : PublishesNoEnd(ev)
    PROVE  QueueType' /\ ReadyInv' /\ EndInv' /\ OutcomeInv'
<1>1. /\ \A i \in 1..Len(queue) : queue[i].type \notin EndTypes
      /\ recorder.status \notin EndKinds /\ closing = "none" /\ recorder.outcome = "none"
      /\ report.status \notin EndKinds /\ report.outcome = "none"
  BY GoingOn DEF Inv
<1>2. QueueType /\ ReadyInv
  BY TypesAre DEF Inv
<1>3. UNCHANGED <<report, recorder, closing, faults>>
  BY DEF monitorVars
<1> DEFINE Told == \A i \in 1..Len(queue') :
                     /\ queue'[i].type \notin EndTypes
                     /\ queue'[i].type = "ready" => queue'[i].section \in doc'.sections
<1>4. QueueType' /\ Told
  <2>1. CASE queue' = queue
    BY <1>1, <1>2, <2>1 DEF QueueType, ReadyInv
  <2>2. ASSUME NEW ev \in Event, PublishesNoEnd(ev)
        PROVE  QueueType' /\ Told
    <3>1. /\ QueueType'
          /\ \A i \in 1..Len(queue') :
                \/ i \in 1..Len(queue) /\ queue'[i] = queue[i]
                \/ i = Len(queue') /\ queue'[i] = ev
      BY <1>2, <2>2, PublishFacts DEF PublishesNoEnd
    <3> QED
      BY <1>1, <1>2, <2>2, <3>1 DEF ReadyInv, PublishesNoEnd
  <2> HIDE DEF Told
  <2> QED
    BY <2>1, <2>2
<1>5. ReadyInv'
  BY <1>2, <1>3, <1>4 DEF ReadyInv, With
<1>6. EndInv' /\ OutcomeInv'
  BY <1>1, <1>3, <1>4 DEF EndInv, OutcomeInv
<1> QED
  BY <1>4, <1>5, <1>6

(* What the steps of the job leave true.                                   *)
Kept == JobTypes' /\ DocInv' /\ QueueType' /\ ReadyInv' /\ EndInv' /\ OutcomeInv'

At(f, i, v) == [f EXCEPT ![i] = v]

(* A step about one section: its stage, and how its document grows.        *)
LEMMA SectionStepKeeps ==
    ASSUME Inv, NEW s \in Sections, job = "outlined", UNCHANGED <<row, job, monitorVars>>,
           NEW st, st \in Stages, stage' = At(stage, s, st), runs' \in 0..MaxAttempts,
           doc' \in Document, doc'.status # "none", doc'.manifest = doc.manifest \union {s},
           doc.sections \subseteq doc'.sections, doc'.sections \subseteq doc.sections \union {s},
           doc'.failed \subseteq doc.failed, s \in doc'.sections => s \in doc.sections \/ s \notin doc'.failed,
           NEW type \in SectionEvents, Said(type, s), type = "ready" => s \in doc'.sections
    PROVE  Kept
<1> DEFINE ev == [type |-> type, section |-> s]
<1>1. JobTypes /\ DocInv /\ stage \in [Sections -> Stages]
  BY TypesAre DEF Inv, JobTypes
<1>2. JobTypes'
  BY <1>1 DEF JobTypes, At
<1>3. DocInv'
  <2>1. doc'.sections \cap doc'.failed = {} /\ doc'.sections \subseteq doc'.manifest
    BY <1>1 DEF DocInv
  <2>2. \A z \in Sections : stage'[z] \notin {"none", "outlined"} => z \in doc'.manifest
    BY <1>1 DEF DocInv, At
  <2> QED
    BY <2>1, <2>2 DEF DocInv
<1>4. /\ Publish(ev) /\ ev \in Event /\ ev.type = type /\ ev.section = s
      /\ type \notin EndTypes
  BY DEF Said, Event, EndTypes, SectionEvents
<1> HIDE DEF ev
<1>5. QueueType' /\ ReadyInv' /\ EndInv' /\ OutcomeInv'
  <2>1. PublishesNoEnd(ev)
    BY <1>4 DEF PublishesNoEnd
  <2> QED
    BY <1>4, <2>1, GoingKeeps
<1> QED
  BY <1>2, <1>3, <1>5 DEF Kept

LEMMA SectionStepsKeep ==
    ASSUME Inv, NEW s \in Sections,
           \/ SectionStarts(s) \/ AttemptStarts(s) \/ NodeRuns(s) \/ AssetsAreTold(s)
           \/ MediaIsTold(s) \/ PartialIsSaved(s) \/ FinalIsSaved(s) \/ ReadyIsSaved(s)
           \/ SectionFails(s) \/ RetryIsQueued(s)
    PROVE  Kept
<1>1. /\ doc \in Document /\ stage \in [Sections -> Stages] /\ runs \in 0..MaxAttempts
      /\ MaxAttempts \in Nat /\ stage = At(stage, s, stage[s]) /\ DocInv
      /\ doc.status # "none"
  BY TypesAre, MaxAttemptsAssumption DEF Inv, JobTypes, At, DocInv
<1>2. job = "outlined" /\ UNCHANGED <<row, job, monitorVars>>
  BY DEF SectionStarts, AttemptStarts, NodeRuns, AssetsAreTold, MediaIsTold, PartialIsSaved,
         FinalIsSaved, ReadyIsSaved, SectionFails, RetryIsQueued, jobVars
<1>3. stage[s] \notin {"none", "outlined"} => s \in doc.manifest
  BY <1>1 DEF DocInv
<1>4. CASE SectionStarts(s)
  <2>1. /\ doc' = SectionStarted(doc, s) /\ stage' = At(stage, s, "queued") /\ runs' = runs
        /\ Said("started", s)
    BY <1>4 DEF SectionStarts, At
  <2> QED
    BY <1>1, <1>2, <2>1, DocumentSteps, SectionStepKeeps DEF SectionEvents, Stages
<1>5. CASE AttemptStarts(s)
  <2>1. /\ doc' = doc /\ stage' = At(stage, s, "running") /\ runs' \in 0..MaxAttempts
        /\ Said("attempt", s) /\ stage[s] = "queued"
    BY <1>1, <1>5 DEF AttemptStarts, At
  <2> QED
    BY <1>1, <1>2, <1>3, <2>1, SectionStepKeeps DEF SectionEvents, Stages
<1>6. CASE NodeRuns(s) \/ AssetsAreTold(s) \/ MediaIsTold(s)
  <2>1. PICK type \in {"node", "node_failed", "assets", "detail"} : Said(type, s)
    BY <1>6 DEF NodeRuns, AssetsAreTold, MediaIsTold
  <2>2. /\ doc' = doc /\ stage' = At(stage, s, "running") /\ runs' = runs
        /\ stage[s] = "running" /\ Said(type, s) /\ type \in SectionEvents
    BY <1>1, <1>6, <2>1 DEF NodeRuns, AssetsAreTold, MediaIsTold, jobVars, SectionEvents
  <2> QED
    BY <1>1, <1>2, <1>3, <2>1, <2>2, SectionStepKeeps DEF Stages
<1>7. CASE PartialIsSaved(s)
  <2>1. /\ doc' = SectionPartial(doc, s) /\ stage' = At(stage, s, "running") /\ runs' = runs
        /\ stage[s] = "running" /\ Said("partial", s)
    BY <1>1, <1>7 DEF PartialIsSaved, At
  <2>2. /\ doc' \in Document /\ doc'.status # "none" /\ doc'.manifest = doc.manifest \union {s}
        /\ doc.sections \subseteq doc'.sections /\ doc'.sections \subseteq doc.sections \union {s}
        /\ doc'.failed \subseteq doc.failed
        /\ s \in doc'.sections => s \in doc.sections \/ s \notin doc'.failed
    <3>1. /\ SectionPartial(doc, s) \in Document /\ SectionPartial(doc, s).status # "none"
          /\ SectionPartial(doc, s).manifest = doc.manifest
          /\ SectionPartial(doc, s).sections = doc.sections /\ SectionPartial(doc, s).failed = doc.failed \ {s}
      BY <1>1, DocumentSteps
    <3> QED
      BY <1>3, <2>1, <3>1
  <2> QED
    BY <1>1, <1>2, <2>1, <2>2, SectionStepKeeps DEF SectionEvents, Stages
<1>8. CASE FinalIsSaved(s)
  <2>1. /\ doc' = SectionFinal(doc, s) /\ stage' = At(stage, s, "final") /\ runs' = runs
        /\ stage[s] = "running" /\ Said("final", s)
    BY <1>8 DEF FinalIsSaved, At
  <2>2. /\ doc' \in Document /\ doc'.status # "none" /\ doc'.manifest = doc.manifest \union {s}
        /\ doc.sections \subseteq doc'.sections /\ doc'.sections \subseteq doc.sections \union {s}
        /\ doc'.failed \subseteq doc.failed
        /\ s \in doc'.sections => s \in doc.sections \/ s \notin doc'.failed
    <3>1. /\ SectionFinal(doc, s) \in Document /\ SectionFinal(doc, s).status # "none"
          /\ SectionFinal(doc, s).manifest = doc.manifest
          /\ SectionFinal(doc, s).sections = doc.sections /\ SectionFinal(doc, s).failed = doc.failed
      BY <1>1, DocumentSteps
    <3> QED
      BY <1>3, <2>1, <3>1
  <2> QED
    BY <1>1, <1>2, <2>1, <2>2, SectionStepKeeps DEF SectionEvents, Stages
<1>9. CASE ReadyIsSaved(s)
  <2>1. /\ doc' = SectionReady(doc, s) /\ stage' = At(stage, s, "done") /\ runs' = runs
        /\ stage[s] = "final" /\ Said("ready", s)
    BY <1>9 DEF ReadyIsSaved, At
  <2>2. /\ doc' \in Document /\ doc'.status # "none" /\ doc'.manifest = doc.manifest \union {s}
        /\ doc.sections \subseteq doc'.sections /\ doc'.sections \subseteq doc.sections \union {s}
        /\ doc'.failed \subseteq doc.failed
        /\ s \in doc'.sections => s \in doc.sections \/ s \notin doc'.failed
        /\ s \in doc'.sections
    <3>1. /\ SectionReady(doc, s) \in Document /\ SectionReady(doc, s).status # "none"
          /\ SectionReady(doc, s).manifest = doc.manifest
          /\ SectionReady(doc, s).sections = doc.sections \union {s} /\ SectionReady(doc, s).failed = doc.failed \ {s}
      BY <1>1, DocumentSteps
    <3> QED
      BY <1>3, <2>1, <3>1
  <2> QED
    BY <1>1, <1>2, <2>1, <2>2, SectionStepKeeps DEF SectionEvents, Stages
<1>10. CASE SectionFails(s)
  <2>1. /\ doc' = doc /\ stage' = At(stage, s, "failed") /\ runs' = runs
        /\ stage[s] = "running" /\ Said("section_failed", s)
    BY <1>10 DEF SectionFails, At
  <2> QED
    BY <1>1, <1>2, <1>3, <2>1, SectionStepKeeps DEF SectionEvents, Stages
<1>11. CASE RetryIsQueued(s)
  <2>1. /\ doc' = doc /\ stage' = At(stage, s, "queued") /\ runs' = runs
        /\ stage[s] \in {"running", "done"} /\ Said("retry", s)
    BY <1>11 DEF RetryIsQueued, At
  <2> QED
    BY <1>1, <1>2, <1>3, <2>1, SectionStepKeeps DEF SectionEvents, Stages
<1> QED
  BY <1>4, <1>5, <1>6, <1>7, <1>8, <1>9, <1>10, <1>11

LEMMA PlainEventIs ==
    /\ \A type \in {"pipeline_start", "complete", "error"} :
          [type |-> type] \in Event /\ [type |-> type].type = type
    /\ \A n \in 1..Cardinality(Sections) :
          LET ev == [type |-> "planned", size |-> n]
          IN  ev \in Event /\ ev.type = "planned"
BY DEF Event

(* The head of the job and the steps that end it.                          *)
LEMMA WholeStepsKeep ==
    ASSUME Inv, JobStarts \/ CurriculumPlanned \/ ResultIsSaved \/ RowIsSettled \/ JobFails
    PROVE  Kept
<1>1. /\ JobTypes /\ DocInv /\ doc \in Document /\ stage \in [Sections -> Stages]
      /\ row \in DocumentStatus \ {"none"} /\ runs \in 0..MaxAttempts
  BY TypesAre DEF Inv, JobTypes
<1>2. CASE JobStarts
  <2>1. /\ job = "new" /\ job' = "running" /\ row' = "running"
        /\ UNCHANGED <<doc, stage, runs, monitorVars>>
    BY <1>2 DEF JobStarts
  <2>2. JobTypes' /\ DocInv'
    BY <1>1, <2>1 DEF JobTypes, Jobs, DocInv, DocumentStatus
  <2> DEFINE ev == [type |-> "pipeline_start"]
  <2>3. ev \in Event /\ ev.type = "pipeline_start" /\ Publish(ev)
    BY <1>2, PlainEventIs DEF JobStarts
  <2> HIDE DEF ev
  <2>4. PublishesNoEnd(ev)
    BY <2>3 DEF PublishesNoEnd, EndTypes
  <2> QED
    BY <2>1, <2>2, <2>3, <2>4, GoingKeeps DEF Kept
<1>3. CASE CurriculumPlanned
  <2>1. PICK O \in (SUBSET Sections) \ {{}} :
           /\ Publish([type |-> "planned", size |-> Cardinality(O)])
           /\ stage' = [s \in Sections |-> IF s \in O THEN "outlined" ELSE "none"]
    BY <1>3 DEF CurriculumPlanned
  <2>2. job = "running" /\ job' = "outlined" /\ UNCHANGED <<row, doc, runs, monitorVars>>
    BY <1>3 DEF CurriculumPlanned
  <2>3. JobTypes' /\ DocInv'
    BY <1>1, <2>1, <2>2 DEF JobTypes, Jobs, Stages, DocInv
  <2> DEFINE ev == [type |-> "planned", size |-> Cardinality(O)]
  <2>4. Cardinality(O) \in 1..Cardinality(Sections)
    <3>1. IsFiniteSet(O) /\ Cardinality(O) <= Cardinality(Sections) /\ Cardinality(Sections) \in Nat
      BY SectionsAssumption, FS_Subset, FS_CardinalityType
    <3>2. Cardinality(O) \in Nat /\ Cardinality(O) # 0
      <4>1. Cardinality(O) \in Nat
        BY <3>1, FS_CardinalityType
      <4>2. Cardinality(O) # 0
        BY <3>1, FS_EmptySet
      <4> QED
        BY <4>1, <4>2
    <3> QED
      BY <3>1, <3>2
  <2>5. ev \in Event /\ ev.type = "planned" /\ Publish(ev)
    BY <2>1, <2>4, PlainEventIs
  <2> HIDE DEF ev
  <2>6. PublishesNoEnd(ev)
    BY <2>5 DEF PublishesNoEnd, EndTypes
  <2> QED
    BY <2>2, <2>3, <2>5, <2>6, GoingKeeps DEF Kept
<1>4. CASE ResultIsSaved
  <2> DEFINE bad == {s \in Sections : stage[s] = "failed"}
  <2>1. /\ job = "outlined" /\ job' = "saved" /\ UNCHANGED <<row, stage, runs, queue, monitorVars>>
        /\ doc' = ResultDocument(doc.manifest, doc.sections, bad, doc.partial)
    BY <1>4 DEF ResultIsSaved
  <2>2. bad \in SUBSET Sections
    OBVIOUS
  <2> HIDE DEF bad
  <2>3. /\ doc' \in Document /\ doc'.status \in Terminal /\ doc'.sections = doc.sections
        /\ doc'.manifest = doc.manifest /\ doc'.failed = bad \ doc.sections
    BY <1>1, <2>1, <2>2, DocumentEnds
  <2>4. JobTypes' /\ DocInv'
    BY <1>1, <2>1, <2>3 DEF JobTypes, Jobs, DocInv, Terminal
  <2> QED
    BY <2>1, <2>3, <2>4, GoingKeeps DEF Kept
<1>5. CASE RowIsSettled
  <2>1. /\ job = "saved" /\ job' = "settled" /\ row' = doc.status
        /\ UNCHANGED <<doc, stage, runs, queue, monitorVars>>
    BY <1>5 DEF RowIsSettled
  <2>2. JobTypes' /\ DocInv'
    BY <1>1, <2>1 DEF JobTypes, Jobs, DocInv, Terminal, DocumentStatus
  <2> QED
    BY <2>1, <2>2, GoingKeeps DEF Kept
<1>6. CASE JobFails
  <2>1. /\ job \in {"new", "running", "outlined"} /\ job' = "settled" /\ row' = "failed"
        /\ doc' = FailedSnapshot(doc) /\ UNCHANGED <<stage, runs, queue, monitorVars>>
    BY <1>6 DEF JobFails
  <2>2. /\ doc' \in Document /\ doc'.sections = doc.sections /\ doc'.failed = doc.failed
        /\ doc'.manifest = doc.manifest /\ doc'.status = "failed"
    BY <1>1, <2>1, DocumentEnds
  <2>3. JobTypes' /\ DocInv'
    BY <1>1, <2>1, <2>2 DEF JobTypes, Jobs, DocInv, Terminal, DocumentStatus
  <2> QED
    BY <2>1, <2>2, <2>3, GoingKeeps DEF Kept
<1> QED
  BY <1>2, <1>3, <1>4, <1>5, <1>6

(* The end is announced after everything else.                             *)
LEMMA AnnounceKeeps ==
    ASSUME Inv, Announce
    PROVE  Kept
<1>0. PICK type \in EndTypes : (type = "error" <=> row = "failed") /\ Publish([type |-> type])
  BY DEF Announce, EndTypes
<1> DEFINE ev == [type |-> type]
<1>1. /\ job = "settled" /\ job' = "announced" /\ Publish(ev)
      /\ UNCHANGED <<row, doc, stage, runs, report, recorder, closing, faults>>
  BY <1>0 DEF Announce, monitorVars
<1>2. ev \in Event /\ ev.type = type
  BY PlainEventIs DEF EndTypes
<1> HIDE DEF ev
<1>3. JobTypes /\ DocInv /\ row \in Terminal /\ QueueType /\ ReadyInv
  BY <1>1, TypesAre DEF Inv, DocInv
<1>4. /\ \A i \in 1..Len(queue) : queue[i].type \notin EndTypes
      /\ recorder.status \notin EndKinds /\ closing = "none" /\ recorder.outcome = "none"
      /\ report.status \notin EndKinds /\ report.outcome = "none"
  BY <1>1, GoingOn DEF Inv
<1>5. /\ QueueType'
      /\ \A i \in 1..Len(queue') :
            \/ i \in 1..Len(queue) /\ queue'[i] = queue[i]
            \/ i = Len(queue') /\ queue'[i] = ev
  BY <1>1, <1>2, <1>3, PublishFacts
<1>6. JobTypes' /\ DocInv'
  BY <1>1, <1>3 DEF JobTypes, Jobs, DocInv
<1>7. ReadyInv'
  BY <1>1, <1>2, <1>3, <1>5 DEF ReadyInv, With, EndTypes
<1>8. Ended(type = "error")'
  BY <1>0, <1>1, <1>3 DEF Ended
<1>9. EndInv' /\ OutcomeInv'
  BY <1>1, <1>2, <1>4, <1>5, <1>8 DEF EndInv, OutcomeInv
<1> QED
  BY <1>5, <1>6, <1>7, <1>9 DEF Kept

-----------------------------------------------------------------------------
(* The monitor's steps.                                                    *)

MonitorTypes ==
    /\ report \in Report /\ recorder \in Report
    /\ closing \in {"none", "complete", "error"} /\ faults \in 0..MaxFaults

(* While an event waits or an end is to be finalised, no outcome is known. *)
LEMMA BeforeTheOutcome ==
    ASSUME EndInv, OutcomeInv, queue # << >> \/ closing # "none"
    PROVE  /\ report.outcome = "none" /\ recorder.outcome = "none"
           /\ queue # << >> => recorder.status \notin EndKinds
BY DEF EndInv, OutcomeInv, EndKinds

LEMMA TailFacts ==
    ASSUME NEW q \in Seq(Event), q # << >>
    PROVE  /\ Head(q) \in Event /\ Head(q) = q[1] /\ 1 \in 1..Len(q)
           /\ Tail(q) \in Seq(Event) /\ Len(Tail(q)) = Len(q) - 1 /\ Len(q) \in Nat \ {0}
           /\ \A i \in 1..Len(Tail(q)) : i + 1 \in 1..Len(q) /\ Tail(q)[i] = q[i + 1]
           /\ Len(q) = 1 => Tail(q) = << >>
<1>1. Len(q) \in Nat \ {0}
  OBVIOUS
<1>2. /\ Tail(q) \in Seq(Event) /\ Len(Tail(q)) = Len(q) - 1
      /\ \A i \in 1..Len(Tail(q)) : Tail(q)[i] = q[i + 1]
  BY <1>1
<1>3. Head(q) = q[1] /\ 1 \in 1..Len(q) /\ q[1] \in Event
  BY <1>1
<1>4. \A i \in 1..Len(Tail(q)) : i + 1 \in 1..Len(q)
  BY <1>1, <1>2
<1>5. Len(q) = 1 => Tail(q) = << >>
  <2>1. Len(q) = 1 => Len(Tail(q)) = 0
    BY <1>1, <1>2
  <2> QED
    BY <1>2, <2>1, EmptySeq
<1> QED
  BY <1>1, <1>2, <1>3, <1>4, <1>5

LEMMA EnsuredFacts ==
    ASSUME Inv, queue # << >>
    PROVE  /\ EnsuredRecorder \in Report /\ EnsuredRecorder # NoReport
           /\ EnsuredRecorder.outcome = "none" /\ EnsuredRecorder.status \notin EndKinds
           /\ With(EnsuredRecorder, "ready") \subseteq doc.sections
<1>1. recorder \in Report /\ recorder.outcome = "none" /\ recorder.status \notin EndKinds
      /\ With(recorder, "ready") \subseteq doc.sections
  BY BeforeTheOutcome DEF Inv, TypeOK, ReadyInv
<1> QED
  BY <1>1, NoReportIs DEF EnsuredRecorder, EndKinds

(* An event is handled: the last one may be the end.                       *)
LEMMA HandleKeeps ==
    ASSUME Inv, Handle
    PROVE  MonitorTypes' /\ QueueType' /\ ReadyInv' /\ EndInv' /\ OutcomeInv'
<1> DEFINE e == EnsuredRecorder
           h == Head(queue)
           a == Applied(e, h)
<1>1. /\ MonitorTypes /\ QueueType /\ ReadyInv /\ EndInv /\ OutcomeInv
      /\ queue \in Seq(Event) /\ queue # << >> /\ closing = "none"
  BY TypesAre DEF Inv, MonitorTypes, QueueType, Handle, Monitoring
<1>2. /\ e \in Report /\ e # NoReport /\ e.outcome = "none" /\ e.status \notin EndKinds
      /\ With(e, "ready") \subseteq doc.sections
  BY <1>1, EnsuredFacts
<1>3. /\ h \in Event /\ h = queue[1] /\ queue' = Tail(queue) /\ queue' \in Seq(Event)
      /\ 1 \in 1..Len(queue) /\ Len(queue) \in Nat \ {0} /\ Len(queue') = Len(queue) - 1
      /\ \A i \in 1..Len(queue') : i + 1 \in 1..Len(queue) /\ queue'[i] = queue[i + 1]
      /\ Len(queue) = 1 => queue' = << >>
  BY <1>1, TailFacts DEF Handle
<1>4. /\ a \in Report /\ a.outcome = "none"
      /\ a.status = CASE h.type = "pipeline_start" -> "running"
                      [] h.type = "complete" -> "completed"
                      [] h.type = "error" -> "failed"
                      [] OTHER -> e.status
      /\ With(a, "ready") \subseteq
            With(e, "ready") \union (IF h.type = "ready" THEN {h.section} ELSE {})
  BY <1>2, <1>3, AppliedFacts
<1>5. /\ recorder' = a /\ UNCHANGED <<row, doc, job>>
      /\ \/ report' = a /\ faults' = faults /\ closing' = IF h.type \in EndTypes THEN h.type ELSE "none"
         \/ report' = report /\ faults < MaxFaults /\ faults' = faults + 1 /\ closing' = closing
  BY <1>2 DEF Handle, Saves, SaveFails, EndTypes, jobVars
<1>6. h.type \in EndTypes => queue' = << >> /\ Ended(h.type = "error")
  BY <1>1, <1>3 DEF EndInv
<1> HIDE DEF e, a, h
<1>7. /\ a.status \in EndKinds => h.type \in EndTypes
      /\ h.type \in EndTypes => a.status = IF h.type = "error" THEN "failed" ELSE "completed"
      /\ With(a, "ready") \subseteq doc.sections
  <2>1. h.type = "ready" => h.section \in doc.sections
    BY <1>1, <1>3 DEF ReadyInv
  <2> QED
    BY <1>2, <1>4, <2>1 DEF EndKinds, EndTypes
<1>8. MonitorTypes' /\ QueueType'
  <2>1. MonitorTypes'
    BY <1>1, <1>4, <1>5, MaxFaultsAssumption DEF MonitorTypes, EndTypes
  <2> QED
    BY <1>1, <1>3, <2>1, MaxLagAssumption DEF QueueType
<1>9. ReadyInv'
  <2>1. \A i \in 1..Len(queue') : queue'[i].type = "ready" => queue'[i].section \in doc.sections
    BY <1>1, <1>3 DEF ReadyInv
  <2>2. With(report', "ready") \subseteq doc.sections
    BY <1>1, <1>5, <1>7 DEF ReadyInv
  <2> QED
    BY <1>5, <1>7, <2>1, <2>2 DEF ReadyInv, With
<1>10. a.status \in EndKinds => queue' = << >> /\ Ended(a.status = "failed")
  BY <1>6, <1>7 DEF EndTypes
<1>11. EndInv' /\ OutcomeInv'
  <2>2. ASSUME NEW i \in 1..Len(queue'), queue'[i].type \in EndTypes
        PROVE  i = Len(queue') /\ Ended(queue'[i].type = "error")
    <3>1. i + 1 \in 1..Len(queue) /\ queue'[i] = queue[i + 1]
      BY <1>3
    <3>2. i + 1 = Len(queue) /\ Ended(queue[i + 1].type = "error")
      BY <1>1, <2>2, <3>1 DEF EndInv
    <3> QED
      BY <1>3, <3>1, <3>2
  <2>3. report'.status \in EndKinds => Ended(report'.status = "failed")
    BY <1>1, <1>5, <1>10 DEF EndInv
  <2>4. report'.outcome = "none" /\ recorder'.outcome = "none"
    BY <1>1, <1>4, <1>5, BeforeTheOutcome
  <2>5. closing' # "none" => recorder'.status = IF closing' = "error" THEN "failed" ELSE "completed"
    BY <1>1, <1>5, <1>7 DEF EndTypes
  <2>6. OutcomeInv'
    BY <2>4 DEF OutcomeInv
  <2> QED
    BY <1>5, <1>10, <2>2, <2>3, <2>4, <2>5, <2>6 DEF EndInv, Ended
<1> QED
  BY <1>8, <1>9, <1>11

(* The end is finalised: the report has its outcome, or the save failed    *)
(* and the recorder keeps it.                                              *)
LEMMA FinalizeKeeps ==
    ASSUME Inv, Finalize
    PROVE  MonitorTypes' /\ QueueType' /\ ReadyInv' /\ EndInv' /\ OutcomeInv'
<1>1. /\ MonitorTypes /\ QueueType /\ ReadyInv /\ EndInv /\ OutcomeInv /\ DocInv
      /\ doc \in Document /\ closing # "none" /\ closing' = "none"
      /\ UNCHANGED <<row, doc, job, queue>>
  BY TypesAre DEF Inv, MonitorTypes, JobTypes, Finalize, jobVars
<1>2. /\ recorder.status \in EndKinds /\ queue = << >> /\ Ended(recorder.status = "failed")
      /\ recorder.status = IF closing = "error" THEN "failed" ELSE "completed"
      /\ report.outcome = "none" /\ recorder.outcome = "none"
  BY <1>1, BeforeTheOutcome DEF EndInv, EndKinds
<1>3. /\ recorder \in Report /\ report \in Report
      /\ With(recorder, "ready") \subseteq doc.sections
      /\ With(report, "ready") \subseteq doc.sections
  BY <1>1 DEF MonitorTypes, ReadyInv
<1>4. QueueType'
  BY <1>1 DEF QueueType
<1>5. CASE closing = "complete" /\ ~overridden
  <2>1. UNCHANGED <<report, recorder, faults, row, doc, job, queue>>
    BY <1>1, <1>5 DEF Finalize
  <2> QED
    BY <1>1, <1>2, <1>4, <2>1
       DEF MonitorTypes, ReadyInv, With, EndInv, Ended, OutcomeInv
<1>6. CASE ~(closing = "complete" /\ ~overridden)
  <2> DEFINE Final(f) == /\ f \in Report /\ f.status = recorder.status
                         /\ f.status = "failed" => f.outcome = "failed"
                         /\ f.outcome # "none"
                         /\ f.status # "failed" => f.outcome \in {"full", "partial"}
                         /\ With(f, "ready") \subseteq doc.sections
                         /\ f.outcome \in {"full", "partial"} => With(f, "ready") = doc.sections
                         /\ f.outcome = "full" => doc.sections = doc.manifest
  <2>1. PICK f : /\ f = IF closing = "complete" THEN FinalizedSuccess(recorder, doc)
                                               ELSE FinalizedFailure(recorder)
                 /\ \/ report' = f /\ faults' = faults /\ recorder' = NoReport
                    \/ report' = report /\ faults < MaxFaults /\ faults' = faults + 1
                       /\ recorder' = f
    BY <1>6 DEF Finalize, Saves, SaveFails
  <2>2. Final(f)
    <3>1. CASE closing = "complete"
      <4>1. f = FinalizedSuccess(recorder, doc)
        BY <2>1, <3>1
      <4>2. doc.sections \subseteq doc.manifest /\ doc.sections \cap doc.failed = {}
        BY <1>1 DEF DocInv
      <4> QED
        BY <1>1, <1>2, <1>3, <3>1, <4>1, <4>2, FinalizedSuccessFacts
    <3>2. CASE closing # "complete"
      <4>1. f = FinalizedFailure(recorder) /\ closing = "error"
        BY <1>1, <2>1, <3>2 DEF MonitorTypes
      <4> QED
        BY <1>2, <1>3, <4>1, FinalizedFailureFacts
    <3> QED
      BY <3>1, <3>2
  <2>3. MonitorTypes'
    BY <1>1, <2>1, <2>2, NoReportIs, MaxFaultsAssumption DEF MonitorTypes
  <2>4. ReadyInv'
    <3>1. With(report', "ready") \subseteq doc.sections /\ With(recorder', "ready") \subseteq doc.sections
      BY <1>3, <2>1, <2>2, NoReportIs
    <3> QED
      BY <1>1, <1>2, <3>1 DEF ReadyInv, With
  <2>6. EndInv' /\ OutcomeInv'
    <3>1. CASE report' = f /\ recorder' = NoReport
      <4>1. EndInv'
        BY <1>1, <1>2, <2>2, <3>1, NoReportIs DEF EndInv, EndKinds, Ended
      <4>2. OutcomeInv'
        <5>1. With(report, "ready")' = With(f, "ready")
          BY <3>1 DEF With
        <5>2. f.status = IF f.outcome = "failed" THEN "failed" ELSE "completed"
          BY <1>2, <2>2 DEF EndKinds
        <5> QED
          BY <1>1, <1>2, <2>2, <3>1, <5>1, <5>2 DEF OutcomeInv
      <4> QED
        BY <4>1, <4>2
    <3>2. CASE report' = report /\ recorder' = f
      BY <1>1, <1>2, <2>2, <3>2 DEF EndInv, EndKinds, Ended, OutcomeInv
    <3> QED
      BY <2>1, <3>1, <3>2
  <2> QED
    BY <1>4, <2>3, <2>4, <2>6
<1> QED
  BY <1>5, <1>6

-----------------------------------------------------------------------------
(* The server's steps.                                                     *)

(* Whoever forgets everything but the row and its report breaks nothing.   *)
LEMMA ForgettingKeeps ==
    ASSUME Inv, queue' = << >>, recorder' = NoReport, closing' = "none",
           UNCHANGED <<row, doc, report, faults>>, job' = job \/ job' = "dead"
    PROVE  MonitorTypes' /\ QueueType' /\ ReadyInv' /\ EndInv' /\ OutcomeInv'
<1>1. /\ MonitorTypes /\ QueueType /\ ReadyInv /\ EndInv /\ OutcomeInv
  BY TypesAre DEF Inv, MonitorTypes
<1>2. MonitorTypes' /\ QueueType'
  BY <1>1, NoReportIs, MaxLagAssumption DEF MonitorTypes, QueueType
<1>3. ReadyInv'
  BY <1>1, NoReportIs DEF ReadyInv, With
<1>4. EndInv'
  BY <1>1, NoReportIs DEF EndInv, EndKinds, Ended
<1>5. OutcomeInv'
  BY <1>1 DEF OutcomeInv, With
<1> QED
  BY <1>2, <1>3, <1>4, <1>5

LEMMA ServerStepsKeep ==
    ASSUME Inv, ServerStep
    PROVE  MonitorTypes' /\ Kept
<1>1. /\ JobTypes /\ QueueType /\ MonitorTypes /\ DocInv /\ ReadyInv /\ EndInv
      /\ OutcomeInv /\ ServerInv /\ doc \in Document
  BY TypesAre DEF Inv, MonitorTypes, JobTypes
<1>2. CASE BeginStop
  <2>1. UNCHANGED <<row, doc, job, stage, runs, queue, report, recorder, closing, faults>>
    BY <1>2 DEF BeginStop, jobVars, monitorVars
  <2> QED
    BY <1>1, <2>1 DEF MonitorTypes, Kept, JobTypes, DocInv, QueueType, ReadyInv, With,
                      EndInv, Ended, OutcomeInv
<1>3. CASE MonitorStops \/ Ends
  <2>1. /\ queue' = << >> /\ recorder' = NoReport /\ closing' = "none"
        /\ UNCHANGED <<row, doc, stage, runs, report, faults>> /\ (job' = job \/ job' = "dead")
    BY <1>3 DEF MonitorStops, Ends, jobVars
  <2>2. JobTypes' /\ DocInv'
    BY <1>1, <2>1 DEF JobTypes, Jobs, DocInv
  <2> QED
    BY <2>1, <2>2, ForgettingKeeps DEF Kept
<1>4. CASE MarkStale
  <2>1. /\ job = "dead" /\ recorder = NoReport /\ queue = << >> /\ closing = "none"
        /\ UNCHANGED <<job, stage, runs, queue, report, recorder, closing, faults>>
    BY <1>1, <1>4 DEF MarkStale, ServerInv, monitorVars
  <2>2. CASE UNCHANGED <<row, doc>>
    BY <1>1, <2>1, <2>2 DEF MonitorTypes, Kept, JobTypes, DocInv, QueueType, ReadyInv, With,
                            EndInv, Ended, OutcomeInv
  <2>3. CASE row \in {"pending", "running"} /\ row' = "failed" /\ doc' = InterruptedSnapshot(doc)
    <3>1. doc' = FailedSnapshot(doc)
      BY <1>1, <2>3 DEF InterruptedSnapshot, DocInv
    <3>2. /\ doc' \in Document /\ doc'.status = "failed" /\ doc'.sections = doc.sections
          /\ doc'.failed = doc.failed /\ doc'.manifest = doc.manifest
      BY <1>1, <3>1, DocumentEnds
    <3>3. JobTypes' /\ DocInv'
      BY <1>1, <2>1, <2>3, <3>2 DEF JobTypes, DocumentStatus, DocInv
    <3>4. report.status \notin EndKinds /\ report.outcome = "none"
      <4>1. report.status \notin EndKinds
        BY <1>1, <2>3 DEF EndInv, Ended, Terminal
      <4> QED
        BY <1>1, <4>1 DEF OutcomeInv, EndKinds
    <3>5. QueueType' /\ MonitorTypes' /\ ReadyInv'
      BY <1>1, <2>1, <3>2 DEF QueueType, MonitorTypes, ReadyInv, With
    <3>6. EndInv' /\ OutcomeInv'
      BY <2>1, <3>4, NoReportIs DEF EndInv, OutcomeInv, EndKinds
    <3> QED
      BY <3>3, <3>5, <3>6 DEF Kept
  <2> QED
    BY <1>4, <2>2, <2>3 DEF MarkStale
<1>5. CASE Backfill
  <2>1. /\ job = "dead" /\ recorder = NoReport /\ queue = << >> /\ closing = "none"
        /\ UNCHANGED <<row, doc, job, stage, runs, queue, recorder, closing, faults>>
        /\ \/ report' = report
           \/ row = "failed" /\ report' = Backfilled(doc)
    BY <1>1, <1>5 DEF Backfill, ServerInv, jobVars
  <2>2. JobTypes' /\ DocInv' /\ QueueType'
    BY <1>1, <2>1 DEF JobTypes, DocInv, QueueType
  <2>3. CASE report' = report
    BY <1>1, <2>1, <2>2, <2>3 DEF MonitorTypes, Kept, ReadyInv, With, EndInv, Ended, OutcomeInv
  <2>4. CASE row = "failed" /\ report' = Backfilled(doc)
    <3>1. /\ report' \in Report /\ report'.status = "failed" /\ report'.outcome = "failed"
          /\ With(report', "ready") \subseteq doc.sections
      BY <1>1, <2>4, BackfilledFacts
    <3>2. MonitorTypes'
      BY <1>1, <2>1, <3>1 DEF MonitorTypes
    <3>3. ReadyInv'
      BY <1>1, <2>1, <3>1 DEF ReadyInv, With
    <3>4. EndInv'
      BY <2>1, <2>4, <3>1, NoReportIs DEF EndInv, Ended, Terminal, EndKinds
    <3>5. OutcomeInv'
      BY <2>1, <3>1 DEF OutcomeInv
    <3> QED
      BY <2>2, <3>2, <3>3, <3>4, <3>5 DEF Kept
  <2> QED
    BY <2>1, <2>3, <2>4
<1> QED
  BY <1>2, <1>3, <1>4, <1>5 DEF ServerStep

(* A process that is gone starts again only with the backfill.             *)
LEMMA ServerInvKept ==
    ASSUME Inv, Next
    PROVE  ServerInv'
<1>1. ServerInv
  BY DEF Inv
<1>2. CASE JobStep
  <2>1. Alive /\ server' = server
    BY <1>2 DEF JobStep, JobStarts, CurriculumPlanned, ResultIsSaved, RowIsSettled,
         JobFails, Announce, SectionStarts, AttemptStarts, NodeRuns, AssetsAreTold,
         MediaIsTold, PartialIsSaved, FinalIsSaved,
         ReadyIsSaved, SectionFails, RetryIsQueued
  <2> QED
    BY <2>1 DEF Alive, ServerInv
<1>3. CASE MonitorStep
  BY <1>3 DEF MonitorStep, Handle, Monitoring, Finalize, ServerInv
<1>4. CASE ServerStep
  BY <1>1, <1>4 DEF ServerStep, BeginStop, MonitorStops, Ends, MarkStale, Backfill, ServerInv,
                    monitorVars, jobVars
<1> QED
  BY <1>2, <1>3, <1>4 DEF Next

-----------------------------------------------------------------------------
(* The theorems.                                                           *)

LEMMA InitInv == Init => Inv
<1> SUFFICES ASSUME Init PROVE Inv
  OBVIOUS
<1>1. /\ doc \in Document /\ doc.status = "pending" /\ doc.sections = {} /\ doc.failed = {}
  BY DEF Init, InitialDocument, EmptyDocument, Document, DocumentStatus
<1>2. TypeOK /\ queue \in Seq(Event)
  <2>1. JobTypes
    BY <1>1, MaxAttemptsAssumption DEF Init, JobTypes, DocumentStatus, Jobs, Stages
  <2>2. QueueType
    BY MaxLagAssumption DEF Init, QueueType
  <2> QED
    BY <2>1, <2>2, TypesAre, NoReportIs, MaxFaultsAssumption DEF Init
<1>3. DocInv
  BY <1>1 DEF Init, DocInv
<1>4. ReadyInv /\ EndInv /\ OutcomeInv /\ ServerInv
  BY NoReportIs DEF Init, ReadyInv, EndInv, OutcomeInv, ServerInv, EndKinds
<1> QED
  BY <1>2, <1>3, <1>4 DEF Inv

LEMMA NextInv == Inv /\ [Next]_vars => Inv'
<1> SUFFICES ASSUME Inv, [Next]_vars PROVE Inv'
  OBVIOUS
<1>1. CASE UNCHANGED vars
  BY <1>1 DEF Inv, vars, jobVars, monitorVars, TypeOK, DocInv, ReadyInv, EndInv, Ended,
              OutcomeInv, ServerInv, With
<1>2. CASE Next
  <2>1. ServerInv'
    BY <1>2, ServerInvKept
  <2>2. /\ overridden' \in BOOLEAN
        /\ server' \in {"up", "draining", "stopped", "down", "marked"}
    BY <1>2 DEF Inv, TypeOK, Next, JobStep, JobStarts, CurriculumPlanned, ResultIsSaved,
         RowIsSettled, JobFails, Announce, SectionStarts, AttemptStarts, NodeRuns,
         AssetsAreTold, MediaIsTold,
         PartialIsSaved, FinalIsSaved, ReadyIsSaved, SectionFails, RetryIsQueued,
         MonitorStep, Handle, Finalize, ServerStep, BeginStop, MonitorStops, Ends,
         MarkStale, Backfill
  <2>3. MonitorTypes' /\ Kept
    <3>1. CASE JobStep
      <4>1. Kept
        BY <3>1, WholeStepsKeep, AnnounceKeeps, SectionStepsKeep DEF JobStep
      <4>2. UNCHANGED monitorVars
        BY <3>1 DEF JobStep, JobStarts, CurriculumPlanned, ResultIsSaved, RowIsSettled,
             JobFails, Announce, SectionStarts, AttemptStarts, NodeRuns, AssetsAreTold,
             MediaIsTold, PartialIsSaved,
             FinalIsSaved, ReadyIsSaved, SectionFails, RetryIsQueued
      <4> QED
        BY <4>1, <4>2, TypesAre DEF Inv, MonitorTypes, monitorVars
    <3>2. CASE MonitorStep
      <4>1. JobTypes' /\ DocInv'
        BY <3>2, TypesAre DEF MonitorStep, Handle, Finalize, jobVars, Inv, JobTypes, DocInv
      <4> QED
        BY <3>2, <4>1, HandleKeeps, FinalizeKeeps DEF MonitorStep, Kept
    <3>3. CASE ServerStep
      BY <3>3, ServerStepsKeep
    <3> QED
      BY <1>2, <3>1, <3>2, <3>3 DEF Next
  <2>4. (TypeOK /\ queue \in Seq(Event))'
    BY <2>2, <2>3 DEF MonitorTypes, Kept, TypeOK, JobTypes, QueueType, Stages, Jobs
  <2> QED
    BY <2>1, <2>3, <2>4 DEF Inv, Kept
<1> QED
  BY <1>1, <1>2

(* The inductive invariant holds: no order of saves, events and restarts   *)
(* lets the report know more than the document.                            *)
THEOREM InvHolds == Spec => []Inv
<1> QED
  BY InitInv, NextInv, PTL DEF Spec

(* The state has its type, whatever is lost or late.                       *)
THEOREM TypesHold == Spec => []TypeOK
<1>1. Inv => TypeOK
  BY DEF Inv
<1> QED
  BY <1>1, InvHolds, PTL

(* However far the monitor is behind and whatever save fails, a section    *)
(* the report calls ready is in the document: on_event saves the document  *)
(* before the event is published.                                          *)
THEOREM ReadyIsAlwaysKept == Spec => []ReadyIsKept
<1>1. Inv => ReadyIsKept
  BY DEF Inv, ReadyInv, ReadyIsKept
<1> QED
  BY <1>1, InvHolds, PTL

(* The report ends as the row does, and never before it: also for a        *)
(* generation whose process died and whose report is built at the start.   *)
THEOREM ReportAlwaysFollowsRow == Spec => []ReportFollowsRow
<1>1. Inv => ReportFollowsRow
  BY DEF Inv, EndInv, EndKinds, Ended, ReportFollowsRow
<1> QED
  BY <1>1, InvHolds, PTL

(* An outcome is true of the document beside it.                           *)
THEOREM OutcomeIsAlwaysTrue == Spec => []OutcomeIsTrue
<1>1. Inv => OutcomeIsTrue
  BY DEF Inv, OutcomeInv, EndInv, EndKinds, Ended, OutcomeIsTrue
<1> QED
  BY <1>1, InvHolds, PTL

(* Once a report has its outcome no step changes it: neither an event that *)
(* was still on its way, nor a second end, nor the backfill.               *)
THEOREM OutcomeIsAlwaysLast == Spec => OutcomeIsLast
<1>1. Inv /\ [Next]_vars => [report.outcome # "none" => UNCHANGED report]_vars
  <2> SUFFICES ASSUME Inv, Next, report.outcome # "none" PROVE report' = report
    OBVIOUS
  <2>1. queue = << >> /\ closing = "none"
    BY DEF Inv, OutcomeInv
  <2>2. ~MonitorStep
    BY <2>1 DEF MonitorStep, Handle, Monitoring, Finalize
  <2>3. CASE JobStep
    BY <2>3 DEF JobStep, JobStarts, CurriculumPlanned, ResultIsSaved, RowIsSettled,
         JobFails, Announce, SectionStarts, AttemptStarts, NodeRuns, AssetsAreTold,
         MediaIsTold, PartialIsSaved,
         FinalIsSaved, ReadyIsSaved, SectionFails, RetryIsQueued, monitorVars
  <2>4. CASE ServerStep
    BY <2>4, NoReportIs DEF ServerStep, BeginStop, MonitorStops, Ends, MarkStale, Backfill,
                            monitorVars
  <2> QED
    BY <2>2, <2>3, <2>4 DEF Next
<1> QED
  BY <1>1, InvHolds, PTL DEF Spec, OutcomeIsLast
=============================================================================
