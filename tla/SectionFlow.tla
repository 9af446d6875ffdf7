---------------------------- MODULE SectionFlow ----------------------------
(***************************************************************************)
(* What one node of the pipeline can do to one section: content and its    *)
(* validation, the media plan and its executors, assembly and quality      *)
(* control, and the three compositions the graph runs of them.             *)
(*                                                                         *)
(* A node maps the record a task holds of its section to the set of the    *)
(* records it can leave, one for each answer of the models it calls.       *)
(* Frames, prompts and texts are abstracted to what routing reads: whether *)
(* a frame has its artifact, and which blocks a report complains of.       *)
(***************************************************************************)
EXTENDS Naturals, FiniteSets, Sequences

CONSTANTS
    MaxRerenders,   \* max_rerenders of the run's policy
    Verdicts        \* sets of blocks a QC report can have blocking issues for

ASSUME MaxRerendersAssumption == MaxRerenders \in Nat
ASSUME VerdictsAssumption == IsFiniteSet(Verdicts)

NoBlock  == "none"
NoReport == {NoBlock}

TextFields  == {"hook", "practice"}
MediaBlocks == {"diagram", "diagram_series", "simulation"}

(* A slot is named after the way it is made: an SVG diagram, a series of   *)
(* images, a simulation.  Executors and slots are taken in this order.     *)
Kinds == {"svg", "image", "simulation"}
Rank  == [svg |-> 1, image |-> 2, simulation |-> 3]
FirstOf(K) == CHOOSE k \in K : \A j \in K : Rank[k] <= Rank[j]
LastOf(K)  == CHOOSE k \in K : \A j \in K : Rank[j] <= Rank[k]
BlockOf == [svg |-> "diagram", image |-> "diagram_series", simulation |-> "simulation"]

MaxMediaFrameRetries == 1

(* What a section's entries in the channels of the state amount to.        *)
NewSection ==
    [content |-> "none", schema |-> "none", planned |-> FALSE,
     frame |-> [k \in Kinds |-> "none"], tries |-> [k \in Kinds |-> 0],
     partial |-> FALSE, pending |-> FALSE, life |-> "none",
     assembled |-> FALSE, failed |-> "no", report |-> NoReport,
     request |-> NoBlock, reruns |-> 0]

(* Mutant: a rerender that answers a request is not counted.               *)
RanAgain(s) == s

Reran(s) == [s EXCEPT !.reruns = IF s.request = NoBlock THEN @ ELSE @ + 1]

-----------------------------------------------------------------------------
(* The media of a section.                                                 *)

(* pending_required_slot_ids                                               *)
Pending(s, need) ==
    IF s.planned THEN {k \in need : s.frame[k] # "ready"} ELSE {}

(* Mutant: one retry too many.                                             *)
ExhaustedLate(s, k) == s.tries[k] > MaxMediaFrameRetries

Exhausted(s, k) == s.tries[k] >= MaxMediaFrameRetries

(* next_retry_request: the first required slot that a media block of the   *)
(* issues names (any slot, if none is of media) and that may be tried.     *)
NextRetry(s, need, blocks) ==
    LET media == blocks \intersect MediaBlocks
        open  == {k \in Pending(s, need) :
                     ~Exhausted(s, k) /\ (media = {} \/ BlockOf[k] \in media)}
    IN  IF open = {} THEN NoBlock ELSE FirstOf(open)

(* blocked_required_media                                                  *)
Blocked(s, need) == {k \in Pending(s, need) : Exhausted(s, k)}

(* An executor makes its frame or records its failure.  The one of images  *)
(* returns nothing without its client or its store, the one of simulations *)
(* nothing when the policy or the template's level forbids it, or it raises*)
SvgResults        == {"ready", "failed"}
ImageResults      == {"ready", "failed", "none"}
SimulationResults == {"ready", "failed", "none"}

Makes(k) == CASE k = "svg" -> SvgResults
              [] k = "image" -> ImageResults
              [] k = "simulation" -> SimulationResults

(* What is left of a section's results when an executor returns its own:   *)
(* the one of simulations returns no other slot's with it.                 *)
Executed(s, k, r) ==
    LET kept == IF k = "simulation" THEN [j \in Kinds |-> "none"] ELSE s.frame
    IN  IF r = "none" THEN s ELSE [s EXCEPT !.frame = [kept EXCEPT ![k] = r]]

Execute(s, k) == {Executed(s, k, r) : r \in Makes(k)}

(* _run_parallel_phase: every executor starts from the same record, and of *)
(* their results for the section the last one in order replaces the rest.  *)
ExecuteAll(s, slots) ==
    LET After(made) ==
            LET told == {k \in slots : made[k] # "none"}
                last == LastOf(told)
            IN  IF told = {} THEN s ELSE Executed(s, last, made[last])
    IN  {After(made) : made \in {m \in [slots -> {"ready", "failed", "none"}] :
                                    \A k \in slots : m[k] \in Makes(k)}}

(* _build_partial_snapshot                                                 *)
Snapshot(s, need) ==
    [s EXCEPT !.partial = TRUE, !.life = "waiting", !.pending = Pending(s, need) # {}]

-----------------------------------------------------------------------------
(* Assembly and quality control.                                           *)

Waiting(s)   == [s EXCEPT !.partial = TRUE, !.life = "waiting", !.pending = TRUE]
Assembled(s) == [s EXCEPT !.assembled = TRUE, !.report = {}, !.life = "final",
                          !.pending = FALSE]

(* validate_section_against_manifest: required content can be missing.     *)
Complete(s) == s.content = "good"

(* _incomplete_visual_fields: without a visual placement, a visual the     *)
(* content brought itself is asked for its artifact.                       *)
AsksForOwnVisual(plan) == plan.slots \intersect {"svg", "image"} = {}

Assemble(s, plan) ==
    IF Pending(s, plan.need) # {} THEN {Waiting(s)}
    ELSE {IF Complete(s) THEN Assembled(s) ELSE s}
         \union (IF AsksForOwnVisual(plan) THEN {Waiting(s)} ELSE {})

(* The record a section without output gets, unless it has one.            *)
ShortCircuit(s) ==
    IF s.failed # "no" THEN s
    ELSE [s EXCEPT !.failed = "retryable", !.life = "failed", !.pending = FALSE]

Judged(s, need, v) ==
    LET media == v \intersect MediaBlocks # {}
        ends  == media /\ NextRetry(s, need, v) = NoBlock
        asks  == ~media /\ Cardinality(v) = 1 /\ s.reruns < MaxRerenders
    IN  [s EXCEPT !.report = v,
                  !.request = IF asks THEN CHOOSE b \in v : TRUE ELSE NoBlock,
                  !.failed = IF ends THEN "terminal" ELSE @,
                  !.life = IF ends THEN "failed" ELSE @,
                  !.pending = IF ends THEN FALSE ELSE @]

(* qc_agent; a failed call changes nothing.                                *)
Judge(s, need) == {s} \union {Judged(s, need, v) : v \in Verdicts}

(* section_assembler and qc_agent, as run_section_steps runs them.         *)
Finish(s, plan) ==
    UNION {IF a.assembled THEN Judge(a, plan.need)
           ELSE IF a.pending /\ a.life = "waiting" THEN {a}
           ELSE {ShortCircuit(a)} : a \in Assemble(s, plan)}

-----------------------------------------------------------------------------
(* The nodes of the graph.                                                 *)

(* Mutant: the failure is logged and not recorded.                         *)
MissedSilently(s) == s

(* _record_failure                                                         *)
Missed(s) == [s EXCEPT !.failed = "retryable"]

(* What a call, or the repair of an answer that did not parse, can bring:  *)
(* all required fields, all but one text field, or less than that.         *)
Drafts == {"good", "field", "many"}

(* schema_validator: an error is added and none is ever taken back.        *)
Valid(s) == [s EXCEPT !.schema = IF s.content = "good" THEN @ ELSE s.content]

(* content_generator and schema_validator; a call or a repair that fails   *)
(* leaves the content there was.                                           *)
Write(s) ==
    LET counted == Reran(s)
        missed  == Missed(counted)
    IN  {Valid([counted EXCEPT !.content = c]) : c \in Drafts}
        \union {IF s.content = "none" THEN missed ELSE Valid(missed)}

Plan(s) == [s EXCEPT !.planned = TRUE]

(* process_section: a section that ever failed its schema goes no further. *)
ProcessSection(s, plan) ==
    UNION {IF w.content = "none" \/ w.schema # "none" THEN {w}
           ELSE UNION {Finish(Snapshot(e, plan.need), plan) :
                          e \in ExecuteAll(Snapshot(Plan(w), plan.need), plan.slots)} :
              w \in Write(s)}

(* field_regenerator: it patches the section as it was generated, and the  *)
(* assembled one with it; the new value can mend the field or empty it.    *)
(* Without a request, or one for a field it does not know, it does nothing.*)
Regenerate(s) ==
    LET patched == IF s.content = "many" THEN {"many"} ELSE {"good", "field"}
    IN  {s} \union (IF s.request \notin TextFields THEN {}
                    ELSE {[s EXCEPT !.assembled = TRUE, !.content = c] : c \in patched})

RetryField(s, plan) ==
    UNION {Finish([r EXCEPT !.reruns = Reran(s).reruns], plan) : r \in Regenerate(s)}

Tried(s, k) == [s EXCEPT !.tries[k] = @ + 1]

(* retry_media_frame: whether the media is blocked is asked of the counts  *)
(* the task started with.                                                  *)
RetryFrame(s, plan, k) ==
    LET BlockedNow(f) == Blocked([f EXCEPT !.tries = s.tries], plan.need) # {}
    IN  {IF BlockedNow(f)
         THEN [f EXCEPT !.failed = "terminal", !.life = "failed", !.pending = FALSE]
         ELSE f : f \in UNION {Finish(e, plan) : e \in Execute(Tried(s, k), k)}}

-----------------------------------------------------------------------------
(* route_after_qc for one section: the retry it is owed, or none.          *)

Nothing == <<"end", "none">>

Issues(s) == IF s.request # NoBlock THEN {s.request}
             ELSE IF s.report = NoReport THEN {} ELSE s.report

(* Mutant: a frame is only retried when there is a blocking issue.         *)
OwedIfIssues(s, need) ==
    LET issues == Issues(s)
        frame  == NextRetry(s, need, issues)
    IN  CASE s.reruns < MaxRerenders /\ s.schema # "none" -> <<"process", "none">>
          [] (s.schema = "none" \/ s.reruns >= MaxRerenders) /\ frame # NoBlock
             /\ issues # {} -> <<"frame", frame>>
          [] OTHER -> IF issues = {} \/ s.reruns >= MaxRerenders THEN Nothing
                      ELSE <<"process", "none">>

Owed(s, need) ==
    LET issues  == Issues(s)
        frame   == NextRetry(s, need, issues)
        blocked == Blocked(s, need) # {}
        can     == s.reruns < MaxRerenders
    IN  CASE s.schema = "field" /\ can -> <<"field", "none">>
          [] s.schema = "many" /\ can -> <<"process", "none">>
          [] (s.schema = "none" \/ ~can) /\ frame # NoBlock
             /\ (issues \intersect MediaBlocks # {} \/ blocked \/ issues = {}) -> <<"frame", frame>>
          [] OTHER ->
                IF blocked \/ issues = {} \/ ~can THEN Nothing
                ELSE IF Cardinality(issues) = 1 /\ issues \subseteq TextFields
                THEN <<"field", "none">>
                ELSE <<"process", "none">>
=============================================================================
