----------------------------- MODULE MediaPlan -----------------------------
(***************************************************************************)
(* From a planned section to the pictures in it: the section of the        *)
(* pipeline's outline (routes.py), the slots the media planner makes of    *)
(* its placement and of its written content (media_planner.py), and what   *)
(* the frames drawn for a slot put into the section (assembly.py).         *)
(*                                                                         *)
(* The plans of this program place at most one visual in a section, next   *)
(* to the explanation or in a field of the section; the planner's branches *)
(* for hooks, practice problems and worked examples are not modelled.  Of  *)
(* the content only what decides the frames is kept: whether there is an   *)
(* explanation, and how many captions, steps and concepts it lists.        *)
(***************************************************************************)
EXTENDS PlanRules

(* ------------------------ the section of the outline ------------------ *)

Mode(depth) ==
    [quick |-> "draft", standard |-> "balanced", deep |-> "strict"][depth]

(* The bridges, the titles and the policies the media planner does not     *)
(* read are left out.                                                      *)
OutlineSection(s, mode) ==
    LET selected == ToSet(s.components)
    IN [id          |-> s.id,
        role        |-> s.role,
        required    |-> selected,
        placements  |-> s.placements,
        mode        |-> s.mode,
        terms       |-> Min({6, Cardinality(s.defines) + Cardinality(s.assumes)}),
        interaction |-> CASE mode = "draft" -> "disabled"
                          [] "simulation-block" \in selected -> "required"
                          [] OTHER -> "allowed"]

(* The components the content generator must fill can all be looked up:    *)
(* else the section's manifest cannot be built.                            *)
ManifestBuilds(o) == o.required # {} /\ o.required \subseteq KnownComponents

(* -------------------------------- slots ------------------------------- *)

SlotId(p) == IF p.block = "explanation" THEN p.slot
             ELSE CASE p.slot = "diagram"         -> "section-diagram"
                    [] p.slot = "diagram_series"  -> "section-diagram_series"
                    [] p.slot = "diagram_compare" -> "section-diagram_compare"

PreferredRender(o, kind) ==
    CASE kind = "simulation" -> "html"
      [] kind = "diagram" /\ o.mode # "none" -> o.mode
      [] OTHER -> "image"

FallbackRender(kind, render) ==
    CASE render = "image" -> "svg"
      [] render = "html"  -> "svg"
      [] OTHER            -> "none"

(* The frames of a sequence next to an explanation.                        *)
SeriesFrames(c) ==
    CASE c.captions > 0 -> c.captions
      [] c.steps > 0    -> Min({4, c.steps})
      [] c.concepts > 0 -> Min({4, c.concepts})
      [] OTHER          -> 3

(* The frames of a sequence in a field of the section.                     *)
SectionSeriesFrames(o, c) ==
    IF c.captions > 0 THEN c.captions ELSE Max({1, Min({4, o.terms})})

(* A slot for a placement, rendered as the section's mode prefers.         *)
Slot(o, p, frames, text) ==
    LET render == PreferredRender(o, p.slot)
    IN [id |-> SlotId(p), kind |-> p.slot, required |-> TRUE, render |-> render,
        fallback |-> FallbackRender(p.slot, render), frames |-> frames, text |-> text]

ExplanationFrames(p, c) ==
    CASE p.slot = "diagram"         -> 1
      [] p.slot = "diagram_compare" -> 2
      [] p.slot = "diagram_series"  -> SeriesFrames(c)

(* An explanation gives its slot a text to draw from, if there is one.     *)
ExplanationSlot(o, p, c) == Slot(o, p, ExplanationFrames(p, c), c.explained)

(* A field of the section is drawn from the placement's hint.              *)
SectionFrames(o, p, c) ==
    CASE p.slot = "diagram"         -> 1
      [] p.slot = "diagram_compare" -> 2
      [] p.slot = "diagram_series"  -> SectionSeriesFrames(o, c)

SectionSlot(o, p, c) == Slot(o, p, SectionFrames(o, p, c), TRUE)

StaticSlot(o, p, c) ==
    IF p.block = "section" THEN SectionSlot(o, p, c) ELSE ExplanationSlot(o, p, c)

SimulationAllowed(o) ==
    o.interaction # "disabled" /\ "simulation-block" \in o.required

SimulationSlot(o) ==
    [id |-> "simulation", kind |-> "simulation",
     required |-> o.interaction = "required", render |-> "html",
     fallback |-> "svg", frames |-> 1, text |-> FALSE]

(* Mutant: a draft gets a simulation too.                                  *)
SlotsInDraft(o, c) ==
    {StaticSlot(o, p, c) : p \in o.placements}
        \cup IF "simulation-block" \in o.required THEN {SimulationSlot(o)} ELSE {}
Slots(o, c) ==
    {StaticSlot(o, p, c) : p \in o.placements}
        \cup IF SimulationAllowed(o) THEN {SimulationSlot(o)} ELSE {}

(* A model that writes the prompt of a slot turns it into an image; a slot *)
(* without a text, and one whose prompt fails, stays as it was.            *)
Prompted(slot) ==
    IF slot.kind # "simulation" /\ slot.text
    THEN {slot, [slot EXCEPT !.render = "image", !.fallback = "svg"]} ELSE {slot}

Executor(slot) ==
    CASE slot.kind = "simulation" -> "interaction_generator"
      [] slot.render = "image"    -> "image_generator"
      [] OTHER                    -> "diagram_generator"

(* ------------------------------ assembly ------------------------------ *)

(* A frame's result: none yet, a failure, or an artifact.                  *)
Drawn == {"none", "failed", "made"}

SlotIsReady(slot, drawn) ==
    slot.frames > 0 /\ \A f \in 1 .. slot.frames : drawn[f] = "made"

(* The first n frames that have a result: one without any leaves no gap.   *)
Ordered(drawn) == {f \in DOMAIN drawn : drawn[f] # "none"}
Firsts(n, drawn) ==
    {f \in Ordered(drawn) : Cardinality({g \in Ordered(drawn) : g < f}) < n}

AllMade(drawn, frames) == \A f \in frames : drawn[f] = "made"

(* How many pictures the slot's field shows: a diagram or a simulation is  *)
(* its first result, a comparison needs two, a sequence takes what it has. *)
PicturesOf(slot, drawn) ==
    LET taken == CASE slot.kind = "diagram_compare" ->
                        IF Cardinality(Ordered(drawn)) < 2 THEN {} ELSE Firsts(2, drawn)
                   [] slot.kind = "diagram_series" -> Ordered(drawn)
                   [] OTHER -> Firsts(1, drawn)
    IN IF AllMade(drawn, taken) THEN Cardinality(taken) ELSE 0

(* The fields of the section that show something once every slot's results *)
(* are applied; drawn maps the slots to their frames' results.             *)
Filled(slots, drawn) == {s.kind : s \in {s \in slots : PicturesOf(s, drawn[s.id]) > 0}}

(* The required slots the assembler still waits for.                       *)
PendingSlots(slots, drawn) ==
    {s \in slots : s.required /\ ~SlotIsReady(s, drawn[s.id])}

(* The fields it then asks for beyond those of the content.                *)
VisualFields(slots) ==
    {s.kind : s \in {s \in slots : s.required /\ s.kind # "simulation"}}
=============================================================================
