------------------------------ MODULE Planning ------------------------------
(***************************************************************************)
(* One request for a plan, from the teacher's brief to the pictures of a   *)
(* section: POST /brief/plan composes, validates, repairs or replaces,     *)
(* enriches and routes a plan, POST /brief/commit turns it into the        *)
(* pipeline's outline, and for a section of that outline the media planner *)
(* makes slots and executors draw their frames.                            *)
(*                                                                         *)
(* What a model answers is any of a few well-formed plans, possibly with   *)
(* one flaw; every call of a model may also raise.  Whatever raises inside *)
(* the request makes the route answer with the fallback's spec.            *)
(***************************************************************************)
EXTENDS MediaReport

CONSTANTS
    Briefs,         \* the briefs that may be asked about
    Flaws,          \* what may be wrong with a model's plan
    Contents        \* what a section's written content may hold

BriefShape ==
    [type : ResourceTypes, depth : Depths, outcome : DOMAIN OutcomeRoles,
     supports : Seq(DOMAIN SupportRoles), subtopics : Nat \ {0}, broad : BOOLEAN,
     steps : BOOLEAN]

ContentShape == [explained : BOOLEAN, captions : Nat, steps : Nat, concepts : Nat]

ASSUME ContentsAssumption == Contents \subseteq ContentShape
ASSUME BriefsAssumption == Briefs \subseteq BriefShape
ASSUME FlawsAssumption  ==
    Flaws \subseteq {"none", "bare", "unknown", "foreign", "offrole", "order", "twin"}

VARIABLES
    pc,        \* where the request is
    brief,     \* the brief; none once the pipeline has taken over
    roles,     \* the section roles resolved for it
    tries,     \* compositions of the model that were refused
    origin,    \* whose plan it is: nobody's, the model's, or a fallback's
    plan,      \* the sections so far
    section,   \* the section of the outline that is looked at
    slots,     \* the slots of its media plan
    drawn,     \* slot -> the results of its frames
    told       \* what the recorder was told of them

vars == <<pc, brief, roles, tries, origin, plan, section, slots, drawn, told>>

None == {}

----------------------------------------------------------------------------
(* What the models may answer.                                             *)

(* Sections with the roles the fallback would choose, or with the last or  *)
(* the first few of the roles the prompt lists, too few included; each     *)
(* with its first two or its last component and, all or none, with a       *)
(* practice target.                                                        *)
RoleLists(b) ==
    {ChooseRoles(b, roles), UpTo(roles, Min(Sizes(b)) - 1)}
        \cup {SubSeq(roles, Len(roles) - n + 1, Len(roles)) : n \in Sizes(b) \cap 1 .. Len(roles)}

CleanDrafts(b, lists) ==
    LET picked(role, two) == IF two THEN FirstTwo(role) ELSE <<Last(RoleComponents[role])>>
    IN {[i \in DOMAIN l |-> [Section(i, i, l[i], picked(l[i], two)) EXCEPT !.target = t]] :
          l \in lists, two \in BOOLEAN, t \in BOOLEAN}

Flawed(b, draft, flaw) ==
    LET n == Len(draft)
        other == CHOOSE r \in Roles : ~Contains(roles, r)
    IN CASE flaw = "none"    -> draft
         [] flaw = "bare"    -> [draft EXCEPT ![n].components = <<>>]
         [] flaw = "unknown" -> [draft EXCEPT ![n].components = <<"glossary-strip">>]
         [] flaw = "foreign" -> [draft EXCEPT ![n].components = <<"timeline-block">>]
         [] flaw = "offrole" -> [draft EXCEPT ![1].role = other]
         [] flaw = "order"   -> [draft EXCEPT ![n].order = @ + 1]
         [] flaw = "twin"    -> [draft EXCEPT ![n].id = 1]

Compositions(b) ==
    CleanDrafts(b, RoleLists(b))
        \cup (UNION {{Flawed(b, d, f) : f \in Flaws} : d \in CleanDrafts(b, {ChooseRoles(b, roles)})})

(* Which sections a routing model wants a visual for, with what intent and *)
(* mode, by section id; or no decisions it can use.                        *)
Decisions ==
    LET ids == {plan[i].id : i \in DOMAIN plan}
    IN {None} \cup
       {{[wanted |-> w, intent |-> i, mode |-> m]} :
          w \in {{}, ids, {plan[Len(plan)].id}},
          i \in {"none", "compare_variants", "demonstrate_process"},
          m \in {"none", "svg"}}

----------------------------------------------------------------------------
Init ==
    /\ pc = "compose"
    /\ brief \in {{b} : b \in Briefs}
    /\ roles = ResolvedRoles(CHOOSE b \in brief : TRUE)
    /\ tries = 0
    /\ origin = "nobody"
    /\ plan = <<>>
    /\ section = None /\ slots = {} /\ drawn = <<>> /\ told = NothingTold

Brief == CHOOSE b \in brief : TRUE

(* Mutant: the repaired composition is taken as it comes.                  *)
AcceptedUnchecked(b, draft) == Faults(b, roles, draft) = {} \/ tries = 1
Accepted(b, draft) == Faults(b, roles, draft) = {}

(* A composition is validated: it goes on, is sent back once with its      *)
(* issues, or is replaced by the fallback's, which is not validated.       *)
Compose ==
    /\ pc = "compose"
    /\ \E draft \in Compositions(Brief) :
         \/ /\ Accepted(Brief, draft)
            /\ plan' = draft /\ origin' = "model" /\ pc' = "enrich"
            /\ UNCHANGED tries
         \/ /\ ~Accepted(Brief, draft) /\ tries = 0
            /\ tries' = 1
            /\ UNCHANGED <<pc, origin, plan>>
         \/ /\ ~Accepted(Brief, draft) /\ tries = 1
            /\ plan' = FallbackComposition(Brief, roles)
            /\ origin' = "composition" /\ pc' = "enrich"
            /\ UNCHANGED tries
    /\ UNCHANGED <<brief, roles, section, slots, drawn, told>>

(* The enrichment overwrites the terms and the practice target of every    *)
(* section it names, or raises and leaves them.                            *)
Enrich ==
    /\ pc = "enrich"
    /\ \/ UNCHANGED plan
       \/ \E t \in BOOLEAN, d \in {{}, {1}} :
            plan' = [i \in DOMAIN plan |->
                       [plan[i] EXCEPT !.target = t, !.defines = d, !.assumes = {}]]
    /\ pc' = "route"
    /\ UNCHANGED <<brief, roles, tries, origin, section, slots, drawn, told>>

(* A section that may be given a visual, by its role or its components or  *)
(* because the decision wants one.                                         *)
MayShow(decision, s) ==
    \/ \E d \in decision : s.id \in d.wanted
    \/ Shows(s)
    \/ s.role \in {"visual", "compare", "process", "discover"}

(* The visuals used up before section i: while there is a budget, every    *)
(* section that may have a visual gets it.                                 *)
UsedBefore(decision, i) == Cardinality({j \in 1 .. i - 1 : MayShow(decision, plan[j])})
BudgetLeft(decision, i) == UsedBefore(decision, i) < MaxVisuals(Brief)

(* Sections are routed in order; each that gets a visual uses one up.      *)
Routed(decision) ==
    LET asked(field, default) ==
            IF decision = None \/ (\E d \in decision : d[field] = "none")
            THEN default ELSE (CHOOSE d \in decision : TRUE)[field]
        placement(s) == PlacementFor(s, asked("intent", VisualIntent(s.role)))
    IN [i \in DOMAIN plan |->
          IF MayShow(decision, plan[i]) /\ BudgetLeft(decision, i)
          THEN [plan[i] EXCEPT !.placements = {placement(plan[i])},
                               !.mode = asked("mode", "image")]
          ELSE [plan[i] EXCEPT !.placements = {}, !.mode = "none"]]

InSequence(p) == \A i \in DOMAIN p : p[i].order = i

(* A spec is made of the routed sections if their orders run from one.     *)
Route ==
    /\ pc = "route"
    /\ \E decision \in Decisions :
         /\ InSequence(plan)
         /\ plan' = Routed(decision)
         /\ pc' = "returned"
    /\ UNCHANGED <<brief, roles, tries, origin, section, slots, drawn, told>>

(* Something raised: a model while composing or routing, or the spec over  *)
(* sections that are out of order.                                         *)
FallBack ==
    /\ pc \in {"compose", "route"}
    /\ plan' = FallbackSpec(Brief, roles)
    /\ origin' = "spec"
    /\ pc' = "returned"
    /\ UNCHANGED <<brief, roles, tries, section, slots, drawn, told>>

(* The spec comes back as it was shown and the pipeline takes over; of its *)
(* outline one section is followed.                                        *)
Commit ==
    /\ pc = "returned"
    /\ \E i \in DOMAIN plan :
         section' = {OutlineSection(plan[i], Mode(Brief.depth))}
    /\ pc' = "committed"
    /\ brief' = None /\ roles' = <<>> /\ plan' = <<>> /\ tries' = 0 /\ origin' = "nobody"
    /\ UNCHANGED <<slots, drawn, told>>

(* The section is written and its media planned, each slot's prompt        *)
(* resolved or not; then the plan is told.                                 *)
PlanMedia ==
    /\ pc = "committed"
    /\ \E o \in section, c \in Contents :
         /\ ManifestBuilds(o)
         /\ \E choice \in [Slots(o, c) -> UNION {Prompted(s) : s \in Slots(o, c)}] :
              /\ \A s \in DOMAIN choice : choice[s] \in Prompted(s)
              /\ slots' = {choice[s] : s \in DOMAIN choice}
    /\ drawn' = [id \in {s.id : s \in slots'} |->
                   [f \in 1 .. (CHOOSE s \in slots' : s.id = id).frames |-> "none"]]
    /\ told' = PlanTold(told, slots')
    /\ pc' = "drawing"
    /\ UNCHANGED <<brief, roles, tries, origin, plan, section>>

(* What is left of the section's results when an executor brings those of  *)
(* a slot: the one of simulations brings no other slot's.                  *)
Brought(s, results) ==
    LET kept == IF s.kind = "simulation"
                THEN [id \in DOMAIN drawn |-> [f \in DOMAIN drawn[id] |-> "none"]]
                ELSE drawn
    IN [kept EXCEPT ![s.id] = results]

OthersReady(s) == \E other \in slots \ {s} : SlotIsReady(other, drawn[other.id])

(* An executor draws every frame of a slot; of the other slots' results it *)
(* has seen those there were when it started.                              *)
DrawAll ==
    /\ pc = "drawing"
    /\ \E s \in slots : \E r \in [1 .. s.frames -> {"failed", "made"}], seen \in BOOLEAN :
         /\ seen => OthersReady(s)
         /\ drawn' = Brought(s, r)
         /\ told' = RunTold(told, s, r, \E f \in DOMAIN r : r[f] = "failed", seen)
    /\ UNCHANGED <<pc, brief, roles, tries, origin, plan, section, slots>>

(* An executor draws nothing: without a client or a store for images, and  *)
(* when the template does not go with simulations.                         *)
DrawNothing ==
    /\ pc = "drawing"
    /\ \E s \in slots :
         /\ Executor(s) # "diagram_generator"
         /\ told' = OutcomeTold(told, s, IF s.kind = "simulation" THEN "skipped" ELSE "error")
    /\ UNCHANGED <<pc, brief, roles, tries, origin, plan, section, slots, drawn>>

(* A retry draws one frame that is not made: the first with tries left.    *)
DrawOne ==
    /\ pc = "drawing"
    /\ \E s \in slots : \E f \in 1 .. s.frames, r \in {"failed", "made"} :
         LET results == [drawn[s.id] EXCEPT ![f] = r]
         IN /\ drawn[s.id][f] # "made"
            /\ drawn' = Brought(s, results)
            /\ told' = RunTold(told, s, results, r = "failed", OthersReady(s))
    /\ UNCHANGED <<pc, brief, roles, tries, origin, plan, section, slots>>

(* The assembler waits for the required slots, and then refuses a section  *)
(* without a field that the media plan asks for.                           *)
AssembleSection ==
    /\ pc = "drawing"
    /\ PendingSlots(slots, drawn) = {}
    /\ pc' = IF VisualFields(slots) \subseteq Filled(slots, drawn)
             THEN "assembled" ELSE "refused"
    /\ UNCHANGED <<brief, roles, tries, origin, plan, section, slots, drawn, told>>

Next == \/ Compose \/ Enrich \/ Route \/ FallBack \/ Commit
        \/ PlanMedia \/ DrawAll \/ DrawNothing \/ DrawOne \/ AssembleSection

Spec == Init /\ [][Next]_vars

----------------------------------------------------------------------------
(* A brief that validate_brief calls ready can be planned: with the roles  *)
(* resolved for it, some plan passes the validator.  Only notes that ask   *)
(* for steps of a template without a role for steps cannot be met.         *)
ReadyIsPlannable ==
    pc = "compose" /\ tries = 0 /\ Ready(Brief) =>
        LET usable(r) == LET all == RoleComponents[r]
                         IN At(all, {i \in DOMAIN all : all[i] \in KnownComponents \ Visuals})
            picked(r) == IF r = "visual" THEN FirstTwo(r) ELSE usable(r)
            made(idx) == LET l == At(roles, idx)
                         IN [i \in DOMAIN l |-> Section(i, i, l[i], picked(l[i]))]
            met(idx) == Faults(Brief, roles, made(idx)) \subseteq
                          IF {"process", "practice"} \cap ToSet(roles) = {}
                          THEN {"steps"} ELSE {}
        IN \E idx \in SUBSET DOMAIN roles : met(idx)

(* The spec the teacher gets has no fault the validator would block, or it *)
(* is a fallback's; all that may happen to a model's plan after validation *)
(* is that the enrichment takes back its only check.  And every section of *)
(* any spec has components the pipeline can look up.                       *)
ReturnedIsChecked ==
    pc = "returned" =>
        /\ origin = "model" => Faults(Brief, roles, plan) \subseteq {"check"}
        /\ \A i \in DOMAIN plan :
             ManifestBuilds(OutlineSection(plan[i], Mode(Brief.depth)))

(* A visual the plan placed is a visual the section gets: one required     *)
(* slot that an executor can draw, ready only when the section shows every *)
(* frame of it, with both sides of a comparison or neither; a section      *)
(* without a placement waits for no static slot, nor a draft's section for *)
(* a simulation; and a section whose required slots are ready is never     *)
(* refused for a visual.  The recorder is told: a slot with a result was   *)
(* counted as ready or failed, and a ready one as ready.                   *)
PlacedIsDrawn ==
    /\ pc # "refused"
    /\ pc = "drawing" => \A o \in section :
        LET static == {s \in slots : s.kind # "simulation"}
        IN /\ Cardinality(static) = Cardinality(o.placements)
           /\ \A s \in static :
                /\ s.required /\ s.frames > 0
                /\ (s.render = "svg") <=> (Executor(s) = "diagram_generator")
                /\ SlotIsReady(s, drawn[s.id]) =>
                     PicturesOf(s, drawn[s.id]) = s.frames
                /\ s.kind = "diagram_compare" =>
                     PicturesOf(s, drawn[s.id]) \in {0, 2}
           /\ \A s \in slots \ static : s.required /\ o.interaction = "required"
           /\ \A s \in slots :
                /\ SlotIsReady(s, drawn[s.id]) => s.id \in told.ready
                /\ told.decided[s.id].executor = Executor(s)
                /\ told.decided[s.id].status = "planned" =>
                     \A f \in 1 .. s.frames : drawn[s.id][f] = "none"
=============================================================================
