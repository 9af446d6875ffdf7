----------------------------- MODULE PlanRules -----------------------------
(***************************************************************************)
(* The rules of planning, as functions of a teacher's brief: which section *)
(* roles it asks for (service.py), the plan made without a model           *)
(* (fallback.py), where a section's visual goes (visual_router.py), and    *)
(* the faults the plan validator finds (plan_validator.py).                *)
(*                                                                         *)
(* A brief is a record of its resource type, depth, intended outcome,      *)
(* list of supports, number of subtopics, whether one of these is too      *)
(* broad, and whether the teacher's notes ask for steps.  A plan is a      *)
(* sequence of sections; of a section's text only the terms it defines and *)
(* assumes are kept, the n-th subtopic being the n-th term, and of its     *)
(* practice target whether there is one.                                   *)
(***************************************************************************)
EXTENDS ResourceTemplates, Integers, SequencesExt

(* The k-th number of a set, and the items of a list at some positions.    *)
Nth(S, k) == CHOOSE i \in S : Cardinality({j \in S : j <= i}) = k
At(s, positions) == [k \in 1 .. Cardinality(positions) |-> s[Nth(positions, k)]]

(* The first n items of a list, or what there is.                          *)
UpTo(s, n) == SubSeq(s, 1, Min({n, Len(s)}))

(* A list without what it repeats.                                         *)
Distinct(s) == At(s, {i \in DOMAIN s : \A j \in 1 .. i - 1 : s[j] # s[i]})

(* ------------------------------- roles -------------------------------- *)

SectionRolesOf(templateRoles) ==
    LET known == At(templateRoles,
                    {i \in DOMAIN templateRoles : templateRoles[i] \in DOMAIN SectionRole})
    IN [i \in DOMAIN known |-> SectionRole[known[i]]]

AllowedRoles(b) == SectionRolesOf(Template[b.type].roles)

Requested(b) ==
    SectionRolesOf(OutcomeRoles[b.outcome]
        \o FlattenSeq([i \in DOMAIN b.supports |-> SupportRoles[b.supports[i]]]))

(* What the outcome and the supports ask for and the template allows.      *)
AskedRoles(b) ==
    At(Requested(b),
       {i \in DOMAIN Requested(b) : Contains(AllowedRoles(b), Requested(b)[i])})

Opened(asked) == IF Contains(asked, "intro") THEN asked ELSE <<"intro">> \o asked

(* Mutant: of the template's roles only those asked for are offered.       *)
ResolvedAsked(b) == Distinct(Append(Opened(AskedRoles(b)), "summary"))
(* What is asked for with an intro before and a summary after it, then the *)
(* rest of what is allowed.                                                *)
ResolvedRoles(b) ==
    Distinct(Append(Opened(AskedRoles(b)), "summary") \o AllowedRoles(b))

Sizes(b) == Template[b.type].sizes[b.depth]
MaxVisuals(b) == Template[b.type].visuals[b.depth]

(* ------------------------------- visuals ------------------------------ *)

VisualIntent(role) ==
    CASE role = "process" -> "demonstrate_process"
      [] role = "compare" -> "compare_variants"
      [] role \in {"visual", "discover"} -> "show_realism"
      [] OTHER -> "explain_structure"

(* Where the one visual of a section goes, and of which kind it is.        *)
PlacementFor(s, intent) ==
    LET mayShow(c, i) == \/ Contains(s.components, c)
                         \/ intent = i /\ Contains(RoleComponents[s.role], c)
    IN [block |-> IF s.role \in {"visual", "discover"} THEN "section"
                                                       ELSE "explanation",
        slot  |-> CASE mayShow("diagram-compare", "compare_variants") -> "diagram_compare"
                    [] mayShow("diagram-series", "demonstrate_process") -> "diagram_series"
                    [] OTHER -> "diagram"]

Shows(s) == ToSet(s.components) \cap Visuals # {}

(* ------------------- the plan made without a model -------------------- *)

ContentBearing == {"explain", "process", "visual", "discover", "compare",
                   "timeline"}

ChooseRoles(b, roles) ==
    LET n == Max({Min(Sizes(b)), Min({Len(roles), Max(Sizes(b))})})
        chosen == UpTo(roles, n)
    IN IF n = 1 THEN <<"summary">> ELSE Front(chosen) \o <<"summary">>

(* The sections that can carry a subtopic, in order.                       *)
ContentSlots(roles) ==
    SetToSortSeq({i \in DOMAIN roles : roles[i] \in ContentBearing}, <)

(* The terms section i defines: one each, the last takes what is left.     *)
Defined(b, chosen, i) ==
    LET slots == ContentSlots(chosen)
    IN {k \in 1 .. b.subtopics : slots # <<>> /\ slots[Min({k, Len(slots)})] = i}

Section(id, order, role, components) ==
    [id |-> id, order |-> order, role |-> role, components |-> components,
     target |-> FALSE, defines |-> {}, assumes |-> {},
     placements |-> {}, mode |-> "none"]

FirstTwo(role) == UpTo(RoleComponents[role], 2)

(* The composition that replaces a model's.                                *)
FallbackComposition(b, roles) ==
    LET chosen == ChooseRoles(b, roles)
    IN [i \in DOMAIN chosen |->
          [Section(i, i, chosen[i], FirstTwo(chosen[i]))
             EXCEPT !.target = chosen[i] = "practice"]]

(* The spec that replaces a plan: it places visuals only where the teacher *)
(* asked for some, deals out the terms itself and is validated by nobody.  *)
FallbackSpec(b, roles) ==
    LET chosen == ChooseRoles(b, roles)
        defined == [i \in DOMAIN chosen |-> Defined(b, chosen, i)]
        earlier(i) == UNION {defined[j] : j \in 1 .. i - 1}
        plan == FallbackComposition(b, roles)
        placed(s) ==
            IF /\ Contains(b.supports, "visuals")
               /\ ToSet(s.components) \cap (Visuals \ {"simulation-block"}) # {}
            THEN {PlacementFor(s, VisualIntent(s.role))} ELSE {}
    IN [i \in DOMAIN plan |->
          [plan[i] EXCEPT
             !.placements = placed(plan[i]),
             !.defines    = defined[i],
             !.assumes    = earlier(i),
             !.target     = \/ @
                            \/ /\ plan[i].role = "summary"
                               /\ earlier(i) \cup defined[i] # {}]]

(* ------------------------------ validation ---------------------------- *)

RolesIn(plan) == {s.role : s \in ToSet(plan)}
ComponentsIn(plan) == UNION {ToSet(s.components) : s \in ToSet(plan)}
Practises(plan) ==
    "practice" \in RolesIn(plan) \/ ComponentsIn(plan) \cap PracticeItems # {}
Reviews(plan) == "summary" \in RolesIn(plan) \/ ComponentsIn(plan) \cap Checks # {}

Honours(plan, duty) ==
    CASE duty = "work"        -> Practises(plan)
      [] duty = "response"    -> ComponentsIn(plan) \cap PracticeItems # {}
      [] duty = "check"       -> Reviews(plan)
      [] duty = "path"        -> /\ "intro" \in RolesIn(plan)
                                 /\ RolesIn(plan) \cap {"explain", "process", "timeline"} # {}
      [] duty = "explanation" -> RolesIn(plan) \cap ContentBearing # {}
      [] duty = "short"       -> Len(plan) <= 3

FaultNames == {"size", "bare", "role", "unknown", "foreign", "teaching", "visuals",
               "duty", "practice", "check", "steps"}

(* The blocking issues of a plan, each with the test that raises it.       *)
Faults(b, roles, plan) ==
    {f \in FaultNames :
       \/ f = "size"     /\ Len(plan) \notin Sizes(b)
       \/ f = "bare"     /\ \E s \in ToSet(plan) : s.components = <<>>
       \/ f = "role"     /\ \E s \in ToSet(plan) : ~Contains(roles, s.role)
       \/ f = "unknown"  /\ ~(ComponentsIn(plan) \subseteq KnownComponents)
       \/ f = "foreign"  /\ \E s \in ToSet(plan) :
                              ~(ToSet(s.components) \cap KnownComponents
                                  \subseteq ToSet(RoleComponents[s.role]))
       \/ f = "teaching" /\ Template[b.type].noTeaching
                         /\ \E s \in ToSet(plan) : s.role \in {"visual", "discover"}
       \/ f = "visuals"  /\ Cardinality({i \in DOMAIN plan : Shows(plan[i])}) > MaxVisuals(b)
       \/ f = "duty"     /\ \E duty \in Template[b.type].owes : ~Honours(plan, duty)
       \/ f = "practice" /\ b.outcome \in {"practice", "assess"} /\ ~Practises(plan)
       \/ f = "check"    /\ ~(Reviews(plan) \/ \E s \in ToSet(plan) : s.target)
       \/ f = "steps"    /\ b.steps /\ RolesIn(plan) \cap {"process", "practice"} = {}}

(* validate_brief has no blocker: the page plans only such briefs.  What   *)
(* it warns of does not stop them.                                         *)
Ready(b) == b.outcome \in Template[b.type].outcomes /\ ~b.broad
=============================================================================
