------------------------- MODULE ResourceTemplates -------------------------
(***************************************************************************)
(* What a teacher may order: the six resource types, with the limits and   *)
(* the obligations of each (resource_templates.py), and the tables that    *)
(* turn outcomes and supports into section roles and section roles into    *)
(* components (role_maps.py).  An obligation is named by the test that     *)
(* _obligation_satisfied makes of its text; those it waves through are     *)
(* left out.                                                               *)
(***************************************************************************)
EXTENDS Naturals, Sequences

Depths == {"quick", "standard", "deep"}

Limits(quick, standard, deep) ==
    [quick |-> quick, standard |-> standard, deep |-> deep]

Worksheet ==
    [sizes    |-> Limits(2 .. 3, 3 .. 5, 5 .. 7),
     visuals  |-> Limits(1, 1, 2),
     outcomes |-> {"understand", "practice", "review", "compare",
                   "vocabulary", "assess"},
     owes     |-> {"work", "explanation"},
     roles    |-> <<"explain", "model", "practice", "check",
                    "visualize", "vocabulary", "reflect", "challenge">>,
     noTeaching |-> FALSE]

MiniBooklet ==
    [sizes    |-> Limits(3 .. 4, 5 .. 7, 7 .. 9),
     visuals  |-> Limits(1, 2, 3),
     outcomes |-> {"understand", "review", "vocabulary", "compare", "practice"},
     owes     |-> {"path", "explanation", "check"},
     roles    |-> <<"introduce", "vocabulary", "explain", "visualize", "check",
                    "reflect", "practice", "compare", "timeline", "challenge">>,
     noTeaching |-> FALSE]

QuickExplainer ==
    [sizes    |-> Limits(1 .. 2, 2 .. 4, 3 .. 5),
     visuals  |-> Limits(1, 1, 1),
     outcomes |-> {"understand", "review", "vocabulary", "compare"},
     owes     |-> {"explanation", "check"},
     roles    |-> <<"explain", "example", "check", "visualize", "vocabulary",
                    "analogy", "misconception">>,
     noTeaching |-> FALSE]

PracticeSet ==
    [sizes    |-> Limits(1 .. 2, 2 .. 4, 3 .. 5),
     visuals  |-> Limits(0, 1, 1),
     outcomes |-> {"practice", "review", "vocabulary", "assess"},
     owes     |-> {},
     roles    |-> <<"model", "practice", "answer_check", "hint", "challenge",
                    "vocabulary", "reflection">>,
     noTeaching |-> FALSE]

ExitTicket ==
    [sizes    |-> Limits(1 .. 1, 1 .. 2, 2 .. 3),
     visuals  |-> Limits(0, 0, 1),
     outcomes |-> {"assess", "review", "practice"},
     owes     |-> {"short", "response"},
     roles    |-> <<"check", "reflect", "challenge", "self_assess">>,
     noTeaching |-> FALSE]

Quiz ==
    [sizes    |-> Limits(1 .. 2, 2 .. 3, 3 .. 5),
     visuals  |-> Limits(0, 1, 1),
     outcomes |-> {"assess", "review", "vocabulary", "practice"},
     owes     |-> {"response"},
     roles    |-> <<"question_set", "short_response", "answer_key", "rubric",
                    "visual_prompt", "vocabulary">>,
     noTeaching |-> TRUE]

Template ==
    [worksheet |-> Worksheet, mini_booklet |-> MiniBooklet,
     quick_explainer |-> QuickExplainer, practice_set |-> PracticeSet,
     exit_ticket |-> ExitTicket, quiz |-> Quiz]

ResourceTypes == DOMAIN Template

(* The section role a template role stands for; a role the table does not  *)
(* know ("reflection") stands for none.                                    *)
SectionRole ==
    [introduce |-> "intro", explain |-> "explain", model |-> "process",
     practice |-> "practice", check |-> "summary", reflect |-> "summary",
     visualize |-> "visual", vocabulary |-> "explain", compare |-> "compare",
     timeline |-> "timeline", challenge |-> "practice", example |-> "explain",
     analogy |-> "explain", misconception |-> "explain", hint |-> "practice",
     answer_check |-> "summary", self_assess |-> "summary",
     question_set |-> "practice", short_response |-> "practice",
     answer_key |-> "summary", rubric |-> "summary",
     visual_prompt |-> "visual"]

OutcomeRoles ==
    [understand |-> <<"introduce", "explain", "check">>,
     practice   |-> <<"model", "practice", "check">>,
     review     |-> <<"introduce", "explain", "check">>,
     assess     |-> <<"question_set", "short_response", "answer_key">>,
     compare    |-> <<"compare", "explain", "check">>,
     vocabulary |-> <<"introduce", "vocabulary", "check">>]

SupportRoles ==
    [visuals              |-> <<"visualize">>,
     vocabulary_support   |-> <<"vocabulary">>,
     worked_examples      |-> <<"model", "example">>,
     step_by_step         |-> <<"model", "hint">>,
     discussion_questions |-> <<"reflect">>,
     simpler_reading      |-> <<"introduce", "explain">>,
     challenge_questions  |-> <<"challenge">>]

(* The components a role may use, the preferred first.                     *)
RoleComponents ==
    [intro    |-> <<"hook-hero", "callout-block", "key-fact">>,
     explain  |-> <<"explanation-block", "definition-card",
                    "worked-example-card", "glossary-strip", "key-fact">>,
     practice |-> <<"practice-stack", "student-textbox", "short-answer",
                    "fill-in-blank", "reflection-prompt">>,
     summary  |-> <<"summary-block", "what-next-bridge", "reflection-prompt">>,
     process  |-> <<"process-steps", "worked-example-card",
                    "explanation-block">>,
     compare  |-> <<"comparison-grid", "definition-family", "insight-strip",
                    "diagram-compare">>,
     timeline |-> <<"timeline-block", "explanation-block",
                    "reflection-prompt">>,
     visual   |-> <<"diagram-block", "diagram-series", "diagram-compare",
                    "simulation-block">>,
     discover |-> <<"simulation-block", "diagram-block", "callout-block",
                    "explanation-block">>]

Roles == DOMAIN RoleComponents

Visuals == {"diagram-block", "diagram-series", "diagram-compare",
            "simulation-block"}
PracticeItems == {"practice-stack", "student-textbox", "short-answer",
                  "fill-in-blank"}
Checks == {"reflection-prompt", "what-next-bridge", "short-answer",
           "fill-in-blank"}

(* The components that have a field in a section: every one above but      *)
(* "glossary-strip", which the field map calls "glossary-rail".            *)
KnownComponents ==
    (UNION {{RoleComponents[r][i] : i \in DOMAIN RoleComponents[r]} : r \in Roles})
        \ {"glossary-strip"}
=============================================================================
