----------------------------- MODULE MCPlanning -----------------------------
EXTENDS Planning

(* Every type, depth and outcome, with supports that ask for visuals, for  *)
(* steps, or for nothing, and one or three subtopics; of some briefs one   *)
(* is too broad.                                                           *)
MCBriefs ==
    {b \in [type : ResourceTypes, depth : Depths, outcome : DOMAIN OutcomeRoles,
            supports : {<<>>, <<"visuals">>, <<"step_by_step", "visuals">>},
            subtopics : {1, 3}, broad : BOOLEAN, steps : BOOLEAN] :
       b.broad => b.supports = <<>> /\ ~b.steps}
MCFlaws == {"bare", "unknown", "foreign", "offrole", "order", "twin"}
MCContents ==
    {c \in [explained : BOOLEAN, captions : {0, 2}, steps : {0, 2}, concepts : {0, 1}] :
       ~c.explained => c.captions = 0 /\ c.concepts = 0}
=============================================================================
