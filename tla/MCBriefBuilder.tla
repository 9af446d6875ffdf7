-------------------------- MODULE MCBriefBuilder ---------------------------
(* Instances of BriefBuilder for TLC.                                      *)
EXTENDS BriefBuilder

(* Supports are recommended once there are a resource and an outcome.      *)
MCRecommend(resource, outcome, profile) ==
    IF None \in {resource, outcome} THEN {} ELSE {"visuals"}

(* The one blocker that a single edit makes or removes: an outcome the      *)
(* resource is not meant for.                                              *)
MCIsReady(b) == b.outcome = "understand"
=============================================================================
