------------------------ MODULE GenerationLifecycle ------------------------
(***************************************************************************)
(* What a client of the service is promised about one generation, with no  *)
(* mention of jobs, documents, crashes or databases.                       *)
(*                                                                         *)
(* A generation's row moves pending -> running -> terminal; the event bus  *)
(* carries at most one stream-ending event for it, and that event names    *)
(* the row's final status.  The event may also never come: a restart       *)
(* forgets it, and a client then learns the outcome from the row.          *)
(***************************************************************************)
EXTENDS Naturals, Sequences

VARIABLES
    status,      \* the status column, "absent" before the row exists
    announced    \* outcomes published as "complete" or "error", in order

lifecycleVars == <<status, announced>>

Outcomes == {"completed", "partial", "failed"}
Active   == {"pending", "running"}

Init == status = "absent" /\ announced = <<>>

Accept == status = "absent" /\ status' = "pending" /\ UNCHANGED announced

Start == status = "pending" /\ status' = "running" /\ UNCHANGED announced

(* The outcome is committed.                                               *)
Finish(outcome) ==
    /\ status \in Active
    /\ status' = outcome
    /\ UNCHANGED announced

(* A moment later, or never, the committed outcome is published.           *)
Announce ==
    /\ status \in Outcomes
    /\ announced = <<>>
    /\ announced' = <<status>>
    /\ UNCHANGED status

(* A job that believes its last commit was lost may fail the generation    *)
(* after all, as long as nobody was told of the first outcome.             *)
Revise ==
    /\ status \in Outcomes
    /\ announced = <<>>
    /\ status' = "failed"
    /\ UNCHANGED announced

Next ==
    \/ Accept
    \/ Start
    \/ \E outcome \in Outcomes : Finish(outcome)
    \/ Announce
    \/ Revise

Spec == Init /\ [][Next]_lifecycleVars

-----------------------------------------------------------------------------
TypeOK ==
    /\ status \in {"absent"} \union Active \union Outcomes
    /\ announced \in Seq(Outcomes)

(* A stream-ending event is published at most once, and what it said is    *)
(* what the row says from then on.                                         *)
AnnouncedIsFinal ==
    /\ Len(announced) <= 1
    /\ announced # <<>> => announced = <<status>>
=============================================================================
