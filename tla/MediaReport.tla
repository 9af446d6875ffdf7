---------------------------- MODULE MediaReport ----------------------------
(***************************************************************************)
(* What the telemetry recorder keeps of one section's media: the decision  *)
(* it was told for every slot, and the slots it counts as ready and as     *)
(* failed.  It learns of them from three kinds of event: the media plan,   *)
(* the state of a slot after its executor, and an executor's outcome.      *)
(***************************************************************************)
EXTENDS MediaPlan

NothingTold == [decided |-> <<>>, ready |-> {}, failed |-> {}]

(* The recorder derives the executor from the render by itself.            *)
DecisionExecutor(kind, render) ==
    CASE kind = "simulation" -> "interaction_generator"
      [] kind # "simulation" /\ render = "svg"   -> "diagram_generator"
      [] kind # "simulation" /\ render = "image" -> "image_generator"
      [] OTHER -> "none"

(* Every slot of a media plan is planned, whatever was known of it.        *)
PlanTold(t, slots) ==
    LET planned == {s.id : s \in slots}
        decision(id) ==
            LET s == CHOOSE s \in slots : s.id = id
            IN [executor |-> DecisionExecutor(s.kind, s.render), status |-> "planned"]
    IN [t EXCEPT !.decided =
          [id \in planned \cup DOMAIN @ |-> IF id \in planned THEN decision(id) ELSE @[id]]]

Marked(decided, ids, status) ==
    [id \in DOMAIN decided |->
        IF id \in ids THEN [decided[id] EXCEPT !.status = status] ELSE decided[id]]

SlotReady(t, id) ==
    [t EXCEPT !.ready = @ \cup {id}, !.decided = Marked(@, {id}, "generated")]

SlotFailed(t, id) ==
    [t EXCEPT !.failed = @ \cup {id}, !.decided = Marked(@, {id}, "failed")]

(* A slot is told as failed if one of its results is a failure, and else   *)
(* as ready: also when a frame has no result yet.                          *)
SlotTold(t, id, results) ==
    IF \E f \in DOMAIN results : results[f] = "failed"
    THEN SlotFailed(t, id) ELSE SlotReady(t, id)

(* An outcome settles every decision of its executor.                      *)
Settled(t, executor, status) ==
    LET its == {id \in DOMAIN t.decided : t.decided[id].executor = executor}
    IN [t EXCEPT !.decided = Marked(@, its, status)]

StatusOf == [success |-> "generated", error |-> "failed"]

DiagramOutcome(t, outcome) == Settled(t, "diagram_generator", StatusOf[outcome])
ImageOutcome(t, outcome)   == Settled(t, "image_generator", StatusOf[outcome])

(* A failed simulation has no outcome: only its slot's state is told.      *)
InteractionOutcome(t, outcome) ==
    IF outcome = "error" THEN t
    ELSE Settled(t, "interaction_generator",
                 IF outcome = "success" THEN "generated" ELSE "skipped")

(* An executor that ran ends with an outcome for the section: an error if  *)
(* a frame of this run failed and no slot it knows of is ready.  The one   *)
(* of images speaks for itself and for the diagrams.                       *)
OutcomeTold(t, slot, outcome) ==
    CASE Executor(slot) = "diagram_generator"     -> DiagramOutcome(t, outcome)
      [] Executor(slot) = "image_generator"       -> DiagramOutcome(ImageOutcome(t, outcome), outcome)
      [] Executor(slot) = "interaction_generator" -> InteractionOutcome(t, outcome)

RunTold(t, slot, results, broke, elsewhere) ==
    LET ready == elsewhere \/ SlotIsReady(slot, results)
    IN OutcomeTold(SlotTold(t, slot.id, results), slot,
                   IF broke /\ ~ready THEN "error" ELSE "success")
=============================================================================
