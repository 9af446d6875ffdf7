-------------------------- MODULE GenerationJobInv --------------------------
(***************************************************************************)
(* The inductive invariant behind the safety properties of GenerationJob.  *)
(*                                                                         *)
(* It says, for every await the job can be at, what the row holds, what    *)
(* the in-memory document holds, and what clients have heard by then.      *)
(***************************************************************************)
EXTENDS GenerationJob

ResultSteps == {"res_doc", "res_status", "res_pub",
                "race_doc", "race_status", "race_pub"}

(* From the moment the job has a result until it is published, the         *)
(* document's status is the outcome.                                       *)
ResultIsTerminal == pc \in ResultSteps => document.status \in Outcomes

TypeInv == TypeOK /\ ResultIsTerminal

-----------------------------------------------------------------------------
(* What the status column says at each await.                              *)
RowStatusAt ==
    /\ pc = "idle" <=> row.status = "absent"
    /\ pc \in AcceptSteps \union {"job_doc", "job_status"} => row.status = "pending"
    /\ pc \in {"job_beat", "engine", "res_doc", "res_status", "race_doc", "race_status"}
          => row.status = "running"
    /\ pc \in {"fail_doc", "fail_status"} => row.status \in Active \/ lostAck
    /\ pc \in {"orph_doc", "orph_status"} => row.status \in Active
    /\ pc \in {"fail_pub", "orph_pub"} => row.status = "failed"
    /\ pc \in {"res_pub", "race_pub"} => row.status = document.status
    /\ pc = "done" => row.status \in Outcomes

(* Nothing is published before the last commit, and what is published is   *)
(* what was committed.                                                     *)
AnnouncedLast ==
    announced # <<>> => /\ pc \in {"fin_beat", "fin_check"} \union EndedSteps
                        /\ announced = <<row.status>>

LostAckLate ==
    lostAck => pc \in {"fail_doc", "fail_status", "fail_pub"} \union FinallySteps
                      \union EndedSteps

(* No handler or job runs in a process that is down or still starting, and *)
(* startup recovery only works on an active row.                           *)
ServerAlone ==
    /\ server \notin {"up", "stopping"} => pc \in EndedSteps \union {"idle"}
    /\ server = "stopping" => pc \notin AcceptSteps
    /\ server \in {"reap_doc", "reap_status"} => row.status \in Active
    /\ server = "reap_status" => reaped /\ row.doc.status = "failed"

StatusInv == RowStatusAt /\ AnnouncedLast /\ LostAckLate /\ ServerAlone

-----------------------------------------------------------------------------
(* The document in the row, between its save and the commit of the status  *)
(* that belongs to it.                                                     *)
WrittenDocument ==
    /\ pc \in {"res_status", "res_pub", "race_status", "race_pub"} => row.doc = document
    /\ pc \in {"fail_status", "fail_pub", "orph_status", "orph_pub"}
          => row.doc = FailedSnapshot(document)

SavesInEngine == pc # "engine" => save = NoSaves

(* The fan-out is over: every section was announced to on_event.           *)
AllPlanned == \A s \in Sections : phase[s] # "unplanned"

(* While the pipeline runs, published sections are in the document, and    *)
(* those of the document are in the pipeline's state.                      *)
EngineDocument ==
    pc = "engine" =>
        /\ document.status = "running"
        /\ document.failed = {}
        /\ document.sections \subseteq assembled
        /\ \A s \in Sections :
              /\ phase[s] \in {"final", "assembled", "main_final"} => s \in assembled
              /\ phase[s] \in {"ready", "main_ready"}
                    => s \in document.sections /\ s \notin document.partial
              /\ phase[s] # "unplanned" => s \in document.manifest
        /\ (\E s \in Sections : phase[s] \notin {"unplanned", "planned"}) => AllPlanned
        /\ document.sections # {} => AllPlanned

StartsEmpty ==
    pc \in {"job_doc", "job_status", "job_beat"} =>
        document = [InitialDocument EXCEPT !.status = "running"]

ReadyInDocument ==
    /\ pc \in {"idle", "job_doc", "job_status", "job_beat"} \union AcceptSteps
          => readyPublished = {}
    /\ pc \in JobSteps => readyPublished \subseteq document.sections

Complete(doc) ==
    doc.sections = Sections /\ doc.manifest = Sections /\ doc.partial = {} /\ doc.failed = {}

CompletedResult ==
    pc \in ResultSteps /\ document.status = "completed" => Complete(document)

DocumentInv ==
    /\ WrittenDocument /\ SavesInEngine /\ StartsEmpty /\ EngineDocument /\ ReadyInDocument
    /\ CompletedResult
    /\ DocumentMatchesRow /\ ReadySectionsKept /\ CompletedIsComplete

IInv == TypeInv /\ StatusInv /\ DocumentInv
=============================================================================
