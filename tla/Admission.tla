----------------------------- MODULE Admission -----------------------------
(***************************************************************************)
(* The limit on one user's concurrent generations, in enqueue_generation.  *)
(*                                                                         *)
(* The handler counts the user's active rows, compares the count with the  *)
(* limit, and only awaits later creates its own row.  A row is freed by    *)
(* its job, or by the startup recovery of a later process.                 *)
(***************************************************************************)
EXTENDS Naturals, FiniteSets

CONSTANTS
    Requests,    \* requests one user may have open at a time
    Limit        \* generation_max_concurrent_per_user

ASSUME RequestsAssumption == IsFiniteSet(Requests)
ASSUME LimitAssumption == Limit \in Nat \ {0}

VARIABLES
    at,          \* where the handler of each request, then its job, stands
    row,         \* status of each request's row
    overlapped   \* requests that were counted while another one was between
                 \* its count and its row

vars == <<at, row, overlapped>>

(* count_active_by_user counts pending and running rows.                   *)
Active  == {r \in Requests : row[r] = "active"}
Counted == {r \in Requests : at[r] = "counted"}

Init ==
    /\ at = [r \in Requests |-> "idle"]
    /\ row = [r \in Requests |-> "absent"]
    /\ overlapped = {}

(* Mutant: the comparison with the limit is off by one.                    *)
CountOffByOne(r) ==
    /\ at[r] = "idle"
    /\ IF Cardinality(Active) > Limit
       THEN at' = [at EXCEPT ![r] = "refused"] /\ UNCHANGED overlapped
       ELSE /\ at' = [at EXCEPT ![r] = "counted"]
            /\ overlapped' = IF Counted = {} THEN overlapped \ {r}
                                             ELSE overlapped \union {r}
    /\ UNCHANGED row

(* The count and the comparison: admitted, or answered with 429.           *)
Count(r) ==
    /\ at[r] = "idle"
    /\ IF Cardinality(Active) >= Limit
       THEN at' = [at EXCEPT ![r] = "refused"] /\ UNCHANGED overlapped
       ELSE /\ at' = [at EXCEPT ![r] = "counted"]
            /\ overlapped' = IF Counted = {} THEN overlapped \ {r}
                                             ELSE overlapped \union {r}
    /\ UNCHANGED row

(* gen_repo.create, one or more awaits after the count.                    *)
Create(r) ==
    /\ at[r] = "counted"
    /\ at' = [at EXCEPT ![r] = "created"]
    /\ row' = [row EXCEPT ![r] = "active"]
    /\ UNCHANGED overlapped

(* The document, the status and the heartbeat are saved: the job starts.   *)
SpawnJob(r) ==
    /\ at[r] = "created"
    /\ at' = [at EXCEPT ![r] = "job"]
    /\ UNCHANGED <<row, overlapped>>

(* One of the handler's awaits raises, create (which may have committed)   *)
(* or a later one: nothing takes the row back.                             *)
EnqueueRaises(r) ==
    /\ at[r] \in {"counted", "created"}
    /\ at' = [at EXCEPT ![r] = "over"]
    /\ \/ UNCHANGED row
       \/ at[r] = "counted" /\ row' = [row EXCEPT ![r] = "active"]
    /\ UNCHANGED overlapped

(* A job settles its row, unless its finally block was left early.         *)
JobEnds(r) ==
    /\ at[r] = "job"
    /\ at' = [at EXCEPT ![r] = "over"]
    /\ row' = [row EXCEPT ![r] = "terminal"]
    /\ UNCHANGED overlapped

JobLeavesRow(r) ==
    /\ at[r] = "job"
    /\ at' = [at EXCEPT ![r] = "over"]
    /\ UNCHANGED <<row, overlapped>>

(* The user asks for another generation.                                   *)
AskAgain(r) ==
    /\ at[r] \in {"refused", "over"}
    /\ row[r] # "active"
    /\ at' = [at EXCEPT ![r] = "idle"]
    /\ row' = [row EXCEPT ![r] = "absent"]
    /\ UNCHANGED overlapped

(* A new process: no handler or job survives; of the active rows, those    *)
(* past the cutoff, any subset of them, become failed.                     *)
Restart ==
    /\ at' = [r \in Requests |-> IF at[r] = "idle" THEN "idle" ELSE "over"]
    /\ \E old \in SUBSET Active :
          row' = [r \in Requests |-> IF r \in old THEN "terminal" ELSE row[r]]
    /\ UNCHANGED overlapped

RequestNext(r) ==
    \/ Count(r) \/ Create(r) \/ SpawnJob(r) \/ EnqueueRaises(r)
    \/ JobEnds(r) \/ JobLeavesRow(r) \/ AskAgain(r)

Next == Restart \/ \E r \in Requests : RequestNext(r)

Spec == Init /\ [][Next]_vars

-----------------------------------------------------------------------------
TypeOK ==
    /\ at \in [Requests -> {"idle", "refused", "counted", "created", "job", "over"}]
    /\ row \in [Requests -> {"absent", "active", "terminal"}]
    /\ overlapped \subseteq Requests

(* The limit is only exceeded by requests that were counted while another  *)
(* one was between its count and its row: whatever fails, is abandoned or  *)
(* restarts, all other rows and admissions of a user stay within it.       *)
OnlyOverlapExceedsLimit ==
    Cardinality((Active \union Counted) \ overlapped) <= Limit

=============================================================================
