------------------------------ MODULE LlmCall ------------------------------
(***************************************************************************)
(* run_llm: one call of a node as a bounded row of attempts, each under a  *)
(* time limit of its own, with a pause between two of them.                *)
(*                                                                         *)
(* Callers are independent; a module that composes them says when a caller *)
(* begins, and when a limit around the whole call or its task cuts it off. *)
(***************************************************************************)
EXTENDS Naturals

CONSTANTS
    Callers,        \* the node runs that call a model
    MaxAttempts     \* max_attempts of their retry policy

VARIABLES
    call,       \* where each caller's run_llm stands
    attempt,    \* its attempt counter
    unsettled   \* llm_call_started events without a succeeded or failed one

callVars == <<call, attempt, unsettled>>

CallInit ==
    /\ call = [c \in Callers |-> "none"]
    /\ attempt = [c \in Callers |-> 0]
    /\ unsettled = [c \in Callers |-> 0]

(* The head of the loop: count the attempt and publish that it starts.     *)
BeginAttempt(c) ==
    /\ call' = [call EXCEPT ![c] = "calling"]
    /\ attempt' = [attempt EXCEPT ![c] = @ + 1]
    /\ unsettled' = [unsettled EXCEPT ![c] = @ + 1]

(* Mutant: an attempt that is tried again ends without an event.           *)
SettleSilently(c, to) ==
    /\ call[c] = "calling"
    /\ call' = [call EXCEPT ![c] = to]
    /\ unsettled' = [unsettled EXCEPT ![c] = IF to = "pausing" THEN @ ELSE @ - 1]
    /\ attempt' = [attempt EXCEPT ![c] = IF to = "pausing" THEN @ ELSE 0]

(* An attempt ends with an event that says how; the counter goes with the  *)
(* call.                                                                   *)
Settle(c, to) ==
    /\ call[c] = "calling"
    /\ call' = [call EXCEPT ![c] = to]
    /\ unsettled' = [unsettled EXCEPT ![c] = @ - 1]
    /\ attempt' = [attempt EXCEPT ![c] = IF to = "pausing" THEN @ ELSE 0]

(* The model's answer arrives before wait_for's limit.                     *)
Answer(c) == Settle(c, "over")

(* Mutant: an error after the last attempt is retried as well.             *)
AttemptFailsAgain(c, retryable) == Settle(c, IF retryable THEN "pausing" ELSE "over")

(* The limit expires, or the agent raises.  Worth another attempt are rate *)
(* limits, server errors, broken connections and the limit itself; not     *)
(* what the model answered wrongly, nor a misuse.                          *)
AttemptFails(c, retryable) ==
    Settle(c, IF retryable /\ attempt[c] < MaxAttempts THEN "pausing" ELSE "over")

(* The pause is over and the loop goes on.                                 *)
Resume(c) == call[c] = "pausing" /\ BeginAttempt(c)

(* A limit around the whole call, or the end of the job, cuts the call     *)
(* wherever it is: no event tells of it.                                   *)
Cut(c) ==
    /\ call[c] \in {"calling", "pausing"}
    /\ call' = [call EXCEPT ![c] = "cut"]
    /\ attempt' = [attempt EXCEPT ![c] = 0]
    /\ UNCHANGED unsettled

(* The caller goes on and keeps nothing of a call that ended by itself.    *)
Forget(c) ==
    /\ call[c] \in {"none", "over", "cut"}
    /\ call' = [call EXCEPT ![c] = IF @ = "cut" THEN "cut" ELSE "none"]
    /\ UNCHANGED <<attempt, unsettled>>

CallStep(c) ==
    Answer(c) \/ Resume(c) \/ \E retryable \in BOOLEAN : AttemptFails(c, retryable)

-----------------------------------------------------------------------------
CallTypeOK ==
    /\ call \in [Callers -> {"none", "calling", "pausing", "over", "cut"}]
    /\ attempt \in [Callers -> 0..MaxAttempts]
    /\ unsettled \in [Callers -> 0..1]

(* The report can tell from the events which calls are in flight: a start  *)
(* is unanswered exactly while its attempt runs, or was cut.               *)
StartsAreSettled ==
    \A c \in Callers :
        /\ call[c] = "calling" => unsettled[c] = 1
        /\ unsettled[c] # 0 => call[c] \in {"calling", "cut"}
=============================================================================
