---------------------------- MODULE EventStream ----------------------------
(***************************************************************************)
(* The SSE endpoint of one generation and the event bus behind it.         *)
(*                                                                         *)
(* GenerationLifecycle is the environment: whatever job, crash or restart  *)
(* moves the row and publishes its outcome does so within that contract.   *)
(* A client's stream subscribes to the bus, reads the row, drains its      *)
(* queue and then waits for events; when none comes for a keep-alive       *)
(* period it reads the row again.                                          *)
(***************************************************************************)
EXTENDS GenerationLifecycle, FiniteSets

CONSTANTS
    Clients,          \* concurrent connections to the generation's stream
    ProgressEvents,   \* everything else on the bus, as pairs <<type, subject>>
    MaxProgress       \* bound on the progress events that reach the bus

ASSUME ClientsAssumption == IsFiniteSet(Clients)
ASSUME MaxProgressAssumption == MaxProgress \in Nat

VARIABLES
    at,        \* where the generator of each client's stream stands
    queue,     \* each client's queue on the bus, as long as it is subscribed
    current,   \* status of the row the stream read last
    told,      \* outcomes delivered on this connection
    progress,  \* progress events published so far
    revised    \* the contract's Revise happened

streamVars == <<at, queue, current, told>>
vars == <<lifecycleVars, streamVars, progress, revised>>

Statuses == {"absent"} \union Active \union Outcomes

(* The events of the bus; those that name an outcome end a stream.         *)
OutcomeEvent(outcome) == <<outcome, "generation">>
Events == ProgressEvents \union {OutcomeEvent(outcome) : outcome \in Outcomes}
EndsStream(event) == event[1] \in Outcomes

ASSUME ProgressAssumption ==
    \A event \in ProgressEvents : Len(event) = 2 /\ ~EndsStream(event)

(* Mutant: a stream checks the row and drains first, and subscribes then.  *)
SubscribedLate == {c \in Clients : at[c] \in {"wait", "recheck"}}

(* A stream holds its subscription from "read" to its end.                 *)
Subscribed == {c \in Clients : at[c] \in {"read", "drain", "wait", "recheck"}}

StreamInit ==
    /\ Init
    /\ at = [c \in Clients |-> "off"]
    /\ queue = [c \in Clients |-> <<>>]
    /\ current = [c \in Clients |-> "absent"]
    /\ told = [c \in Clients |-> <<>>]
    /\ progress = 0
    /\ revised = FALSE

-----------------------------------------------------------------------------
(* EventBus.publish puts the event into the queue of every subscriber; the *)
(* queues are unbounded.                                                   *)
Publish(event) ==
    queue' = [c \in Clients |-> IF c \in Subscribed THEN Append(queue[c], event)
                                                    ELSE queue[c]]

RowMoves ==
    /\ \/ Accept \/ Start
       \/ \E outcome \in Outcomes : Finish(outcome)
    /\ UNCHANGED <<streamVars, progress, revised>>

OutcomePublished ==
    /\ Announce
    /\ Publish(OutcomeEvent(status))
    /\ UNCHANGED <<at, current, told, progress, revised>>

OutcomeRevised ==
    /\ Revise
    /\ revised' = TRUE
    /\ UNCHANGED <<streamVars, progress>>

(* Everything else on the bus, the trace_closed event after the outcome    *)
(* included.                                                               *)
ProgressPublished ==
    /\ status # "absent"
    /\ progress < MaxProgress
    /\ progress' = progress + 1
    /\ \E event \in ProgressEvents : Publish(event)
    /\ UNCHANGED <<lifecycleVars, at, current, told, revised>>

-----------------------------------------------------------------------------
(* The route has found the row; the generator subscribes before it reads   *)
(* the row itself.                                                         *)
Connect(c) ==
    /\ at[c] = "off"
    /\ status # "absent"
    /\ at' = [at EXCEPT ![c] = "read"]
    /\ queue' = [queue EXCEPT ![c] = <<>>]
    /\ told' = [told EXCEPT ![c] = <<>>]
    /\ UNCHANGED <<lifecycleVars, current, progress, revised>>

ReadRow(c) ==
    /\ at[c] = "read"
    /\ at' = [at EXCEPT ![c] = "drain"]
    /\ current' = [current EXCEPT ![c] = status]
    /\ UNCHANGED <<lifecycleVars, queue, told, progress, revised>>

(* Mutant: the generator goes on after it delivered the outcome.           *)
EndKeepsOpen(c, outcome) ==
    /\ told' = [told EXCEPT ![c] = Append(@, outcome)]
    /\ UNCHANGED <<at, queue>>

(* Ending a stream delivers the outcome and unsubscribes.                  *)
End(c, outcome) ==
    /\ told' = [told EXCEPT ![c] = Append(@, outcome)]
    /\ at' = [at EXCEPT ![c] = "closed"]
    /\ queue' = [queue EXCEPT ![c] = <<>>]

(* The head of the queue is forwarded; a stream-ending event ends it.      *)
Forward(c) ==
    /\ at[c] \in {"drain", "wait"}
    /\ queue[c] # <<>>
    /\ IF EndsStream(Head(queue[c]))
       THEN End(c, Head(queue[c])[1])
       ELSE /\ queue' = [queue EXCEPT ![c] = Tail(@)]
            /\ UNCHANGED <<at, told>>
    /\ UNCHANGED <<lifecycleVars, current, progress, revised>>

(* The queue is drained: a terminal row ends the stream, as it was read    *)
(* before the drain.                                                       *)
Drained(c) ==
    /\ at[c] = "drain"
    /\ queue[c] = <<>>
    /\ IF current[c] \in Outcomes
       THEN End(c, current[c])
       ELSE /\ at' = [at EXCEPT ![c] = "wait"]
            /\ UNCHANGED <<queue, told>>
    /\ UNCHANGED <<lifecycleVars, current, progress, revised>>

(* No event for a keep-alive period: the row is read again.                *)
KeepAliveExpires(c) ==
    /\ at[c] = "wait"
    /\ queue[c] = <<>>
    /\ at' = [at EXCEPT ![c] = "recheck"]
    /\ UNCHANGED <<lifecycleVars, queue, current, told, progress, revised>>

(* Mutant: the keep-alive does not look at the row.                        *)
RecheckSkipped(c) ==
    /\ at[c] = "recheck"
    /\ at' = [at EXCEPT ![c] = "wait"]
    /\ UNCHANGED <<lifecycleVars, queue, current, told, progress, revised>>

Recheck(c) ==
    /\ at[c] = "recheck"
    /\ current' = [current EXCEPT ![c] = status]
    /\ IF status \in Outcomes
       THEN End(c, status)
       ELSE /\ at' = [at EXCEPT ![c] = "wait"]
            /\ UNCHANGED <<queue, told>>
    /\ UNCHANGED <<lifecycleVars, progress, revised>>

(* The client goes away, or a read of the row raises: the generator's      *)
(* finally unsubscribes.                                                   *)
Disconnect(c) ==
    /\ at[c] # "off"
    /\ at' = [at EXCEPT ![c] = "off"]
    /\ queue' = [queue EXCEPT ![c] = <<>>]
    /\ UNCHANGED <<lifecycleVars, current, told, progress, revised>>

(* The process goes away, and the bus and all streams with it.             *)
Restart ==
    /\ at' = [c \in Clients |-> "off"]
    /\ queue' = [c \in Clients |-> <<>>]
    /\ UNCHANGED <<lifecycleVars, current, told, progress, revised>>

StreamNext(c) ==
    \/ ReadRow(c) \/ Forward(c) \/ Drained(c)
    \/ KeepAliveExpires(c) \/ Recheck(c)

EnvironmentNext ==
    \/ RowMoves \/ OutcomePublished \/ OutcomeRevised \/ ProgressPublished
    \/ Restart
    \/ \E c \in Clients : Connect(c) \/ Disconnect(c)

AllNext == EnvironmentNext \/ \E c \in Clients : StreamNext(c)

StreamSpec == StreamInit /\ [][AllNext]_vars

-----------------------------------------------------------------------------
StreamTypeOK ==
    /\ TypeOK
    /\ at \in [Clients -> {"off", "read", "drain", "wait", "recheck", "closed"}]
    /\ queue \in [Clients -> Seq(Events)]
    /\ current \in [Clients -> Statuses]
    /\ told \in [Clients -> Seq(Outcomes)]
    /\ progress \in 0..MaxProgress
    /\ revised \in BOOLEAN

(* Subscribe, then check: once the outcome was published, a stream that is *)
(* past its first read of the row has the outcome in its queue or has read *)
(* a terminal row, so no stream waits for an event that is gone.           *)
OutcomeNotMissed ==
    \A c \in Clients :
        announced # <<>> /\ at[c] \in {"drain", "wait", "recheck"} =>
            \/ current[c] \in Outcomes
            \/ \E i \in 1..Len(queue[c]) : EndsStream(queue[c][i])

(* A connection delivers at most one outcome, whether it comes from the    *)
(* bus or from the row, and it is the row's, unless a job took back an     *)
(* outcome it had not announced.                                           *)
ToldTheOutcome ==
    \A c \in Clients :
        /\ Len(told[c]) <= 1
        /\ told[c] # <<>> /\ ~revised => told[c] = <<status>>
=============================================================================
