-------------------------- MODULE EventStream_proofs --------------------------
(***************************************************************************)
(* The promises of the event stream, for every number of clients and any   *)
(* progress events.                                                        *)
(***************************************************************************)
EXTENDS EventStream, SequenceTheorems, TLAPS

Listening == {"read", "drain", "wait", "recheck"}

(* What the row and the bus have said so far about the outcome.            *)
LifecycleInv == announced # <<>> => status \in Outcomes /\ announced = <<status>>

(* An outcome that waits in a queue is the one that was published.         *)
QueueInv ==
    \A c \in Clients : \A i \in 1..Len(queue[c]) :
        EndsStream(queue[c][i]) => announced # <<>> /\ queue[c][i][1] = status

(* A terminal row that was read stays what it was, unless it is revised.   *)
ReadInv == \A c \in Clients : current[c] \in Outcomes /\ ~revised => current[c] = status

ToldInv ==
    \A c \in Clients :
        /\ at[c] \in Listening => told[c] = <<>>
        /\ Len(told[c]) <= 1
        /\ told[c] # <<>> /\ ~revised => status \in Outcomes /\ told[c] = <<status>>

StreamInv == StreamTypeOK /\ LifecycleInv /\ QueueInv /\ OutcomeNotMissed /\ ReadInv /\ ToldInv

-----------------------------------------------------------------------------
LEMMA OutcomeEventsType ==
    ASSUME NEW outcome \in Outcomes
    PROVE  /\ OutcomeEvent(outcome) \in Events
           /\ EndsStream(OutcomeEvent(outcome))
           /\ OutcomeEvent(outcome)[1] = outcome
BY DEF Events, OutcomeEvent, EndsStream

LEMMA ProgressEventsType ==
    ASSUME NEW event \in ProgressEvents
    PROVE  event \in Events /\ ~EndsStream(event)
BY ProgressAssumption DEF Events

LEMMA InitStreamInv == StreamInit => StreamInv
<1> SUFFICES ASSUME StreamInit PROVE StreamInv
  OBVIOUS
<1>1. StreamTypeOK
  <2>1. TypeOK
    BY DEF StreamInit, Init, TypeOK
  <2>2. /\ at \in [Clients -> {"off", "read", "drain", "wait", "recheck", "closed"}]
        /\ current \in [Clients -> Statuses]
    BY DEF StreamInit, Statuses
  <2>3. queue \in [Clients -> Seq(Events)] /\ told \in [Clients -> Seq(Outcomes)]
    BY DEF StreamInit
  <2>4. progress = 0 /\ revised = FALSE
    BY DEF StreamInit
  <2>5. progress \in 0..MaxProgress
    BY <2>4, MaxProgressAssumption
  <2> QED
    BY <2>1, <2>2, <2>3, <2>4, <2>5 DEF StreamTypeOK
<1>2. LifecycleInv /\ OutcomeNotMissed
  BY DEF StreamInit, Init, LifecycleInv, OutcomeNotMissed
<1>3. QueueInv
  BY DEF StreamInit, QueueInv
<1>4. ReadInv /\ ToldInv
  BY DEF StreamInit, ReadInv, ToldInv, Outcomes
<1> QED
  BY <1>1, <1>2, <1>3, <1>4 DEF StreamInv

(* What Publish does to one queue.                                         *)
LEMMA PublishQueues ==
    ASSUME StreamTypeOK, NEW event \in Events, Publish(event)
    PROVE  /\ queue' \in [Clients -> Seq(Events)]
           /\ \A c \in Clients :
                \/ queue'[c] = queue[c]
                \/ queue'[c] = Append(queue[c], event)
           /\ \A c \in Clients : at[c] \in Listening => queue'[c] = Append(queue[c], event)
BY DEF Publish, StreamTypeOK, Subscribed, Listening

LEMMA RowMovesKeeps == StreamInv /\ RowMoves => StreamInv'
<1> SUFFICES ASSUME StreamInv, RowMoves PROVE StreamInv'
  OBVIOUS
<1>1. /\ UNCHANGED <<announced, at, queue, current, told, progress, revised>>
      /\ announced = <<>> \/ status' = status
      /\ status \notin Outcomes
      /\ status' \in {"absent"} \union Active \union Outcomes
  BY DEF RowMoves, Accept, Start, Finish, streamVars, StreamInv, LifecycleInv,
         StreamTypeOK, TypeOK, Outcomes, Active
<1>2. LifecycleInv' /\ QueueInv' /\ OutcomeNotMissed'
  BY <1>1 DEF StreamInv, LifecycleInv, QueueInv, OutcomeNotMissed
<1>3. ReadInv' /\ ToldInv'
  BY <1>1 DEF StreamInv, ReadInv, ToldInv
<1>4. StreamTypeOK'
  BY <1>1 DEF StreamInv, StreamTypeOK, TypeOK
<1> QED
  BY <1>2, <1>3, <1>4 DEF StreamInv

LEMMA RevisedKeeps == StreamInv /\ OutcomeRevised => StreamInv'
<1> SUFFICES ASSUME StreamInv, OutcomeRevised PROVE StreamInv'
  OBVIOUS
<1>1. /\ UNCHANGED <<announced, at, queue, current, told, progress>>
      /\ announced = <<>> /\ status' = "failed" /\ revised' = TRUE
  BY DEF OutcomeRevised, Revise, streamVars
<1>2. LifecycleInv' /\ QueueInv' /\ OutcomeNotMissed' /\ ReadInv' /\ ToldInv'
  BY <1>1 DEF StreamInv, LifecycleInv, QueueInv, OutcomeNotMissed, ReadInv, ToldInv
<1>3. StreamTypeOK'
  BY <1>1 DEF StreamInv, StreamTypeOK, TypeOK, Outcomes
<1> QED
  BY <1>2, <1>3 DEF StreamInv

LEMMA PublishedKeeps == StreamInv /\ OutcomePublished => StreamInv'
<1> SUFFICES ASSUME StreamInv, OutcomePublished PROVE StreamInv'
  OBVIOUS
<1> DEFINE event == OutcomeEvent(status)
<1>1. /\ UNCHANGED <<status, at, current, told, progress, revised>>
      /\ status \in Outcomes /\ announced = <<>> /\ announced' = <<status>>
      /\ Publish(event)
  BY DEF OutcomePublished, Announce
<1>2. event \in Events /\ EndsStream(event) /\ event[1] = status
  BY <1>1, OutcomeEventsType
<1> HIDE DEF event
<1>3. /\ queue' \in [Clients -> Seq(Events)]
      /\ \A c \in Clients : queue'[c] = queue[c] \/ queue'[c] = Append(queue[c], event)
      /\ \A c \in Clients : at[c] \in Listening => queue'[c] = Append(queue[c], event)
  BY <1>1, <1>2, PublishQueues DEF StreamInv
<1>4. LifecycleInv' /\ ReadInv' /\ ToldInv'
  BY <1>1 DEF StreamInv, LifecycleInv, ReadInv, ToldInv
<1>5. ASSUME NEW c \in Clients
      PROVE  /\ queue[c] \in Seq(Events)
             /\ \A i \in 1..Len(queue[c]) : ~EndsStream(queue[c][i])
  BY <1>1 DEF StreamInv, StreamTypeOK, QueueInv
<1>6. QueueInv'
  <2> SUFFICES ASSUME NEW c \in Clients, NEW i \in 1..Len(queue'[c]), EndsStream(queue'[c][i])
               PROVE  queue'[c][i][1] = status
    BY <1>1 DEF QueueInv, EndsStream
  <2>1. CASE queue'[c] = queue[c]
    BY <2>1, <1>5
  <2>2. CASE queue'[c] = Append(queue[c], event)
    <3>1. i \in 1..Len(queue[c]) \/ (i = Len(queue[c]) + 1 /\ queue'[c][i] = event)
      BY <2>2, <1>5
    <3>2. i \in 1..Len(queue[c]) => queue'[c][i] = queue[c][i]
      BY <2>2, <1>5
    <3> QED
      BY <3>1, <3>2, <1>5, <1>2
  <2> QED
    BY <2>1, <2>2, <1>3
<1>7. OutcomeNotMissed'
  <2> SUFFICES ASSUME NEW c \in Clients, at[c] \in {"drain", "wait", "recheck"}
               PROVE  \E i \in 1..Len(queue'[c]) : EndsStream(queue'[c][i])
    BY <1>1 DEF OutcomeNotMissed, EndsStream
  <2>1. queue'[c] = Append(queue[c], event)
    BY <1>3 DEF Listening
  <2>2. /\ Len(queue'[c]) = Len(queue[c]) + 1 /\ Len(queue[c]) \in Nat
        /\ queue'[c][Len(queue[c]) + 1] = event
    BY <2>1, <1>5
  <2> QED
    BY <2>2, <1>2
<1>8. StreamTypeOK'
  BY <1>1, <1>3 DEF StreamInv, StreamTypeOK, TypeOK
<1> QED
  BY <1>4, <1>6, <1>7, <1>8 DEF StreamInv

(* An event that names no outcome, whoever publishes it.                   *)
LEMMA EventKeeps ==
    ASSUME StreamInv, NEW event \in ProgressEvents, Publish(event),
           UNCHANGED <<lifecycleVars, at, current, told, revised>>,
           progress' \in 0..MaxProgress
    PROVE  StreamInv'
<1>1. Publish(event)
  OBVIOUS
<1>2. /\ UNCHANGED <<status, announced, at, current, told, revised>>
      /\ progress' \in 0..MaxProgress
  BY DEF lifecycleVars
<1>3. event \in Events /\ ~EndsStream(event)
  BY ProgressEventsType
<1>4. /\ queue' \in [Clients -> Seq(Events)]
      /\ \A c \in Clients : queue'[c] = queue[c] \/ queue'[c] = Append(queue[c], event)
  BY <1>1, <1>3, PublishQueues DEF StreamInv
<1>5. ASSUME NEW c \in Clients
      PROVE  /\ queue[c] \in Seq(Events)
             /\ \A i \in 1..Len(queue[c]) : i \in 1..Len(queue'[c]) /\ queue'[c][i] = queue[c][i]
             /\ \A i \in 1..Len(queue'[c]) :
                   i \in 1..Len(queue[c]) \/ ~EndsStream(queue'[c][i])
  <2>1. queue[c] \in Seq(Events)
    BY DEF StreamInv, StreamTypeOK
  <2>2. CASE queue'[c] = queue[c]
    BY <2>1, <2>2
  <2>3. CASE queue'[c] = Append(queue[c], event)
    <3>1. /\ Len(queue'[c]) = Len(queue[c]) + 1 /\ Len(queue[c]) \in Nat
          /\ queue'[c][Len(queue[c]) + 1] = event
          /\ \A i \in 1..Len(queue[c]) : queue'[c][i] = queue[c][i]
      BY <2>1, <2>3
    <3> QED
      BY <3>1, <2>1, <1>3
  <2> QED
    BY <2>2, <2>3, <1>4
<1>6. QueueInv'
  BY <1>2, <1>5 DEF StreamInv, QueueInv, EndsStream
<1>7. OutcomeNotMissed'
  BY <1>2, <1>5 DEF StreamInv, OutcomeNotMissed, EndsStream
<1>8. LifecycleInv' /\ ReadInv' /\ ToldInv' /\ StreamTypeOK'
  BY <1>2, <1>4 DEF StreamInv, LifecycleInv, ReadInv, ToldInv, StreamTypeOK, TypeOK
<1> QED
  BY <1>6, <1>7, <1>8 DEF StreamInv

LEMMA ProgressKeeps == StreamInv /\ ProgressPublished => StreamInv'
<1> SUFFICES ASSUME StreamInv, ProgressPublished PROVE StreamInv'
  OBVIOUS
<1>1. PICK event \in ProgressEvents : Publish(event)
  BY DEF ProgressPublished
<1>2. /\ UNCHANGED <<lifecycleVars, at, current, told, revised>>
      /\ progress' \in 0..MaxProgress
  BY MaxProgressAssumption DEF ProgressPublished, StreamInv, StreamTypeOK
<1> QED
  BY <1>1, <1>2, EventKeeps

-----------------------------------------------------------------------------
(* The steps of one stream.  They leave the row and the bus alone, and the *)
(* variables of the other clients.                                         *)

(* The part of the invariant that is about one client.                     *)
ClientInv(c) ==
    /\ at[c] \in {"off", "read", "drain", "wait", "recheck", "closed"}
    /\ queue[c] \in Seq(Events)
    /\ current[c] \in Statuses
    /\ told[c] \in Seq(Outcomes)
    /\ \A i \in 1..Len(queue[c]) :
          EndsStream(queue[c][i]) => announced # <<>> /\ queue[c][i][1] = status
    /\ announced # <<>> /\ at[c] \in {"drain", "wait", "recheck"} =>
          \/ current[c] \in Outcomes
          \/ \E i \in 1..Len(queue[c]) : EndsStream(queue[c][i])
    /\ current[c] \in Outcomes /\ ~revised => current[c] = status
    /\ at[c] \in Listening => told[c] = <<>>
    /\ Len(told[c]) <= 1
    /\ told[c] # <<>> /\ ~revised => status \in Outcomes /\ told[c] = <<status>>

Functional ==
    /\ DOMAIN at = Clients /\ at = [x \in Clients |-> at[x]]
    /\ DOMAIN queue = Clients /\ queue = [x \in Clients |-> queue[x]]
    /\ DOMAIN current = Clients /\ current = [x \in Clients |-> current[x]]
    /\ DOMAIN told = Clients /\ told = [x \in Clients |-> told[x]]

BusInv == TypeOK /\ LifecycleInv /\ progress \in 0..MaxProgress /\ revised \in BOOLEAN

AllClients == \A c \in Clients : ClientInv(c)

LEMMA ByClient == StreamInv <=> BusInv /\ Functional /\ AllClients
<1>1. ASSUME StreamInv PROVE BusInv /\ Functional
  <2>1. BusInv
    BY <1>1 DEF StreamInv, StreamTypeOK, BusInv
  <2>2. Functional
    BY <1>1 DEF StreamInv, StreamTypeOK, Functional
  <2> QED
    BY <2>1, <2>2
<1>2. ASSUME StreamInv, NEW c \in Clients PROVE ClientInv(c)
  <2>1. /\ at[c] \in {"off", "read", "drain", "wait", "recheck", "closed"}
        /\ queue[c] \in Seq(Events) /\ current[c] \in Statuses /\ told[c] \in Seq(Outcomes)
    BY <1>2 DEF StreamInv, StreamTypeOK
  <2> QED
    BY <1>2, <2>1 DEF StreamInv, QueueInv, OutcomeNotMissed, ReadInv, ToldInv, ClientInv
<1>3. ASSUME BusInv, Functional, AllClients PROVE StreamInv
  <2>1. StreamTypeOK
    <3>1. at \in [Clients -> {"off", "read", "drain", "wait", "recheck", "closed"}]
      BY <1>3 DEF Functional, AllClients, ClientInv
    <3>2. queue \in [Clients -> Seq(Events)]
      BY <1>3 DEF Functional, AllClients, ClientInv
    <3>3. current \in [Clients -> Statuses] /\ told \in [Clients -> Seq(Outcomes)]
      BY <1>3 DEF Functional, AllClients, ClientInv
    <3> QED
      BY <1>3, <3>1, <3>2, <3>3 DEF StreamTypeOK, BusInv
  <2>2. LifecycleInv
    BY <1>3 DEF BusInv
  <2>3. QueueInv /\ OutcomeNotMissed
    BY <1>3 DEF AllClients, ClientInv, QueueInv, OutcomeNotMissed
  <2>4. ReadInv /\ ToldInv
    BY <1>3 DEF AllClients, ClientInv, ReadInv, ToldInv
  <2> QED
    BY <2>1, <2>2, <2>3, <2>4 DEF StreamInv
<1> QED
  BY <1>1, <1>2, <1>3 DEF AllClients

LEMMA ByClientNext == StreamInv' <=> (BusInv /\ Functional /\ AllClients)'
BY ByClient, PTL

(* A step that leaves the others alone keeps the invariant if it does so   *)
(* for its client.                                                         *)
OthersKept(c) ==
    \A d \in Clients \ {c} : /\ at'[d] = at[d] /\ queue'[d] = queue[d]
                             /\ current'[d] = current[d] /\ told'[d] = told[d]

LEMMA OneClient ==
    ASSUME StreamInv, NEW c \in Clients, ClientInv(c)', Functional', OthersKept(c),
           UNCHANGED <<lifecycleVars, progress, revised>>
    PROVE  StreamInv'
<1>1. BusInv /\ Functional /\ \A d \in Clients : ClientInv(d)
  BY ByClient DEF AllClients
<1>2. UNCHANGED <<status, announced, progress, revised>>
  BY DEF lifecycleVars
<1>3. BusInv'
  BY <1>1, <1>2 DEF BusInv, TypeOK, LifecycleInv
<1>4. ASSUME NEW d \in Clients PROVE ClientInv(d)'
  <2>1. CASE d = c
    BY <2>1
  <2>2. CASE d # c
    BY <2>2, <1>1, <1>2 DEF OthersKept, ClientInv, EndsStream
  <2> QED
    BY <2>1, <2>2
<1> QED
  BY <1>3, <1>4, ByClientNext DEF AllClients

LEMMA ConnectKeeps ==
    ASSUME StreamInv, NEW c \in Clients, Connect(c) PROVE StreamInv'
<1>1. BusInv /\ Functional /\ ClientInv(c)
  BY ByClient DEF AllClients
<1>2. /\ at[c] = "off" /\ UNCHANGED <<status, announced, current, progress, revised>>
      /\ at' = [at EXCEPT ![c] = "read"]
      /\ queue' = [queue EXCEPT ![c] = <<>>] /\ told' = [told EXCEPT ![c] = <<>>]
  BY DEF Connect, lifecycleVars
<1>3. Functional' /\ OthersKept(c)
  BY <1>1, <1>2 DEF Functional, OthersKept
<1>4. at'[c] = "read" /\ queue'[c] = <<>> /\ told'[c] = <<>> /\ current'[c] = current[c]
  BY <1>1, <1>2 DEF Functional
<1>5. ClientInv(c)'
  BY <1>1, <1>2, <1>4 DEF ClientInv, Listening
<1> QED
  BY <1>2, <1>3, <1>5, OneClient DEF lifecycleVars

LEMMA DisconnectKeeps ==
    ASSUME StreamInv, NEW c \in Clients, Disconnect(c) PROVE StreamInv'
<1>1. BusInv /\ Functional /\ ClientInv(c)
  BY ByClient DEF AllClients
<1>2. /\ UNCHANGED <<status, announced, current, told, progress, revised>>
      /\ at' = [at EXCEPT ![c] = "off"] /\ queue' = [queue EXCEPT ![c] = <<>>]
  BY DEF Disconnect, lifecycleVars
<1>3. Functional' /\ OthersKept(c)
  BY <1>1, <1>2 DEF Functional, OthersKept
<1>4. at'[c] = "off" /\ queue'[c] = <<>> /\ told'[c] = told[c] /\ current'[c] = current[c]
  BY <1>1, <1>2 DEF Functional
<1>5. ClientInv(c)'
  BY <1>1, <1>2, <1>4 DEF ClientInv, Listening
<1> QED
  BY <1>2, <1>3, <1>5, OneClient DEF lifecycleVars

(* What was published before the row is read is in the row.                *)
LEMMA ReadRowKeeps ==
    ASSUME StreamInv, NEW c \in Clients, ReadRow(c) PROVE StreamInv'
<1>1. BusInv /\ Functional /\ ClientInv(c)
  BY ByClient DEF AllClients
<1>2. /\ at[c] = "read" /\ UNCHANGED <<status, announced, queue, told, progress, revised>>
      /\ at' = [at EXCEPT ![c] = "drain"] /\ current' = [current EXCEPT ![c] = status]
  BY DEF ReadRow, lifecycleVars
<1>3. Functional' /\ OthersKept(c)
  BY <1>1, <1>2 DEF Functional, OthersKept
<1>4. at'[c] = "drain" /\ queue'[c] = queue[c] /\ told'[c] = told[c] /\ current'[c] = status
  BY <1>1, <1>2 DEF Functional
<1>5. status \in Statuses /\ (announced # <<>> => status \in Outcomes)
  BY <1>1 DEF BusInv, LifecycleInv, TypeOK, Statuses
<1>6. ClientInv(c)'
  BY <1>1, <1>2, <1>4, <1>5 DEF ClientInv, Listening, EndsStream
<1> QED
  BY <1>2, <1>3, <1>6, OneClient DEF lifecycleVars

(* A stream that ends while it listens tells the first outcome it tells.   *)
LEMMA EndKeeps ==
    ASSUME StreamInv, NEW c \in Clients, NEW outcome \in Outcomes,
           at[c] \in Listening, End(c, outcome), ~revised => outcome = status,
           current' = current \/ (current' = [current EXCEPT ![c] = status]),
           UNCHANGED <<lifecycleVars, progress, revised>>
    PROVE  StreamInv'
<1>1. BusInv /\ Functional /\ ClientInv(c)
  BY ByClient DEF AllClients
<1>2. /\ UNCHANGED <<status, announced, progress, revised>>
      /\ at' = [at EXCEPT ![c] = "closed"] /\ queue' = [queue EXCEPT ![c] = <<>>]
      /\ told' = [told EXCEPT ![c] = Append(told[c], outcome)]
  BY DEF End, lifecycleVars
<1>3. Functional' /\ OthersKept(c)
  BY <1>1, <1>2 DEF Functional, OthersKept
<1>4. /\ at'[c] = "closed" /\ queue'[c] = <<>> /\ told'[c] = Append(told[c], outcome)
      /\ current'[c] \in {current[c], status}
  BY <1>1, <1>2 DEF Functional
<1>5. told'[c] = <<outcome>> /\ told'[c] \in Seq(Outcomes) /\ Len(told'[c]) = 1
  <2>1. told[c] = <<>>
    BY <1>1 DEF ClientInv
  <2>2. told'[c] = Append(<<>>, outcome)
    BY <1>4, <2>1
  <2>3. Append(<<>>, outcome) = <<outcome>> /\ Len(<<outcome>>) = 1
    OBVIOUS
  <2>4. <<outcome>> \in Seq(Outcomes)
    OBVIOUS
  <2> QED
    BY <2>2, <2>3, <2>4
<1>6. status \in Statuses
  BY <1>1 DEF BusInv, TypeOK, Statuses
<1>7. ClientInv(c)'
  BY <1>1, <1>2, <1>4, <1>5, <1>6 DEF ClientInv, Listening
<1> QED
  BY <1>3, <1>7, OneClient

LEMMA ForwardKeeps ==
    ASSUME StreamInv, NEW c \in Clients, Forward(c) PROVE StreamInv'
<1>1. BusInv /\ Functional /\ ClientInv(c)
  BY ByClient DEF AllClients
<1>2. /\ at[c] \in {"drain", "wait"} /\ queue[c] # <<>>
      /\ UNCHANGED <<status, announced, current, progress, revised>>
  BY DEF Forward, lifecycleVars
<1>3. /\ queue[c] \in Seq(Events) /\ Len(queue[c]) \in Nat /\ 1 \in 1..Len(queue[c])
      /\ Head(queue[c]) = queue[c][1]
  BY <1>1, <1>2 DEF ClientInv
<1>4. CASE EndsStream(Head(queue[c]))
  <2>1. End(c, Head(queue[c])[1])
    BY <1>4 DEF Forward
  <2>2. Head(queue[c])[1] = status /\ status \in Outcomes
    BY <1>4, <1>1, <1>3 DEF ClientInv, BusInv, LifecycleInv
  <2> QED
    BY <2>1, <2>2, <1>2, EndKeeps DEF Listening, lifecycleVars
<1>5. CASE ~EndsStream(Head(queue[c]))
  <2>1. queue' = [queue EXCEPT ![c] = Tail(queue[c])] /\ UNCHANGED <<at, told>>
    BY <1>5 DEF Forward
  <2>2. Functional' /\ OthersKept(c)
    BY <1>1, <1>2, <2>1 DEF Functional, OthersKept
  <2>3. queue'[c] = Tail(queue[c])
    BY <1>1, <2>1 DEF Functional
  <2>4. /\ queue'[c] \in Seq(Events) /\ Len(queue'[c]) = Len(queue[c]) - 1
        /\ \A i \in 1..Len(queue'[c]) : queue'[c][i] = queue[c][i + 1]
    BY <2>3, <1>2, <1>3
  <2>5. \A i \in 1..Len(queue'[c]) : i + 1 \in 1..Len(queue[c])
    BY <2>4, <1>3
  <2>6. \A i \in 1..Len(queue'[c]) :
           EndsStream(queue'[c][i]) => announced # <<>> /\ queue'[c][i][1] = status
    BY <1>1, <2>4, <2>5 DEF ClientInv
  <2>7. ASSUME NEW i \in 1..Len(queue[c]), EndsStream(queue[c][i])
        PROVE  \E j \in 1..Len(queue'[c]) : EndsStream(queue'[c][j])
    <3>1. i # 1
      BY <2>7, <1>5, <1>3
    <3>2. i - 1 \in 1..Len(queue'[c]) /\ (i - 1) + 1 = i
      BY <3>1, <2>4, <1>3
    <3> QED
      BY <3>2, <2>4, <2>7
  <2>8. ClientInv(c)'
    BY <1>1, <1>2, <2>1, <2>4, <2>6, <2>7 DEF ClientInv, EndsStream
  <2> QED
    BY <1>2, <2>2, <2>8, OneClient DEF lifecycleVars
<1> QED
  BY <1>4, <1>5

LEMMA DrainedKeeps ==
    ASSUME StreamInv, NEW c \in Clients, Drained(c) PROVE StreamInv'
<1>1. BusInv /\ Functional /\ ClientInv(c)
  BY ByClient DEF AllClients
<1>2. /\ at[c] = "drain" /\ queue[c] = <<>>
      /\ UNCHANGED <<status, announced, current, progress, revised>>
  BY DEF Drained, lifecycleVars
<1>3. CASE current[c] \in Outcomes
  <2>1. End(c, current[c])
    BY <1>3 DEF Drained
  <2>2. ~revised => current[c] = status
    BY <1>1, <1>3 DEF ClientInv
  <2> QED
    BY <2>1, <2>2, <1>2, <1>3, EndKeeps DEF Listening, lifecycleVars
<1>4. CASE current[c] \notin Outcomes
  <2>1. at' = [at EXCEPT ![c] = "wait"] /\ UNCHANGED <<queue, told>>
    BY <1>4 DEF Drained
  <2>2. Functional' /\ OthersKept(c) /\ at'[c] = "wait"
    BY <1>1, <1>2, <2>1 DEF Functional, OthersKept
  <2>3. ClientInv(c)'
    BY <1>1, <1>2, <2>1, <2>2 DEF ClientInv, EndsStream, Listening
  <2> QED
    BY <1>2, <2>2, <2>3, OneClient DEF lifecycleVars
<1> QED
  BY <1>3, <1>4

LEMMA KeepAliveKeeps ==
    ASSUME StreamInv, NEW c \in Clients, KeepAliveExpires(c) PROVE StreamInv'
<1>1. BusInv /\ Functional /\ ClientInv(c)
  BY ByClient DEF AllClients
<1>2. /\ at[c] = "wait" /\ at' = [at EXCEPT ![c] = "recheck"]
      /\ UNCHANGED <<status, announced, queue, current, told, progress, revised>>
  BY DEF KeepAliveExpires, lifecycleVars
<1>3. Functional' /\ OthersKept(c) /\ at'[c] = "recheck"
  BY <1>1, <1>2 DEF Functional, OthersKept
<1>4. ClientInv(c)'
  BY <1>1, <1>2, <1>3 DEF ClientInv, EndsStream, Listening
<1> QED
  BY <1>2, <1>3, <1>4, OneClient DEF lifecycleVars

LEMMA RecheckKeeps ==
    ASSUME StreamInv, NEW c \in Clients, Recheck(c) PROVE StreamInv'
<1>1. BusInv /\ Functional /\ ClientInv(c)
  BY ByClient DEF AllClients
<1>2. /\ at[c] = "recheck" /\ current' = [current EXCEPT ![c] = status]
      /\ UNCHANGED <<status, announced, progress, revised>>
  BY DEF Recheck, lifecycleVars
<1>3. CASE status \in Outcomes
  <2>1. End(c, status)
    BY <1>3 DEF Recheck
  <2> QED
    BY <2>1, <1>2, <1>3, EndKeeps DEF Listening, lifecycleVars
<1>4. CASE status \notin Outcomes
  <2>1. at' = [at EXCEPT ![c] = "wait"] /\ UNCHANGED <<queue, told>>
    BY <1>4 DEF Recheck
  <2>2. /\ Functional' /\ OthersKept(c)
        /\ at'[c] = "wait" /\ current'[c] = status
    BY <1>1, <1>2, <2>1 DEF Functional, OthersKept
  <2>3. announced = <<>> /\ status \in Statuses
    BY <1>1, <1>4 DEF BusInv, LifecycleInv, TypeOK, Statuses
  <2>4. ClientInv(c)'
    BY <1>1, <1>2, <1>4, <2>1, <2>2, <2>3 DEF ClientInv, EndsStream, Listening
  <2> QED
    BY <1>2, <2>2, <2>4, OneClient DEF lifecycleVars
<1> QED
  BY <1>3, <1>4

LEMMA RestartKeeps == StreamInv /\ Restart => StreamInv'
<1> SUFFICES ASSUME StreamInv, Restart PROVE StreamInv'
  OBVIOUS
<1>1. /\ at' = [c \in Clients |-> "off"] /\ queue' = [c \in Clients |-> <<>>]
      /\ UNCHANGED <<status, announced, current, told, progress, revised>>
  BY DEF Restart, lifecycleVars
<1>2. queue' \in [Clients -> Seq(Events)]
  BY <1>1
<1>3. StreamTypeOK'
  BY <1>1, <1>2 DEF StreamInv, StreamTypeOK, TypeOK
<1>4. LifecycleInv' /\ ReadInv'
  BY <1>1 DEF StreamInv, LifecycleInv, ReadInv
<1>5. QueueInv' /\ OutcomeNotMissed' /\ ToldInv'
  BY <1>1 DEF StreamInv, QueueInv, OutcomeNotMissed, ToldInv, Listening
<1> QED
  BY <1>3, <1>4, <1>5 DEF StreamInv

-----------------------------------------------------------------------------
LEMMA NextKeeps == StreamInv /\ [AllNext]_vars => StreamInv'
<1> SUFFICES ASSUME StreamInv, [AllNext]_vars PROVE StreamInv'
  OBVIOUS
<1>1. CASE EnvironmentNext
  BY <1>1, RowMovesKeeps, PublishedKeeps, RevisedKeeps, ProgressKeeps, RestartKeeps,
     ConnectKeeps, DisconnectKeeps DEF EnvironmentNext
<1>2. ASSUME NEW c \in Clients, StreamNext(c) PROVE StreamInv'
  BY <1>2, ReadRowKeeps, ForwardKeeps, DrainedKeeps, KeepAliveKeeps, RecheckKeeps
     DEF StreamNext
<1>3. CASE UNCHANGED vars
  <2>1. UNCHANGED <<status, announced, at, queue, current, told, progress, revised>>
    BY <1>3 DEF vars, streamVars, lifecycleVars
  <2> QED
    BY <2>1 DEF StreamInv, StreamTypeOK, TypeOK, LifecycleInv, QueueInv, OutcomeNotMissed,
                ReadInv, ToldInv, EndsStream
<1> QED
  BY <1>1, <1>2, <1>3 DEF AllNext

THEOREM StreamInvariant == StreamSpec => []StreamInv
BY InitStreamInv, NextKeeps, PTL DEF StreamSpec

(* The variables of the stream and the bus keep their types.               *)
THEOREM StreamTypes == StreamSpec => []StreamTypeOK
BY StreamInvariant, PTL DEF StreamInv

(* _stream_generation_events subscribes before it reads the row, so no     *)
(* client of any number waits for an outcome that was already published.   *)
THEOREM NoOutcomeMissed == StreamSpec => []OutcomeNotMissed
BY StreamInvariant, PTL DEF StreamInv

(* A connection is told one outcome at most, and the row's: the bus and    *)
(* the row, whichever the stream ends on, agree.                           *)
THEOREM ToldOnce == StreamSpec => []ToldTheOutcome
<1>1. StreamInv => ToldTheOutcome
  BY DEF StreamInv, ToldInv, ToldTheOutcome
<1> QED
  BY <1>1, StreamInvariant, PTL
=============================================================================
