----------------------- MODULE RuntimeProgress_proofs -----------------------
(***************************************************************************)
(* The limiters, the model calls and the tracker of RuntimeProgress, for   *)
(* every number of tasks, sections, executors, slots and attempts.         *)
(***************************************************************************)
EXTENDS RuntimeProgress, FiniteSetTheorems, TLAPS

-----------------------------------------------------------------------------
(* One limiter.                                                            *)

LimiterType == [free : Nat, waiting : Seq(Jobs), granted : SUBSET Jobs]

(* Who waits, with or without a slot handed over, does so once.            *)
LimiterOK(s) ==
    /\ s \in LimiterType
    /\ IsFiniteSet(s.granted)
    /\ \A i, k \in 1 .. Len(s.waiting) : s.waiting[i] = s.waiting[k] => i = k
    /\ \A i \in 1 .. Len(s.waiting) : s.waiting[i] \notin s.granted

Members(s) == s.granted \union {s.waiting[i] : i \in 1 .. Len(s.waiting)}

(* The slots that no running job holds.                                    *)
Unheld(s) == s.free + Cardinality(s.granted)

-----------------------------------------------------------------------------
(* The inductive invariant.                                                *)

(* Where a task is says where its parts can be.                            *)
Parts(t) ==
    /\ pos[<<t, "section">>] \in
         IF task[t].node # "process_section" THEN {"idle"}
         ELSE CASE stage[t] = "new"     -> {"idle"}
                [] stage[t] = "content" -> {"waiting", "running"}
                [] stage[t] = "done"    -> {"done"}
                [] OTHER                -> {"running"}
    /\ pos[<<t, "qc_agent">>] \in
         CASE stage[t] \in {"new", "content", "media"} -> {"idle"}
           [] stage[t] = "quality" -> {"waiting", "running"}
           [] OTHER -> {"idle", "done"}
    /\ \A m \in Media :
         /\ pos[<<t, m>>] \in {"waiting", "running"} => stage[t] = "media" /\ m \in task[t].needs
         /\ stage[t] = "new" => pos[<<t, m>>] = "idle"

PartsFollowStage == \A t \in Tasks : Parts(t)

(* A call is made of attempts that are counted and settled one by one.     *)
Counted(c, a, u) ==
    /\ c \in {"none", "calling", "pausing", "over", "cut"} /\ a \in 0..MaxAttempts /\ u \in 0..1
    /\ c \in {"none", "over", "cut"} => a = 0
    /\ c = "calling" => a # 0 /\ u = 1
    /\ c = "pausing" => a # 0 /\ a < MaxAttempts
    /\ c \in {"none", "over", "pausing"} => u = 0

CallIsCounted ==
    \A j \in Jobs : /\ pos[j] \in {"idle", "waiting"} => call[j] = "none"
                    /\ Counted(call[j], attempt[j], unsettled[j])

(* Everybody who waits is known to the limiter, and every slot is free,    *)
(* handed over or held.                                                    *)
LimiterInv(x) ==
    /\ LimiterOK(sem[x])
    /\ Members(sem[x]) = {j \in Jobs : LimiterOf(j) = x /\ pos[j] = "waiting"}
    /\ IsFiniteSet(Holders(x))
    /\ Unheld(sem[x]) + Cardinality(Holders(x)) = Slots[x]

Inv ==
    /\ TypeOK
    /\ PartsFollowStage
    /\ CallIsCounted
    /\ \A x \in Limiters : LimiterInv(x)

-----------------------------------------------------------------------------
(* What the operations of a limiter keep.                                  *)

LEMMA UnheldType ==
    ASSUME NEW s, LimiterOK(s)
    PROVE  Unheld(s) \in Nat
<1>1. s.free \in Nat /\ Cardinality(s.granted) \in Nat
  BY FS_CardinalityType DEF LimiterOK, LimiterType
<1> QED
  BY <1>1 DEF Unheld

LEMMA NewLimiterKeeps ==
    ASSUME NEW n \in Nat
    PROVE  LET s == NewLimiter(n)
           IN  LimiterOK(s) /\ Members(s) = {} /\ Unheld(s) = n
<1>1. NewLimiter(n).waiting = <<>> /\ NewLimiter(n).granted = {} /\ NewLimiter(n).free = n
  BY DEF NewLimiter
<1>2. NewLimiter(n) \in LimiterType
  BY DEF NewLimiter, LimiterType
<1> QED
  BY <1>1, <1>2, FS_EmptySet DEF LimiterOK, Members, Unheld

LEMMA TakeKeeps ==
    ASSUME NEW s, LimiterOK(s), TakesAtOnce(s)
    PROVE  LimiterOK(Take(s)) /\ Members(Take(s)) = Members(s) /\ Unheld(Take(s)) = Unheld(s) - 1
<1>1. /\ Take(s) \in LimiterType
      /\ Take(s).free = s.free - 1 /\ Take(s).waiting = s.waiting /\ Take(s).granted = s.granted
  BY DEF LimiterOK, LimiterType, Take, TakesAtOnce
<1>2. Cardinality(s.granted) \in Nat /\ s.free \in Nat
  BY FS_CardinalityType DEF LimiterOK, LimiterType
<1> QED
  BY <1>1, <1>2 DEF LimiterOK, Members, Unheld

LEMMA WaitKeeps ==
    ASSUME NEW s, LimiterOK(s), NEW j \in Jobs, j \notin Members(s)
    PROVE  /\ LimiterOK(Wait(s, j)) /\ Members(Wait(s, j)) = Members(s) \union {j}
           /\ Unheld(Wait(s, j)) = Unheld(s)
<1> DEFINE w == s.waiting
           v == Append(w, j)
<1>0. /\ s \in LimiterType /\ s.free \in Nat /\ s.granted \in SUBSET Jobs
      /\ w \in Seq(Jobs) /\ v \in Seq(Jobs)
  BY DEF LimiterOK, LimiterType
<1>1. /\ Wait(s, j) \in LimiterType
      /\ Wait(s, j).free = s.free /\ Wait(s, j).waiting = v /\ Wait(s, j).granted = s.granted
  <2> HIDE DEF w
  <2>1. Wait(s, j) = [s EXCEPT !.waiting = v]
    BY DEF Wait, w
  <2> HIDE DEF v
  <2> QED
    BY <1>0, <2>1 DEF LimiterType
<1>2. /\ Len(w) \in Nat /\ Len(v) = Len(w) + 1 /\ v[Len(v)] = j
      /\ \A i \in 1 .. Len(w) : v[i] = w[i] /\ w[i] # j
  BY DEF LimiterOK, LimiterType, Members
<1> HIDE DEF v, w
<1>3. \A i, k \in 1 .. Len(v) : v[i] = v[k] => i = k
  BY <1>2 DEF LimiterOK, w
<1>4. \A i \in 1 .. Len(v) : v[i] \notin s.granted
  BY <1>2 DEF LimiterOK, Members, w
<1>5. {v[i] : i \in 1 .. Len(v)} = {w[i] : i \in 1 .. Len(w)} \union {j}
  <2>1. 1 .. Len(v) = 1 .. Len(w) \union {Len(v)}
    BY <1>2
  <2> QED
    BY <1>2, <2>1
<1>6. LimiterOK(Wait(s, j))
  BY <1>1, <1>3, <1>4 DEF LimiterOK
<1>7. Members(Wait(s, j)) = Members(s) \union {j}
  BY <1>1, <1>5 DEF Members, w
<1>8. Unheld(Wait(s, j)) = Unheld(s)
  BY <1>1 DEF Unheld
<1> QED
  BY <1>6, <1>7, <1>8

LEMMA WakeUpKeeps ==
    ASSUME NEW s, LimiterOK(s)
    PROVE  /\ LimiterOK(WakeUpNext(s)) /\ Members(WakeUpNext(s)) = Members(s)
           /\ Unheld(WakeUpNext(s)) = Unheld(s)
<1>1. CASE s.free = 0 \/ s.waiting = <<>>
  BY <1>1 DEF WakeUpNext
<1>2. CASE ~(s.free = 0 \/ s.waiting = <<>>)
  <2> DEFINE w == s.waiting
             v == Tail(w)
             g == s.granted \union {Head(w)}
  <2>1. /\ WakeUpNext(s).free = s.free - 1
        /\ WakeUpNext(s).waiting = v /\ WakeUpNext(s).granted = g
    BY <1>2 DEF WakeUpNext
  <2>2. /\ w \in Seq(Jobs) /\ Len(w) \in Nat \ {0} /\ v \in Seq(Jobs) /\ Len(v) = Len(w) - 1
        /\ Head(w) = w[1] /\ w[1] \in Jobs
        /\ \A i \in 1 .. Len(v) : v[i] = w[i + 1]
    BY <1>2 DEF LimiterOK, LimiterType
  <2>3. s.free \in Nat \ {0} /\ IsFiniteSet(s.granted) /\ Head(w) \notin s.granted
    BY <1>2, <2>2 DEF LimiterOK, LimiterType
  <2>4. IsFiniteSet(g) /\ Cardinality(g) = Cardinality(s.granted) + 1
         /\ Cardinality(s.granted) \in Nat
    BY <2>3, FS_AddElement, FS_CardinalityType
  <2>5. WakeUpNext(s) \in LimiterType
    BY <1>2, <2>2, <2>3 DEF WakeUpNext, LimiterOK, LimiterType
  <2> HIDE DEF v, g, w
  <2>6. \A i, k \in 1 .. Len(v) : v[i] = v[k] => i = k
    BY <2>2 DEF LimiterOK, w
  <2>7. \A i \in 1 .. Len(v) : v[i] \notin g
    BY <2>2 DEF LimiterOK, g, w
  <2>8. g \union {v[i] : i \in 1 .. Len(v)} = s.granted \union {w[i] : i \in 1 .. Len(w)}
    <3>1. ASSUME NEW i \in 1 .. Len(w)
          PROVE  w[i] \in g \union {v[k] : k \in 1 .. Len(v)}
      <4>1. CASE i = 1
        BY <2>2, <4>1 DEF g
      <4>2. CASE i # 1
        <5>1. i - 1 \in 1 .. Len(v) /\ v[i - 1] = w[i]
          BY <2>2, <4>2
        <5> QED
          BY <5>1
      <4> QED
        BY <4>1, <4>2
    <3>2. ASSUME NEW i \in 1 .. Len(v)
          PROVE  v[i] \in {w[k] : k \in 1 .. Len(w)}
      BY <2>2
    <3>3. Head(w) \in {w[k] : k \in 1 .. Len(w)}
      BY <2>2
    <3> QED
      BY <3>1, <3>2, <3>3 DEF g
  <2> QED
    BY <2>1, <2>3, <2>4, <2>5, <2>6, <2>7, <2>8 DEF LimiterOK, Members, Unheld, w
<1> QED
  BY <1>1, <1>2

LEMMA ReleaseKeeps ==
    ASSUME NEW s, LimiterOK(s)
    PROVE  /\ LimiterOK(Release(s)) /\ Members(Release(s)) = Members(s)
           /\ Unheld(Release(s)) = Unheld(s) + 1
<1> DEFINE u == [s EXCEPT !.free = @ + 1]
<1>1. u \in LimiterType /\ u.free = s.free + 1 /\ u.waiting = s.waiting /\ u.granted = s.granted
  BY DEF LimiterOK, LimiterType
<1>2. Cardinality(s.granted) \in Nat /\ s.free \in Nat
  BY FS_CardinalityType DEF LimiterOK, LimiterType
<1> HIDE DEF u
<1>3. LimiterOK(u) /\ Members(u) = Members(s) /\ Unheld(u) = Unheld(s) + 1
  BY <1>1, <1>2 DEF LimiterOK, Members, Unheld
<1>4. Release(s) = WakeUpNext(u)
  BY DEF Release, u
<1> QED
  BY <1>3, <1>4, WakeUpKeeps

LEMMA ResumeKeeps ==
    ASSUME NEW s, LimiterOK(s), NEW j \in s.granted
    PROVE  /\ LimiterOK(Resume(s, j)) /\ Members(Resume(s, j)) = Members(s) \ {j}
           /\ Unheld(Resume(s, j)) = Unheld(s) - 1
<1> DEFINE u == [s EXCEPT !.granted = @ \ {j}]
<1>1. u \in LimiterType /\ u.free = s.free /\ u.waiting = s.waiting /\ u.granted = s.granted \ {j}
  BY DEF LimiterOK, LimiterType
<1>2. /\ Cardinality(s.granted) \in Nat /\ s.free \in Nat
      /\ IsFiniteSet(s.granted \ {j}) /\ Cardinality(s.granted \ {j}) = Cardinality(s.granted) - 1
  BY FS_RemoveElement, FS_CardinalityType DEF LimiterOK, LimiterType
<1> HIDE DEF u
<1>3. LimiterOK(u) /\ Members(u) = Members(s) \ {j} /\ Unheld(u) = Unheld(s) - 1
  BY <1>1, <1>2 DEF LimiterOK, Members, Unheld
<1>4. Resume(s, j) = WakeUpNext(u)
  BY DEF Resume, u
<1> QED
  BY <1>3, <1>4, WakeUpKeeps

-----------------------------------------------------------------------------
(* Jobs, tasks and their types.                                            *)

LEMMA JobFacts ==
    ASSUME NEW j \in Jobs
    PROVE  /\ LimiterOf(j) \in Limiters /\ j[1] \in Tasks /\ j = <<j[1], j[2]>>
           /\ j[2] \in {"section", "qc_agent"} \union Media
           /\ LimiterOf(j) = "section" <=> j[2] = "section"
           /\ LimiterOf(j) = "qc" <=> j[2] = "qc_agent"
<1>1. j[1] \in Tasks /\ j = <<j[1], j[2]>> /\ j[2] \in {"section", "qc_agent"} \union Media
  BY DEF Jobs
<1>2. CASE j[2] = "section"
  BY <1>1, <1>2 DEF LimiterOf, Limiters
<1>3. CASE j[2] = "qc_agent"
  BY <1>1, <1>3 DEF LimiterOf, Limiters
<1>4. CASE j[2] # "section" /\ j[2] # "qc_agent"
  <2>1. LimiterOf(j) = "media"
    BY <1>4 DEF LimiterOf
  <2> QED
    BY <1>1, <1>4, <2>1 DEF Limiters
<1> QED
  BY <1>2, <1>3, <1>4

LEMMA TaskJobs ==
    ASSUME NEW t \in Tasks
    PROVE  /\ <<t, "section">> \in Jobs /\ LimiterOf(<<t, "section">>) = "section"
           /\ <<t, "qc_agent">> \in Jobs /\ LimiterOf(<<t, "qc_agent">>) = "qc"
           /\ \A m \in Media : /\ <<t, m>> \in Jobs /\ LimiterOf(<<t, m>>) = "media"
                                /\ m # "section" /\ m # "qc_agent"
BY MediaAssumption DEF Jobs, LimiterOf

LEMMA TaskFacts ==
    ASSUME TypeOK, NEW t \in Tasks
    PROVE  /\ task[t].sec \in Sections /\ task[t].needs \in SUBSET Media
           /\ task[t].retry \in BOOLEAN
           /\ task[t].node \in {"process_section", "retry_media_frame", "retry_field"}
<1>1. task[t] \in TaskKinds
  BY DEF TypeOK
<1>2. \A needs \in {{m} : m \in Media} \union {{}} : needs \in SUBSET Media
  OBVIOUS
<1>3. PICK k \in {"process_section", "retry_media_frame", "retry_field"},
            s \in Sections, n \in SUBSET Media, r \in BOOLEAN :
         task[t] = [node |-> k, sec |-> s, needs |-> n, retry |-> r]
  BY <1>1, <1>2, Zenon DEF TaskKinds
<1> QED
  BY <1>3

-----------------------------------------------------------------------------
(* Every step keeps the limiters.                                          *)

Freed(j) ==
    /\ pos[j] = "running"
    /\ sem' = [sem EXCEPT ![LimiterOf(j)] = Release(@)]
    /\ pos' = [pos EXCEPT ![j] = "done"]

(* What a step can do to the limiters, whatever its task is up to.         *)
LEMMA StepKinds ==
    ASSUME TypeOK, PartsFollowStage, Next
    PROVE  \/ UNCHANGED <<sem, pos>>
           \/ \E j \in Jobs : (pos[j] = "idle" /\ Reach(j)) \/ Granted(j) \/ Freed(j)
<1>1. ASSUME NEW t \in Tasks, TaskStep(t)
      PROVE  \/ UNCHANGED <<sem, pos>>
             \/ \E j \in Jobs : (pos[j] = "idle" /\ Reach(j)) \/ Freed(j)
  <2>1. CASE StartSectionFlow(t)
    <3>1. pos[<<t, "section">>] = "idle" /\ Reach(<<t, "section">>)
      BY <2>1 DEF StartSectionFlow, PartsFollowStage, Parts
    <3> QED
      BY <3>1, TaskJobs
  <2>2. CASE StartRetry(t) \/ ContentIsWritten(t) \/ SkipQc(t)
    BY <2>2 DEF StartRetry, ContentIsWritten, SkipQc
  <2>3. ASSUME NEW m \in Media, StartExecutor(t, m)
        PROVE  \E j \in Jobs : pos[j] = "idle" /\ Reach(j)
    BY <2>3, TaskJobs DEF StartExecutor
  <2>4. CASE StartQc(t)
    <3>1. pos[<<t, "qc_agent">>] = "idle" /\ Reach(<<t, "qc_agent">>)
      BY <2>4 DEF StartQc, MediaOver, PartsFollowStage, Parts
    <3> QED
      BY <3>1, TaskJobs
  <2>5. CASE Leave(t)
    <3>1. CASE task[t].node = "process_section"
      <4>1. Freed(<<t, "section">>)
        BY <2>5, <3>1, TaskJobs DEF Leave, Freed, PartsFollowStage, Parts
      <4> QED
        BY <4>1, TaskJobs
    <3>2. CASE task[t].node # "process_section"
      BY <2>5, <3>2 DEF Leave
    <3> QED
      BY <3>1, <3>2
  <2> QED
    BY <1>1, <2>1, <2>2, <2>3, <2>4, <2>5 DEF TaskStep
<1>2. ASSUME NEW j \in Jobs, JobStep(j)
      PROVE  UNCHANGED <<sem, pos>> \/ Granted(j) \/ Freed(j)
  BY <1>2 DEF JobStep, EndNode, CallMoves, Freed
<1>3. ASSUME NEW j \in Jobs, CallIsCut(j)
      PROVE  UNCHANGED <<sem, pos>>
  BY <1>3 DEF CallIsCut
<1> QED
  BY <1>1, <1>2, <1>3 DEF Next, Progress

(* A step of a job is seen by its own limiter alone.                       *)
LEMMA OtherLimiters ==
    ASSUME TypeOK, NEW j \in Jobs, NEW s, NEW p,
           sem' = [sem EXCEPT ![LimiterOf(j)] = s], pos' = [pos EXCEPT ![j] = p],
           NEW x \in Limiters, x # LimiterOf(j), LimiterInv(x)
    PROVE  LimiterInv(x)'
<1>1. sem'[x] = sem[x] /\ \A k \in Jobs : LimiterOf(k) = x => pos'[k] = pos[k]
  BY DEF TypeOK
<1>2. Holders(x)' = Holders(x)
  BY <1>1 DEF Holders
<1> QED
  BY <1>1, <1>2 DEF LimiterInv, LimiterOK, Members, Unheld

(* A limiter becomes s and one of its jobs p.                              *)
Moved(j, s, p) ==
    LET L == sem[LimiterOf(j)]
    IN  /\ sem' = [sem EXCEPT ![LimiterOf(j)] = s]
        /\ pos' = [pos EXCEPT ![j] = p]
        /\ LimiterOK(s)
        /\ Members(s) = IF p = "waiting" THEN Members(L) \union {j} ELSE Members(L) \ {j}
        /\ Unheld(s) = Unheld(L) + (IF pos[j] = "running" /\ p # "running" THEN 1 ELSE 0)
                                 - (IF pos[j] # "running" /\ p = "running" THEN 1 ELSE 0)

LEMMA OwnLimiter ==
    ASSUME TypeOK, NEW j \in Jobs, NEW s, NEW p \in {"waiting", "running", "done"},
           Moved(j, s, p), LimiterInv(LimiterOf(j))
    PROVE  LimiterInv(LimiterOf(j))'
<1> DEFINE x == LimiterOf(j)
<1> USE DEF Moved
<1>1. x \in Limiters /\ sem'[x] = s /\ pos'[j] = p
      /\ \A k \in Jobs \ {j} : pos'[k] = pos[k]
  BY JobFacts DEF TypeOK
<1>2. Members(s) = {k \in Jobs : LimiterOf(k) = x /\ pos'[k] = "waiting"}
  BY <1>1 DEF LimiterInv
<1>3. Holders(x)' = IF p = "running" THEN Holders(x) \union {j} ELSE Holders(x) \ {j}
  BY <1>1 DEF Holders
<1>4. /\ IsFiniteSet(Holders(x)) /\ (j \in Holders(x) <=> pos[j] = "running")
      /\ Unheld(sem[x]) + Cardinality(Holders(x)) = Slots[x]
  BY DEF LimiterInv, Holders
<1>5. Cardinality(Holders(x)) \in Nat /\ Unheld(sem[x]) \in Nat
  BY <1>4, UnheldType, FS_CardinalityType DEF LimiterInv
<1>6. /\ IsFiniteSet(Holders(x) \union {j}) /\ IsFiniteSet(Holders(x) \ {j})
      /\ Cardinality(Holders(x) \union {j}) =
           IF pos[j] = "running" THEN Cardinality(Holders(x)) ELSE Cardinality(Holders(x)) + 1
      /\ Cardinality(Holders(x) \ {j}) =
           IF pos[j] = "running" THEN Cardinality(Holders(x)) - 1 ELSE Cardinality(Holders(x))
  BY <1>4, FS_AddElement, FS_RemoveElement
<1>7. IsFiniteSet(Holders(x)') /\ Unheld(s) + Cardinality(Holders(x)') = Slots[x]
  <2> HIDE DEF x
  <2>1. CASE p = "running"
    BY <1>3, <1>4, <1>5, <1>6, <2>1 DEF x
  <2>2. CASE p # "running"
    BY <1>3, <1>4, <1>5, <1>6, <2>2 DEF x
  <2> QED
    BY <2>1, <2>2
<1> QED
  BY <1>1, <1>2, <1>7 DEF LimiterInv

LEMMA StepKeepsLimiters ==
    ASSUME Inv, [Next]_vars
    PROVE  \A x \in Limiters : LimiterInv(x)'
<1> USE DEF Inv
<1>1. ASSUME UNCHANGED <<sem, pos>>, NEW x \in Limiters
      PROVE  LimiterInv(x)'
  <2>1. Holders(x)' = Holders(x) /\ sem'[x] = sem[x] /\ LimiterInv(x)
    BY <1>1 DEF Holders
  <2> QED
    BY <1>1, <2>1 DEF LimiterInv, LimiterOK, Members, Unheld
<1>2. ASSUME NEW j \in Jobs, (pos[j] = "idle" /\ Reach(j)) \/ Granted(j) \/ Freed(j)
      PROVE  \A x \in Limiters : LimiterInv(x)'
  <2> DEFINE L == sem[LimiterOf(j)]
  <2>1. LimiterOf(j) \in Limiters /\ LimiterInv(LimiterOf(j)) /\ LimiterOK(L)
    BY JobFacts DEF LimiterInv
  <2>2. Unheld(L) \in Nat /\ (j \in Members(L) <=> pos[j] = "waiting")
    BY <2>1, UnheldType DEF LimiterInv
  <2> HIDE DEF L
  <2>3. PICK p \in {"waiting", "running", "done"} : \E s : Moved(j, s, p)
    <3>1. CASE pos[j] = "idle" /\ Reach(j) /\ TakesAtOnce(L)
      <4>1. /\ sem' = [sem EXCEPT ![LimiterOf(j)] = Take(L)]
            /\ pos' = [pos EXCEPT ![j] = "running"]
        BY <2>1, <3>1 DEF Reach, L
      <4>2. LimiterOK(Take(L)) /\ Members(Take(L)) = Members(L) /\ Unheld(Take(L)) = Unheld(L) - 1
        BY <2>1, <3>1, TakeKeeps
      <4>3. Moved(j, Take(L), "running")
        BY <2>2, <3>1, <4>1, <4>2 DEF Moved, L
      <4> QED
        BY <4>3
    <3>2. CASE pos[j] = "idle" /\ Reach(j) /\ ~TakesAtOnce(L)
      <4>1. /\ sem' = [sem EXCEPT ![LimiterOf(j)] = Wait(L, j)]
            /\ pos' = [pos EXCEPT ![j] = "waiting"]
        BY <2>1, <3>2 DEF Reach, L
      <4>2. /\ LimiterOK(Wait(L, j)) /\ Members(Wait(L, j)) = Members(L) \union {j}
            /\ Unheld(Wait(L, j)) = Unheld(L)
        BY <2>1, <2>2, <3>2, WaitKeeps
      <4>3. Moved(j, Wait(L, j), "waiting")
        BY <2>2, <3>2, <4>1, <4>2 DEF Moved, L
      <4> QED
        BY <4>3
    <3>3. CASE Granted(j)
      <4>1. /\ sem' = [sem EXCEPT ![LimiterOf(j)] = Resume(L, j)] /\ j \in L.granted
            /\ pos' = [pos EXCEPT ![j] = "running"]
        BY <2>1, <3>3 DEF Granted, L
      <4>2. pos[j] = "waiting"
        BY <2>2, <4>1 DEF Members
      <4>3. /\ LimiterOK(Resume(L, j)) /\ Members(Resume(L, j)) = Members(L) \ {j}
            /\ Unheld(Resume(L, j)) = Unheld(L) - 1
        BY <2>1, <4>1, ResumeKeeps
      <4>4. Moved(j, Resume(L, j), "running")
        BY <2>2, <4>1, <4>2, <4>3 DEF Moved, L
      <4> QED
        BY <4>4
    <3>4. CASE Freed(j)
      <4>1. /\ sem' = [sem EXCEPT ![LimiterOf(j)] = Release(L)] /\ pos[j] = "running"
            /\ pos' = [pos EXCEPT ![j] = "done"]
        BY <2>1, <3>4 DEF Freed, L
      <4>2. /\ LimiterOK(Release(L)) /\ Members(Release(L)) = Members(L)
            /\ Unheld(Release(L)) = Unheld(L) + 1
        BY <2>1, ReleaseKeeps
      <4>3. Moved(j, Release(L), "done")
        BY <2>2, <4>1, <4>2 DEF Moved, L
      <4> QED
        BY <4>3
    <3> QED
      BY <1>2, <3>1, <3>2, <3>3, <3>4
  <2>4. PICK s : Moved(j, s, p)
    BY <2>3
  <2>5. LimiterInv(LimiterOf(j))'
    BY <2>1, <2>4, OwnLimiter
  <2>6. ASSUME NEW x \in Limiters, x # LimiterOf(j) PROVE LimiterInv(x)'
    BY <2>4, <2>6, OtherLimiters DEF Moved
  <2> QED
    BY <2>5, <2>6
<1> QED
  <2>1. CASE UNCHANGED vars
    BY <1>1, <2>1 DEF vars
  <2>2. CASE Next
    BY <1>1, <1>2, <2>2, StepKinds
  <2> QED
    BY <2>1, <2>2

-----------------------------------------------------------------------------
(* Every step keeps the tasks and their parts in step.                     *)

ShownType == [queued : [Resources -> SUBSET Sections], running : [Resources -> SUBSET Sections]]

(* What the tracker's methods do to what is shown as queued and as running. *)
With(f, x, s)    == [f EXCEPT ![x] = @ \union {s}]
Without(f, x, s) == [f EXCEPT ![x] = @ \ {s}]

LEMMA TrackerSteps ==
    ASSUME NEW a, NEW b, NEW x, NEW s, NEW p, p = [queued |-> a, running |-> b]
    PROVE  /\ Queue(p, x, s) =
                IF x \in {"section", "retry"} /\ s \in b[x] THEN p
                ELSE [queued |-> With(a, x, s), running |-> b]
           /\ Start(p, x, s) = [queued |-> Without(a, x, s), running |-> With(b, x, s)]
           /\ Finish(p, x, s) = [queued |-> Without(a, x, s), running |-> Without(b, x, s)]
<1> DEFINE c == Without(a, x, s)
           u == [p EXCEPT !.queued[x] = @ \ {s}]
<1>1. u = [queued |-> c, running |-> b]
  BY DEF Without
<1>2. Start(p, x, s) = [u EXCEPT !.running[x] = @ \union {s}]
  BY DEF Start
<1>3. Finish(p, x, s) = [u EXCEPT !.running[x] = @ \ {s}]
  BY DEF Finish
<1> HIDE DEF u, c
<1>4. Start(p, x, s) = [queued |-> c, running |-> With(b, x, s)]
  BY <1>1, <1>2 DEF With
<1>5. Finish(p, x, s) = [queued |-> c, running |-> Without(b, x, s)]
  BY <1>1, <1>3 DEF Without
<1>6. Queue(p, x, s) = IF x \in {"section", "retry"} /\ s \in b[x] THEN p
                       ELSE [queued |-> With(a, x, s), running |-> b]
  <2>1. CASE x \in {"section", "retry"} /\ s \in b[x]
    BY <2>1 DEF Queue
  <2>2. CASE ~(x \in {"section", "retry"} /\ s \in b[x])
    <3>1. Queue(p, x, s) = [p EXCEPT !.queued[x] = @ \union {s}]
      BY <2>2 DEF Queue
    <3>2. [p EXCEPT !.queued[x] = @ \union {s}] = [queued |-> With(a, x, s), running |-> b]
      BY DEF With
    <3> QED
      BY <2>2, <3>1, <3>2
  <2> QED
    BY <2>1, <2>2
<1> QED
  BY <1>4, <1>5, <1>6 DEF c

LEMMA ShownStays ==
    ASSUME NEW p \in ShownType, NEW x \in Resources, NEW s \in Sections
    PROVE  Queue(p, x, s) \in ShownType /\ Start(p, x, s) \in ShownType /\ Finish(p, x, s) \in ShownType
<1> DEFINE F == [Resources -> SUBSET Sections]
<1>1. PICK a \in F : \E b \in F : p = [queued |-> a, running |-> b]
  BY DEF ShownType
<1>2. PICK b \in F : p = [queued |-> a, running |-> b]
  BY <1>1
<1>3. \A f \in F : With(f, x, s) \in F /\ Without(f, x, s) \in F
  BY DEF With, Without
<1>4. /\ Queue(p, x, s) \in {p, [queued |-> With(a, x, s), running |-> b]}
      /\ Start(p, x, s) = [queued |-> Without(a, x, s), running |-> With(b, x, s)]
      /\ Finish(p, x, s) = [queued |-> Without(a, x, s), running |-> Without(b, x, s)]
  <2> HIDE DEF F
  <2> QED
    BY <1>2, TrackerSteps
<1> QED
  BY <1>3, <1>4 DEF ShownType

LEMMA EnteredStays ==
    ASSUME TypeOK, NEW p \in ShownType, NEW j \in Jobs
    PROVE  Entered(p, j) \in ShownType
<1>1. LimiterOf(j) \in Resources /\ "retry" \in Resources /\ SectionOf(j) \in Sections
  BY JobFacts, TaskFacts DEF Resources, SectionOf
<1>2. Start(p, LimiterOf(j), SectionOf(j)) \in ShownType
  BY <1>1, ShownStays
<1>3. Start(Start(p, LimiterOf(j), SectionOf(j)), "retry", SectionOf(j)) \in ShownType
  BY <1>1, <1>2, ShownStays
<1> QED
  BY <1>2, <1>3 DEF Entered

LEMMA ReachTypes ==
    ASSUME TypeOK, NEW j \in Jobs, Reach(j)
    PROVE  /\ \E p \in {"waiting", "running"} : pos' = [pos EXCEPT ![j] = p]
           /\ \E s : sem' = [sem EXCEPT ![LimiterOf(j)] = s]
           /\ shown' \in ShownType
           /\ UNCHANGED callVars \/ (pos'[j] = "running" /\ Calls!BeginAttempt(j))
<1> DEFINE q == Queue(shown, LimiterOf(j), SectionOf(j))
<1>1. LimiterOf(j) \in Resources /\ SectionOf(j) \in Sections /\ shown \in ShownType
  BY JobFacts, TaskFacts DEF Resources, SectionOf, TypeOK, ShownType
<1>2. q \in ShownType /\ Entered(q, j) \in ShownType
  BY <1>1, ShownStays, EnteredStays
<1> HIDE DEF q
<1>3. CASE TakesAtOnce(sem[LimiterOf(j)])
  <2>1. /\ sem' = [sem EXCEPT ![LimiterOf(j)] = Take(@)]
        /\ pos' = [pos EXCEPT ![j] = "running"] /\ shown' = Entered(q, j) /\ Begin(j)
    BY <1>3 DEF Reach, q
  <2>2. pos'[j] = "running"
    BY <2>1 DEF TypeOK
  <2> QED
    BY <1>2, <2>1, <2>2 DEF Begin
<1>4. CASE ~TakesAtOnce(sem[LimiterOf(j)])
  <2>1. /\ sem' = [sem EXCEPT ![LimiterOf(j)] = Wait(@, j)]
        /\ pos' = [pos EXCEPT ![j] = "waiting"] /\ shown' = q /\ UNCHANGED callVars
    BY <1>4 DEF Reach, q
  <2> QED
    BY <1>2, <2>1
<1> QED
  BY <1>3, <1>4

LEMMA OtherParts ==
    ASSUME NEW t \in Tasks, UNCHANGED task,
           \A k \in Jobs : k[1] # t => pos'[k] = pos[k],
           NEW u \in Tasks \ {t}, stage'[u] = stage[u], Parts(u)
    PROVE  Parts(u)'
<1>1. \A n \in {"section", "qc_agent"} \union Media : pos'[<<u, n>>] = pos[<<u, n>>]
  BY DEF Jobs
<1> QED
  BY <1>1 DEF Parts

-----------------------------------------------------------------------------
(* Every step keeps the account of the calls.                              *)

Before == {"idle", "waiting"}

(* What a step can do to the calls.                                        *)
CallMove(j) ==
    /\ pos'[j] \notin Before
    /\ \/ call[j] = "none" /\ Calls!BeginAttempt(j)
       \/ Calls!Forget(j) \/ Calls!CallStep(j) \/ Calls!Cut(j)

(* One call becomes c after a attempts, with u of them unsettled.          *)
LEMMA CallBecomes ==
    ASSUME TypeOK, CallIsCounted, NEW j \in Jobs, NEW c, NEW a, NEW u, Counted(c, a, u),
           call' = [call EXCEPT ![j] = c], attempt' = [attempt EXCEPT ![j] = a],
           unsettled' = [unsettled EXCEPT ![j] = u], pos'[j] \notin Before,
           \A k \in Jobs : pos'[k] \in Before => pos[k] \in Before
    PROVE  CallIsCounted' /\ Calls!CallTypeOK'
<1>1. Calls!CallTypeOK
  BY DEF TypeOK
<1>2. Calls!CallTypeOK'
  BY <1>1 DEF Calls!CallTypeOK, Counted
<1>3. /\ call'[j] = c /\ attempt'[j] = a /\ unsettled'[j] = u
      /\ \A k \in Jobs \ {j} : call'[k] = call[k] /\ attempt'[k] = attempt[k]
                              /\ unsettled'[k] = unsettled[k]
  BY <1>1 DEF Calls!CallTypeOK
<1>4. CallIsCounted'
  BY <1>3 DEF CallIsCounted, Before, Counted
<1> QED
  BY <1>2, <1>4

LEMMA CallMoveKeeps ==
    ASSUME TypeOK, CallIsCounted, NEW j \in Jobs, CallMove(j),
           \A k \in Jobs : pos'[k] \in Before => pos[k] \in Before
    PROVE  CallIsCounted' /\ Calls!CallTypeOK'
<1>1. /\ Counted(call[j], attempt[j], unsettled[j]) /\ MaxAttempts \in Nat \ {0}
      /\ call = [call EXCEPT ![j] = @] /\ attempt = [attempt EXCEPT ![j] = @]
      /\ unsettled = [unsettled EXCEPT ![j] = @]
  BY AttemptsAssumption DEF TypeOK, CallIsCounted, Calls!CallTypeOK
<1>2. pos'[j] \notin Before
  BY DEF CallMove
<1>3. ASSUME NEW to \in {"over", "pausing"}, Calls!Settle(j, to),
             to = "pausing" => attempt[j] < MaxAttempts
      PROVE  CallIsCounted' /\ Calls!CallTypeOK'
  <2> DEFINE a == IF to = "pausing" THEN attempt[j] ELSE 0
  <2>1. call[j] = "calling" /\ Counted(to, a, unsettled[j] - 1)
    BY <1>1, <1>3 DEF Calls!Settle, Counted
  <2>2. /\ call' = [call EXCEPT ![j] = to] /\ attempt' = [attempt EXCEPT ![j] = a]
        /\ unsettled' = [unsettled EXCEPT ![j] = unsettled[j] - 1]
    BY <1>3 DEF Calls!Settle
  <2> HIDE DEF a
  <2> QED
    BY <1>2, <2>1, <2>2, CallBecomes
<1>4. ASSUME Calls!BeginAttempt(j), call[j] \in {"none", "pausing"}
      PROVE  CallIsCounted' /\ Calls!CallTypeOK'
  <2>1. Counted("calling", attempt[j] + 1, unsettled[j] + 1)
    BY <1>1, <1>4 DEF Counted
  <2>2. /\ call' = [call EXCEPT ![j] = "calling"] /\ attempt' = [attempt EXCEPT ![j] = attempt[j] + 1]
        /\ unsettled' = [unsettled EXCEPT ![j] = unsettled[j] + 1]
    BY <1>4 DEF Calls!BeginAttempt
  <2> QED
    BY <1>2, <2>1, <2>2, CallBecomes
<1>5. ASSUME Calls!Forget(j) \/ Calls!Cut(j)
      PROVE  CallIsCounted' /\ Calls!CallTypeOK'
  <2> DEFINE c == IF Calls!Cut(j) \/ call[j] = "cut" THEN "cut" ELSE "none"
  <2>1. Counted(c, 0, unsettled[j])
    BY <1>1, <1>5 DEF Counted, Calls!Forget, Calls!Cut
  <2>2. /\ call' = [call EXCEPT ![j] = c] /\ attempt' = [attempt EXCEPT ![j] = 0]
        /\ unsettled' = [unsettled EXCEPT ![j] = unsettled[j]]
    <3>1. CASE Calls!Cut(j)
      BY <1>1, <3>1 DEF Calls!Cut
    <3>2. CASE Calls!Forget(j) /\ ~Calls!Cut(j)
      <4>1. attempt[j] = 0 /\ UNCHANGED <<attempt, unsettled>>
        BY <1>1, <3>2 DEF Calls!Forget, Counted
      <4>2. call' = [call EXCEPT ![j] = c]
        BY <3>2 DEF Calls!Forget
      <4> QED
        BY <1>1, <4>1, <4>2
    <3> QED
      BY <1>5, <3>1, <3>2
  <2> HIDE DEF c
  <2> QED
    BY <1>2, <2>1, <2>2, CallBecomes
<1>6. ASSUME Calls!CallStep(j)
      PROVE  CallIsCounted' /\ Calls!CallTypeOK'
  <2>1. CASE Calls!Answer(j)
    BY <1>3, <2>1 DEF Calls!Answer
  <2>2. CASE Calls!Resume(j)
    BY <1>4, <2>2 DEF Calls!Resume
  <2>3. ASSUME NEW retryable \in BOOLEAN, Calls!AttemptFails(j, retryable)
        PROVE  CallIsCounted' /\ Calls!CallTypeOK'
    <3>1. CASE retryable /\ attempt[j] < MaxAttempts
      BY <1>3, <2>3, <3>1 DEF Calls!AttemptFails
    <3>2. CASE ~(retryable /\ attempt[j] < MaxAttempts)
      BY <1>3, <2>3, <3>2 DEF Calls!AttemptFails
    <3> QED
      BY <3>1, <3>2
  <2> QED
    BY <1>6, <2>1, <2>2, <2>3 DEF Calls!CallStep
<1> QED
  BY <1>4, <1>5, <1>6 DEF CallMove

-----------------------------------------------------------------------------
(* Every action, for the task it is of.                                    *)

Stages    == {"new", "content", "media", "quality", "leaving", "done"}
Positions == {"idle", "waiting", "running", "done"}

(* A step of task t leaves the other tasks alone, and takes none of its    *)
(* parts back to where it had not started.                                 *)
OnlyTask(t) ==
    /\ task' = task /\ stage' \in [Tasks -> Stages] /\ pos' \in [Jobs -> Positions]
    /\ \A k \in Jobs : k[1] # t => pos'[k] = pos[k]
    /\ \A u \in Tasks \ {t} : stage'[u] = stage[u]
    /\ \A k \in Jobs : pos'[k] \in Before => pos[k] \in Before

Kept(t) ==
    /\ OnlyTask(t) /\ Parts(t)'
    /\ shown' \in ShownType
    /\ UNCHANGED callVars \/ \E j \in Jobs : CallMove(j)

At(f, i, v) == [f EXCEPT ![i] = v]

LEMMA JobMoves ==
    ASSUME TypeOK, NEW t \in Tasks, NEW j \in Jobs, j[1] = t, NEW p, p \in Positions, NEW g, g \in Stages,
           task' = task, pos' = At(pos, j, p), stage' = At(stage, t, g),
           p \in Before => pos[j] \in Before
    PROVE  /\ OnlyTask(t) /\ pos'[j] = p /\ stage'[t] = g
           /\ \A k \in Jobs \ {j} : pos'[k] = pos[k]
BY DEF TypeOK, OnlyTask, Stages, Positions, At

LEMMA TaskMoves ==
    ASSUME TypeOK, NEW t \in Tasks, NEW g, g \in Stages,
           task' = task, pos' = pos, stage' = At(stage, t, g)
    PROVE  OnlyTask(t) /\ stage'[t] = g
BY DEF TypeOK, OnlyTask, Stages, Positions, At

LEMMA TypesOfInv ==
    ASSUME Inv
    PROVE  /\ task \in [Tasks -> TaskKinds] /\ stage \in [Tasks -> Stages]
           /\ pos \in [Jobs -> Positions] /\ shown \in ShownType
           /\ \A t \in Tasks : Parts(t)
BY DEF Inv, TypeOK, Stages, Positions, ShownType, PartsFollowStage

(* A part that reaches its limiter.                                        *)
LEMMA ReachMoves ==
    ASSUME Inv, NEW t \in Tasks, NEW j \in Jobs, j[1] = t, pos[j] = "idle", Reach(j),
           NEW g, g \in Stages, task' = task, stage' = At(stage, t, g)
    PROVE  /\ OnlyTask(t) /\ pos'[j] \in {"waiting", "running"} /\ stage'[t] = g
           /\ \A k \in Jobs \ {j} : pos'[k] = pos[k]
           /\ shown' \in ShownType
           /\ UNCHANGED callVars \/ \E k \in Jobs : CallMove(k)
<1>1. PICK p \in {"waiting", "running"} : pos' = At(pos, j, p)
  BY ReachTypes DEF Inv, At
<1>2. p \in Positions /\ (p \in Before => pos[j] \in Before)
  BY DEF Positions, Before
<1>3. /\ OnlyTask(t) /\ pos'[j] = p /\ stage'[t] = g
      /\ \A k \in Jobs \ {j} : pos'[k] = pos[k]
  BY <1>1, <1>2, JobMoves DEF Inv
<1>4. shown' \in ShownType /\ (UNCHANGED callVars \/ (pos'[j] = "running" /\ Calls!BeginAttempt(j)))
  BY ReachTypes DEF Inv, At
<1>5. call[j] = "none"
  BY DEF Inv, CallIsCounted
<1>6. UNCHANGED callVars \/ CallMove(j)
  BY <1>4, <1>5 DEF CallMove, Before
<1> QED
  BY <1>3, <1>4, <1>6

LEMMA StartSectionFlowKeeps ==
    ASSUME Inv, NEW t \in Tasks, StartSectionFlow(t)
    PROVE  Kept(t)
<1> DEFINE j == <<t, "section">>
<1>1. j \in Jobs /\ j[1] = t /\ "content" \in Stages
  BY TaskJobs DEF Stages
<1>2. /\ stage[t] = "new" /\ task[t].node = "process_section" /\ Reach(j) /\ task' = task
      /\ stage' = At(stage, t, "content")
  BY DEF StartSectionFlow, At
<1>3. Parts(t) /\ pos[j] = "idle"
  BY <1>2, TypesOfInv DEF Parts
<1> HIDE DEF j
<1>4. /\ OnlyTask(t) /\ pos'[j] \in {"waiting", "running"} /\ stage'[t] = "content"
      /\ \A k \in Jobs \ {j} : pos'[k] = pos[k]
      /\ shown' \in ShownType
      /\ UNCHANGED callVars \/ \E k \in Jobs : CallMove(k)
  BY <1>1, <1>2, <1>3, ReachMoves
<1>5. /\ pos'[<<t, "qc_agent">>] = pos[<<t, "qc_agent">>]
      /\ \A m \in Media : pos'[<<t, m>>] = pos[<<t, m>>]
  BY <1>4, TaskJobs DEF j
<1>6. Parts(t)'
  BY <1>2, <1>3, <1>4, <1>5 DEF Parts, j
<1> QED
  BY <1>4, <1>6 DEF Kept

LEMMA StartExecutorKeeps ==
    ASSUME Inv, NEW t \in Tasks, NEW m \in Media, StartExecutor(t, m)
    PROVE  Kept(t)
<1> DEFINE j == <<t, m>>
<1>1. j \in Jobs /\ j[1] = t
  BY TaskJobs
<1>2. /\ stage[t] = "media" /\ m \in task[t].needs /\ pos[j] = "idle" /\ Reach(j) /\ task' = task
      /\ stage' = At(stage, t, "media") /\ "media" \in Stages
  BY TypesOfInv DEF StartExecutor, Stages, At
<1>3. Parts(t)
  BY TypesOfInv
<1> HIDE DEF j
<1>4. /\ OnlyTask(t) /\ pos'[j] \in {"waiting", "running"} /\ stage'[t] = "media"
      /\ \A k \in Jobs \ {j} : pos'[k] = pos[k]
      /\ shown' \in ShownType
      /\ UNCHANGED callVars \/ \E k \in Jobs : CallMove(k)
  BY <1>1, <1>2, ReachMoves
<1>5. /\ pos'[<<t, "section">>] = pos[<<t, "section">>]
      /\ pos'[<<t, "qc_agent">>] = pos[<<t, "qc_agent">>]
      /\ \A n \in Media : n # m => pos'[<<t, n>>] = pos[<<t, n>>]
  BY <1>4, TaskJobs DEF j
<1>6. Parts(t)'
  BY <1>2, <1>3, <1>4, <1>5 DEF Parts, j
<1> QED
  BY <1>4, <1>6 DEF Kept

LEMMA StartQcKeeps ==
    ASSUME Inv, NEW t \in Tasks, StartQc(t)
    PROVE  Kept(t)
<1> DEFINE j == <<t, "qc_agent">>
<1>1. j \in Jobs /\ j[1] = t /\ "quality" \in Stages
  BY TaskJobs DEF Stages
<1>2. /\ stage[t] = "media" /\ \A m \in task[t].needs : pos[<<t, m>>] = "done"
      /\ Reach(j) /\ task' = task /\ stage' = At(stage, t, "quality")
  BY DEF StartQc, MediaOver, At
<1>3. Parts(t) /\ pos[j] = "idle"
  BY <1>2, TypesOfInv DEF Parts
<1> HIDE DEF j
<1>4. /\ OnlyTask(t) /\ pos'[j] \in {"waiting", "running"} /\ stage'[t] = "quality"
      /\ \A k \in Jobs \ {j} : pos'[k] = pos[k]
      /\ shown' \in ShownType
      /\ UNCHANGED callVars \/ \E k \in Jobs : CallMove(k)
  BY <1>1, <1>2, <1>3, ReachMoves
<1>5. /\ pos'[<<t, "section">>] = pos[<<t, "section">>]
      /\ \A m \in Media : pos'[<<t, m>>] = pos[<<t, m>>]
  BY <1>4, TaskJobs DEF j
<1>6. Parts(t)'
  BY <1>2, <1>3, <1>4, <1>5 DEF Parts, j
<1> QED
  BY <1>4, <1>6 DEF Kept

(* The steps of a task that no limiter and no call is part of.             *)
LEMMA QuietStepsKeep ==
    ASSUME Inv, NEW t \in Tasks, StartRetry(t) \/ ContentIsWritten(t) \/ SkipQc(t)
    PROVE  Kept(t)
<1>1. Parts(t) /\ shown \in ShownType
  BY TypesOfInv
<1>2. CASE StartRetry(t)
  <2> DEFINE g == IF task[t].node = "retry_field" THEN "content" ELSE "media"
  <2>1. /\ stage[t] = "new" /\ task[t].node # "process_section" /\ UNCHANGED <<task, pos, callVars>>
        /\ shown' = Start(shown, "retry", task[t].sec) /\ stage' = At(stage, t, g)
        /\ g \in Stages
    BY <1>2 DEF StartRetry, Stages, At
  <2>2. g \in {"content", "media"}
    OBVIOUS
  <2> HIDE DEF g
  <2>3. OnlyTask(t) /\ stage'[t] = g
    BY <2>1, TaskMoves DEF Inv
  <2>4. shown' \in ShownType
    BY <1>1, <2>1, ShownStays, TaskFacts DEF Inv, Resources
  <2>5. Parts(t)'
    BY <1>1, <2>1, <2>2, <2>3 DEF Parts
  <2> QED
    BY <2>1, <2>3, <2>4, <2>5 DEF Kept
<1>3. CASE ContentIsWritten(t)
  <2>1. PICK g \in {"media", "leaving"} : stage' = At(stage, t, g)
    BY <1>3 DEF ContentIsWritten, At
  <2>2. /\ stage[t] = "content" /\ UNCHANGED <<task, pos, shown, callVars>> /\ g \in Stages
        /\ task[t].node = "process_section" => pos[<<t, "section">>] = "running"
    BY <1>3 DEF ContentIsWritten, Stages
  <2>3. OnlyTask(t) /\ stage'[t] = g
    BY <2>1, <2>2, TaskMoves DEF Inv
  <2>4. Parts(t)'
    BY <1>1, <2>2, <2>3 DEF Parts
  <2> QED
    BY <1>1, <2>2, <2>3, <2>4 DEF Kept
<1>4. CASE SkipQc(t)
  <2>1. /\ stage' = At(stage, t, "leaving") /\ stage[t] = "media"
        /\ \A m \in task[t].needs : pos[<<t, m>>] = "done"
        /\ UNCHANGED <<task, pos, shown, callVars>> /\ "leaving" \in Stages
    BY <1>4 DEF SkipQc, MediaOver, Stages, At
  <2>2. OnlyTask(t) /\ stage'[t] = "leaving"
    BY <2>1, TaskMoves DEF Inv
  <2>3. Parts(t)'
    BY <1>1, <2>1, <2>2 DEF Parts
  <2> QED
    BY <1>1, <2>1, <2>2, <2>3 DEF Kept
<1> QED
  BY <1>2, <1>3, <1>4

LEMMA LeaveKeeps ==
    ASSUME Inv, NEW t \in Tasks, Leave(t)
    PROVE  Kept(t)
<1> DEFINE over == IF task[t].node = "process_section"
                   THEN Finish(shown, "section", task[t].sec) ELSE shown
           j == <<t, "section">>
<1>1. Parts(t) /\ shown \in ShownType /\ j \in Jobs /\ j[1] = t /\ task[t].sec \in Sections
      /\ stage[t] = "leaving"
  BY TypesOfInv, TaskJobs, TaskFacts DEF Inv, Leave
<1>2. over \in ShownType /\ Finish(over, "retry", task[t].sec) \in ShownType
  <2>1. over \in ShownType
    BY <1>1, ShownStays DEF Resources, Limiters
  <2> HIDE DEF over
  <2> QED
    BY <1>1, <2>1, ShownStays DEF Resources
<1>3. shown' \in ShownType /\ UNCHANGED <<task, callVars>>
  <2> HIDE DEF over
  <2>1. shown' = IF task[t].retry THEN Finish(over, "retry", task[t].sec) ELSE over
    BY DEF Leave, over
  <2> QED
    BY <1>2, <2>1 DEF Leave
<1>4. stage' = At(stage, t, "done") /\ "done" \in Stages /\ "done" \in Positions
  BY DEF Leave, At, Stages, Positions
<1> HIDE DEF j
<1>5. CASE task[t].node = "process_section"
  <2>1. pos' = At(pos, j, "done")
    BY <1>5 DEF Leave, At, j
  <2>2. /\ OnlyTask(t) /\ pos'[j] = "done" /\ stage'[t] = "done"
        /\ \A k \in Jobs \ {j} : pos'[k] = pos[k]
    BY <1>1, <1>3, <1>4, <2>1, JobMoves DEF Inv, Before
  <2>3. /\ pos'[<<t, "qc_agent">>] = pos[<<t, "qc_agent">>]
        /\ \A m \in Media : pos'[<<t, m>>] = pos[<<t, m>>]
    BY <2>2, TaskJobs DEF j
  <2>4. Parts(t)'
    BY <1>1, <1>3, <1>5, <2>2, <2>3 DEF Parts, j
  <2> QED
    BY <1>3, <2>2, <2>4 DEF Kept
<1>6. CASE task[t].node # "process_section"
  <2>1. OnlyTask(t) /\ stage'[t] = "done" /\ pos' = pos
    BY <1>3, <1>4, <1>6, TaskMoves DEF Inv, Leave
  <2>2. Parts(t)'
    BY <1>1, <1>3, <1>6, <2>1 DEF Parts
  <2> QED
    BY <1>3, <2>1, <2>2 DEF Kept
<1> QED
  BY <1>5, <1>6

LEMMA GrantedKeeps ==
    ASSUME Inv, NEW j \in Jobs, Granted(j)
    PROVE  Kept(j[1])
<1> DEFINE t == j[1]
<1>1. /\ t \in Tasks /\ j = <<t, j[2]>> /\ j[2] \in {"section", "qc_agent"} \union Media
      /\ LimiterOf(j) \in Limiters
  BY JobFacts
<1>2. pos[j] = "waiting"
  <2>1. Members(sem[LimiterOf(j)]) = {k \in Jobs : LimiterOf(k) = LimiterOf(j) /\ pos[k] = "waiting"}
    BY <1>1 DEF Inv, LimiterInv
  <2> QED
    BY <2>1 DEF Granted, Members
<1>3. Parts(t) /\ stage \in [Tasks -> Stages] /\ shown \in ShownType
  BY <1>1, TypesOfInv
<1>4. /\ pos' = At(pos, j, "running") /\ stage' = At(stage, t, stage[t]) /\ stage[t] \in Stages
      /\ task' = task /\ shown' = Entered(shown, j) /\ Begin(j) /\ "running" \in Positions
  BY <1>1, <1>3 DEF Granted, At, Positions
<1>5. /\ OnlyTask(t) /\ pos'[j] = "running" /\ stage'[t] = stage[t]
      /\ \A k \in Jobs \ {j} : pos'[k] = pos[k]
  <2> HIDE DEF t
  <2>1. j[1] = t
    BY DEF t
  <2> QED
    BY <1>1, <1>4, <2>1, JobMoves DEF Inv, Before
<1>6. shown' \in ShownType
  BY <1>3, <1>4, EnteredStays DEF Inv
<1>7. UNCHANGED callVars \/ CallMove(j)
  BY <1>2, <1>4, <1>5 DEF Begin, CallMove, Before, Inv, CallIsCounted
<1> HIDE DEF t
<1>8. Parts(t)'
  <2>1. \A n \in {"section", "qc_agent"} \union Media :
           pos'[<<t, n>>] = IF n = j[2] THEN "running" ELSE pos[<<t, n>>]
    BY <1>1, <1>5 DEF Jobs
  <2>2. CASE j[2] = "section"
    BY <1>1, <1>2, <1>3, <1>4, <1>5, <2>1, <2>2, TaskJobs DEF Parts
  <2>3. CASE j[2] = "qc_agent"
    BY <1>1, <1>2, <1>3, <1>4, <1>5, <2>1, <2>3, TaskJobs DEF Parts
  <2>4. CASE j[2] \in Media
    BY <1>1, <1>2, <1>3, <1>4, <1>5, <2>1, <2>4, TaskJobs DEF Parts
  <2> QED
    BY <1>1, <2>2, <2>3, <2>4
<1> QED
  BY <1>5, <1>6, <1>7, <1>8 DEF Kept, t

LEMMA EndNodeKeeps ==
    ASSUME Inv, NEW j \in Jobs, EndNode(j)
    PROVE  Kept(j[1])
<1> DEFINE t == j[1]
           g == IF j[2] = "qc_agent" THEN "leaving" ELSE stage[t]
<1>1. /\ t \in Tasks /\ j = <<t, j[2]>> /\ j[2] \in {"section", "qc_agent"} \union Media
      /\ LimiterOf(j) \in Limiters /\ (LimiterOf(j) = "qc" <=> j[2] = "qc_agent")
      /\ (LimiterOf(j) = "section" <=> j[2] = "section")
  BY JobFacts
<1>2. Parts(t) /\ stage \in [Tasks -> Stages] /\ shown \in ShownType
  BY <1>1, TypesOfInv
<1>3. /\ pos[j] = "running" /\ j[2] # "section" /\ Calls!Forget(j) /\ task' = task
      /\ pos' = At(pos, j, "done") /\ stage' = At(stage, t, g) /\ g \in Stages
      /\ "done" \in Positions
  BY <1>1, <1>2 DEF EndNode, At, Stages, Positions
<1> DEFINE over == Finish(shown, LimiterOf(j), SectionOf(j))
<1>4. shown' \in ShownType
  <2>1. /\ SectionOf(j) \in Sections /\ LimiterOf(j) \in Resources /\ "retry" \in Resources
    BY <1>1, TaskFacts DEF Inv, SectionOf, Resources
  <2>2. over \in ShownType
    BY <1>2, <2>1, ShownStays
  <2>3. shown' = over \/ shown' = Queue(over, "retry", SectionOf(j))
    BY DEF EndNode
  <2> HIDE DEF over
  <2> QED
    BY <2>1, <2>2, <2>3, ShownStays
<1> HIDE DEF g, over
<1>5. /\ OnlyTask(t) /\ pos'[j] = "done" /\ stage'[t] = g
      /\ \A k \in Jobs \ {j} : pos'[k] = pos[k]
  <2> HIDE DEF t
  <2>1. j[1] = t
    BY DEF t
  <2> QED
    BY <1>1, <1>3, <2>1, JobMoves DEF Inv, Before
<1>6. CallMove(j)
  BY <1>3, <1>5 DEF CallMove, Before
<1> HIDE DEF t
<1>7. Parts(t)'
  <2>1. \A n \in {"section", "qc_agent"} \union Media :
           pos'[<<t, n>>] = IF n = j[2] THEN "done" ELSE pos[<<t, n>>]
    BY <1>1, <1>5 DEF Jobs
  <2>2. CASE j[2] = "qc_agent"
    BY <1>1, <1>2, <1>3, <1>5, <2>1, <2>2, TaskJobs DEF Parts, g
  <2>3. CASE j[2] \in Media
    BY <1>1, <1>2, <1>3, <1>5, <2>1, <2>3, TaskJobs DEF Parts, g
  <2> QED
    BY <1>1, <1>3, <2>2, <2>3
<1> QED
  BY <1>4, <1>5, <1>6, <1>7 DEF Kept, t

LEMMA CallsKeep ==
    ASSUME Inv, NEW j \in Jobs, CallMoves(j) \/ CallIsCut(j)
    PROVE  Kept(j[1])
<1>1. UNCHANGED <<task, stage, pos, sem, shown>> /\ (Calls!CallStep(j) \/ Calls!Cut(j))
  BY DEF CallMoves, CallIsCut
<1>2. call[j] \in {"calling", "pausing"}
  BY <1>1 DEF Calls!CallStep, Calls!Answer, Calls!Resume, Calls!AttemptFails, Calls!Settle, Calls!Cut
<1>3. CallMove(j)
  BY <1>1, <1>2 DEF CallMove, Inv, CallIsCounted, Before
<1>4. j[1] \in Tasks /\ Parts(j[1]) /\ OnlyTask(j[1]) /\ shown' \in ShownType
  BY <1>1, JobFacts, TypesOfInv DEF OnlyTask
<1>5. Parts(j[1])'
  BY <1>1, <1>4 DEF Parts
<1> QED
  BY <1>3, <1>4, <1>5 DEF Kept

-----------------------------------------------------------------------------
(* The invariant.                                                          *)

LEMMA EveryStepKept ==
    ASSUME Inv, Next
    PROVE  \E t \in Tasks : Kept(t)
<1>1. ASSUME NEW t \in Tasks, TaskStep(t) PROVE Kept(t)
  BY <1>1, StartSectionFlowKeeps, QuietStepsKeep, StartExecutorKeeps, StartQcKeeps, LeaveKeeps
     DEF TaskStep
<1>2. ASSUME NEW j \in Jobs, JobStep(j) \/ CallIsCut(j) PROVE Kept(j[1]) /\ j[1] \in Tasks
  BY <1>2, JobFacts, GrantedKeeps, EndNodeKeeps, CallsKeep DEF JobStep
<1> QED
  BY <1>1, <1>2 DEF Next, Progress

LEMMA InitInv == Init => Inv
<1> SUFFICES ASSUME Init PROVE Inv
  OBVIOUS
<1>1. /\ \A x \in Limiters : Slots[x] \in Nat
      /\ \A j \in Jobs : pos[j] = "idle" /\ call[j] = "none" /\ attempt[j] = 0 /\ unsettled[j] = 0
  BY SlotsAssumption DEF Init, Limiters, Slots, Calls!CallInit
<1>2. ASSUME NEW x \in Limiters PROVE LimiterInv(x) /\ sem[x] \in LimiterType
  <2>1. sem[x] = NewLimiter(Slots[x])
    BY DEF Init
  <2>2. LimiterOK(sem[x]) /\ Members(sem[x]) = {} /\ Unheld(sem[x]) = Slots[x]
    BY <1>1, <2>1, NewLimiterKeeps
  <2>3. Holders(x) = {}
    BY <1>1 DEF Holders
  <2> QED
    BY <1>1, <2>2, <2>3, FS_EmptySet DEF LimiterInv, LimiterOK
<1>3. TypeOK
  <2>1. sem \in [Limiters -> LimiterType]
    BY <1>2 DEF Init
  <2>2. Calls!CallTypeOK
    BY AttemptsAssumption DEF Init, Calls!CallInit, Calls!CallTypeOK
  <2>3. shown \in ShownType
    BY DEF Init, ShownType
  <2> QED
    BY <2>1, <2>2, <2>3 DEF Init, TypeOK, LimiterType, ShownType
<1>4. PartsFollowStage
  BY <1>1, TaskJobs DEF PartsFollowStage, Parts, Init
<1>5. CallIsCounted
  BY <1>1, AttemptsAssumption DEF CallIsCounted, Counted
<1> QED
  BY <1>2, <1>3, <1>4, <1>5 DEF Inv

LEMMA NextInv ==
    ASSUME Inv, [Next]_vars
    PROVE  Inv'
<1>1. \A x \in Limiters : LimiterInv(x)'
  BY StepKeepsLimiters
<1>2. CASE Next
  <2>1. PICK t \in Tasks : Kept(t)
    BY <1>2, EveryStepKept
  <2>2. /\ OnlyTask(t) /\ Parts(t)' /\ shown' \in ShownType
        /\ UNCHANGED callVars \/ \E j \in Jobs : CallMove(j)
    BY <2>1 DEF Kept
  <2>3. PartsFollowStage'
    <3>1. ASSUME NEW u \in Tasks \ {t} PROVE Parts(u)'
      <4>1. UNCHANGED task /\ (\A k \in Jobs : k[1] # t => pos'[k] = pos[k]) /\ stage'[u] = stage[u]
        BY <2>2 DEF OnlyTask
      <4> QED
        BY <4>1, OtherParts, TypesOfInv
    <3> QED
      BY <2>2, <3>1 DEF PartsFollowStage
  <2>4. CallIsCounted' /\ Calls!CallTypeOK'
    <3>1. CASE UNCHANGED callVars
      BY <2>2, <3>1 DEF OnlyTask, Inv, TypeOK, CallIsCounted, Calls!CallTypeOK, callVars, Before
    <3>2. ASSUME NEW j \in Jobs, CallMove(j) PROVE CallIsCounted' /\ Calls!CallTypeOK'
      BY <2>2, <3>2, CallMoveKeeps DEF OnlyTask, Inv
    <3> QED
      BY <2>2, <3>1, <3>2
  <2>5. sem' \in [Limiters -> LimiterType]
    <3>1. sem' = [x \in Limiters |-> sem'[x]]
      <4>1. \/ UNCHANGED sem
            \/ \E j \in Jobs : \E s : sem' = [sem EXCEPT ![LimiterOf(j)] = s]
        <5>1. ASSUME NEW j \in Jobs, (pos[j] = "idle" /\ Reach(j)) \/ Granted(j) \/ Freed(j)
              PROVE  \E s : sem' = [sem EXCEPT ![LimiterOf(j)] = s]
          BY <5>1, ReachTypes DEF Inv, Granted, Freed
        <5> QED
          BY <1>2, <5>1, StepKinds DEF Inv
      <4> QED
        BY <4>1 DEF Inv, TypeOK
    <3>2. \A x \in Limiters : sem'[x] \in LimiterType
      BY <1>1 DEF LimiterInv, LimiterOK
    <3> QED
      BY <3>1, <3>2
  <2>6. TypeOK'
    BY <2>2, <2>4, <2>5, TypesOfInv DEF TypeOK, OnlyTask, Stages, Positions, ShownType, LimiterType
  <2> QED
    BY <1>1, <2>3, <2>4, <2>6 DEF Inv
<1>3. CASE UNCHANGED vars
  <2>1. UNCHANGED <<task, stage, pos, sem, shown, call, attempt, unsettled>>
    BY <1>3 DEF vars, callVars
  <2>2. TypeOK'
    BY <2>1 DEF Inv, TypeOK, Calls!CallTypeOK
  <2>3. PartsFollowStage' /\ CallIsCounted'
    BY <2>1 DEF Inv, PartsFollowStage, Parts, CallIsCounted
  <2> QED
    BY <1>1, <2>2, <2>3 DEF Inv
<1> QED
  BY <1>2, <1>3

(* The invariant holds in every reachable state: limiters, parts, calls    *)
(* and types all follow from what each handler of a task does.             *)
THEOREM InvHolds == Spec => []Inv
<1>1. Inv /\ [Next]_vars => Inv'
  BY NextInv
<1> QED
  BY InitInv, <1>1, PTL DEF Spec

(* Every variable keeps its type: whatever the tasks do, the limiters are  *)
(* queues of jobs, and the tracker shows sections of the document.         *)
THEOREM TypesHold == Spec => []TypeOK
<1>1. Inv => TypeOK
  BY DEF Inv
<1> QED
  BY InvHolds, <1>1, PTL

(* The slots of a limiter are free, handed over or held, and those are all *)
(* there ever are, for every policy and every number of tasks.             *)
THEOREM SlotsAreAlwaysKept == Spec => []SlotsAreKept
<1>1. Inv => SlotsAreKept
  BY DEF Inv, LimiterInv, Unheld, SlotsAreKept
<1> QED
  BY InvHolds, <1>1, PTL

(* A started model call is answered by an event unless it was cut.         *)
THEOREM StartsAreAlwaysSettled == Spec => []StartsAreSettled
<1>1. Inv => StartsAreSettled
  BY DEF Inv, CallIsCounted, Counted, StartsAreSettled, Calls!StartsAreSettled
<1> QED
  BY InvHolds, <1>1, PTL

-----------------------------------------------------------------------------
(* What the tracker shows of a section that one task works on.             *)

(* What its methods change, resource by resource and section by section.   *)
LEMMA TrackerSees ==
    ASSUME NEW p \in ShownType, NEW x \in Resources, NEW s \in Sections,
           NEW y \in Resources, NEW z \in Sections
    PROVE  /\ z \in Queue(p, x, s).queued[y] <=>
                 \/ z \in p.queued[y]
                 \/ y = x /\ z = s /\ ~(x \in {"section", "retry"} /\ s \in p.running[x])
           /\ z \in Queue(p, x, s).running[y] <=> z \in p.running[y]
           /\ z \in Start(p, x, s).queued[y] <=> z \in p.queued[y] /\ ~(y = x /\ z = s)
           /\ z \in Start(p, x, s).running[y] <=> z \in p.running[y] \/ (y = x /\ z = s)
           /\ z \in Finish(p, x, s).queued[y] <=> z \in p.queued[y] /\ ~(y = x /\ z = s)
           /\ z \in Finish(p, x, s).running[y] <=> z \in p.running[y] /\ ~(y = x /\ z = s)
<1> DEFINE F == [Resources -> SUBSET Sections]
<1>1. PICK a \in F : \E b \in F : p = [queued |-> a, running |-> b]
  BY DEF ShownType
<1>2. PICK b \in F : p = [queued |-> a, running |-> b]
  BY <1>1
<1>3. /\ Queue(p, x, s) = IF x \in {"section", "retry"} /\ s \in b[x] THEN p
                           ELSE [queued |-> With(a, x, s), running |-> b]
      /\ Start(p, x, s) = [queued |-> Without(a, x, s), running |-> With(b, x, s)]
      /\ Finish(p, x, s) = [queued |-> Without(a, x, s), running |-> Without(b, x, s)]
  <2> HIDE DEF F
  <2> QED
    BY <1>2, TrackerSteps
<1>4. p.queued = a /\ p.running = b
  BY <1>2
<1>5. /\ z \in With(a, x, s)[y] <=> z \in a[y] \/ (y = x /\ z = s)
      /\ z \in Without(a, x, s)[y] <=> z \in a[y] /\ ~(y = x /\ z = s)
      /\ z \in With(b, x, s)[y] <=> z \in b[y] \/ (y = x /\ z = s)
      /\ z \in Without(b, x, s)[y] <=> z \in b[y] /\ ~(y = x /\ z = s)
  BY DEF With, Without
<1>6. /\ Start(p, x, s).queued = Without(a, x, s) /\ Start(p, x, s).running = With(b, x, s)
      /\ Finish(p, x, s).queued = Without(a, x, s) /\ Finish(p, x, s).running = Without(b, x, s)
      /\ Queue(p, x, s).running = b
      /\ Queue(p, x, s).queued = IF x \in {"section", "retry"} /\ s \in b[x] THEN a
                                 ELSE With(a, x, s)
  <2>1. /\ Start(p, x, s).queued = Without(a, x, s) /\ Start(p, x, s).running = With(b, x, s)
        /\ Finish(p, x, s).queued = Without(a, x, s) /\ Finish(p, x, s).running = Without(b, x, s)
    BY <1>3
  <2>2. CASE x \in {"section", "retry"} /\ s \in b[x]
    <3>1. Queue(p, x, s) = p
      BY <1>3, <2>2
    <3> QED
      BY <1>4, <2>1, <2>2, <3>1
  <2>3. CASE ~(x \in {"section", "retry"} /\ s \in b[x])
    <3>1. Queue(p, x, s) = [queued |-> With(a, x, s), running |-> b]
      BY <1>3, <2>3
    <3> QED
      BY <2>1, <2>3, <3>1
  <2> QED
    BY <2>2, <2>3
<1>7. /\ z \in Start(p, x, s).queued[y] <=> z \in p.queued[y] /\ ~(y = x /\ z = s)
      /\ z \in Start(p, x, s).running[y] <=> z \in p.running[y] \/ (y = x /\ z = s)
      /\ z \in Finish(p, x, s).queued[y] <=> z \in p.queued[y] /\ ~(y = x /\ z = s)
      /\ z \in Finish(p, x, s).running[y] <=> z \in p.running[y] /\ ~(y = x /\ z = s)
  BY <1>4, <1>5, <1>6
<1>8. /\ z \in Queue(p, x, s).queued[y] <=>
            \/ z \in p.queued[y]
            \/ y = x /\ z = s /\ ~(x \in {"section", "retry"} /\ s \in p.running[x])
      /\ z \in Queue(p, x, s).running[y] <=> z \in p.running[y]
  BY <1>4, <1>5, <1>6
<1> QED
  BY <1>7, <1>8

LEMMA EnteredSees ==
    ASSUME TypeOK, NEW p \in ShownType, NEW j \in Jobs, NEW y \in Limiters, NEW z \in Sections
    PROVE  LET x == LimiterOf(j)
               s == SectionOf(j)
           IN  /\ z \in Entered(p, j).queued[y] <=> z \in p.queued[y] /\ ~(y = x /\ z = s)
               /\ z \in Entered(p, j).running[y] <=> z \in p.running[y] \/ (y = x /\ z = s)
               /\ z \in Entered(p, j).running["retry"] <=>
                     \/ z \in p.running["retry"]
                     \/ z = s /\ j[2] = "section" /\ task[j[1]].retry
<1> DEFINE x == LimiterOf(j)
           s == SectionOf(j)
           q == Start(p, x, s)
<1>1. /\ x \in Resources /\ "retry" \in Resources /\ s \in Sections /\ y \in Resources
      /\ y # "retry" /\ x # "retry"
  BY JobFacts, TaskFacts DEF Resources, Limiters, SectionOf
<1>2. q \in ShownType
  BY <1>1, ShownStays
<1>3. Entered(p, j) = IF j[2] = "section" /\ task[j[1]].retry THEN Start(q, "retry", s) ELSE q
  BY DEF Entered
<1>4. /\ z \in q.queued[y] <=> z \in p.queued[y] /\ ~(y = x /\ z = s)
      /\ z \in q.running[y] <=> z \in p.running[y] \/ (y = x /\ z = s)
      /\ z \in q.running["retry"] <=> z \in p.running["retry"]
  BY <1>1, TrackerSees
<1> HIDE DEF q, x, s
<1>5. /\ z \in Start(q, "retry", s).queued[y] <=> z \in q.queued[y]
      /\ z \in Start(q, "retry", s).running[y] <=> z \in q.running[y]
      /\ z \in Start(q, "retry", s).running["retry"] <=> z \in q.running["retry"] \/ z = s
  BY <1>1, <1>2, TrackerSees
<1>6. /\ z \in Entered(p, j).queued[y] <=> z \in p.queued[y] /\ ~(y = x /\ z = s)
      /\ z \in Entered(p, j).running[y] <=> z \in p.running[y] \/ (y = x /\ z = s)
      /\ z \in Entered(p, j).running["retry"] <=>
            \/ z \in p.running["retry"]
            \/ z = s /\ j[2] = "section" /\ task[j[1]].retry
  BY <1>3, <1>4, <1>5
<1> QED
  BY <1>6 DEF x, s

(* What a step leaves as it was shown of a section, at a limiter or at all. *)
SameAt(y, z) == /\ z \in shown'.queued[y] <=> z \in shown.queued[y]
                /\ z \in shown'.running[y] <=> z \in shown.running[y]
SameRetry(z) == z \in shown'.running["retry"] <=> z \in shown.running["retry"]
Same(z)      == SameRetry(z) /\ \A y \in Limiters : SameAt(y, z)

(* The only part of its task that its limiter and tracker entry are about. *)
Alone(j) == LimiterOf(j) = "media" => task[j[1]].needs = {j[2]}

ShownAt(j) == /\ SectionOf(j) \in shown.running[LimiterOf(j)] <=> pos[j] = "running"
              /\ SectionOf(j) \in shown.queued[LimiterOf(j)] <=> pos[j] = "waiting"

RetryShown(t) == task[t].sec \in shown.running["retry"] <=> t \in Retries

LEMMA SoleShown ==
    SoleTaskIsShown <=>
      \A t \in Tasks : Sole(t) =>
        RetryShown(t) /\ \A j \in Jobs : j[1] = t /\ Alone(j) => ShownAt(j)
BY DEF SoleTaskIsShown, Alone, ShownAt, RetryShown

(* Seen from any other task of a section of its own, nothing has changed.  *)
LEMMA OthersShown ==
    ASSUME Inv, SoleTaskIsShown, NEW t \in Tasks, OnlyTask(t),
           \A z \in Sections \ {task[t].sec} : Same(z),
           NEW u \in Tasks \ {t}, Sole(u)
    PROVE  RetryShown(u)' /\ \A j \in Jobs : j[1] = u /\ Alone(j)' => ShownAt(j)'
<1>1. Same(task[u].sec) /\ task' = task /\ stage'[u] = stage[u]
      /\ <<u, "section">> \in Jobs /\ \A j \in Jobs : j[1] = u => pos'[j] = pos[j]
  BY TaskFacts, TaskJobs DEF Inv, Sole, OnlyTask
<1>2. pos'[<<u, "section">>] = pos[<<u, "section">>]
  BY <1>1
<1>3. RetryShown(u)'
  BY <1>1, <1>2, SoleShown DEF RetryShown, Retries, Same, SameRetry
<1>4. ASSUME NEW j \in Jobs, j[1] = u, Alone(j)'
      PROVE  ShownAt(j)'
  <2>1. Alone(j) /\ LimiterOf(j) \in Limiters /\ SectionOf(j) = task[u].sec
        /\ SectionOf(j)' = SectionOf(j)
    BY <1>1, <1>4, JobFacts DEF Alone, SectionOf
  <2>2. ShownAt(j) /\ SameAt(LimiterOf(j), SectionOf(j))
    BY <1>1, <1>4, <2>1, SoleShown DEF Same
  <2> QED
    BY <1>1, <1>4, <2>1, <2>2 DEF ShownAt, SameAt
<1> QED
  BY <1>3, <1>4

(* A step that moves job j of task t, and what the tracker shows at j's    *)
(* limiter of t's section.                                                 *)
LEMMA MovedIsShown ==
    ASSUME Inv, SoleTaskIsShown, NEW t \in Tasks, NEW j \in Jobs, j[1] = t, OnlyTask(t),
           LimiterOf(j) = "media" => j[2] \in task[t].needs,
           \A k \in Jobs \ {j} : pos'[k] = pos[k],
           \A z \in Sections \ {task[t].sec} : Same(z),
           \A y \in Limiters \ {LimiterOf(j)} : SameAt(y, task[t].sec),
           Sole(t) /\ Alone(j) => ShownAt(j)',
           Sole(t) => RetryShown(t)'
    PROVE  SoleTaskIsShown'
<1>1. task' = task /\ \A u \in Tasks : Sole(u)' <=> Sole(u)
  BY DEF OnlyTask, Sole
<1>2. ASSUME NEW k \in Jobs \ {j}, k[1] = t, Alone(k)', Sole(t)
      PROVE  ShownAt(k)'
  <2>1. Alone(k) /\ LimiterOf(k) \in Limiters /\ SectionOf(k) = task[t].sec
        /\ SectionOf(k)' = SectionOf(k) /\ pos'[k] = pos[k] /\ ShownAt(k)
    BY <1>1, <1>2, JobFacts, SoleShown DEF Alone, SectionOf
  <2>2. k[2] # j[2]
    BY <1>2, JobFacts
  <2>3. LimiterOf(k) # LimiterOf(j)
    BY <1>2, <2>1, <2>2, JobFacts DEF Alone, Limiters
  <2> QED
    BY <2>1, <2>3 DEF ShownAt, SameAt
<1>3. ASSUME Alone(j)', Sole(t) PROVE ShownAt(j)'
  BY <1>1, <1>3 DEF Alone
<1>4. ASSUME NEW u \in Tasks, Sole(u)
      PROVE  RetryShown(u)' /\ \A k \in Jobs : k[1] = u /\ Alone(k)' => ShownAt(k)'
  BY <1>2, <1>3, <1>4, OthersShown
<1>5. \A u \in Tasks : Sole(u)' =>
         RetryShown(u)' /\ \A k \in Jobs : (k[1] = u)' /\ Alone(k)' => ShownAt(k)'
  BY <1>1, <1>4
<1> QED
  BY <1>5 DEF SoleTaskIsShown, Alone, ShownAt, RetryShown

(* A step that moves no job.                                               *)
LEMMA StillIsShown ==
    ASSUME Inv, SoleTaskIsShown, NEW t \in Tasks, OnlyTask(t), pos' = pos,
           \A z \in Sections \ {task[t].sec} : Same(z),
           \A y \in Limiters : SameAt(y, task[t].sec),
           Sole(t) => RetryShown(t)'
    PROVE  SoleTaskIsShown'
<1>1. task' = task /\ \A u \in Tasks : Sole(u)' <=> Sole(u)
  BY DEF OnlyTask, Sole
<1>2. ASSUME NEW k \in Jobs, k[1] = t, Alone(k)', Sole(t)
      PROVE  ShownAt(k)'
  <2>1. Alone(k) /\ LimiterOf(k) \in Limiters /\ SectionOf(k) = task[t].sec
        /\ SectionOf(k)' = SectionOf(k) /\ ShownAt(k)
    BY <1>1, <1>2, JobFacts, SoleShown DEF Alone, SectionOf
  <2> QED
    BY <2>1 DEF ShownAt, SameAt
<1>3. ASSUME NEW u \in Tasks, Sole(u)
      PROVE  RetryShown(u)' /\ \A k \in Jobs : k[1] = u /\ Alone(k)' => ShownAt(k)'
  BY <1>2, <1>3, OthersShown
<1>4. \A u \in Tasks : Sole(u)' =>
         RetryShown(u)' /\ \A k \in Jobs : (k[1] = u)' /\ Alone(k)' => ShownAt(k)'
  BY <1>1, <1>3
<1> QED
  BY <1>4 DEF SoleTaskIsShown, Alone, ShownAt, RetryShown

(* A part that is given a slot, at once or after it waited: p is what the  *)
(* tracker shows before it is shown as running.                            *)
LEMMA RunsIsShown ==
    ASSUME Inv, SoleTaskIsShown, NEW j \in Jobs, NEW t \in Tasks, j[1] = t, OnlyTask(t),
           LimiterOf(j) = "media" => j[2] \in task[t].needs,
           pos'[j] = "running", \A k \in Jobs \ {j} : pos'[k] = pos[k],
           NEW p \in ShownType, shown' = Entered(p, j),
           \A y \in Limiters, z \in Sections :
              /\ z \in p.queued[y] <=> z \in shown.queued[y] \/
                                      (y = LimiterOf(j) /\ z = SectionOf(j) /\ z \in p.queued[y])
              /\ z \in p.running[y] <=> z \in shown.running[y],
           \A z \in Sections : z \in p.running["retry"] <=> z \in shown.running["retry"],
           IF j[2] = "section" THEN task[t].node = "process_section" /\ pos[j] # "running"
           ELSE t \in Retries' <=> t \in Retries
    PROVE  SoleTaskIsShown'
<1> DEFINE x == LimiterOf(j)
           s == SectionOf(j)
<1>1. x \in Limiters /\ s \in Sections /\ s = task[t].sec /\ task[t].sec \in Sections
      /\ task' = task /\ j = <<t, j[2]>> /\ SectionOf(j)' = s
  BY JobFacts, TaskFacts DEF Inv, SectionOf, OnlyTask
<1>2. \A y \in Limiters, z \in Sections :
         /\ z \in shown'.queued[y] <=> z \in p.queued[y] /\ ~(y = x /\ z = s)
         /\ z \in shown'.running[y] <=> z \in p.running[y] \/ (y = x /\ z = s)
         /\ z \in shown'.running["retry"] <=>
               \/ z \in p.running["retry"]
               \/ z = s /\ j[2] = "section" /\ task[t].retry
  BY EnteredSees DEF Inv
<1> HIDE DEF x, s
<1>3. /\ \A z \in Sections \ {task[t].sec} : \A y \in Limiters : SameAt(y, z)
      /\ \A y \in Limiters \ {x} : SameAt(y, task[t].sec)
  BY <1>1, <1>2 DEF SameAt, x, s
<1>4. \A z \in Sections \ {task[t].sec} : SameRetry(z)
  BY <1>1, <1>2, Limiters # {} DEF SameRetry, Limiters
<1>5. Sole(t) => ShownAt(j)'
  BY <1>1, <1>2 DEF ShownAt, x, s
<1>6. ASSUME Sole(t) PROVE RetryShown(t)'
  <2>1. task[t].sec \in shown.running["retry"] <=> t \in Retries
    BY <1>6, SoleShown DEF RetryShown
  <2>2. task[t].sec \in shown'.running["retry"] <=>
          t \in Retries \/ (j[2] = "section" /\ task[t].retry)
    BY <1>1, <1>2, <2>1
  <2>3. CASE j[2] = "section"
    <3>1. (t \in Retries' <=> task[t].retry) /\ t \notin Retries
      BY <1>1, <2>3 DEF Retries
    <3> QED
      BY <1>1, <2>2, <2>3, <3>1 DEF RetryShown
  <2>4. CASE j[2] # "section"
    BY <1>1, <2>2, <2>4 DEF RetryShown
  <2> QED
    BY <2>3, <2>4
<1>7. \A z \in Sections \ {task[t].sec} : Same(z)
  BY <1>3, <1>4 DEF Same
<1> QED
  BY <1>3, <1>5, <1>6, <1>7, MovedIsShown DEF x

(* A part that reaches its limiter.                                        *)
LEMMA ReachIsShown ==
    ASSUME Inv, SoleTaskIsShown, NEW t \in Tasks, NEW j \in Jobs, j[1] = t, pos[j] = "idle", Reach(j),
           LimiterOf(j) = "media" => j[2] \in task[t].needs,
           NEW g, g \in Stages, task' = task, stage' = At(stage, t, g),
           IF task[t].node = "process_section" THEN TRUE
           ELSE j[2] # "section" /\ (stage[t] \in {"new", "done"} <=> g \in {"new", "done"})
    PROVE  SoleTaskIsShown'
<1> DEFINE x == LimiterOf(j)
           s == SectionOf(j)
           q == Queue(shown, x, s)
<1>1. x \in Limiters /\ x \in Resources /\ s \in Sections /\ s = task[t].sec /\ shown \in ShownType
      /\ x # "retry" /\ "retry" \in Resources /\ Limiters \subseteq Resources
      /\ (x = "section" <=> j[2] = "section") /\ j = <<t, j[2]>>
  BY JobFacts, TaskFacts, TypesOfInv DEF Inv, SectionOf, Resources, Limiters
<1>2. /\ OnlyTask(t) /\ pos'[j] \in {"waiting", "running"} /\ stage'[t] = g
      /\ \A k \in Jobs \ {j} : pos'[k] = pos[k]
  BY ReachMoves
<1>3. q \in ShownType
  BY <1>1, ShownStays
<1>4. \A y \in Resources, z \in Sections :
         /\ z \in q.queued[y] <=>
              \/ z \in shown.queued[y]
              \/ y = x /\ z = s /\ ~(x \in {"section", "retry"} /\ s \in shown.running[x])
         /\ z \in q.running[y] <=> z \in shown.running[y]
  BY <1>1, TrackerSees
<1>5. IF j[2] = "section" THEN task[t].node = "process_section" /\ pos[j] # "running"
      ELSE t \in Retries' <=> t \in Retries
  <2>1. CASE j[2] = "section"
    BY <2>1
  <2>2. CASE j[2] # "section" /\ task[t].node = "process_section"
    <3>1. pos'[<<t, "section">>] = pos[<<t, "section">>] /\ task' = task
      BY <1>1, <1>2, <2>2, TaskJobs
    <3> QED
      BY <2>2, <3>1 DEF Retries
  <2>3. CASE j[2] # "section" /\ task[t].node # "process_section"
    BY <1>2, <2>3 DEF Retries
  <2> QED
    BY <2>1, <2>2, <2>3
<1>6. CASE TakesAtOnce(sem[LimiterOf(j)])
  <2>1. pos' = At(pos, j, "running") /\ shown' = Entered(q, j)
    BY <1>6 DEF Reach, At
  <2>2. pos'[j] = "running"
    BY <2>1, TypesOfInv DEF At
  <2>3. /\ \A y \in Limiters, z \in Sections :
             /\ z \in q.queued[y] <=> z \in shown.queued[y] \/ (y = x /\ z = s /\ z \in q.queued[y])
             /\ z \in q.running[y] <=> z \in shown.running[y]
        /\ \A z \in Sections : z \in q.running["retry"] <=> z \in shown.running["retry"]
    BY <1>1, <1>4
  <2> HIDE DEF q
  <2> QED
    BY <1>2, <1>3, <1>5, <2>1, <2>2, <2>3, RunsIsShown
<1>7. CASE ~TakesAtOnce(sem[LimiterOf(j)])
  <2>1. pos' = At(pos, j, "waiting") /\ shown' = q
    BY <1>7 DEF Reach, At
  <2>2. pos'[j] = "waiting"
    BY <2>1, TypesOfInv DEF At
  <2> HIDE DEF q, x, s
  <2>3. /\ \A z \in Sections \ {task[t].sec} : Same(z)
        /\ \A y \in Limiters \ {x} : SameAt(y, task[t].sec)
        /\ SameRetry(task[t].sec)
    BY <1>1, <1>4, <2>1 DEF Same, SameAt, SameRetry
  <2>4. ASSUME Sole(t), Alone(j) PROVE ShownAt(j)'
    <3>1. ShownAt(j) /\ SectionOf(j)' = s
      BY <2>4, <1>1, SoleShown DEF SectionOf, s
    <3> QED
      BY <1>1, <1>4, <2>1, <2>2, <3>1 DEF ShownAt, x, s
  <2>5. t \in Retries' <=> t \in Retries
    <3>1. CASE j[2] = "section"
      <4>1. task[t].node = "process_section" /\ j = <<t, "section">>
        BY <1>1, <1>5, <3>1
      <4> QED
        BY <2>2, <4>1 DEF Retries
    <3> QED
      BY <1>5, <3>1
  <2>6. ASSUME Sole(t) PROVE RetryShown(t)'
    <3>1. RetryShown(t)
      BY <2>6, SoleShown
    <3> QED
      BY <2>3, <2>5, <3>1 DEF RetryShown, SameRetry
  <2> QED
    BY <1>2, <2>3, <2>4, <2>6, MovedIsShown DEF x
<1> QED
  BY <1>6, <1>7

LEMMA GrantedIsShown ==
    ASSUME Inv, SoleTaskIsShown, NEW j \in Jobs, Granted(j)
    PROVE  SoleTaskIsShown'
<1> DEFINE t == j[1]
<1>1. /\ t \in Tasks /\ j = <<t, j[2]>> /\ j[2] \in {"section", "qc_agent"} \union Media
      /\ LimiterOf(j) \in Limiters /\ (LimiterOf(j) = "section" <=> j[2] = "section")
      /\ (LimiterOf(j) = "qc" <=> j[2] = "qc_agent")
  BY JobFacts
<1>2. pos[j] = "waiting"
  <2>1. Members(sem[LimiterOf(j)]) = {k \in Jobs : LimiterOf(k) = LimiterOf(j) /\ pos[k] = "waiting"}
    BY <1>1 DEF Inv, LimiterInv
  <2> QED
    BY <2>1 DEF Granted, Members
<1>3. Parts(t) /\ shown \in ShownType /\ OnlyTask(t)
  BY <1>1, TypesOfInv, GrantedKeeps DEF Kept
<1>4. /\ shown' = Entered(shown, j) /\ pos' = At(pos, j, "running") /\ stage' = stage /\ task' = task
  BY DEF Granted, At
<1>5. pos'[j] = "running" /\ \A k \in Jobs \ {j} : pos'[k] = pos[k]
  BY <1>4, TypesOfInv DEF At
<1>6. LimiterOf(j) = "media" => j[2] \in task[t].needs
  <2>1. ASSUME j[2] \in Media PROVE j[2] \in task[t].needs
    BY <1>1, <1>2, <1>3, <2>1 DEF Parts
  <2> QED
    BY <1>1, <2>1 DEF Limiters
<1>7. IF j[2] = "section" THEN task[t].node = "process_section" /\ pos[j] # "running"
      ELSE t \in Retries' <=> t \in Retries
  <2>1. CASE j[2] = "section"
    BY <1>1, <1>2, <1>3, <2>1 DEF Parts
  <2>2. CASE j[2] # "section"
    <3>1. pos'[<<t, "section">>] = pos[<<t, "section">>]
      BY <1>1, <1>5, <2>2, TaskJobs
    <3> QED
      BY <1>4, <2>2, <3>1 DEF Retries
  <2> QED
    BY <2>1, <2>2
<1> HIDE DEF t
<1>8. j[1] = t
  BY DEF t
<1> QED
  BY <1>1, <1>3, <1>4, <1>5, <1>6, <1>7, <1>8, RunsIsShown

(* A part that gives its slot back, with what the tracker is then told.    *)
LEMMA EndIsShown ==
    ASSUME Inv, SoleTaskIsShown, NEW t \in Tasks, NEW j \in Jobs, j[1] = t, OnlyTask(t),
           LimiterOf(j) = "media" => j[2] \in task[t].needs,
           pos'[j] = "done", \A k \in Jobs \ {j} : pos'[k] = pos[k],
           \A y \in Limiters, z \in Sections :
              LET o == Finish(shown, LimiterOf(j), SectionOf(j))
              IN  /\ z \in shown'.queued[y] <=> z \in o.queued[y]
                  /\ z \in shown'.running[y] <=> z \in o.running[y],
           \A z \in Sections \ {task[t].sec} : SameRetry(z),
           Sole(t) => RetryShown(t)'
    PROVE  SoleTaskIsShown'
<1> DEFINE x == LimiterOf(j)
           s == SectionOf(j)
<1>1. x \in Limiters /\ x \in Resources /\ s \in Sections /\ s = task[t].sec /\ shown \in ShownType
      /\ Limiters \subseteq Resources /\ SectionOf(j)' = s
  BY JobFacts, TaskFacts, TypesOfInv DEF Inv, SectionOf, Resources, OnlyTask
<1>2. \A y \in Limiters, z \in Sections :
         /\ z \in shown'.queued[y] <=> z \in shown.queued[y] /\ ~(y = x /\ z = s)
         /\ z \in shown'.running[y] <=> z \in shown.running[y] /\ ~(y = x /\ z = s)
  BY <1>1, TrackerSees
<1> HIDE DEF x, s
<1>3. /\ \A z \in Sections \ {task[t].sec} : Same(z)
      /\ \A y \in Limiters \ {x} : SameAt(y, task[t].sec)
  BY <1>1, <1>2 DEF Same, SameAt
<1>4. ShownAt(j)'
  BY <1>1, <1>2 DEF ShownAt, x, s
<1> QED
  BY <1>3, <1>4, MovedIsShown DEF x

LEMMA EndNodeIsShown ==
    ASSUME Inv, SoleTaskIsShown, NEW j \in Jobs, EndNode(j)
    PROVE  SoleTaskIsShown'
<1> DEFINE t == j[1]
           x == LimiterOf(j)
           s == SectionOf(j)
           over == Finish(shown, x, s)
<1>1. /\ t \in Tasks /\ j = <<t, j[2]>> /\ j[2] \in {"section", "qc_agent"} \union Media
      /\ x \in Limiters /\ x \in Resources /\ (x = "section" <=> j[2] = "section")
      /\ (x = "qc" <=> j[2] = "qc_agent") /\ s \in Sections /\ s = task[t].sec
      /\ shown \in ShownType /\ Limiters \subseteq Resources /\ "retry" \in Resources
      /\ "retry" \notin Limiters
  BY JobFacts, TaskFacts, TypesOfInv DEF Inv, SectionOf, Resources, Limiters
<1>2. /\ pos[j] = "running" /\ j[2] # "section" /\ pos' = At(pos, j, "done") /\ task' = task
      /\ shown' = over \/ shown' = Queue(over, "retry", s)
  BY <1>1 DEF EndNode, At
<1>3. Parts(t) /\ OnlyTask(t) /\ pos'[j] = "done" /\ \A k \in Jobs \ {j} : pos'[k] = pos[k]
  <2>1. Parts(t) /\ OnlyTask(t)
    BY <1>1, TypesOfInv, EndNodeKeeps DEF Kept
  <2> QED
    BY <1>2, <2>1, TypesOfInv DEF At
<1>4. x = "media" => j[2] \in task[t].needs
  <2>1. ASSUME j[2] \in Media PROVE j[2] \in task[t].needs
    BY <1>1, <1>2, <1>3, <2>1 DEF Parts
  <2> QED
    BY <1>1, <2>1 DEF Limiters
<1>5. over \in ShownType /\ \A z \in Sections : z \in over.running["retry"] <=> z \in shown.running["retry"]
  <2> HIDE DEF x, s
  <2>1. x # "retry"
    BY <1>1
  <2>2. over \in ShownType
    BY <1>1, ShownStays
  <2>3. \A z \in Sections : z \in over.running["retry"] <=> z \in shown.running["retry"]
    BY <1>1, <2>1, TrackerSees
  <2> QED
    BY <2>2, <2>3
<1>6. /\ \A y \in Limiters, z \in Sections :
            /\ z \in shown'.queued[y] <=> z \in over.queued[y]
            /\ z \in shown'.running[y] <=> z \in over.running[y]
      /\ \A z \in Sections : SameRetry(z)
  <2> HIDE DEF over, s, x
  <2>1. CASE shown' = over
    BY <1>5, <2>1 DEF SameRetry
  <2>2. CASE shown' = Queue(over, "retry", s)
    BY <1>1, <1>5, <2>2, TrackerSees DEF SameRetry
  <2> QED
    BY <1>2, <2>1, <2>2
<1>7. t \in Retries' <=> t \in Retries
  <2>1. pos'[<<t, "section">>] = pos[<<t, "section">>]
    BY <1>1, <1>2, <1>3, TaskJobs
  <2>2. stage'[t] \in {"new", "done"} <=> stage[t] \in {"new", "done"}
    <3>1. CASE j[2] = "qc_agent"
      <4>1. stage' = At(stage, t, "leaving") /\ stage[t] = "quality"
        BY <1>1, <1>2, <1>3, <3>1 DEF EndNode, At, Parts
      <4> QED
        BY <1>1, <4>1, TypesOfInv DEF At
    <3>2. CASE j[2] # "qc_agent"
      BY <1>1, <3>2 DEF EndNode
    <3> QED
      BY <3>1, <3>2
  <2> QED
    BY <1>1, <1>2, <2>1, <2>2 DEF Retries
<1>8. ASSUME Sole(t) PROVE RetryShown(t)'
  <2>1. RetryShown(t)
    BY <1>1, <1>8, SoleShown
  <2> QED
    BY <1>1, <1>2, <1>6, <1>7, <2>1 DEF RetryShown, SameRetry
<1>9. j[1] = t /\ task[t].sec \in Sections
  BY <1>1
<1> HIDE DEF t
<1> QED
  BY <1>1, <1>3, <1>4, <1>6, <1>8, <1>9, EndIsShown

LEMMA LeaveIsShown ==
    ASSUME Inv, SoleTaskIsShown, NEW t \in Tasks, Leave(t)
    PROVE  SoleTaskIsShown'
<1> DEFINE s == task[t].sec
           j == <<t, "section">>
           over == IF task[t].node = "process_section" THEN Finish(shown, "section", s) ELSE shown
<1>1. /\ s \in Sections /\ shown \in ShownType /\ Limiters \subseteq Resources /\ "retry" \in Resources
      /\ "retry" \notin Limiters /\ "section" \in Limiters
      /\ j \in Jobs /\ j[1] = t /\ LimiterOf(j) = "section" /\ SectionOf(j) = s
  BY TaskFacts, TypesOfInv, TaskJobs DEF Inv, Resources, Limiters, SectionOf
<1>2. /\ stage[t] = "leaving" /\ task' = task /\ stage' = At(stage, t, "done")
      /\ shown' = IF task[t].retry THEN Finish(over, "retry", s) ELSE over
  BY DEF Leave, At
<1>3. OnlyTask(t) /\ Parts(t) /\ stage'[t] = "done"
  BY <1>2, LeaveKeeps, TypesOfInv DEF Kept, At
<1>4. over \in ShownType
  BY <1>1, ShownStays
<1>5. \A y \in Limiters, z \in Sections :
         /\ z \in shown'.queued[y] <=> z \in over.queued[y]
         /\ z \in shown'.running[y] <=> z \in over.running[y]
  <2> HIDE DEF over
  <2> QED
    BY <1>1, <1>2, <1>4, TrackerSees
<1>6. \A z \in Sections : z \in over.running["retry"] <=> z \in shown.running["retry"]
  BY <1>1, TrackerSees
<1>7. \A z \in Sections : z \in shown'.running["retry"] <=>
                           z \in shown.running["retry"] /\ ~(task[t].retry /\ z = s)
  <2> HIDE DEF over
  <2>1. CASE task[t].retry
    BY <1>1, <1>2, <1>4, <1>6, <2>1, TrackerSees
  <2>2. CASE ~task[t].retry
    BY <1>2, <1>6, <2>2
  <2> QED
    BY <2>1, <2>2
<1>8. \A z \in Sections \ {s} : SameRetry(z)
  BY <1>7 DEF SameRetry
<1>9. ASSUME Sole(t), t \notin Retries' PROVE RetryShown(t)'
  <2>1. RetryShown(t)
    BY <1>9, SoleShown
  <2>2. s \notin shown'.running["retry"]
    BY <1>1, <1>7, <2>1 DEF RetryShown, Retries
  <2> QED
    BY <1>2, <1>9, <2>2 DEF RetryShown
<1>10. CASE task[t].node = "process_section"
  <2>1. pos' = At(pos, j, "done")
    BY <1>10 DEF Leave, At
  <2>2. pos'[j] = "done" /\ \A k \in Jobs \ {j} : pos'[k] = pos[k]
    BY <1>1, <2>1, TypesOfInv DEF At
  <2>3. t \notin Retries'
    BY <1>2, <1>10, <2>2 DEF Retries
  <2>4. \A y \in Limiters, z \in Sections :
           LET o == Finish(shown, LimiterOf(j), SectionOf(j))
           IN  /\ z \in shown'.queued[y] <=> z \in o.queued[y]
               /\ z \in shown'.running[y] <=> z \in o.running[y]
    BY <1>1, <1>5, <1>10
  <2> HIDE DEF j
  <2> QED
    BY <1>1, <1>3, <1>8, <1>9, <2>2, <2>3, <2>4, EndIsShown
<1>11. CASE task[t].node # "process_section"
  <2>1. pos' = pos /\ t \notin Retries'
    BY <1>2, <1>3, <1>11 DEF Leave, Retries
  <2>2. /\ \A z \in Sections \ {s} : Same(z)
        /\ \A y \in Limiters : SameAt(y, s)
    BY <1>1, <1>5, <1>8, <1>11 DEF Same, SameAt
  <2> QED
    BY <1>3, <1>9, <2>1, <2>2, StillIsShown
<1> QED
  BY <1>10, <1>11

(* A step that leaves the tracker alone, and the head of a retry node.     *)
LEMMA QuietIsShown ==
    ASSUME Inv, SoleTaskIsShown, NEW t \in Tasks, OnlyTask(t), pos' = pos, shown' = shown,
           stage'[t] \in {"new", "done"} <=> stage[t] \in {"new", "done"}
    PROVE  SoleTaskIsShown'
<1>1. /\ \A z \in Sections \ {task[t].sec} : Same(z)
      /\ \A y \in Limiters : SameAt(y, task[t].sec)
  BY DEF Same, SameAt, SameRetry
<1>2. Sole(t) => RetryShown(t)'
  BY SoleShown DEF RetryShown, Retries, OnlyTask
<1> QED
  BY <1>1, <1>2, StillIsShown

LEMMA StartRetryIsShown ==
    ASSUME Inv, SoleTaskIsShown, NEW t \in Tasks, StartRetry(t)
    PROVE  SoleTaskIsShown'
<1> DEFINE s == task[t].sec
<1>1. /\ s \in Sections /\ shown \in ShownType /\ Limiters \subseteq Resources /\ "retry" \in Resources
      /\ "retry" \notin Limiters /\ task[t] \in TaskKinds
  BY TaskFacts, TypesOfInv DEF Inv, Resources, Limiters
<1>2. /\ task[t].node # "process_section" /\ task' = task /\ pos' = pos
      /\ shown' = Start(shown, "retry", s) /\ OnlyTask(t)
  BY QuietStepsKeep DEF StartRetry, Kept
<1>3. stage'[t] \in {"content", "media"}
  BY TypesOfInv DEF StartRetry
<1>4. \A y \in Resources, z \in Sections :
         /\ z \in shown'.queued[y] <=> z \in shown.queued[y] /\ ~(y = "retry" /\ z = s)
         /\ z \in shown'.running[y] <=> z \in shown.running[y] \/ (y = "retry" /\ z = s)
  <2> HIDE DEF s
  <2> QED
    BY <1>1, <1>2, TrackerSees
<1>5. /\ \A z \in Sections \ {s} : Same(z)
      /\ \A y \in Limiters : SameAt(y, s)
      /\ s \in shown'.running["retry"]
  BY <1>1, <1>4 DEF Same, SameAt, SameRetry
<1>6. task[t].retry
  BY <1>1, <1>2 DEF TaskKinds
<1>7. RetryShown(t)'
  BY <1>2, <1>3, <1>5, <1>6 DEF RetryShown, Retries
<1> QED
  BY <1>2, <1>5, <1>7, StillIsShown

LEMMA TaskStepIsShown ==
    ASSUME Inv, SoleTaskIsShown, NEW t \in Tasks, TaskStep(t)
    PROVE  SoleTaskIsShown'
<1>1. CASE StartSectionFlow(t)
  <2>1. /\ <<t, "section">> \in Jobs /\ <<t, "section">>[1] = t /\ "content" \in Stages
        /\ LimiterOf(<<t, "section">>) # "media"
        /\ Reach(<<t, "section">>) /\ task[t].node = "process_section" /\ task' = task
        /\ stage' = At(stage, t, "content") /\ stage[t] = "new"
    BY <1>1, TaskJobs DEF StartSectionFlow, At, Stages
  <2>2. pos[<<t, "section">>] = "idle"
    BY <2>1, TypesOfInv DEF Parts
  <2> QED
    BY <2>1, <2>2, ReachIsShown
<1>2. ASSUME NEW m \in Media, StartExecutor(t, m) PROVE SoleTaskIsShown'
  <2>1. /\ <<t, m>> \in Jobs /\ <<t, m>>[1] = t /\ <<t, m>>[2] = m /\ m # "section"
        /\ Reach(<<t, m>>) /\ m \in task[t].needs /\ task' = task /\ stage[t] = "media"
        /\ stage' = At(stage, t, "media") /\ pos[<<t, m>>] = "idle" /\ "media" \in Stages
    BY <1>2, TaskJobs, TypesOfInv DEF StartExecutor, At, Stages
  <2> QED
    BY <2>1, ReachIsShown
<1>3. CASE StartQc(t)
  <2>1. /\ <<t, "qc_agent">> \in Jobs /\ <<t, "qc_agent">>[1] = t /\ <<t, "qc_agent">>[2] # "section"
        /\ LimiterOf(<<t, "qc_agent">>) # "media"
        /\ Reach(<<t, "qc_agent">>) /\ stage[t] = "media" /\ task' = task
        /\ stage' = At(stage, t, "quality") /\ "quality" \in Stages
    BY <1>3, TaskJobs DEF StartQc, MediaOver, At, Stages
  <2>2. pos[<<t, "qc_agent">>] = "idle"
    BY <2>1, TypesOfInv DEF Parts
  <2> QED
    BY <2>1, <2>2, ReachIsShown
<1>4. CASE ContentIsWritten(t) \/ SkipQc(t)
  <2>1. OnlyTask(t)
    BY <1>4, QuietStepsKeep DEF Kept
  <2>2. /\ pos' = pos /\ shown' = shown /\ stage[t] \in {"content", "media"}
        /\ \E g \in {"media", "leaving"} : stage' = At(stage, t, g)
    BY <1>4 DEF ContentIsWritten, SkipQc, MediaOver, At
  <2>3. stage'[t] \in {"media", "leaving"}
    BY <2>2, TypesOfInv DEF At
  <2> QED
    BY <2>1, <2>2, <2>3, QuietIsShown
<1> QED
  BY <1>1, <1>2, <1>3, <1>4, StartRetryIsShown, LeaveIsShown DEF TaskStep

LEMMA CallsAreShown ==
    ASSUME Inv, SoleTaskIsShown, NEW j \in Jobs, CallMoves(j) \/ CallIsCut(j)
    PROVE  SoleTaskIsShown'
<1>1. OnlyTask(j[1]) /\ j[1] \in Tasks /\ UNCHANGED <<task, stage, pos, sem, shown>>
  BY CallsKeep, JobFacts DEF Kept, CallMoves, CallIsCut
<1> QED
  BY <1>1, QuietIsShown

(* A section that one task works on is shown as queued, running and        *)
(* retried exactly while the task's parts are.                             *)
THEOREM SoleTaskIsAlwaysShown == Spec => []SoleTaskIsShown
<1>1. Init => SoleTaskIsShown
  <2> SUFFICES ASSUME Init PROVE SoleTaskIsShown
    OBVIOUS
  <2>1. Inv
    BY InitInv
  <2>2. /\ \A x \in Resources : shown.queued[x] = {} /\ shown.running[x] = {}
        /\ \A j \in Jobs : pos[j] = "idle"
        /\ \A t \in Tasks : stage[t] = "new"
    BY DEF Init
  <2>3. \A t \in Tasks : t \notin Retries
    BY <2>2, TaskJobs DEF Retries
  <2> QED
    BY <2>2, <2>3, JobFacts DEF SoleTaskIsShown, Resources
<1>2. Inv /\ SoleTaskIsShown /\ [Next]_vars => SoleTaskIsShown'
  <2> SUFFICES ASSUME Inv, SoleTaskIsShown, [Next]_vars PROVE SoleTaskIsShown'
    OBVIOUS
  <2>1. ASSUME NEW j \in Jobs, JobStep(j) \/ CallIsCut(j) PROVE SoleTaskIsShown'
    BY <2>1, GrantedIsShown, EndNodeIsShown, CallsAreShown DEF JobStep
  <2>2. CASE UNCHANGED vars
    BY <2>2 DEF vars, SoleTaskIsShown, Sole, Retries, SectionOf
  <2> QED
    BY <2>1, <2>2, TaskStepIsShown DEF Next, Progress
<1> QED
  BY InvHolds, <1>1, <1>2, PTL DEF Spec
=============================================================================
