------------------------- MODULE SectionGraph_proofs ------------------------
(***************************************************************************)
(* The graph of a run, for every outline, every plan of the sections'      *)
(* media, every policy and every set of verdicts.                          *)
(***************************************************************************)
EXTENDS SectionGraph, WellFoundedInduction, FiniteSetTheorems, SequenceTheorems,
        TLAPS

-----------------------------------------------------------------------------
(* The sections of a set, in order.                                        *)

LEMMA LeastOf ==
    ASSUME NEW T \in SUBSET Nat, T # {}
    PROVE  \E n \in T : \A m \in T : n <= m
<1> DEFINE R == {ss \in Nat \X Nat : ss[1] < ss[2]}
<1>1. IsWellFoundedOn(R, Nat)
  BY NatLessThanWellFounded, Zenon DEF OpToRel
<1>2. \E n \in T : \A m \in T : ~(<<m, n>> \in R)
  <2> HIDE DEF R
  <2> QED
    BY <1>1, WFMin, Zenon
<1>3. \A n, m \in T : ~(<<m, n>> \in R) => n <= m
  OBVIOUS
<1> QED
  BY <1>2, <1>3

LEMMA GreatestOf ==
    ASSUME NEW n \in Nat, NEW S \in SUBSET (1..n), S # {}
    PROVE  \E x \in S : \A y \in S : y <= x
<1> DEFINE U == {u \in Nat : \A y \in S : y <= u}
<1>1. n \in U
  OBVIOUS
<1>2. PICK u \in U : \A v \in U : u <= v
  <2> HIDE DEF U
  <2> QED
    BY <1>1, LeastOf DEF U
<1>3. u \in S
  <2>1. SUFFICES ASSUME u \notin S PROVE FALSE
    OBVIOUS
  <2>2. \A y \in S : y <= u - 1
    BY <2>1
  <2>3. u - 1 \in Nat
    <3>1. PICK y \in S : y <= u
      BY <1>2
    <3> QED
      BY <3>1
  <2> QED
    BY <1>2, <2>2, <2>3
<1> QED
  BY <1>3

LEMMA SubsetIsFinite ==
    ASSUME NEW n \in Nat, NEW S \in SUBSET (1..n)
    PROVE  IsFiniteSet(S) /\ Cardinality(S) \in Nat
<1>1. IsFiniteSet(1..n)
  BY FS_Interval
<1>2. IsFiniteSet(S)
  BY <1>1, FS_Subset
<1> QED
  BY <1>2, FS_CardinalityType

IsAscending(q, S) ==
    /\ q \in [1..Cardinality(S) -> S]
    /\ \A s \in S : \E i \in DOMAIN q : q[i] = s
    /\ \A i, j \in DOMAIN q : i < j => q[i] < q[j]

LEMMA AscendingExists ==
    ASSUME NEW n \in Nat, NEW S \in SUBSET (1..n)
    PROVE  \E q : IsAscending(q, S)
<1>1. \A A \in SUBSET (1..n) : IsFiniteSet(A) /\ Cardinality(A) \in Nat
  BY SubsetIsFinite
<1> DEFINE Bad(A) == ~ \E q : IsAscending(q, A)
           T == {m \in Nat : \E A \in SUBSET (1..n) : Cardinality(A) = m /\ Bad(A)}
<1>2. SUFFICES ASSUME Bad(S) PROVE FALSE
  OBVIOUS
<1>3. Cardinality(S) \in T
  BY <1>1, <1>2
<1>4. PICK m \in T : \A k \in T : m <= k
  <2> HIDE DEF T
  <2> QED
    BY <1>3, LeastOf DEF T
<1>5. PICK A \in SUBSET (1..n) : Cardinality(A) = m /\ Bad(A)
  BY <1>4
<1>6. A # {}
  <2>1. SUFFICES ASSUME A = {} PROVE FALSE
    OBVIOUS
  <2>2. Cardinality(A) = 0
    BY <2>1, FS_EmptySet
  <2>3. IsAscending([i \in 1..0 |-> i], A)
    BY <2>1, <2>2 DEF IsAscending
  <2> QED
    BY <2>3, <1>5
<1>6a. \A y \in A : y \in Nat
  OBVIOUS
<1>7. PICK x \in A : \A y \in A : y <= x
  BY <1>6, GreatestOf
<1> DEFINE B == A \ {x}
<1>8. B \in SUBSET (1..n) /\ Cardinality(B) = m - 1 /\ m - 1 \in Nat
  <2>1. Cardinality(B) = m - 1
    BY <1>1, <1>5, FS_RemoveElement
  <2> QED
    BY <2>1, <1>1
<1>9. PICK q : IsAscending(q, B)
  <2>1. m - 1 \notin T
    BY <1>4, <1>8
  <2> QED
    BY <2>1, <1>8
<1>10. q \in [1..(m - 1) -> B]
  BY <1>8, <1>9 DEF IsAscending
<1> DEFINE w == [i \in 1..m |-> IF i = m THEN x ELSE q[i]]
<1>11. IsAscending(w, A)
  <2>1. w \in [1..m -> A]
    BY <1>10, <1>8
  <2>2. \A s \in A : \E i \in DOMAIN w : w[i] = s
    <3>1. TAKE s \in A
    <3>2. CASE s = x
      BY <3>2, <1>8
    <3>3. CASE s \in B
      <4>1. PICK i \in 1..(m - 1) : q[i] = s
        BY <3>3, <1>9, <1>10 DEF IsAscending
      <4> QED
        BY <4>1, <1>8
    <3> QED
      BY <3>2, <3>3
  <2>3. \A i, j \in DOMAIN w : i < j => w[i] < w[j]
    <3>1. TAKE i, j \in DOMAIN w
    <3>2. HAVE i < j
    <3>3. i \in 1..(m - 1)
      BY <3>2, <1>8
    <3>4. w[i] = q[i] /\ q[i] \in B
      BY <3>3, <1>10, <1>8
    <3>5. CASE j = m
      <4>1. w[j] = x
        BY <3>5
      <4>2. q[i] <= x /\ q[i] # x
        BY <3>4, <1>7
      <4>3. q[i] \in Nat /\ x \in Nat
        BY <3>4, <1>6a
      <4> QED
        BY <4>1, <4>2, <4>3, <3>4
    <3>6. CASE j # m
      <4>1. j \in 1..(m - 1) /\ w[j] = q[j]
        BY <3>6, <1>8
      <4> QED
        BY <4>1, <3>2, <3>3, <3>4, <1>9, <1>10 DEF IsAscending
    <3> QED
      BY <3>5, <3>6
  <2> HIDE DEF w
  <2> QED
    BY <2>1, <2>2, <2>3, <1>5 DEF IsAscending
<1> QED
  BY <1>5, <1>11

LEMMA AscendingIs ==
    ASSUME NEW n \in Nat, NEW S \in SUBSET (1..n)
    PROVE  IsAscending(Ascending(S), S) /\ Cardinality(S) \in Nat
<1>1. PICK q : IsAscending(q, S)
  BY AscendingExists
<1>2. IsAscending(Ascending(S), S)
  BY <1>1 DEF IsAscending, Ascending
<1> QED
  BY <1>2, SubsetIsFinite

-----------------------------------------------------------------------------
(* What the nodes leave of a section's record.                             *)

FrameSet == [Kinds -> {"none", "ready", "failed"}]

(* What was recorded of a section is not taken back.                       *)
Follows(a, b) ==
    /\ a.planned => b.planned
    /\ a.partial => b.partial
    /\ a.assembled => b.assembled
    /\ a.failed # "no" => b.failed # "no"

(* An error of the schema is never taken back.                             *)
KeepsErrors(a, b) == b.schema # a.schema => b.schema # "none"

Open(s, need, blocks) ==
    {k \in Pending(s, need) :
        ~Exhausted(s, k) /\ (blocks \intersect MediaBlocks = {}
                             \/ BlockOf[k] \in blocks \intersect MediaBlocks)}

LEMMA RankIs == Rank["svg"] = 1 /\ Rank["image"] = 2 /\ Rank["simulation"] = 3
BY DEF Rank

LEMMA FirstIs ==
    ASSUME NEW K \in SUBSET Kinds, K # {}
    PROVE  FirstOf(K) \in K /\ \A j \in K : Rank[FirstOf(K)] <= Rank[j]
<1>1. \E k \in K : \A j \in K : Rank[k] <= Rank[j]
  <2>1. CASE "svg" \in K
    <3>1. \A j \in K : Rank["svg"] <= Rank[j]
      BY RankIs DEF Kinds
    <3> QED
      BY <2>1, <3>1
  <2>2. CASE "svg" \notin K /\ "image" \in K
    <3>1. \A j \in K : j \in {"image", "simulation"}
      BY <2>2 DEF Kinds
    <3>2. \A j \in K : Rank["image"] <= Rank[j]
      BY <3>1, RankIs
    <3> QED
      BY <2>2, <3>2
  <2>3. CASE K = {"simulation"}
    BY <2>3, RankIs
  <2> QED
    BY <2>1, <2>2, <2>3 DEF Kinds
<1> QED
  BY <1>1 DEF FirstOf

LEMMA LastIs ==
    ASSUME NEW K \in SUBSET Kinds, K # {}
    PROVE  LastOf(K) \in K
<1>1. \E k \in K : \A j \in K : Rank[j] <= Rank[k]
  <2>1. CASE "simulation" \in K
    <3>1. \A j \in K : Rank[j] <= Rank["simulation"]
      BY RankIs DEF Kinds
    <3> QED
      BY <2>1, <3>1
  <2>2. CASE "simulation" \notin K /\ "image" \in K
    <3>1. \A j \in K : j \in {"svg", "image"}
      BY <2>2 DEF Kinds
    <3>2. \A j \in K : Rank[j] <= Rank["image"]
      BY <3>1, RankIs
    <3> QED
      BY <2>2, <3>2
  <2>3. CASE K = {"svg"}
    BY <2>3, RankIs
  <2> QED
    BY <2>1, <2>2, <2>3 DEF Kinds
<1> QED
  BY <1>1 DEF LastOf

LEMMA NextRetryIs ==
    ASSUME NEW s, NEW need \in SUBSET Kinds, NEW blocks
    PROVE  IF Open(s, need, blocks) = {} THEN NextRetry(s, need, blocks) = NoBlock
           ELSE /\ NextRetry(s, need, blocks) \in Open(s, need, blocks)
                /\ \A j \in Open(s, need, blocks) :
                       Rank[NextRetry(s, need, blocks)] <= Rank[j]
<1>1. NextRetry(s, need, blocks) =
          IF Open(s, need, blocks) = {} THEN NoBlock ELSE FirstOf(Open(s, need, blocks))
  BY DEF NextRetry, Open
<1>2. Open(s, need, blocks) \in SUBSET Kinds
  BY DEF Open, Pending
<1>3. CASE Open(s, need, blocks) # {}
  BY <1>1, <1>2, <1>3, FirstIs
<1> QED
  BY <1>1, <1>3

LEMMA PendingIs ==
    ASSUME NEW s, NEW need \in SUBSET Kinds
    PROVE  Pending(s, need) \in SUBSET need
BY DEF Pending

LEMMA SetFrameTyped ==
    ASSUME NEW s \in SectionRecord, NEW f \in FrameSet
    PROVE  [s EXCEPT !.frame = f] \in SectionRecord
BY DEF SectionRecord, FrameSet

(* An executor changes its own frame; the one of simulations with it drops *)
(* the others.                                                             *)
LEMMA ExecutedIs ==
    ASSUME NEW s \in SectionRecord, NEW k \in Kinds, NEW r \in {"none", "ready", "failed"}
    PROVE  \E f \in FrameSet :
              /\ Executed(s, k, r) = [s EXCEPT !.frame = f]
              /\ r = "none" => f = s.frame
              /\ r # "none" => /\ f[k] = r
                               /\ \A j \in Kinds \ {k} :
                                    f[j] = IF k = "simulation" THEN "none" ELSE s.frame[j]
<1>1. s.frame \in FrameSet /\ s = [s EXCEPT !.frame = s.frame]
  BY DEF SectionRecord, FrameSet
<1>2. CASE r = "none"
  BY <1>1, <1>2 DEF Executed
<1>3. CASE r # "none"
  <2> DEFINE kept == IF k = "simulation" THEN [j \in Kinds |-> "none"] ELSE s.frame
             f == [kept EXCEPT ![k] = r]
  <2>1. kept \in FrameSet
    BY <1>1 DEF FrameSet
  <2>2. f \in FrameSet /\ f[k] = r /\ \A j \in Kinds \ {k} : f[j] = kept[j]
    <3> HIDE DEF kept
    <3> QED
      BY <2>1 DEF FrameSet
  <2>3. \A j \in Kinds \ {k} : kept[j] = IF k = "simulation" THEN "none" ELSE s.frame[j]
    OBVIOUS
  <2>4. Executed(s, k, r) = [s EXCEPT !.frame = f]
    BY <1>3 DEF Executed
  <2> HIDE DEF f, kept
  <2> QED
    BY <1>3, <2>2, <2>3, <2>4
<1> QED
  BY <1>2, <1>3

LEMMA ExecuteAllIs ==
    ASSUME NEW s \in SectionRecord, NEW slots \in SUBSET Kinds,
           NEW e \in ExecuteAll(s, slots)
    PROVE  \E f \in FrameSet : e = [s EXCEPT !.frame = f]
<1> DEFINE told(m) == {k \in slots : m[k] # "none"}
<1>1. PICK made \in [slots -> {"ready", "failed", "none"}] :
          e = IF told(made) = {} THEN s
              ELSE Executed(s, LastOf(told(made)), made[LastOf(told(made))])
  BY DEF ExecuteAll
<1>2. CASE told(made) = {}
  BY <1>1, <1>2 DEF SectionRecord, FrameSet
<1>3. CASE told(made) # {}
  <2>1. LastOf(told(made)) \in told(made)
    BY <1>3, LastIs
  <2>2. PICK k \in slots : e = Executed(s, k, made[k])
    BY <1>1, <1>3, <2>1
  <2> QED
    BY <2>2, ExecutedIs
<1> QED
  BY <1>2, <1>3

(* Assembly and quality control leave the content, the frames and their    *)
(* counts alone.                                                           *)
SameWork(a, b) ==
    /\ b.content = a.content /\ b.schema = a.schema /\ b.planned = a.planned
    /\ b.frame = a.frame /\ b.tries = a.tries /\ b.reruns = a.reruns

LEMMA JudgedIs ==
    ASSUME NEW s \in SectionRecord, NEW need \in SUBSET Kinds, NEW v \in Verdicts
    PROVE  /\ Judged(s, need, v) \in SectionRecord
           /\ SameWork(s, Judged(s, need, v)) /\ Follows(s, Judged(s, need, v))
<1> DEFINE media == v \intersect MediaBlocks # {}
           ends  == media /\ NextRetry(s, need, v) = NoBlock
           asks  == ~media /\ Cardinality(v) = 1 /\ s.reruns < MaxRerenders
           block == IF asks THEN CHOOSE b \in v : TRUE ELSE NoBlock
           o == [s EXCEPT !.report = v,
                          !.request = block,
                          !.failed = IF ends THEN "terminal" ELSE @,
                          !.life = IF ends THEN "failed" ELSE @,
                          !.pending = IF ends THEN FALSE ELSE @]
<1>1. block \in (UNION Verdicts) \union {NoBlock}
  <2>1. Cardinality({}) = 0
    BY FS_EmptySet
  <2>2. CASE asks
    <3>1. v # {}
      BY <2>1, <2>2
    <3>2. (CHOOSE b \in v : TRUE) \in v
      BY <3>1
    <3> QED
      BY <2>2, <3>2
  <2> QED
    BY <2>2
<1>2. ends \in BOOLEAN
  OBVIOUS
<1>3. Judged(s, need, v) = o
  BY DEF Judged
<1> HIDE DEF ends, asks, media, block
<1>4. o \in SectionRecord
  <2> DEFINE Reports  == Verdicts \union {{}, NoReport}
             Requests == (UNION Verdicts) \union {NoBlock}
             Frames   == [Kinds -> {"none", "ready", "failed"}]
             Tries    == [Kinds -> 0..MaxMediaFrameRetries]
             Records  ==
               [content : {"none", "good", "field", "many"}, schema : {"none", "field", "many"},
                planned : BOOLEAN, frame : Frames, tries : Tries,
                partial : BOOLEAN, pending : BOOLEAN, life : {"none", "waiting", "final", "failed"},
                assembled : BOOLEAN, failed : {"no", "retryable", "terminal"},
                report : Reports, request : Requests, reruns : 0..MaxRerenders]
  <2>1. SectionRecord = Records
    BY DEF SectionRecord
  <2>2. v \in Reports /\ block \in Requests /\ s \in Records
    BY <1>1, <2>1
  <2> HIDE DEF Reports, Requests, Frames, Tries
  <2>3. o \in Records
    BY <1>2, <2>2
  <2> QED
    BY <2>1, <2>3
<1>5. SameWork(s, o) /\ Follows(s, o)
  BY <1>2 DEF SectionRecord, SameWork, Follows
<1> QED
  BY <1>3, <1>4, <1>5

LEMMA EndedIs ==
    ASSUME NEW s \in SectionRecord, NEW how \in {"retryable", "terminal"}
    PROVE  LET o == [s EXCEPT !.failed = how, !.life = "failed", !.pending = FALSE]
           IN  /\ o \in SectionRecord
               /\ SameWork(s, o) /\ Follows(s, o) /\ o.failed = how
               /\ o.assembled = s.assembled /\ o.partial = s.partial
               /\ o.report = s.report /\ o.request = s.request
<1> DEFINE o == [s EXCEPT !.failed = how, !.life = "failed", !.pending = FALSE]
<1>1. o \in SectionRecord
  BY DEF SectionRecord
<1>2. SameWork(s, o) /\ Follows(s, o) /\ o.failed = how
  BY DEF SectionRecord, SameWork, Follows
<1>3. /\ o.assembled = s.assembled /\ o.partial = s.partial
      /\ o.report = s.report /\ o.request = s.request
  BY DEF SectionRecord
<1> QED
  BY <1>1, <1>2, <1>3

LEMMA FinishIs ==
    ASSUME NEW s \in SectionRecord, NEW p \in Plans, NEW o \in Finish(s, p)
    PROVE  /\ o \in SectionRecord
           /\ SameWork(s, o) /\ Follows(s, o)
           /\ ~o.assembled => o.report = s.report /\ o.request = s.request
           /\ ~o.assembled /\ s.content = "good" =>
                 o.partial /\ (Pending(s, p.need) # {} \/ AsksForOwnVisual(p))
<1> DEFINE Fits(a) ==
              /\ a \in SectionRecord
              /\ SameWork(s, a) /\ Follows(s, a)
              /\ ~a.assembled => a.report = s.report /\ a.request = s.request
              /\ ~a.assembled /\ s.content = "good" =>
                    a.partial /\ (Pending(s, p.need) # {} \/ AsksForOwnVisual(p))
<1>1. p.need \in SUBSET Kinds
  BY DEF Plans
<1>2. PICK a \in Assemble(s, p) :
          o \in IF a.assembled THEN Judge(a, p.need)
                ELSE IF a.pending /\ a.life = "waiting" THEN {a} ELSE {ShortCircuit(a)}
  BY DEF Finish
<1>3. Fits(Waiting(s)) \/ ~(Pending(s, p.need) # {} \/ AsksForOwnVisual(p))
  <2>1. Waiting(s) \in SectionRecord
    BY DEF Waiting, SectionRecord
  <2>2. SameWork(s, Waiting(s)) /\ Follows(s, Waiting(s)) /\ Waiting(s).partial
        /\ Waiting(s).report = s.report /\ Waiting(s).request = s.request
    BY DEF Waiting, SectionRecord, SameWork, Follows
  <2> QED
    BY <2>1, <2>2
<1>4. Fits(Assembled(s))
  <2>1. Assembled(s) \in SectionRecord
    BY DEF Assembled, SectionRecord
  <2>2. SameWork(s, Assembled(s)) /\ Follows(s, Assembled(s)) /\ Assembled(s).assembled
    BY DEF Assembled, SectionRecord, SameWork, Follows
  <2> QED
    BY <2>1, <2>2
<1>5. Fits(s) \/ Complete(s)
  BY DEF SameWork, Follows, Complete
<1>6. Fits(a)
  BY <1>2, <1>3, <1>4, <1>5 DEF Assemble
<1>7. CASE a.assembled
  <2>1. CASE o = a
    BY <1>6, <2>1
  <2>2. CASE o # a
    <3>1. PICK v \in Verdicts : o = Judged(a, p.need, v)
      BY <1>2, <1>7, <2>2 DEF Judge
    <3>2. o \in SectionRecord /\ SameWork(a, o) /\ Follows(a, o)
      BY <1>1, <1>6, <3>1, JudgedIs
    <3>3. SameWork(s, o) /\ Follows(s, o) /\ o.assembled
      BY <1>6, <1>7, <3>2 DEF SameWork, Follows
    <3> QED
      BY <3>2, <3>3
  <2> QED
    BY <2>1, <2>2
<1>8. CASE ~a.assembled /\ o = a
  BY <1>6, <1>8
<1>9. CASE ~a.assembled /\ o = ShortCircuit(a)
  <2>1. a \in SectionRecord
    BY <1>6
  <2>2. /\ o \in SectionRecord /\ SameWork(a, o) /\ Follows(a, o)
        /\ o.assembled = a.assembled /\ o.partial = a.partial
        /\ o.report = a.report /\ o.request = a.request
    <3>1. CASE a.failed # "no"
      BY <1>9, <2>1, <3>1 DEF ShortCircuit, SameWork, Follows
    <3>2. CASE a.failed = "no"
      BY <1>9, <2>1, <3>2, EndedIs DEF ShortCircuit
    <3> QED
      BY <3>1, <3>2
  <2>3. SameWork(s, o) /\ Follows(s, o)
    BY <1>6, <2>2 DEF SameWork, Follows
  <2> QED
    BY <1>6, <1>9, <2>1, <2>2, <2>3
<1> QED
  BY <1>2, <1>7, <1>8, <1>9

(* A section's content is counted only against a request.                  *)
MayRun(s) == s.request = NoBlock \/ s.reruns < MaxRerenders

LEMMA CountedIs ==
    ASSUME NEW s \in SectionRecord, MayRun(s)
    PROVE  Reran(s).reruns \in 0..MaxRerenders
<1>1. s.reruns \in Nat /\ s.reruns <= MaxRerenders /\ s.reruns + 1 \in Nat
  BY MaxRerendersAssumption DEF SectionRecord
<1>2. Reran(s).reruns = IF s.request = NoBlock THEN s.reruns ELSE s.reruns + 1
  BY DEF Reran, SectionRecord
<1> QED
  BY <1>1, <1>2, MaxRerendersAssumption DEF MayRun

LEMMA ValidIs ==
    ASSUME NEW s \in SectionRecord, s.content # "none"
    PROVE  /\ Valid(s) \in SectionRecord
           /\ Follows(s, Valid(s)) /\ KeepsErrors(s, Valid(s))
           /\ Valid(s).content = s.content
           /\ Valid(s).schema = "none" => s.content = "good"
           /\ Valid(s).planned = s.planned /\ Valid(s).partial = s.partial
           /\ Valid(s).report = s.report /\ Valid(s).request = s.request
           /\ Valid(s).assembled = s.assembled
<1>1. CASE s.content = "good"
  <2>1. Valid(s) = [s EXCEPT !.schema = s.schema]
    BY <1>1 DEF Valid
  <2> QED
    BY <2>1, <1>1 DEF SectionRecord, Follows, KeepsErrors
<1>2. CASE s.content # "good"
  <2>1. Valid(s) = [s EXCEPT !.schema = s.content] /\ s.content \in {"field", "many"}
    BY <1>2 DEF Valid, SectionRecord
  <2> QED
    BY <2>1 DEF SectionRecord, Follows, KeepsErrors
<1> QED
  BY <1>1, <1>2

(* What writing the content again changes of what was known of a section.  *)
Rewrites(s, w) ==
    /\ w \in SectionRecord
    /\ Follows(s, w) /\ KeepsErrors(s, w)
    /\ w.planned = s.planned /\ w.partial = s.partial /\ w.assembled = s.assembled
    /\ w.report = s.report /\ w.request = s.request

LEMMA WriteIs ==
    ASSUME NEW s \in SectionRecord, MayRun(s), NEW w \in Write(s)
    PROVE  /\ Rewrites(s, w)
           /\ w.content = "none" => w.failed # "no"
           /\ w.content # "none" /\ w.schema = "none" => w.content = "good"
<1> DEFINE n == Reran(s).reruns
           counted == [s EXCEPT !.reruns = n]
           missed == [counted EXCEPT !.failed = "retryable"]
<1>1. n \in 0..MaxRerenders
  BY CountedIs
<1>2. Reran(s) = counted
  BY DEF Reran, SectionRecord
<1> HIDE DEF n
<1>3. Rewrites(s, counted) /\ counted.content = s.content
  BY <1>1 DEF SectionRecord, Follows, KeepsErrors, Rewrites
<1>4. \A c \in Drafts : LET d == [counted EXCEPT !.content = c]
                        IN  Rewrites(s, d) /\ d.content = c
  BY <1>1 DEF SectionRecord, Follows, KeepsErrors, Rewrites, Drafts
<1>5. Rewrites(s, missed) /\ missed.failed # "no" /\ missed.content = s.content
  <2> HIDE DEF counted
  <2>1. missed \in SectionRecord
    BY <1>3 DEF Rewrites, SectionRecord
  <2> QED
    BY <1>3, <2>1 DEF Rewrites, SectionRecord, Follows, KeepsErrors
<1>6. \A d : Rewrites(s, d) /\ d.content # "none" =>
                /\ Rewrites(s, Valid(d)) /\ Valid(d).content # "none"
                /\ Valid(d).schema = "none" => Valid(d).content = "good"
  <2>1. TAKE d
  <2>2. HAVE Rewrites(s, d) /\ d.content # "none"
  <2>3. d \in SectionRecord
    BY <2>2 DEF Rewrites
  <2> QED
    BY <2>2, <2>3, ValidIs DEF Rewrites, Follows, KeepsErrors
<1>7. \/ \E c \in Drafts : w = Valid([counted EXCEPT !.content = c])
      \/ s.content = "none" /\ w = missed
      \/ s.content # "none" /\ w = Valid(missed)
  BY <1>2 DEF Write, Missed
<1> HIDE DEF counted, missed
<1>8. CASE \E c \in Drafts : w = Valid([counted EXCEPT !.content = c])
  <2>1. PICK c \in Drafts : w = Valid([counted EXCEPT !.content = c])
    BY <1>8
  <2>2. Rewrites(s, [counted EXCEPT !.content = c])
        /\ [counted EXCEPT !.content = c].content # "none"
    BY <1>4 DEF Drafts
  <2> QED
    BY <1>6, <2>1, <2>2
<1>9. CASE s.content = "none" /\ w = missed
  BY <1>5, <1>9
<1>10. CASE s.content # "none" /\ w = Valid(missed)
  BY <1>5, <1>6, <1>10
<1> QED
  BY <1>7, <1>8, <1>9, <1>10

LEMMA SamePending ==
    ASSUME NEW a, NEW b, NEW need, SameWork(a, b)
    PROVE  Pending(a, need) = Pending(b, need) /\ Blocked(a, need) = Blocked(b, need)
BY DEF SameWork, Pending, Blocked, Exhausted

(* What is known of a section that was never assembled: a plan comes with  *)
(* valid content and a partial snapshot, a report with an assembly; and    *)
(* what keeps it waiting is a required frame or a visual of its own.       *)
RecordOK(r, p) ==
    ~r.assembled =>
        /\ r.report = NoReport /\ r.request = NoBlock
        /\ r.partial <=> r.planned
        /\ r.planned => (r.content = "good" /\ r.schema = "none")
        /\ (r.planned /\ r.failed = "no") =>
              (Pending(r, p.need) # {} \/ AsksForOwnVisual(p))

(* A section that has been written has something to show for it.           *)
Accounted(r) == r.partial \/ r.assembled \/ r.failed # "no" \/ r.schema # "none"

LEMMA SnapshotIs ==
    ASSUME NEW s \in SectionRecord, NEW need
    PROVE  /\ Snapshot(s, need) \in SectionRecord
           /\ SameWork(s, Snapshot(s, need)) /\ Follows(s, Snapshot(s, need))
           /\ Snapshot(s, need).partial
           /\ Snapshot(s, need).assembled = s.assembled
           /\ Snapshot(s, need).report = s.report
           /\ Snapshot(s, need).request = s.request
<1> DEFINE p == Pending(s, need) # {}
<1>1. p \in BOOLEAN
  OBVIOUS
<1>2. Snapshot(s, need) = [s EXCEPT !.partial = TRUE, !.life = "waiting", !.pending = p]
  BY DEF Snapshot
<1> HIDE DEF p
<1>3. Snapshot(s, need) \in SectionRecord
  BY <1>1, <1>2 DEF SectionRecord
<1> QED
  BY <1>2, <1>3 DEF SectionRecord, SameWork, Follows

LEMMA NewSectionIs ==
    /\ NewSection \in SectionRecord
    /\ MayRun(NewSection) /\ \A p : RecordOK(NewSection, p)
    /\ ~NewSection.planned /\ ~NewSection.assembled /\ ~NewSection.partial
    /\ NewSection.schema = "none" /\ NewSection.failed = "no"
    /\ NewSection.report = NoReport /\ NewSection.request = NoBlock
<1>1. NewSection \in SectionRecord
  BY MaxRerendersAssumption DEF NewSection, SectionRecord, MaxMediaFrameRetries
<1> QED
  BY <1>1 DEF NewSection, MayRun, RecordOK

LEMMA ProcessIs ==
    ASSUME NEW s \in SectionRecord, MayRun(s), NEW p \in Plans,
           NEW o \in ProcessSection(s, p)
    PROVE  /\ o \in SectionRecord
           /\ Follows(s, o) /\ KeepsErrors(s, o)
           /\ o.partial \/ o.failed # "no" \/ o.schema # "none"
           /\ s = NewSection => RecordOK(o, p)
<1>1. p.need \in SUBSET Kinds /\ p.slots \in SUBSET Kinds
  BY DEF Plans
<1>2. PICK w \in Write(s) :
          o \in IF w.content = "none" \/ w.schema # "none" THEN {w}
                ELSE UNION {Finish(Snapshot(e, p.need), p) :
                               e \in ExecuteAll(Snapshot(Plan(w), p.need), p.slots)}
  BY DEF ProcessSection
<1>3. /\ Rewrites(s, w)
      /\ w.content = "none" => w.failed # "no"
      /\ w.content # "none" /\ w.schema = "none" => w.content = "good"
  BY WriteIs
<1>4. w \in SectionRecord
  BY <1>3 DEF Rewrites
<1>5. CASE w.content = "none" \/ w.schema # "none"
  <2>1. o = w
    BY <1>2, <1>5
  <2>2. s = NewSection => RecordOK(o, p)
    BY <1>3, <2>1, NewSectionIs DEF Rewrites, RecordOK
  <2> QED
    BY <1>3, <1>5, <2>1, <2>2 DEF Rewrites
<1>6. CASE w.content = "good" /\ w.schema = "none"
  <2> DEFINE y == Plan(w)
             x == Snapshot(y, p.need)
  <2>1. /\ y \in SectionRecord /\ Follows(w, y) /\ y.schema = w.schema
        /\ y.content = w.content /\ y.planned /\ y.assembled = w.assembled
        /\ y.report = w.report /\ y.request = w.request
    <3>1. y = [w EXCEPT !.planned = TRUE]
      BY DEF Plan
    <3> HIDE DEF y
    <3>2. y \in SectionRecord
      BY <1>4, <3>1 DEF SectionRecord
    <3> QED
      BY <1>4, <3>1, <3>2 DEF SectionRecord, Follows
  <2>2. PICK e \in ExecuteAll(x, p.slots) : o \in Finish(Snapshot(e, p.need), p)
    BY <1>2, <1>6
  <2> HIDE DEF y
  <2>3. /\ x \in SectionRecord /\ SameWork(y, x) /\ Follows(y, x)
        /\ x.assembled = y.assembled /\ x.report = y.report /\ x.request = y.request
    BY <2>1, SnapshotIs
  <2> HIDE DEF x
  <2>4. PICK f \in FrameSet : e = [x EXCEPT !.frame = f]
    BY <1>1, <2>2, <2>3, ExecuteAllIs
  <2>5. /\ e \in SectionRecord /\ Follows(x, e) /\ e.schema = x.schema
        /\ e.content = x.content /\ e.planned = x.planned
        /\ e.assembled = x.assembled /\ e.report = x.report /\ e.request = x.request
    BY <2>3, <2>4 DEF SectionRecord, FrameSet, Follows
  <2> DEFINE z == Snapshot(e, p.need)
  <2>6. /\ z \in SectionRecord /\ SameWork(e, z) /\ Follows(e, z) /\ z.partial
        /\ z.assembled = e.assembled /\ z.report = e.report /\ z.request = e.request
    BY <2>5, SnapshotIs
  <2>7. o \in Finish(z, p)
    BY <2>2
  <2> HIDE DEF z
  <2>8. /\ o \in SectionRecord
        /\ SameWork(z, o) /\ Follows(z, o)
        /\ ~o.assembled => o.report = z.report /\ o.request = z.request
        /\ ~o.assembled /\ z.content = "good" =>
              o.partial /\ (Pending(z, p.need) # {} \/ AsksForOwnVisual(p))
    BY <2>6, <2>7, FinishIs
  <2>9. /\ z.content = "good" /\ z.schema = w.schema /\ z.planned
        /\ z.report = w.report /\ z.request = w.request
    BY <1>6, <2>1, <2>3, <2>5, <2>6 DEF SameWork
  <2>10. Follows(s, o) /\ KeepsErrors(s, o)
    <3>1. Follows(s, w) /\ KeepsErrors(s, w)
      BY <1>3 DEF Rewrites
    <3>2. Follows(w, z)
      BY <2>1, <2>3, <2>5, <2>6 DEF Follows
    <3>3. o.schema = w.schema
      BY <2>8, <2>9 DEF SameWork
    <3> QED
      BY <2>8, <3>1, <3>2, <3>3 DEF Follows, KeepsErrors
  <2>11. o.partial
    BY <2>6, <2>8 DEF Follows
  <2>12. ASSUME s = NewSection PROVE RecordOK(o, p)
    <3>1. w.report = NoReport /\ w.request = NoBlock
      BY <1>3, <2>12, NewSectionIs DEF Rewrites
    <3>2. Pending(o, p.need) = Pending(z, p.need)
      BY <2>8, SamePending
    <3>3. o.content = "good" /\ o.schema = "none" /\ o.planned
      BY <1>6, <2>8, <2>9 DEF SameWork
    <3> QED
      BY <2>8, <2>9, <2>11, <3>1, <3>2, <3>3 DEF RecordOK
  <2> QED
    BY <2>8, <2>10, <2>11, <2>12
<1> QED
  BY <1>3, <1>5, <1>6

LEMMA RetryFieldIs ==
    ASSUME NEW s \in SectionRecord, MayRun(s), NEW p \in Plans,
           NEW o \in RetryField(s, p)
    PROVE  /\ o \in SectionRecord
           /\ Follows(s, o) /\ KeepsErrors(s, o)
<1> DEFINE n == Reran(s).reruns
<1>1. PICK r \in Regenerate(s) : o \in Finish([r EXCEPT !.reruns = n], p)
  BY DEF RetryField
<1>2. n \in 0..MaxRerenders
  BY CountedIs
<1> HIDE DEF n
<1>3. /\ r \in SectionRecord /\ Follows(s, r) /\ r.schema = s.schema
  <2>1. CASE r = s
    BY <2>1 DEF Follows
  <2>2. CASE r # s
    <3>1. PICK c \in {"good", "field", "many"} :
              r = [s EXCEPT !.assembled = TRUE, !.content = c]
      BY <1>1, <2>2 DEF Regenerate
    <3> QED
      BY <3>1 DEF SectionRecord, Follows
  <2> QED
    BY <2>1, <2>2
<1> DEFINE x == [r EXCEPT !.reruns = n]
<1>4. x \in SectionRecord /\ Follows(r, x) /\ x.schema = r.schema
  BY <1>2, <1>3 DEF SectionRecord, Follows
<1>5. o \in Finish(x, p)
  BY <1>1
<1> HIDE DEF x
<1>6. o \in SectionRecord /\ SameWork(x, o) /\ Follows(x, o)
  BY <1>4, <1>5, FinishIs
<1> QED
  BY <1>3, <1>4, <1>6 DEF Follows, SameWork, KeepsErrors

(* A retry spends the frame's only one.  Unless it ends the section, what  *)
(* is required and was tried before the task is ready when it is done.     *)
Retried(s, p, k, o) ==
    /\ o \in SectionRecord
    /\ Follows(s, o)
    /\ o.content = s.content /\ o.schema = s.schema /\ o.planned = s.planned
    /\ o.tries = [s.tries EXCEPT ![k] = 1]
    /\ \/ k # "svg" /\ o.frame = s.frame
       \/ /\ o.frame[k] # "none"
          /\ \A j \in Kinds \ {k} :
                o.frame[j] = IF k = "simulation" THEN "none" ELSE s.frame[j]
    /\ ~o.assembled => o.report = s.report /\ o.request = s.request
    /\ ~o.assembled /\ s.content = "good" =>
          o.partial /\ (Pending(o, p.need) # {} \/ AsksForOwnVisual(p))
    /\ o.failed = "no" /\ s.planned =>
          \A j \in p.need : o.frame[j] = "ready" \/ s.tries[j] = 0

LEMMA RetryFrameIs ==
    ASSUME NEW s \in SectionRecord, NEW p \in Plans, NEW k \in p.need, s.tries[k] = 0,
           NEW o \in RetryFrame(s, p, k)
    PROVE  Retried(s, p, k, o)
<1>1. p.need \in SUBSET Kinds /\ k \in Kinds
  BY DEF Plans
<1> DEFINE x == Tried(s, k)
           BlockedNow(f) == Blocked([f EXCEPT !.tries = s.tries], p.need) # {}
<1>e. PICK e \in Execute(x, k) :
          \E f \in Finish(e, p) :
             o = IF BlockedNow(f)
                 THEN [f EXCEPT !.failed = "terminal", !.life = "failed", !.pending = FALSE]
                 ELSE f
  BY DEF RetryFrame
<1>2. PICK f \in Finish(e, p) :
          o = IF BlockedNow(f)
              THEN [f EXCEPT !.failed = "terminal", !.life = "failed", !.pending = FALSE]
              ELSE f
  BY <1>e
<1>3. s.tries \in [Kinds -> 0..1] /\ [s.tries EXCEPT ![k] = 1] \in [Kinds -> 0..1]
  BY <1>1 DEF SectionRecord, MaxMediaFrameRetries
<1>4. x = [s EXCEPT !.tries = [s.tries EXCEPT ![k] = 1]]
  <2>1. s.tries[k] + 1 = 1
    OBVIOUS
  <2>2. x = [s EXCEPT !.tries = [s.tries EXCEPT ![k] = s.tries[k] + 1]]
    BY DEF Tried
  <2> QED
    BY <2>1, <2>2
<1>5. /\ x \in SectionRecord /\ x.tries = [s.tries EXCEPT ![k] = 1]
      /\ Follows(s, x) /\ x.content = s.content /\ x.schema = s.schema
      /\ x.planned = s.planned /\ x.frame = s.frame
      /\ x.report = s.report /\ x.request = s.request
  BY <1>3, <1>4 DEF SectionRecord, MaxMediaFrameRetries, Follows
<1> HIDE DEF x
<1>6. PICK r \in Makes(k) : e = Executed(x, k, r)
  BY <1>e DEF Execute
<1>7. r \in {"none", "ready", "failed"} /\ (k = "svg" => r # "none")
  BY <1>1, <1>6 DEF Kinds, Makes, SvgResults, ImageResults, SimulationResults
<1>8. PICK g \in FrameSet :
         /\ e = [x EXCEPT !.frame = g]
         /\ r = "none" => g = x.frame
         /\ r # "none" => /\ g[k] = r
                          /\ \A j \in Kinds \ {k} :
                                g[j] = IF k = "simulation" THEN "none" ELSE x.frame[j]
  BY <1>1, <1>5, <1>6, <1>7, ExecutedIs
<1>9. /\ e \in SectionRecord /\ Follows(x, e)
      /\ e.tries = x.tries /\ e.content = x.content /\ e.schema = x.schema
      /\ e.planned = x.planned /\ e.frame = g
      /\ e.report = x.report /\ e.request = x.request
  BY <1>5, <1>8 DEF SectionRecord, FrameSet, Follows
<1>10. /\ f \in SectionRecord
       /\ SameWork(e, f) /\ Follows(e, f)
       /\ ~f.assembled => f.report = e.report /\ f.request = e.request
       /\ ~f.assembled /\ e.content = "good" =>
             f.partial /\ (Pending(e, p.need) # {} \/ AsksForOwnVisual(p))
  BY <1>2, <1>9, FinishIs
<1> HIDE DEF BlockedNow
<1>11. /\ o \in SectionRecord
       /\ SameWork(f, o) /\ Follows(f, o)
       /\ o.assembled = f.assembled /\ o.report = f.report
       /\ o.request = f.request /\ o.partial = f.partial
       /\ o.failed = "no" => ~BlockedNow(f)
  <2>1. CASE BlockedNow(f)
    <3>1. o = [f EXCEPT !.failed = "terminal", !.life = "failed", !.pending = FALSE]
      BY <1>2, <2>1
    <3>2. f \in SectionRecord
      BY <1>10
    <3>3. o \in SectionRecord
      BY <3>1, <3>2, EndedIs
    <3> QED
      BY <3>1, <3>2, <3>3, EndedIs
  <2>2. CASE ~BlockedNow(f)
    BY <1>2, <1>10, <2>2 DEF SameWork, Follows
  <2> QED
    BY <2>1, <2>2
<1>12. /\ o.content = s.content /\ o.schema = s.schema /\ o.planned = s.planned
       /\ o.tries = [s.tries EXCEPT ![k] = 1] /\ o.frame = g
  BY <1>5, <1>9, <1>10, <1>11 DEF SameWork
<1>13. Follows(s, o)
  BY <1>5, <1>9, <1>10, <1>11 DEF Follows
<1>14. Pending(o, p.need) = Pending(e, p.need)
  <2>1. SameWork(e, o)
    BY <1>10, <1>11 DEF SameWork
  <2> QED
    BY <2>1, SamePending
<1>15. ASSUME o.failed = "no", s.planned, NEW j \in p.need
       PROVE  o.frame[j] = "ready" \/ s.tries[j] = 0
  <2> DEFINE h == [f EXCEPT !.tries = s.tries]
  <2>1. h.planned /\ h.frame = g /\ h.tries = s.tries
    BY <1>3, <1>10, <1>5, <1>9, <1>15 DEF SectionRecord, SameWork
  <2>2. Blocked(h, p.need) = {}
    BY <1>11, <1>15 DEF BlockedNow
  <2> HIDE DEF h
  <2>3. j \notin Blocked(h, p.need)
    BY <2>2
  <2>4. g[j] = "ready" \/ ~(s.tries[j] >= 1)
    BY <2>1, <2>3 DEF Blocked, Pending, Exhausted, MaxMediaFrameRetries
  <2> QED
    BY <1>1, <1>3, <1>12, <2>4
<1>16. \/ k # "svg" /\ o.frame = s.frame
       \/ /\ o.frame[k] # "none"
          /\ \A j \in Kinds \ {k} :
                o.frame[j] = IF k = "simulation" THEN "none" ELSE s.frame[j]
  BY <1>5, <1>7, <1>8, <1>12
<1> QED
  BY <1>5, <1>9, <1>10, <1>11, <1>12, <1>13, <1>14, <1>15, <1>16 DEF Retried

-----------------------------------------------------------------------------
(* Routers and channels.                                                   *)

LEMMA OwedIs ==
    ASSUME NEW s \in SectionRecord, NEW need \in SUBSET Kinds
    PROVE  \/ Owed(s, need) = Nothing
           \/ MayRun(s) /\ Owed(s, need) \in {<<"field", "none">>, <<"process", "none">>}
           \/ /\ Owed(s, need) = <<"frame", NextRetry(s, need, Issues(s))>>
              /\ NextRetry(s, need, Issues(s)) \in Open(s, need, Issues(s))
<1> DEFINE frame == NextRetry(s, need, Issues(s))
           issues == Issues(s)
           blocked == Blocked(s, need) # {}
           can == s.reruns < MaxRerenders
<1>1. frame = NoBlock \/ frame \in Open(s, need, Issues(s))
  BY NextRetryIs
<1>2. can => MayRun(s)
  BY DEF MayRun
<1>3. \/ can /\ Owed(s, need) \in {<<"field", "none">>, <<"process", "none">>}
      \/ frame # NoBlock /\ Owed(s, need) = <<"frame", frame>>
      \/ Owed(s, need) = Nothing
  <2> HIDE DEF frame, issues, blocked, can
  <2>1. Owed(s, need) =
          CASE s.schema = "field" /\ can -> <<"field", "none">>
          [] s.schema = "many" /\ can -> <<"process", "none">>
          [] (s.schema = "none" \/ ~can) /\ frame # NoBlock
             /\ (issues \intersect MediaBlocks # {} \/ blocked \/ issues = {}) -> <<"frame", frame>>
          [] OTHER ->
                IF blocked \/ issues = {} \/ ~can THEN Nothing
                ELSE IF Cardinality(issues) = 1 /\ issues \subseteq TextFields
                THEN <<"field", "none">>
                ELSE <<"process", "none">>
    BY DEF Owed, frame, issues, blocked, can
  <2>2. CASE s.schema = "field" /\ can
    BY <2>1, <2>2
  <2>3. CASE s.schema = "many" /\ can
    BY <2>1, <2>3
  <2>4. CASE (s.schema = "none" \/ ~can) /\ frame # NoBlock
             /\ (issues \intersect MediaBlocks # {} \/ blocked \/ issues = {})
    BY <2>1, <2>4
  <2>5. CASE /\ ~(s.schema = "field" /\ can) /\ ~(s.schema = "many" /\ can)
             /\ ~((s.schema = "none" \/ ~can) /\ frame # NoBlock
                  /\ (issues \intersect MediaBlocks # {} \/ blocked \/ issues = {}))
    <3>1. Owed(s, need) = IF blocked \/ issues = {} \/ ~can THEN Nothing
                ELSE IF Cardinality(issues) = 1 /\ issues \subseteq TextFields
                THEN <<"field", "none">>
                ELSE <<"process", "none">>
      BY <2>1, <2>5
    <3> QED
      BY <3>1
  <2> QED
    BY <2>2, <2>3, <2>4, <2>5
<1> QED
  BY <1>1, <1>2, <1>3

(* A section without issues is owed the first frame it may try.            *)
LEMMA OwedWithoutIssues ==
    ASSUME NEW s \in SectionRecord, NEW need \in SUBSET Kinds,
           s.schema = "none", s.report = NoReport, s.request = NoBlock
    PROVE  Owed(s, need) = IF NextRetry(s, need, {}) = NoBlock THEN Nothing
                           ELSE <<"frame", NextRetry(s, need, {})>>
<1>1. Issues(s) = {}
  BY DEF Issues
<1>2. CASE NextRetry(s, need, {}) = NoBlock
  BY <1>1, <1>2 DEF Owed
<1>3. CASE NextRetry(s, need, {}) # NoBlock
  BY <1>1, <1>3 DEF Owed
<1> QED
  BY <1>2, <1>3

(* A channel after the writes of a task that started from a copy of it.    *)
Merged(c, from, out, m) ==
    /\ m \in SectionRecord
    /\ Follows(c, m) /\ Follows(out, m)
    /\ m.planned = (out.planned \/ c.planned)
    /\ m.partial = (out.partial \/ c.partial)
    /\ m.assembled = (out.assembled \/ c.assembled)
    /\ m.content = (IF out.content = "none" THEN c.content ELSE out.content)
    /\ m.schema = (IF out.schema = from.schema THEN c.schema ELSE out.schema)
    /\ m.frame = (IF \A k \in Kinds : out.frame[k] = "none" THEN c.frame ELSE out.frame)
    /\ m.tries = (IF out.tries = from.tries THEN c.tries ELSE out.tries)
    /\ m.failed = (IF out.failed = "no" THEN c.failed ELSE out.failed)
    /\ m.report = (IF out.report = NoReport THEN c.report ELSE out.report)
    /\ m.request = (IF out.request = from.request THEN c.request ELSE out.request)

LEMMA MergeIs ==
    ASSUME NEW c \in SectionRecord, NEW from \in SectionRecord, NEW out \in SectionRecord
    PROVE  Merged(c, from, out, Merge(c, from, out))
<1> DEFINE content == IF out.content = "none" THEN c.content ELSE out.content
           schema == IF out.schema = from.schema THEN c.schema ELSE out.schema
           planned == out.planned \/ c.planned
           frame == IF \A k \in Kinds : out.frame[k] = "none" THEN c.frame ELSE out.frame
           tries == IF out.tries = from.tries THEN c.tries ELSE out.tries
           partial == out.partial \/ c.partial
           life == IF out.life = "none" THEN c.life ELSE out.life
           assembled == out.assembled \/ c.assembled
           failed == IF out.failed = "no" THEN c.failed ELSE out.failed
           report == IF out.report = NoReport THEN c.report ELSE out.report
           request == IF out.request = from.request THEN c.request ELSE out.request
           reruns == IF out.reruns = from.reruns THEN c.reruns ELSE out.reruns
           m == Merge(c, from, out)
<1>1. m = [out EXCEPT !.content = content, !.schema = schema, !.planned = planned,
                      !.frame = frame, !.tries = tries, !.partial = partial,
                      !.life = life, !.assembled = assembled, !.failed = failed,
                      !.report = report, !.request = request, !.reruns = reruns]
  BY DEF Merge
<1>2. [content |-> content, schema |-> schema, planned |-> planned, frame |-> frame,
       tries |-> tries, partial |-> partial, pending |-> out.pending, life |-> life,
       assembled |-> assembled, failed |-> failed, report |-> report,
       request |-> request, reruns |-> reruns] \in SectionRecord
  BY DEF SectionRecord
<1> HIDE DEF content, schema, planned, frame, tries, partial, life, assembled, failed,
             report, request, reruns, m
<1>3. m = [content |-> content, schema |-> schema, planned |-> planned, frame |-> frame,
           tries |-> tries, partial |-> partial, pending |-> out.pending, life |-> life,
           assembled |-> assembled, failed |-> failed, report |-> report,
           request |-> request, reruns |-> reruns]
  BY <1>1 DEF SectionRecord
<1>4. /\ m \in SectionRecord
      /\ m.planned = planned /\ m.partial = partial /\ m.assembled = assembled
      /\ m.content = content /\ m.schema = schema /\ m.frame = frame /\ m.tries = tries
      /\ m.failed = failed /\ m.report = report /\ m.request = request
  BY <1>2, <1>3
<1>5. Follows(c, m) /\ Follows(out, m)
  BY <1>4 DEF Follows, planned, partial, assembled, failed
<1> QED
  BY <1>4, <1>5 DEF content, schema, planned, frame, tries, partial, assembled, failed,
                    report, request, m, Merged

TaskRecord == [sec : Sections, node : {"process", "field", "frame"},
               frame : Kinds \union {"none"}, rec : SectionRecord]

(* A task is of a section of the outline; it retries a frame that can be   *)
(* tried, or writes content within the policy.                             *)
TaskOK(t) ==
    /\ t \in TaskRecord
    /\ t.sec \in Planned
    /\ t.node = "frame" => t.frame \in plan[t.sec].need /\ t.rec.tries[t.frame] = 0
    /\ t.node # "frame" => MayRun(t.rec)

TypeInv ==
    /\ TypeOK
    /\ tasks \in Seq(TaskRecord) /\ sends \in Seq(TaskRecord)
    /\ \A i \in DOMAIN tasks : TaskOK(tasks[i])
    /\ \A i \in DOMAIN sends : TaskOK(sends[i])
    /\ phase = "planning" => /\ chan = [s \in Sections |-> NewSection] /\ acc = chan
                             /\ tasks = <<>> /\ sends = <<>>

LEMMA PlanTyped ==
    ASSUME TypeOK, NEW s \in Sections
    PROVE  plan[s] \in Plans /\ plan[s].need \in SUBSET Kinds
BY DEF TypeOK, Plans

LEMMA OutlineIs ==
    ASSUME TypeOK
    PROVE  \E n \in 0..MaxSections : outline = [i \in 1..n |-> i] /\ Planned = 1..n
BY DEF TypeOK, Planned

LEMMA PlannedIs ==
    ASSUME TypeOK
    PROVE  Planned \in SUBSET Sections
<1>1. PICK n \in 0..MaxSections : Planned = 1..n
  BY OutlineIs
<1> QED
  BY <1>1, BoundsAssumption DEF Sections

(* The router sends every section with a plan that is owed something what  *)
(* it is owed, with what it sees of the section.                           *)
LEMMA RoutesAre ==
    ASSUME TypeOK, NEW view \in [Sections -> SectionRecord]
    PROVE  /\ Routes(view) \in Seq(TaskRecord)
           /\ \A i \in DOMAIN Routes(view) :
                 LET t == Routes(view)[i]
                 IN  /\ TaskOK(t)
                     /\ t.rec = view[t.sec] /\ view[t.sec].planned
                     /\ <<t.node, t.frame>> = Owed(view[t.sec], plan[t.sec].need)
                     /\ <<t.node, t.frame>> # Nothing
           /\ Routes(view) = <<>> =>
                 \A s \in Planned : view[s].planned => Owed(view[s], plan[s].need) = Nothing
<1> DEFINE owed(s) == Owed(view[s], plan[s].need)
           S == {s \in Planned : view[s].planned /\ owed(s) # Nothing}
           due == Ascending(S)
           m == Cardinality(S)
           Sent(s) == Task(s, owed(s), view[s])
<1>1. Planned \in SUBSET Sections
  BY PlannedIs
<1>2. PICK n \in 0..MaxSections : Planned = 1..n
  BY OutlineIs
<1>3. n \in Nat /\ S \in SUBSET (1..n)
  BY <1>2, BoundsAssumption
<1>4. IsAscending(due, S) /\ m \in Nat
  <2> HIDE DEF S
  <2> QED
    BY <1>3, AscendingIs
<1>5. due \in [1..m -> S] /\ \A s \in S : \E i \in 1..m : due[i] = s
  BY <1>4 DEF IsAscending
<1>6. Routes(view) = [i \in DOMAIN due |-> Sent(due[i])]
  BY DEF Routes
<1>7. ASSUME NEW s \in S
      PROVE  /\ TaskOK(Sent(s)) /\ Sent(s).sec = s /\ Sent(s).rec = view[s]
             /\ <<Sent(s).node, Sent(s).frame>> = owed(s)
  <2>1. s \in Sections /\ s \in Planned /\ view[s] \in SectionRecord
    BY <1>1
  <2>2. plan[s].need \in SUBSET Kinds
    BY <2>1, PlanTyped
  <2>3. Sent(s) = [sec |-> s, node |-> owed(s)[1], frame |-> owed(s)[2], rec |-> view[s]]
    BY DEF Task
  <2>4. owed(s) # Nothing
    OBVIOUS
  <2> HIDE DEF owed, Sent, S
  <2>5. CASE MayRun(view[s]) /\ owed(s) \in {<<"field", "none">>, <<"process", "none">>}
    BY <2>1, <2>3, <2>5 DEF TaskOK, TaskRecord
  <2>6. CASE \E f \in Open(view[s], plan[s].need, Issues(view[s])) : owed(s) = <<"frame", f>>
    <3>1. PICK f \in Open(view[s], plan[s].need, Issues(view[s])) : owed(s) = <<"frame", f>>
      BY <2>6
    <3>2. f \in plan[s].need /\ ~(view[s].tries[f] >= 1)
      BY <2>2, PendingIs DEF Open, Exhausted, MaxMediaFrameRetries
    <3>3. f \in Kinds /\ view[s].tries[f] \in 0..1
      BY <2>1, <2>2, <3>2 DEF SectionRecord, MaxMediaFrameRetries
    <3>4. view[s].tries[f] = 0
      BY <3>2, <3>3
    <3>5. Sent(s) = [sec |-> s, node |-> "frame", frame |-> f, rec |-> view[s]]
      BY <2>3, <3>1
    <3> QED
      BY <2>1, <3>1, <3>2, <3>3, <3>4, <3>5 DEF TaskOK, TaskRecord
  <2> QED
    BY <2>1, <2>2, <2>4, <2>5, <2>6, OwedIs DEF owed
<1>8. ASSUME NEW i \in 1..m
      PROVE  /\ Routes(view)[i] = Sent(due[i]) /\ due[i] \in S
  BY <1>5, <1>6
<1>9. Routes(view) \in Seq(TaskRecord) /\ DOMAIN Routes(view) = 1..m
  <2>1. \A i \in 1..m : Sent(due[i]) \in TaskRecord
    BY <1>5, <1>7 DEF TaskOK
  <2> HIDE DEF Sent, due, m, S
  <2>2. Routes(view) = [i \in 1..m |-> Sent(due[i])]
    BY <1>5, <1>6
  <2>3. Routes(view) \in [1..m -> TaskRecord]
    BY <2>1, <2>2
  <2> QED
    BY <1>4, <2>3, SeqDef
<1>10. ASSUME Routes(view) = <<>>, NEW s \in Planned, view[s].planned
       PROVE  owed(s) = Nothing
  <2>1. SUFFICES ASSUME owed(s) # Nothing PROVE FALSE
    OBVIOUS
  <2>2. s \in S
    BY <1>10, <2>1
  <2>3. PICK i \in 1..m : due[i] = s
    BY <1>5, <2>2
  <2>4. 1..m = {}
    BY <1>9, <1>10
  <2> QED
    BY <2>3, <2>4
<1>11. ASSUME NEW i \in DOMAIN Routes(view)
       PROVE  LET t == Routes(view)[i]
              IN  /\ TaskOK(t)
                  /\ t.rec = view[t.sec] /\ view[t.sec].planned
                  /\ <<t.node, t.frame>> = Owed(view[t.sec], plan[t.sec].need)
                  /\ <<t.node, t.frame>> # Nothing
  <2>1. i \in 1..m
    BY <1>9
  <2>2. PICK s \in S : Routes(view)[i] = Sent(s)
    BY <1>8, <2>1
  <2>3. view[s].planned /\ owed(s) # Nothing
    OBVIOUS
  <2> HIDE DEF Sent
  <2> QED
    BY <1>7, <2>2, <2>3
<1> QED
  BY <1>9, <1>10, <1>11

-----------------------------------------------------------------------------
(* The types of the state.                                                 *)

LEMMA TailIs ==
    ASSUME NEW S, NEW q \in Seq(S), q # <<>>
    PROVE  /\ 1 \in DOMAIN q /\ Head(q) = q[1] /\ q[1] \in S
           /\ Tail(q) \in Seq(S)
           /\ \A i \in DOMAIN Tail(q) : i + 1 \in DOMAIN q /\ Tail(q)[i] = q[i + 1]
           /\ \A i \in DOMAIN q : i = 1 \/ (i - 1 \in DOMAIN Tail(q) /\ Tail(q)[i - 1] = q[i])
OBVIOUS

LEMMA ConcatIs ==
    ASSUME NEW S, NEW q \in Seq(S), NEW r \in Seq(S)
    PROVE  /\ q \o r \in Seq(S)
           /\ \A i \in DOMAIN (q \o r) :
                 \/ \E j \in DOMAIN q : (q \o r)[i] = q[j]
                 \/ \E j \in DOMAIN r : (q \o r)[i] = r[j]
           /\ q \o r = <<>> => q = <<>> /\ r = <<>>
<1>1. /\ q \o r \in Seq(S) /\ DOMAIN (q \o r) = 1..(Len(q) + Len(r))
      /\ Len(q) \in Nat /\ Len(r) \in Nat
      /\ DOMAIN q = 1..Len(q) /\ DOMAIN r = 1..Len(r)
  OBVIOUS
<1>2. ASSUME NEW i \in DOMAIN (q \o r)
      PROVE  \/ \E j \in DOMAIN q : (q \o r)[i] = q[j]
             \/ \E j \in DOMAIN r : (q \o r)[i] = r[j]
  <2>1. CASE i <= Len(q)
    BY <1>1, <2>1
  <2>2. CASE i > Len(q)
    <3>1. i - Len(q) \in DOMAIN r /\ (q \o r)[i] = r[i - Len(q)]
      BY <1>1, <2>2
    <3> QED
      BY <3>1
  <2> QED
    BY <1>1, <2>1, <2>2
<1>3. q \o r = <<>> => q = <<>> /\ r = <<>>
  <2>1. ASSUME q \o r = <<>> PROVE Len(q) = 0 /\ Len(r) = 0
    BY <1>1, <2>1
  <2> QED
    BY <2>1, EmptySeq
<1> QED
  BY <1>1, <1>2, <1>3

LEMMA OutcomesAre ==
    ASSUME TypeOK, NEW t, TaskOK(t), NEW o \in Outcomes(t)
    PROVE  /\ o \in SectionRecord
           /\ Follows(t.rec, o) /\ KeepsErrors(t.rec, o)
<1>1. t \in TaskRecord /\ t.sec \in Sections /\ t.rec \in SectionRecord
  BY DEF TaskOK, TaskRecord
<1>2. plan[t.sec] \in Plans
  BY <1>1, PlanTyped
<1>3. CASE t.node = "process"
  <2>1. o \in ProcessSection(t.rec, plan[t.sec]) /\ MayRun(t.rec)
    BY <1>3 DEF Outcomes, TaskOK
  <2> QED
    BY <1>1, <1>2, <2>1, ProcessIs
<1>4. CASE t.node = "field"
  <2>1. o \in RetryField(t.rec, plan[t.sec]) /\ MayRun(t.rec)
    BY <1>4 DEF Outcomes, TaskOK
  <2> QED
    BY <1>1, <1>2, <2>1, RetryFieldIs
<1>5. CASE t.node = "frame"
  <2>1. /\ o \in RetryFrame(t.rec, plan[t.sec], t.frame)
        /\ t.frame \in plan[t.sec].need /\ t.rec.tries[t.frame] = 0
    BY <1>5 DEF Outcomes, TaskOK
  <2>2. o \in SectionRecord /\ Follows(t.rec, o) /\ o.schema = t.rec.schema
    <3>1. Retried(t.rec, plan[t.sec], t.frame, o)
      BY <1>1, <1>2, <2>1, RetryFrameIs
    <3> QED
      BY <3>1 DEF Retried
  <2> QED
    BY <2>2 DEF KeepsErrors
<1> QED
  BY <1>1, <1>3, <1>4, <1>5 DEF TaskRecord

(* What a router sees after its task: the channels with the task's writes. *)
Seen(t, o) == [chan EXCEPT ![t.sec] = Merge(@, t.rec, o)]

LEMMA RunTaskIs ==
    ASSUME TypeInv, RunTask
    PROVE  LET t == Head(tasks)
           IN  /\ phase = "running" /\ tasks # <<>> /\ TaskOK(t) /\ t = tasks[1]
               /\ 1 \in DOMAIN tasks
               /\ \E o \in Outcomes(t) :
                     /\ acc' = [acc EXCEPT ![t.sec] = Merge(@, t.rec, o)]
                     /\ sends' = sends \o Routes(Seen(t, o))
                     /\ Seen(t, o) \in [Sections -> SectionRecord]
               /\ tasks' = Tail(tasks)
               /\ ran' = [ran EXCEPT ![t.sec] = IF @ = 0 THEN 1 ELSE 2]
               /\ UNCHANGED <<plan, outline, chan, phase>>
<1> DEFINE t == Head(tasks)
<1>1. phase = "running" /\ tasks # <<>> /\ tasks' = Tail(tasks)
      /\ ran' = [ran EXCEPT ![t.sec] = IF @ = 0 THEN 1 ELSE 2]
      /\ UNCHANGED <<plan, outline, chan, phase>>
  BY DEF RunTask
<1>2. PICK o \in Outcomes(t) :
          /\ acc' = [acc EXCEPT ![t.sec] = Merge(@, t.rec, o)]
          /\ sends' = sends \o Routes(Seen(t, o))
  <2>1. PICK o \in Outcomes(t) :
            /\ acc' = [acc EXCEPT ![t.sec] = Merge(@, t.rec, o)]
            /\ \E view \in {Seen(t, o)} : sends' = sends \o Routes(view)
    BY DEF RunTask, Seen
  <2> QED
    BY <2>1
<1>3. 1 \in DOMAIN tasks /\ t = tasks[1]
  BY <1>1, TailIs DEF TypeInv
<1>4. TypeOK /\ TaskOK(t)
  BY <1>3 DEF TypeInv
<1> HIDE DEF t
<1>5. o \in SectionRecord
  BY <1>4, OutcomesAre
<1>6. /\ t.sec \in Sections /\ t.rec \in SectionRecord
      /\ chan \in [Sections -> SectionRecord]
  BY <1>4 DEF TaskOK, TaskRecord, TypeOK
<1>7. Merge(chan[t.sec], t.rec, o) \in SectionRecord
  BY <1>5, <1>6, MergeIs DEF Merged
<1>8. Seen(t, o) \in [Sections -> SectionRecord]
  BY <1>6, <1>7 DEF Seen
<1> QED
  BY <1>1, <1>2, <1>3, <1>4, <1>8 DEF t

LEMMA InitTypeInv == Init => TypeInv
<1> SUFFICES ASSUME Init PROVE TypeInv
  OBVIOUS
<1>1. /\ plan \in [Sections -> Plans] /\ outline = <<>> /\ acc = chan
      /\ chan = [s \in Sections |-> NewSection]
      /\ tasks = <<>> /\ sends = <<>> /\ phase = "planning"
      /\ ran \in [Sections -> 0..2]
  BY DEF Init, NoneRan
<1>2. chan \in [Sections -> SectionRecord]
  BY <1>1, NewSectionIs
<1>3. outline = [i \in 1..0 |-> i] /\ 0 \in 0..MaxSections
  BY <1>1, BoundsAssumption
<1>4. TypeOK
  BY <1>1, <1>2, <1>3 DEF TypeOK
<1> QED
  BY <1>1, <1>4 DEF TypeInv

LEMMA RanTyped ==
    ASSUME ran \in [Sections -> 0..2], [Next]_vars
    PROVE  ran' \in [Sections -> 0..2]
<1>1. CASE PlanOutline
  BY <1>1 DEF PlanOutline
<1>2. CASE RunTask
  <2>1. PICK s : s = Head(tasks).sec
    OBVIOUS
  <2>2. ran' = [ran EXCEPT ![s] = IF @ = 0 THEN 1 ELSE 2]
    BY <1>2, <2>1 DEF RunTask
  <2>3. (IF ran[s] = 0 THEN 1 ELSE 2) \in 0..2
    BY SMT
  <2>4. ran' = [ran EXCEPT ![s] = IF ran[s] = 0 THEN 1 ELSE 2]
    BY <2>2
  <2> QED
    BY <2>3, <2>4, Zenon
<1>3. CASE EndSuperstep
  BY <1>3 DEF EndSuperstep, NoneRan
<1>4. CASE Cancel
  BY <1>4 DEF Cancel, NoneRan
<1>5. CASE UNCHANGED vars
  BY <1>5 DEF vars
<1> QED
  BY <1>1, <1>2, <1>3, <1>4, <1>5 DEF Next

LEMMA NextTypeInv == TypeInv /\ [Next]_vars => TypeInv'
<1> SUFFICES ASSUME TypeInv, [Next]_vars PROVE TypeInv'
  OBVIOUS
<1>1. TypeOK /\ tasks \in Seq(TaskRecord) /\ sends \in Seq(TaskRecord)
  BY DEF TypeInv
<1>1a. ran' \in [Sections -> 0..2]
  BY <1>1, RanTyped DEF TypeOK
<1>2. CASE PlanOutline
  <2>1. PICK n \in Outlines :
          /\ outline' = [i \in 1..n |-> i]
          /\ tasks' = [i \in 1..n |-> Task(i, <<"process", "none">>, NewSection)]
          /\ phase' = IF n = 0 THEN "ended" ELSE "running"
    BY <1>2 DEF PlanOutline
  <2>2. UNCHANGED <<plan, chan, acc, sends>> /\ phase = "planning"
    BY <1>2 DEF PlanOutline
  <2>3. n \in Nat /\ n <= MaxSections /\ n \in 0..MaxSections
    BY <2>1, BoundsAssumption DEF Outlines
  <2>4. Planned' = 1..n
    BY <2>1 DEF Planned
  <2>5. \A i \in 1..n : TaskOK(tasks[i])'
    <3>1. TAKE i \in 1..n
    <3>2. tasks'[i] = [sec |-> i, node |-> "process", frame |-> "none", rec |-> NewSection]
      BY <2>1 DEF Task
    <3>3. tasks'[i] \in TaskRecord
      <4>1. i \in Sections
        BY <2>3, BoundsAssumption DEF Sections
      <4> QED
        BY <3>2, <4>1, NewSectionIs DEF TaskRecord
    <3> QED
      <4>1. MayRun(tasks'[i].rec) /\ tasks'[i].sec \in Planned'
        BY <2>4, <3>2, NewSectionIs
      <4> QED
        BY <3>2, <3>3, <4>1 DEF TaskOK
  <2>6. tasks' \in Seq(TaskRecord) /\ DOMAIN tasks' = 1..n
    <3>1. tasks' \in [1..n -> TaskRecord]
      BY <2>1, <2>5 DEF TaskOK
    <3> QED
      BY <2>3, <3>1, SeqDef
  <2>7. chan' = chan /\ acc' = acc /\ plan' = plan /\ sends' = <<>>
    BY <2>2 DEF TypeInv
  <2>8. \A i \in DOMAIN tasks' : TaskOK(tasks[i])'
    BY <2>5, <2>6
  <2>9. phase' \in {"ended", "running"}
    BY <2>1
  <2>10. outline' \in {[i \in 1..k |-> i] : k \in 0..MaxSections}
    BY <2>1, <2>3
  <2>11. TypeOK'
    BY <1>1, <1>1a, <2>7, <2>8, <2>9, <2>10 DEF TypeOK, TaskOK, TaskRecord
  <2> QED
    BY <2>6, <2>7, <2>8, <2>9, <2>11 DEF TypeInv
<1>3. CASE RunTask
  <2> DEFINE t == Head(tasks)
  <2>1. /\ phase = "running" /\ tasks # <<>> /\ TaskOK(t) /\ tasks' = Tail(tasks)
        /\ UNCHANGED <<plan, outline, chan, phase>>
    BY <1>3, RunTaskIs
  <2>2. PICK o \in Outcomes(t) :
          /\ acc' = [acc EXCEPT ![t.sec] = Merge(@, t.rec, o)]
          /\ sends' = sends \o Routes(Seen(t, o))
          /\ Seen(t, o) \in [Sections -> SectionRecord]
    BY <1>3, RunTaskIs
  <2> HIDE DEF t
  <2>3. Planned' = Planned
    BY <2>1 DEF Planned
  <2>4. \A x : TaskOK(x) => TaskOK(x)'
    BY <2>1, <2>3 DEF TaskOK
  <2>5. /\ tasks' \in Seq(TaskRecord)
        /\ \A i \in DOMAIN tasks' : TaskOK(tasks'[i])
    BY <1>1, <2>1, TailIs DEF TypeInv
  <2>6. /\ Routes(Seen(t, o)) \in Seq(TaskRecord)
        /\ \A i \in DOMAIN Routes(Seen(t, o)) : TaskOK(Routes(Seen(t, o))[i])
    BY <1>1, <2>2, RoutesAre
  <2>7. /\ sends' \in Seq(TaskRecord)
        /\ \A i \in DOMAIN sends' : TaskOK(sends'[i])
    BY <1>1, <2>2, <2>6, ConcatIs DEF TypeInv
  <2>8. acc' \in [Sections -> SectionRecord]
    <3>1. o \in SectionRecord
      BY <1>1, <2>1, OutcomesAre
    <3>2. t.sec \in Sections /\ t.rec \in SectionRecord /\ acc \in [Sections -> SectionRecord]
      BY <1>1, <1>1a, <2>1 DEF TypeOK, TaskOK, TaskRecord
    <3>3. Merge(acc[t.sec], t.rec, o) \in SectionRecord
      BY <3>1, <3>2, MergeIs DEF Merged
    <3> QED
      BY <2>2, <3>2, <3>3
  <2>9. /\ \A i \in DOMAIN tasks' : TaskOK(tasks[i])'
        /\ \A i \in DOMAIN sends' : TaskOK(sends[i])'
    BY <2>4, <2>5, <2>7
  <2>10. TypeOK'
    BY <1>1, <1>1a, <2>1, <2>8, <2>9 DEF TypeOK, TaskOK, TaskRecord
  <2> QED
    BY <2>1, <2>5, <2>7, <2>9, <2>10 DEF TypeInv
<1>4. CASE EndSuperstep
  <2>1. /\ chan' = acc /\ tasks' = sends /\ sends' = <<>> /\ phase' \in {"ended", "running"}
        /\ UNCHANGED <<plan, outline, acc>>
    BY <1>4 DEF EndSuperstep
  <2>2. Planned' = Planned
    BY <2>1 DEF Planned
  <2>3. \A x : TaskOK(x) => TaskOK(x)'
    BY <2>1, <2>2 DEF TaskOK
  <2>4. \A i \in DOMAIN tasks' : TaskOK(tasks[i])'
    BY <2>1, <2>3 DEF TypeInv
  <2>5. TypeOK'
    BY <1>1, <1>1a, <2>1, <2>4 DEF TypeOK, TaskOK, TaskRecord
  <2> QED
    BY <1>1, <2>1, <2>4, <2>5 DEF TypeInv
<1>5. CASE Cancel
  <2>1. /\ acc' = chan /\ tasks' = <<>> /\ sends' = <<>> /\ phase' = "cancelled"
        /\ UNCHANGED <<plan, outline, chan>>
    BY <1>5 DEF Cancel
  <2>2. TypeOK'
    BY <1>1, <1>1a, <2>1 DEF TypeOK
  <2> QED
    BY <2>1, <2>2 DEF TypeInv
<1>6. CASE UNCHANGED vars
  <2>1. UNCHANGED <<plan, outline, chan, acc, tasks, sends, phase, ran>>
    BY <1>6 DEF vars
  <2>2. Planned' = Planned
    BY <2>1 DEF Planned
  <2>3. \A x : TaskOK(x) => TaskOK(x)'
    BY <2>1, <2>2 DEF TaskOK
  <2>4. TypeOK'
    BY <1>1, <1>1a, <2>1, <2>2 DEF TypeOK
  <2> QED
    BY <1>1, <2>1, <2>3, <2>4 DEF TypeInv
<1> QED
  BY <1>2, <1>3, <1>4, <1>5, <1>6 DEF Next

(* What tasks and channels hold of the run's sections always has its type. *)
THEOREM TypesHold == Spec => []TypeOK
<1>1. Init => TypeInv
  BY InitTypeInv
<1>2. TypeInv /\ [Next]_vars => TypeInv'
  BY NextTypeInv
<1>3. TypeInv => TypeOK
  BY DEF TypeInv
<1> QED
  BY <1>1, <1>2, <1>3, PTL DEF Spec

-----------------------------------------------------------------------------
(* No section vanishes but for its schema.                                 *)

(* A section nothing is known of is still to be written for the first time.*)
AccountedInv ==
    /\ phase = "running" =>
          \A s \in Planned :
             \/ Accounted(acc[s])
             \/ \E i \in DOMAIN tasks : /\ tasks[i].sec = s /\ tasks[i].node = "process"
                                        /\ tasks[i].rec = NewSection
    /\ phase = "ended" => \A s \in Planned : Accounted(chan[s])

LEMMA MergeAccounted ==
    ASSUME NEW c \in SectionRecord, NEW from \in SectionRecord, NEW out \in SectionRecord,
           KeepsErrors(from, out),
           \/ Accounted(c)
           \/ from.schema = "none" /\ (out.partial \/ out.failed # "no" \/ out.schema # "none")
    PROVE  Accounted(Merge(c, from, out))
<1> DEFINE m == Merge(c, from, out)
<1>1. /\ Follows(c, m) /\ Follows(out, m)
      /\ m.schema = (IF out.schema = from.schema THEN c.schema ELSE out.schema)
  BY MergeIs DEF Merged
<1> HIDE DEF m
<1>2. Accounted(m)
  BY <1>1 DEF Accounted, Follows, KeepsErrors
<1> QED
  BY <1>2 DEF m

LEMMA NextAccountedInv == TypeInv /\ AccountedInv /\ [Next]_vars => AccountedInv'
<1> SUFFICES ASSUME TypeInv, AccountedInv, [Next]_vars PROVE AccountedInv'
  OBVIOUS
<1>1. TypeOK /\ tasks \in Seq(TaskRecord)
  BY DEF TypeInv
<1>2. CASE PlanOutline
  <2>1. PICK n \in Outlines :
          /\ outline' = [i \in 1..n |-> i]
          /\ tasks' = [i \in 1..n |-> Task(i, <<"process", "none">>, NewSection)]
          /\ phase' = IF n = 0 THEN "ended" ELSE "running"
    BY <1>2 DEF PlanOutline
  <2>2. Planned' = 1..n
    BY <2>1 DEF Planned
  <2>3. \A s \in 1..n : /\ s \in DOMAIN tasks' /\ tasks'[s].sec = s
                        /\ tasks'[s].node = "process" /\ tasks'[s].rec = NewSection
    BY <2>1 DEF Task
  <2>4. n = 0 => Planned' = {}
    BY <2>2
  <2> QED
    BY <2>1, <2>2, <2>3, <2>4 DEF AccountedInv
<1>3. CASE RunTask
  <2> DEFINE t == Head(tasks)
  <2>1. /\ phase = "running" /\ tasks # <<>> /\ TaskOK(t) /\ tasks' = Tail(tasks)
        /\ t = tasks[1]
        /\ UNCHANGED <<plan, outline, chan, phase>>
    BY <1>3, RunTaskIs
  <2>2. PICK o \in Outcomes(t) : acc' = [acc EXCEPT ![t.sec] = Merge(@, t.rec, o)]
    BY <1>3, RunTaskIs
  <2> HIDE DEF t
  <2>3. Planned' = Planned
    BY <2>1 DEF Planned
  <2>4. /\ o \in SectionRecord /\ KeepsErrors(t.rec, o)
        /\ t.sec \in Sections /\ t.rec \in SectionRecord /\ acc \in [Sections -> SectionRecord]
    BY <1>1, <2>1, OutcomesAre DEF TypeOK, TaskOK, TaskRecord
  <2>5. SUFFICES ASSUME NEW s \in Planned
                 PROVE  \/ Accounted(acc'[s])
                        \/ \E i \in DOMAIN tasks' :
                              /\ tasks'[i].sec = s /\ tasks'[i].node = "process"
                              /\ tasks'[i].rec = NewSection
    BY <2>1, <2>3 DEF AccountedInv
  <2>6. s \in Sections
    BY <1>1, PlannedIs
  <2>7. CASE Accounted(acc[s])
    <3>1. CASE s = t.sec
      <4>1. Accounted(Merge(acc[s], t.rec, o))
        BY <2>4, <2>6, <2>7, MergeAccounted
      <4> QED
        BY <2>2, <2>4, <3>1, <4>1
    <3>2. CASE s # t.sec
      BY <2>2, <2>4, <2>6, <2>7, <3>2
    <3> QED
      BY <3>1, <3>2
  <2>8. CASE \E i \in DOMAIN tasks : /\ tasks[i].sec = s /\ tasks[i].node = "process"
                                     /\ tasks[i].rec = NewSection
    <3>1. PICK i \in DOMAIN tasks : /\ tasks[i].sec = s /\ tasks[i].node = "process"
                                    /\ tasks[i].rec = NewSection
      BY <2>8
    <3>2. CASE i = 1
      <4>1. t.sec = s /\ t.rec = NewSection /\ o \in ProcessSection(t.rec, plan[s])
        BY <2>1, <3>1, <3>2 DEF Outcomes
      <4>2. plan[s] \in Plans /\ MayRun(t.rec)
        BY <1>1, <2>6, <4>1, PlanTyped, NewSectionIs
      <4>3. o.partial \/ o.failed # "no" \/ o.schema # "none"
        BY <2>4, <4>1, <4>2, ProcessIs
      <4>4. Accounted(Merge(acc[s], t.rec, o))
        BY <2>4, <2>6, <4>1, <4>3, MergeAccounted, NewSectionIs
      <4> QED
        BY <2>2, <2>4, <4>1, <4>4
    <3>3. CASE i # 1
      <4>1. i - 1 \in DOMAIN tasks' /\ tasks'[i - 1] = tasks[i]
        BY <1>1, <2>1, <3>3, TailIs
      <4> QED
        BY <3>1, <4>1
    <3> QED
      BY <3>2, <3>3
  <2> QED
    BY <2>1, <2>7, <2>8 DEF AccountedInv
<1>4. CASE EndSuperstep
  <2>1. /\ phase = "running" /\ tasks = <<>> /\ chan' = acc
        /\ UNCHANGED <<plan, outline, acc>>
    BY <1>4 DEF EndSuperstep
  <2>2. \A s \in Planned : Accounted(acc[s])
    BY <2>1 DEF AccountedInv
  <2>3. Planned' = Planned
    BY <2>1 DEF Planned
  <2> QED
    BY <2>1, <2>2, <2>3 DEF AccountedInv
<1>5. CASE Cancel
  BY <1>5 DEF Cancel, AccountedInv
<1>6. CASE UNCHANGED vars
  BY <1>6 DEF vars, AccountedInv, Planned
<1> QED
  BY <1>2, <1>3, <1>4, <1>5, <1>6 DEF Next

(* A section of the outline that the document lists neither as final nor   *)
(* as failed nor as partial is one whose content failed its schema,        *)
(* whatever tasks of how many supersteps wrote to its channels.            *)
THEOREM OnlySchemaFailureEverVanishes == Spec => []OnlySchemaFailureVanishes
<1>1. Init => TypeInv /\ AccountedInv
  BY InitTypeInv DEF Init, AccountedInv
<1>2. TypeInv /\ AccountedInv /\ [Next]_vars => (TypeInv /\ AccountedInv)'
  BY NextTypeInv, NextAccountedInv
<1>3. TypeInv /\ AccountedInv => OnlySchemaFailureVanishes
  BY DEF AccountedInv, Accounted, OnlySchemaFailureVanishes, FinalSections,
         FailedSections, PartialSections
<1> QED
  BY <1>1, <1>2, <1>3, PTL DEF Spec

-----------------------------------------------------------------------------
(* What a document leaves waiting has spent its retries.                   *)

(* A section whose frames nothing has been tried for.                      *)
Untried(r) ==
    /\ \A k \in Kinds : r.frame[k] = "none"
    /\ r.tries["image"] = 0 /\ r.tries["simulation"] = 0

Early(r) == r.planned /\ ~r.assembled /\ Untried(r)

Spent(r, p) ==
    r.partial /\ ~r.assembled /\ r.failed = "no" =>
        Blocked(r, p.need) # {} \/ AsksForOwnVisual(p)

(* The task of a section that is written for the first time.               *)
First(t) ==
    /\ t.node = "process" /\ t.rec = NewSection
    /\ chan[t.sec] = NewSection /\ acc[t.sec] = NewSection

(* The retry of a section that was never assembled: of its first frame.    *)
FrameRetry(t) ==
    /\ t.node = "frame" /\ t.rec.planned
    /\ t.frame = NextRetry(t.rec, plan[t.sec].need, {}) /\ t.frame # NoBlock

(* Until a section has been tried in the channels, no superstep makes its  *)
(* simulation while it needs an image.                                     *)
ChannelOK(s) ==
    /\ RecordOK(chan[s], plan[s]) /\ RecordOK(acc[s], plan[s])
    /\ Follows(chan[s], acc[s])
    /\ Early(acc[s]) => acc[s] = chan[s] \/ ~chan[s].planned
    /\ "image" \in plan[s].need /\ Early(chan[s]) /\ ~acc[s].assembled =>
          acc[s].frame["simulation"] # "ready"

(* What a running task's copy can still say against the channels.          *)
CopyOK(t) ==
    /\ RecordOK(t.rec, plan[t.sec])
    /\ t.rec.planned => chan[t.sec].planned
    /\ t.rec.assembled \/ FrameRetry(t) \/ First(t)
    /\ Early(chan[t.sec]) => t.rec.assembled \/ Untried(t.rec)
    /\ "image" \in plan[t.sec].need /\ Early(t.rec) /\ ~chan[t.sec].assembled =>
          chan[t.sec].frame["simulation"] # "ready"

(* The same of a task that was sent, against the channels to be.           *)
SentTo(A, t) ==
    /\ RecordOK(t.rec, plan[t.sec])
    /\ t.rec.planned => A[t.sec].planned
    /\ t.rec.assembled \/ FrameRetry(t)
    /\ Early(A[t.sec]) => t.rec.assembled \/ Untried(t.rec)
    /\ Early(t.rec) => Early(chan[t.sec]) \/ ~chan[t.sec].planned
    /\ "image" \in plan[t.sec].need /\ Early(t.rec) /\ ~A[t.sec].assembled =>
          A[t.sec].frame["simulation"] # "ready"

SentOK(t) == SentTo(acc, t)

RetryInv ==
    /\ \A s \in Planned : ChannelOK(s)
    /\ \A i \in DOMAIN tasks : CopyOK(tasks[i])
    /\ \A i, j \in DOMAIN tasks : First(tasks[i]) /\ tasks[j].sec = tasks[i].sec => j = i
    /\ \A i \in DOMAIN sends : SentOK(sends[i])
    /\ phase = "running" /\ sends = <<>> =>
          \/ acc = chan /\ tasks # <<>>
          \/ \A s \in Planned : Spent(acc[s], plan[s])
    /\ phase = "ended" => \A s \in Planned : Spent(chan[s], plan[s])

(* Where nothing is owed, every retry is spent.                            *)
LEMMA NothingOwedIsSpent ==
    ASSUME NEW r \in SectionRecord, NEW p \in Plans, RecordOK(r, p),
           r.planned => Owed(r, p.need) = Nothing
    PROVE  Spent(r, p)
<1> SUFFICES ASSUME r.partial, ~r.assembled, r.failed = "no", ~AsksForOwnVisual(p)
             PROVE  Blocked(r, p.need) # {}
  BY DEF Spent
<1>1. p.need \in SUBSET Kinds
  BY DEF Plans
<1>2. /\ r.planned /\ r.schema = "none" /\ r.report = NoReport /\ r.request = NoBlock
      /\ Pending(r, p.need) # {}
  BY DEF RecordOK
<1>3. NextRetry(r, p.need, {}) = NoBlock
  <2>1. Owed(r, p.need) = IF NextRetry(r, p.need, {}) = NoBlock THEN Nothing
                          ELSE <<"frame", NextRetry(r, p.need, {})>>
    BY <1>1, <1>2, OwedWithoutIssues
  <2> QED
    BY <1>2, <2>1 DEF Nothing
<1>4. Open(r, p.need, {}) = {}
  <2>1. NoBlock \notin Kinds
    BY DEF NoBlock, Kinds
  <2>2. Open(r, p.need, {}) \in SUBSET Kinds
    BY <1>1 DEF Open, Pending
  <2> QED
    BY <1>1, <1>3, <2>1, <2>2, NextRetryIs
<1>5. \A k \in Pending(r, p.need) : Exhausted(r, k)
  BY <1>4 DEF Open
<1> QED
  BY <1>2, <1>5 DEF Blocked

(* The task of a frame leaves its mark wherever it is merged.              *)
LEMMA RetryMarks ==
    ASSUME NEW c \in SectionRecord, NEW from \in SectionRecord, NEW p \in Plans,
           NEW k \in p.need, from.tries[k] = 0, NEW o, Retried(from, p, k, o)
    PROVE  /\ Merge(c, from, o).tries = [from.tries EXCEPT ![k] = 1]
           /\ ~Untried(Merge(c, from, o))
<1> DEFINE m == Merge(c, from, o)
<1>1. k \in Kinds
  BY DEF Plans
<1>2. from.tries \in [Kinds -> 0..1]
  BY DEF SectionRecord, MaxMediaFrameRetries
<1>3. o \in SectionRecord /\ o.tries = [from.tries EXCEPT ![k] = 1]
  BY DEF Retried
<1>4. /\ m.frame = (IF \A j \in Kinds : o.frame[j] = "none" THEN c.frame ELSE o.frame)
      /\ m.tries = (IF o.tries = from.tries THEN c.tries ELSE o.tries)
  BY <1>3, MergeIs DEF Merged
<1> HIDE DEF m
<1>5. o.tries[k] = 1 /\ o.tries # from.tries
  BY <1>1, <1>2, <1>3
<1>6. m.tries = o.tries /\ m.tries[k] = 1
  BY <1>4, <1>5
<1>7. CASE k = "svg"
  <2>1. o.frame[k] # "none"
    BY <1>7 DEF Retried
  <2> QED
    BY <1>1, <1>3, <1>4, <1>6, <2>1 DEF Untried, m
<1>8. CASE k # "svg"
  <2>1. k = "image" \/ k = "simulation"
    BY <1>1, <1>8 DEF Kinds
  <2> QED
    BY <1>3, <1>6, <2>1 DEF Untried, m
<1> QED
  BY <1>7, <1>8

(* A section that needs an image and was not tried is not retried for its  *)
(* simulation.                                                             *)
LEMMA EarlyRetry ==
    ASSUME NEW s \in SectionRecord, Early(s), NEW p \in Plans, "image" \in p.need,
           NEW k \in p.need, k = NextRetry(s, p.need, {}), NEW o, Retried(s, p, k, o)
    PROVE  k # "simulation" /\ o.frame["simulation"] = "none"
<1>1. p.need \in SUBSET Kinds
  BY DEF Plans
<1>2. "image" \in Open(s, p.need, {})
  <2>1. s.planned /\ s.frame["image"] = "none" /\ s.tries["image"] = 0
    BY DEF Early, Untried, Kinds
  <2> QED
    BY <2>1 DEF Open, Pending, Exhausted, MaxMediaFrameRetries
<1>3. Rank[k] <= Rank["image"]
  BY <1>1, <1>2, NextRetryIs
<1>4. k # "simulation"
  BY <1>3 DEF Rank
<1>5. s.frame["simulation"] = "none" /\ "simulation" \in Kinds
  BY DEF Early, Untried, Kinds
<1> QED
  BY <1>4, <1>5 DEF Retried

(* What is known of a section survives its tasks, in any channels that     *)
(* know of its plan.                                                       *)
LEMMA MergeOfRetry ==
    ASSUME NEW c \in SectionRecord, NEW from \in SectionRecord, NEW p \in Plans,
           RecordOK(c, p), RecordOK(from, p), from.planned, c.planned,
           NEW k \in p.need, from.tries[k] = 0, NEW o, Retried(from, p, k, o)
    PROVE  RecordOK(Merge(c, from, o), p)
<1> DEFINE m == Merge(c, from, o)
<1>1. /\ o \in SectionRecord /\ Follows(from, o)
      /\ o.content = from.content /\ o.schema = from.schema /\ o.planned
      /\ ~o.assembled => o.report = from.report /\ o.request = from.request
      /\ ~o.assembled /\ from.content = "good" =>
            o.partial /\ (Pending(o, p.need) # {} \/ AsksForOwnVisual(p))
  BY DEF Retried
<1>2. /\ m.planned = (o.planned \/ c.planned)
      /\ m.partial = (o.partial \/ c.partial)
      /\ m.assembled = (o.assembled \/ c.assembled)
      /\ m.content = (IF o.content = "none" THEN c.content ELSE o.content)
      /\ m.schema = (IF o.schema = from.schema THEN c.schema ELSE o.schema)
      /\ m.frame = (IF \A j \in Kinds : o.frame[j] = "none" THEN c.frame ELSE o.frame)
      /\ m.failed = (IF o.failed = "no" THEN c.failed ELSE o.failed)
      /\ m.report = (IF o.report = NoReport THEN c.report ELSE o.report)
      /\ m.request = (IF o.request = from.request THEN c.request ELSE o.request)
  <2>1. Merged(c, from, o, m)
    BY <1>1, MergeIs
  <2> HIDE DEF m
  <2> QED
    BY <2>1 DEF Merged
<1> HIDE DEF m
<1>3. SUFFICES ASSUME ~m.assembled
               PROVE  /\ m.report = NoReport /\ m.request = NoBlock
                      /\ m.partial <=> m.planned
                      /\ m.content = "good" /\ m.schema = "none"
                      /\ m.failed = "no" =>
                            Pending(m, p.need) # {} \/ AsksForOwnVisual(p)
  BY DEF RecordOK, m
<1>4. ~o.assembled /\ ~c.assembled /\ ~from.assembled
  BY <1>1, <1>2, <1>3 DEF Follows
<1>5. /\ from.report = NoReport /\ from.request = NoBlock
      /\ from.content = "good" /\ from.schema = "none"
      /\ c.report = NoReport /\ c.request = NoBlock
      /\ c.content = "good" /\ c.schema = "none"
      /\ c.failed = "no" => Pending(c, p.need) # {} \/ AsksForOwnVisual(p)
  BY <1>4 DEF RecordOK
<1>6. /\ m.report = NoReport /\ m.request = NoBlock
      /\ m.content = "good" /\ m.schema = "none"
  BY <1>1, <1>2, <1>4, <1>5
<1>7. m.partial /\ m.planned
  BY <1>1, <1>2, <1>4, <1>5
<1>8. ASSUME m.failed = "no"
      PROVE  Pending(m, p.need) # {} \/ AsksForOwnVisual(p)
  <2>1. c.failed = "no"
    BY <1>2, <1>8
  <2>2. CASE m.frame = c.frame
    <3>1. Pending(m, p.need) = Pending(c, p.need)
      BY <1>7, <2>2 DEF Pending
    <3> QED
      BY <1>5, <2>1, <3>1
  <2>3. CASE m.frame = o.frame
    <3>1. Pending(m, p.need) = Pending(o, p.need)
      BY <1>1, <1>7, <2>3 DEF Pending
    <3> QED
      BY <1>1, <1>4, <1>5, <3>1
  <2> QED
    BY <1>2, <2>2, <2>3
<1> QED
  BY <1>6, <1>7, <1>8

LEMMA MergeOfFirst ==
    ASSUME NEW p \in Plans, NEW o \in ProcessSection(NewSection, p)
    PROVE  RecordOK(Merge(NewSection, NewSection, o), p)
<1> DEFINE n == NewSection
           m == Merge(n, n, o)
<1>1. /\ n \in SectionRecord /\ MayRun(n)
      /\ ~n.planned /\ ~n.assembled /\ ~n.partial
      /\ n.schema = "none" /\ n.failed = "no"
      /\ n.report = NoReport /\ n.request = NoBlock
  BY NewSectionIs
<1>2. \A j \in Kinds : n.frame[j] = "none"
  BY DEF NewSection
<1> HIDE DEF n
<1>3. o \in SectionRecord /\ RecordOK(o, p)
  BY <1>1, ProcessIs DEF n
<1>4. /\ m.planned = (o.planned \/ n.planned)
      /\ m.partial = (o.partial \/ n.partial)
      /\ m.assembled = (o.assembled \/ n.assembled)
      /\ m.content = (IF o.content = "none" THEN n.content ELSE o.content)
      /\ m.schema = (IF o.schema = n.schema THEN n.schema ELSE o.schema)
      /\ m.frame = (IF \A j \in Kinds : o.frame[j] = "none" THEN n.frame ELSE o.frame)
      /\ m.failed = (IF o.failed = "no" THEN n.failed ELSE o.failed)
      /\ m.report = (IF o.report = NoReport THEN n.report ELSE o.report)
      /\ m.request = (IF o.request = n.request THEN n.request ELSE o.request)
  <2>1. Merged(n, n, o, m)
    BY <1>1, <1>3, MergeIs
  <2> HIDE DEF m
  <2> QED
    BY <2>1 DEF Merged
<1> HIDE DEF m
<1>5. /\ m.planned = o.planned /\ m.partial = o.partial /\ m.assembled = o.assembled
      /\ m.schema = o.schema /\ m.failed = o.failed
      /\ m.report = o.report /\ m.request = o.request
      /\ o.content = "good" => m.content = "good"
  BY <1>1, <1>3, <1>4 DEF SectionRecord
<1>6. Pending(m, p.need) = Pending(o, p.need)
  <2>1. \A j \in Kinds : m.frame[j] = o.frame[j]
    BY <1>2, <1>4
  <2>2. p.need \in SUBSET Kinds
    BY DEF Plans
  <2> QED
    BY <1>5, <2>1, <2>2 DEF Pending
<1>7. RecordOK(m, p)
  BY <1>3, <1>5, <1>6 DEF RecordOK
<1> QED
  BY <1>7 DEF m, n

(* A retry after which nothing is owed where its router looked leaves      *)
(* nothing to wait for where its writes meet those of other tasks.         *)
LEMMA SpentAfterRetry ==
    ASSUME NEW c \in SectionRecord, NEW a \in SectionRecord, Follows(c, a),
           NEW from \in SectionRecord, NEW p \in Plans,
           from.planned, c.planned, a.planned,
           NEW k \in p.need, k = NextRetry(from, p.need, {}), from.tries[k] = 0,
           NEW o, Retried(from, p, k, o),
           RecordOK(from, p),
           RecordOK(Merge(a, from, o), p), RecordOK(Merge(c, from, o), p),
           Owed(Merge(c, from, o), p.need) = Nothing,
           "image" \in p.need /\ Early(from) /\ ~c.assembled => c.frame["simulation"] # "ready"
    PROVE  Spent(Merge(a, from, o), p)
<1> DEFINE m == Merge(a, from, o)
           v == Merge(c, from, o)
<1>1. /\ o \in SectionRecord /\ Follows(from, o)
      /\ o.content = from.content /\ o.schema = from.schema /\ o.planned
      /\ o.tries = [from.tries EXCEPT ![k] = 1]
      /\ \/ k # "svg" /\ o.frame = from.frame
         \/ o.frame[k] # "none"
      /\ o.failed = "no" => \A j \in p.need : o.frame[j] = "ready" \/ from.tries[j] = 0
  BY DEF Retried
<1>m. Merged(a, from, o, m) /\ Merged(c, from, o, v)
  BY <1>1, MergeIs
<1>4. m.tries = o.tries /\ v.tries = o.tries
  <2>1. m.tries = o.tries
    BY <1>1, RetryMarks
  <2>2. v.tries = o.tries
    BY <1>1, RetryMarks
  <2> QED
    BY <2>1, <2>2
<1> HIDE DEF m, v
<1>2. /\ m \in SectionRecord /\ m.planned /\ Follows(a, m) /\ Follows(o, m)
      /\ m.frame = (IF \A j \in Kinds : o.frame[j] = "none" THEN a.frame ELSE o.frame)
  BY <1>1, <1>m DEF Merged
<1>3. /\ v \in SectionRecord /\ v.planned
      /\ v.partial = (o.partial \/ c.partial)
      /\ v.assembled = (o.assembled \/ c.assembled)
      /\ v.failed = (IF o.failed = "no" THEN c.failed ELSE o.failed)
      /\ v.frame = (IF \A j \in Kinds : o.frame[j] = "none" THEN c.frame ELSE o.frame)
  BY <1>1, <1>m DEF Merged
<1>5. p.need \in SUBSET Kinds /\ k \in Kinds
  BY DEF Plans
<1>6. RecordOK(m, p) /\ RecordOK(v, p) /\ Owed(v, p.need) = Nothing
  BY DEF m, v
<1>7. Spent(v, p)
  BY <1>3, <1>6, NothingOwedIsSpent
<1>8. SUFFICES ASSUME m.partial, ~m.assembled, m.failed = "no", ~AsksForOwnVisual(p)
               PROVE  Blocked(m, p.need) # {}
  BY DEF Spent, m
<1>9. /\ ~a.assembled /\ ~c.assembled /\ ~o.assembled /\ ~from.assembled
      /\ a.failed = "no" /\ c.failed = "no" /\ o.failed = "no"
  BY <1>1, <1>2, <1>8 DEF Follows
<1>10. /\ ~v.assembled /\ v.failed = "no" /\ v.partial /\ Pending(m, p.need) # {}
  BY <1>2, <1>3, <1>6, <1>8, <1>9 DEF RecordOK
<1>11. CASE m.frame = v.frame
  <2>1. Blocked(v, p.need) # {}
    BY <1>7, <1>8, <1>10 DEF Spent
  <2>2. Blocked(m, p.need) = Blocked(v, p.need)
    BY <1>2, <1>3, <1>4, <1>11 DEF Blocked, Pending, Exhausted
  <2> QED
    BY <2>1, <2>2
<1>12. CASE m.frame # v.frame
  <2>1. /\ \A j \in Kinds : o.frame[j] = "none"
        /\ m.frame = a.frame /\ v.frame = c.frame
    BY <1>2, <1>3, <1>12
  <2>2. k # "svg" /\ o.frame = from.frame
    BY <1>1, <1>5, <2>1
  <2>3. \A j \in p.need : from.tries[j] = 0
    BY <1>1, <1>5, <1>9, <2>1
  <2>4. \A j \in p.need : from.frame[j] = "none"
    BY <1>5, <2>1, <2>2
  <2>5. \A j \in p.need : j \in Open(from, p.need, {})
    BY <2>3, <2>4 DEF Open, Pending, Exhausted, MaxMediaFrameRetries
  <2>6. \A j \in p.need : Rank[k] <= Rank[j]
    BY <1>5, <2>5, NextRetryIs
  <2>7. "svg" \notin p.need
    BY <1>5, <2>2, <2>6 DEF Rank, Kinds
  <2>8. "image" \in p.need
    <3>1. PICK j \in p.slots : j \in {"svg", "image"}
      BY <1>8 DEF AsksForOwnVisual
    <3>2. j \in p.need
      BY <3>1 DEF Plans
    <3> QED
      BY <2>7, <3>1, <3>2
  <2>9. k = "image"
    BY <1>5, <2>2, <2>6, <2>8 DEF Rank, Kinds
  <2>10. SUFFICES ASSUME Blocked(m, p.need) = {} PROVE FALSE
    OBVIOUS
  <2>11. from.tries \in [Kinds -> 0..1] /\ o.tries["image"] = 1
    BY <1>1, <1>5, <2>9 DEF SectionRecord, MaxMediaFrameRetries
  <2>12. m.frame["image"] = "ready"
    <3>1. "image" \notin Blocked(m, p.need)
      BY <2>10
    <3> QED
      BY <1>2, <1>4, <2>8, <2>11, <3>1
         DEF Blocked, Pending, Exhausted, MaxMediaFrameRetries
  <2>13. PICK j \in p.need : m.frame[j] # "ready"
    BY <1>2, <1>10 DEF Pending
  <2>14. j = "simulation"
    BY <1>5, <2>7, <2>12, <2>13 DEF Kinds
  <2>15. from.tries["simulation"] = 0 /\ o.tries["simulation"] = 0
    BY <1>1, <1>5, <2>3, <2>9, <2>11, <2>13, <2>14
  <2>16. Early(from)
    <3>1. from.tries["image"] = 0
      BY <2>3, <2>8
    <3> QED
      BY <1>9, <2>1, <2>2, <2>15, <3>1 DEF Early, Untried
  <2>17. v.frame["simulation"] # "ready"
    BY <1>9, <2>1, <2>8, <2>16
  <2>18. NextRetry(v, p.need, {}) = NoBlock
    <3>1. v.schema = "none" /\ v.report = NoReport /\ v.request = NoBlock
      BY <1>3, <1>6, <1>10 DEF RecordOK
    <3>2. Owed(v, p.need) = IF NextRetry(v, p.need, {}) = NoBlock THEN Nothing
                            ELSE <<"frame", NextRetry(v, p.need, {})>>
      BY <1>3, <1>5, <3>1, OwedWithoutIssues
    <3> QED
      BY <1>6, <3>2 DEF Nothing
  <2>19. "simulation" \in Open(v, p.need, {})
    BY <1>3, <1>4, <2>13, <2>14, <2>15, <2>17
       DEF Open, Pending, Exhausted, MaxMediaFrameRetries
  <2>20. NoBlock \notin Open(v, p.need, {})
    BY <1>5 DEF Open, Pending, NoBlock, Kinds
  <2> QED
    BY <1>5, <2>18, <2>19, <2>20, NextRetryIs
<1> QED
  BY <1>11, <1>12

(* The next task of a superstep, and what its writes make of the channels  *)
(* its router sees and of those the superstep has written so far.          *)
LEMMA NextTaskIs ==
    ASSUME TypeInv, RetryInv, tasks # <<>>, NEW t, t = tasks[1], 1 \in DOMAIN tasks
    PROVE  /\ TaskOK(t) /\ CopyOK(t)
           /\ t.sec \in Planned /\ t.sec \in Sections /\ t.rec \in SectionRecord
           /\ plan[t.sec] \in Plans /\ ChannelOK(t.sec)
           /\ chan[t.sec] \in SectionRecord /\ acc[t.sec] \in SectionRecord
<1>1. TaskOK(t) /\ CopyOK(t) /\ TypeOK
  BY DEF TypeInv, RetryInv
<1>2. t.sec \in Planned /\ t.sec \in Sections /\ t.rec \in SectionRecord
  BY <1>1 DEF TaskOK, TaskRecord
<1> QED
  BY <1>1, <1>2, PlanTyped DEF RetryInv, TypeOK

LEMMA FrameTaskIs ==
    ASSUME TypeInv, RetryInv, tasks # <<>>, NEW t, t = tasks[1], 1 \in DOMAIN tasks,
           FrameRetry(t), NEW o \in Outcomes(t)
    PROVE  /\ t.frame \in plan[t.sec].need /\ t.rec.tries[t.frame] = 0
           /\ Retried(t.rec, plan[t.sec], t.frame, o)
<1>1. /\ TaskOK(t) /\ t.rec \in SectionRecord /\ plan[t.sec] \in Plans
  BY NextTaskIs
<1>2. t.node = "frame"
  BY DEF FrameRetry
<1>3. t.frame \in plan[t.sec].need /\ t.rec.tries[t.frame] = 0
  BY <1>1, <1>2 DEF TaskOK
<1>4. o \in RetryFrame(t.rec, plan[t.sec], t.frame)
  BY <1>2 DEF Outcomes
<1> QED
  BY <1>1, <1>3, <1>4, RetryFrameIs

LEMMA TaskMerges ==
    ASSUME TypeInv, RetryInv, tasks # <<>>, NEW t, t = tasks[1], 1 \in DOMAIN tasks,
           NEW o \in Outcomes(t), NEW x \in {chan[t.sec], acc[t.sec]}
    PROVE  LET m == Merge(x, t.rec, o)
           IN  /\ Merged(x, t.rec, o, m) /\ RecordOK(m, plan[t.sec])
               /\ t.rec.assembled => m.assembled
               /\ FrameRetry(t) => ~Untried(m)
               /\ x.planned /\ ~x.assembled /\ m.planned /\ ~m.assembled => FrameRetry(t)
<1> DEFINE m == Merge(x, t.rec, o)
           p == plan[t.sec]
<1>1. /\ TaskOK(t) /\ CopyOK(t) /\ TypeOK
      /\ t.rec \in SectionRecord /\ p \in Plans /\ ChannelOK(t.sec)
      /\ x \in SectionRecord
  BY NextTaskIs DEF TypeInv
<1>2. o \in SectionRecord /\ Follows(t.rec, o)
  BY <1>1, OutcomesAre
<1>3. Merged(x, t.rec, o, m)
  BY <1>1, <1>2, MergeIs
<1>4. t.rec.assembled => m.assembled
  <2> HIDE DEF m
  <2> QED
    BY <1>2, <1>3 DEF Merged, Follows
<1>5. RecordOK(x, p) /\ RecordOK(t.rec, p) /\ (t.rec.planned => x.planned)
  BY <1>1 DEF ChannelOK, CopyOK, Follows
<1>6. CASE t.rec.assembled /\ ~FrameRetry(t)
  BY <1>3, <1>4, <1>6 DEF RecordOK
<1>7. CASE FrameRetry(t)
  <2>1. /\ t.frame \in p.need /\ t.rec.tries[t.frame] = 0
        /\ Retried(t.rec, p, t.frame, o)
    BY <1>7, FrameTaskIs
  <2>2. t.rec.planned
    BY <1>7 DEF FrameRetry
  <2>3. ~Untried(m)
    BY <1>1, <2>1, RetryMarks
  <2>4. RecordOK(m, p)
    BY <1>1, <1>5, <2>1, <2>2, MergeOfRetry
  <2> QED
    BY <1>3, <1>4, <1>7, <2>3, <2>4
<1>8. CASE First(t)
  <2>1. t.rec = NewSection /\ x = NewSection /\ t.node = "process"
    BY <1>8 DEF First
  <2>2. o \in ProcessSection(NewSection, p)
    BY <2>1 DEF Outcomes
  <2>3. RecordOK(m, p)
    BY <1>1, <2>1, <2>2, MergeOfFirst
  <2>4. ~x.planned /\ ~FrameRetry(t)
    BY <2>1, NewSectionIs DEF FrameRetry
  <2> QED
    BY <1>3, <1>4, <2>3, <2>4
<1> QED
  BY <1>1, <1>6, <1>7, <1>8 DEF CopyOK

LEMMA FirstIsAlone ==
    ASSUME TypeInv, RetryInv, tasks # <<>>, NEW t, t = tasks[1], 1 \in DOMAIN tasks,
           First(t)
    PROVE  /\ ~Early(chan[t.sec]) /\ ~chan[t.sec].planned /\ chan[t.sec] = acc[t.sec]
           /\ \A i \in DOMAIN sends : sends[i].sec = t.sec =>
                 sends[i].rec.assembled /\ ~Early(sends[i].rec)
<1>1. ~chan[t.sec].planned /\ ~acc[t.sec].planned /\ chan[t.sec] = acc[t.sec]
  BY NewSectionIs DEF First
<1>2. \A i \in DOMAIN sends : SentOK(sends[i])
  BY DEF RetryInv
<1> QED
  BY <1>1, <1>2 DEF Early, SentOK, SentTo, FrameRetry

(* Where a section was not tried in the channels, the task leaves its      *)
(* simulation unmade.                                                      *)
LEMMA EarlyStaysUnmade ==
    ASSUME TypeInv, RetryInv, tasks # <<>>, NEW t, t = tasks[1], 1 \in DOMAIN tasks,
           NEW o \in Outcomes(t), Early(chan[t.sec]), "image" \in plan[t.sec].need,
           ~Merge(acc[t.sec], t.rec, o).assembled
    PROVE  Merge(acc[t.sec], t.rec, o).frame["simulation"] # "ready"
<1> DEFINE m == Merge(acc[t.sec], t.rec, o)
           p == plan[t.sec]
<1>1. /\ CopyOK(t) /\ ChannelOK(t.sec) /\ t.rec \in SectionRecord /\ p \in Plans
  BY NextTaskIs
<1>2. /\ Merged(acc[t.sec], t.rec, o, m) /\ (t.rec.assembled => m.assembled)
  BY TaskMerges
<1>3. ~m.assembled
  OBVIOUS
<1> HIDE DEF m
<1>4. ~t.rec.assembled /\ ~acc[t.sec].assembled
  BY <1>2, <1>3 DEF Merged
<1>5. ~First(t)
  BY FirstIsAlone
<1>6. FrameRetry(t) /\ Early(t.rec)
  BY <1>1, <1>4, <1>5 DEF CopyOK, FrameRetry, Early
<1>7. /\ t.frame \in p.need /\ Retried(t.rec, p, t.frame, o)
      /\ t.frame = NextRetry(t.rec, p.need, {})
  BY <1>6, FrameTaskIs DEF FrameRetry
<1>8. o.frame["simulation"] = "none"
  BY <1>1, <1>6, <1>7, EarlyRetry
<1>9. acc[t.sec].frame["simulation"] # "ready"
  BY <1>1, <1>4 DEF ChannelOK
<1>10. m.frame["simulation"] # "ready"
  BY <1>2, <1>8, <1>9 DEF Merged
<1> QED
  BY <1>10 DEF m

(* A task the router sends now.                                            *)
LEMMA SentNowOK ==
    ASSUME TypeInv, RetryInv, tasks # <<>>, NEW t, t = tasks[1], 1 \in DOMAIN tasks,
           NEW o \in Outcomes(t), Seen(t, o) \in [Sections -> SectionRecord],
           NEW i \in DOMAIN Routes(Seen(t, o)), NEW u, u = Routes(Seen(t, o))[i],
           NEW A, A = [acc EXCEPT ![t.sec] = Merge(@, t.rec, o)]
    PROVE  SentTo(A, u)
<1> DEFINE s == u.sec
           m == Merge(acc[t.sec], t.rec, o)
           v == Merge(chan[t.sec], t.rec, o)
           w == Seen(t, o)
<1>1. /\ TypeOK /\ TaskOK(t) /\ CopyOK(t) /\ t.sec \in Sections /\ ChannelOK(t.sec)
      /\ chan \in [Sections -> SectionRecord] /\ acc \in [Sections -> SectionRecord]
  BY NextTaskIs DEF TypeInv, TypeOK
<1>2. /\ TaskOK(u) /\ u.rec = w[s] /\ w[s].planned
      /\ <<u.node, u.frame>> = Owed(w[s], plan[s].need)
      /\ <<u.node, u.frame>> # Nothing
  BY <1>1, RoutesAre
<1>3. /\ s \in Planned /\ s \in Sections /\ plan[s] \in Plans /\ plan[s].need \in SUBSET Kinds
      /\ ChannelOK(s) /\ u.rec \in SectionRecord
  BY <1>1, <1>2, PlanTyped DEF TaskOK, TaskRecord, RetryInv
<1>4. /\ Merged(acc[t.sec], t.rec, o, m) /\ Merged(chan[t.sec], t.rec, o, v)
      /\ RecordOK(v, plan[t.sec])
      /\ FrameRetry(t) => ~Untried(m) /\ ~Untried(v)
      /\ t.rec.assembled => m.assembled /\ v.assembled
  <2>1. /\ Merged(acc[t.sec], t.rec, o, m) /\ (FrameRetry(t) => ~Untried(m))
        /\ (t.rec.assembled => m.assembled)
    BY TaskMerges
  <2>2. /\ Merged(chan[t.sec], t.rec, o, v) /\ (FrameRetry(t) => ~Untried(v))
        /\ (t.rec.assembled => v.assembled) /\ RecordOK(v, plan[t.sec])
    BY TaskMerges
  <2> QED
    BY <2>1, <2>2
<1>5. /\ w[s] = IF s = t.sec THEN v ELSE chan[s]
      /\ A[s] = IF s = t.sec THEN m ELSE acc[s]
  BY <1>1, <1>3 DEF Seen
<1> HIDE DEF m, v, w, s
<1>6. RecordOK(u.rec, plan[s])
  BY <1>2, <1>3, <1>4, <1>5 DEF ChannelOK
<1>7. u.rec.assembled \/ FrameRetry(u)
  <2>1. SUFFICES ASSUME ~u.rec.assembled PROVE FrameRetry(u)
    OBVIOUS
  <2>2. u.rec.schema = "none" /\ u.rec.report = NoReport /\ u.rec.request = NoBlock
    BY <1>2, <1>6, <2>1 DEF RecordOK
  <2>3. Owed(u.rec, plan[s].need) =
          IF NextRetry(u.rec, plan[s].need, {}) = NoBlock THEN Nothing
          ELSE <<"frame", NextRetry(u.rec, plan[s].need, {})>>
    BY <1>3, <2>2, OwedWithoutIssues
  <2>4. /\ NextRetry(u.rec, plan[s].need, {}) # NoBlock
        /\ <<u.node, u.frame>> = <<"frame", NextRetry(u.rec, plan[s].need, {})>>
    BY <1>2, <2>3
  <2>5. u.node = "frame" /\ u.frame = NextRetry(u.rec, plan[s].need, {})
    BY <2>4
  <2> QED
    BY <1>2, <2>4, <2>5 DEF FrameRetry, s
<1>8. u.rec.planned => A[s].planned
  <2>1. CASE s = t.sec
    BY <1>1, <1>2, <1>4, <1>5, <2>1 DEF Merged, ChannelOK, Follows
  <2>2. CASE s # t.sec
    BY <1>2, <1>3, <1>5, <2>2 DEF ChannelOK, Follows
  <2> QED
    BY <2>1, <2>2
<1>9. CASE s # t.sec
  <2>1. u.rec = chan[s] /\ A[s] = acc[s]
    BY <1>2, <1>5, <1>9
  <2>2. Early(acc[s]) => u.rec.assembled \/ Untried(u.rec)
    BY <1>2, <1>3, <2>1 DEF ChannelOK, Early
  <2>3. Early(u.rec) => Early(chan[s])
    BY <2>1
  <2>4. "image" \in plan[s].need /\ Early(u.rec) /\ ~A[s].assembled =>
           A[s].frame["simulation"] # "ready"
    BY <1>3, <2>1 DEF ChannelOK
  <2> QED
    BY <1>6, <1>7, <1>8, <2>1, <2>2, <2>3, <2>4 DEF s, SentTo
<1>10. CASE s = t.sec
  <2>1. u.rec = v /\ A[s] = m
    BY <1>2, <1>5, <1>10
  <2>2. CASE First(t)
    <3>1. ~chan[s].planned /\ v = m
      BY <1>10, <2>2, FirstIsAlone DEF m, v
    <3>2. Early(m) => m.frame["simulation"] # "ready"
      BY DEF Early, Untried, Kinds
    <3> QED
      BY <1>6, <1>7, <1>8, <2>1, <3>1, <3>2 DEF s, Early, SentTo
  <2>3. CASE FrameRetry(t) \/ t.rec.assembled
    <3>1. ~Early(m) /\ ~Early(v)
      BY <1>4, <2>3 DEF Early
    <3> QED
      BY <1>6, <1>7, <1>8, <2>1, <3>1 DEF s, SentTo
  <2> QED
    BY <1>1, <2>2, <2>3 DEF CopyOK
<1> QED
  BY <1>9, <1>10

(* A task that was sent before.                                            *)
LEMMA SentBeforeOK ==
    ASSUME TypeInv, RetryInv, tasks # <<>>, NEW t, t = tasks[1], 1 \in DOMAIN tasks,
           NEW o \in Outcomes(t),
           NEW i \in DOMAIN sends, NEW u, u = sends[i],
           NEW A, A = [acc EXCEPT ![t.sec] = Merge(@, t.rec, o)]
    PROVE  SentTo(A, u)
<1> DEFINE s == u.sec
           m == Merge(acc[t.sec], t.rec, o)
<1>1. /\ CopyOK(t) /\ t.sec \in Sections /\ acc \in [Sections -> SectionRecord]
  BY NextTaskIs DEF TypeInv, TypeOK
<1>2. SentOK(u) /\ TaskOK(u) /\ s \in Sections
  BY DEF RetryInv, TypeInv, TaskOK, TaskRecord
<1>3. /\ Merged(acc[t.sec], t.rec, o, m)
      /\ FrameRetry(t) => ~Untried(m)
      /\ t.rec.assembled => m.assembled
  BY TaskMerges
<1>4. A[s] = IF s = t.sec THEN m ELSE acc[s]
  BY <1>1, <1>2
<1> HIDE DEF m, s
<1>5. CASE s # t.sec
  BY <1>2, <1>4, <1>5 DEF SentOK, SentTo, s
<1>6. CASE s = t.sec
  <2>1. u.rec.planned => m.planned
    BY <1>2, <1>3, <1>6 DEF SentOK, SentTo, Merged, Follows, s
  <2>2. Early(m) => u.rec.assembled
    <3>1. CASE First(t)
      BY <1>6, <3>1, FirstIsAlone DEF s
    <3>2. CASE FrameRetry(t) \/ t.rec.assembled
      BY <1>3, <3>2 DEF Early
    <3> QED
      BY <1>1, <3>1, <3>2 DEF CopyOK
  <2>3. ASSUME "image" \in plan[s].need, Early(u.rec), ~m.assembled
        PROVE  m.frame["simulation"] # "ready"
    <3>1. ~First(t)
      BY <1>6, <2>3, FirstIsAlone DEF s
    <3>2. FrameRetry(t)
      BY <1>1, <1>3, <2>3, <3>1 DEF CopyOK
    <3>3. chan[s].planned
      BY <1>1, <1>6, <3>2 DEF CopyOK, FrameRetry
    <3>4. Early(chan[s])
      BY <1>2, <2>3, <3>3 DEF SentOK, SentTo, s
    <3> QED
      BY <1>6, <2>3, <3>4, EarlyStaysUnmade DEF m
  <2>4. A[s] = m
    BY <1>4, <1>6
  <2>5. /\ RecordOK(u.rec, plan[s]) /\ (u.rec.assembled \/ FrameRetry(u))
        /\ Early(u.rec) => Early(chan[s]) \/ ~chan[s].planned
    BY <1>2 DEF SentOK, SentTo, s
  <2> QED
    BY <2>1, <2>2, <2>3, <2>4, <2>5 DEF s, SentTo
<1> QED
  BY <1>5, <1>6

(* When nothing has been sent, nothing that a router saw was owed.         *)
LEMMA SilenceIsSpent ==
    ASSUME TypeInv, RetryInv, tasks # <<>>, NEW t, t = tasks[1], 1 \in DOMAIN tasks,
           phase = "running",
           NEW o \in Outcomes(t), Seen(t, o) \in [Sections -> SectionRecord],
           sends = <<>>, Routes(Seen(t, o)) = <<>>, NEW s \in Planned,
           NEW A, A = [acc EXCEPT ![t.sec] = Merge(@, t.rec, o)]
    PROVE  Spent(A[s], plan[s])
<1> DEFINE m == Merge(acc[t.sec], t.rec, o)
           v == Merge(chan[t.sec], t.rec, o)
           w == Seen(t, o)
           p == plan[s]
<1>1. /\ TypeOK /\ CopyOK(t) /\ t.sec \in Sections /\ ChannelOK(t.sec)
      /\ t.rec \in SectionRecord
      /\ chan \in [Sections -> SectionRecord] /\ acc \in [Sections -> SectionRecord]
  BY NextTaskIs DEF TypeInv, TypeOK
<1>2. s \in Sections /\ p \in Plans /\ ChannelOK(s) /\ w[s] \in SectionRecord
  BY <1>1, PlannedIs, PlanTyped DEF RetryInv
<1>3. /\ w[s] = IF s = t.sec THEN v ELSE chan[s]
      /\ A[s] = IF s = t.sec THEN m ELSE acc[s]
  BY <1>1, <1>2 DEF Seen
<1>4. w[s].planned => Owed(w[s], p.need) = Nothing
  BY <1>1, RoutesAre
<1>5. /\ Merged(acc[t.sec], t.rec, o, m) /\ RecordOK(m, plan[t.sec])
      /\ t.rec.assembled => m.assembled
  BY TaskMerges
<1>6. /\ Merged(chan[t.sec], t.rec, o, v) /\ RecordOK(v, plan[t.sec])
  BY TaskMerges
<1>7. RecordOK(w[s], p)
  BY <1>2, <1>3, <1>6 DEF ChannelOK
<1>8. Spent(w[s], p)
  <2> HIDE DEF w, p
  <2> QED
    BY <1>2, <1>4, <1>7, NothingOwedIsSpent
<1>9. CASE s # t.sec
  <2>1. w[s] = chan[s] /\ A[s] = acc[s]
    BY <1>3, <1>9
  <2>2. acc = chan \/ Spent(acc[s], p)
    BY DEF RetryInv
  <2> QED
    BY <1>8, <2>1, <2>2
<1>10. CASE s = t.sec
  <2>1. w[s] = v /\ A[s] = m
    BY <1>3, <1>10
  <2>2. CASE t.rec.assembled
    <3>1. m.assembled
      BY <1>5, <2>2
    <3> HIDE DEF m
    <3> QED
      BY <2>1, <3>1 DEF Spent
  <2>3. CASE First(t)
    <3>1. m = v
      BY <2>3, FirstIsAlone
    <3> QED
      BY <1>8, <2>1, <3>1
  <2>4. CASE FrameRetry(t)
    <3>1. /\ t.frame \in p.need /\ t.rec.tries[t.frame] = 0
          /\ Retried(t.rec, p, t.frame, o)
      BY <1>10, <2>4, FrameTaskIs
    <3>2. t.frame = NextRetry(t.rec, p.need, {}) /\ t.rec.planned
      BY <1>10, <2>4 DEF FrameRetry
    <3>3. /\ RecordOK(t.rec, p) /\ chan[s].planned /\ acc[s].planned
          /\ Follows(chan[s], acc[s])
          /\ chan[s] \in SectionRecord /\ acc[s] \in SectionRecord
          /\ "image" \in p.need /\ Early(t.rec) /\ ~chan[s].assembled =>
                chan[s].frame["simulation"] # "ready"
      BY <1>1, <1>2, <1>10, <3>2 DEF CopyOK, ChannelOK, Follows
    <3>4. v.planned
      <4> HIDE DEF v
      <4> QED
        BY <1>6, <1>10, <3>3 DEF Merged
    <3>5. Owed(v, p.need) = Nothing
      BY <1>4, <2>1, <3>4
    <3>6. Spent(Merge(acc[s], t.rec, o), p)
      <4>1. /\ RecordOK(Merge(acc[s], t.rec, o), p) /\ RecordOK(Merge(chan[s], t.rec, o), p)
            /\ Owed(Merge(chan[s], t.rec, o), p.need) = Nothing
        BY <1>5, <1>6, <1>10, <3>5
      <4> HIDE DEF p
      <4> QED
        BY <1>1, <1>2, <3>1, <3>2, <3>3, <4>1, SpentAfterRetry
    <3> QED
      BY <1>10, <2>1, <3>6
  <2> QED
    BY <1>1, <2>2, <2>3, <2>4 DEF CopyOK
<1> QED
  BY <1>9, <1>10

LEMMA InitRetryInv == Init => RetryInv
<1> SUFFICES ASSUME Init PROVE RetryInv
  OBVIOUS
<1>1. tasks = <<>> /\ sends = <<>> /\ phase = "planning" /\ outline = <<>>
  BY DEF Init
<1>2. Planned = {}
  BY <1>1 DEF Planned
<1> QED
  BY <1>1, <1>2 DEF RetryInv

LEMMA RunTaskRetryInv == TypeInv /\ TypeInv' /\ RetryInv /\ RunTask => RetryInv'
<1> SUFFICES ASSUME TypeInv, TypeInv', RetryInv, RunTask PROVE RetryInv'
  OBVIOUS
<1> DEFINE t == Head(tasks)
<1>1. /\ phase = "running" /\ tasks # <<>> /\ t = tasks[1] /\ 1 \in DOMAIN tasks
      /\ tasks' = Tail(tasks)
      /\ UNCHANGED <<plan, outline, chan, phase>>
  BY RunTaskIs
<1>2. PICK o \in Outcomes(t) :
         /\ acc' = [acc EXCEPT ![t.sec] = Merge(@, t.rec, o)]
         /\ sends' = sends \o Routes(Seen(t, o))
         /\ Seen(t, o) \in [Sections -> SectionRecord]
  BY RunTaskIs
<1> HIDE DEF t
<1> DEFINE m == Merge(acc[t.sec], t.rec, o)
<1>3. /\ TypeOK /\ TaskOK(t) /\ CopyOK(t) /\ t.sec \in Sections /\ t.sec \in Planned
      /\ acc \in [Sections -> SectionRecord]
      /\ tasks \in Seq(TaskRecord) /\ sends \in Seq(TaskRecord)
  BY <1>1, NextTaskIs DEF TypeInv, TypeOK
<1>4. /\ Merged(acc[t.sec], t.rec, o, m) /\ RecordOK(m, plan[t.sec])
      /\ FrameRetry(t) => ~Untried(m)
      /\ t.rec.assembled => m.assembled
  BY <1>1, TaskMerges
<1>5. \A s \in Sections : acc'[s] = IF s = t.sec THEN m ELSE acc[s]
  BY <1>2, <1>3
<1>6. Planned' = Planned /\ Planned \in SUBSET Sections
  BY <1>1, <1>3, PlannedIs DEF Planned
<1>7. ASSUME NEW s \in Planned PROVE ChannelOK(s)'
  <2>1. s \in Sections /\ ChannelOK(s)
    BY <1>6 DEF RetryInv
  <2>2. CASE s # t.sec
    BY <1>1, <1>5, <2>1, <2>2 DEF ChannelOK
  <2>3. CASE s = t.sec
    <3>1. acc'[s] = m /\ chan' = chan /\ plan' = plan
      BY <1>1, <1>5, <2>1, <2>3
    <3>2. "image" \in plan[s].need /\ Early(chan[s]) /\ ~m.assembled =>
             m.frame["simulation"] # "ready"
      BY <1>1, <2>3, EarlyStaysUnmade
    <3> HIDE DEF m
    <3>3. Early(m) => ~chan[s].planned
      <4>1. Early(m) => First(t)
        BY <1>3, <1>4 DEF CopyOK, Early
      <4> QED
        BY <1>1, <2>3, <4>1, FirstIsAlone
    <3>4. RecordOK(m, plan[s]) /\ RecordOK(chan[s], plan[s]) /\ Follows(chan[s], m)
      BY <1>4, <2>1, <2>3 DEF ChannelOK, Merged, Follows
    <3> QED
      BY <3>1, <3>2, <3>3, <3>4 DEF ChannelOK
  <2> QED
    BY <2>2, <2>3
<1>8. ASSUME NEW i \in DOMAIN tasks' PROVE CopyOK(tasks'[i]) /\ CopyOK(tasks[i])'
  <2>1. i + 1 \in DOMAIN tasks /\ tasks'[i] = tasks[i + 1] /\ i + 1 # 1
    <3>1. i + 1 \in DOMAIN tasks /\ tasks'[i] = tasks[i + 1]
      BY <1>1, <1>3, TailIs
    <3>2. i \in 1..Len(tasks')
      BY DEF TypeInv
    <3> QED
      BY <3>1, <3>2
  <2>2. CopyOK(tasks'[i])
    BY <2>1 DEF RetryInv
  <2>3. First(tasks'[i]) => tasks'[i].sec # t.sec
    BY <1>1, <2>1 DEF RetryInv
  <2>4. tasks'[i].sec \in Sections
    BY <1>3, <2>1 DEF TypeInv, TaskOK, TaskRecord
  <2>5. First(tasks'[i]) => First(tasks[i])'
    BY <1>1, <1>5, <2>3, <2>4 DEF First
  <2>6. FrameRetry(tasks'[i]) => FrameRetry(tasks[i])'
    BY <1>1 DEF FrameRetry
  <2> QED
    BY <1>1, <2>2, <2>5, <2>6 DEF CopyOK
<1>9. ASSUME NEW i \in DOMAIN tasks', NEW j \in DOMAIN tasks', First(tasks[i])',
             tasks'[j].sec = tasks'[i].sec
      PROVE  j = i
  <2>1. /\ i + 1 \in DOMAIN tasks /\ tasks'[i] = tasks[i + 1]
        /\ j + 1 \in DOMAIN tasks /\ tasks'[j] = tasks[j + 1]
    BY <1>1, <1>3, TailIs
  <2>2. i \in Nat /\ j \in Nat
    <3>1. DOMAIN tasks' = 1..Len(tasks')
      BY DEF TypeInv
    <3> QED
      BY <3>1
  <2>3. First(tasks[i + 1])
    <3>1. /\ tasks'[i].node = "process" /\ tasks'[i].rec = NewSection
          /\ chan[tasks'[i].sec] = NewSection
      BY <1>1, <1>9 DEF First
    <3>2. ~tasks[i + 1].rec.assembled /\ ~FrameRetry(tasks[i + 1])
      BY <2>1, <3>1, NewSectionIs DEF FrameRetry
    <3>3. CopyOK(tasks[i + 1])
      BY <2>1 DEF RetryInv
    <3> QED
      BY <3>2, <3>3 DEF CopyOK
  <2>4. j + 1 = i + 1
    BY <1>9, <2>1, <2>3 DEF RetryInv
  <2> QED
    BY <2>2, <2>4
<1>10. ASSUME NEW i \in DOMAIN sends' PROVE SentOK(sends[i])'
  <2>1. PICK u : u = sends'[i]
    OBVIOUS
  <2>2. \/ \E j \in DOMAIN sends : u = sends[j]
        \/ \E j \in DOMAIN Routes(Seen(t, o)) : u = Routes(Seen(t, o))[j]
    <3>1. Routes(Seen(t, o)) \in Seq(TaskRecord)
      BY <1>2, <1>3, RoutesAre
    <3> QED
      BY <1>2, <1>3, <2>1, <3>1, ConcatIs
  <2>3. PICK A : A = acc' /\ A = [acc EXCEPT ![t.sec] = Merge(@, t.rec, o)]
    BY <1>2
  <2>4. SentTo(A, u)
    <3>1. CASE \E j \in DOMAIN sends : u = sends[j]
      <4>1. PICK j \in DOMAIN sends : u = sends[j]
        BY <3>1
      <4> QED
        BY <1>1, <2>3, <4>1, SentBeforeOK
    <3>2. CASE \E j \in DOMAIN Routes(Seen(t, o)) : u = Routes(Seen(t, o))[j]
      <4>1. PICK j \in DOMAIN Routes(Seen(t, o)) : u = Routes(Seen(t, o))[j]
        BY <3>2
      <4> QED
        BY <1>1, <1>2, <2>3, <4>1, SentNowOK
    <3> QED
      BY <2>2, <3>1, <3>2
  <2>5. FrameRetry(u) => FrameRetry(sends[i])'
    BY <1>1, <2>1 DEF FrameRetry
  <2> QED
    BY <1>1, <2>1, <2>3, <2>4, <2>5 DEF SentOK, SentTo
<1>11. ASSUME sends' = <<>>, NEW s \in Planned PROVE Spent(acc'[s], plan'[s])
  <2>1. Routes(Seen(t, o)) \in Seq(TaskRecord)
    BY <1>2, <1>3, RoutesAre
  <2>2. sends = <<>> /\ Routes(Seen(t, o)) = <<>>
    BY <1>2, <1>3, <1>11, <2>1, ConcatIs
  <2>3. PICK A : A = acc' /\ A = [acc EXCEPT ![t.sec] = Merge(@, t.rec, o)]
    BY <1>2
  <2>4. Spent(A[s], plan[s])
    BY <1>1, <1>2, <2>2, <2>3, SilenceIsSpent
  <2> QED
    BY <1>1, <2>3, <2>4
<1>12. /\ \A s \in Planned' : ChannelOK(s)'
       /\ \A i \in DOMAIN tasks' : CopyOK(tasks[i])'
       /\ \A i \in DOMAIN sends' : SentOK(sends[i])'
       /\ sends' = <<>> => \A s \in Planned' : Spent(acc'[s], plan'[s])
  BY <1>6, <1>7, <1>8, <1>10, <1>11
<1>13. \A i, j \in DOMAIN tasks' :
          First(tasks[i])' /\ tasks'[j].sec = tasks'[i].sec => j = i
  BY <1>9
<1>14. phase' = "running"
  BY <1>1
<1> QED
  BY <1>12, <1>13, <1>14 DEF RetryInv

LEMMA NextRetryInv == TypeInv /\ TypeInv' /\ RetryInv /\ [Next]_vars => RetryInv'
<1> SUFFICES ASSUME TypeInv, TypeInv', RetryInv, [Next]_vars PROVE RetryInv'
  OBVIOUS
<1>1. CASE PlanOutline
  <2>1. PICK n \in Outlines :
          /\ outline' = [i \in 1..n |-> i]
          /\ tasks' = [i \in 1..n |-> Task(i, <<"process", "none">>, NewSection)]
          /\ phase' = IF n = 0 THEN "ended" ELSE "running"
    BY <1>1 DEF PlanOutline
  <2>2. /\ phase = "planning" /\ UNCHANGED <<plan, chan, acc, sends>>
        /\ chan = [s \in Sections |-> NewSection] /\ acc = chan /\ sends = <<>>
    BY <1>1 DEF PlanOutline, TypeInv
  <2>3. Planned' = 1..n /\ 1..n \subseteq Sections /\ n \in Nat
    BY <2>1, BoundsAssumption DEF Planned, Outlines, Sections
  <2>4. ~Early(NewSection)
    BY NewSectionIs DEF Early
  <2>5. ASSUME NEW s \in 1..n PROVE ChannelOK(s)'
    <3>1. chan'[s] = NewSection /\ acc'[s] = NewSection
      BY <2>2, <2>3
    <3>2. RecordOK(NewSection, plan'[s]) /\ Follows(NewSection, NewSection)
      BY NewSectionIs DEF Follows
    <3> QED
      BY <2>4, <3>1, <3>2 DEF ChannelOK
  <2>6. DOMAIN tasks' = 1..n
    BY <2>1
  <2>7. ASSUME NEW i \in 1..n
        PROVE  CopyOK(tasks[i])' /\ tasks'[i].sec = i
    <3>1. /\ tasks'[i].sec = i /\ tasks'[i].node = "process"
          /\ tasks'[i].rec = NewSection
      BY <2>1 DEF Task
    <3>2. chan'[i] = NewSection /\ acc'[i] = NewSection
      BY <2>2, <2>3
    <3>3. First(tasks[i])'
      BY <3>1, <3>2 DEF First
    <3>4. RecordOK(NewSection, plan'[i]) /\ ~NewSection.planned
      BY NewSectionIs
    <3> QED
      BY <2>4, <3>1, <3>2, <3>3, <3>4 DEF CopyOK
  <2>8. tasks' = <<>> => n = 0
    <3>1. ASSUME n # 0 PROVE 1 \in DOMAIN tasks'
      BY <2>3, <2>6, <3>1
    <3> QED
      BY <3>1
  <2>9. n = 0 => Planned' = {}
    BY <2>3
  <2>10. /\ \A s \in Planned' : ChannelOK(s)'
         /\ \A i \in DOMAIN tasks' : CopyOK(tasks[i])'
    BY <2>3, <2>5, <2>6, <2>7
  <2>11. \A i, j \in DOMAIN tasks' :
            First(tasks[i])' /\ tasks'[j].sec = tasks'[i].sec => j = i
    BY <2>6, <2>7
  <2>12. sends' = <<>> /\ (phase' = "running" => acc' = chan' /\ tasks' # <<>>)
    BY <2>1, <2>2, <2>8
  <2>13. phase' = "ended" => Planned' = {}
    BY <2>1, <2>9
  <2>14. \A i \in DOMAIN sends' : SentOK(sends[i])'
    BY <2>12
  <2> QED
    BY <2>10, <2>11, <2>12, <2>13, <2>14 DEF RetryInv
<1>2. CASE RunTask
  BY <1>2, RunTaskRetryInv
<1>3. CASE EndSuperstep
  <2>1. /\ chan' = acc /\ acc' = acc /\ tasks' = sends /\ sends' = <<>>
        /\ phase' = (IF sends = <<>> THEN "ended" ELSE "running")
        /\ phase = "running" /\ tasks = <<>>
        /\ UNCHANGED <<plan, outline>>
    BY <1>3 DEF EndSuperstep
  <2>2. Planned' = Planned
    BY <2>1 DEF Planned
  <2>3. ASSUME NEW s \in Planned PROVE ChannelOK(s)'
    <3>1. RecordOK(acc[s], plan[s])
      BY DEF RetryInv, ChannelOK
    <3>2. Early(acc[s]) => acc[s].frame["simulation"] # "ready"
      BY DEF Early, Untried, Kinds
    <3>3. Follows(acc[s], acc[s])
      BY DEF Follows
    <3> QED
      BY <2>1, <3>1, <3>2, <3>3 DEF ChannelOK
  <2>4. ASSUME NEW i \in DOMAIN sends PROVE CopyOK(tasks[i])' /\ ~First(tasks[i])'
    <3>1. SentOK(sends[i])
      BY DEF RetryInv
    <3>2. tasks'[i] = sends[i] /\ chan' = acc /\ plan' = plan
      BY <2>1
    <3>3. FrameRetry(sends[i]) => FrameRetry(tasks[i])'
      BY <3>2 DEF FrameRetry
    <3>4. ~First(tasks[i])'
      BY <3>1, <3>2, NewSectionIs DEF First, SentOK, SentTo, FrameRetry
    <3> QED
      BY <3>1, <3>2, <3>3, <3>4 DEF CopyOK, SentOK, SentTo
  <2>5. sends = <<>> => \A s \in Planned : Spent(acc[s], plan[s])
    BY <2>1 DEF RetryInv
  <2> QED
    BY <2>1, <2>2, <2>3, <2>4, <2>5 DEF RetryInv
<1>4. CASE Cancel
  <2>1. /\ acc' = chan /\ tasks' = <<>> /\ sends' = <<>> /\ phase' = "cancelled"
        /\ UNCHANGED <<plan, outline, chan>>
    BY <1>4 DEF Cancel
  <2>2. Planned' = Planned
    BY <2>1 DEF Planned
  <2>3. ASSUME NEW s \in Planned PROVE ChannelOK(s)'
    <3>1. RecordOK(chan[s], plan[s])
      BY DEF RetryInv, ChannelOK
    <3>2. Early(chan[s]) => chan[s].frame["simulation"] # "ready"
      BY DEF Early, Untried, Kinds
    <3>3. Follows(chan[s], chan[s])
      BY DEF Follows
    <3> QED
      BY <2>1, <3>1, <3>2, <3>3 DEF ChannelOK
  <2> QED
    BY <2>1, <2>2, <2>3 DEF RetryInv
<1>5. CASE UNCHANGED vars
  <2>1. UNCHANGED <<plan, outline, chan, acc, tasks, sends, phase, ran>>
    BY <1>5 DEF vars
  <2>2. Planned' = Planned
    BY <2>1 DEF Planned
  <2> QED
    BY <2>1, <2>2
       DEF RetryInv, ChannelOK, CopyOK, SentOK, SentTo, First, FrameRetry
<1> QED
  BY <1>1, <1>2, <1>3, <1>4, <1>5 DEF Next

(* What the graph has spent on a section of the final document: whatever   *)
(* stale copies its tasks wrote over each other, one that is left waiting  *)
(* has a required frame whose retry was used up, or asks for a visual that *)
(* no slot makes.                                                          *)
THEOREM LeftWaitingIsAlwaysSpent == Spec => []LeftWaitingIsSpent
<1>1. Init => TypeInv /\ RetryInv
  BY InitTypeInv, InitRetryInv
<1>2. TypeInv /\ RetryInv /\ [Next]_vars => (TypeInv /\ RetryInv)'
  BY NextTypeInv, NextRetryInv
<1>3. TypeInv /\ RetryInv => LeftWaitingIsSpent
  BY DEF RetryInv, Spent, LeftWaitingIsSpent, PartialSections, AsksForOwnVisual
<1> QED
  BY <1>1, <1>2, <1>3, PTL DEF Spec

-----------------------------------------------------------------------------
(* What is owed when the graph ends.                                       *)

(* A section is owed nothing, to a router that sees it so.                 *)
Settled(c, p) == c.planned => Owed(c, p.need) = Nothing

Started == \E u \in Planned : ran[u] # 0

(* Every router of the superstep sees all the sections, the other tasks'   *)
(* writes apart: while none of them has sent anything, a section that at   *)
(* most one task worked on is owed nothing in the channels to come.        *)
OwedInv ==
    /\ phase = "planning" => ran = NoneRan
    /\ phase = "running" =>
          /\ tasks # <<>> \/ Started
          /\ \A s \in Planned : ran[s] = 0 => acc[s] = chan[s]
          /\ Started /\ sends = <<>> =>
                \A s \in Planned : ran[s] # 2 => Settled(acc[s], plan[s])
    /\ OnlyDuplicatesLeaveOwed

LEMMA InitOwedInv == Init => OwedInv
<1> SUFFICES ASSUME Init PROVE OwedInv
  OBVIOUS
<1>1. phase = "planning" /\ ran = NoneRan
  BY DEF Init
<1> QED
  BY <1>1 DEF OwedInv, OnlyDuplicatesLeaveOwed

LEMMA RunTaskOwedInv == TypeInv /\ OwedInv /\ RunTask => OwedInv'
<1> SUFFICES ASSUME TypeInv, OwedInv, RunTask PROVE OwedInv'
  OBVIOUS
<1> DEFINE t == Head(tasks)
<1>1. /\ phase = "running" /\ TaskOK(t)
      /\ ran' = [ran EXCEPT ![t.sec] = IF @ = 0 THEN 1 ELSE 2]
      /\ UNCHANGED <<plan, outline, chan, phase>>
  BY RunTaskIs
<1>2. PICK o \in Outcomes(t) :
         /\ acc' = [acc EXCEPT ![t.sec] = Merge(@, t.rec, o)]
         /\ sends' = sends \o Routes(Seen(t, o))
         /\ Seen(t, o) \in [Sections -> SectionRecord]
  BY RunTaskIs
<1> HIDE DEF t
<1>3. /\ TypeOK /\ t.sec \in Planned /\ Planned \in SUBSET Sections /\ Planned' = Planned
      /\ chan \in [Sections -> SectionRecord] /\ acc \in [Sections -> SectionRecord]
      /\ ran \in [Sections -> 0..2] /\ sends \in Seq(TaskRecord)
  BY <1>1, PlannedIs DEF TypeInv, TypeOK, TaskOK, Planned
<1>4. ran'[t.sec] = (IF ran[t.sec] = 0 THEN 1 ELSE 2)
      /\ \A s \in Planned : s # t.sec => ran'[s] = ran[s] /\ acc'[s] = acc[s]
  BY <1>1, <1>2, <1>3
<1>5. acc'[t.sec] = Merge(acc[t.sec], t.rec, o)
  BY <1>2, <1>3
<1>6. Started'
  BY <1>3, <1>4 DEF Started
<1>7. \A s \in Planned : ran'[s] = 0 => acc'[s] = chan'[s]
  BY <1>1, <1>4 DEF OwedInv
<1>8. ASSUME sends' = <<>>, NEW s \in Planned, ran'[s] # 2
      PROVE  Settled(acc'[s], plan[s])
  <2>1. sends = <<>> /\ Routes(Seen(t, o)) = <<>>
    <3>1. Routes(Seen(t, o)) \in Seq(TaskRecord)
      BY <1>2, <1>3, RoutesAre
    <3> QED
      BY <1>2, <1>3, <1>8, <3>1, ConcatIs
  <2>2. Settled(Seen(t, o)[s], plan[s])
    BY <1>2, <1>3, <2>1, RoutesAre DEF Settled
  <2>3. CASE s = t.sec
    <3>1. acc[s] = chan[s]
      BY <1>1, <1>4, <1>8, <2>3 DEF OwedInv
    <3>2. acc'[s] = Seen(t, o)[s]
      BY <1>3, <1>5, <2>3, <3>1 DEF Seen
    <3> QED
      BY <2>2, <3>2
  <2>4. CASE s # t.sec /\ ran[s] = 0
    <3>1. acc'[s] = chan[s]
      BY <1>1, <1>4, <2>4 DEF OwedInv
    <3>2. acc'[s] = Seen(t, o)[s]
      BY <1>3, <2>4, <3>1 DEF Seen
    <3> QED
      BY <2>2, <3>2
  <2>5. CASE s # t.sec /\ ran[s] # 0
    <3>1. Started /\ ran[s] # 2 /\ acc'[s] = acc[s]
      BY <1>4, <1>8, <2>5 DEF Started
    <3> QED
      BY <1>1, <2>1, <3>1 DEF OwedInv
  <2> QED
    BY <2>3, <2>4, <2>5
<1>9. phase' = "running" /\ plan' = plan
  BY <1>1
<1> QED
  BY <1>3, <1>6, <1>7, <1>8, <1>9 DEF OwedInv, OnlyDuplicatesLeaveOwed

LEMMA NextOwedInv == TypeInv /\ OwedInv /\ [Next]_vars => OwedInv'
<1> SUFFICES ASSUME TypeInv, OwedInv, [Next]_vars PROVE OwedInv'
  OBVIOUS
<1>1. CASE PlanOutline
  <2>1. PICK n \in Outlines :
          /\ outline' = [i \in 1..n |-> i]
          /\ tasks' = [i \in 1..n |-> Task(i, <<"process", "none">>, NewSection)]
          /\ phase' = IF n = 0 THEN "ended" ELSE "running"
    BY <1>1 DEF PlanOutline
  <2>2. /\ UNCHANGED <<plan, chan, acc, sends, ran>>
        /\ ran = NoneRan /\ acc = chan
    BY <1>1 DEF PlanOutline, TypeInv, OwedInv
  <2>3. Planned' = 1..n /\ 1..n \subseteq Sections /\ n \in Nat
    BY <2>1, BoundsAssumption DEF Planned, Outlines, Sections
  <2>4. CASE n = 0
    BY <2>1, <2>3, <2>4 DEF OwedInv, OnlyDuplicatesLeaveOwed
  <2>5. CASE n # 0
    <3>1. 1 \in DOMAIN tasks'
      BY <2>1, <2>3, <2>5
    <3>2. tasks' # <<>> /\ phase' = "running"
      BY <2>1, <2>5, <3>1
    <3>3. ~Started'
      BY <2>2, <2>3 DEF Started, NoneRan
    <3> QED
      BY <2>2, <3>2, <3>3 DEF OwedInv, OnlyDuplicatesLeaveOwed
  <2> QED
    BY <2>4, <2>5
<1>2. CASE RunTask
  BY <1>2, RunTaskOwedInv
<1>3. CASE EndSuperstep
  <2>1. /\ phase = "running" /\ tasks = <<>>
        /\ chan' = acc /\ tasks' = sends
        /\ phase' = (IF sends = <<>> THEN "ended" ELSE "running")
        /\ ran' = (IF sends = <<>> THEN ran ELSE NoneRan)
        /\ UNCHANGED <<plan, outline, acc>>
    BY <1>3 DEF EndSuperstep
  <2>2. Planned' = Planned /\ Planned \in SUBSET Sections
    BY <2>1, PlannedIs DEF Planned, TypeInv
  <2>3. CASE sends = <<>>
    <3>1. \A s \in Planned : ran[s] # 2 => Settled(acc[s], plan[s])
      BY <2>1, <2>3 DEF OwedInv
    <3>2. phase' = "ended" /\ ran' = ran /\ chan' = acc /\ plan' = plan
      BY <2>1, <2>3
    <3>3. OnlyDuplicatesLeaveOwed'
      BY <2>2, <3>1, <3>2 DEF OnlyDuplicatesLeaveOwed, Settled
    <3> QED
      BY <3>2, <3>3 DEF OwedInv
  <2>4. CASE sends # <<>>
    <3>1. ~Started'
      BY <2>1, <2>2, <2>4 DEF Started, NoneRan
    <3>2. phase' = "running" /\ tasks' # <<>> /\ acc' = chan'
      BY <2>1, <2>4
    <3> QED
      BY <3>1, <3>2 DEF OwedInv, OnlyDuplicatesLeaveOwed
  <2> QED
    BY <2>3, <2>4
<1>4. CASE Cancel
  <2>1. phase' = "cancelled"
    BY <1>4 DEF Cancel
  <2> QED
    BY <2>1 DEF OwedInv, OnlyDuplicatesLeaveOwed
<1>5. CASE UNCHANGED vars
  <2>1. UNCHANGED <<plan, outline, chan, acc, tasks, sends, phase, ran>>
    BY <1>5 DEF vars
  <2>2. Planned' = Planned
    BY <2>1 DEF Planned
  <2> QED
    BY <2>1, <2>2 DEF OwedInv, OnlyDuplicatesLeaveOwed, Started, Settled
<1> QED
  BY <1>1, <1>2, <1>3, <1>4, <1>5 DEF Next

(* Whatever the graph leaves owed when it ends, it leaves to a section     *)
(* that several tasks worked on in the last superstep: what a single task  *)
(* does, and what none touched, the routers of the superstep have seen.    *)
THEOREM OnlyDuplicatesEverLeaveOwed == Spec => []OnlyDuplicatesLeaveOwed
<1>1. Init => TypeInv /\ OwedInv
  BY InitTypeInv, InitOwedInv
<1>2. TypeInv /\ OwedInv /\ [Next]_vars => (TypeInv /\ OwedInv)'
  BY NextTypeInv, NextOwedInv
<1>3. TypeInv /\ OwedInv => OnlyDuplicatesLeaveOwed
  BY DEF OwedInv
<1> QED
  BY <1>1, <1>2, <1>3, PTL DEF Spec

-----------------------------------------------------------------------------
(* What GenerationJob assumes of the graph.                                *)

Job == INSTANCE GenerationDocument

(* The keys of failed_sections and of partial_sections.                    *)
BadSections   == {s \in Planned : chan[s].failed # "no"}
DraftSections == {s \in Planned : chan[s].partial}

ResultIsTheJobs ==
    phase = "ended" =>
        Job!ResultDocument(Planned, FinalSections, BadSections, DraftSections) =
            [status   |-> Status,          manifest |-> Planned,
             sections |-> FinalSections,   partial  |-> PartialSections,
             failed   |-> FailedSections]

LEMMA EmptyIsAnError ==
    ASSUME TypeOK, OnlySchemaFailureVanishes, phase = "ended",
           FinalSections = {}, PartialSections = {}
    PROVE  FailedSections # {} \/ HasTerminalError
<1>1. CASE outline = <<>>
  BY <1>1 DEF HasTerminalError
<1>2. CASE Planned = {}
  <2>1. PICK n \in 0..MaxSections : outline = [i \in 1..n |-> i] /\ Planned = 1..n
    BY OutlineIs
  <2>2. n = 0
    BY <1>2, <2>1, BoundsAssumption
  <2> QED
    BY <2>1, <2>2 DEF HasTerminalError
<1>3. CASE Planned # {}
  <2>1. PICK s : s \in Planned
    BY <1>3
  <2>2. CASE s \in FailedSections
    BY <2>2
  <2>3. CASE s \notin FailedSections
    <3>1. chan[s].schema # "none"
      BY <2>1, <2>3 DEF OnlySchemaFailureVanishes
    <3> QED
      BY <2>1, <3>1 DEF HasTerminalError
  <2> QED
    BY <2>2, <2>3
<1> QED
  BY <1>1, <1>2, <1>3

(* The document of a run is the one GenerationJob takes for its result:    *)
(* the code calls a run failed that has neither a section nor a draft, but *)
(* has an error or a failed section, and a run without the first two       *)
(* always has one of the others.                                           *)
THEOREM ResultIsAlwaysTheJobs == Spec => []ResultIsTheJobs
<1>1. TypeOK /\ OnlySchemaFailureVanishes => ResultIsTheJobs
  <2>1. SUFFICES ASSUME TypeOK, OnlySchemaFailureVanishes, phase = "ended"
                 PROVE  ResultIsTheJobs
    BY DEF ResultIsTheJobs
  <2>2. /\ (DraftSections \ FinalSections) \ BadSections = PartialSections
        /\ BadSections \ FinalSections = FailedSections
    BY DEF DraftSections, BadSections, FinalSections, PartialSections, FailedSections
  <2> DEFINE whole == /\ Cardinality(FinalSections) = PlannedCount
                      /\ PartialSections = {} /\ FailedSections = {}
             empty == FinalSections = {} /\ PartialSections = {}
             status == IF whole THEN "completed" ELSE IF empty THEN "failed" ELSE "partial"
  <2>3. Job!ResultDocument(Planned, FinalSections, BadSections, DraftSections) =
            [status   |-> status,        manifest |-> Planned,
             sections |-> FinalSections, partial  |-> PartialSections,
             failed   |-> FailedSections]
    BY <2>2 DEF Job!ResultDocument, PlannedCount, Job!Cardinality, Cardinality
  <2>4. empty => FailedSections # {} \/ HasTerminalError
    BY <2>1, EmptyIsAnError
  <2>5. ~(whole /\ empty)
    <3>1. Cardinality({}) = 0
      BY FS_EmptySet
    <3>2. PlannedCount # 0
      BY BoundsAssumption DEF PlannedCount
    <3> QED
      BY <3>1, <3>2
  <2>6. Status = status
    BY <2>4, <2>5 DEF Status
  <2> QED
    BY <2>3, <2>6 DEF ResultIsTheJobs
<1> QED
  BY <1>1, TypesHold, OnlySchemaFailureEverVanishes, PTL

(* While a run goes on nothing it has to show for a section is taken back, *)
(* whatever older copies of the state its tasks started from: GenerationJob*)
(* only ever adds to what is assembled, failed and drafted.                *)
NothingTakenBack ==
    [][/\ FinalSections \subseteq FinalSections'
       /\ BadSections \subseteq BadSections'
       /\ DraftSections \subseteq DraftSections']_vars

THEOREM NothingIsTakenBack == Spec => NothingTakenBack
<1> DEFINE Kept == /\ FinalSections \subseteq FinalSections'
                   /\ BadSections \subseteq BadSections'
                   /\ DraftSections \subseteq DraftSections'
<1>1. Init => TypeInv /\ RetryInv
  BY InitTypeInv, InitRetryInv
<1>2. TypeInv /\ RetryInv /\ [Next]_vars => (TypeInv /\ RetryInv)'
  BY NextTypeInv, NextRetryInv
<1>3. TypeInv /\ RetryInv /\ [Next]_vars => [Kept]_vars
  <2>1. SUFFICES ASSUME TypeInv, RetryInv, Next PROVE Kept
    OBVIOUS
  <2>2. CASE PlanOutline
    <3>1. chan = [s \in Sections |-> NewSection] /\ Planned \in SUBSET Sections
      BY <2>1, <2>2, PlannedIs DEF PlanOutline, TypeInv
    <3>2. \A s \in Planned : ~chan[s].assembled /\ chan[s].failed = "no" /\ ~chan[s].partial
      BY <3>1 DEF NewSection
    <3> QED
      BY <3>2 DEF FinalSections, BadSections, DraftSections
  <2>3. CASE EndSuperstep
    <3>1. chan' = acc /\ Planned' = Planned
      BY <2>3 DEF EndSuperstep, Planned
    <3>2. \A s \in Planned : Follows(chan[s], chan'[s])
      BY <2>1, <3>1 DEF RetryInv, ChannelOK
    <3> QED
      BY <3>1, <3>2 DEF Follows, FinalSections, BadSections, DraftSections
  <2>4. CASE RunTask \/ Cancel
    <3>1. chan' = chan /\ Planned' = Planned
      BY <2>4 DEF RunTask, Cancel, Planned
    <3> QED
      BY <3>1 DEF FinalSections, BadSections, DraftSections
  <2> QED
    BY <2>1, <2>2, <2>3, <2>4 DEF Next
<1> QED
  BY <1>1, <1>2, <1>3, PTL DEF Spec, NothingTakenBack

=============================================================================
