--------------------------- MODULE Planning_proofs --------------------------
(***************************************************************************)
(* What a plan, the slots of a section and what the recorder is told of    *)
(* them have in common, for every brief, every content of a section and    *)
(* whatever the models answer; and that every ready brief can be planned.  *)
(***************************************************************************)
EXTENDS Planning, WellFoundedInduction, FiniteSetTheorems, SequenceTheorems, TLAPS

-----------------------------------------------------------------------------
(* Lists and positions.                                                    *)

LEMMA LeastOf ==
    ASSUME NEW T \in SUBSET Nat, T # {}
    PROVE  \E n \in T : \A m \in T : n <= m
<1> DEFINE R == {ss \in Nat \X Nat : ss[1] < ss[2]}
<1>1. IsWellFoundedOn(R, Nat)
  BY NatLessThanWellFounded, Zenon DEF OpToRel
<1>2. \E n \in T : \A m \in T : ~(<<m, n>> \in R)
  <2> HIDE DEF R
  <2> QED
    BY <1>1, WFMin, Zenon
<1>3. \A n, m \in T : ~(<<m, n>> \in R) => n <= m
  OBVIOUS
<1> QED
  BY <1>2, <1>3

LEMMA SubsetIsFinite ==
    ASSUME NEW n \in Nat, NEW S \in SUBSET (1..n)
    PROVE  IsFiniteSet(S) /\ Cardinality(S) \in Nat /\ Cardinality(S) <= n
<1>1. IsFiniteSet(1..n) /\ Cardinality(1..n) = n
  BY FS_Interval
<1> QED
  BY <1>1, FS_Subset, FS_CardinalityType

(* A set of positions has a k-th one, and every one of them is some k-th.  *)
LEMMA NthIs ==
    ASSUME NEW n \in Nat, NEW S \in SUBSET (1..n), NEW k \in 1..Cardinality(S)
    PROVE  Nth(S, k) \in S /\ Cardinality({j \in S : j <= Nth(S, k)}) = k
<1> DEFINE Upto(i) == {j \in S : j <= i}
           r(i)    == Cardinality(Upto(i))
           T       == {i \in Nat : r(i) >= k}
<1>0. /\ \A j \in S : j \in Nat /\ 1 <= j /\ j <= n
      /\ k \in Nat /\ 1 <= k
  OBVIOUS
<1>1. \A i : Upto(i) \in SUBSET (1..n) /\ IsFiniteSet(Upto(i)) /\ r(i) \in Nat
  <2>1. TAKE i
  <2>2. Upto(i) \in SUBSET (1..n)
    OBVIOUS
  <2> QED
    BY <2>2, SubsetIsFinite
<1>2. Cardinality(S) \in Nat
  BY SubsetIsFinite
<1>T. \A i \in Nat : i \in T <=> r(i) >= k
  BY Zenon
<1>N. T \in SUBSET Nat
  BY Zenon
<1> HIDE DEF T
<1>3. n \in T
  <2>1. Upto(n) = S
    BY <1>0
  <2>2. r(n) >= k
    BY <1>2, <2>1
  <2> QED
    BY <1>T, <2>2, Zenon
<1>4. PICK m \in T : \A i \in T : m <= i
  BY <1>3, <1>N, LeastOf
<1>M. m \in Nat /\ r(m) >= k
  BY <1>T, <1>N, <1>4, Zenon
<1>5. m # 0
  <2>1. SUFFICES ASSUME m = 0 PROVE FALSE
    OBVIOUS
  <2>2. Upto(0) = {}
    <3>1. \A j \in S : ~(j <= 0)
      BY <1>0
    <3> QED
      BY <3>1
  <2>3. r(0) = 0
    BY <2>2, FS_EmptySet
  <2> QED
    BY <1>0, <1>M, <2>1, <2>3
<1>6. m \in Nat /\ m - 1 \in Nat /\ r(m) >= k
  BY <1>M, <1>5
<1>7. r(m - 1) < k
  <2>1. m - 1 \notin T
    BY <1>4, <1>6
  <2>2. ~(r(m - 1) >= k) /\ r(m - 1) \in Nat
    BY <1>1, <1>6, <1>T, <2>1
  <2> QED
    BY <1>0, <2>2
<1>8. m \in S
  <2>1. SUFFICES ASSUME m \notin S PROVE FALSE
    OBVIOUS
  <2>2. Upto(m) = Upto(m - 1)
    <3>1. \A j \in S : j <= m <=> j <= m - 1
      BY <1>0, <1>6, <2>1
    <3> QED
      BY <3>1
  <2>3. r(m) = r(m - 1)
    BY <2>2
  <2> QED
    BY <1>0, <1>1, <1>6, <1>7, <2>3
<1>9. r(m) = k
  <2>1. Upto(m) = Upto(m - 1) \cup {m} /\ m \notin Upto(m - 1)
    <3>1. \A j \in S : j <= m <=> j <= m - 1 \/ j = m
      BY <1>0, <1>6
    <3>2. ~(m <= m - 1)
      BY <1>6
    <3> QED
      BY <1>8, <3>1, <3>2
  <2>2. r(m) = r(m - 1) + 1
    BY <1>1, <2>1, FS_AddElement
  <2>3. r(m) \in Nat /\ r(m - 1) \in Nat
    BY <1>1
  <2> QED
    BY <1>0, <1>6, <1>7, <2>2, <2>3
<1> QED
  BY <1>8, <1>9 DEF Nth

LEMMA EveryNth ==
    ASSUME NEW n \in Nat, NEW S \in SUBSET (1..n), NEW i \in S
    PROVE  \E k \in 1..Cardinality(S) : Nth(S, k) = i
<1> DEFINE Upto(a) == {j \in S : j <= a}
           k == Cardinality(Upto(i))
<1>0. \A j \in S : j \in Nat
  OBVIOUS
<1>1. /\ \A a : IsFiniteSet(Upto(a)) /\ Cardinality(Upto(a)) \in Nat
      /\ IsFiniteSet(S) /\ Cardinality(S) \in Nat
  <2>1. \A a : Upto(a) \in SUBSET (1..n)
    OBVIOUS
  <2> QED
    BY <2>1, SubsetIsFinite
<1>2. k \in 1..Cardinality(S)
  <2>1. Upto(i) \subseteq S /\ i \in Upto(i)
    BY <1>0
  <2>2. k <= Cardinality(S)
    BY <1>1, <2>1, FS_Subset
  <2>3. k # 0
    BY <1>1, <2>1, FS_EmptySet
  <2> QED
    BY <1>1, <2>2, <2>3
<1>3. Nth(S, k) \in S /\ Cardinality(Upto(Nth(S, k))) = k
  BY <1>2, NthIs
<1>4. ASSUME NEW a \in S, NEW c \in S, a < c
      PROVE  Cardinality(Upto(a)) # Cardinality(Upto(c))
  <2>1. /\ \A j \in S : j <= a => j <= c
        /\ c <= c /\ ~(c <= a)
    BY <1>0, <1>4
  <2>2. Upto(a) \subseteq Upto(c) /\ c \in Upto(c) /\ c \notin Upto(a)
    BY <2>1
  <2> QED
    BY <1>1, <2>2, FS_Subset
<1>5. i \in Nat /\ Nth(S, k) \in Nat
  BY <1>0, <1>3
<1>6. ~(i < Nth(S, k)) /\ ~(Nth(S, k) < i)
  BY <1>3, <1>4
<1> QED
  BY <1>2, <1>5, <1>6

LEMMA AtIs ==
    ASSUME NEW V, NEW s \in Seq(V), NEW P \in SUBSET DOMAIN s
    PROVE  /\ At(s, P) \in Seq(V)
           /\ IsFiniteSet(P) /\ Cardinality(P) \in Nat /\ Len(At(s, P)) = Cardinality(P)
           /\ \A k \in 1..Cardinality(P) : Nth(P, k) \in P /\ At(s, P)[k] = s[Nth(P, k)]
           /\ \A i \in P : \E k \in 1..Cardinality(P) : Nth(P, k) = i /\ At(s, P)[k] = s[i]
<1>1. Len(s) \in Nat /\ DOMAIN s = 1..Len(s) /\ P \in SUBSET (1..Len(s))
  OBVIOUS
<1>2. IsFiniteSet(P) /\ Cardinality(P) \in Nat
  BY <1>1, SubsetIsFinite
<1>3. \A k \in 1..Cardinality(P) : Nth(P, k) \in P /\ At(s, P)[k] = s[Nth(P, k)]
  BY <1>1, NthIs DEF At
<1>4. \A i \in P : \E k \in 1..Cardinality(P) : Nth(P, k) = i
  BY <1>1, EveryNth
<1>5. At(s, P) \in [1..Cardinality(P) -> V]
  BY <1>1, <1>3 DEF At
<1>6. At(s, P) \in Seq(V) /\ Len(At(s, P)) = Cardinality(P)
  BY <1>2, <1>5
<1> QED
  BY <1>2, <1>3, <1>4, <1>6

(* Positions differ.                                                       *)
LEMMA NthDiffer ==
    ASSUME NEW n \in Nat, NEW S \in SUBSET (1..n),
           NEW k \in 1..Cardinality(S), NEW l \in 1..Cardinality(S), Nth(S, k) = Nth(S, l)
    PROVE  k = l
<1>1. /\ Cardinality({j \in S : j <= Nth(S, k)}) = k
      /\ Cardinality({j \in S : j <= Nth(S, l)}) = l
  BY NthIs
<1> QED
  BY <1>1

LEMMA DistinctIs ==
    ASSUME NEW V, NEW s \in Seq(V)
    PROVE  /\ Distinct(s) \in Seq(V) /\ ToSet(Distinct(s)) = ToSet(s)
           /\ \A k, l \in DOMAIN Distinct(s) : Distinct(s)[k] = Distinct(s)[l] => k = l
<1> DEFINE P == {i \in DOMAIN s : \A j \in 1 .. i - 1 : s[j] # s[i]}
           d == At(s, P)
<1>1. /\ P \in SUBSET DOMAIN s /\ Len(s) \in Nat /\ DOMAIN s = 1..Len(s)
      /\ Distinct(s) = d
  BY DEF Distinct
<1> HIDE DEF P
<1>2. /\ d \in Seq(V)
      /\ Cardinality(P) \in Nat /\ Len(d) = Cardinality(P)
      /\ \A k \in 1..Cardinality(P) : Nth(P, k) \in P /\ d[k] = s[Nth(P, k)]
      /\ \A i \in P : \E k \in 1..Cardinality(P) : Nth(P, k) = i /\ d[k] = s[i]
  BY <1>1, AtIs
<1> HIDE DEF d
<1>3. DOMAIN d = 1..Cardinality(P)
  BY <1>2
<1>4. ASSUME NEW i \in DOMAIN s
      PROVE  \E p \in P : s[p] = s[i]
  <2> DEFINE T == {j \in DOMAIN s : s[j] = s[i]}
  <2>1. T \in SUBSET Nat /\ T # {}
    BY <1>1
  <2>2. PICK p \in T : \A j \in T : p <= j
    BY <2>1, LeastOf
  <2>3. p \in DOMAIN s /\ s[p] = s[i] /\ p \in Nat
    BY <1>1, <2>2
  <2>4. \A j \in 1 .. p - 1 : s[j] # s[p]
    <3>1. SUFFICES ASSUME NEW j \in 1 .. p - 1, s[j] = s[p] PROVE FALSE
      OBVIOUS
    <3>2. j \in T /\ j < p
      BY <1>1, <2>3, <3>1
    <3> QED
      BY <2>2, <2>3, <3>2
  <2> QED
    BY <2>3, <2>4 DEF P
<1>5. ToSet(d) = ToSet(s)
  <2>1. \A k \in DOMAIN d : \E i \in DOMAIN s : d[k] = s[i]
    BY <1>1, <1>2, <1>3
  <2>2. \A i \in DOMAIN s : \E k \in DOMAIN d : d[k] = s[i]
    <3>1. TAKE i \in DOMAIN s
    <3>2. PICK p \in P : s[p] = s[i]
      BY <1>4
    <3>3. PICK k \in 1..Cardinality(P) : d[k] = s[p]
      BY <1>2
    <3> QED
      BY <1>3, <3>2, <3>3
  <2> QED
    BY <2>1, <2>2 DEF ToSet
<1>6. ASSUME NEW k \in DOMAIN d, NEW l \in DOMAIN d, d[k] = d[l]
      PROVE  k = l
  <2>1. PICK a \in P : a = Nth(P, k) /\ d[k] = s[a]
    BY <1>2, <1>3
  <2>2. PICK c \in P : c = Nth(P, l) /\ d[l] = s[c]
    BY <1>2, <1>3
  <2>3. a \in Nat /\ c \in Nat /\ 1 <= a /\ 1 <= c
    BY <1>1
  <2>4. ~(a < c) /\ ~(c < a)
    <3>1. s[a] = s[c]
      BY <1>6, <2>1, <2>2
    <3>2. (\A j \in 1 .. a - 1 : s[j] # s[a]) /\ (\A j \in 1 .. c - 1 : s[j] # s[c])
      BY DEF P
    <3> QED
      BY <2>3, <3>1, <3>2
  <2>5. Nth(P, k) = Nth(P, l)
    BY <2>1, <2>2, <2>3, <2>4
  <2> QED
    BY <1>1, <1>3, <2>5, NthDiffer
<1> QED
  BY <1>1, <1>2, <1>5, <1>6

LEMMA MinOfTwo ==
    ASSUME NEW a \in Int, NEW c \in Int
    PROVE  Min({a, c}) = IF a <= c THEN a ELSE c
BY DEF Min

LEMMA MaxOfTwo ==
    ASSUME NEW a \in Int, NEW c \in Int
    PROVE  Max({a, c}) = IF a >= c THEN a ELSE c
BY DEF Max

LEMMA UpToIs ==
    ASSUME NEW V, NEW s \in Seq(V), NEW n \in Int
    PROVE  /\ UpTo(s, n) \in Seq(V)
           /\ 0 <= n /\ n <= Len(s) => Len(UpTo(s, n)) = n
           /\ 0 < n /\ s # <<>> => UpTo(s, n) # <<>>
           /\ \A i \in DOMAIN UpTo(s, n) : i \in DOMAIN s /\ UpTo(s, n)[i] = s[i]
<1> DEFINE m == Min({n, Len(s)})
<1>1. Len(s) \in Nat /\ m \in Int /\ m <= Len(s) /\ m \in {n, Len(s)}
  BY MinOfTwo
<1>2. UpTo(s, n) = SubSeq(s, 1, m)
  BY DEF UpTo
<1>3. 0 <= n /\ n <= Len(s) => m = n
  BY MinOfTwo
<1>4. 0 < n /\ s # <<>> => 1 <= m
  BY <1>1
<1> HIDE DEF m
<1>5. SubSeq(s, 1, m) \in Seq(V) /\ DOMAIN SubSeq(s, 1, m) = 1..m
  BY <1>1
<1>6. \A i \in 1..m : i \in DOMAIN s /\ SubSeq(s, 1, m)[i] = s[i]
  BY <1>1
<1>7. 0 <= m => Len(SubSeq(s, 1, m)) = m
  BY <1>1
<1> QED
  BY <1>1, <1>2, <1>3, <1>4, <1>5, <1>6, <1>7

-----------------------------------------------------------------------------
(* The tables.                                                             *)

(* Every role but one can be asked for.                                    *)
Resolvable == Roles \ {"discover"}

Component == UNION {{RoleComponents[r][i] : i \in DOMAIN RoleComponents[r]} : r \in Roles}

(* A list of some values. *)
LEMMA ListOf ==
    ASSUME NEW V, NEW s, NEW n \in Nat, s = [i \in 1..n |-> s[i]],
           \A i \in 1..n : s[i] \in V
    PROVE  s \in Seq(V) /\ Len(s) = n
OBVIOUS

LEMMA RolesAre ==
    Roles = {"intro", "explain", "practice", "summary", "process", "compare",
             "timeline", "visual", "discover"}
BY DEF Roles, RoleComponents

LEMMA ListsOfComponents ==
    ASSUME NEW r \in Roles
    PROVE  /\ \E n \in Nat : n >= 3 /\ RoleComponents[r] = [i \in 1..n |-> RoleComponents[r][i]]
           /\ RoleComponents[r][1] # "glossary-strip" /\ RoleComponents[r][2] # "glossary-strip"
<1>1. CASE r = "intro"
  BY <1>1 DEF RoleComponents
<1>2. CASE r = "explain"
  BY <1>2 DEF RoleComponents
<1>3. CASE r = "practice"
  BY <1>3 DEF RoleComponents
<1>4. CASE r = "summary"
  BY <1>4 DEF RoleComponents
<1>5. CASE r = "process"
  BY <1>5 DEF RoleComponents
<1>6. CASE r = "compare"
  BY <1>6 DEF RoleComponents
<1>7. CASE r = "timeline"
  BY <1>7 DEF RoleComponents
<1>8. CASE r = "visual"
  BY <1>8 DEF RoleComponents
<1>9. CASE r = "discover"
  BY <1>9 DEF RoleComponents
<1> QED
  BY RolesAre, <1>1, <1>2, <1>3, <1>4, <1>5, <1>6, <1>7, <1>8, <1>9

LEMMA KnownIs ==
    /\ KnownComponents = Component \ {"glossary-strip"}
    /\ \A r \in Roles : \A i \in DOMAIN RoleComponents[r] : RoleComponents[r][i] \in Component
<1>1. KnownComponents = Component \ {"glossary-strip"}
  BY DEF KnownComponents, Component
<1>2. ASSUME NEW r \in Roles, NEW i \in DOMAIN RoleComponents[r]
      PROVE  RoleComponents[r][i] \in Component
  <2> DEFINE Of(q) == {RoleComponents[q][j] : j \in DOMAIN RoleComponents[q]}
  <2>1. RoleComponents[r][i] \in Of(r)
    OBVIOUS
  <2>2. Component = UNION {Of(q) : q \in Roles}
    BY DEF Component
  <2> HIDE DEF Of
  <2> QED
    BY <2>1, <2>2
<1> QED
  BY <1>1, <1>2

LEMMA ComponentsAre ==
    ASSUME NEW r \in Roles
    PROVE  RoleComponents[r] \in Seq(Component) /\ 3 <= Len(RoleComponents[r])
<1>1. PICK n \in Nat : n >= 3 /\ RoleComponents[r] = [i \in 1..n |-> RoleComponents[r][i]]
  BY ListsOfComponents
<1>2. DOMAIN RoleComponents[r] = 1..n
  BY <1>1
<1>3. \A i \in 1..n : RoleComponents[r][i] \in Component
  BY <1>2, KnownIs
<1> QED
  BY <1>1, <1>3, ListOf

LEMMA FirstTwoAre ==
    ASSUME NEW r \in Roles
    PROVE  /\ FirstTwo(r) \in Seq(Component) /\ Len(FirstTwo(r)) = 2
           /\ ToSet(FirstTwo(r)) = {RoleComponents[r][1], RoleComponents[r][2]}
           /\ ToSet(FirstTwo(r)) \subseteq KnownComponents
<1>1. RoleComponents[r] \in Seq(Component) /\ 3 <= Len(RoleComponents[r])
  BY ComponentsAre
<1>2. /\ FirstTwo(r) \in Seq(Component) /\ Len(FirstTwo(r)) = 2
      /\ \A i \in DOMAIN FirstTwo(r) : FirstTwo(r)[i] = RoleComponents[r][i]
  <2>1. /\ UpTo(RoleComponents[r], 2) \in Seq(Component) /\ Len(UpTo(RoleComponents[r], 2)) = 2
        /\ \A i \in DOMAIN UpTo(RoleComponents[r], 2) :
             UpTo(RoleComponents[r], 2)[i] = RoleComponents[r][i]
    <3> DEFINE s == RoleComponents[r]
    <3>1. s \in Seq(Component) /\ 0 <= 2 /\ 2 <= Len(s)
      BY <1>1
    <3> HIDE DEF s
    <3>2. /\ UpTo(s, 2) \in Seq(Component) /\ Len(UpTo(s, 2)) = 2
          /\ \A i \in DOMAIN UpTo(s, 2) : UpTo(s, 2)[i] = s[i]
      <4>1. /\ UpTo(s, 2) \in Seq(Component)
            /\ 0 <= 2 /\ 2 <= Len(s) => Len(UpTo(s, 2)) = 2
            /\ \A i \in DOMAIN UpTo(s, 2) : i \in DOMAIN s /\ UpTo(s, 2)[i] = s[i]
        <5>1. 2 \in Int
          OBVIOUS
        <5> QED
          BY <3>1, <5>1, UpToIs, Zenon
      <4> QED
        BY <3>1, <4>1
    <3> QED
      BY <3>2 DEF s
  <2> QED
    BY <2>1 DEF FirstTwo
<1>3. DOMAIN FirstTwo(r) = {1, 2}
  BY <1>2
<1>4. ToSet(FirstTwo(r)) = {RoleComponents[r][1], RoleComponents[r][2]}
  BY <1>2, <1>3 DEF ToSet
<1>5. 1 \in DOMAIN RoleComponents[r] /\ 2 \in DOMAIN RoleComponents[r]
  BY <1>1
<1>6. RoleComponents[r][1] \in KnownComponents /\ RoleComponents[r][2] \in KnownComponents
  BY <1>5, ListsOfComponents, KnownIs
<1> QED
  BY <1>2, <1>4, <1>6

LEMMA SectionRoleIs ==
    ASSUME NEW t \in DOMAIN SectionRole
    PROVE  SectionRole[t] \in Resolvable
BY RolesAre DEF SectionRole, Resolvable

LEMMA TypesAre ==
    ResourceTypes = {"worksheet", "mini_booklet", "quick_explainer", "practice_set",
                     "exit_ticket", "quiz"}
BY DEF ResourceTypes, Template

LEMMA TemplatesAre ==
    ASSUME NEW type \in ResourceTypes
    PROVE  \E n \in Nat : Template[type].roles = [i \in 1..n |-> Template[type].roles[i]]
<1>1. CASE type = "worksheet"
  <2>1. Template[type].roles = Worksheet.roles
    BY <1>1 DEF Template
  <2>2. \E n \in Nat : Worksheet.roles = [i \in 1..n |-> Worksheet.roles[i]]
    BY DEF Worksheet
  <2> QED
    BY <2>1, <2>2
<1>2. CASE type = "mini_booklet"
  <2>1. Template[type].roles = MiniBooklet.roles
    BY <1>2 DEF Template
  <2>2. \E n \in Nat : MiniBooklet.roles = [i \in 1..n |-> MiniBooklet.roles[i]]
    BY DEF MiniBooklet
  <2> QED
    BY <2>1, <2>2
<1>3. CASE type = "quick_explainer"
  <2>1. Template[type].roles = QuickExplainer.roles
    BY <1>3 DEF Template
  <2>2. \E n \in Nat : QuickExplainer.roles = [i \in 1..n |-> QuickExplainer.roles[i]]
    BY DEF QuickExplainer
  <2> QED
    BY <2>1, <2>2
<1>4. CASE type = "practice_set"
  <2>1. Template[type].roles = PracticeSet.roles
    BY <1>4 DEF Template
  <2>2. \E n \in Nat : PracticeSet.roles = [i \in 1..n |-> PracticeSet.roles[i]]
    BY DEF PracticeSet
  <2> QED
    BY <2>1, <2>2
<1>5. CASE type = "exit_ticket"
  <2>1. Template[type].roles = ExitTicket.roles
    BY <1>5 DEF Template
  <2>2. \E n \in Nat : ExitTicket.roles = [i \in 1..n |-> ExitTicket.roles[i]]
    BY DEF ExitTicket
  <2> QED
    BY <2>1, <2>2
<1>6. CASE type = "quiz"
  <2>1. Template[type].roles = Quiz.roles
    BY <1>6 DEF Template
  <2>2. \E n \in Nat : Quiz.roles = [i \in 1..n |-> Quiz.roles[i]]
    BY DEF Quiz
  <2> QED
    BY <2>1, <2>2
<1> QED
  BY TypesAre, <1>1, <1>2, <1>3, <1>4, <1>5, <1>6

LEMMA SizesAre ==
    ASSUME NEW type \in ResourceTypes, NEW depth \in Depths
    PROVE  \E a \in 1..9, c \in 1..9 : a <= c /\ Template[type].sizes[depth] = a..c
<1>1. CASE type = "worksheet"
  <2>1. CASE depth = "quick"
    BY <1>1, <2>1 DEF Template, Worksheet, Limits
  <2>2. CASE depth = "standard"
    BY <1>1, <2>2 DEF Template, Worksheet, Limits
  <2>3. CASE depth = "deep"
    BY <1>1, <2>3 DEF Template, Worksheet, Limits
  <2> QED
    BY <2>1, <2>2, <2>3 DEF Depths
<1>2. CASE type = "mini_booklet"
  <2>1. CASE depth = "quick"
    BY <1>2, <2>1 DEF Template, MiniBooklet, Limits
  <2>2. CASE depth = "standard"
    BY <1>2, <2>2 DEF Template, MiniBooklet, Limits
  <2>3. CASE depth = "deep"
    BY <1>2, <2>3 DEF Template, MiniBooklet, Limits
  <2> QED
    BY <2>1, <2>2, <2>3 DEF Depths
<1>3. CASE type = "quick_explainer"
  <2>1. CASE depth = "quick"
    BY <1>3, <2>1 DEF Template, QuickExplainer, Limits
  <2>2. CASE depth = "standard"
    BY <1>3, <2>2 DEF Template, QuickExplainer, Limits
  <2>3. CASE depth = "deep"
    BY <1>3, <2>3 DEF Template, QuickExplainer, Limits
  <2> QED
    BY <2>1, <2>2, <2>3 DEF Depths
<1>4. CASE type = "practice_set"
  <2>1. CASE depth = "quick"
    BY <1>4, <2>1 DEF Template, PracticeSet, Limits
  <2>2. CASE depth = "standard"
    BY <1>4, <2>2 DEF Template, PracticeSet, Limits
  <2>3. CASE depth = "deep"
    BY <1>4, <2>3 DEF Template, PracticeSet, Limits
  <2> QED
    BY <2>1, <2>2, <2>3 DEF Depths
<1>5. CASE type = "exit_ticket"
  <2>1. CASE depth = "quick"
    BY <1>5, <2>1 DEF Template, ExitTicket, Limits
  <2>2. CASE depth = "standard"
    BY <1>5, <2>2 DEF Template, ExitTicket, Limits
  <2>3. CASE depth = "deep"
    BY <1>5, <2>3 DEF Template, ExitTicket, Limits
  <2> QED
    BY <2>1, <2>2, <2>3 DEF Depths
<1>6. CASE type = "quiz"
  <2>1. CASE depth = "quick"
    BY <1>6, <2>1 DEF Template, Quiz, Limits
  <2>2. CASE depth = "standard"
    BY <1>6, <2>2 DEF Template, Quiz, Limits
  <2>3. CASE depth = "deep"
    BY <1>6, <2>3 DEF Template, Quiz, Limits
  <2> QED
    BY <2>1, <2>2, <2>3 DEF Depths
<1> QED
  BY TypesAre, <1>1, <1>2, <1>3, <1>4, <1>5, <1>6

-----------------------------------------------------------------------------
(* The slots of a section.                                                 *)

(* One visual at most, placed next to the explanation or in a field.       *)
PlacementShape == [block : {"section", "explanation"},
                   slot  : {"diagram", "diagram_series", "diagram_compare"}]
AtMostOne(S) == \A p, q \in S : p = q

StaticIds == {"diagram", "diagram_series", "diagram_compare", "section-diagram",
              "section-diagram_series", "section-diagram_compare"}
SlotIds == StaticIds \cup {"simulation"}

(* What a slot's kind says of it.                                          *)
SlotShape ==
    [id : SlotIds, kind : {"diagram", "diagram_series", "diagram_compare", "simulation"},
     required : BOOLEAN, render : {"svg", "image", "html"}, fallback : {"svg", "none"},
     frames : Nat \ {0}, text : BOOLEAN]
SlotAgrees(s) ==
    /\ s.required
    /\ s.kind \in {"diagram", "simulation"} => s.frames = 1
    /\ s.kind = "diagram_compare" => s.frames = 2
    /\ (s.kind = "simulation") <=> (s.render = "html")
    /\ (s.kind = "simulation") <=> (s.id = "simulation")

(* A section that may have a simulation must have it.                      *)
OutlineShape ==
    [id : Nat, role : Roles, required : SUBSET Component, placements : SUBSET PlacementShape,
     mode : {"none", "svg", "image"}, terms : Nat,
     interaction : {"disabled", "required", "allowed"}]
OutlineAgrees(o) ==
    /\ AtMostOne(o.placements)
    /\ SimulationAllowed(o) => o.interaction = "required"

IdsOf(ss) == {s.id : s \in ss}
StaticOf(ss) == {s \in ss : s.kind # "simulation"}

SlotsMatch(o, ss) ==
    /\ ss \in SUBSET SlotShape
    /\ \A s \in ss : SlotAgrees(s)
    /\ AtMostOne(StaticOf(ss))
    /\ (StaticOf(ss) = {}) <=> (o.placements = {})
    /\ \A s, t \in ss : s.id = t.id => s = t
    /\ \A s \in ss : s.kind = "simulation" => o.interaction = "required"

(* The recorder knows of every slot and of nothing else.                   *)
ToldShape(ids) ==
    [decided : [ids -> [executor : {"interaction_generator", "image_generator",
                                    "diagram_generator"},
                        status : {"planned", "generated", "failed", "skipped"}]],
     ready : SUBSET SlotIds, failed : SUBSET SlotIds]

ResultsMatch(ss, d) ==
    DOMAIN d = IdsOf(ss) /\ \A s \in ss : d[s.id] \in [1 .. s.frames -> Drawn]

ToldMatches(ss, d, t) ==
    /\ t \in ToldShape(IdsOf(ss))
    /\ \A s \in ss :
         /\ SlotIsReady(s, d[s.id]) => s.id \in t.ready
         /\ t.decided[s.id].executor = Executor(s)
         /\ t.decided[s.id].status = "planned" => \A f \in 1 .. s.frames : d[s.id][f] = "none"

DrawingInv ==
    /\ pc \in {"compose", "enrich", "route", "returned"} => section = {}
    /\ pc # "drawing" => pc = "assembled" \/ (slots = {} /\ drawn = <<>> /\ told = NothingTold)
    /\ pc \in {"compose", "enrich", "route", "returned", "committed", "drawing", "assembled"}
    /\ pc \in {"committed", "drawing"} =>
         /\ section \in SUBSET OutlineShape /\ section # {} /\ AtMostOne(section)
         /\ \A o \in section : OutlineAgrees(o)
    /\ pc = "drawing" => \A o \in section :
         SlotsMatch(o, slots) /\ ResultsMatch(slots, drawn) /\ ToldMatches(slots, drawn, told)

-----------------------------------------------------------------------------
(* What the recorder is told.                                              *)

(* Telling only adds: ready slots stay ready, executors stay as decided,   *)
(* and no slot is planned again.                                           *)
Further(t, u, ids) ==
    /\ t \in ToldShape(ids) /\ u \in ToldShape(ids)
    /\ t.ready \subseteq u.ready
    /\ \A id \in ids : /\ u.decided[id].executor = t.decided[id].executor
                       /\ u.decided[id].status = "planned" => t.decided[id].status = "planned"

LEMMA FurtherStill ==
    ASSUME NEW ids, NEW t, NEW u, NEW v, Further(t, u, ids), Further(u, v, ids)
    PROVE  Further(t, v, ids)
BY DEF Further

LEMMA MarkedIs ==
    ASSUME NEW ids, NEW decided \in [ids -> [executor : {"interaction_generator", "image_generator",
                                                         "diagram_generator"},
                                             status : {"planned", "generated", "failed", "skipped"}]],
           NEW some, NEW status \in {"generated", "failed", "skipped"}
    PROVE  /\ Marked(decided, some, status) \in
                [ids -> [executor : {"interaction_generator", "image_generator", "diagram_generator"},
                         status : {"planned", "generated", "failed", "skipped"}]]
           /\ \A id \in ids :
                /\ Marked(decided, some, status)[id].executor = decided[id].executor
                /\ Marked(decided, some, status)[id].status =
                     IF id \in some THEN status ELSE decided[id].status
<1> DEFINE X == {"interaction_generator", "image_generator", "diagram_generator"}
           Y == {"planned", "generated", "failed", "skipped"}
           new(id) == IF id \in some THEN [decided[id] EXCEPT !.status = status] ELSE decided[id]
<1>1. \A id \in ids : decided[id] \in [executor : X, status : Y]
  OBVIOUS
<1>2. ASSUME NEW id \in ids
      PROVE  /\ new(id) \in [executor : X, status : Y]
             /\ new(id).executor = decided[id].executor
             /\ new(id).status = IF id \in some THEN status ELSE decided[id].status
  BY <1>1
<1>3. Marked(decided, some, status) = [id \in ids |-> new(id)]
  BY DEF Marked
<1> HIDE DEF new, X, Y
<1>4. Marked(decided, some, status) \in [ids -> [executor : X, status : Y]]
  BY <1>2, <1>3
<1>5. \A id \in ids : Marked(decided, some, status)[id] = new(id)
  BY <1>3
<1> QED
  BY <1>2, <1>4, <1>5 DEF X, Y

LEMMA SettledIs ==
    ASSUME NEW ids, NEW t \in ToldShape(ids), NEW executor,
           NEW status \in {"generated", "failed", "skipped"}
    PROVE  Further(t, Settled(t, executor, status), ids)
<1> DEFINE its == {id \in DOMAIN t.decided : t.decided[id].executor = executor}
           u == Settled(t, executor, status)
<1>1. u = [t EXCEPT !.decided = Marked(t.decided, its, status)]
  BY DEF Settled
<1> HIDE DEF u, its
<1>2. /\ u.decided = Marked(t.decided, its, status) /\ u.ready = t.ready /\ u.failed = t.failed
      /\ u = [decided |-> Marked(t.decided, its, status), ready |-> t.ready, failed |-> t.failed]
  BY <1>1 DEF ToldShape
<1>3. u \in ToldShape(ids)
  BY <1>2, MarkedIs DEF ToldShape
<1>4. \A id \in ids : /\ u.decided[id].executor = t.decided[id].executor
                      /\ u.decided[id].status = "planned" => t.decided[id].status = "planned"
  <2>1. \A id \in ids :
          /\ Marked(t.decided, its, status)[id].executor = t.decided[id].executor
          /\ Marked(t.decided, its, status)[id].status =
                IF id \in its THEN status ELSE t.decided[id].status
    BY MarkedIs DEF ToldShape
  <2> QED
    BY <1>2, <2>1
<1>5. Further(t, u, ids)
  BY <1>2, <1>3, <1>4 DEF Further
<1> QED
  BY <1>5 DEF u

LEMMA SlotToldIs ==
    ASSUME NEW ids, NEW t \in ToldShape(ids), NEW id \in ids, id \in SlotIds, NEW results
    PROVE  /\ Further(t, SlotTold(t, id, results), ids)
           /\ SlotTold(t, id, results).decided[id].status # "planned"
           /\ (\A f \in DOMAIN results : results[f] # "failed") =>
                id \in SlotTold(t, id, results).ready
<1>1. /\ Further(t, SlotReady(t, id), ids)
      /\ SlotReady(t, id).decided[id].status # "planned"
      /\ id \in SlotReady(t, id).ready
  <2> DEFINE u == SlotReady(t, id)
  <2>1. /\ u.decided = Marked(t.decided, {id}, "generated")
        /\ u.ready = t.ready \cup {id} /\ u.failed = t.failed
        /\ u = [decided |-> Marked(t.decided, {id}, "generated"),
                ready |-> t.ready \cup {id}, failed |-> t.failed]
    <3>1. t = [decided |-> t.decided, ready |-> t.ready, failed |-> t.failed]
      BY DEF ToldShape
    <3>2. u = [decided |-> Marked(t.decided, {id}, "generated"),
               ready |-> t.ready \cup {id}, failed |-> t.failed]
      <4>1. u = [[t EXCEPT !.ready = t.ready \cup {id}]
                   EXCEPT !.decided = Marked(t.decided, {id}, "generated")]
        BY <3>1 DEF SlotReady
      <4> QED
        BY <3>1, <4>1
    <3> QED
      BY <3>2
  <2> HIDE DEF u
  <2>2. /\ u \in ToldShape(ids)
        /\ \A i \in ids : /\ u.decided[i].executor = t.decided[i].executor
                          /\ u.decided[i].status = "planned" => t.decided[i].status = "planned"
        /\ u.decided[id].status = "generated"
    BY <2>1, MarkedIs DEF ToldShape
  <2>3. Further(t, u, ids) /\ u.decided[id].status # "planned" /\ id \in u.ready
    BY <2>1, <2>2 DEF Further
  <2> QED
    BY <2>3 DEF u
<1>2. /\ Further(t, SlotFailed(t, id), ids)
      /\ SlotFailed(t, id).decided[id].status # "planned"
  <2> DEFINE u == SlotFailed(t, id)
  <2>1. /\ u.decided = Marked(t.decided, {id}, "failed")
        /\ u.ready = t.ready /\ u.failed = t.failed \cup {id}
        /\ u = [decided |-> Marked(t.decided, {id}, "failed"),
                ready |-> t.ready, failed |-> t.failed \cup {id}]
    <3>1. t = [decided |-> t.decided, ready |-> t.ready, failed |-> t.failed]
      BY DEF ToldShape
    <3>2. u = [decided |-> Marked(t.decided, {id}, "failed"),
               ready |-> t.ready, failed |-> t.failed \cup {id}]
      <4>1. u = [[t EXCEPT !.failed = t.failed \cup {id}]
                   EXCEPT !.decided = Marked(t.decided, {id}, "failed")]
        BY <3>1 DEF SlotFailed
      <4> QED
        BY <3>1, <4>1
    <3> QED
      BY <3>2
  <2> HIDE DEF u
  <2>2. /\ u \in ToldShape(ids)
        /\ \A i \in ids : /\ u.decided[i].executor = t.decided[i].executor
                          /\ u.decided[i].status = "planned" => t.decided[i].status = "planned"
        /\ u.decided[id].status = "failed"
    BY <2>1, MarkedIs DEF ToldShape
  <2>3. Further(t, u, ids) /\ u.decided[id].status # "planned"
    BY <2>1, <2>2 DEF Further
  <2> QED
    BY <2>3 DEF u
<1> QED
  BY <1>1, <1>2 DEF SlotTold

LEMMA OutcomeToldIs ==
    ASSUME NEW ids, NEW t \in ToldShape(ids), NEW s \in SlotShape, SlotAgrees(s),
           NEW outcome \in {"success", "error", "skipped"},
           s.kind # "simulation" => outcome # "skipped"
    PROVE  Further(t, OutcomeTold(t, s, outcome), ids)
<1>0. Further(t, t, ids)
  BY DEF Further
<1>1. CASE Executor(s) = "diagram_generator"
  <2>1. outcome \in {"success", "error"}
    BY <1>1 DEF Executor
  <2>2. StatusOf[outcome] \in {"generated", "failed"}
    BY <2>1 DEF StatusOf
  <2> QED
    BY <1>1, <2>2, SettledIs DEF OutcomeTold, DiagramOutcome
<1>2. CASE Executor(s) = "image_generator"
  <2>0. s.kind # "simulation"
    <3>1. s.kind = "simulation" => Executor(s) = "interaction_generator"
      BY DEF Executor, SlotAgrees
    <3>2. "interaction_generator" # "image_generator"
      OBVIOUS
    <3> QED
      BY <1>2, <3>1, <3>2
  <2>1. outcome \in {"success", "error"}
    BY <2>0
  <2>2. StatusOf[outcome] \in {"generated", "failed"}
    BY <2>1 DEF StatusOf
  <2> DEFINE u == ImageOutcome(t, outcome)
             v == DiagramOutcome(u, outcome)
  <2>3. Further(t, u, ids)
    BY <2>2, SettledIs DEF ImageOutcome
  <2>4. u \in ToldShape(ids)
    BY <2>3 DEF Further
  <2> HIDE DEF u
  <2>5. Further(u, v, ids)
    BY <2>2, <2>4, SettledIs DEF DiagramOutcome
  <2>6. Further(t, v, ids)
    BY <2>3, <2>5, FurtherStill
  <2>7. OutcomeTold(t, s, outcome) = v
    BY <1>2 DEF OutcomeTold, u
  <2> QED
    BY <2>6, <2>7
<1>3. CASE Executor(s) = "interaction_generator"
  BY <1>0, <1>3, SettledIs DEF OutcomeTold, InteractionOutcome
<1> QED
  BY <1>1, <1>2, <1>3 DEF Executor

LEMMA RunToldIs ==
    ASSUME NEW ids, NEW t \in ToldShape(ids), NEW s \in SlotShape, SlotAgrees(s), s.id \in ids,
           NEW results, NEW broke, NEW elsewhere
    PROVE  /\ Further(t, RunTold(t, s, results, broke, elsewhere), ids)
           /\ RunTold(t, s, results, broke, elsewhere).decided[s.id].status # "planned"
           /\ (\A f \in DOMAIN results : results[f] # "failed") =>
                s.id \in RunTold(t, s, results, broke, elsewhere).ready
<1> DEFINE u == SlotTold(t, s.id, results)
           outcome == IF broke /\ ~(elsewhere \/ SlotIsReady(s, results)) THEN "error" ELSE "success"
           v == OutcomeTold(u, s, outcome)
<1>1. RunTold(t, s, results, broke, elsewhere) = v
  BY DEF RunTold
<1>2. s.id \in SlotIds
  BY DEF SlotShape
<1>3. /\ Further(t, u, ids) /\ u.decided[s.id].status # "planned"
      /\ (\A f \in DOMAIN results : results[f] # "failed") => s.id \in u.ready
  BY <1>2, SlotToldIs
<1>4. u \in ToldShape(ids)
  BY <1>3 DEF Further
<1>5. outcome \in {"success", "error"}
  OBVIOUS
<1> HIDE DEF u, outcome
<1>6. Further(u, v, ids)
  BY <1>4, <1>5, OutcomeToldIs
<1> HIDE DEF v
<1>7. Further(t, v, ids)
  BY <1>3, <1>6, FurtherStill
<1> QED
  BY <1>1, <1>3, <1>6, <1>7 DEF Further

-----------------------------------------------------------------------------
(* What a media plan makes.                                                *)

LEMMA FramesAre ==
    ASSUME NEW o \in OutlineShape, NEW p \in PlacementShape, NEW c \in ContentShape
    PROVE  /\ ExplanationFrames(p, c) \in Nat \ {0} /\ SectionFrames(o, p, c) \in Nat \ {0}
           /\ p.slot = "diagram" => ExplanationFrames(p, c) = 1 /\ SectionFrames(o, p, c) = 1
           /\ p.slot = "diagram_compare" =>
                ExplanationFrames(p, c) = 2 /\ SectionFrames(o, p, c) = 2
<1>1. c.captions \in Nat /\ c.steps \in Nat /\ c.concepts \in Nat /\ o.terms \in Nat
  BY DEF ContentShape, OutlineShape
<1>2. SeriesFrames(c) \in Nat \ {0}
  <2>1. c.steps > 0 => Min({4, c.steps}) \in Nat \ {0}
    BY <1>1, MinOfTwo
  <2>2. c.concepts > 0 => Min({4, c.concepts}) \in Nat \ {0}
    BY <1>1, MinOfTwo
  <2>3. CASE c.captions > 0
    BY <1>1, <2>1, <2>2, <2>3 DEF SeriesFrames
  <2>4. CASE ~(c.captions > 0) /\ c.steps > 0
    BY <1>1, <2>1, <2>2, <2>4 DEF SeriesFrames
  <2>5. CASE ~(c.captions > 0) /\ ~(c.steps > 0)
    BY <1>1, <2>1, <2>2, <2>5 DEF SeriesFrames
  <2> QED
    BY <2>3, <2>4, <2>5
<1>3. SectionSeriesFrames(o, c) \in Nat \ {0}
  <2>1. Min({4, o.terms}) \in Nat
    BY <1>1, MinOfTwo
  <2>2. Max({1, Min({4, o.terms})}) \in Nat \ {0}
    <3> DEFINE m == Min({4, o.terms})
    <3>1. 1 \in Int /\ m \in Int
      BY <2>1
    <3> HIDE DEF m
    <3>2. Max({1, m}) = IF 1 >= m THEN 1 ELSE m
      BY <3>1, MaxOfTwo, Zenon
    <3> QED
      BY <2>1, <3>2 DEF m
  <2> QED
    BY <1>1, <2>2 DEF SectionSeriesFrames
<1>4. p.slot \in {"diagram", "diagram_series", "diagram_compare"}
  BY DEF PlacementShape
<1> QED
  BY <1>2, <1>3, <1>4 DEF ExplanationFrames, SectionFrames

LEMMA SlotIs ==
    ASSUME NEW o \in OutlineShape, NEW p \in PlacementShape, NEW frames \in Nat \ {0},
           NEW text \in BOOLEAN,
           p.slot = "diagram" => frames = 1, p.slot = "diagram_compare" => frames = 2
    PROVE  /\ Slot(o, p, frames, text) \in SlotShape
           /\ SlotAgrees(Slot(o, p, frames, text))
           /\ Slot(o, p, frames, text).kind = p.slot
<1> DEFINE render == PreferredRender(o, p.slot)
           fallback == FallbackRender(p.slot, render)
           s == Slot(o, p, frames, text)
<1>1. p.slot \in {"diagram", "diagram_series", "diagram_compare"} /\ p.slot # "simulation"
  BY DEF PlacementShape
<1>2. SlotId(p) \in StaticIds /\ SlotId(p) # "simulation" /\ SlotId(p) \in SlotIds
  BY <1>1 DEF SlotId, StaticIds, SlotIds
<1>3. render \in {"svg", "image"}
  <2>1. o.mode \in {"none", "svg", "image"}
    BY DEF OutlineShape
  <2> QED
    BY <1>1, <2>1 DEF PreferredRender
<1>4. fallback \in {"svg", "none"}
  BY <1>3 DEF FallbackRender
<1>5. s = [id |-> SlotId(p), kind |-> p.slot, required |-> TRUE, render |-> render,
           fallback |-> fallback, frames |-> frames, text |-> text]
  BY DEF Slot
<1> HIDE DEF render, fallback, s
<1>6. /\ s.id = SlotId(p) /\ s.kind = p.slot /\ s.required = TRUE /\ s.render = render
      /\ s.frames = frames
  BY <1>5
<1>7. s \in SlotShape
  BY <1>1, <1>2, <1>3, <1>4, <1>5 DEF SlotShape
<1>8. SlotAgrees(s)
  BY <1>1, <1>2, <1>3, <1>6 DEF SlotAgrees
<1> QED
  BY <1>6, <1>7, <1>8 DEF s

LEMMA StaticSlotIs ==
    ASSUME NEW o \in OutlineShape, NEW p \in PlacementShape, NEW c \in ContentShape
    PROVE  /\ StaticSlot(o, p, c) \in SlotShape
           /\ SlotAgrees(StaticSlot(o, p, c))
           /\ StaticSlot(o, p, c).kind # "simulation"
<1>1. p.slot # "simulation" /\ c.explained \in BOOLEAN
  BY DEF PlacementShape, ContentShape
<1>2. CASE p.block = "section"
  <2> DEFINE n == SectionFrames(o, p, c)
  <2>1. /\ n \in Nat \ {0}
        /\ p.slot = "diagram" => n = 1
        /\ p.slot = "diagram_compare" => n = 2
    BY FramesAre
  <2>2. StaticSlot(o, p, c) = Slot(o, p, n, TRUE)
    BY <1>2 DEF StaticSlot, SectionSlot
  <2> HIDE DEF n
  <2>3. /\ Slot(o, p, n, TRUE) \in SlotShape /\ SlotAgrees(Slot(o, p, n, TRUE))
        /\ Slot(o, p, n, TRUE).kind = p.slot
    BY <2>1, SlotIs
  <2> QED
    BY <1>1, <2>2, <2>3
<1>3. CASE p.block # "section"
  <2> DEFINE n == ExplanationFrames(p, c)
  <2>1. /\ n \in Nat \ {0}
        /\ p.slot = "diagram" => n = 1
        /\ p.slot = "diagram_compare" => n = 2
    BY FramesAre
  <2>2. StaticSlot(o, p, c) = Slot(o, p, n, c.explained)
    BY <1>3 DEF StaticSlot, ExplanationSlot
  <2> HIDE DEF n
  <2>3. /\ Slot(o, p, n, c.explained) \in SlotShape /\ SlotAgrees(Slot(o, p, n, c.explained))
        /\ Slot(o, p, n, c.explained).kind = p.slot
    BY <1>1, <2>1, SlotIs
  <2> QED
    BY <1>1, <2>2, <2>3
<1> QED
  BY <1>2, <1>3

LEMMA SimulationSlotIs ==
    ASSUME NEW o \in OutlineShape, OutlineAgrees(o), SimulationAllowed(o)
    PROVE  /\ SimulationSlot(o) \in SlotShape /\ SlotAgrees(SimulationSlot(o))
           /\ SimulationSlot(o).kind = "simulation"
<1>1. o.interaction = "required"
  BY DEF OutlineAgrees
<1> DEFINE s == SimulationSlot(o)
<1>2. s = [id |-> "simulation", kind |-> "simulation", required |-> TRUE, render |-> "html",
           fallback |-> "svg", frames |-> 1, text |-> FALSE]
  BY <1>1 DEF SimulationSlot
<1> HIDE DEF s
<1>3. s \in SlotShape
  BY <1>2 DEF SlotShape, SlotIds
<1>4. SlotAgrees(s) /\ s.kind = "simulation"
  BY <1>2 DEF SlotAgrees
<1> QED
  BY <1>3, <1>4 DEF s

LEMMA PromptedIs ==
    ASSUME NEW s \in SlotShape, SlotAgrees(s), NEW t \in Prompted(s)
    PROVE  t \in SlotShape /\ SlotAgrees(t) /\ t.kind = s.kind
<1>1. CASE t = s
  BY <1>1
<1>2. CASE s.kind # "simulation" /\ t = [s EXCEPT !.render = "image", !.fallback = "svg"]
  <2>1. /\ t.id = s.id /\ t.kind = s.kind /\ t.required = s.required /\ t.render = "image"
        /\ t.frames = s.frames /\ t \in SlotShape
    BY <1>2 DEF SlotShape
  <2> QED
    BY <1>2, <2>1 DEF SlotAgrees
<1> QED
  BY <1>1, <1>2 DEF Prompted

LEMMA ExecutorIs ==
    ASSUME NEW s \in SlotShape, SlotAgrees(s)
    PROVE  /\ (s.render = "svg") <=> (Executor(s) = "diagram_generator")
           /\ DecisionExecutor(s.kind, s.render) = Executor(s)
           /\ Executor(s) \in {"interaction_generator", "image_generator", "diagram_generator"}
<1>1. CASE s.render = "svg"
  BY <1>1 DEF Executor, DecisionExecutor, SlotAgrees
<1>2. CASE s.render = "image"
  BY <1>2 DEF Executor, DecisionExecutor, SlotAgrees
<1>3. CASE s.render = "html"
  BY <1>3 DEF Executor, DecisionExecutor, SlotAgrees
<1> QED
  BY <1>1, <1>2, <1>3 DEF SlotShape

-----------------------------------------------------------------------------
(* What is drawn.                                                          *)

LEMMA PicturesAre ==
    ASSUME NEW s \in SlotShape, SlotAgrees(s), NEW d \in [1 .. s.frames -> Drawn]
    PROVE  /\ SlotIsReady(s, d) => PicturesOf(s, d) = s.frames
           /\ s.kind = "diagram_compare" => PicturesOf(s, d) \in {0, 2}
<1>1. s.frames \in Nat \ {0} /\ DOMAIN d = 1 .. s.frames
  BY DEF SlotShape
<1>2. s.kind \in {"diagram", "diagram_series", "diagram_compare", "simulation"}
  BY DEF SlotShape
<1>3. /\ IsFiniteSet(Ordered(d)) /\ Ordered(d) \in SUBSET (1 .. s.frames)
      /\ Cardinality(Ordered(d)) \in Nat /\ Cardinality(Ordered(d)) <= s.frames
  <2>1. Ordered(d) \in SUBSET (1 .. s.frames)
    BY <1>1 DEF Ordered
  <2> QED
    BY <1>1, <2>1, SubsetIsFinite
<1>4. Cardinality(1 .. s.frames) = s.frames /\ IsFiniteSet(1 .. s.frames)
  BY <1>1, FS_Interval
<1>5. SlotIsReady(s, d) => Ordered(d) = 1 .. s.frames /\ \A f \in 1 .. s.frames : d[f] = "made"
  BY <1>1 DEF SlotIsReady, Ordered
<1>6. ASSUME s.kind = "diagram_compare"
      PROVE  /\ PicturesOf(s, d) \in {0, 2}
             /\ SlotIsReady(s, d) => PicturesOf(s, d) = s.frames
  <2>1. s.frames = 2
    BY <1>6 DEF SlotAgrees
  <2> DEFINE taken == IF Cardinality(Ordered(d)) < 2 THEN {} ELSE Firsts(2, d)
  <2>2. PicturesOf(s, d) = IF AllMade(d, taken) THEN Cardinality(taken) ELSE 0
    BY <1>6 DEF PicturesOf
  <2>3. Cardinality(Ordered(d)) < 2 => taken = {} /\ Cardinality(taken) = 0
    BY FS_EmptySet
  <2>4. ASSUME ~(Cardinality(Ordered(d)) < 2)
        PROVE  taken = 1 .. s.frames /\ Cardinality(taken) = 2
    <3>1. Cardinality(Ordered(d)) = Cardinality(1 .. s.frames)
      BY <1>3, <1>4, <2>1, <2>4
    <3>2. Ordered(d) = 1 .. s.frames
      BY <1>3, <1>4, <3>1, FS_Subset
    <3>3. ASSUME NEW f \in 1 .. 2
          PROVE  Cardinality({g \in Ordered(d) : g < f}) < 2
      <4>1. {g \in Ordered(d) : g < f} \in SUBSET (1 .. 1)
        BY <2>1, <3>2
      <4> QED
        BY <4>1, SubsetIsFinite
    <3>4. taken = Ordered(d)
      BY <2>1, <2>4, <3>2, <3>3 DEF Firsts
    <3> QED
      BY <1>4, <2>1, <3>2, <3>4
  <2> HIDE DEF taken
  <2>5. PicturesOf(s, d) \in {0, 2}
    BY <2>2, <2>3, <2>4
  <2>6. ASSUME SlotIsReady(s, d)
        PROVE  PicturesOf(s, d) = s.frames
    <3>1. ~(Cardinality(Ordered(d)) < 2)
      BY <1>4, <1>5, <2>1, <2>6
    <3>2. AllMade(d, taken)
      BY <1>5, <2>4, <2>6, <3>1 DEF AllMade
    <3> QED
      BY <2>1, <2>2, <2>4, <3>1, <3>2
  <2> QED
    BY <2>5, <2>6
<1>7. ASSUME s.kind = "diagram_series", SlotIsReady(s, d)
      PROVE  PicturesOf(s, d) = s.frames
  <2>1. PicturesOf(s, d) = IF AllMade(d, Ordered(d)) THEN Cardinality(Ordered(d)) ELSE 0
    BY <1>7 DEF PicturesOf
  <2>2. AllMade(d, Ordered(d))
    BY <1>5, <1>7 DEF AllMade
  <2> QED
    BY <1>4, <1>5, <1>7, <2>1, <2>2
<1>8. ASSUME s.kind \in {"diagram", "simulation"}, SlotIsReady(s, d)
      PROVE  PicturesOf(s, d) = s.frames
  <2>1. s.frames = 1
    BY <1>8 DEF SlotAgrees
  <2>2. PicturesOf(s, d) = IF AllMade(d, Firsts(1, d)) THEN Cardinality(Firsts(1, d)) ELSE 0
    BY <1>8 DEF PicturesOf
  <2>3. ASSUME NEW f \in Ordered(d)
        PROVE  Cardinality({g \in Ordered(d) : g < f}) < 1
    <3>1. {g \in Ordered(d) : g < f} = {}
      BY <1>5, <1>8, <2>1
    <3>2. Cardinality({g \in Ordered(d) : g < f}) = 0
      BY <3>1, FS_EmptySet
    <3> QED
      BY <3>2
  <2>4. Firsts(1, d) = Ordered(d)
    BY <2>3 DEF Firsts
  <2>5. AllMade(d, Ordered(d))
    BY <1>5, <1>8 DEF AllMade
  <2> QED
    BY <1>4, <1>5, <1>8, <2>2, <2>4, <2>5
<1> QED
  BY <1>2, <1>6, <1>7, <1>8

-----------------------------------------------------------------------------
(* The roles of a brief.                                                   *)

(* The function FlattenSeq is defined by: it exists up to every number.    *)
LEMMA Flattened ==
    ASSUME NEW V, NEW ss \in Seq(Seq(V)), ss # <<>>
    PROVE  \E f \in [1 .. Len(ss) -> Seq(V)] :
             f = [i \in 1 .. Len(ss) |-> IF i = 1 THEN ss[i] ELSE f[i - 1] \o ss[i]]
<1> DEFINE Good(n) == \E f \in [1 .. n -> Seq(V)] :
                         \A i \in 1 .. n : f[i] = IF i = 1 THEN ss[i] ELSE f[i - 1] \o ss[i]
           T == {n \in 1 .. Len(ss) : ~Good(n)}
<1>1. Len(ss) \in Nat /\ Len(ss) >= 1 /\ \A i \in 1 .. Len(ss) : ss[i] \in Seq(V)
  OBVIOUS
<1>2. Good(1)
  <2> DEFINE f == [i \in 1 .. 1 |-> ss[i]]
  <2>1. f \in [1 .. 1 -> Seq(V)]
    BY <1>1
  <2>2. \A i \in 1 .. 1 : f[i] = IF i = 1 THEN ss[i] ELSE f[i - 1] \o ss[i]
    OBVIOUS
  <2> QED
    BY <2>1, <2>2
<1>3. ASSUME NEW n \in 1 .. Len(ss), n + 1 \in 1 .. Len(ss), Good(n)
      PROVE  Good(n + 1)
  <2>1. PICK f \in [1 .. n -> Seq(V)] :
               \A i \in 1 .. n : f[i] = IF i = 1 THEN ss[i] ELSE f[i - 1] \o ss[i]
    BY <1>3
  <2> DEFINE more == f[n] \o ss[n + 1]
             g == [i \in 1 .. n + 1 |-> IF i <= n THEN f[i] ELSE more]
  <2>2. n \in Nat /\ n >= 1 /\ n \in 1 .. n
    BY <1>1
  <2>3. f[n] \in Seq(V) /\ ss[n + 1] \in Seq(V)
    BY <1>1, <1>3, <2>2
  <2>4. more \in Seq(V)
    BY <2>3
  <2>5. g \in [1 .. n + 1 -> Seq(V)]
    <3> HIDE DEF more
    <3> QED
      BY <2>2, <2>4
  <2>6. ASSUME NEW i \in 1 .. n + 1
        PROVE  g[i] = IF i = 1 THEN ss[i] ELSE g[i - 1] \o ss[i]
    <3>1. CASE i <= n
      <4>1. i \in 1 .. n /\ g[i] = f[i]
        BY <2>2, <3>1
      <4>2. i # 1 => g[i - 1] = f[i - 1]
        BY <2>2, <4>1
      <4> QED
        BY <2>1, <4>1, <4>2
    <3>2. CASE i = n + 1
      <4>1. g[i] = more /\ i - 1 = n /\ g[n] = f[n] /\ i # 1
        <5> HIDE DEF more
        <5> QED
          BY <2>2, <3>2
      <4> QED
        BY <3>2, <4>1
    <3> QED
      BY <2>2, <3>1, <3>2
  <2> HIDE DEF g, more
  <2> QED
    BY <2>5, <2>6
<1> HIDE DEF Good
<1>4. T = {}
  <2>1. SUFFICES ASSUME T # {} PROVE FALSE
    OBVIOUS
  <2>2. T \in SUBSET Nat
    BY <1>1
  <2>3. PICK m \in T : \A n \in T : m <= n
    BY <2>1, <2>2, LeastOf
  <2>4. m \in 1 .. Len(ss) /\ ~Good(m) /\ m # 1
    BY <1>2, <2>3
  <2>5. m - 1 \in 1 .. Len(ss) /\ (m - 1) + 1 = m
    BY <1>1, <2>4
  <2>6. Good(m - 1)
    <3>1. m - 1 \notin T
      BY <1>1, <2>3, <2>4
    <3> QED
      BY <2>5, <3>1
  <2>7. Good((m - 1) + 1)
    BY <1>3, <2>4, <2>5, <2>6
  <2> QED
    BY <2>4, <2>5, <2>7
<1>5. Good(Len(ss))
  BY <1>1, <1>4
<1>6. PICK f \in [1 .. Len(ss) -> Seq(V)] :
             \A i \in 1 .. Len(ss) : f[i] = IF i = 1 THEN ss[i] ELSE f[i - 1] \o ss[i]
  BY <1>5 DEF Good
<1>7. f = [i \in 1 .. Len(ss) |-> IF i = 1 THEN ss[i] ELSE f[i - 1] \o ss[i]]
  BY <1>6
<1> QED
  BY <1>7

LEMMA FlattenIs ==
    ASSUME NEW V, NEW ss \in Seq(Seq(V))
    PROVE  FlattenSeq(ss) \in Seq(V)
<1>1. CASE Len(ss) = 0
  BY <1>1 DEF FlattenSeq
<1>2. CASE Len(ss) # 0
  <2> DEFINE n == Len(ss)
             F(f) == [i \in 1 .. n |-> IF i = 1 THEN ss[i] ELSE f[i - 1] \o ss[i]]
             g == CHOOSE f : f = F(f)
  <2>1. n \in Nat /\ n \in 1 .. n
    BY <1>2
  <2>2. ss # <<>>
    BY <1>2
  <2>3. g = [i \in 1 .. n |-> IF i = 1 THEN ss[i] ELSE g[i - 1] \o ss[i]]
    <3>0. PICK h \in [1 .. Len(ss) -> Seq(V)] :
                 h = [i \in 1 .. Len(ss) |-> IF i = 1 THEN ss[i] ELSE h[i - 1] \o ss[i]]
      BY <2>2, Flattened
    <3>1. \E f : f = F(f)
      <4>1. h = F(h)
        BY <3>0
      <4> HIDE DEF F
      <4> QED
        BY <4>1
    <3>2. g = F(g)
      <4> HIDE DEF F
      <4> QED
        BY <3>1, Zenon
    <3> QED
      BY <3>2
  <2>4. FlattenSeq(ss) = g[n]
    BY <1>2 DEF FlattenSeq
  <2> HIDE DEF g
  <2> DEFINE T == {i \in 1 .. n : g[i] \notin Seq(V)}
  <2>5. T = {}
    <3>1. SUFFICES ASSUME T # {} PROVE FALSE
      OBVIOUS
    <3>2. PICK m \in T : \A i \in T : m <= i
      <4>1. T \in SUBSET Nat
        OBVIOUS
      <4> QED
        BY <3>1, <4>1, LeastOf
    <3>3. m \in 1 .. n /\ g[m] \notin Seq(V) /\ ss[m] \in Seq(V)
      OBVIOUS
    <3>4. g[m] = IF m = 1 THEN ss[m] ELSE g[m - 1] \o ss[m]
      BY <2>3, <3>3
    <3>5. m # 1
      BY <3>3, <3>4
    <3>6. g[m - 1] \in Seq(V)
      <4>1. m - 1 \in 1 .. n /\ m - 1 \notin T
        BY <2>1, <3>2, <3>3, <3>5
      <4> QED
        BY <4>1
    <3> QED
      BY <3>3, <3>4, <3>5, <3>6
  <2> QED
    BY <2>1, <2>4, <2>5
<1> QED
  BY <1>1, <1>2

LEMMA SectionRolesAre ==
    ASSUME NEW V, NEW s \in Seq(V)
    PROVE  /\ SectionRolesOf(s) \in Seq(Resolvable)
           /\ \A i \in DOMAIN s : s[i] \in DOMAIN SectionRole =>
                SectionRole[s[i]] \in ToSet(SectionRolesOf(s))
           /\ \A x \in ToSet(SectionRolesOf(s)) :
                \E i \in DOMAIN s : s[i] \in DOMAIN SectionRole /\ x = SectionRole[s[i]]
<1> DEFINE P == {i \in DOMAIN s : s[i] \in DOMAIN SectionRole}
           known == At(s, P)
           r == SectionRolesOf(s)
<1>1. r = [i \in DOMAIN known |-> SectionRole[known[i]]]
  BY DEF SectionRolesOf
<1>2. /\ known \in Seq(V) /\ Cardinality(P) \in Nat /\ Len(known) = Cardinality(P)
      /\ \A k \in 1 .. Cardinality(P) : Nth(P, k) \in P /\ known[k] = s[Nth(P, k)]
      /\ \A i \in P : \E k \in 1 .. Cardinality(P) : Nth(P, k) = i /\ known[k] = s[i]
  <2>1. P \in SUBSET DOMAIN s
    OBVIOUS
  <2> HIDE DEF P
  <2> QED
    BY <2>1, AtIs
<1>P. \A i \in DOMAIN s : i \in P <=> s[i] \in DOMAIN SectionRole
  OBVIOUS
<1> HIDE DEF known, r, P
<1>3. DOMAIN known = 1 .. Cardinality(P)
  BY <1>2
<1>4. \A k \in DOMAIN known : known[k] \in DOMAIN SectionRole
  <2>1. \A i \in P : s[i] \in DOMAIN SectionRole
    BY DEF P
  <2> QED
    BY <1>2, <1>3, <2>1
<1>5. r \in Seq(Resolvable) /\ DOMAIN r = DOMAIN known
  <2>1. \A k \in DOMAIN known : SectionRole[known[k]] \in Resolvable
    BY <1>4, SectionRoleIs
  <2>2. r \in [1 .. Cardinality(P) -> Resolvable]
    BY <1>1, <1>3, <2>1
  <2>3. r \in Seq(Resolvable)
    BY <1>2, <2>2
  <2> QED
    BY <1>1, <2>3
<1>6. ASSUME NEW i \in DOMAIN s, s[i] \in DOMAIN SectionRole
      PROVE  SectionRole[s[i]] \in ToSet(r)
  <2>1. PICK k \in DOMAIN known : known[k] = s[i]
    BY <1>2, <1>3, <1>6, <1>P
  <2>2. k \in DOMAIN r /\ r[k] = SectionRole[s[i]]
    BY <1>1, <1>5, <2>1
  <2> QED
    BY <2>2 DEF ToSet
<1>7. ASSUME NEW x \in ToSet(r)
      PROVE  \E i \in DOMAIN s : s[i] \in DOMAIN SectionRole /\ x = SectionRole[s[i]]
  <2>1. PICK k \in DOMAIN r : x = r[k]
    BY <1>7 DEF ToSet
  <2>2. Nth(P, k) \in DOMAIN s /\ known[k] = s[Nth(P, k)]
    <3>1. Nth(P, k) \in P /\ known[k] = s[Nth(P, k)]
      BY <1>2, <1>3, <1>5, <2>1
    <3> QED
      BY <3>1 DEF P
  <2>3. x = SectionRole[known[k]] /\ known[k] \in DOMAIN SectionRole
    BY <1>1, <1>4, <1>5, <2>1
  <2> QED
    BY <2>2, <2>3
<1> QED
  BY <1>5, <1>6, <1>7 DEF r

(* The roles of a template, as a list of themselves. *)
LEMMA ListedAre ==
    ASSUME NEW b \in BriefShape
    PROVE  Template[b.type].roles \in Seq({Template[b.type].roles[i] : i \in DOMAIN Template[b.type].roles})
<1> DEFINE s == Template[b.type].roles
           V == {s[i] : i \in DOMAIN s}
<1>1. b.type \in ResourceTypes
  BY DEF BriefShape
<1>2. PICK n \in Nat : s = [i \in 1 .. n |-> s[i]]
  BY <1>1, TemplatesAre
<1> HIDE DEF s
<1>3. \A i \in 1 .. n : s[i] \in V
  BY <1>2
<1>4. s \in Seq(V)
  <2> HIDE DEF V
  <2> QED
    BY <1>2, <1>3, ListOf
<1> QED
  BY <1>4 DEF s

LEMMA AllowedAre ==
    ASSUME NEW b \in BriefShape
    PROVE  AllowedRoles(b) \in Seq(Resolvable)
<1> DEFINE s == Template[b.type].roles
           V == {s[i] : i \in DOMAIN s}
<1>3. s \in Seq(V)
  BY ListedAre
<1> HIDE DEF s, V
<1>4. SectionRolesOf(s) \in Seq(Resolvable)
  BY <1>3, SectionRolesAre
<1> QED
  BY <1>4 DEF AllowedRoles, s

(* The names outcomes and supports ask for roles by. *)
Names ==
    (UNION {{OutcomeRoles[o][i] : i \in DOMAIN OutcomeRoles[o]} : o \in DOMAIN OutcomeRoles})
      \cup (UNION {{SupportRoles[u][i] : i \in DOMAIN SupportRoles[u]} : u \in DOMAIN SupportRoles})

LEMMA OutcomesAre ==
    ASSUME NEW outcome \in DOMAIN OutcomeRoles
    PROVE  OutcomeRoles[outcome] \in Seq(Names)
<1>1. \E n \in Nat : OutcomeRoles[outcome] = [i \in 1 .. n |-> OutcomeRoles[outcome][i]]
  <2>1. CASE outcome = "understand"
    BY <2>1 DEF OutcomeRoles
  <2>2. CASE outcome = "practice"
    BY <2>2 DEF OutcomeRoles
  <2>3. CASE outcome = "review"
    BY <2>3 DEF OutcomeRoles
  <2>4. CASE outcome = "assess"
    BY <2>4 DEF OutcomeRoles
  <2>5. CASE outcome = "compare"
    BY <2>5 DEF OutcomeRoles
  <2>6. CASE outcome = "vocabulary"
    BY <2>6 DEF OutcomeRoles
  <2>7. DOMAIN OutcomeRoles = {"understand", "practice", "review", "assess", "compare", "vocabulary"}
    BY DEF OutcomeRoles
  <2> QED
    BY <2>1, <2>2, <2>3, <2>4, <2>5, <2>6, <2>7
<1>2. \A i \in DOMAIN OutcomeRoles[outcome] : OutcomeRoles[outcome][i] \in Names
  <2> DEFINE Of(o) == {OutcomeRoles[o][i] : i \in DOMAIN OutcomeRoles[o]}
  <2>1. UNION {Of(o) : o \in DOMAIN OutcomeRoles} \subseteq Names
    BY DEF Names
  <2>2. Of(outcome) \subseteq Names
    <3> HIDE DEF Of
    <3> QED
      BY <2>1
  <2> QED
    BY <2>2
<1> QED
  BY <1>1, <1>2, ListOf

LEMMA SupportsAre ==
    ASSUME NEW support \in DOMAIN SupportRoles
    PROVE  SupportRoles[support] \in Seq(Names)
<1>1. \E n \in Nat : SupportRoles[support] = [i \in 1 .. n |-> SupportRoles[support][i]]
  <2>1. CASE support = "visuals"
    BY <2>1 DEF SupportRoles
  <2>2. CASE support = "vocabulary_support"
    BY <2>2 DEF SupportRoles
  <2>3. CASE support = "worked_examples"
    BY <2>3 DEF SupportRoles
  <2>4. CASE support = "step_by_step"
    BY <2>4 DEF SupportRoles
  <2>5. CASE support = "discussion_questions"
    BY <2>5 DEF SupportRoles
  <2>6. CASE support = "simpler_reading"
    BY <2>6 DEF SupportRoles
  <2>7. CASE support = "challenge_questions"
    BY <2>7 DEF SupportRoles
  <2>8. DOMAIN SupportRoles = {"visuals", "vocabulary_support", "worked_examples", "step_by_step", "discussion_questions", "simpler_reading", "challenge_questions"}
    BY DEF SupportRoles
  <2> QED
    BY <2>1, <2>2, <2>3, <2>4, <2>5, <2>6, <2>7, <2>8
<1>2. \A i \in DOMAIN SupportRoles[support] : SupportRoles[support][i] \in Names
  <2> DEFINE Of(u) == {SupportRoles[u][i] : i \in DOMAIN SupportRoles[u]}
  <2>1. UNION {Of(u) : u \in DOMAIN SupportRoles} \subseteq Names
    BY DEF Names
  <2>2. Of(support) \subseteq Names
    <3> HIDE DEF Of
    <3> QED
      BY <2>1
  <2> QED
    BY <2>2
<1> QED
  BY <1>1, <1>2, ListOf

LEMMA RequestedAre ==
    ASSUME NEW b \in BriefShape
    PROVE  Requested(b) \in Seq(Resolvable)
<1> DEFINE V == Names
           ss == [i \in DOMAIN b.supports |-> SupportRoles[b.supports[i]]]
           all == OutcomeRoles[b.outcome] \o FlattenSeq(ss)
<1>1. b.outcome \in DOMAIN OutcomeRoles /\ b.supports \in Seq(DOMAIN SupportRoles)
  BY DEF BriefShape
<1>2. ss \in Seq(Seq(V))
  <2>1. \A i \in DOMAIN b.supports : SupportRoles[b.supports[i]] \in Seq(V)
    BY <1>1, SupportsAre
  <2>2. DOMAIN b.supports = 1 .. Len(b.supports) /\ Len(b.supports) \in Nat
    BY <1>1
  <2> HIDE DEF V
  <2> QED
    BY <2>1, <2>2
<1> HIDE DEF ss
<1>3. FlattenSeq(ss) \in Seq(V)
  BY <1>2, FlattenIs
<1>4. OutcomeRoles[b.outcome] \in Seq(V)
  BY <1>1, OutcomesAre
<1>5. all \in Seq(V)
  BY <1>3, <1>4
<1> HIDE DEF all
<1>6. SectionRolesOf(all) \in Seq(Resolvable)
  BY <1>5, SectionRolesAre
<1> QED
  BY <1>6 DEF Requested, ss, all

LEMMA JoinedAre ==
    ASSUME NEW V, NEW s \in Seq(V), NEW t \in Seq(V)
    PROVE  s \o t \in Seq(V) /\ ToSet(s \o t) = ToSet(s) \cup ToSet(t)
<1> DEFINE u == s \o t
<1>1. /\ u \in Seq(V) /\ Len(u) = Len(s) + Len(t)
      /\ \A i \in 1 .. Len(s) : u[i] = s[i]
      /\ \A i \in 1 .. Len(t) : u[i + Len(s)] = t[i]
  BY ConcatProperties
<1> HIDE DEF u
<1>2. /\ Len(s) \in Nat /\ Len(t) \in Nat /\ DOMAIN s = 1 .. Len(s) /\ DOMAIN t = 1 .. Len(t)
      /\ DOMAIN u = 1 .. Len(s) + Len(t)
  BY <1>1
<1>3. /\ \A i \in DOMAIN s : i \in DOMAIN u /\ u[i] = s[i]
      /\ \A i \in DOMAIN t : i + Len(s) \in DOMAIN u /\ u[i + Len(s)] = t[i]
  BY <1>1, <1>2
<1>4. ASSUME NEW k \in DOMAIN u
      PROVE  (k \in DOMAIN s /\ u[k] = s[k]) \/ \E i \in DOMAIN t : u[k] = t[i]
  <2>1. CASE k <= Len(s)
    BY <1>2, <1>3, <2>1
  <2>2. CASE k > Len(s)
    <3>1. k - Len(s) \in DOMAIN t /\ (k - Len(s)) + Len(s) = k
      BY <1>2, <2>2
    <3>2. u[(k - Len(s)) + Len(s)] = t[k - Len(s)]
      BY <1>3, <3>1
    <3> QED
      BY <3>1, <3>2
  <2> QED
    BY <1>2, <2>1, <2>2
<1>5. \A x : x \in ToSet(u) <=> x \in ToSet(s) \cup ToSet(t)
  BY <1>3, <1>4 DEF ToSet
<1> QED
  BY <1>1, <1>5 DEF u

LEMMA AppendedIs ==
    ASSUME NEW V, NEW s \in Seq(V), NEW x \in V
    PROVE  Append(s, x) \in Seq(V) /\ ToSet(Append(s, x)) = ToSet(s) \cup {x}
<1> DEFINE u == Append(s, x)
<1>1. /\ u \in Seq(V) /\ Len(u) = Len(s) + 1
      /\ \A i \in 1 .. Len(s) : u[i] = s[i]
      /\ u[Len(s) + 1] = x
  BY AppendProperties
<1> HIDE DEF u
<1>2. /\ Len(s) \in Nat /\ DOMAIN s = 1 .. Len(s) /\ DOMAIN u = 1 .. Len(s) + 1
  BY <1>1
<1>3. /\ \A i \in DOMAIN s : i \in DOMAIN u /\ u[i] = s[i]
      /\ Len(s) + 1 \in DOMAIN u
      /\ \A k \in DOMAIN u : k \in DOMAIN s \/ k = Len(s) + 1
  BY <1>1, <1>2
<1>4. \A y : y \in ToSet(u) <=> y \in ToSet(s) \cup {x}
  BY <1>1, <1>3 DEF ToSet
<1> QED
  BY <1>1, <1>4 DEF u

LEMMA ResolvedAre ==
    ASSUME NEW b \in BriefShape
    PROVE  /\ ResolvedRoles(b) \in Seq(Resolvable)
           /\ ToSet(ResolvedRoles(b)) = {"intro", "summary"} \cup ToSet(AllowedRoles(b))
           /\ \A k, l \in DOMAIN ResolvedRoles(b) : ResolvedRoles(b)[k] = ResolvedRoles(b)[l] => k = l
<1> DEFINE req == Requested(b)
           al == AllowedRoles(b)
           P == {i \in DOMAIN req : Contains(al, req[i])}
           asked == AskedRoles(b)
           opened == Opened(asked)
           all == Append(opened, "summary") \o al
<1>0. "intro" \in Resolvable /\ "summary" \in Resolvable
  BY RolesAre DEF Resolvable
<1>1. req \in Seq(Resolvable) /\ al \in Seq(Resolvable)
  BY RequestedAre, AllowedAre
<1>2. asked = At(req, P)
  BY DEF AskedRoles
<1> HIDE DEF req, al, asked
<1>3. /\ asked \in Seq(Resolvable) /\ Len(asked) = Cardinality(P)
      /\ \A k \in 1 .. Cardinality(P) : Nth(P, k) \in P /\ asked[k] = req[Nth(P, k)]
  BY <1>1, <1>2, AtIs
<1>4. ToSet(asked) \subseteq ToSet(al)
  <2>1. ASSUME NEW k \in DOMAIN asked
        PROVE  asked[k] \in ToSet(al)
    <3>1. k \in 1 .. Cardinality(P)
      BY <1>3
    <3>2. Contains(al, asked[k])
      BY <1>3, <3>1
    <3>3. PICK j \in 1 .. Len(al) : al[j] = asked[k]
      BY <3>2 DEF Contains
    <3>4. j \in DOMAIN al
      BY <1>1
    <3> QED
      BY <3>3, <3>4 DEF ToSet
  <2> QED
    BY <2>1 DEF ToSet
<1>5. /\ opened \in Seq(Resolvable)
      /\ ToSet(opened) = {"intro"} \cup ToSet(asked)
  <2>1. CASE Contains(asked, "intro")
    <3>1. opened = asked
      BY <2>1 DEF Opened
    <3>2. PICK j \in 1 .. Len(asked) : asked[j] = "intro"
      BY <2>1 DEF Contains
    <3>3. "intro" \in ToSet(asked)
      <4>1. j \in DOMAIN asked
        BY <1>3
      <4> QED
        BY <3>2, <4>1 DEF ToSet
    <3> QED
      BY <1>3, <3>1, <3>3
  <2>2. CASE ~Contains(asked, "intro")
    <3>1. opened = <<"intro">> \o asked
      BY <2>2 DEF Opened
    <3>2. <<"intro">> \in Seq(Resolvable) /\ ToSet(<<"intro">>) = {"intro"}
      BY <1>0 DEF ToSet
    <3> DEFINE one == <<"intro">>
    <3>3. one \in Seq(Resolvable) /\ ToSet(one) = {"intro"} /\ opened = one \o asked
      BY <3>1, <3>2
    <3> HIDE DEF one, opened
    <3>4. one \o asked \in Seq(Resolvable) /\ ToSet(one \o asked) = ToSet(one) \cup ToSet(asked)
      BY <1>3, <3>3, JoinedAre
    <3> QED
      BY <3>3, <3>4
  <2> QED
    BY <2>1, <2>2
<1> HIDE DEF opened
<1>6. /\ all \in Seq(Resolvable)
      /\ ToSet(all) = ToSet(opened) \cup {"summary"} \cup ToSet(al)
  <2> DEFINE ap == Append(opened, "summary")
  <2>1. ap \in Seq(Resolvable) /\ ToSet(ap) = ToSet(opened) \cup {"summary"}
    BY <1>0, <1>5, AppendedIs
  <2>2. all = ap \o al
    OBVIOUS
  <2> HIDE DEF ap, all
  <2> QED
    BY <1>1, <2>1, <2>2, JoinedAre
<1>7. ResolvedRoles(b) = Distinct(all)
  BY DEF ResolvedRoles, opened, asked, al
<1> HIDE DEF all
<1>8. /\ Distinct(all) \in Seq(Resolvable) /\ ToSet(Distinct(all)) = ToSet(all)
      /\ \A k, l \in DOMAIN Distinct(all) : Distinct(all)[k] = Distinct(all)[l] => k = l
  BY <1>6, DistinctIs
<1>9. ToSet(all) = {"intro", "summary"} \cup ToSet(al)
  BY <1>4, <1>5, <1>6
<1> QED
  BY <1>7, <1>8, <1>9 DEF al

-----------------------------------------------------------------------------
(* The sections of a plan.                                                 *)

SectionShape ==
    [id : Nat, order : Nat, role : Roles, components : Seq(Component), target : BOOLEAN,
     defines : SUBSET Nat, assumes : SUBSET Nat, placements : SUBSET PlacementShape,
     mode : {"none", "svg", "image"}]
SectionAgrees(s) ==
    /\ IsFiniteSet(s.defines) /\ IsFiniteSet(s.assumes)
    /\ AtMostOne(s.placements)

IsPlan(p) == p \in Seq(SectionShape) /\ \A i \in DOMAIN p : SectionAgrees(p[i])

(* A section the pipeline can look up.                                     *)
Built(s) == s.components # <<>> /\ ToSet(s.components) \subseteq KnownComponents
IsBuilt(p) == \A i \in DOMAIN p : Built(p[i])

PlanInv ==
    pc \in {"compose", "enrich", "route", "returned"} =>
      /\ brief \in SUBSET Briefs /\ brief # {} /\ AtMostOne(brief)
      /\ roles = ResolvedRoles(Brief)
      /\ IsPlan(plan)
      /\ IsBuilt(plan)
      /\ origin = "model" => Faults(Brief, roles, plan) \subseteq {"check"}
      /\ pc = "compose" => plan = <<>> /\ origin = "nobody"

PlanningInv == PlanInv /\ DrawingInv

LEMMA SectionIs ==
    ASSUME NEW id \in Nat, NEW order \in Nat, NEW role \in Roles, NEW components \in Seq(Component)
    PROVE  /\ Section(id, order, role, components) \in SectionShape
           /\ SectionAgrees(Section(id, order, role, components))
           /\ Section(id, order, role, components).components = components
<1> DEFINE s == Section(id, order, role, components)
<1>1. s = [id |-> id, order |-> order, role |-> role, components |-> components,
           target |-> FALSE, defines |-> {}, assumes |-> {}, placements |-> {}, mode |-> "none"]
  BY DEF Section
<1> HIDE DEF s
<1>2. s \in SectionShape
  BY <1>1 DEF SectionShape
<1>3. SectionAgrees(s) /\ s.components = components
  BY <1>1, FS_EmptySet DEF SectionAgrees, AtMostOne
<1> QED
  BY <1>2, <1>3 DEF s

LEMMA PlanOf ==
    ASSUME NEW n \in Nat, NEW p, p = [i \in 1 .. n |-> p[i]],
           \A i \in 1 .. n : p[i] \in SectionShape /\ SectionAgrees(p[i])
    PROVE  IsPlan(p)
<1>1. p \in Seq(SectionShape)
  BY ListOf
<1> QED
  BY <1>1 DEF IsPlan

LEMMA SizesOf ==
    ASSUME NEW b \in BriefShape
    PROVE  \E a \in 1..9, c \in 1..9 :
             a <= c /\ Sizes(b) = a..c /\ Min(Sizes(b)) = a /\ Max(Sizes(b)) = c
<1>1. b.type \in ResourceTypes /\ b.depth \in Depths
  BY DEF BriefShape
<1>2. PICK a \in 1..9, c \in 1..9 : a <= c /\ Sizes(b) = a..c
  BY <1>1, SizesAre DEF Sizes
<1>3. Min(a..c) = a
  <2>1. a \in a..c /\ \A y \in a..c : a =< y
    BY <1>2
  <2>2. \A x \in a..c : (\A y \in a..c : x =< y) => x = a
    BY <2>1
  <2> QED
    BY <2>1, <2>2 DEF Min
<1>4. Max(a..c) = c
  <2>1. c \in a..c /\ \A y \in a..c : c >= y
    BY <1>2
  <2>2. \A x \in a..c : (\A y \in a..c : x >= y) => x = c
    BY <2>1
  <2> QED
    BY <2>1, <2>2 DEF Max
<1> QED
  BY <1>2, <1>3, <1>4

LEMMA ChooseIs ==
    ASSUME NEW b \in BriefShape, NEW list \in Seq(Resolvable)
    PROVE  ChooseRoles(b, list) \in Seq(Resolvable)
<1> DEFINE m == Min({Len(list), Max(Sizes(b))})
           n == Max({Min(Sizes(b)), m})
           chosen == UpTo(list, n)
<1>1. PICK a \in 1..9, c \in 1..9 : Min(Sizes(b)) = a /\ Max(Sizes(b)) = c
  BY SizesOf
<1>2. m \in Int
  BY <1>1, MinOfTwo
<1> HIDE DEF m
<1>3. n \in Int
  BY <1>1, <1>2, MaxOfTwo
<1>4. ChooseRoles(b, list) = IF n = 1 THEN <<"summary">> ELSE Front(chosen) \o <<"summary">>
  BY DEF ChooseRoles, m
<1> HIDE DEF n
<1>5. chosen \in Seq(Resolvable)
  BY <1>3, UpToIs
<1> HIDE DEF chosen
<1>6. Front(chosen) \in Seq(Resolvable)
  BY <1>5 DEF Front
<1>7. <<"summary">> \in Seq(Resolvable)
  BY RolesAre DEF Resolvable
<1> QED
  BY <1>4, <1>6, <1>7

LEMMA PlacementForIs ==
    ASSUME NEW s, NEW intent
    PROVE  PlacementFor(s, intent) \in PlacementShape
BY DEF PlacementFor, PlacementShape

LEMMA FallbackCompositionIs ==
    ASSUME NEW b \in BriefShape, NEW list \in Seq(Resolvable)
    PROVE  /\ IsPlan(FallbackComposition(b, list)) /\ IsBuilt(FallbackComposition(b, list))
           /\ DOMAIN FallbackComposition(b, list) = DOMAIN ChooseRoles(b, list)
<1> DEFINE chosen == ChooseRoles(b, list)
           p == FallbackComposition(b, list)
           plain(i) == Section(i, i, chosen[i], FirstTwo(chosen[i]))
<1>1. chosen \in Seq(Resolvable)
  BY ChooseIs
<1>2. p = [i \in DOMAIN chosen |-> [plain(i) EXCEPT !.target = chosen[i] = "practice"]]
  BY DEF FallbackComposition
<1>3. DOMAIN chosen = 1 .. Len(chosen) /\ Len(chosen) \in Nat
  BY <1>1
<1> HIDE DEF chosen
<1>4. ASSUME NEW i \in DOMAIN chosen
      PROVE  plain(i) \in SectionShape /\ SectionAgrees(plain(i)) /\ Built(plain(i))
  <2>1. i \in Nat /\ chosen[i] \in Roles
    BY <1>1, <1>3 DEF Resolvable
  <2>2. /\ FirstTwo(chosen[i]) \in Seq(Component) /\ Len(FirstTwo(chosen[i])) = 2
        /\ ToSet(FirstTwo(chosen[i])) \subseteq KnownComponents
    BY <2>1, FirstTwoAre
  <2>3. FirstTwo(chosen[i]) # <<>>
    BY <2>2
  <2> DEFINE two == FirstTwo(chosen[i])
  <2>4. plain(i) = Section(i, i, chosen[i], two)
    OBVIOUS
  <2> HIDE DEF two, plain
  <2>5. /\ plain(i) \in SectionShape /\ SectionAgrees(plain(i)) /\ plain(i).components = two
    BY <2>1, <2>2, <2>4, SectionIs DEF two
  <2> QED
    BY <2>2, <2>3, <2>5 DEF Built, two
<1> HIDE DEF plain, p
<1>5. ASSUME NEW i \in DOMAIN chosen
      PROVE  p[i] \in SectionShape /\ SectionAgrees(p[i]) /\ Built(p[i])
  <2>1. p[i] = [plain(i) EXCEPT !.target = chosen[i] = "practice"]
    BY <1>2
  <2>2. plain(i) \in SectionShape /\ SectionAgrees(plain(i)) /\ Built(plain(i))
    BY <1>4
  <2>3. /\ p[i] \in SectionShape /\ p[i].defines = plain(i).defines
        /\ p[i].assumes = plain(i).assumes /\ p[i].placements = plain(i).placements
        /\ p[i].components = plain(i).components
    BY <2>1, <2>2 DEF SectionShape
  <2> QED
    BY <2>2, <2>3 DEF SectionAgrees, Built
<1>6. p = [i \in 1 .. Len(chosen) |-> p[i]] /\ DOMAIN p = DOMAIN chosen
  BY <1>2, <1>3
<1>7. IsPlan(p)
  BY <1>3, <1>5, <1>6, PlanOf
<1>8. IsBuilt(p)
  BY <1>5, <1>6 DEF IsBuilt
<1> QED
  BY <1>6, <1>7, <1>8 DEF p, chosen

LEMMA FallbackSpecIs ==
    ASSUME NEW b \in BriefShape, NEW list \in Seq(Resolvable)
    PROVE  IsPlan(FallbackSpec(b, list)) /\ IsBuilt(FallbackSpec(b, list))
<1> DEFINE chosen == ChooseRoles(b, list)
           defined == [i \in DOMAIN chosen |-> Defined(b, chosen, i)]
           earlier(i) == UNION {defined[j] : j \in 1 .. i - 1}
           p == FallbackComposition(b, list)
           placed(s) ==
             IF /\ Contains(b.supports, "visuals")
                /\ ToSet(s.components) \cap (Visuals \ {"simulation-block"}) # {}
             THEN {PlacementFor(s, VisualIntent(s.role))} ELSE {}
           target(i) == p[i].target \/ (p[i].role = "summary" /\ earlier(i) \cup defined[i] # {})
           q == FallbackSpec(b, list)
<1>1. IsPlan(p) /\ IsBuilt(p) /\ DOMAIN p = DOMAIN chosen
  BY FallbackCompositionIs
<1>2. chosen \in Seq(Resolvable)
  BY ChooseIs
<1>3. q = [i \in DOMAIN p |-> [p[i] EXCEPT !.placements = placed(p[i]), !.defines = defined[i],
                                           !.assumes = earlier(i), !.target = target(i)]]
  BY DEF FallbackSpec
<1>4. b.subtopics \in Nat
  BY DEF BriefShape
<1>5. DOMAIN chosen = 1 .. Len(chosen) /\ Len(chosen) \in Nat
  BY <1>2
<1> HIDE DEF chosen
<1>6. \A i \in DOMAIN chosen : defined[i] \in SUBSET (1 .. b.subtopics)
  BY DEF Defined
<1>7. ASSUME NEW i \in DOMAIN chosen
      PROVE  earlier(i) \in SUBSET (1 .. b.subtopics)
  <2>1. \A j \in 1 .. i - 1 : j \in DOMAIN chosen
    BY <1>5
  <2> QED
    BY <1>6, <2>1
<1> HIDE DEF defined, earlier, placed, target, p, q
<1>8. \A s : placed(s) \in SUBSET PlacementShape /\ AtMostOne(placed(s))
  BY PlacementForIs DEF placed, AtMostOne
<1>9. ASSUME NEW i \in DOMAIN p
      PROVE  q[i] \in SectionShape /\ SectionAgrees(q[i]) /\ Built(q[i])
  <2>1. p[i] \in SectionShape /\ Built(p[i])
    BY <1>1 DEF IsPlan, IsBuilt
  <2>2. /\ defined[i] \in SUBSET Nat /\ earlier(i) \in SUBSET Nat
        /\ IsFiniteSet(defined[i]) /\ IsFiniteSet(earlier(i))
    <3>1. defined[i] \in SUBSET (1 .. b.subtopics) /\ earlier(i) \in SUBSET (1 .. b.subtopics)
      BY <1>1, <1>6, <1>7
    <3>2. \A k \in 1 .. b.subtopics : k \in Nat
      OBVIOUS
    <3> QED
      BY <1>4, <3>1, <3>2, SubsetIsFinite
  <2>3. placed(p[i]) \in SUBSET PlacementShape /\ AtMostOne(placed(p[i]))
    BY <1>8
  <2>4. target(i) \in BOOLEAN
    BY DEF target
  <2>5. q[i] = [p[i] EXCEPT !.placements = placed(p[i]), !.defines = defined[i],
                            !.assumes = earlier(i), !.target = target(i)]
    BY <1>3
  <2>6. /\ q[i] \in SectionShape /\ q[i].placements = placed(p[i]) /\ q[i].defines = defined[i]
        /\ q[i].assumes = earlier(i) /\ q[i].components = p[i].components
    BY <2>1, <2>2, <2>3, <2>4, <2>5 DEF SectionShape
  <2> QED
    BY <2>1, <2>2, <2>3, <2>6 DEF SectionAgrees, Built
<1>10. DOMAIN q = DOMAIN p /\ q = [i \in 1 .. Len(chosen) |-> q[i]]
  BY <1>1, <1>3, <1>5
<1>11. IsPlan(q)
  BY <1>1, <1>5, <1>9, <1>10, PlanOf
<1>12. IsBuilt(q)
  BY <1>9, <1>10 DEF IsBuilt
<1> QED
  BY <1>11, <1>12 DEF q

-----------------------------------------------------------------------------
(* What the models answer, and what becomes of it.                         *)

LEMMA DraftIs ==
    ASSUME NEW l \in Seq(Resolvable), NEW two \in BOOLEAN, NEW t \in BOOLEAN, NEW p,
           p = [i \in DOMAIN l |->
                  [Section(i, i, l[i], IF two THEN FirstTwo(l[i])
                                              ELSE <<Last(RoleComponents[l[i]])>>)
                     EXCEPT !.target = t]]
    PROVE  IsPlan(p) /\ Len(p) = Len(l)
<1> DEFINE picked(role) == IF two THEN FirstTwo(role) ELSE <<Last(RoleComponents[role])>>
           plain(i) == Section(i, i, l[i], picked(l[i]))
<1>1. DOMAIN l = 1 .. Len(l) /\ Len(l) \in Nat
  OBVIOUS
<1>2. p = [i \in DOMAIN l |-> [plain(i) EXCEPT !.target = t]]
  OBVIOUS
<1>3. ASSUME NEW role \in Roles
      PROVE  picked(role) \in Seq(Component)
  <2>1. FirstTwo(role) \in Seq(Component)
    BY FirstTwoAre
  <2>2. RoleComponents[role] \in Seq(Component) /\ 3 <= Len(RoleComponents[role])
    BY ComponentsAre
  <2>3. Last(RoleComponents[role]) \in Component
    BY <2>2 DEF Last
  <2>4. <<Last(RoleComponents[role])>> \in Seq(Component)
    BY <2>3
  <2> QED
    BY <2>1, <2>4
<1> HIDE DEF picked
<1>4. ASSUME NEW i \in DOMAIN l
      PROVE  plain(i) \in SectionShape /\ SectionAgrees(plain(i))
  <2>1. i \in Nat /\ l[i] \in Roles
    BY <1>1 DEF Resolvable
  <2>2. picked(l[i]) \in Seq(Component)
    BY <1>3, <2>1
  <2> QED
    BY <2>1, <2>2, SectionIs
<1> HIDE DEF plain
<1>5. ASSUME NEW i \in DOMAIN l
      PROVE  p[i] \in SectionShape /\ SectionAgrees(p[i])
  <2>1. p[i] = [plain(i) EXCEPT !.target = t]
    BY <1>2
  <2>2. plain(i) \in SectionShape /\ SectionAgrees(plain(i))
    BY <1>4
  <2>3. /\ p[i] \in SectionShape /\ p[i].defines = plain(i).defines
        /\ p[i].assumes = plain(i).assumes /\ p[i].placements = plain(i).placements
    BY <2>1, <2>2 DEF SectionShape
  <2> QED
    BY <2>2, <2>3 DEF SectionAgrees
<1>6. p = [i \in 1 .. Len(l) |-> p[i]] /\ DOMAIN p = 1 .. Len(l)
  BY <1>1, <1>2
<1>7. IsPlan(p)
  BY <1>1, <1>5, <1>6, PlanOf
<1>8. Len(p) = Len(l)
  BY <1>1, <1>6, <1>7 DEF IsPlan
<1> QED
  BY <1>7, <1>8

LEMMA CleanAre ==
    ASSUME NEW b, NEW lists \in SUBSET Seq(Resolvable), NEW draft \in CleanDrafts(b, lists)
    PROVE  IsPlan(draft)
<1>1. PICK l \in lists, two \in BOOLEAN, t \in BOOLEAN :
        draft = [i \in DOMAIN l |->
                   [Section(i, i, l[i], IF two THEN FirstTwo(l[i])
                                               ELSE <<Last(RoleComponents[l[i]])>>)
                      EXCEPT !.target = t]]
  BY DEF CleanDrafts
<1>2. l \in Seq(Resolvable)
  OBVIOUS
<1> QED
  BY <1>1, <1>2, DraftIs

LEMMA RoleListsAre ==
    ASSUME NEW b \in BriefShape, roles \in Seq(Resolvable)
    PROVE  RoleLists(b) \subseteq Seq(Resolvable)
<1>1. PICK a \in 1..9, c \in 1..9 : Sizes(b) = a..c /\ Min(Sizes(b)) = a
  BY SizesOf
<1>2. ChooseRoles(b, roles) \in Seq(Resolvable)
  BY ChooseIs
<1>3. UpTo(roles, Min(Sizes(b)) - 1) \in Seq(Resolvable)
  <2>1. Min(Sizes(b)) - 1 \in Int
    BY <1>1
  <2> QED
    BY <2>1, UpToIs
<1>4. \A n \in Sizes(b) \cap 1 .. Len(roles) :
        SubSeq(roles, Len(roles) - n + 1, Len(roles)) \in Seq(Resolvable)
  <2>1. TAKE n \in Sizes(b) \cap 1 .. Len(roles)
  <2>2. Len(roles) - n + 1 \in 1 .. Len(roles) /\ Len(roles) \in 1 .. Len(roles)
    OBVIOUS
  <2> QED
    BY <2>2
<1> QED
  BY <1>2, <1>3, <1>4 DEF RoleLists

LEMMA ChangedIs ==
    ASSUME NEW p, IsPlan(p), NEW n, NEW s,
           n \in DOMAIN p => s \in SectionShape /\ SectionAgrees(s)
    PROVE  IsPlan([p EXCEPT ![n] = s])
<1> DEFINE q == [p EXCEPT ![n] = s]
<1>1. p \in Seq(SectionShape) /\ DOMAIN p = 1 .. Len(p) /\ Len(p) \in Nat
  BY DEF IsPlan
<1>2. DOMAIN q = DOMAIN p /\ \A i \in DOMAIN p : q[i] = IF i = n THEN s ELSE p[i]
  BY <1>1
<1>3. q = [i \in 1 .. Len(p) |-> q[i]]
  BY <1>1
<1> HIDE DEF q
<1>4. \A i \in 1 .. Len(p) : q[i] \in SectionShape /\ SectionAgrees(q[i])
  BY <1>1, <1>2 DEF IsPlan
<1>5. IsPlan(q)
  BY <1>1, <1>3, <1>4, PlanOf
<1> QED
  BY <1>5 DEF q

LEMMA FlawedIs ==
    ASSUME NEW b, NEW draft, IsPlan(draft), NEW flaw \in Flaws, roles \in Seq(Resolvable)
    PROVE  IsPlan(Flawed(b, draft, flaw))
<1> DEFINE n == Len(draft)
           other == CHOOSE r \in Roles : ~Contains(roles, r)
<1>1. /\ draft \in Seq(SectionShape) /\ DOMAIN draft = 1 .. n /\ n \in Nat
      /\ \A i \in DOMAIN draft : draft[i] \in SectionShape /\ SectionAgrees(draft[i])
  BY DEF IsPlan
<1>2. other \in Roles
  <2>1. "discover" \in Roles
    BY RolesAre
  <2>2. ~Contains(roles, "discover")
    <3>1. \A i \in 1 .. Len(roles) : roles[i] \in Resolvable
      OBVIOUS
    <3> QED
      BY <3>1 DEF Contains, Resolvable
  <2> QED
    BY <2>1, <2>2
<1>3. ASSUME NEW i \in DOMAIN draft
      PROVE  /\ \A c \in Seq(Component) :
                  /\ [draft[i] EXCEPT !.components = c] \in SectionShape
                  /\ SectionAgrees([draft[i] EXCEPT !.components = c])
             /\ \A r \in Roles : /\ [draft[i] EXCEPT !.role = r] \in SectionShape
                                 /\ SectionAgrees([draft[i] EXCEPT !.role = r])
             /\ /\ [draft[i] EXCEPT !.order = @ + 1] \in SectionShape
                /\ SectionAgrees([draft[i] EXCEPT !.order = @ + 1])
             /\ /\ [draft[i] EXCEPT !.id = 1] \in SectionShape
                /\ SectionAgrees([draft[i] EXCEPT !.id = 1])
  <2> DEFINE s == draft[i]
  <2>1. s \in SectionShape /\ SectionAgrees(s)
    BY <1>1
  <2> HIDE DEF s
  <2>2. ASSUME NEW c \in Seq(Component)
        PROVE  /\ [s EXCEPT !.components = c] \in SectionShape
               /\ SectionAgrees([s EXCEPT !.components = c])
    BY <2>1 DEF SectionShape, SectionAgrees
  <2>3. ASSUME NEW r \in Roles
        PROVE  [s EXCEPT !.role = r] \in SectionShape /\ SectionAgrees([s EXCEPT !.role = r])
    BY <2>1 DEF SectionShape, SectionAgrees
  <2>4. /\ [s EXCEPT !.order = @ + 1] \in SectionShape
        /\ SectionAgrees([s EXCEPT !.order = @ + 1])
    BY <2>1 DEF SectionShape, SectionAgrees
  <2>5. [s EXCEPT !.id = 1] \in SectionShape /\ SectionAgrees([s EXCEPT !.id = 1])
    BY <2>1 DEF SectionShape, SectionAgrees
  <2> QED
    BY <2>2, <2>3, <2>4, <2>5 DEF s
<1>4. <<>> \in Seq(Component) /\ <<"glossary-strip">> \in Seq(Component)
      /\ <<"timeline-block">> \in Seq(Component)
  <2>1. 4 \in DOMAIN RoleComponents["explain"] /\ RoleComponents["explain"][4] = "glossary-strip"
    BY DEF RoleComponents
  <2>2. 1 \in DOMAIN RoleComponents["timeline"] /\ RoleComponents["timeline"][1] = "timeline-block"
    BY DEF RoleComponents
  <2>3. "explain" \in Roles /\ "timeline" \in Roles
    BY RolesAre
  <2>4. "glossary-strip" \in Component /\ "timeline-block" \in Component
    BY <2>1, <2>2, <2>3, KnownIs
  <2> QED
    BY <2>4
<1> HIDE DEF n, other
<1>5. IsPlan([draft EXCEPT ![n] = [@ EXCEPT !.components = <<>>]])
  BY <1>3, <1>4, ChangedIs
<1>6. IsPlan([draft EXCEPT ![n] = [@ EXCEPT !.components = <<"glossary-strip">>]])
  BY <1>3, <1>4, ChangedIs
<1>7. IsPlan([draft EXCEPT ![n] = [@ EXCEPT !.components = <<"timeline-block">>]])
  BY <1>3, <1>4, ChangedIs
<1>8. IsPlan([draft EXCEPT ![1] = [@ EXCEPT !.role = other]])
  BY <1>2, <1>3, ChangedIs
<1>9. IsPlan([draft EXCEPT ![n] = [draft[n] EXCEPT !.order = @ + 1]])
  BY <1>3, ChangedIs
<1>10. IsPlan([draft EXCEPT ![n] = [@ EXCEPT !.id = 1]])
  BY <1>3, ChangedIs
<1>11. flaw \in {"none", "bare", "unknown", "foreign", "offrole", "order", "twin"}
  BY FlawsAssumption
<1>12. CASE flaw = "none"
  BY <1>12 DEF Flawed
<1>13. CASE flaw = "bare"
  BY <1>5, <1>13 DEF Flawed, n
<1>14. CASE flaw = "unknown"
  BY <1>6, <1>14 DEF Flawed, n
<1>15. CASE flaw = "foreign"
  BY <1>7, <1>15 DEF Flawed, n
<1>16. CASE flaw = "offrole"
  BY <1>8, <1>16 DEF Flawed, other
<1>17. CASE flaw = "order"
  BY <1>9, <1>17 DEF Flawed, n
<1>18. CASE flaw = "twin"
  BY <1>10, <1>18 DEF Flawed, n
<1> QED
  BY <1>11, <1>12, <1>13, <1>14, <1>15, <1>16, <1>17, <1>18

LEMMA CompositionsAre ==
    ASSUME NEW b \in BriefShape, roles \in Seq(Resolvable), NEW draft \in Compositions(b)
    PROVE  IsPlan(draft)
<1>1. CASE draft \in CleanDrafts(b, RoleLists(b))
  <2>1. RoleLists(b) \in SUBSET Seq(Resolvable)
    BY RoleListsAre
  <2> QED
    BY <1>1, <2>1, CleanAre
<1>2. CASE \E d \in CleanDrafts(b, {ChooseRoles(b, roles)}), f \in Flaws : draft = Flawed(b, d, f)
  <2>1. {ChooseRoles(b, roles)} \in SUBSET Seq(Resolvable)
    BY ChooseIs
  <2>2. PICK d \in CleanDrafts(b, {ChooseRoles(b, roles)}), f \in Flaws : draft = Flawed(b, d, f)
    BY <1>2
  <2>3. IsPlan(d)
    BY <2>1, CleanAre
  <2> QED
    BY <2>2, <2>3, FlawedIs
<1>3. \/ draft \in CleanDrafts(b, RoleLists(b))
      \/ \E d \in CleanDrafts(b, {ChooseRoles(b, roles)}) : draft \in {Flawed(b, d, f) : f \in Flaws}
  BY DEF Compositions
<1> QED
  BY <1>1, <1>2, <1>3

-----------------------------------------------------------------------------
(* Validation.                                                             *)

(* A plan without the faults of a missing and of an unknown component can  *)
(* be looked up.                                                           *)
LEMMA FaultlessIsBuilt ==
    ASSUME NEW b, NEW list, NEW p, IsPlan(p), Faults(b, list, p) \subseteq {"check"}
    PROVE  IsBuilt(p)
<1>1. "bare" \notin Faults(b, list, p) /\ "unknown" \notin Faults(b, list, p)
  OBVIOUS
<1>2. \A s \in ToSet(p) : s.components # <<>>
  BY <1>1 DEF Faults, FaultNames
<1>3. ComponentsIn(p) \subseteq KnownComponents
  BY <1>1 DEF Faults, FaultNames
<1>4. \A i \in DOMAIN p : p[i] \in ToSet(p)
  BY DEF ToSet
<1>5. ASSUME NEW i \in DOMAIN p
      PROVE  ToSet(p[i].components) \subseteq KnownComponents
  <2>1. ToSet(p[i].components) \in {ToSet(s.components) : s \in ToSet(p)}
    BY <1>4
  <2> QED
    BY <1>3, <2>1 DEF ComponentsIn
<1> QED
  BY <1>2, <1>4, <1>5 DEF IsBuilt, Built

(* Only the roles, the components and the targets of a plan are validated, *)
(* and the targets only for a check.                                       *)
LEMMA FaultsKept ==
    ASSUME NEW b, NEW list, NEW p, NEW q, IsPlan(p), IsPlan(q), DOMAIN q = DOMAIN p,
           \A i \in DOMAIN p : q[i].role = p[i].role /\ q[i].components = p[i].components
    PROVE  Faults(b, list, q) \subseteq Faults(b, list, p) \cup {"check"}
<1>1. Len(p) = Len(q)
  BY DEF IsPlan
<1>2. /\ \A s \in ToSet(q) : \E t \in ToSet(p) : s.role = t.role /\ s.components = t.components
      /\ \A t \in ToSet(p) : \E s \in ToSet(q) : s.role = t.role /\ s.components = t.components
  BY DEF ToSet
<1>3. RolesIn(p) = RolesIn(q)
  BY <1>2 DEF RolesIn
<1>4. ComponentsIn(p) = ComponentsIn(q)
  <2>1. {ToSet(s.components) : s \in ToSet(p)} = {ToSet(s.components) : s \in ToSet(q)}
    BY <1>2
  <2> QED
    BY <2>1 DEF ComponentsIn
<1>5. Practises(p) = Practises(q) /\ Reviews(p) = Reviews(q)
  BY <1>3, <1>4 DEF Practises, Reviews
<1>6. {i \in DOMAIN p : Shows(p[i])} = {i \in DOMAIN q : Shows(q[i])}
  BY DEF Shows
<1>7. \A duty : Honours(p, duty) = Honours(q, duty)
  BY <1>1, <1>3, <1>4, <1>5 DEF Honours
<1>8. ASSUME NEW f \in Faults(b, list, q), f # "check"
      PROVE  f \in Faults(b, list, p)
  <2>0. f \in FaultNames
    BY DEF Faults
  <2>1. CASE f = "size"
    BY <1>1, <2>1 DEF Faults, FaultNames
  <2>2. CASE f = "bare"
    BY <1>2, <2>2 DEF Faults, FaultNames
  <2>3. CASE f = "role"
    BY <1>2, <2>3 DEF Faults, FaultNames
  <2>4. CASE f = "unknown"
    BY <1>4, <2>4 DEF Faults, FaultNames
  <2>5. CASE f = "foreign"
    <3>1. PICK s \in ToSet(q) : ~(ToSet(s.components) \cap KnownComponents
                                    \subseteq ToSet(RoleComponents[s.role]))
      BY <2>5 DEF Faults, FaultNames
    <3>2. PICK t \in ToSet(p) : s.role = t.role /\ s.components = t.components
      BY <1>2
    <3>3. ~(ToSet(t.components) \cap KnownComponents \subseteq ToSet(RoleComponents[t.role]))
      BY <3>1, <3>2
    <3> QED
      BY <2>5, <3>3 DEF Faults, FaultNames
  <2>6. CASE f = "teaching"
    BY <1>2, <2>6 DEF Faults, FaultNames
  <2>7. CASE f = "visuals"
    BY <1>6, <2>7 DEF Faults, FaultNames
  <2>8. CASE f = "duty"
    BY <1>7, <2>8 DEF Faults, FaultNames
  <2>9. CASE f = "practice"
    BY <1>5, <2>9 DEF Faults, FaultNames
  <2>10. CASE f = "steps"
    BY <1>3, <2>10 DEF Faults, FaultNames
  <2> QED
    BY <1>8, <2>0, <2>1, <2>2, <2>3, <2>4, <2>5, <2>6, <2>7, <2>8, <2>9, <2>10 DEF FaultNames
<1> QED
  BY <1>8

(* Enriching and routing a plan change neither roles nor components.       *)
LEMMA KeptIs ==
    ASSUME NEW b, NEW list, NEW p, NEW q, IsPlan(p), IsBuilt(p), DOMAIN q = DOMAIN p,
           q = [i \in DOMAIN q |-> q[i]],
           \A i \in DOMAIN p : /\ q[i] \in SectionShape /\ SectionAgrees(q[i])
                               /\ q[i].role = p[i].role /\ q[i].components = p[i].components
    PROVE  /\ IsPlan(q) /\ IsBuilt(q)
           /\ Faults(b, list, p) \subseteq {"check"} => Faults(b, list, q) \subseteq {"check"}
<1>1. DOMAIN p = 1 .. Len(p) /\ Len(p) \in Nat
  BY DEF IsPlan
<1>2. IsPlan(q)
  BY <1>1, PlanOf
<1>3. IsBuilt(q)
  BY DEF IsBuilt, Built
<1>4. Faults(b, list, q) \subseteq Faults(b, list, p) \cup {"check"}
  BY <1>2, FaultsKept
<1> QED
  BY <1>2, <1>3, <1>4

LEMMA RoutedIs ==
    ASSUME IsPlan(plan), NEW decision \in Decisions
    PROVE  /\ DOMAIN Routed(decision) = DOMAIN plan
           /\ Routed(decision) = [i \in DOMAIN Routed(decision) |-> Routed(decision)[i]]
           /\ \A i \in DOMAIN plan :
                /\ Routed(decision)[i] \in SectionShape /\ SectionAgrees(Routed(decision)[i])
                /\ Routed(decision)[i].role = plan[i].role
                /\ Routed(decision)[i].components = plan[i].components
<1> DEFINE asked(field, default) ==
             IF decision = None \/ (\E d \in decision : d[field] = "none")
             THEN default ELSE (CHOOSE d \in decision : TRUE)[field]
           placement(s) == PlacementFor(s, asked("intent", VisualIntent(s.role)))
           mode == asked("mode", "image")
           q == Routed(decision)
<1>1. q = [i \in DOMAIN plan |->
             IF MayShow(decision, plan[i]) /\ BudgetLeft(decision, i)
             THEN [plan[i] EXCEPT !.placements = {placement(plan[i])}, !.mode = mode]
             ELSE [plan[i] EXCEPT !.placements = {}, !.mode = "none"]]
  BY DEF Routed
<1>2. mode \in {"svg", "image"}
  <2>1. CASE decision = None
    BY <2>1
  <2>2. CASE decision # None
    <3> DEFINE W == {{}, {plan[i].id : i \in DOMAIN plan}, {plan[Len(plan)].id}}
               I == {"none", "compare_variants", "demonstrate_process"}
               M == {"none", "svg"}
    <3>0. decision \in {{[wanted |-> w, intent |-> i, mode |-> m]} : w \in W, i \in I, m \in M}
      BY <2>2 DEF Decisions
    <3> HIDE DEF W, I
    <3>1. PICK w \in W, i \in I, m \in M : decision = {[wanted |-> w, intent |-> i, mode |-> m]}
      BY <3>0
    <3> DEFINE d == [wanted |-> w, intent |-> i, mode |-> m]
    <3>2. decision = {d} /\ d["mode"] = m
      BY <3>1
    <3> HIDE DEF d
    <3>3. (CHOOSE e \in decision : TRUE) = d
      BY <3>2
    <3> QED
      BY <3>2, <3>3
  <2> QED
    BY <2>1, <2>2
<1>3. \A s : placement(s) \in PlacementShape
  BY PlacementForIs
<1> HIDE DEF placement, mode, q
<1>4. ASSUME NEW i \in DOMAIN plan
      PROVE  /\ q[i] \in SectionShape /\ SectionAgrees(q[i])
             /\ q[i].role = plan[i].role /\ q[i].components = plan[i].components
  <2> DEFINE s == plan[i]
  <2>1. s \in SectionShape /\ SectionAgrees(s)
    BY DEF IsPlan
  <2>2. \/ q[i] = [s EXCEPT !.placements = {placement(s)}, !.mode = mode]
        \/ q[i] = [s EXCEPT !.placements = {}, !.mode = "none"]
    BY <1>1
  <2>3. placement(s) \in PlacementShape
    BY <1>3
  <2> HIDE DEF s
  <2>4. CASE q[i] = [s EXCEPT !.placements = {placement(s)}, !.mode = mode]
    <3>1. /\ q[i] \in SectionShape /\ q[i].role = s.role /\ q[i].components = s.components
          /\ q[i].placements = {placement(s)}
          /\ q[i].defines = s.defines /\ q[i].assumes = s.assumes
      <4> DEFINE some == {placement(s)}
      <4>1. some \in SUBSET PlacementShape /\ q[i] = [s EXCEPT !.placements = some, !.mode = mode]
        BY <2>3, <2>4
      <4>2. q[i].placements = some
        <5> HIDE DEF some
        <5> QED
          BY <2>1, <4>1 DEF SectionShape
      <4> HIDE DEF some
      <4>3. /\ q[i] \in SectionShape /\ q[i].role = s.role /\ q[i].components = s.components
            /\ q[i].defines = s.defines /\ q[i].assumes = s.assumes
        BY <1>2, <2>1, <4>1 DEF SectionShape
      <4> QED
        BY <4>2, <4>3 DEF some
    <3> QED
      BY <2>1, <3>1 DEF SectionAgrees, AtMostOne, s
  <2>5. CASE q[i] = [s EXCEPT !.placements = {}, !.mode = "none"]
    BY <2>1, <2>5 DEF SectionShape, SectionAgrees, AtMostOne, s
  <2> QED
    BY <2>2, <2>4, <2>5
<1>5. DOMAIN q = DOMAIN plan /\ q = [i \in DOMAIN q |-> q[i]]
  BY <1>1
<1> QED
  BY <1>4, <1>5 DEF q

LEMMA OutlineIs ==
    ASSUME NEW s \in SectionShape, SectionAgrees(s), NEW mode
    PROVE  /\ OutlineSection(s, mode) \in OutlineShape /\ OutlineAgrees(OutlineSection(s, mode))
           /\ OutlineSection(s, mode).required = ToSet(s.components)
<1> DEFINE selected == ToSet(s.components)
           terms == Min({6, Cardinality(s.defines) + Cardinality(s.assumes)})
           interaction == CASE mode = "draft" -> "disabled"
                            [] "simulation-block" \in selected -> "required"
                            [] OTHER -> "allowed"
           o == OutlineSection(s, mode)
<1>1. terms \in Nat
  <2> DEFINE n == Cardinality(s.defines) + Cardinality(s.assumes)
  <2>1. n \in Nat
    BY FS_CardinalityType DEF SectionAgrees
  <2> HIDE DEF n
  <2>2. 6 \in Int /\ n \in Int
    BY <2>1
  <2>3. Min({6, n}) = IF 6 <= n THEN 6 ELSE n
    BY <2>2, MinOfTwo, Zenon
  <2> QED
    BY <2>1, <2>3 DEF n
<1>2. /\ interaction \in {"disabled", "required", "allowed"}
      /\ "simulation-block" \in selected /\ interaction # "disabled" => interaction = "required"
  OBVIOUS
<1>3. selected \in SUBSET Component
  BY DEF SectionShape, ToSet
<1>4. o = [id |-> s.id, role |-> s.role, required |-> selected, placements |-> s.placements,
           mode |-> s.mode, terms |-> terms, interaction |-> interaction]
  BY DEF OutlineSection
<1> HIDE DEF terms, interaction, selected, o
<1>5. o \in OutlineShape
  BY <1>1, <1>2, <1>3, <1>4 DEF OutlineShape, SectionShape
<1>6. OutlineAgrees(o) /\ o.required = selected
  BY <1>2, <1>4 DEF OutlineAgrees, SimulationAllowed, SectionAgrees
<1> QED
  BY <1>5, <1>6 DEF o, selected

LEMMA BriefIs ==
    ASSUME PlanInv, pc \in {"compose", "enrich", "route", "returned"}
    PROVE  /\ Brief \in Briefs /\ Brief \in BriefShape /\ brief = {Brief}
           /\ roles \in Seq(Resolvable)
<1>1. brief \in SUBSET Briefs /\ brief # {} /\ AtMostOne(brief) /\ roles = ResolvedRoles(Brief)
  BY DEF PlanInv
<1>2. Brief \in brief
  BY <1>1 DEF Brief
<1>3. Brief \in Briefs /\ Brief \in BriefShape /\ brief = {Brief}
  BY <1>1, <1>2, BriefsAssumption DEF AtMostOne
<1> QED
  BY <1>1, <1>3, ResolvedAre

-----------------------------------------------------------------------------
(* The invariant of the plan.                                              *)

LEMMA InitPlan == Init => PlanInv
<1>1. SUFFICES ASSUME Init PROVE PlanInv
  OBVIOUS
<1>2. brief \in SUBSET Briefs /\ brief # {} /\ AtMostOne(brief)
  BY <1>1 DEF Init, AtMostOne
<1>3. roles = ResolvedRoles(Brief)
  BY <1>1 DEF Init, Brief
<1>4. plan = <<>> /\ origin = "nobody"
  BY <1>1 DEF Init
<1>5. IsPlan(plan) /\ IsBuilt(plan)
  BY <1>4 DEF IsPlan, IsBuilt
<1> QED
  BY <1>2, <1>3, <1>4, <1>5 DEF PlanInv

LEMMA ComposePlan == PlanInv /\ Compose => PlanInv'
<1>1. SUFFICES ASSUME PlanInv, Compose PROVE PlanInv'
  OBVIOUS
<1>2. pc = "compose" /\ brief' = brief /\ roles' = roles /\ Brief' = Brief
  BY <1>1 DEF Compose, Brief
<1>3. /\ brief \in SUBSET Briefs /\ brief # {} /\ AtMostOne(brief) /\ roles = ResolvedRoles(Brief)
      /\ plan = <<>> /\ origin = "nobody" /\ IsPlan(plan) /\ IsBuilt(plan)
  BY <1>1, <1>2 DEF PlanInv
<1>4. Brief \in BriefShape /\ roles \in Seq(Resolvable)
  BY <1>1, <1>2, BriefIs
<1>5. PICK draft \in Compositions(Brief) :
        \/ /\ Accepted(Brief, draft)
           /\ plan' = draft /\ origin' = "model" /\ pc' = "enrich"
        \/ pc' = pc /\ origin' = origin /\ plan' = plan
        \/ /\ plan' = FallbackComposition(Brief, roles)
           /\ origin' = "composition" /\ pc' = "enrich"
  BY <1>1 DEF Compose
<1>6. IsPlan(draft)
  BY <1>4, CompositionsAre
<1>7. CASE /\ Accepted(Brief, draft)
           /\ plan' = draft /\ origin' = "model" /\ pc' = "enrich"
  <2>1. Faults(Brief, roles, draft) \subseteq {"check"}
    BY <1>7 DEF Accepted
  <2>2. IsBuilt(draft)
    BY <1>6, <2>1, FaultlessIsBuilt
  <2> QED
    BY <1>2, <1>3, <1>6, <1>7, <2>1, <2>2 DEF PlanInv, IsPlan, IsBuilt, AtMostOne
<1>8. CASE pc' = pc /\ origin' = origin /\ plan' = plan
  BY <1>1, <1>2, <1>3, <1>8 DEF PlanInv, IsPlan, IsBuilt, AtMostOne
<1>9. CASE /\ plan' = FallbackComposition(Brief, roles)
           /\ origin' = "composition" /\ pc' = "enrich"
  <2>1. IsPlan(FallbackComposition(Brief, roles)) /\ IsBuilt(FallbackComposition(Brief, roles))
    BY <1>4, FallbackCompositionIs
  <2> QED
    BY <1>2, <1>3, <1>9, <2>1 DEF PlanInv, IsPlan, IsBuilt, AtMostOne
<1> QED
  BY <1>5, <1>7, <1>8, <1>9

LEMMA EnrichPlan == PlanInv /\ Enrich => PlanInv'
<1>1. SUFFICES ASSUME PlanInv, Enrich PROVE PlanInv'
  OBVIOUS
<1>2. /\ pc = "enrich" /\ pc' = "route" /\ brief' = brief /\ roles' = roles /\ Brief' = Brief
      /\ origin' = origin
  BY <1>1 DEF Enrich, Brief
<1>3. /\ brief \in SUBSET Briefs /\ brief # {} /\ AtMostOne(brief) /\ roles = ResolvedRoles(Brief)
      /\ IsPlan(plan) /\ IsBuilt(plan)
      /\ origin = "model" => Faults(Brief, roles, plan) \subseteq {"check"}
  BY <1>1, <1>2 DEF PlanInv
<1>4. /\ IsPlan(plan') /\ IsBuilt(plan')
      /\ Faults(Brief, roles, plan) \subseteq {"check"} =>
           Faults(Brief, roles, plan') \subseteq {"check"}
  <2>1. CASE plan' = plan
    BY <1>3, <2>1
  <2>2. CASE \E t \in BOOLEAN, d \in {{}, {1}} :
               plan' = [i \in DOMAIN plan |->
                          [plan[i] EXCEPT !.target = t, !.defines = d, !.assumes = {}]]
    <3>1. PICK t \in BOOLEAN, d \in {{}, {1}} :
               plan' = [i \in DOMAIN plan |->
                          [plan[i] EXCEPT !.target = t, !.defines = d, !.assumes = {}]]
      BY <2>2
    <3>2. IsFiniteSet(d) /\ d \in SUBSET Nat
      <4>1. IsFiniteSet({}) /\ IsFiniteSet({1})
        BY FS_EmptySet, FS_Singleton
      <4> QED
        BY <4>1
    <3>3. DOMAIN plan' = DOMAIN plan /\ plan' = [i \in DOMAIN plan' |-> plan'[i]]
      BY <3>1
    <3>4. ASSUME NEW i \in DOMAIN plan
          PROVE  /\ plan'[i] \in SectionShape /\ SectionAgrees(plan'[i])
                 /\ plan'[i].role = plan[i].role /\ plan'[i].components = plan[i].components
      <4> DEFINE s == plan[i]
                 u == plan'[i]
      <4>1. s \in SectionShape /\ SectionAgrees(s)
        BY <1>3 DEF IsPlan
      <4>2. u = [s EXCEPT !.target = t, !.defines = d, !.assumes = {}]
        BY <3>1
      <4> HIDE DEF s, u
      <4>3. /\ u \in SectionShape /\ u.role = s.role /\ u.components = s.components
            /\ u.placements = s.placements /\ u.defines = d /\ u.assumes = {}
        BY <3>2, <4>1, <4>2 DEF SectionShape
      <4>4. SectionAgrees(u)
        BY <3>2, <4>1, <4>3, FS_EmptySet DEF SectionAgrees
      <4> QED
        BY <4>3, <4>4 DEF s, u
    <3> QED
      BY <1>3, <3>3, <3>4, KeptIs
  <2> QED
    BY <1>1, <2>1, <2>2 DEF Enrich
<1> QED
  BY <1>2, <1>3, <1>4 DEF PlanInv, IsPlan, IsBuilt, AtMostOne

LEMMA RoutePlan == PlanInv /\ Route => PlanInv'
<1>1. SUFFICES ASSUME PlanInv, Route PROVE PlanInv'
  OBVIOUS
<1>2. /\ pc = "route" /\ pc' = "returned" /\ brief' = brief /\ roles' = roles /\ Brief' = Brief
      /\ origin' = origin
  BY <1>1 DEF Route, Brief
<1>3. /\ brief \in SUBSET Briefs /\ brief # {} /\ AtMostOne(brief) /\ roles = ResolvedRoles(Brief)
      /\ IsPlan(plan) /\ IsBuilt(plan)
      /\ origin = "model" => Faults(Brief, roles, plan) \subseteq {"check"}
  BY <1>1, <1>2 DEF PlanInv
<1>4. PICK decision \in Decisions : plan' = Routed(decision)
  BY <1>1 DEF Route
<1>5. /\ IsPlan(plan') /\ IsBuilt(plan')
      /\ Faults(Brief, roles, plan) \subseteq {"check"} =>
           Faults(Brief, roles, plan') \subseteq {"check"}
  <2> DEFINE q == Routed(decision)
  <2>1. /\ DOMAIN q = DOMAIN plan /\ q = [i \in DOMAIN q |-> q[i]]
        /\ \A i \in DOMAIN plan :
             /\ q[i] \in SectionShape /\ SectionAgrees(q[i])
             /\ q[i].role = plan[i].role /\ q[i].components = plan[i].components
    BY <1>3, RoutedIs
  <2> HIDE DEF q
  <2>2. /\ IsPlan(q) /\ IsBuilt(q)
        /\ Faults(Brief, roles, plan) \subseteq {"check"} => Faults(Brief, roles, q) \subseteq {"check"}
    BY <1>3, <2>1, KeptIs
  <2> QED
    BY <1>4, <2>2 DEF q
<1> QED
  BY <1>2, <1>3, <1>5 DEF PlanInv, IsPlan, IsBuilt, AtMostOne

LEMMA FallBackPlan == PlanInv /\ FallBack => PlanInv'
<1>1. SUFFICES ASSUME PlanInv, FallBack PROVE PlanInv'
  OBVIOUS
<1>2. /\ pc \in {"compose", "route"} /\ pc' = "returned" /\ brief' = brief /\ roles' = roles
      /\ Brief' = Brief /\ origin' = "spec" /\ plan' = FallbackSpec(Brief, roles)
  BY <1>1 DEF FallBack, Brief
<1>3. brief \in SUBSET Briefs /\ brief # {} /\ AtMostOne(brief) /\ roles = ResolvedRoles(Brief)
  BY <1>1, <1>2 DEF PlanInv
<1>4. Brief \in BriefShape /\ roles \in Seq(Resolvable)
  BY <1>1, <1>2, BriefIs
<1>5. IsPlan(FallbackSpec(Brief, roles)) /\ IsBuilt(FallbackSpec(Brief, roles))
  BY <1>4, FallbackSpecIs
<1> QED
  BY <1>2, <1>3, <1>5 DEF PlanInv, IsPlan, IsBuilt, AtMostOne

LEMMA NextPlan == PlanInv /\ [Next]_vars => PlanInv'
<1>1. SUFFICES ASSUME PlanInv, [Next]_vars PROVE PlanInv'
  OBVIOUS
<1>2. CASE Commit \/ PlanMedia \/ DrawAll \/ DrawNothing \/ DrawOne \/ AssembleSection
  <2>1. pc' \in {"committed", "drawing", "assembled", "refused"}
    BY <1>2 DEF Commit, PlanMedia, DrawAll, DrawNothing, DrawOne, AssembleSection
  <2> QED
    BY <2>1 DEF PlanInv
<1>3. CASE UNCHANGED vars
  BY <1>1, <1>3 DEF PlanInv, vars, IsPlan, IsBuilt, AtMostOne, Brief
<1> QED
  BY <1>1, <1>2, <1>3, ComposePlan, EnrichPlan, RoutePlan, FallBackPlan DEF Next

(* Whatever the models answer, a plan that POST /brief/plan returns as the *)
(* model's has passed the validator but for a check the enrichment took    *)
(* back, and the pipeline can look up every component of any plan.         *)
THEOREM ChecksReturned == Spec => []ReturnedIsChecked
<1>1. PlanInv => ReturnedIsChecked
  <2>1. SUFFICES ASSUME PlanInv, pc = "returned"
                 PROVE  /\ origin = "model" => Faults(Brief, roles, plan) \subseteq {"check"}
                        /\ \A i \in DOMAIN plan :
                             ManifestBuilds(OutlineSection(plan[i], Mode(Brief.depth)))
    BY DEF ReturnedIsChecked
  <2>2. /\ origin = "model" => Faults(Brief, roles, plan) \subseteq {"check"}
        /\ IsPlan(plan) /\ IsBuilt(plan)
    BY <2>1 DEF PlanInv
  <2>3. ASSUME NEW i \in DOMAIN plan
        PROVE  ManifestBuilds(OutlineSection(plan[i], Mode(Brief.depth)))
    <3>1. plan[i] \in SectionShape /\ SectionAgrees(plan[i]) /\ Built(plan[i])
      BY <2>2 DEF IsPlan, IsBuilt
    <3>2. OutlineSection(plan[i], Mode(Brief.depth)).required = ToSet(plan[i].components)
      BY <3>1, OutlineIs
    <3>3. ToSet(plan[i].components) # {}
      <4>1. plan[i].components \in Seq(Component) /\ plan[i].components # <<>>
        BY <3>1 DEF SectionShape, Built
      <4>2. 1 \in DOMAIN plan[i].components
        BY <4>1
      <4> QED
        BY <4>2 DEF ToSet
    <3> QED
      BY <3>1, <3>2, <3>3 DEF ManifestBuilds, Built
  <2> QED
    BY <2>2, <2>3
<1>2. Spec => []PlanInv
  BY InitPlan, NextPlan, PTL DEF Spec
<1> QED
  BY <1>1, <1>2, PTL

-----------------------------------------------------------------------------
(* The invariant of the slots.                                             *)

LEMMA MediaSlots ==
    ASSUME NEW o \in OutlineShape, OutlineAgrees(o), NEW c \in ContentShape,
           NEW choice, DOMAIN choice = Slots(o, c),
           \A s \in DOMAIN choice : choice[s] \in Prompted(s)
    PROVE  SlotsMatch(o, {choice[s] : s \in DOMAIN choice})
<1> DEFINE S == Slots(o, c)
           T == {choice[s] : s \in DOMAIN choice}
           still == {StaticSlot(o, p, c) : p \in o.placements}
           moving == IF SimulationAllowed(o) THEN {SimulationSlot(o)} ELSE {}
<1>1. o.placements \in SUBSET PlacementShape /\ AtMostOne(o.placements)
  BY DEF OutlineShape, OutlineAgrees
<1>2. S = still \cup moving
  BY DEF Slots
<1> HIDE DEF S
<1>3. \A s \in still : s \in SlotShape /\ SlotAgrees(s) /\ s.kind # "simulation"
  BY <1>1, StaticSlotIs
<1>4. AtMostOne(still) /\ ((still = {}) <=> (o.placements = {}))
  BY <1>1 DEF AtMostOne
<1>5. /\ \A s \in moving : s \in SlotShape /\ SlotAgrees(s) /\ s.kind = "simulation"
      /\ AtMostOne(moving)
      /\ moving # {} => o.interaction = "required"
  BY SimulationSlotIs DEF AtMostOne, OutlineAgrees
<1> HIDE DEF still, moving
<1>6. \A s \in S : /\ choice[s] \in SlotShape /\ SlotAgrees(choice[s])
                   /\ choice[s].kind = s.kind
  <2>1. TAKE s \in S
  <2>2. s \in SlotShape /\ SlotAgrees(s) /\ choice[s] \in Prompted(s)
    BY <1>2, <1>3, <1>5, <2>1 DEF S
  <2> QED
    BY <2>2, PromptedIs
<1>7. T = {choice[s] : s \in S}
  BY DEF S
<1> HIDE DEF T
<1>8. \A t \in T : \E s \in S : t = choice[s] /\ t \in SlotShape /\ SlotAgrees(t) /\ t.kind = s.kind
  BY <1>6, <1>7
<1>9. \A t \in T : \/ t.kind # "simulation" /\ \E s \in still : t = choice[s]
                   \/ t.kind = "simulation" /\ \E s \in moving : t = choice[s]
  BY <1>2, <1>3, <1>5, <1>8
<1>10. AtMostOne(StaticOf(T))
  BY <1>4, <1>9 DEF AtMostOne, StaticOf
<1>11. (StaticOf(T) = {}) <=> (o.placements = {})
  <2>1. ASSUME NEW s \in still
        PROVE  choice[s] \in StaticOf(T)
    BY <1>2, <1>3, <1>6, <1>7 DEF StaticOf
  <2>2. ASSUME NEW t \in StaticOf(T)
        PROVE  still # {}
    BY <1>9 DEF StaticOf
  <2> QED
    BY <1>4, <2>1, <2>2
<1>12. \A s, t \in T : s.kind = "simulation" /\ t.kind = "simulation" => s = t
  BY <1>5, <1>9 DEF AtMostOne
<1>13. ASSUME NEW s \in T, NEW t \in T, s.id = t.id
       PROVE  s = t
  <2>1. s.kind = "simulation" <=> t.kind = "simulation"
    BY <1>8, <1>13 DEF SlotAgrees
  <2> QED
    BY <1>10, <1>12, <2>1 DEF AtMostOne, StaticOf
<1>14. \A s \in T : s.kind = "simulation" => o.interaction = "required"
  BY <1>5, <1>9
<1>15. SlotsMatch(o, T)
  BY <1>8, <1>10, <1>11, <1>13, <1>14 DEF SlotsMatch
<1> QED
  BY <1>15 DEF T

LEMMA NothingDrawn ==
    ASSUME NEW o, NEW ss, SlotsMatch(o, ss), NEW d,
           d = [id \in IdsOf(ss) |->
                  [f \in 1 .. (CHOOSE s \in ss : s.id = id).frames |-> "none"]]
    PROVE  ResultsMatch(ss, d) /\ ToldMatches(ss, d, PlanTold(NothingTold, ss))
<1>1. /\ \A s \in ss : s \in SlotShape /\ SlotAgrees(s) /\ s.frames \in Nat \ {0} /\ s.id \in IdsOf(ss)
      /\ \A s, t \in ss : s.id = t.id => s = t
  BY DEF SlotsMatch, SlotShape, IdsOf
<1>2. \A s \in ss : (CHOOSE t \in ss : t.id = s.id) = s
  BY <1>1
<1>3. \A s \in ss : d[s.id] = [f \in 1 .. s.frames |-> "none"]
  BY <1>1, <1>2
<1>4. ResultsMatch(ss, d)
  <2>1. ASSUME NEW s \in ss
        PROVE  d[s.id] \in [1 .. s.frames -> Drawn]
    <3>1. "none" \in Drawn
      BY DEF Drawn
    <3>2. [f \in 1 .. s.frames |-> "none"] \in [1 .. s.frames -> Drawn]
      BY <3>1
    <3> QED
      BY <1>3, <3>2
  <2> QED
    BY <2>1 DEF ResultsMatch
<1> DEFINE decision(id) ==
             LET s == CHOOSE s \in ss : s.id = id
             IN [executor |-> DecisionExecutor(s.kind, s.render), status |-> "planned"]
           t == PlanTold(NothingTold, ss)
<1>5. t = [decided |-> [id \in IdsOf(ss) |-> decision(id)], ready |-> {}, failed |-> {}]
  <2>1. t = [NothingTold EXCEPT !.decided =
               [id \in IdsOf(ss) \cup DOMAIN <<>> |->
                  IF id \in IdsOf(ss) THEN decision(id) ELSE <<>>[id]]]
    BY DEF PlanTold, NothingTold, IdsOf
  <2>2. [id \in IdsOf(ss) \cup DOMAIN <<>> |->
           IF id \in IdsOf(ss) THEN decision(id) ELSE <<>>[id]]
          = [id \in IdsOf(ss) |-> decision(id)]
    <3> HIDE DEF decision
    <3>1. DOMAIN <<>> = {}
      OBVIOUS
    <3> QED
      BY <3>1
  <2> HIDE DEF decision, t
  <2> QED
    BY <2>1, <2>2 DEF NothingTold
<1>6. \A s \in ss : decision(s.id) = [executor |-> Executor(s), status |-> "planned"]
  BY <1>1, <1>2, ExecutorIs
<1> HIDE DEF decision, t
<1>7. \A id \in IdsOf(ss) : \E s \in ss : id = s.id
  BY DEF IdsOf
<1>8. \A id \in IdsOf(ss) : decision(id) \in
        [executor : {"interaction_generator", "image_generator", "diagram_generator"},
         status : {"planned", "generated", "failed", "skipped"}]
  <2>1. TAKE id \in IdsOf(ss)
  <2>2. PICK s \in ss : id = s.id
    BY <1>7
  <2>3. Executor(s) \in {"interaction_generator", "image_generator", "diagram_generator"}
    BY <1>1, ExecutorIs
  <2>4. decision(id) = [executor |-> Executor(s), status |-> "planned"]
    BY <1>6, <2>2
  <2> QED
    BY <2>3, <2>4
<1>9. t \in ToldShape(IdsOf(ss))
  BY <1>5, <1>8 DEF ToldShape
<1>10. ASSUME NEW s \in ss
       PROVE  /\ ~SlotIsReady(s, d[s.id])
              /\ t.decided[s.id].executor = Executor(s)
              /\ \A f \in 1 .. s.frames : d[s.id][f] = "none"
  <2>1. \A f \in 1 .. s.frames : d[s.id][f] = "none"
    <3>1. d[s.id] = [f \in 1 .. s.frames |-> "none"]
      BY <1>3
    <3> QED
      BY <3>1
  <2>2. ~SlotIsReady(s, d[s.id])
    <3>1. 1 \in 1 .. s.frames
      BY <1>1
    <3> QED
      BY <2>1, <3>1 DEF SlotIsReady
  <2>3. t.decided[s.id] = [executor |-> Executor(s), status |-> "planned"]
    BY <1>1, <1>5, <1>6
  <2>4. t.decided[s.id].executor = Executor(s)
    BY <2>3
  <2> QED
    BY <2>1, <2>2, <2>4
<1>11. ToldMatches(ss, d, t)
  BY <1>9, <1>10 DEF ToldMatches
<1> QED
  BY <1>4, <1>11 DEF t

(* A slot's results come in, and the other slots' stay or go.              *)
LEMMA BroughtIs ==
    ASSUME NEW o, SlotsMatch(o, slots), ResultsMatch(slots, drawn), NEW s \in slots,
           NEW r \in [1 .. s.frames -> Drawn]
    PROVE  /\ ResultsMatch(slots, Brought(s, r)) /\ Brought(s, r)[s.id] = r
           /\ \A t \in slots \ {s} : \/ Brought(s, r)[t.id] = drawn[t.id]
                                     \/ Brought(s, r)[t.id] = [f \in 1 .. t.frames |-> "none"]
<1> DEFINE kept == IF s.kind = "simulation"
                   THEN [id \in DOMAIN drawn |-> [f \in DOMAIN drawn[id] |-> "none"]]
                   ELSE drawn
           d == Brought(s, r)
<1>1. d = [kept EXCEPT ![s.id] = r]
  BY DEF Brought
<1>2. /\ DOMAIN drawn = IdsOf(slots) /\ \A t \in slots : t.id \in IdsOf(slots)
      /\ \A t \in slots : drawn[t.id] \in [1 .. t.frames -> Drawn]
      /\ \A t \in slots : s.id = t.id => s = t
  BY DEF ResultsMatch, IdsOf, SlotsMatch
<1>3. /\ DOMAIN kept = IdsOf(slots)
      /\ \A t \in slots : \/ kept[t.id] = drawn[t.id]
                          \/ kept[t.id] = [f \in 1 .. t.frames |-> "none"]
  BY <1>2
<1> HIDE DEF kept, d
<1>4. d[s.id] = r /\ DOMAIN d = IdsOf(slots)
  BY <1>1, <1>2, <1>3
<1>5. \A t \in slots \ {s} : \/ d[t.id] = drawn[t.id]
                             \/ d[t.id] = [f \in 1 .. t.frames |-> "none"]
  BY <1>1, <1>2, <1>3
<1>6. ASSUME NEW t \in slots
      PROVE  d[t.id] \in [1 .. t.frames -> Drawn]
  <2>1. [f \in 1 .. t.frames |-> "none"] \in [1 .. t.frames -> Drawn]
    BY DEF Drawn
  <2>2. CASE t = s
    BY <1>4, <2>2
  <2>3. CASE t # s
    BY <1>2, <1>5, <2>1, <2>3
  <2> QED
    BY <2>2, <2>3
<1>7. ResultsMatch(slots, d)
  BY <1>4, <1>6 DEF ResultsMatch
<1> QED
  BY <1>4, <1>5, <1>7 DEF d

LEMMA StillTold ==
    ASSUME NEW o, SlotsMatch(o, slots), ResultsMatch(slots, drawn), ToldMatches(slots, drawn, told),
           NEW s \in slots, NEW r \in [1 .. s.frames -> Drawn], NEW u,
           Further(told, u, IdsOf(slots)), u.decided[s.id].status # "planned",
           (\A f \in DOMAIN r : r[f] # "failed") => s.id \in u.ready
    PROVE  ToldMatches(slots, Brought(s, r), u)
<1> DEFINE d == Brought(s, r)
<1>1. /\ d[s.id] = r
      /\ \A t \in slots \ {s} : \/ d[t.id] = drawn[t.id]
                                \/ d[t.id] = [f \in 1 .. t.frames |-> "none"]
  BY BroughtIs
<1> HIDE DEF d
<1>2. \A t \in slots : t.id \in IdsOf(slots) /\ t.frames \in Nat \ {0}
  BY DEF IdsOf, SlotsMatch, SlotShape
<1>3. \A t \in slots : u.decided[t.id].executor = Executor(t)
  BY <1>2 DEF ToldMatches, Further
<1>4. SlotIsReady(s, r) => s.id \in u.ready
  BY DEF SlotIsReady
<1>5. ASSUME NEW t \in slots, t # s
      PROVE  /\ SlotIsReady(t, d[t.id]) => t.id \in u.ready
             /\ u.decided[t.id].status = "planned" => \A f \in 1 .. t.frames : d[t.id][f] = "none"
  <2>1. CASE d[t.id] = drawn[t.id]
    BY <1>2, <2>1 DEF ToldMatches, Further
  <2>2. CASE d[t.id] = [f \in 1 .. t.frames |-> "none"]
    <3>1. \A f \in 1 .. t.frames : d[t.id][f] = "none"
      BY <2>2
    <3>2. 1 \in 1 .. t.frames
      BY <1>2
    <3> QED
      BY <3>1, <3>2 DEF SlotIsReady
  <2> QED
    BY <1>1, <1>5, <2>1, <2>2
<1>6. u \in ToldShape(IdsOf(slots))
  BY DEF Further
<1>7. ToldMatches(slots, d, u)
  BY <1>1, <1>3, <1>4, <1>5, <1>6 DEF ToldMatches
<1> QED
  BY <1>7 DEF d

LEMMA InitDrawing == Init => DrawingInv
<1>1. Init => /\ pc = "compose" /\ section = {} /\ slots = {} /\ drawn = <<>>
              /\ told = NothingTold
  BY DEF Init, None
<1> QED
  BY <1>1 DEF DrawingInv

LEMMA CommitDrawing == PlanInv /\ DrawingInv /\ Commit => DrawingInv'
<1>1. SUFFICES ASSUME PlanInv, DrawingInv, Commit PROVE DrawingInv'
  OBVIOUS
<1>2. /\ pc = "returned" /\ pc' = "committed" /\ UNCHANGED <<slots, drawn, told>>
      /\ IsPlan(plan)
  BY <1>1 DEF Commit, PlanInv
<1>3. PICK i \in DOMAIN plan : section' = {OutlineSection(plan[i], Mode(Brief.depth))}
  BY <1>1 DEF Commit
<1>4. /\ OutlineSection(plan[i], Mode(Brief.depth)) \in OutlineShape
      /\ OutlineAgrees(OutlineSection(plan[i], Mode(Brief.depth)))
  BY <1>2, OutlineIs DEF IsPlan
<1>5. section' \in SUBSET OutlineShape /\ section' # {} /\ AtMostOne(section')
      /\ \A o \in section' : OutlineAgrees(o)
  BY <1>3, <1>4 DEF AtMostOne
<1> QED
  BY <1>1, <1>2, <1>5 DEF DrawingInv, AtMostOne

LEMMA PlanMediaDrawing == DrawingInv /\ PlanMedia => DrawingInv'
<1>1. SUFFICES ASSUME DrawingInv, PlanMedia PROVE DrawingInv'
  OBVIOUS
<1>2. /\ pc = "committed" /\ pc' = "drawing" /\ section' = section
      /\ section \in SUBSET OutlineShape /\ section # {} /\ AtMostOne(section)
      /\ \A o \in section : OutlineAgrees(o)
      /\ told = NothingTold
  BY <1>1 DEF DrawingInv, PlanMedia
<1>3. PICK o \in section, c \in Contents :
        \E choice \in [Slots(o, c) -> UNION {Prompted(s) : s \in Slots(o, c)}] :
          /\ \A s \in DOMAIN choice : choice[s] \in Prompted(s)
          /\ slots' = {choice[s] : s \in DOMAIN choice}
  BY <1>1 DEF PlanMedia
<1>4. PICK choice :
        /\ DOMAIN choice = Slots(o, c)
        /\ \A s \in DOMAIN choice : choice[s] \in Prompted(s)
        /\ slots' = {choice[s] : s \in DOMAIN choice}
  BY <1>3
<1>5. o \in OutlineShape /\ OutlineAgrees(o) /\ c \in ContentShape /\ \A e \in section : e = o
  BY <1>2, ContentsAssumption DEF AtMostOne
<1>6. SlotsMatch(o, slots')
  BY <1>4, <1>5, MediaSlots
<1>7. /\ drawn' = [id \in IdsOf(slots') |->
                     [f \in 1 .. (CHOOSE s \in slots' : s.id = id).frames |-> "none"]]
      /\ told' = PlanTold(NothingTold, slots')
  BY <1>1, <1>2 DEF PlanMedia, IdsOf
<1>8. ResultsMatch(slots', drawn') /\ ToldMatches(slots', drawn', told')
  BY <1>6, <1>7, NothingDrawn
<1> QED
  BY <1>2, <1>5, <1>6, <1>8 DEF DrawingInv, SlotsMatch, ResultsMatch, ToldMatches, IdsOf, StaticOf,
       AtMostOne, OutlineAgrees

(* In a section whose slots are being drawn, the slots do not change.      *)
LEMMA DrawingStill ==
    ASSUME DrawingInv, pc = "drawing", pc' = pc, section' = section, slots' = slots,
           ResultsMatch(slots, drawn'), ToldMatches(slots, drawn', told')
    PROVE  DrawingInv'
<1>1. section' \in SUBSET OutlineShape /\ section' # {} /\ AtMostOne(section')
  BY DEF DrawingInv, AtMostOne
<1>2. \A o \in section' : OutlineAgrees(o) /\ SlotsMatch(o, slots')
  BY DEF DrawingInv
<1> QED
  BY <1>1, <1>2 DEF DrawingInv, AtMostOne

LEMMA DrawAllDrawing == DrawingInv /\ DrawAll => DrawingInv'
<1>1. SUFFICES ASSUME DrawingInv, DrawAll PROVE DrawingInv'
  OBVIOUS
<1>2. pc = "drawing" /\ pc' = pc /\ section' = section /\ slots' = slots
  BY <1>1 DEF DrawAll
<1>3. PICK o \in section : TRUE
  BY <1>1, <1>2 DEF DrawingInv
<1>4. SlotsMatch(o, slots) /\ ResultsMatch(slots, drawn) /\ ToldMatches(slots, drawn, told)
  BY <1>1, <1>2, <1>3 DEF DrawingInv
<1>S. PICK s \in slots : \E r \in [1 .. s.frames -> {"failed", "made"}], seen \in BOOLEAN :
        /\ drawn' = Brought(s, r)
        /\ told' = RunTold(told, s, r, \E f \in DOMAIN r : r[f] = "failed", seen)
  BY <1>1 DEF DrawAll
<1>5. PICK r \in [1 .. s.frames -> {"failed", "made"}], seen \in BOOLEAN :
        /\ drawn' = Brought(s, r)
        /\ told' = RunTold(told, s, r, \E f \in DOMAIN r : r[f] = "failed", seen)
  BY <1>S
<1>6. r \in [1 .. s.frames -> Drawn]
  BY DEF Drawn
<1>7. s \in SlotShape /\ SlotAgrees(s) /\ s.id \in IdsOf(slots) /\ told \in ToldShape(IdsOf(slots))
  BY <1>4 DEF SlotsMatch, ToldMatches, IdsOf
<1>8. /\ Further(told, told', IdsOf(slots)) /\ told'.decided[s.id].status # "planned"
      /\ (\A f \in DOMAIN r : r[f] # "failed") => s.id \in told'.ready
  <2> DEFINE broke == \E f \in DOMAIN r : r[f] = "failed"
  <2>1. told' = RunTold(told, s, r, broke, seen)
    BY <1>5
  <2> HIDE DEF broke
  <2>2. /\ Further(told, RunTold(told, s, r, broke, seen), IdsOf(slots))
        /\ RunTold(told, s, r, broke, seen).decided[s.id].status # "planned"
        /\ (\A f \in DOMAIN r : r[f] # "failed") => s.id \in RunTold(told, s, r, broke, seen).ready
    BY <1>7, RunToldIs, Zenon
  <2> QED
    BY <2>1, <2>2
<1>9. ResultsMatch(slots, drawn') /\ ToldMatches(slots, drawn', told')
  BY <1>4, <1>5, <1>6, <1>8, BroughtIs, StillTold
<1> QED
  BY <1>1, <1>2, <1>9, DrawingStill

LEMMA DrawOneDrawing == DrawingInv /\ DrawOne => DrawingInv'
<1>1. SUFFICES ASSUME DrawingInv, DrawOne PROVE DrawingInv'
  OBVIOUS
<1>2. pc = "drawing" /\ pc' = pc /\ section' = section /\ slots' = slots
  BY <1>1 DEF DrawOne
<1>3. PICK o \in section : TRUE
  BY <1>1, <1>2 DEF DrawingInv
<1>4. SlotsMatch(o, slots) /\ ResultsMatch(slots, drawn) /\ ToldMatches(slots, drawn, told)
  BY <1>1, <1>2, <1>3 DEF DrawingInv
<1>S. PICK s \in slots : \E f \in 1 .. s.frames, x \in {"failed", "made"} :
        /\ drawn' = Brought(s, [drawn[s.id] EXCEPT ![f] = x])
        /\ told' = RunTold(told, s, [drawn[s.id] EXCEPT ![f] = x], x = "failed", OthersReady(s))
  BY <1>1 DEF DrawOne
<1>5. PICK f \in 1 .. s.frames, x \in {"failed", "made"} :
        /\ drawn' = Brought(s, [drawn[s.id] EXCEPT ![f] = x])
        /\ told' = RunTold(told, s, [drawn[s.id] EXCEPT ![f] = x], x = "failed", OthersReady(s))
  BY <1>S
<1> DEFINE r == [drawn[s.id] EXCEPT ![f] = x]
<1>6. r \in [1 .. s.frames -> Drawn]
  <2>1. drawn[s.id] \in [1 .. s.frames -> Drawn] /\ x \in Drawn
    BY <1>4 DEF ResultsMatch, Drawn
  <2> QED
    BY <2>1
<1>7. s \in SlotShape /\ SlotAgrees(s) /\ s.id \in IdsOf(slots) /\ told \in ToldShape(IdsOf(slots))
  BY <1>4 DEF SlotsMatch, ToldMatches, IdsOf
<1>8. drawn' = Brought(s, r) /\ told' = RunTold(told, s, r, x = "failed", OthersReady(s))
  BY <1>5
<1> HIDE DEF r
<1>9. /\ Further(told, told', IdsOf(slots)) /\ told'.decided[s.id].status # "planned"
      /\ (\A g \in DOMAIN r : r[g] # "failed") => s.id \in told'.ready
  BY <1>7, <1>8, RunToldIs
<1>10. ResultsMatch(slots, drawn') /\ ToldMatches(slots, drawn', told')
  BY <1>4, <1>6, <1>8, <1>9, BroughtIs, StillTold
<1> QED
  BY <1>1, <1>2, <1>10, DrawingStill

LEMMA DrawNothingDrawing == DrawingInv /\ DrawNothing => DrawingInv'
<1>1. SUFFICES ASSUME DrawingInv, DrawNothing PROVE DrawingInv'
  OBVIOUS
<1>2. pc = "drawing" /\ pc' = pc /\ section' = section /\ slots' = slots /\ drawn' = drawn
  BY <1>1 DEF DrawNothing
<1>3. PICK o \in section : TRUE
  BY <1>1, <1>2 DEF DrawingInv
<1>4. SlotsMatch(o, slots) /\ ResultsMatch(slots, drawn) /\ ToldMatches(slots, drawn, told)
  BY <1>1, <1>2, <1>3 DEF DrawingInv
<1>5. PICK s \in slots :
        told' = OutcomeTold(told, s, IF s.kind = "simulation" THEN "skipped" ELSE "error")
  BY <1>1 DEF DrawNothing
<1>6. s \in SlotShape /\ SlotAgrees(s) /\ told \in ToldShape(IdsOf(slots))
  BY <1>4 DEF SlotsMatch, ToldMatches
<1>7. Further(told, told', IdsOf(slots))
  <2> DEFINE outcome == IF s.kind = "simulation" THEN "skipped" ELSE "error"
  <2>1. outcome \in {"success", "error", "skipped"} /\ (s.kind # "simulation" => outcome # "skipped")
    OBVIOUS
  <2>2. told' = OutcomeTold(told, s, outcome)
    BY <1>5
  <2> HIDE DEF outcome
  <2> QED
    BY <1>6, <2>1, <2>2, OutcomeToldIs
<1>8. ToldMatches(slots, drawn, told')
  <2>1. \A t \in slots : t.id \in IdsOf(slots)
    BY DEF IdsOf
  <2> QED
    BY <1>4, <1>7, <2>1 DEF ToldMatches, Further
<1> QED
  BY <1>1, <1>2, <1>4, <1>8, DrawingStill

LEMMA AssembleDrawing == DrawingInv /\ AssembleSection => DrawingInv'
<1>1. SUFFICES ASSUME DrawingInv, AssembleSection PROVE DrawingInv'
  OBVIOUS
<1>2. /\ pc = "drawing" /\ PendingSlots(slots, drawn) = {}
      /\ pc' = IF VisualFields(slots) \subseteq Filled(slots, drawn) THEN "assembled" ELSE "refused"
  BY <1>1 DEF AssembleSection
<1>3. PICK o \in section : TRUE
  BY <1>1, <1>2 DEF DrawingInv
<1>4. SlotsMatch(o, slots) /\ ResultsMatch(slots, drawn)
  BY <1>1, <1>2, <1>3 DEF DrawingInv
<1>5. ASSUME NEW s \in slots
      PROVE  s.kind \in Filled(slots, drawn)
  <2>1. /\ s \in SlotShape /\ SlotAgrees(s) /\ drawn[s.id] \in [1 .. s.frames -> Drawn]
        /\ s.required /\ s.frames \in Nat \ {0}
    BY <1>4 DEF SlotsMatch, ResultsMatch, SlotAgrees, SlotShape
  <2>2. SlotIsReady(s, drawn[s.id])
    BY <1>2, <2>1 DEF PendingSlots
  <2>3. PicturesOf(s, drawn[s.id]) = s.frames
    BY <2>1, <2>2, PicturesAre
  <2>4. PicturesOf(s, drawn[s.id]) > 0
    BY <2>1, <2>3
  <2> QED
    BY <2>4 DEF Filled
<1>6. VisualFields(slots) \subseteq Filled(slots, drawn)
  BY <1>5 DEF VisualFields
<1>7. pc' = "assembled"
  BY <1>2, <1>6
<1> QED
  BY <1>7 DEF DrawingInv

LEMMA NextDrawing == PlanInv /\ DrawingInv /\ [Next]_vars => DrawingInv'
<1>1. SUFFICES ASSUME PlanInv, DrawingInv, [Next]_vars PROVE DrawingInv'
  OBVIOUS
<1>2. CASE Compose \/ Enrich \/ Route \/ FallBack
  <2>1. /\ pc \in {"compose", "enrich", "route"} /\ pc' \in {"compose", "enrich", "route", "returned"}
        /\ UNCHANGED <<section, slots, drawn, told>>
    BY <1>2 DEF Compose, Enrich, Route, FallBack
  <2> QED
    BY <1>1, <2>1 DEF DrawingInv
<1>3. CASE UNCHANGED vars
  BY <1>1, <1>3 DEF DrawingInv, vars, AtMostOne
<1> QED
  BY <1>1, <1>2, <1>3, CommitDrawing, PlanMediaDrawing, DrawAllDrawing, DrawOneDrawing,
     DrawNothingDrawing, AssembleDrawing DEF Next

(* For any plan, content and outcome of the frames: a visual the plan      *)
(* placed is one required slot that an executor can draw, the slot is      *)
(* ready only with every frame, and the recorder is told.                  *)
THEOREM DrawsWhatIsPlaced == Spec => []PlacedIsDrawn
<1>1. PlanInv /\ DrawingInv => PlacedIsDrawn
  <2>1. SUFFICES ASSUME DrawingInv, pc = "drawing", NEW o \in section
                 PROVE
        LET static == {s \in slots : s.kind # "simulation"}
        IN /\ Cardinality(static) = Cardinality(o.placements)
           /\ \A s \in static :
                /\ s.required /\ s.frames > 0
                /\ (s.render = "svg") <=> (Executor(s) = "diagram_generator")
                /\ SlotIsReady(s, drawn[s.id]) =>
                     PicturesOf(s, drawn[s.id]) = s.frames
                /\ s.kind = "diagram_compare" =>
                     PicturesOf(s, drawn[s.id]) \in {0, 2}
           /\ \A s \in slots \ static : s.required /\ o.interaction = "required"
           /\ \A s \in slots :
                /\ SlotIsReady(s, drawn[s.id]) => s.id \in told.ready
                /\ told.decided[s.id].executor = Executor(s)
                /\ told.decided[s.id].status = "planned" =>
                     \A f \in 1 .. s.frames : drawn[s.id][f] = "none"
    BY DEF PlacedIsDrawn, DrawingInv
  <2>2. SlotsMatch(o, slots) /\ ResultsMatch(slots, drawn) /\ ToldMatches(slots, drawn, told)
    BY <2>1 DEF DrawingInv
  <2> DEFINE static == {s \in slots : s.kind # "simulation"}
  <2>3. Cardinality(static) = Cardinality(o.placements)
    <3>1. AtMostOne(static) /\ AtMostOne(o.placements) /\ ((static = {}) <=> (o.placements = {}))
      BY <2>1, <2>2 DEF SlotsMatch, StaticOf, DrawingInv, OutlineAgrees
    <3> HIDE DEF static
    <3>2. \A S : AtMostOne(S) => S = {} \/ \E x : S = {x}
      BY DEF AtMostOne
    <3>3. CASE static = {}
      BY <3>1, <3>3
    <3>4. CASE static # {}
      <4>1. PICK x : static = {x}
        BY <3>1, <3>2, <3>4
      <4>2. PICK y : o.placements = {y}
        BY <3>1, <3>2, <3>4
      <4>3. \A z : Cardinality({z}) = 1
        BY FS_Singleton
      <4> QED
        BY <4>1, <4>2, <4>3
    <3> QED
      BY <3>3, <3>4
  <2>4. ASSUME NEW s \in static
        PROVE  /\ s.required /\ s.frames > 0
               /\ (s.render = "svg") <=> (Executor(s) = "diagram_generator")
               /\ SlotIsReady(s, drawn[s.id]) => PicturesOf(s, drawn[s.id]) = s.frames
               /\ s.kind = "diagram_compare" => PicturesOf(s, drawn[s.id]) \in {0, 2}
    <3>1. /\ s \in SlotShape /\ SlotAgrees(s) /\ drawn[s.id] \in [1 .. s.frames -> Drawn]
          /\ s.required /\ s.frames \in Nat \ {0}
      BY <2>2 DEF SlotsMatch, ResultsMatch, SlotAgrees, SlotShape
    <3> QED
      BY <3>1, ExecutorIs, PicturesAre
  <2>5. \A s \in slots \ static : s.required /\ o.interaction = "required"
    BY <2>2 DEF SlotsMatch, SlotAgrees
  <2> QED
    BY <2>2, <2>3, <2>4, <2>5 DEF ToldMatches
<1>2. Spec => []PlanningInv
  BY InitPlan, NextPlan, InitDrawing, NextDrawing, PTL DEF Spec, PlanningInv
<1> QED
  BY <1>1, <1>2, PTL DEF PlanningInv

-----------------------------------------------------------------------------
(* A choice of roles for every ready brief, and the plan it makes.         *)

Offered(b) == {"intro", "summary"} \cup ToSet(AllowedRoles(b))

(* What the validator asks of the roles of a plan.                         *)
Suits(b, R) ==
    /\ R \subseteq Offered(b)
    /\ IsFiniteSet(R) /\ Cardinality(R) \in Sizes(b)
    /\ "summary" \in R \/ "practice" \in R
    /\ b.type = "quick_explainer" \/ "practice" \in R
    /\ b.type \in {"worksheet", "mini_booklet", "quick_explainer"} => "explain" \in R
    /\ b.type = "mini_booklet" => "intro" \in R
    /\ b.type = "exit_ticket" => Cardinality(R) <= 3
    /\ "visual" \in R => b.type = "mini_booklet" /\ b.depth = "deep"

Chosen(type, depth) ==
    CASE type = "worksheet" ->
           {"explain", "practice", "summary"} \cup (IF depth = "deep" THEN {"intro", "process"} ELSE {})
      [] type = "mini_booklet" ->
           {"intro", "explain", "practice", "summary"}
             \cup (IF depth = "quick" THEN {} ELSE {"compare"})
             \cup (IF depth = "deep" THEN {"timeline", "visual"} ELSE {})
      [] type = "quick_explainer" ->
           {"explain", "summary"} \cup (IF depth = "deep" THEN {"intro"} ELSE {})
      [] type = "exit_ticket" ->
           {"practice"} \cup (IF depth = "quick" THEN {} ELSE {"summary"})
      [] OTHER ->
           {"practice", "summary"} \cup (IF depth = "deep" THEN {"intro"} ELSE {})

(* A template offers the role each of its own stands for. *)
LEMMA OffersFrom ==
    ASSUME NEW b \in BriefShape, NEW i \in DOMAIN Template[b.type].roles,
           Template[b.type].roles[i] \in DOMAIN SectionRole
    PROVE  SectionRole[Template[b.type].roles[i]] \in Offered(b)
<1> DEFINE s == Template[b.type].roles
           V == {s[k] : k \in DOMAIN s}
<1>1. s \in Seq(V)
  BY ListedAre
<1> HIDE DEF s, V
<1>2. \A k \in DOMAIN s : s[k] \in DOMAIN SectionRole => SectionRole[s[k]] \in ToSet(SectionRolesOf(s))
  BY <1>1, SectionRolesAre
<1> QED
  BY <1>2 DEF Offered, AllowedRoles, s

LEMMA OffersOnly ==
    ASSUME NEW b \in BriefShape, NEW r \in Offered(b), r \notin {"intro", "summary"}
    PROVE  \E i \in DOMAIN Template[b.type].roles :
             /\ Template[b.type].roles[i] \in DOMAIN SectionRole
             /\ r = SectionRole[Template[b.type].roles[i]]
<1> DEFINE s == Template[b.type].roles
           V == {s[k] : k \in DOMAIN s}
<1>1. s \in Seq(V)
  BY ListedAre
<1>2. r \in ToSet(SectionRolesOf(s))
  BY DEF Offered, AllowedRoles
<1> HIDE DEF s, V
<1>3. \E i \in DOMAIN s : s[i] \in DOMAIN SectionRole /\ r = SectionRole[s[i]]
  BY <1>1, <1>2, SectionRolesAre
<1> QED
  BY <1>3 DEF s

LEMMA Offers ==
    ASSUME NEW b \in BriefShape
    PROVE  /\ b.type = "worksheet" => {"explain", "practice", "process"} \subseteq Offered(b)
           /\ b.type = "mini_booklet" =>
                {"explain", "practice", "compare", "timeline", "visual"} \subseteq Offered(b)
           /\ b.type = "quick_explainer" =>
                "explain" \in Offered(b) /\ "process" \notin Offered(b) /\ "practice" \notin Offered(b)
           /\ b.type \in {"practice_set", "exit_ticket", "quiz"} => "practice" \in Offered(b)
           /\ {"intro", "summary"} \subseteq Offered(b)
<1>1. ASSUME b.type = "worksheet"
      PROVE  {"explain", "practice", "process"} \subseteq Offered(b)
  <2>1. Template[b.type].roles = Worksheet.roles
    BY <1>1 DEF Template
  <2>2. SectionRole["explain"] \in Offered(b)
    BY <2>1, OffersFrom, 1 \in DOMAIN Worksheet.roles DEF Worksheet, SectionRole
  <2>3. SectionRole["model"] \in Offered(b)
    BY <2>1, OffersFrom, 2 \in DOMAIN Worksheet.roles DEF Worksheet, SectionRole
  <2>4. SectionRole["practice"] \in Offered(b)
    BY <2>1, OffersFrom, 3 \in DOMAIN Worksheet.roles DEF Worksheet, SectionRole
  <2> QED
    BY <2>2, <2>3, <2>4 DEF SectionRole
<1>2. ASSUME b.type = "mini_booklet"
      PROVE  {"explain", "practice", "compare", "timeline", "visual"} \subseteq Offered(b)
  <2>1. Template[b.type].roles = MiniBooklet.roles
    BY <1>2 DEF Template
  <2>2. SectionRole["explain"] \in Offered(b)
    BY <2>1, OffersFrom, 3 \in DOMAIN MiniBooklet.roles DEF MiniBooklet, SectionRole
  <2>3. SectionRole["visualize"] \in Offered(b)
    BY <2>1, OffersFrom, 4 \in DOMAIN MiniBooklet.roles DEF MiniBooklet, SectionRole
  <2>4. SectionRole["practice"] \in Offered(b)
    BY <2>1, OffersFrom, 7 \in DOMAIN MiniBooklet.roles DEF MiniBooklet, SectionRole
  <2>5. SectionRole["compare"] \in Offered(b)
    BY <2>1, OffersFrom, 8 \in DOMAIN MiniBooklet.roles DEF MiniBooklet, SectionRole
  <2>6. SectionRole["timeline"] \in Offered(b)
    BY <2>1, OffersFrom, 9 \in DOMAIN MiniBooklet.roles DEF MiniBooklet, SectionRole
  <2> QED
    BY <2>2, <2>3, <2>4, <2>5, <2>6 DEF SectionRole
<1>3. ASSUME b.type = "quick_explainer"
      PROVE  "explain" \in Offered(b) /\ "process" \notin Offered(b) /\ "practice" \notin Offered(b)
  <2>1. Template[b.type].roles = QuickExplainer.roles
    BY <1>3 DEF Template
  <2>2. SectionRole["explain"] \in Offered(b)
    BY <2>1, OffersFrom, 1 \in DOMAIN QuickExplainer.roles DEF QuickExplainer, SectionRole
  <2>3. \A i \in DOMAIN QuickExplainer.roles :
          QuickExplainer.roles[i] \in DOMAIN SectionRole =>
            SectionRole[QuickExplainer.roles[i]] \in {"explain", "summary", "visual"}
    BY DEF QuickExplainer, SectionRole
  <2>4. "process" \notin Offered(b) /\ "practice" \notin Offered(b)
    BY <2>1, <2>3, OffersOnly
  <2> QED
    BY <2>2, <2>4 DEF SectionRole
<1>4. ASSUME b.type \in {"practice_set", "exit_ticket", "quiz"}
      PROVE  "practice" \in Offered(b)
  <2>1. CASE b.type = "practice_set"
    <3>1. Template[b.type].roles = PracticeSet.roles
      BY <2>1 DEF Template
    <3>2. SectionRole["practice"] \in Offered(b)
      BY <3>1, OffersFrom, 2 \in DOMAIN PracticeSet.roles DEF PracticeSet, SectionRole
    <3> QED
      BY <3>2 DEF SectionRole
  <2>2. CASE b.type = "exit_ticket"
    <3>1. Template[b.type].roles = ExitTicket.roles
      BY <2>2 DEF Template
    <3>2. SectionRole["challenge"] \in Offered(b)
      BY <3>1, OffersFrom, 3 \in DOMAIN ExitTicket.roles DEF ExitTicket, SectionRole
    <3> QED
      BY <3>2 DEF SectionRole
  <2>3. CASE b.type = "quiz"
    <3>1. Template[b.type].roles = Quiz.roles
      BY <2>3 DEF Template
    <3>2. SectionRole["question_set"] \in Offered(b)
      BY <3>1, OffersFrom, 1 \in DOMAIN Quiz.roles DEF Quiz, SectionRole
    <3> QED
      BY <3>2 DEF SectionRole
  <2> QED
    BY <1>4, <2>1, <2>2, <2>3
<1>5. {"intro", "summary"} \subseteq Offered(b)
  BY DEF Offered
<1> QED
  BY <1>1, <1>2, <1>3, <1>4, <1>5

LEMMA OneMore ==
    ASSUME NEW S, NEW n \in Nat, IsFiniteSet(S) /\ Cardinality(S) = n, NEW x, x \notin S
    PROVE  IsFiniteSet(S \cup {x}) /\ Cardinality(S \cup {x}) = n + 1
BY FS_AddElement

LEMMA Counted ==
    LET Has(S, n) == IsFiniteSet(S) /\ Cardinality(S) = n
    IN /\ Has({"practice"}, 1) /\ Has({"practice", "summary"}, 2) /\ Has({"explain", "summary"}, 2)
       /\ Has({"practice", "summary", "intro"}, 3) /\ Has({"explain", "summary", "intro"}, 3)
       /\ Has({"explain", "practice", "summary"}, 3)
       /\ Has({"intro", "explain", "practice", "summary"}, 4)
       /\ Has({"explain", "practice", "summary", "intro", "process"}, 5)
       /\ Has({"intro", "explain", "practice", "summary", "compare"}, 5)
       /\ Has({"intro", "explain", "practice", "summary", "compare", "timeline", "visual"}, 7)
<1> DEFINE Has(S, n) == IsFiniteSet(S) /\ Cardinality(S) = n
<1>A. ASSUME NEW S, NEW n \in Nat, Has(S, n), NEW x, x \notin S
      PROVE  Has(S \cup {x}, n + 1)
  BY <1>A, OneMore
<1>1. Has({"practice"}, 1) /\ Has({"explain"}, 1)
  BY FS_Singleton
<1> HIDE DEF Has
<1>2. Has({"practice"} \cup {"summary"}, 1 + 1) /\ Has({"explain"} \cup {"summary"}, 1 + 1)
  BY <1>1, <1>A
<1>3. Has({"practice", "summary"}, 2) /\ Has({"explain", "summary"}, 2)
  <2>1. {"practice"} \cup {"summary"} = {"practice", "summary"} /\ {"explain"} \cup {"summary"} = {"explain", "summary"}
    OBVIOUS
  <2> QED
    BY <1>2, <2>1
<1>4. /\ Has({"practice", "summary"} \cup {"intro"}, 2 + 1) /\ Has({"explain", "summary"} \cup {"intro"}, 2 + 1)
      /\ Has({"explain", "summary"} \cup {"practice"}, 2 + 1)
  BY <1>3, <1>A
<1>5. /\ Has({"practice", "summary", "intro"}, 3) /\ Has({"explain", "summary", "intro"}, 3)
      /\ Has({"explain", "practice", "summary"}, 3)
  <2>1. /\ {"practice", "summary"} \cup {"intro"} = {"practice", "summary", "intro"}
        /\ {"explain", "summary"} \cup {"intro"} = {"explain", "summary", "intro"}
        /\ {"explain", "summary"} \cup {"practice"} = {"explain", "practice", "summary"}
    OBVIOUS
  <2> QED
    BY <1>4, <2>1
<1>6. Has({"explain", "practice", "summary"} \cup {"intro"}, 3 + 1)
  BY <1>5, <1>A
<1>7. Has({"intro", "explain", "practice", "summary"}, 4)
  <2>1. {"explain", "practice", "summary"} \cup {"intro"} = {"intro", "explain", "practice", "summary"}
    OBVIOUS
  <2> QED
    BY <1>6, <2>1
<1>8. /\ Has({"intro", "explain", "practice", "summary"} \cup {"process"}, 4 + 1)
      /\ Has({"intro", "explain", "practice", "summary"} \cup {"compare"}, 4 + 1)
  BY <1>7, <1>A
<1>9. /\ Has({"explain", "practice", "summary", "intro", "process"}, 5)
      /\ Has({"intro", "explain", "practice", "summary", "compare"}, 5)
  <2>1. /\ {"intro", "explain", "practice", "summary"} \cup {"process"}
             = {"explain", "practice", "summary", "intro", "process"}
        /\ {"intro", "explain", "practice", "summary"} \cup {"compare"}
             = {"intro", "explain", "practice", "summary", "compare"}
    OBVIOUS
  <2> QED
    BY <1>8, <2>1
<1>10. Has(({"intro", "explain", "practice", "summary", "compare"} \cup {"timeline"}) \cup {"visual"}, 5 + 1 + 1)
  <2>1. Has({"intro", "explain", "practice", "summary", "compare"} \cup {"timeline"}, 5 + 1)
    BY <1>9, <1>A
  <2> DEFINE six == {"intro", "explain", "practice", "summary", "compare"} \cup {"timeline"}
  <2>2. "visual" \notin six
    OBVIOUS
  <2> HIDE DEF six
  <2>3. Has(six, 5 + 1) => Has(six \cup {"visual"}, 5 + 1 + 1)
    BY <2>2, <1>A
  <2> QED
    BY <2>1, <2>3 DEF six
<1>11. Has({"intro", "explain", "practice", "summary", "compare", "timeline", "visual"}, 7)
  <2>1. ({"intro", "explain", "practice", "summary", "compare"} \cup {"timeline"}) \cup {"visual"}
          = {"intro", "explain", "practice", "summary", "compare", "timeline", "visual"}
    OBVIOUS
  <2> QED
    BY <1>10, <2>1
<1> QED
  BY <1>1, <1>3, <1>5, <1>7, <1>9, <1>11 DEF Has

LEMMA ChosenSuits ==
    ASSUME NEW b \in BriefShape
    PROVE  Suits(b, Chosen(b.type, b.depth))
<1> DEFINE R == Chosen(b.type, b.depth)
<1>1. b.type \in ResourceTypes /\ b.depth \in Depths
  BY DEF BriefShape
<1>2. /\ b.type = "worksheet" => {"explain", "practice", "process"} \subseteq Offered(b)
      /\ b.type = "mini_booklet" =>
           {"explain", "practice", "compare", "timeline", "visual"} \subseteq Offered(b)
      /\ b.type = "quick_explainer" => "explain" \in Offered(b)
      /\ b.type \in {"practice_set", "exit_ticket", "quiz"} => "practice" \in Offered(b)
      /\ {"intro", "summary"} \subseteq Offered(b)
  BY Offers
<1>W. CASE b.type = "worksheet"
  <2>1. CASE b.depth = "deep"
    <3>1. R = {"explain", "practice", "summary", "intro", "process"}
      BY <1>W, <2>1 DEF Chosen
    <3>2. Sizes(b) = 5 .. 7
      BY <1>W, <2>1 DEF Sizes, Template, Worksheet, Limits
    <3> QED
      BY <1>2, <1>W, <3>1, <3>2, Counted DEF Suits
  <2>2. CASE b.depth \in {"quick", "standard"}
    <3>1. R = {"explain", "practice", "summary"}
      BY <1>W, <2>2 DEF Chosen
    <3>2. Sizes(b) = 2 .. 3 \/ Sizes(b) = 3 .. 5
      BY <1>W, <2>2 DEF Sizes, Template, Worksheet, Limits
    <3> QED
      BY <1>2, <1>W, <3>1, <3>2, Counted DEF Suits
  <2> QED
    BY <1>1, <2>1, <2>2 DEF Depths
<1>M. CASE b.type = "mini_booklet"
  <2>1. CASE b.depth = "deep"
    <3>1. R = {"intro", "explain", "practice", "summary", "compare", "timeline", "visual"}
      BY <1>M, <2>1 DEF Chosen
    <3>2. Sizes(b) = 7 .. 9
      BY <1>M, <2>1 DEF Sizes, Template, MiniBooklet, Limits
    <3> QED
      BY <1>2, <1>M, <2>1, <3>1, <3>2, Counted DEF Suits
  <2>2. CASE b.depth = "standard"
    <3>1. R = {"intro", "explain", "practice", "summary", "compare"}
      BY <1>M, <2>2 DEF Chosen
    <3>2. Sizes(b) = 5 .. 7
      BY <1>M, <2>2 DEF Sizes, Template, MiniBooklet, Limits
    <3> QED
      BY <1>2, <1>M, <3>1, <3>2, Counted DEF Suits
  <2>3. CASE b.depth = "quick"
    <3>1. R = {"intro", "explain", "practice", "summary"}
      BY <1>M, <2>3 DEF Chosen
    <3>2. Sizes(b) = 3 .. 4
      BY <1>M, <2>3 DEF Sizes, Template, MiniBooklet, Limits
    <3> QED
      BY <1>2, <1>M, <3>1, <3>2, Counted DEF Suits
  <2> QED
    BY <1>1, <2>1, <2>2, <2>3 DEF Depths
<1>E. CASE b.type = "quick_explainer"
  <2>1. CASE b.depth = "deep"
    <3>1. R = {"explain", "summary", "intro"}
      BY <1>E, <2>1 DEF Chosen
    <3>2. Sizes(b) = 3 .. 5
      BY <1>E, <2>1 DEF Sizes, Template, QuickExplainer, Limits
    <3> QED
      BY <1>2, <1>E, <3>1, <3>2, Counted DEF Suits
  <2>2. CASE b.depth \in {"quick", "standard"}
    <3>1. R = {"explain", "summary"}
      BY <1>E, <2>2 DEF Chosen
    <3>2. Sizes(b) = 1 .. 2 \/ Sizes(b) = 2 .. 4
      BY <1>E, <2>2 DEF Sizes, Template, QuickExplainer, Limits
    <3> QED
      BY <1>2, <1>E, <3>1, <3>2, Counted DEF Suits
  <2> QED
    BY <1>1, <2>1, <2>2 DEF Depths
<1>T. CASE b.type = "exit_ticket"
  <2>1. CASE b.depth = "quick"
    <3>1. R = {"practice"}
      BY <1>T, <2>1 DEF Chosen
    <3>2. Sizes(b) = 1 .. 1
      BY <1>T, <2>1 DEF Sizes, Template, ExitTicket, Limits
    <3> QED
      BY <1>2, <1>T, <3>1, <3>2, Counted DEF Suits
  <2>2. CASE b.depth \in {"standard", "deep"}
    <3>1. R = {"practice", "summary"}
      BY <1>T, <2>2 DEF Chosen
    <3>2. Sizes(b) = 1 .. 2 \/ Sizes(b) = 2 .. 3
      BY <1>T, <2>2 DEF Sizes, Template, ExitTicket, Limits
    <3> QED
      BY <1>2, <1>T, <3>1, <3>2, Counted DEF Suits
  <2> QED
    BY <1>1, <2>1, <2>2 DEF Depths
<1>P. CASE b.type \in {"practice_set", "quiz"}
  <2>1. CASE b.depth = "deep"
    <3>1. R = {"practice", "summary", "intro"}
      BY <1>P, <2>1 DEF Chosen
    <3>2. Sizes(b) = 3 .. 5
      BY <1>P, <2>1 DEF Sizes, Template, PracticeSet, Quiz, Limits
    <3> QED
      BY <1>2, <1>P, <3>1, <3>2, Counted DEF Suits
  <2>2. CASE b.depth \in {"quick", "standard"}
    <3>1. R = {"practice", "summary"}
      BY <1>P, <2>2 DEF Chosen
    <3>2. Sizes(b) = 1 .. 2 \/ Sizes(b) = 2 .. 4 \/ Sizes(b) = 2 .. 3
      BY <1>P, <2>2 DEF Sizes, Template, PracticeSet, Quiz, Limits
    <3> QED
      BY <1>2, <1>P, <3>1, <3>2, Counted DEF Suits
  <2> QED
    BY <1>1, <2>1, <2>2 DEF Depths
<1> QED
  BY <1>1, <1>W, <1>M, <1>E, <1>T, <1>P, TypesAre

Usable(r) == LET all == RoleComponents[r]
             IN At(all, {i \in DOMAIN all : all[i] \in KnownComponents \ Visuals})
Picked(r) == IF r = "visual" THEN FirstTwo(r) ELSE Usable(r)

LEMMA PickedIs ==
    ASSUME NEW r \in Resolvable
    PROVE  /\ Picked(r) \in Seq(Component) /\ Picked(r) # <<>>
           /\ ToSet(Picked(r)) \subseteq KnownComponents \cap ToSet(RoleComponents[r])
           /\ r # "visual" => ToSet(Picked(r)) \cap Visuals = {}
           /\ r = "practice" => "short-answer" \in ToSet(Picked(r))
<1>1. r \in Roles /\ RoleComponents[r] \in Seq(Component) /\ 3 <= Len(RoleComponents[r])
  BY ComponentsAre DEF Resolvable
<1>2. CASE r = "visual"
  <2>1. /\ FirstTwo(r) \in Seq(Component) /\ Len(FirstTwo(r)) = 2
        /\ ToSet(FirstTwo(r)) = {RoleComponents[r][1], RoleComponents[r][2]}
        /\ ToSet(FirstTwo(r)) \subseteq KnownComponents
    BY <1>1, FirstTwoAre
  <2>2. RoleComponents[r][1] \in ToSet(RoleComponents[r]) /\ RoleComponents[r][2] \in ToSet(RoleComponents[r])
    <3>1. 1 \in DOMAIN RoleComponents[r] /\ 2 \in DOMAIN RoleComponents[r]
      BY <1>1
    <3> QED
      BY <3>1 DEF ToSet
  <2>3. Picked(r) = FirstTwo(r)
    BY <1>2 DEF Picked
  <2>4. FirstTwo(r) # <<>>
    <3>1. \A s \in Seq(Component) : Len(s) = 2 => s # <<>>
      OBVIOUS
    <3> QED
      BY <2>1, <3>1, Zenon
  <2>5. r # "practice"
    BY <1>2
  <2>6. ToSet(FirstTwo(r)) \subseteq ToSet(RoleComponents[r])
    BY <2>1, <2>2
  <2> QED
    BY <1>2, <2>1, <2>3, <2>4, <2>5, <2>6
<1>3. CASE r # "visual"
  <2> DEFINE all == RoleComponents[r]
             P == {i \in DOMAIN all : all[i] \in KnownComponents \ Visuals}
             u == At(all, P)
  <2>1. Picked(r) = u
    BY <1>3 DEF Picked, Usable
  <2>2. /\ \A i \in P : i \in DOMAIN all /\ all[i] \in KnownComponents \ Visuals
        /\ P \in SUBSET DOMAIN all
    OBVIOUS
  <2>3. 1 \in P /\ (r = "practice" => 3 \in P /\ all[3] = "short-answer")
    <3>1. 1 \in DOMAIN all /\ 3 \in DOMAIN all
      BY <1>1
    <3>2. all[1] \in Component /\ all[3] \in Component
      BY <1>1, <3>1
    <3>3. all[1] \notin Visuals /\ all[1] # "glossary-strip"
      BY <1>3, RolesAre DEF Resolvable, RoleComponents, Visuals
    <3>4. r = "practice" => all[3] = "short-answer"
      BY DEF RoleComponents
    <3>5. "short-answer" \notin Visuals /\ "short-answer" # "glossary-strip"
      BY DEF Visuals
    <3> QED
      BY <3>1, <3>2, <3>3, <3>4, <3>5, KnownIs
  <2> HIDE DEF P, u
  <2>4. /\ u \in Seq(Component) /\ Len(u) = Cardinality(P) /\ Cardinality(P) \in Nat
        /\ \A k \in 1 .. Cardinality(P) : Nth(P, k) \in P /\ u[k] = all[Nth(P, k)]
        /\ \A i \in P : \E k \in 1 .. Cardinality(P) : Nth(P, k) = i /\ u[k] = all[i]
    <3>1. u = At(all, P) /\ all \in Seq(Component) /\ P \in SUBSET DOMAIN all
      BY <1>1, <2>2 DEF u
    <3> HIDE DEF all
    <3> QED
      BY <3>1, AtIs
  <2>5. DOMAIN u = 1 .. Cardinality(P)
    BY <2>4
  <2>6. \A x \in ToSet(u) : x \in KnownComponents \ Visuals /\ x \in ToSet(all)
    BY <2>2, <2>4, <2>5 DEF ToSet
  <2>7. u # <<>>
    BY <2>3, <2>4, <2>5
  <2>8. r = "practice" => "short-answer" \in ToSet(u)
    BY <2>3, <2>4, <2>5 DEF ToSet
  <2> QED
    BY <1>3, <2>1, <2>4, <2>6, <2>7, <2>8
<1> QED
  BY <1>2, <1>3

Once(list) == \A k, l \in DOMAIN list : list[k] = list[l] => k = l

(* The roles of a choice as a list, in the order they were resolved in.    *)
LEMMA ListedOnce ==
    ASSUME NEW list \in Seq(Resolvable), Once(list),
           NEW R \in SUBSET ToSet(list),
           NEW idx \in SUBSET DOMAIN list,
           \A i \in DOMAIN list : i \in idx <=> list[i] \in R
    PROVE  /\ At(list, idx) \in Seq(Resolvable) /\ ToSet(At(list, idx)) = R
           /\ Len(At(list, idx)) = Cardinality(R)
           /\ Once(At(list, idx))
<1> DEFINE l == At(list, idx)
           n == Cardinality(idx)
<1>1. /\ l \in Seq(Resolvable) /\ n \in Nat /\ Len(l) = n
      /\ \A k \in 1 .. n : Nth(idx, k) \in idx /\ l[k] = list[Nth(idx, k)]
      /\ \A i \in idx : \E k \in 1 .. n : Nth(idx, k) = i /\ l[k] = list[i]
  BY AtIs
<1>2. DOMAIN l = 1 .. n
  BY <1>1
<1> HIDE DEF l
<1>3. ToSet(l) = R
  <2>1. \A x \in ToSet(l) : x \in R
    BY <1>1, <1>2 DEF ToSet
  <2>2. ASSUME NEW x \in R PROVE x \in ToSet(l)
    <3>1. PICK i \in DOMAIN list : list[i] = x
      BY DEF ToSet
    <3>2. i \in idx
      BY <3>1
    <3> QED
      BY <1>1, <1>2, <3>1, <3>2 DEF ToSet
  <2> QED
    BY <2>1, <2>2
<1>4. ASSUME NEW k \in DOMAIN l, NEW m \in DOMAIN l, l[k] = l[m]
      PROVE  k = m
  <2>1. Nth(idx, k) = Nth(idx, m)
    BY <1>1, <1>2, <1>4 DEF Once
  <2>2. idx \in SUBSET (1 .. Len(list)) /\ Len(list) \in Nat
    OBVIOUS
  <2>3. k \in 1 .. Cardinality(idx) /\ m \in 1 .. Cardinality(idx)
    BY <1>2
  <2> QED
    BY <2>1, <2>2, <2>3, NthDiffer
<1>5. Cardinality(R) = n
  <2>1. IsFiniteSet(1 .. n) /\ Cardinality(1 .. n) = n
    BY <1>1, FS_Interval
  <2>2. l \in [1 .. n -> R]
    <3>1. \A k \in 1 .. n : l[k] \in R
      BY <1>2, <1>3 DEF ToSet
    <3>2. l = [k \in 1 .. n |-> l[k]]
      BY <1>1, <1>2
    <3> QED
      BY <3>1, <3>2
  <2>3. l \in Injection(1 .. n, R)
    BY <1>2, <1>4, <2>2 DEF Injection, IsInjective
  <2>4. l \in Surjection(1 .. n, R)
    BY <1>2, <1>3, <2>2 DEF Surjection, ToSet
  <2>5. ExistsBijection(1 .. n, R)
    BY <2>3, <2>4 DEF Bijection, ExistsBijection
  <2> QED
    BY <2>1, <2>5, FS_Bijection
<1> QED
  BY <1>1, <1>3, <1>4, <1>5 DEF l, Once

Made(l) == [i \in DOMAIN l |-> Section(i, i, l[i], Picked(l[i]))]

LEMMA MadeIs ==
    ASSUME NEW l \in Seq(Resolvable)
    PROVE  /\ DOMAIN Made(l) = DOMAIN l /\ Len(Made(l)) = Len(l)
           /\ \A i \in DOMAIN l : Made(l)[i].role = l[i] /\ Made(l)[i].components = Picked(l[i])
           /\ \A s \in ToSet(Made(l)) : \E i \in DOMAIN l : s = Made(l)[i]
           /\ RolesIn(Made(l)) = ToSet(l)
           /\ \A i \in DOMAIN l : ToSet(Picked(l[i])) \subseteq ComponentsIn(Made(l))
           /\ \A c \in ComponentsIn(Made(l)) : \E i \in DOMAIN l : c \in ToSet(Picked(l[i]))
<1> DEFINE p == Made(l)
<1>1. p = [i \in DOMAIN l |-> p[i]] /\ \A i \in DOMAIN l : p[i] = Section(i, i, l[i], Picked(l[i]))
  BY DEF Made
<1> HIDE DEF p
<1>2. \A i \in DOMAIN l : p[i].role = l[i] /\ p[i].components = Picked(l[i])
  BY <1>1 DEF Section
<1>3. DOMAIN l = 1 .. Len(l) /\ Len(l) \in Nat
  OBVIOUS
<1>4. DOMAIN p = DOMAIN l /\ Len(p) = Len(l)
  BY <1>1, <1>3
<1>5. /\ \A s \in ToSet(p) : \E i \in DOMAIN l : s = p[i]
      /\ \A i \in DOMAIN l : p[i] \in ToSet(p)
  BY <1>4 DEF ToSet
<1>6. RolesIn(p) = ToSet(l)
  BY <1>2, <1>5 DEF RolesIn, ToSet
<1>7. /\ \A i \in DOMAIN l : ToSet(Picked(l[i])) \subseteq ComponentsIn(p)
      /\ \A c \in ComponentsIn(p) : \E i \in DOMAIN l : c \in ToSet(Picked(l[i]))
  <2>1. \A c : c \in ComponentsIn(p) <=> \E s \in ToSet(p) : c \in ToSet(s.components)
    BY DEF ComponentsIn
  <2> QED
    BY <1>2, <1>5, <2>1
<1> QED
  BY <1>2, <1>4, <1>5, <1>6, <1>7 DEF p

LEMMA VisualsAllowed ==
    ASSUME NEW b \in BriefShape
    PROVE  /\ MaxVisuals(b) \in Nat
           /\ b.type = "mini_booklet" /\ b.depth = "deep" => MaxVisuals(b) = 3
<1>1. b.type \in ResourceTypes /\ b.depth \in Depths
  BY DEF BriefShape
<1>2. b.type = "worksheet" => MaxVisuals(b) \in Nat
  BY <1>1 DEF MaxVisuals, Template, Worksheet, Limits, Depths
<1>3. b.type = "mini_booklet" => MaxVisuals(b) \in Nat /\ (b.depth = "deep" => MaxVisuals(b) = 3)
  BY <1>1 DEF MaxVisuals, Template, MiniBooklet, Limits, Depths
<1>4. b.type = "quick_explainer" => MaxVisuals(b) \in Nat
  BY <1>1 DEF MaxVisuals, Template, QuickExplainer, Limits, Depths
<1>5. b.type = "practice_set" => MaxVisuals(b) \in Nat
  BY <1>1 DEF MaxVisuals, Template, PracticeSet, Limits, Depths
<1>6. b.type = "exit_ticket" => MaxVisuals(b) \in Nat
  BY <1>1 DEF MaxVisuals, Template, ExitTicket, Limits, Depths
<1>7. b.type = "quiz" => MaxVisuals(b) \in Nat
  BY <1>1 DEF MaxVisuals, Template, Quiz, Limits, Depths
<1> QED
  BY <1>1, <1>2, <1>3, <1>4, <1>5, <1>6, <1>7, TypesAre

(* What each template says of the sections' roles. *)
LEMMA ObligationsAre ==
    ASSUME NEW b \in BriefShape
    PROVE  /\ b.type = "worksheet" => Template[b.type].owes = {"work", "explanation"}
           /\ b.type = "mini_booklet" => /\ Template[b.type].owes = {"path", "explanation", "check"}
                                         /\ ~Template[b.type].noTeaching
           /\ b.type = "quick_explainer" =>
                /\ Template[b.type].owes = {"explanation", "check"}
                /\ Template[b.type].outcomes = {"understand", "review", "vocabulary", "compare"}
           /\ b.type = "practice_set" => Template[b.type].owes = {}
           /\ b.type = "exit_ticket" => Template[b.type].owes = {"short", "response"}
           /\ b.type = "quiz" => Template[b.type].owes = {"response"}
<1>1. b.type = "worksheet" => Template[b.type].owes = {"work", "explanation"}
  BY DEF Template, Worksheet
<1>2. b.type = "mini_booklet" => /\ Template[b.type].owes = {"path", "explanation", "check"}
                                 /\ ~Template[b.type].noTeaching
  BY DEF Template, MiniBooklet
<1>3. b.type = "quick_explainer" =>
        /\ Template[b.type].owes = {"explanation", "check"}
        /\ Template[b.type].outcomes = {"understand", "review", "vocabulary", "compare"}
  BY DEF Template, QuickExplainer
<1>4. b.type = "practice_set" => Template[b.type].owes = {}
  BY DEF Template, PracticeSet
<1>5. b.type = "exit_ticket" => Template[b.type].owes = {"short", "response"}
  BY DEF Template, ExitTicket
<1>6. b.type = "quiz" => Template[b.type].owes = {"response"}
  BY DEF Template, Quiz
<1> QED
  BY <1>1, <1>2, <1>3, <1>4, <1>5, <1>6

LEMMA MadeIsMet ==
    ASSUME NEW b \in BriefShape, Ready(b),
           NEW list \in Seq(Resolvable), ToSet(list) = Offered(b),
           NEW R, Suits(b, R),
           NEW l \in Seq(Resolvable), ToSet(l) = R, Len(l) = Cardinality(R),
           Once(l)
    PROVE  Faults(b, list, Made(l)) \subseteq
             IF {"process", "practice"} \cap ToSet(list) = {} THEN {"steps"} ELSE {}
<1> DEFINE p == Made(l)
<1>1. /\ DOMAIN p = DOMAIN l /\ Len(p) = Len(l)
      /\ \A i \in DOMAIN l : p[i].role = l[i] /\ p[i].components = Picked(l[i])
      /\ \A s \in ToSet(p) : \E i \in DOMAIN l : s = p[i]
      /\ RolesIn(p) = R
      /\ \A i \in DOMAIN l : ToSet(Picked(l[i])) \subseteq ComponentsIn(p)
      /\ \A c \in ComponentsIn(p) : \E i \in DOMAIN l : c \in ToSet(Picked(l[i]))
  BY MadeIs
<1>2. /\ R \subseteq Offered(b)
      /\ IsFiniteSet(R) /\ Cardinality(R) \in Sizes(b)
      /\ "summary" \in R \/ "practice" \in R
      /\ b.type = "quick_explainer" \/ "practice" \in R
      /\ b.type \in {"worksheet", "mini_booklet", "quick_explainer"} => "explain" \in R
      /\ b.type = "mini_booklet" => "intro" \in R
      /\ b.type = "exit_ticket" => Cardinality(R) <= 3
      /\ "visual" \in R => b.type = "mini_booklet" /\ b.depth = "deep"
  BY DEF Suits
<1> HIDE DEF p
<1>3. \A i \in DOMAIN l : l[i] \in Resolvable /\ l[i] \in R
  BY DEF ToSet
<1>4. ASSUME NEW i \in DOMAIN l
      PROVE  /\ Picked(l[i]) # <<>>
             /\ ToSet(Picked(l[i])) \subseteq KnownComponents \cap ToSet(RoleComponents[l[i]])
             /\ l[i] # "visual" => ToSet(Picked(l[i])) \cap Visuals = {}
  BY <1>3, PickedIs
<1>5. "practice" \in R => "short-answer" \in ComponentsIn(p)
  <2>1. SUFFICES ASSUME "practice" \in R PROVE "short-answer" \in ComponentsIn(p)
    OBVIOUS
  <2>2. PICK i \in DOMAIN l : l[i] = "practice"
    BY <2>1 DEF ToSet
  <2>3. "practice" \in Resolvable
    BY <1>3, <2>2
  <2>4. "short-answer" \in ToSet(Picked("practice"))
    BY <2>3, PickedIs
  <2> QED
    BY <1>1, <2>2, <2>4
<1>size. Len(p) \in Sizes(b)
  BY <1>1, <1>2
<1>bare. \A s \in ToSet(p) : s.components # <<>>
  BY <1>1, <1>4
<1>role. \A s \in ToSet(p) : Contains(list, s.role)
  <2>1. ASSUME NEW i \in DOMAIN l PROVE Contains(list, l[i])
    <3>1. l[i] \in ToSet(list)
      BY <1>2, <1>3
    <3>2. PICK j \in DOMAIN list : list[j] = l[i]
      BY <3>1 DEF ToSet
    <3>3. j \in 1 .. Len(list)
      BY <3>2
    <3> QED
      BY <3>2, <3>3 DEF Contains
  <2> QED
    BY <1>1, <2>1
<1>unknown. ComponentsIn(p) \subseteq KnownComponents
  BY <1>1, <1>4
<1>foreign. \A s \in ToSet(p) : ToSet(s.components) \cap KnownComponents \subseteq ToSet(RoleComponents[s.role])
  BY <1>1, <1>4
<1>teaching. Template[b.type].noTeaching => \A s \in ToSet(p) : s.role \notin {"visual", "discover"}
  <2>1. \A i \in DOMAIN l : l[i] # "discover"
    BY <1>3 DEF Resolvable
  <2>2. Template[b.type].noTeaching => "visual" \notin R
    BY <1>2, ObligationsAre
  <2> QED
    BY <1>1, <1>3, <2>1, <2>2
<1>visuals. ~(Cardinality({i \in DOMAIN p : Shows(p[i])}) > MaxVisuals(b))
  <2> DEFINE shown == {i \in DOMAIN p : Shows(p[i])}
  <2>1. \A i \in shown : i \in DOMAIN l /\ l[i] = "visual"
    BY <1>1, <1>4 DEF Shows
  <2>O. \A k, m \in DOMAIN l : l[k] = l[m] => k = m
    BY DEF Once
  <2>2. MaxVisuals(b) \in Nat /\ (b.type = "mini_booklet" /\ b.depth = "deep" => MaxVisuals(b) = 3)
    BY VisualsAllowed
  <2> HIDE DEF shown
  <2>3. CASE shown = {}
    <3>1. Cardinality(shown) = 0
      BY <2>3, FS_EmptySet
    <3> QED
      BY <2>2, <3>1 DEF shown
  <2>4. CASE shown # {}
    <3>1. PICK k : k \in shown
      BY <2>4
    <3>2. shown = {k}
      BY <2>1, <2>O, <3>1
    <3>3. Cardinality(shown) = 1
      BY <3>2, FS_Singleton
    <3>4. "visual" \in R
      BY <1>3, <2>1, <3>1
    <3>5. MaxVisuals(b) = 3
      BY <1>2, <2>2, <3>4
    <3> QED
      BY <3>3, <3>5 DEF shown
  <2> QED
    BY <2>3, <2>4
<1>H. /\ "practice" \in R => Honours(p, "work") /\ Honours(p, "response") /\ Honours(p, "check")
      /\ "summary" \in R => Honours(p, "check")
      /\ "explain" \in R => Honours(p, "explanation")
      /\ "intro" \in R /\ "explain" \in R => Honours(p, "path")
      /\ Cardinality(R) <= 3 => Honours(p, "short")
  <2>1. "practice" \in R => Honours(p, "work")
    BY <1>1 DEF Honours, Practises
  <2>2. "practice" \in R => Honours(p, "response")
    BY <1>5 DEF Honours, PracticeItems
  <2>3. "practice" \in R => Honours(p, "check")
    BY <1>5 DEF Honours, Reviews, Checks
  <2>4. "summary" \in R => Honours(p, "check")
    BY <1>1 DEF Honours, Reviews
  <2>5. "explain" \in R => Honours(p, "explanation")
    BY <1>1 DEF Honours, ContentBearing
  <2>6. "intro" \in R /\ "explain" \in R => Honours(p, "path")
    BY <1>1 DEF Honours
  <2>7. Cardinality(R) <= 3 => Honours(p, "short")
    BY <1>1 DEF Honours
  <2> QED
    BY <2>1, <2>2, <2>3, <2>4, <2>5, <2>6, <2>7
<1>T. b.type \in {"worksheet", "mini_booklet", "quick_explainer", "practice_set", "exit_ticket", "quiz"}
  BY TypesAre DEF BriefShape
<1>duty. \A duty \in Template[b.type].owes : Honours(p, duty)
  <2>1. CASE b.type = "worksheet"
    BY <1>2, <1>H, <2>1, ObligationsAre
  <2>2. CASE b.type = "mini_booklet"
    BY <1>2, <1>H, <2>2, ObligationsAre
  <2>3. CASE b.type = "quick_explainer"
    BY <1>2, <1>H, <2>3, ObligationsAre
  <2>4. CASE b.type = "practice_set"
    BY <2>4, ObligationsAre
  <2>5. CASE b.type = "exit_ticket"
    BY <1>2, <1>H, <2>5, ObligationsAre
  <2>6. CASE b.type = "quiz"
    BY <1>2, <1>H, <2>6, ObligationsAre
  <2> QED
    BY <1>T, <2>1, <2>2, <2>3, <2>4, <2>5, <2>6
<1>practice. b.outcome \in {"practice", "assess"} => Practises(p)
  <2>1. b.type = "quick_explainer" => b.outcome \notin {"practice", "assess"}
    BY ObligationsAre DEF Ready
  <2> QED
    BY <1>1, <1>2, <2>1 DEF Practises
<1>check. Reviews(p)
  BY <1>1, <1>2, <1>5 DEF Reviews, Checks
<1>steps. RolesIn(p) \cap {"process", "practice"} = {} => {"process", "practice"} \cap ToSet(list) = {}
  <2>1. b.type = "quick_explainer" => "process" \notin Offered(b) /\ "practice" \notin Offered(b)
    BY Offers
  <2> QED
    BY <1>1, <1>2, <2>1
<1>F. ASSUME NEW f \in Faults(b, list, p)
      PROVE  f = "steps" /\ RolesIn(p) \cap {"process", "practice"} = {}
  BY <1>F, <1>size, <1>bare, <1>role, <1>unknown, <1>foreign, <1>teaching, <1>visuals, <1>duty,
     <1>practice, <1>check DEF Faults
<1> QED
  BY <1>F, <1>steps DEF p

(* A brief that validate_brief calls ready can be planned, whatever it     *)
(* asks for: the roles resolved for it hold a plan without a fault.        *)
THEOREM PlansWhatIsReady == Spec => []ReadyIsPlannable
<1>1. PlanInv => ReadyIsPlannable
  <2>1. SUFFICES ASSUME PlanInv, pc = "compose", Ready(Brief)
                 PROVE  ReadyIsPlannable
    BY DEF ReadyIsPlannable
  <2>2. Brief \in BriefShape /\ roles \in Seq(Resolvable) /\ roles = ResolvedRoles(Brief)
    BY <2>1, BriefIs DEF PlanInv
  <2>3. ToSet(roles) = Offered(Brief) /\ Once(roles)
    BY <2>2, ResolvedAre DEF Offered, Once
  <2> DEFINE R == Chosen(Brief.type, Brief.depth)
             idx == {i \in DOMAIN roles : roles[i] \in R}
             l == At(roles, idx)
  <2>4. Suits(Brief, R)
    BY <2>2, ChosenSuits
  <2>5. R \in SUBSET ToSet(roles)
    BY <2>3, <2>4 DEF Suits
  <2>6. idx \in SUBSET DOMAIN roles /\ \A i \in DOMAIN roles : i \in idx <=> roles[i] \in R
    OBVIOUS
  <2> HIDE DEF R, idx
  <2>7. /\ l \in Seq(Resolvable) /\ ToSet(l) = R /\ Len(l) = Cardinality(R)
        /\ Once(l)
    BY <2>2, <2>3, <2>5, <2>6, ListedOnce
  <2>8. Faults(Brief, roles, Made(l)) \subseteq
          IF {"process", "practice"} \cap ToSet(roles) = {} THEN {"steps"} ELSE {}
    <3> HIDE DEF l
    <3> QED
      BY <2>1, <2>2, <2>3, <2>4, <2>7, MadeIsMet
  <2>9. \E c \in SUBSET DOMAIN roles :
          Faults(Brief, roles, Made(At(roles, c))) \subseteq
            IF {"process", "practice"} \cap ToSet(roles) = {} THEN {"steps"} ELSE {}
    BY <2>6, <2>8
  <2> QED
    BY <2>9 DEF ReadyIsPlannable, Made, Picked, Usable
<1>2. Spec => []PlanInv
  BY InitPlan, NextPlan, PTL DEF Spec
<1> QED
  BY <1>1, <1>2, PTL
=============================================================================
