-------------------------- MODULE ClientStream_proofs -------------------------
(***************************************************************************)
(* The lesson view of the frontend, for any number of sections and of      *)
(* other clients, any capacity of its queue and any number of faults.      *)
(***************************************************************************)
EXTENDS ClientStream, EventStream_proofs

Types == DOMAIN Follows

-----------------------------------------------------------------------------
(* What a stream with the queue q still has to tell of a section, while    *)
(* the events of u are to be published: it is the first event about it     *)
(* after position i.                                                       *)
Silent(q, i, s) == \A k \in (i+1)..Len(q) : q[k][2] # s

First(q, u, i, s, t) ==
    \/ \E j \in (i+1)..Len(q) : q[j] = <<t, s>> /\ \A k \in (i+1)..(j-1) : q[k][2] # s
    \/ Silent(q, i, s) /\ <<t, s>> \in u

Quiet(q, u, i, s) == Silent(q, i, s) /\ \A t \in Types : <<t, s>> \notin u

Pends(q, u, e) == e \in u \/ \E i \in 1..Len(q) : q[i] = e

LEMMA TailTells ==
    ASSUME NEW q \in Seq(Events), q # <<>>, NEW u, NEW i \in Nat, NEW s
    PROVE  /\ \A t : First(Tail(q), u, i, s, t) <=> First(q, u, i + 1, s, t)
           /\ Quiet(Tail(q), u, i, s) <=> Quiet(q, u, i + 1, s)
<1> DEFINE r == Tail(q)
<1>1. /\ Len(q) \in Nat /\ Len(r) = Len(q) - 1 /\ Len(r) \in Nat
      /\ \A k \in 1..Len(r) : r[k] = q[k + 1]
  OBVIOUS
<1> HIDE DEF r
<1>2. \A k \in (i+1)..Len(r) : k + 1 \in (i+2)..Len(q) /\ r[k] = q[k+1]
  BY <1>1
<1>3. \A k \in (i+2)..Len(q) : k - 1 \in (i+1)..Len(r) /\ r[k-1] = q[k]
  BY <1>1
<1>4. Silent(r, i, s) <=> Silent(q, i + 1, s)
  <2>1. ASSUME Silent(r, i, s), NEW k \in (i+2)..Len(q) PROVE q[k][2] # s
    BY <1>3, <2>1 DEF Silent
  <2>2. ASSUME Silent(q, i + 1, s), NEW k \in (i+1)..Len(r) PROVE r[k][2] # s
    BY <1>2, <2>2 DEF Silent
  <2>3. (i + 1) + 1 = i + 2
    OBVIOUS
  <2> QED
    BY <2>1, <2>2, <2>3 DEF Silent
<1>5. ASSUME NEW t PROVE First(r, u, i, s, t) => First(q, u, i + 1, s, t)
  <2>1. ASSUME NEW j \in (i+1)..Len(r), r[j] = <<t, s>>, \A k \in (i+1)..(j-1) : r[k][2] # s
        PROVE  First(q, u, i + 1, s, t)
    <3>1. j + 1 \in ((i+1)+1)..Len(q) /\ q[j+1] = <<t, s>>
      BY <1>2, <2>1
    <3>2. ASSUME NEW k \in ((i+1)+1)..((j+1)-1) PROVE q[k][2] # s
      <4>1. k \in (i+2)..Len(q) /\ k - 1 \in (i+1)..(j-1)
        BY <1>1
      <4> QED
        BY <1>3, <2>1, <4>1
    <3> QED
      BY <3>1, <3>2 DEF First
  <2> QED
    BY <2>1, <1>4 DEF First
<1>6. ASSUME NEW t PROVE First(q, u, i + 1, s, t) => First(r, u, i, s, t)
  <2>1. ASSUME NEW j \in ((i+1)+1)..Len(q), q[j] = <<t, s>>,
               \A k \in ((i+1)+1)..(j-1) : q[k][2] # s
        PROVE  First(r, u, i, s, t)
    <3>1. j - 1 \in (i+1)..Len(r) /\ r[j-1] = <<t, s>>
      BY <1>3, <2>1
    <3>2. ASSUME NEW k \in (i+1)..((j-1)-1) PROVE r[k][2] # s
      <4>1. k \in (i+1)..Len(r) /\ k + 1 \in ((i+1)+1)..(j-1)
        BY <1>1
      <4> QED
        BY <1>2, <2>1, <4>1
    <3> QED
      BY <3>1, <3>2 DEF First
  <2> QED
    BY <2>1, <1>4 DEF First
<1> QED
  BY <1>4, <1>5, <1>6 DEF r, Quiet

LEMMA HeadTells ==
    ASSUME NEW q \in Seq(Events), q # <<>>, NEW u, NEW s
    PROVE  /\ Head(q)[2] # s => /\ \A t : First(q, u, 1, s, t) <=> First(q, u, 0, s, t)
                                /\ Quiet(q, u, 1, s) <=> Quiet(q, u, 0, s)
           /\ \A t : Head(q) = <<t, s>> => First(q, u, 0, s, t)
<1>1. Len(q) \in Nat /\ 1 \in 1..Len(q) /\ Head(q) = q[1]
  OBVIOUS
<1>2. ASSUME q[1][2] # s
      PROVE  /\ \A t : First(q, u, 1, s, t) <=> First(q, u, 0, s, t)
             /\ Quiet(q, u, 1, s) <=> Quiet(q, u, 0, s)
  <2>1. Silent(q, 1, s) <=> Silent(q, 0, s)
    <3>1. \A k \in (0+1)..Len(q) : k = 1 \/ k \in (1+1)..Len(q)
      BY <1>1
    <3>2. \A k \in (1+1)..Len(q) : k \in (0+1)..Len(q)
      BY <1>1
    <3> QED
      BY <1>2, <3>1, <3>2 DEF Silent
  <2>2. ASSUME NEW t, NEW j \in (0+1)..Len(q), q[j] = <<t, s>>,
               \A k \in (0+1)..(j-1) : q[k][2] # s
        PROVE  First(q, u, 1, s, t)
    <3>1. j # 1
      BY <1>2, <2>2
    <3>2. j \in (1+1)..Len(q) /\ \A k \in (1+1)..(j-1) : k \in (0+1)..(j-1)
      BY <3>1
    <3> QED
      BY <2>2, <3>2 DEF First
  <2>3. ASSUME NEW t, NEW j \in (1+1)..Len(q), q[j] = <<t, s>>,
               \A k \in (1+1)..(j-1) : q[k][2] # s
        PROVE  First(q, u, 0, s, t)
    <3>1. j \in (0+1)..Len(q) /\ \A k \in (0+1)..(j-1) : k = 1 \/ k \in (1+1)..(j-1)
      BY <1>1
    <3> QED
      BY <1>2, <2>3, <3>1 DEF First
  <2> QED
    BY <2>1, <2>2, <2>3 DEF First, Quiet
<1>3. ASSUME NEW t, q[1] = <<t, s>> PROVE First(q, u, 0, s, t)
  <2>1. 1 \in (0+1)..Len(q) /\ \A k \in (0+1)..(1-1) : FALSE
    BY <1>1
  <2> QED
    BY <1>3, <2>1 DEF First
<1> QED
  BY <1>1, <1>2, <1>3

(* The three ways in which what is pending grows or moves on.              *)
HeldBack(q, u, w, i, s, t0, s0) ==
    /\ \A t : First(q, w, i, s, t) =>
                 First(q, u, i, s, t) \/ (s = s0 /\ t = t0 /\ Silent(q, i, s))
    /\ Quiet(q, w, i, s) => Quiet(q, u, i, s) /\ s # s0

LEMMA SavedTells ==
    ASSUME NEW q \in Seq(Events), NEW u, NEW w, NEW i \in Nat, NEW s, NEW t0 \in Types, NEW s0,
           w = u \union {<<t0, s0>>}
    PROVE  HeldBack(q, u, w, i, s, t0, s0)
BY DEF First, Quiet, HeldBack

LEMMA AppendIs ==
    ASSUME NEW q \in Seq(Events), NEW e \in Events
    PROVE  /\ Append(q, e) \in Seq(Events) /\ Len(q) \in Nat
           /\ Len(Append(q, e)) = Len(q) + 1
           /\ \A k \in 1..Len(q) : Append(q, e)[k] = q[k]
           /\ Append(q, e)[Len(q) + 1] = e
OBVIOUS

Appended(q, r, u, i, s, t0, s0) ==
    /\ Silent(r, i, s) <=> Silent(q, i, s) /\ s # s0
    /\ \A t : First(r, u, i, s, t) =>
                 First(q, u, i, s, t) \/ (s = s0 /\ t = t0 /\ Silent(q, i, s))

LEMMA AppendTells ==
    ASSUME NEW q \in Seq(Events), NEW r, NEW u, NEW i \in Nat, i <= Len(q), NEW s, NEW t0, NEW s0,
           <<t0, s0>> \in Events, r = Append(q, <<t0, s0>>)
    PROVE  Appended(q, r, u, i, s, t0, s0)
<1> DEFINE e == <<t0, s0>>
<1>1. /\ Len(q) \in Nat /\ Len(r) = Len(q) + 1
      /\ \A k \in 1..Len(q) : r[k] = q[k]
      /\ r[Len(q) + 1] = e
  BY AppendIs
<1>2. e[1] = t0 /\ e[2] = s0
  OBVIOUS
<1>3. Silent(r, i, s) <=> Silent(q, i, s) /\ s # s0
  <2>1. \A k \in (i+1)..Len(r) : k = Len(q) + 1 \/ k \in (i+1)..Len(q)
    BY <1>1
  <2>2. \A k \in (i+1)..Len(q) : k \in (i+1)..Len(r) /\ r[k] = q[k]
    BY <1>1
  <2>3. Len(q) + 1 \in (i+1)..Len(r)
    BY <1>1
  <2> QED
    BY <1>1, <1>2, <2>1, <2>2, <2>3 DEF Silent
<1>4. ASSUME NEW t, NEW j \in (i+1)..Len(r), r[j] = <<t, s>>, \A k \in (i+1)..(j-1) : r[k][2] # s
      PROVE  First(q, u, i, s, t) \/ (s = s0 /\ t = t0 /\ Silent(q, i, s))
  <2>1. CASE j = Len(q) + 1
    <3>1. s = s0 /\ t = t0
      BY <1>1, <1>2, <1>4, <2>1
    <3>2. \A k \in (i+1)..Len(q) : k \in (i+1)..(j-1) /\ r[k] = q[k]
      BY <1>1, <2>1
    <3> QED
      BY <1>4, <3>1, <3>2 DEF Silent
  <2>2. CASE j # Len(q) + 1
    <3>1. j \in (i+1)..Len(q) /\ q[j] = <<t, s>>
      BY <1>1, <1>4, <2>2
    <3>2. \A k \in (i+1)..(j-1) : r[k] = q[k]
      BY <1>1, <3>1
    <3> QED
      BY <1>4, <3>1, <3>2 DEF First
  <2> QED
    BY <2>1, <2>2
<1>5. ASSUME NEW t, Silent(r, i, s) /\ <<t, s>> \in u PROVE First(q, u, i, s, t)
  BY <1>3, <1>5 DEF First
<1> QED
  BY <1>3, <1>4, <1>5 DEF First, Appended

(* Nothing follows the end of a queue but what is to be published.         *)
LEMMA EndTells ==
    ASSUME NEW q \in Seq(Events), NEW u, NEW i \in Nat, i >= Len(q), NEW s
    PROVE  /\ Silent(q, i, s)
           /\ \A t : First(q, u, i, s, t) => <<t, s>> \in u
<1>1. Len(q) \in Nat
  OBVIOUS
<1>2. \A k \in (i+1)..Len(q) : FALSE
  BY <1>1
<1> QED
  BY <1>2 DEF Silent, First


-----------------------------------------------------------------------------
(* The types of a section's events, and what goes before each.             *)
Drafts    == {"section_partial", "section_asset_ready", "section_media_blocked"}
Dead      == {"section_failed", "media_frame_ready"}
MustDraft == {"section_asset_ready", "section_media_blocked"}
NoDraft   == {"section_started", "progress_update", "section_failed", "media_frame_ready"}

LEMMA TypesAre ==
    Types = {"none", "section_started", "progress_update", "section_partial",
             "section_asset_ready", "section_media_blocked", "section_final",
             "section_ready", "media_frame_ready", "section_failed"}
BY DEF Types, Follows

LEMMA FollowsIs ==
    ASSUME NEW x \in Types, NEW t \in Follows[x]
    PROVE  /\ t \in Types /\ t # "none"
           /\ t = "section_started" <=> x = "none"
           /\ t = "progress_update" => x = "section_started"
           /\ t = "section_failed" => x = "progress_update"
           /\ t = "section_partial" => x \in {"progress_update", "section_ready"}
           /\ t \in MustDraft => x = "section_partial"
           /\ t = "section_final" => x \in {"section_partial", "section_asset_ready"}
           /\ t = "section_ready" => x = "section_final"
           /\ t = "media_frame_ready" => x \in {"section_ready", "section_failed"}
           /\ x \in Dead => t = "media_frame_ready"
<1>1. CASE x \in {"none", "section_started", "progress_update"}
  BY <1>1, TypesAre DEF Follows, MustDraft, Dead
<1>2. CASE x \in {"section_partial", "section_asset_ready", "section_media_blocked"}
  BY <1>2, TypesAre DEF Follows, MustDraft, Dead
<1>3. CASE x \in {"section_final", "section_ready"}
  BY <1>3, TypesAre DEF Follows, MustDraft, Dead
<1>4. CASE x \in {"media_frame_ready", "section_failed"}
  BY <1>4, TypesAre DEF Follows, MustDraft, Dead
<1> QED
  BY <1>1, <1>2, <1>3, <1>4, TypesAre

LEMMA SectionEventsAre ==
    /\ SectionEvents = ProgressEvents /\ SectionEvents \subseteq Events
    /\ \A t \in Types, s \in Sections : <<t, s>> \in SectionEvents
    /\ \A e \in SectionEvents : /\ ~EndsStream(e)
                                /\ e[1] \in Types /\ e[2] \in Sections /\ e = <<e[1], e[2]>>
    /\ \A e \in Events : ~EndsStream(e) => e \in SectionEvents
    /\ \A t \in Types : t \notin Outcomes
<1>1. SectionEvents = ProgressEvents /\ SectionEvents \subseteq Events
  BY EventsAssumption DEF Events
<1>2. \A e \in SectionEvents : ~EndsStream(e)
  BY <1>1, ProgressAssumption
<1>3. /\ \A t \in Types, s \in Sections : <<t, s>> \in SectionEvents
      /\ \A e \in SectionEvents : e[1] \in Types /\ e[2] \in Sections /\ e = <<e[1], e[2]>>
  BY DEF SectionEvents, Types
<1>4. \A e \in Events : ~EndsStream(e) => e \in SectionEvents
  BY <1>1, OutcomeEventsType DEF Events
<1>5. \A t \in Types : t \notin Outcomes
  BY TypesAre DEF Outcomes
<1> QED
  BY <1>1, <1>2, <1>3, <1>4, <1>5

-----------------------------------------------------------------------------
(* What an event makes of the row's document and of the view's.            *)
Becomes(r, d, t, s) ==
    /\ r \in Document
    /\ r.status \in {"running", d.status}
    /\ t = "section_started" => r.manifest = d.manifest \union {s}
    /\ t # "section_started" => r.manifest = d.manifest
    /\ t = "section_ready" => r.sections = d.sections \union {s}
    /\ t # "section_ready" => r.sections = d.sections
    /\ t = "section_partial" => r.partial = d.partial \union {s}
    /\ t \in {"section_final", "section_ready"} => r.partial = d.partial \ {s}
    /\ t \notin {"section_partial", "section_final", "section_ready"} => r.partial = d.partial
    /\ t \in {"section_partial", "section_ready"} => r.failed = d.failed \ {s}
    /\ t \notin {"section_partial", "section_ready"} => r.failed = d.failed

LEMMA StartedIs ==
    ASSUME NEW d \in Document, NEW s \in Sections
    PROVE  Becomes(SectionStarted(d, s), d, "section_started", s)
<1> DEFINE r == SectionStarted(d, s)
<1>1. r \in Document
  BY DEF SectionStarted, Document, DocumentStatus
<1>2. /\ r.status \in {"running", d.status}
      /\ r.manifest = d.manifest \union {s} /\ r.sections = d.sections
      /\ r.partial = d.partial /\ r.failed = d.failed
  BY DEF SectionStarted, Document
<1> QED
  BY <1>1, <1>2 DEF Becomes

LEMMA PartialIs ==
    ASSUME NEW d \in Document, NEW s \in Sections
    PROVE  Becomes(SectionPartial(d, s), d, "section_partial", s)
<1> DEFINE r == SectionPartial(d, s)
<1>1. r \in Document
  BY DEF SectionPartial, Document, DocumentStatus
<1>2. /\ r.status \in {"running", d.status}
      /\ r.manifest = d.manifest /\ r.sections = d.sections
      /\ r.partial = d.partial \union {s} /\ r.failed = d.failed \ {s}
  BY DEF SectionPartial, Document
<1> QED
  BY <1>1, <1>2 DEF Becomes

LEMMA AssetsIs ==
    ASSUME NEW d \in Document, NEW s \in Sections
    PROVE  Becomes(SectionAssets(d, s), d, "section_asset_ready", s)
<1> DEFINE r == SectionAssets(d, s)
<1>1. r \in Document
  BY DEF SectionAssets, Document, DocumentStatus
<1>2. /\ r.status \in {"running", d.status}
      /\ r.manifest = d.manifest /\ r.sections = d.sections
      /\ r.partial = d.partial /\ r.failed = d.failed
  BY DEF SectionAssets, Document
<1> QED
  BY <1>1, <1>2 DEF Becomes

LEMMA FinalsIs ==
    ASSUME NEW d \in Document, NEW s \in Sections
    PROVE  Becomes(SectionFinal(d, s), d, "section_final", s)
<1> DEFINE r == SectionFinal(d, s)
<1>1. r \in Document
  BY DEF SectionFinal, Document, DocumentStatus
<1>2. /\ r.status \in {"running", d.status}
      /\ r.manifest = d.manifest /\ r.sections = d.sections
      /\ r.partial = d.partial \ {s} /\ r.failed = d.failed
  BY DEF SectionFinal, Document
<1> QED
  BY <1>1, <1>2 DEF Becomes

LEMMA ReadyIs ==
    ASSUME NEW d \in Document, NEW s \in Sections
    PROVE  Becomes(SectionReady(d, s), d, "section_ready", s)
<1> DEFINE r == SectionReady(d, s)
<1>1. r \in Document
  BY DEF SectionReady, Document, DocumentStatus
<1>2. /\ r.status \in {"running", d.status}
      /\ r.manifest = d.manifest /\ r.sections = d.sections \union {s}
      /\ r.partial = d.partial \ {s} /\ r.failed = d.failed \ {s}
  BY DEF SectionReady, Document
<1> QED
  BY <1>1, <1>2 DEF Becomes

LEMMA SavedIs ==
    ASSUME NEW d \in Document, NEW t \in Types, NEW s \in Sections
    PROVE  /\ Becomes(Saved(d, t, s), d, t, s)
           /\ t \notin SavedEvents => Saved(d, t, s) = d
<1>1. CASE t = "section_started"
  BY <1>1, StartedIs DEF Saved, SavedEvents
<1>2. CASE t = "section_partial"
  BY <1>2, PartialIs DEF Saved, SavedEvents
<1>3. CASE t = "section_asset_ready"
  BY <1>3, AssetsIs DEF Saved, SavedEvents
<1>4. CASE t = "section_final"
  BY <1>4, FinalsIs DEF Saved, SavedEvents
<1>5. CASE t = "section_ready"
  BY <1>5, ReadyIs DEF Saved, SavedEvents
<1>6. CASE t \notin SavedEvents
  <2>1. Saved(d, t, s) = d
    BY <1>6 DEF Saved, SavedEvents
  <2>2. Becomes(d, d, t, s)
    BY <1>6 DEF Becomes, SavedEvents
  <2> QED
    BY <2>1, <2>2
<1> QED
  BY <1>1, <1>2, <1>3, <1>4, <1>5, <1>6 DEF SavedEvents

ShownBecomes(r, d, t, s, ok) ==
    /\ r \in Document
    /\ r.status \in {"running", d.status}
    /\ t = "section_started" => r.manifest = d.manifest \union {s}
    /\ t # "section_started" => r.manifest = d.manifest
    /\ t = "section_ready" /\ ok => r.sections = d.sections \union {s}
    /\ t = "section_failed" => r.sections = d.sections \ {s}
    /\ t # "section_failed" /\ ~(t = "section_ready" /\ ok) => r.sections = d.sections
    /\ t = "section_partial" /\ ok => r.partial = d.partial \union {s}
    /\ t = "section_failed" \/ (t = "section_ready" /\ ok) => r.partial = d.partial \ {s}
    /\ t # "section_failed" /\ ~(t \in {"section_partial", "section_ready"} /\ ok) =>
          r.partial = d.partial
    /\ t = "section_failed" => r.failed = d.failed \union {s}
    /\ t \in {"section_partial", "section_ready"} /\ ok => r.failed = d.failed \ {s}
    /\ t # "section_failed" /\ ~(t \in {"section_partial", "section_ready"} /\ ok) =>
          r.failed = d.failed

LEMMA ViewFailedIs ==
    ASSUME NEW d \in Document, NEW s \in Sections, NEW ok \in BOOLEAN
    PROVE  ShownBecomes(ViewFailed(d, s), d, "section_failed", s, ok)
<1> DEFINE r == ViewFailed(d, s)
<1>1. r \in Document
  BY DEF ViewFailed, Document, DocumentStatus
<1>2. /\ r.status \in {"running", d.status}
      /\ r.manifest = d.manifest /\ r.sections = d.sections \ {s}
      /\ r.partial = d.partial \ {s} /\ r.failed = d.failed \union {s}
  BY DEF ViewFailed, Document
<1> QED
  BY <1>1, <1>2 DEF ShownBecomes

LEMMA ShownIs ==
    ASSUME NEW d \in Document, NEW t \in Types, NEW s \in Sections, NEW ok \in BOOLEAN
    PROVE  ShownBecomes(Shown(d, t, s, ok), d, t, s, ok)
<1> DEFINE r == Shown(d, t, s, ok)
<1>0. ASSUME r = d, t \notin {"section_started", "section_failed"},
             t \in {"section_partial", "section_ready"} => ~ok
      PROVE  ShownBecomes(r, d, t, s, ok)
  BY <1>0 DEF ShownBecomes
<1>1. CASE t = "section_started"
  <2>1. r = SectionStarted(d, s)
    BY <1>1 DEF Shown, ViewStarted
  <2> QED
    BY <1>1, <2>1, StartedIs DEF Becomes, ShownBecomes
<1>2. CASE t = "section_partial" /\ ok
  <2>1. r = SectionPartial(d, s)
    BY <1>2 DEF Shown, ViewPartial
  <2>2. ok = TRUE
    BY <1>2
  <2>3. ShownBecomes(r, d, "section_partial", s, TRUE)
    BY <2>1, PartialIs DEF Becomes, ShownBecomes
  <2> QED
    BY <1>2, <2>2, <2>3
<1>3. CASE t = "section_ready" /\ ok
  <2>1. r = SectionReady(d, s)
    BY <1>3 DEF Shown, ViewReady
  <2>2. ok = TRUE
    BY <1>3
  <2>3. ShownBecomes(r, d, "section_ready", s, TRUE)
    BY <2>1, ReadyIs DEF Becomes, ShownBecomes
  <2> QED
    BY <1>3, <2>2, <2>3
<1>4. CASE t \in {"section_partial", "section_ready"} /\ ~ok
  <2>1. r = d
    BY <1>4 DEF Shown, ViewPartial, ViewReady
  <2> QED
    BY <1>0, <1>4, <2>1
<1>5. CASE t = "section_asset_ready"
  <2>1. r = SectionAssets(d, s)
    BY <1>5 DEF Shown, ViewAssets
  <2> QED
    BY <1>5, <2>1, AssetsIs DEF Becomes, ShownBecomes
<1>6. CASE t = "section_final"
  <2>1. r = [d EXCEPT !.status = "running"]
    BY <1>6 DEF Shown, ViewFinal
  <2>2. r \in Document
    BY <2>1 DEF Document, DocumentStatus
  <2>3. /\ r.status = "running" /\ r.manifest = d.manifest /\ r.sections = d.sections
        /\ r.partial = d.partial /\ r.failed = d.failed
    BY <2>1 DEF Document
  <2> QED
    BY <1>6, <2>2, <2>3 DEF ShownBecomes
<1>7. CASE t = "section_failed"
  BY <1>7, ViewFailedIs DEF Shown
<1>8. CASE t \in {"none", "progress_update", "section_media_blocked", "media_frame_ready"}
  <2>1. r = d
    BY <1>8 DEF Shown
  <2> QED
    BY <1>0, <1>8, <2>1
<1> QED
  BY <1>1, <1>2, <1>3, <1>4, <1>5, <1>6, <1>7, <1>8, TypesAre

LEMMA SignalledIs ==
    ASSUME NEW old \in Signals, NEW t \in Types
    PROVE  /\ Signalled(old, t) \in Signals
           /\ Signalled(old, t) = "failed" <=>
                 t = "section_failed" \/ (old = "failed" /\ t \notin DOMAIN SectionSignal)
           /\ old \in {"ready", "failed"} /\ t \notin DOMAIN SectionSignal =>
                 Signalled(old, t) = old
           /\ DOMAIN SectionSignal \intersect Types \subseteq SavedEvents \union {"section_failed"}
<1>1. /\ DOMAIN SectionSignal = {"section_partial", "section_asset_pending", "section_asset_ready",
                                 "section_final", "section_ready", "section_failed"}
      /\ \A x \in DOMAIN SectionSignal : /\ SectionSignal[x] \in Signals
                                         /\ SectionSignal[x] = "failed" <=> x = "section_failed"
  BY DEF SectionSignal, Signals
<1>2. \A x \in DOMAIN MediaSignal : MediaSignal[x] \in Signals \ {"failed"}
  BY DEF MediaSignal, Signals
<1>3. \A x \in DOMAIN Keeping : Keeping[x] \in Signals \ {"failed"}
  BY DEF Keeping, Signals
<1>4. DOMAIN SectionSignal \intersect Types \subseteq SavedEvents \union {"section_failed"}
  BY <1>1, TypesAre DEF SavedEvents
<1>5. CASE t \in DOMAIN SectionSignal
  BY <1>1, <1>4, <1>5 DEF Signalled
<1>6. CASE t \notin DOMAIN SectionSignal
  BY <1>1, <1>2, <1>3, <1>4, <1>6 DEF Signalled
<1> QED
  BY <1>5, <1>6


-----------------------------------------------------------------------------
(* The tasks emit in order, so the events of a section that are still on   *)
(* their way to the view follow on each other, and the last one is where   *)
(* its task stands: q is the queue, u what is to be published, g the       *)
(* stages.                                                                 *)
Chained(q, u, g) ==
    \A i \in 1..Len(q), s \in Sections, x \in Types : q[i] = <<x, s>> =>
       /\ \A t \in Types : First(q, u, i, s, t) => t \in Follows[x]
       /\ Quiet(q, u, i, s) => g[s] = x

(* A document that has seen everything but what is on its way knows what   *)
(* the next event builds on, and all there is of a section of which no     *)
(* more is on its way; what is ready is shown or about to be.              *)
Shows(q, u, x, full, d, s) ==
    /\ \A t \in Types : First(q, u, 0, s, t) =>
          /\ t # "section_started" => s \in d.manifest
          /\ t \in MustDraft => s \in d.partial
          /\ t \in NoDraft => s \notin d.partial
    /\ Quiet(q, u, 0, s) =>
          /\ s \in d.manifest <=> x # "none"
          /\ x \in Drafts => s \in d.partial
          /\ x \notin Drafts \union {"section_final"} => s \notin d.partial
    /\ s \in full /\ s \notin d.failed =>
          s \in d.sections \/ Pends(q, u, <<"section_ready", s>>)

LEMMA NothingChained == ASSUME NEW u, NEW g PROVE Chained(<<>>, u, g)
<1>1. Len(<<>>) = 0 /\ \A i \in 1..0 : FALSE
  OBVIOUS
<1> QED
  BY <1>1 DEF Chained

LEMMA TailChained ==
    ASSUME NEW q \in Seq(Events), q # <<>>, NEW u, NEW g, Chained(q, u, g)
    PROVE  Chained(Tail(q), u, g)
<1>1. ASSUME NEW i \in 1..Len(Tail(q)), NEW s \in Sections, NEW x \in Types, Tail(q)[i] = <<x, s>>
      PROVE  /\ \A t \in Types : First(Tail(q), u, i, s, t) => t \in Follows[x]
             /\ Quiet(Tail(q), u, i, s) => g[s] = x
  <2>1. i \in Nat /\ i + 1 \in 1..Len(q) /\ q[i + 1] = <<x, s>>
    BY <1>1
  <2>2. /\ \A t : First(Tail(q), u, i, s, t) <=> First(q, u, i + 1, s, t)
        /\ Quiet(Tail(q), u, i, s) <=> Quiet(q, u, i + 1, s)
    BY <2>1, TailTells
  <2>3. /\ \A t \in Types : First(q, u, i + 1, s, t) => t \in Follows[x]
        /\ Quiet(q, u, i + 1, s) => g[s] = x
    BY <2>1 DEF Chained
  <2> QED
    BY <2>2, <2>3
<1> QED
  BY <1>1 DEF Chained

(* The task of s0 moves on to t0, nothing of it being held back: the event *)
(* is held back,                                                           *)
LEMMA SavedChained ==
    ASSUME NEW q \in Seq(Events), NEW u, NEW g, NEW h, NEW t0 \in Types, NEW s0 \in Sections,
           Chained(q, u, g), \A t \in Types : <<t, s0>> \notin u, t0 \in Follows[g[s0]],
           h[s0] = t0, \A s \in Sections \ {s0} : h[s] = g[s]
    PROVE  Chained(q, u \union {<<t0, s0>>}, h)
<1> DEFINE w == u \union {<<t0, s0>>}
<1>0. w = u \union {<<t0, s0>>}
  OBVIOUS
<1> HIDE DEF w
<1>1. ASSUME NEW i \in 1..Len(q), NEW s \in Sections, NEW x \in Types, q[i] = <<x, s>>
      PROVE  /\ \A t \in Types : First(q, w, i, s, t) => t \in Follows[x]
             /\ Quiet(q, w, i, s) => h[s] = x
  <2>1. i \in Nat
    BY <1>1
  <2>2. HeldBack(q, u, w, i, s, t0, s0)
    BY <1>0, <2>1, SavedTells
  <2>3. /\ \A t \in Types : First(q, u, i, s, t) => t \in Follows[x]
        /\ Quiet(q, u, i, s) => g[s] = x
    BY <1>1 DEF Chained
  <2>4. s = s0 /\ Silent(q, i, s) => t0 \in Follows[x]
    BY <2>3 DEF Quiet
  <2> QED
    BY <2>2, <2>3, <2>4 DEF HeldBack
<1> QED
  BY <1>1 DEF Chained, w

(* or published,                                                           *)
LEMMA SentChained ==
    ASSUME NEW q \in Seq(Events), NEW u, NEW g, NEW h, NEW t0 \in Types, NEW s0 \in Sections,
           Chained(q, u, g), \A t \in Types : <<t, s0>> \notin u, t0 \in Follows[g[s0]],
           h[s0] = t0, \A s \in Sections \ {s0} : h[s] = g[s]
    PROVE  Chained(Append(q, <<t0, s0>>), u, h)
<1> DEFINE e == <<t0, s0>>
           r == Append(q, e)
<1>1. e \in Events
  BY SectionEventsAre
<1>2. /\ Len(q) \in Nat /\ r \in Seq(Events) /\ Len(r) = Len(q) + 1
      /\ \A k \in 1..Len(q) : r[k] = q[k]
      /\ r[Len(q) + 1] = e
  BY <1>1, AppendIs
<1>0. r = Append(q, <<t0, s0>>)
  OBVIOUS
<1> HIDE DEF r
<1>3. ASSUME NEW i \in 1..Len(r), NEW s \in Sections, NEW x \in Types, r[i] = <<x, s>>
      PROVE  /\ \A t \in Types : First(r, u, i, s, t) => t \in Follows[x]
             /\ Quiet(r, u, i, s) => h[s] = x
  <2>1. CASE i \in 1..Len(q)
    <3>1. i \in Nat /\ i <= Len(q) /\ q[i] = <<x, s>>
      BY <1>2, <1>3, <2>1
    <3>2. Appended(q, r, u, i, s, t0, s0)
      BY <1>0, <1>1, <3>1, AppendTells
    <3>3. /\ \A t \in Types : First(q, u, i, s, t) => t \in Follows[x]
          /\ Quiet(q, u, i, s) => g[s] = x
      BY <2>1, <3>1 DEF Chained
    <3>4. s = s0 /\ Silent(q, i, s) => t0 \in Follows[x]
      BY <3>3 DEF Quiet
    <3>5. Quiet(r, u, i, s) => Quiet(q, u, i, s) /\ s # s0
      BY <3>2 DEF Quiet, Appended
    <3> QED
      BY <3>2, <3>3, <3>4, <3>5 DEF Appended
  <2>2. CASE i = Len(q) + 1
    <3>1. x = t0 /\ s = s0
      BY <1>2, <1>3, <2>2
    <3>2. i \in Nat /\ i >= Len(r)
      BY <1>2, <2>2
    <3>3. \A t : First(r, u, i, s, t) => <<t, s>> \in u
      BY <1>2, <3>2, EndTells
    <3> QED
      BY <3>1, <3>3
  <2>3. i \in 1..Len(q) \/ i = Len(q) + 1
    BY <1>2
  <2> QED
    BY <2>1, <2>2, <2>3
<1>4. Chained(r, u, h)
  BY <1>3 DEF Chained
<1> QED
  BY <1>4 DEF r

(* or an event held back is published now.                                 *)
LEMMA PublishedChained ==
    ASSUME NEW q \in Seq(Events), NEW u, NEW g, NEW t0 \in Types, NEW s0 \in Sections,
           Chained(q, u, g), <<t0, s0>> \in u,
           \A t \in Types : <<t, s0>> \in u => g[s0] = t
    PROVE  Chained(Append(q, <<t0, s0>>), u \ {<<t0, s0>>}, g)
<1> DEFINE e == <<t0, s0>>
           r == Append(q, e)
           v == u \ {e}
<1>1. e \in Events
  BY SectionEventsAre
<1>2. /\ Len(q) \in Nat /\ r \in Seq(Events) /\ Len(r) = Len(q) + 1
      /\ \A k \in 1..Len(q) : r[k] = q[k]
      /\ r[Len(q) + 1] = e
  BY <1>1, AppendIs
<1>0. r = Append(q, <<t0, s0>>)
  OBVIOUS
<1> HIDE DEF r
<1>3. ASSUME NEW i \in 1..Len(r), NEW s \in Sections, NEW x \in Types, r[i] = <<x, s>>
      PROVE  /\ \A t \in Types : First(r, v, i, s, t) => t \in Follows[x]
             /\ Quiet(r, v, i, s) => g[s] = x
  <2>1. CASE i \in 1..Len(q)
    <3>1. i \in Nat /\ i <= Len(q) /\ q[i] = <<x, s>>
      BY <1>2, <1>3, <2>1
    <3>2. Appended(q, r, v, i, s, t0, s0)
      BY <1>0, <1>1, <3>1, AppendTells
    <3>3. /\ \A t \in Types : First(q, u, i, s, t) => t \in Follows[x]
          /\ Quiet(q, u, i, s) => g[s] = x
      BY <2>1, <3>1 DEF Chained
    <3>4. \A t : First(q, v, i, s, t) => First(q, u, i, s, t)
      BY DEF First
    <3>5. s = s0 /\ Silent(q, i, s) => First(q, u, i, s, t0)
      BY DEF First
    <3>6. Quiet(r, v, i, s) => Quiet(q, u, i, s)
      <4>1. s # s0 => \A t : <<t, s>> # <<t0, s0>>
        OBVIOUS
      <4> QED
        BY <3>2, <4>1 DEF Quiet, Appended
    <3> HIDE DEF v
    <3> QED
      BY <3>2, <3>3, <3>4, <3>5, <3>6 DEF Appended
  <2>2. CASE i = Len(q) + 1
    <3>1. x = t0 /\ s = s0
      BY <1>2, <1>3, <2>2
    <3>2. i \in Nat /\ i >= Len(r)
      BY <1>2, <2>2
    <3>3. \A t : First(r, v, i, s, t) => <<t, s>> \in v
      BY <1>2, <3>2, EndTells
    <3>4. g[s0] = t0
      OBVIOUS
    <3>5. \A t \in Types : <<t, s0>> \notin v
      BY <3>4
    <3> HIDE DEF v
    <3> QED
      BY <3>1, <3>3, <3>4, <3>5
  <2>3. i \in 1..Len(q) \/ i = Len(q) + 1
    BY <1>2
  <2> QED
    BY <2>1, <2>2, <2>3
<1> HIDE DEF v
<1>4. Chained(r, v, g)
  BY <1>3 DEF Chained
<1> QED
  BY <1>4 DEF r, v


-----------------------------------------------------------------------------
(* What a document shows is kept as the events move along.                 *)
Builds(t, d, s) ==
    /\ t # "section_started" => s \in d.manifest
    /\ t \in MustDraft => s \in d.partial
    /\ t \in NoDraft => s \notin d.partial

LEMMA NextBuilds ==
    ASSUME NEW q, NEW u, NEW x \in Types, NEW full, NEW d, NEW s, NEW t \in Follows[x],
           Shows(q, u, x, full, d, s), Quiet(q, u, 0, s)
    PROVE  Builds(t, d, s)
<1>1. /\ s \in d.manifest <=> x # "none"
      /\ x \in Drafts => s \in d.partial
      /\ x \notin Drafts \union {"section_final"} => s \notin d.partial
  BY DEF Shows
<1>2. /\ t = "section_started" <=> x = "none"
      /\ t = "progress_update" => x = "section_started"
      /\ t = "section_failed" => x = "progress_update"
      /\ t \in MustDraft => x = "section_partial"
      /\ t = "media_frame_ready" => x \in {"section_ready", "section_failed"}
  BY FollowsIs
<1>3. t \in NoDraft => x \notin Drafts \union {"section_final"}
  BY <1>2 DEF NoDraft, Drafts
<1>4. t \in MustDraft => x \in Drafts
  BY <1>2 DEF Drafts
<1> QED
  BY <1>1, <1>2, <1>3, <1>4 DEF Builds

(* The task of s0 moves on to t0, none of its events being held back in u; *)
(* x and y are where the task of s stood and stands.                       *)
MovesOn(x, y, s, s0, t0, u) ==
    /\ s = s0 => t0 \in Follows[x] /\ \A t \in Types : <<t, s>> \notin u
    /\ s # s0 => y = x

LEMMA SavedShows ==
    ASSUME NEW q \in Seq(Events), NEW u, NEW w, NEW x \in Types, NEW y, NEW full, NEW more,
           NEW d, NEW s, NEW t0 \in Types, NEW s0,
           Shows(q, u, x, full, d, s), w = u \union {<<t0, s0>>},
           MovesOn(x, y, s, s0, t0, u),
           s \in more => s \in full \/ (s = s0 /\ t0 = "section_ready")
    PROVE  Shows(q, w, y, more, d, s)
<1>1. HeldBack(q, u, w, 0, s, t0, s0)
  BY SavedTells
<1>2. s = s0 /\ Silent(q, 0, s) => Builds(t0, d, s)
  BY NextBuilds DEF Quiet, MovesOn
<1>3. ASSUME NEW t \in Types, First(q, w, 0, s, t) PROVE Builds(t, d, s)
  <2>1. First(q, u, 0, s, t) => Builds(t, d, s)
    BY DEF Shows, Builds
  <2> QED
    BY <1>1, <1>2, <1>3, <2>1 DEF HeldBack
<1>4. Quiet(q, w, 0, s) => Quiet(q, u, 0, s) /\ y = x
  BY <1>1 DEF HeldBack, MovesOn
<1>5. /\ <<t0, s0>> \in w
      /\ \A e : Pends(q, u, e) => Pends(q, w, e)
  BY DEF Pends
<1>6. s \in more /\ s \notin d.failed => s \in d.sections \/ Pends(q, w, <<"section_ready", s>>)
  <2>1. CASE s \in full
    BY <1>5, <2>1 DEF Shows
  <2>2. CASE s = s0 /\ t0 = "section_ready"
    BY <1>5, <2>2 DEF Pends
  <2> QED
    BY <2>1, <2>2
<1>7. Quiet(q, w, 0, s) =>
          /\ s \in d.manifest <=> y # "none"
          /\ y \in Drafts => s \in d.partial
          /\ y \notin Drafts \union {"section_final"} => s \notin d.partial
  BY <1>4 DEF Shows
<1> QED
  BY <1>3, <1>6, <1>7 DEF Shows, Builds

LEMMA SentShows ==
    ASSUME NEW q \in Seq(Events), NEW r, NEW u, NEW x \in Types, NEW y, NEW full,
           NEW d, NEW s, NEW t0 \in Types, NEW s0 \in Sections,
           Shows(q, u, x, full, d, s), r = Append(q, <<t0, s0>>),
           MovesOn(x, y, s, s0, t0, u)
    PROVE  Shows(r, u, y, full, d, s)
<1>0. <<t0, s0>> \in Events /\ Len(q) \in Nat /\ 0 <= Len(q)
  BY SectionEventsAre
<1>1. Appended(q, r, u, 0, s, t0, s0)
  BY <1>0, AppendTells
<1>2. s = s0 /\ Silent(q, 0, s) => Builds(t0, d, s)
  BY NextBuilds DEF Quiet, MovesOn
<1>3. ASSUME NEW t \in Types, First(r, u, 0, s, t) PROVE Builds(t, d, s)
  <2>1. First(q, u, 0, s, t) => Builds(t, d, s)
    BY DEF Shows, Builds
  <2> QED
    BY <1>1, <1>2, <1>3, <2>1 DEF Appended
<1>4. Quiet(r, u, 0, s) => Quiet(q, u, 0, s) /\ y = x
  BY <1>1 DEF Appended, Quiet, MovesOn
<1>5. \A e : Pends(q, u, e) => Pends(r, u, e)
  BY <1>0, AppendIs DEF Pends
<1>6. s \in full /\ s \notin d.failed => s \in d.sections \/ Pends(r, u, <<"section_ready", s>>)
  BY <1>5 DEF Shows
<1>7. Quiet(r, u, 0, s) =>
          /\ s \in d.manifest <=> y # "none"
          /\ y \in Drafts => s \in d.partial
          /\ y \notin Drafts \union {"section_final"} => s \notin d.partial
  BY <1>4 DEF Shows
<1> QED
  BY <1>3, <1>6, <1>7 DEF Shows, Builds

LEMMA PublishedShows ==
    ASSUME NEW q \in Seq(Events), NEW r, NEW u, NEW v, NEW x, NEW full,
           NEW d, NEW s, NEW t0 \in Types, NEW s0 \in Sections,
           Shows(q, u, x, full, d, s), r = Append(q, <<t0, s0>>),
           <<t0, s0>> \in u, v = u \ {<<t0, s0>>}
    PROVE  Shows(r, v, x, full, d, s)
<1>0. <<t0, s0>> \in Events /\ Len(q) \in Nat /\ 0 <= Len(q)
  BY SectionEventsAre
<1>1. Appended(q, r, v, 0, s, t0, s0)
  BY <1>0, AppendTells
<1>2. \A t : First(r, v, 0, s, t) => First(q, u, 0, s, t)
  BY <1>1 DEF Appended, First
<1>3. Quiet(r, v, 0, s) => Quiet(q, u, 0, s)
  <2>1. s # s0 => \A t : <<t, s>> # <<t0, s0>>
    OBVIOUS
  <2> QED
    BY <1>1, <2>1 DEF Appended, Quiet
<1>4. ASSUME NEW e, Pends(q, u, e) PROVE Pends(r, v, e)
  <2>1. /\ Len(q) + 1 \in 1..Len(r) /\ r[Len(q) + 1] = <<t0, s0>>
        /\ \A k \in 1..Len(q) : k \in 1..Len(r) /\ r[k] = q[k]
    BY <1>0, AppendIs
  <2> QED
    BY <1>4, <2>1 DEF Pends
<1> QED
  BY <1>2, <1>3, <1>4 DEF Shows

(* The row itself shows all there is, for whoever has nothing in his queue.*)
LEMMA RowShows ==
    ASSUME NEW u, NEW x \in Types, NEW d, NEW s,
           \A t \in Types : <<t, s>> \in u => t \in SavedEvents /\ x = t,
           s \in d.manifest <=> x # "none", s \in d.partial <=> x \in Drafts
    PROVE  Shows(<<>>, u, x, d.sections, d, s)
<1>1. <<>> \in Seq(Events) /\ 0 >= Len(<<>>)
  OBVIOUS
<1>2. \A t : First(<<>>, u, 0, s, t) => <<t, s>> \in u
  BY <1>1, EndTells
<1>3. /\ "none" \notin SavedEvents
      /\ \A t \in SavedEvents : /\ t \in MustDraft => t \in Drafts
                                /\ t \in NoDraft => t \notin Drafts
  BY DEF SavedEvents, MustDraft, NoDraft, Drafts
<1> QED
  BY <1>2, <1>3 DEF Shows


(* An event leaves the queue and is folded into what the view shows.       *)
LEMMA TailPends ==
    ASSUME NEW q \in Seq(Events), q # <<>>, NEW u, NEW e, Pends(q, u, e), e # Head(q)
    PROVE  Pends(Tail(q), u, e)
<1>1. CASE e \in u
  BY <1>1 DEF Pends
<1>2. ASSUME NEW i \in 1..Len(q), q[i] = e PROVE Pends(Tail(q), u, e)
  <2>1. i # 1
    BY <1>2
  <2>2. i - 1 \in 1..Len(Tail(q)) /\ Tail(q)[i - 1] = e
    BY <1>2, <2>1
  <2> QED
    BY <2>2 DEF Pends
<1> QED
  BY <1>1, <1>2 DEF Pends

LEMMA OtherShows ==
    ASSUME NEW q \in Seq(Events), q # <<>>, NEW r, r = Tail(q), NEW u, NEW x, NEW full,
           NEW d, NEW c, NEW s, Shows(q, u, x, full, d, s), Head(q)[2] # s,
           s \in c.manifest <=> s \in d.manifest, s \in c.partial <=> s \in d.partial,
           s \in c.sections <=> s \in d.sections, s \in c.failed <=> s \in d.failed
    PROVE  Shows(r, u, x, full, c, s)
<1>1. /\ \A t : First(r, u, 0, s, t) <=> First(q, u, 0 + 1, s, t)
      /\ Quiet(r, u, 0, s) <=> Quiet(q, u, 0 + 1, s)
  BY TailTells
<1>2. /\ \A t : First(q, u, 1, s, t) <=> First(q, u, 0, s, t)
      /\ Quiet(q, u, 1, s) <=> Quiet(q, u, 0, s)
  BY HeadTells
<1>3. 0 + 1 = 1
  OBVIOUS
<1>4. /\ \A t : First(r, u, 0, s, t) => First(q, u, 0, s, t)
      /\ Quiet(r, u, 0, s) => Quiet(q, u, 0, s)
  BY <1>1, <1>2, <1>3
<1>5. Pends(q, u, <<"section_ready", s>>) => Pends(r, u, <<"section_ready", s>>)
  BY TailPends
<1> QED
  BY <1>4, <1>5 DEF Shows

LEMMA FoldShows ==
    ASSUME NEW q \in Seq(Events), q # <<>>, NEW r, r = Tail(q), NEW u, NEW g, NEW full,
           NEW d, NEW c, NEW s \in Sections, NEW t0 \in Types \ {"none"},
           Shows(q, u, g[s], full, d, s), Chained(q, u, g), Head(q) = <<t0, s>>,
           ShownBecomes(c, d, t0, s, TRUE), t0 = "section_partial" => s \notin d.failed
    PROVE  Shows(r, u, g[s], full, c, s)
<1>1. /\ \A t : First(r, u, 0, s, t) <=> First(q, u, 0 + 1, s, t)
      /\ Quiet(r, u, 0, s) <=> Quiet(q, u, 0 + 1, s)
  BY TailTells
<1>2. First(q, u, 0, s, t0)
  BY HeadTells
<1>3. Builds(t0, d, s)
  BY <1>2 DEF Shows, Builds
<1>4. 0 + 1 = 1 /\ 1 \in 1..Len(q) /\ q[1] = <<t0, s>>
  OBVIOUS
<1>5. /\ \A t \in Types : First(q, u, 1, s, t) => t \in Follows[t0]
      /\ Quiet(q, u, 1, s) => g[s] = t0
  BY <1>4 DEF Chained
<1>6. /\ \A t \in Types : First(r, u, 0, s, t) => t \in Follows[t0]
      /\ Quiet(r, u, 0, s) => g[s] = t0
  BY <1>1, <1>4, <1>5
<1>7. /\ s \in c.manifest
      /\ t0 = "section_partial" => s \in c.partial
      /\ t0 \in {"section_ready", "section_failed"} => s \notin c.partial
      /\ t0 \notin {"section_partial", "section_ready", "section_failed"} =>
            (s \in c.partial <=> s \in d.partial)
  BY <1>3 DEF ShownBecomes, Builds
<1>8. ASSUME NEW t \in Follows[t0] PROVE Builds(t, c, s)
  <2>1. /\ t = "progress_update" => t0 = "section_started"
        /\ t = "section_failed" => t0 = "progress_update"
        /\ t \in MustDraft => t0 = "section_partial"
        /\ t = "media_frame_ready" => t0 \in {"section_ready", "section_failed"}
        /\ t # "section_started"
    BY FollowsIs
  <2>2. t \in MustDraft => s \in c.partial
    BY <1>7, <2>1
  <2>3. t \in NoDraft => s \notin c.partial
    BY <1>3, <1>7, <2>1 DEF NoDraft, Builds
  <2> QED
    BY <1>7, <2>2, <2>3 DEF Builds
<1>9. /\ t0 \in Drafts => s \in c.partial
      /\ t0 \notin Drafts \union {"section_final"} => s \notin c.partial
  <2>1. t0 \in Drafts => t0 = "section_partial" \/ t0 \in MustDraft
    BY DEF Drafts, MustDraft
  <2>2. t0 \in MustDraft => t0 \notin {"section_partial", "section_ready", "section_failed"}
    BY DEF MustDraft
  <2>3. t0 \notin Drafts \union {"section_final"} =>
            t0 \in {"section_ready", "section_failed"} \/ t0 \in NoDraft
    BY TypesAre DEF Drafts, NoDraft
  <2>4. t0 \notin Drafts \union {"section_final"} => t0 # "section_partial"
    BY DEF Drafts
  <2> QED
    BY <1>3, <1>7, <2>1, <2>2, <2>3, <2>4 DEF Builds
<1>10. s \in full /\ s \notin c.failed =>
          s \in c.sections \/ Pends(r, u, <<"section_ready", s>>)
  <2>1. CASE t0 = "section_ready"
    BY <2>1 DEF ShownBecomes
  <2>2. CASE t0 = "section_failed"
    BY <2>2 DEF ShownBecomes
  <2>3. CASE t0 \notin {"section_ready", "section_failed"}
    <3>1. c.sections = d.sections /\ (s \notin c.failed => s \notin d.failed)
      BY <2>3 DEF ShownBecomes
    <3>2. Pends(q, u, <<"section_ready", s>>) => Pends(r, u, <<"section_ready", s>>)
      BY <2>3, TailPends
    <3> QED
      BY <3>1, <3>2 DEF Shows
  <2> QED
    BY <2>1, <2>2, <2>3
<1>11. ASSUME NEW t \in Types, First(r, u, 0, s, t) PROVE Builds(t, c, s)
  BY <1>6, <1>8, <1>11
<1>12. Quiet(r, u, 0, s) =>
          /\ s \in c.manifest <=> g[s] # "none"
          /\ g[s] \in Drafts => s \in c.partial
          /\ g[s] \notin Drafts \union {"section_final"} => s \notin c.partial
  BY <1>6, <1>7, <1>9
<1> QED
  BY <1>10, <1>11, <1>12 DEF Shows, Builds


-----------------------------------------------------------------------------
(* A section that failed does no more than report its media.               *)
OnlyMedia(q, i, s) ==
    \A j \in (i+1)..Len(q), t \in Types : q[j] = <<t, s>> => t = "media_frame_ready"

(* What is told in a queue is so: full are the ready sections, g the       *)
(* stages.                                                                 *)
Queued(q, full, g) ==
    \A i \in 1..Len(q), s \in Sections :
       /\ q[i] # <<"none", s>>
       /\ q[i] = <<"section_ready", s>> => s \in full
       /\ q[i] = <<"section_failed", s>> => g[s] \in Dead /\ OnlyMedia(q, i, s)

Grows(full, more, g, h) ==
    full \subseteq more /\ \A s \in Sections : g[s] \in Dead => h[s] \in Dead

LEMMA GrownQueued ==
    ASSUME NEW q, NEW full, NEW more, NEW g, NEW h, Queued(q, full, g), Grows(full, more, g, h)
    PROVE  Queued(q, more, h)
BY DEF Queued, Grows

LEMMA NothingQueued ==
    ASSUME NEW full, NEW g
    PROVE  Queued(<<>>, full, g) /\ \A s : OnlyMedia(<<>>, 0, s)
<1>1. Len(<<>>) = 0 /\ (\A i \in 1..0 : FALSE) /\ (\A i \in (0+1)..0 : FALSE)
  OBVIOUS
<1> QED
  BY <1>1 DEF Queued, OnlyMedia

LEMMA TailMedia ==
    ASSUME NEW q \in Seq(Events), q # <<>>, NEW i \in Nat, NEW s, OnlyMedia(q, i + 1, s)
    PROVE  OnlyMedia(Tail(q), i, s)
<1>1. ASSUME NEW j \in (i+1)..Len(Tail(q))
      PROVE  j + 1 \in ((i+1)+1)..Len(q) /\ Tail(q)[j] = q[j + 1]
  OBVIOUS
<1> QED
  BY <1>1 DEF OnlyMedia

LEMMA TailQueued ==
    ASSUME NEW q \in Seq(Events), q # <<>>, NEW full, NEW g, Queued(q, full, g)
    PROVE  Queued(Tail(q), full, g)
<1> DEFINE r == Tail(q)
<1>1. ASSUME NEW i \in 1..Len(r)
      PROVE  i \in Nat /\ i + 1 \in 1..Len(q) /\ r[i] = q[i + 1]
  OBVIOUS
<1>2. ASSUME NEW i \in 1..Len(r), NEW s \in Sections, OnlyMedia(q, i + 1, s)
      PROVE  OnlyMedia(r, i, s)
  BY <1>1, <1>2, TailMedia
<1> HIDE DEF r
<1>3. Queued(r, full, g)
  BY <1>1, <1>2 DEF Queued
<1> QED
  BY <1>3 DEF r

LEMMA AppendMedia ==
    ASSUME NEW q \in Seq(Events), NEW e \in Events, NEW r, r = Append(q, e), NEW i, NEW s,
           i \in 0..Len(q), OnlyMedia(q, i, s), \A t \in Types : e = <<t, s>> => t = "media_frame_ready"
    PROVE  OnlyMedia(r, i, s)
<1>1. /\ Len(q) \in Nat /\ Len(r) = Len(q) + 1 /\ r[Len(q) + 1] = e
      /\ \A k \in 1..Len(q) : r[k] = q[k]
  BY AppendIs
<1>2. \A j \in (i+1)..Len(r) : j = Len(q) + 1 \/ (j \in (i+1)..Len(q) /\ r[j] = q[j])
  BY <1>1
<1> QED
  BY <1>1, <1>2 DEF OnlyMedia

(* What an event published now says.                                       *)
Told(e, more, g, h) ==
    \A s \in Sections :
       /\ e # <<"none", s>>
       /\ e = <<"section_ready", s>> => s \in more
       /\ e = <<"section_failed", s>> => h[s] \in Dead
       /\ \A t \in Types : e = <<t, s>> /\ g[s] \in Dead => t = "media_frame_ready"

LEMMA AppendQueued ==
    ASSUME NEW q \in Seq(Events), NEW e \in Events, NEW r, r = Append(q, e),
           NEW full, NEW more, NEW g, NEW h,
           Queued(q, full, g), Grows(full, more, g, h), Told(e, more, g, h)
    PROVE  Queued(r, more, h)
<1>1. /\ Len(q) \in Nat /\ Len(r) = Len(q) + 1 /\ r[Len(q) + 1] = e
      /\ \A k \in 1..Len(q) : r[k] = q[k]
  BY AppendIs
<1>2. ASSUME NEW i \in 1..Len(r), NEW s \in Sections
      PROVE  /\ r[i] # <<"none", s>>
             /\ r[i] = <<"section_ready", s>> => s \in more
             /\ r[i] = <<"section_failed", s>> => h[s] \in Dead /\ OnlyMedia(r, i, s)
  <2>1. CASE i = Len(q) + 1
    <3>1. r[i] = e
      BY <1>1, <2>1
    <3>2. \A j \in (i+1)..Len(r) : FALSE
      BY <1>1, <2>1
    <3> QED
      BY <3>1, <3>2 DEF Told, OnlyMedia
  <2>2. CASE i \in 1..Len(q)
    <3>1. r[i] = q[i] /\ i \in 0..Len(q)
      BY <1>1, <2>2
    <3>2. /\ q[i] # <<"none", s>>
          /\ q[i] = <<"section_ready", s>> => s \in full
          /\ q[i] = <<"section_failed", s>> => g[s] \in Dead /\ OnlyMedia(q, i, s)
      BY <2>2 DEF Queued
    <3>3. g[s] \in Dead /\ OnlyMedia(q, i, s) => OnlyMedia(r, i, s)
      BY <3>1, AppendMedia DEF Told
    <3> QED
      BY <3>1, <3>2, <3>3 DEF Grows
  <2>3. i = Len(q) + 1 \/ i \in 1..Len(q)
    BY <1>1
  <2> QED
    BY <2>1, <2>2, <2>3
<1> QED
  BY <1>2 DEF Queued

-----------------------------------------------------------------------------
(* No document of the row takes back what a view was shown before: nothing *)
(* ready is missing, and nothing that failed for the row or by its signal. *)
(* The one exception is a row whose document was lost to a restart.        *)
Lost(d) == d = EmptyDocument("failed")

KeptBy(g, v, d) ==
    \/ Lost(d)
    \/ /\ v.sections \subseteq d.sections
       /\ \A s \in v.failed : s \in d.failed \/ g[s] = "failed"
       /\ v.status \in Outcomes => d.status \in Outcomes /\ d.partial = v.partial

LEMMA LostIs ==
    ASSUME NEW d \in Document, Lost(d)
    PROVE  d.status = "failed" /\ d.manifest = {}
BY DEF Lost, EmptyDocument

LEMMA KeptByItself == ASSUME NEW g, NEW d PROVE KeptBy(g, d, d)
BY DEF KeptBy

LEMMA KeptOnward ==
    ASSUME NEW g, NEW v, NEW d \in Document, NEW e, KeptBy(g, v, d), d.status \notin Outcomes,
           d.sections \subseteq e.sections, d.failed \subseteq e.failed
    PROVE  KeptBy(g, v, e) /\ v.status \notin Outcomes
<1>1. ~Lost(d)
  BY LostIs DEF Outcomes
<1> QED
  BY <1>1 DEF KeptBy

SlotIsOver(v, s) == SlotStatuses(v, s) \subseteq {"ready", "failed"}

(* A refresh leaves a slot that is ready or failed one of the two.         *)
LEMMA SnapshotStays ==
    ASSUME NEW w \in View, NEW d \in Document, KeptBy(w.signals, w.document, d),
           NEW s \in d.manifest, s \in w.document.manifest,
           SlotIsOver(w, s)
    PROVE  SlotIsOver(Snapshot(w, d), s)
<1> DEFINE n == Snapshot(w, d)
<1>1. n.document = d /\ n.signals = w.signals
  BY DEF Snapshot, View
<1>2. ~Lost(d)
  BY LostIs
<1>3. /\ w.document.sections \subseteq d.sections
      /\ \A x \in w.document.failed : x \in d.failed \/ w.signals[x] = "failed"
      /\ w.document.status \in Outcomes => d.status \in Outcomes /\ d.partial = w.document.partial
  BY <1>2 DEF KeptBy
<1>4. \/ s \in w.document.sections
      \/ s \in w.document.failed
      \/ w.signals[s] \in {"ready", "failed"}
      \/ /\ w.signals[s] = "none" /\ s \notin w.document.partial
         /\ w.document.status \in Outcomes
  BY DEF SlotIsOver, SlotStatuses, Outcomes
<1>5. \/ s \in d.sections \/ s \in d.failed \/ w.signals[s] \in {"ready", "failed"}
      \/ w.signals[s] = "none" /\ s \notin d.partial /\ d.status \in Outcomes
  BY <1>3, <1>4
<1> QED
  BY <1>1, <1>5 DEF SlotIsOver, SlotStatuses, Outcomes


(* An event touches nothing but the slot of its section.                   *)
Folded(n, w, t, s, ok) ==
    /\ n \in View
    /\ ShownBecomes(n.document, w.document, t, s, ok)
    /\ n.signals[s] = Signalled(w.signals[s], t)
    /\ \A x \in Sections \ {s} : n.signals[x] = w.signals[x]

LEMMA AppliedIs ==
    ASSUME NEW w \in View, NEW t \in Types, NEW s \in Sections, NEW ok \in BOOLEAN
    PROVE  Folded(Applied(w, <<t, s>>, ok), w, t, s, ok)
<1> DEFINE n == Applied(w, <<t, s>>, ok)
           c == Shown(w.document, t, s, ok)
           x == Signalled(w.signals[s], t)
           g == [w.signals EXCEPT ![s] = x]
<1>1. w.document \in Document /\ w.signals \in [Sections -> Signals]
  BY DEF View
<1>2. n = [document |-> c, signals |-> g]
  BY DEF Applied
<1>3. ShownBecomes(c, w.document, t, s, ok)
  BY <1>1, ShownIs
<1>4. x \in Signals
  BY <1>1, SignalledIs
<1> HIDE DEF c, x
<1>5. c \in Document
  BY <1>3 DEF ShownBecomes
<1>6. /\ g \in [Sections -> Signals] /\ g[s] = x
      /\ \A y \in Sections \ {s} : g[y] = w.signals[y]
  BY <1>1, <1>4
<1> HIDE DEF g
<1>7. n \in View /\ n.document = c /\ n.signals = g
  BY <1>2, <1>5, <1>6 DEF View
<1> HIDE DEF n
<1>8. Folded(n, w, t, s, ok)
  BY <1>3, <1>6, <1>7 DEF Folded, x
<1> QED
  BY <1>8 DEF n

(* Folding a late event in leaves a slot that is ready or failed one of    *)
(* the two.                                                                *)
LEMMA FoldStays ==
    ASSUME NEW w \in View, NEW n, NEW t \in Types, NEW s \in Sections, NEW ok \in BOOLEAN,
           Folded(n, w, t, s, ok), w.document.status \notin Outcomes,
           NEW y \in Sections, y \in w.document.manifest, y \in n.document.manifest,
           SlotIsOver(w, y),
           y = s => t \notin SavedEvents
    PROVE  SlotIsOver(n, y)
<1> DEFINE c == n.document
           d == w.document
<1>1. \/ y \in d.sections \/ y \in d.failed
      \/ y \notin d.sections /\ y \notin d.failed /\ w.signals[y] \in {"ready", "failed"}
  BY DEF SlotIsOver, SlotStatuses, Outcomes
<1>2. /\ ShownBecomes(c, d, t, s, ok)
      /\ n.signals[s] = Signalled(w.signals[s], t)
      /\ y # s => n.signals[y] = w.signals[y]
      /\ w.signals[y] \in Signals
  BY DEF Folded, View
<1>3. CASE y # s
  <2>1. y \in c.sections <=> y \in d.sections
    BY <1>2, <1>3 DEF ShownBecomes
  <2>2. y \in c.failed <=> y \in d.failed
    BY <1>2, <1>3 DEF ShownBecomes
  <2> QED
    BY <1>1, <1>2, <1>3, <2>1, <2>2 DEF SlotIsOver, SlotStatuses
<1>4. CASE y = s /\ t = "section_failed"
  <2>1. y \in c.failed
    BY <1>2, <1>4 DEF ShownBecomes
  <2> QED
    BY <2>1 DEF SlotIsOver, SlotStatuses
<1>5. CASE y = s /\ t # "section_failed"
  <2>1. t \notin SavedEvents /\ t \notin DOMAIN SectionSignal
    BY <1>5, <1>2, SignalledIs
  <2>2. t # "section_started" /\ t # "section_partial" /\ t # "section_ready"
    BY <2>1 DEF SavedEvents
  <2>3. c.sections = d.sections /\ c.failed = d.failed
    BY <1>2, <1>5, <2>2 DEF ShownBecomes
  <2>4. w.signals[y] \in {"ready", "failed"} => n.signals[y] = w.signals[y]
    BY <1>2, <1>5, <2>1, SignalledIs
  <2> QED
    BY <1>1, <2>3, <2>4 DEF SlotIsOver, SlotStatuses
<1> QED
  BY <1>3, <1>4, <1>5

(* What the view holds is kept by the row's document when an event that    *)
(* says so is folded in.                                                   *)
LEMMA FoldKept ==
    ASSUME NEW w \in View, NEW n, NEW t \in Types, NEW s \in Sections, NEW ok \in BOOLEAN,
           Folded(n, w, t, s, ok), w.document.status \notin Outcomes, NEW d,
           KeptBy(w.signals, w.document, d), t = "section_ready" => s \in d.sections,
           w.signals[s] = "failed" => t = "media_frame_ready"
    PROVE  KeptBy(n.signals, n.document, d) /\ n.document.status \notin Outcomes
<1> DEFINE c == n.document
           v == w.document
<1>1. /\ ShownBecomes(c, v, t, s, ok)
      /\ n.signals[s] = Signalled(w.signals[s], t) /\ w.signals[s] \in Signals
      /\ \A x \in Sections \ {s} : n.signals[x] = w.signals[x]
      /\ c.failed \subseteq Sections
  <2>1. n \in View
    BY DEF Folded
  <2> QED
    BY <2>1 DEF Folded, View, Document
<1>2. c.status \notin Outcomes
  BY <1>1 DEF ShownBecomes, Outcomes
<1>3. CASE Lost(d)
  BY <1>2, <1>3 DEF KeptBy
<1>4. CASE ~Lost(d)
  <2>1. /\ v.sections \subseteq d.sections
        /\ \A x \in v.failed : x \in d.failed \/ w.signals[x] = "failed"
    BY <1>4 DEF KeptBy
  <2>2. c.sections \subseteq v.sections \union (IF t = "section_ready" THEN {s} ELSE {})
    BY <1>1 DEF ShownBecomes
  <2>3. c.sections \subseteq d.sections
    BY <2>1, <2>2
  <2>4. "media_frame_ready" \notin DOMAIN SectionSignal
    BY DEF SectionSignal
  <2>5. /\ t = "section_failed" => n.signals[s] = "failed"
        /\ w.signals[s] = "failed" => n.signals[s] = "failed"
    BY <1>1, <2>4, SignalledIs
  <2>6. ASSUME NEW x \in c.failed PROVE x \in d.failed \/ n.signals[x] = "failed"
    <3>1. x \in v.failed \/ (x = s /\ t = "section_failed")
      BY <1>1 DEF ShownBecomes
    <3>2. x \in Sections
      BY <1>1
    <3> QED
      BY <1>1, <2>1, <2>5, <3>1, <3>2
  <2> QED
    BY <1>2, <2>3, <2>6 DEF KeptBy
<1> QED
  BY <1>2, <1>3, <1>4


-----------------------------------------------------------------------------
(* The invariant.                                                          *)
Q == queue[Reader]

(* The job saves before it publishes, a section's events one at a time,    *)
(* and the row's document before the row's status.                         *)
JobInv ==
    /\ doc.status # "none"
    /\ status \in Outcomes => doc.status \in Outcomes
    /\ doc.status \in Outcomes \/ ~alive => unsent = {}
    /\ \A t \in Types, s \in Sections : <<t, s>> \in unsent => t \in SavedEvents /\ stage[s] = t
    /\ \A s \in Sections : <<"section_ready", s>> \in unsent => s \in doc.sections

(* While it runs, the document is what the stages say.                     *)
DraftInv ==
    doc.status \notin Outcomes =>
      /\ doc.failed = {}
      /\ \A s \in Sections : /\ s \in doc.manifest <=> stage[s] # "none"
                             /\ s \in doc.partial <=> stage[s] \in Drafts

(* Requests are out only while the view waits for them, and it listens     *)
(* only while it is open; what nobody hears is not queued.                 *)
PhaseInv ==
    /\ phase \notin Refreshing => reply = NoReply
    /\ phase # "open" => ~Subscribing
    /\ ~Subscribing \/ ~alive => Q = <<>>

(* An outcome ended the stream, so what is read from then on is final.     *)
FinalInv ==
    ~revised =>
      /\ phase \in {"finalizing", "finalized"} => status \in Outcomes
      /\ phase = "finalizing" => /\ reply.detail \in {"none", status}
                                 /\ reply.document \in {NoDocument, doc}
      /\ phase = "finalized" => view.document = doc /\ detail = status

QueuedInv == Queued(Q, doc.sections, stage)

(* A failure that the view was told of is true, and nothing but media      *)
(* reports of the section is still to come.                                *)
SignalInv ==
    \A s \in Sections : view.signals[s] = "failed" => stage[s] \in Dead /\ OnlyMedia(Q, 0, s)

(* The row keeps what the view shows, and so does a reply on its way; a    *)
(* view that shows a document that is over has only its outcome to hear.   *)
KeptInv ==
    /\ KeptBy(view.signals, view.document, doc)
    /\ reply.document # NoDocument => /\ KeptBy(view.signals, view.document, reply.document)
                                      /\ KeptBy(view.signals, reply.document, doc)
    /\ view.document.status \in Outcomes => \A i \in 1..Len(Q) : EndsStream(Q[i])

Running == alive /\ doc.status \notin Outcomes

ChainInv == Running => Chained(Q, unsent, stage)

(* The document the view shows, or will once the other request is answered.*)
Base == IF reply.document # NoDocument THEN reply.document ELSE view.document

Current == /\ phase \notin Over \union {"idle", "finalizing"}
           /\ phase = "loading" => reply.document # NoDocument

(* A view that missed nothing lags behind the row by what is on its way.   *)
FollowInv ==
    Running /\ ~missed /\ Current =>
      \A s \in Sections : Shows(Q, unsent, stage[s], doc.sections, Base, s)

IInv == /\ StreamInv /\ ViewTypeOK /\ JobInv /\ DraftInv /\ PhaseInv /\ FinalInv
        /\ QueuedInv /\ SignalInv /\ KeptInv /\ ChainInv /\ FollowInv

-----------------------------------------------------------------------------
(* Facts that most steps need.                                             *)
LEMMA ReaderIs ==
    ASSUME StreamInv
    PROVE  /\ Reader \in Clients /\ Q \in Seq(Events)
           /\ Subscribing <=> at[Reader] \in Listening
           /\ status \in Statuses
           /\ \A i \in 1..Len(Q) : Q[i] \in Events
<1>1. Reader \in Clients
  BY ReaderAssumption
<1>2. Q \in Seq(Events)
  BY <1>1 DEF StreamInv, StreamTypeOK, Q
<1>3. status \in Statuses
  BY DEF StreamInv, StreamTypeOK, TypeOK, Statuses
<1> QED
  BY <1>1, <1>2, <1>3 DEF Subscribing, Listening

LEMMA TypesHold ==
    ASSUME ViewTypeOK
    PROVE  /\ doc \in Document /\ stage \in [Sections -> Types] /\ unsent \subseteq SectionEvents
           /\ view \in View /\ view.document \in Document
           /\ view.signals \in [Sections -> Signals]
           /\ reply.document \in Document /\ reply.detail \in {"none"} \union Statuses
BY DEF ViewTypeOK, View, Types

(* While the job runs, no outcome was announced and none is in the queue.  *)
LEMMA NoneAnnounced ==
    ASSUME IInv, doc.status \notin Outcomes
    PROVE  /\ status \notin Outcomes /\ announced = <<>>
           /\ \A i \in 1..Len(Q) : Q[i] \in SectionEvents /\ ~EndsStream(Q[i])
<1>1. status \notin Outcomes
  BY DEF IInv, JobInv
<1>2. announced = <<>>
  BY <1>1 DEF IInv, StreamInv, LifecycleInv
<1>3. ASSUME NEW i \in 1..Len(Q) PROVE Q[i] \in SectionEvents /\ ~EndsStream(Q[i])
  <2>1. ~EndsStream(Q[i])
    BY <1>2, ReaderAssumption DEF IInv, StreamInv, QueueInv, Q
  <2>2. Q[i] \in Events
    BY ReaderIs DEF IInv
  <2> QED
    BY <2>1, <2>2, SectionEventsAre
<1> QED
  BY <1>1, <1>2, <1>3

(* A published event is in the queue of whoever listens.                   *)
LEMMA ReaderHears ==
    ASSUME StreamInv, NEW e \in Events, Publish(e)
    PROVE  /\ Subscribing => Q' = Append(Q, e)
           /\ ~Subscribing => Q' = Q
BY ReaderAssumption DEF Publish, StreamInv, StreamTypeOK, Subscribed, Subscribing, Q

LEMMA SentIs ==
    ASSUME StreamInv, missed \in BOOLEAN, NEW e \in SectionEvents, Sent(e)
    PROVE  /\ StreamInv'
           /\ UNCHANGED <<status, announced, at, revised>>
           /\ Subscribing => Q' = Append(Q, e) /\ missed' = missed
           /\ ~Subscribing => /\ Q' = Q
                              /\ ~missed' => ~missed /\ phase \notin {"open", "hidden", "waiting"}
                                                          \union Refreshing
           /\ missed' \in BOOLEAN
<1>1. e \in ProgressEvents /\ e \in Events
  BY SectionEventsAre
<1>2. /\ Publish(e) /\ Passes
      /\ UNCHANGED <<lifecycleVars, at, current, told, progress, revised>>
  BY DEF Sent
<1>3. progress' \in 0..MaxProgress
  BY <1>2 DEF StreamInv, StreamTypeOK
<1>4. StreamInv'
  BY <1>1, <1>2, <1>3, EventKeeps
<1>5. (Subscribing => Q' = Append(Q, e)) /\ (~Subscribing => Q' = Q)
  BY <1>1, <1>2, ReaderHears
<1>6. UNCHANGED <<status, announced, at, revised>>
  BY <1>2 DEF lifecycleVars
<1>7. missed' = (missed \/ (~Subscribing /\ phase \in {"open", "hidden", "waiting"} \union Refreshing))
  BY <1>2 DEF Passes
<1>8. missed' \in BOOLEAN
  BY <1>7
<1>9. Subscribing => missed' = missed
  BY <1>7
<1>10. ~Subscribing /\ ~missed' =>
          ~missed /\ phase \notin {"open", "hidden", "waiting"} \union Refreshing
  BY <1>7
<1> QED
  BY <1>4, <1>5, <1>6, <1>8, <1>9, <1>10

LEMMA DocumentConstants ==
    /\ NoDocument \in Document /\ InitialDocument \in Document
    /\ EmptyDocument("failed") \in Document
    /\ NoDocument.status = "none" /\ InitialDocument.status = "pending"
    /\ EmptyDocument("failed").status = "failed"
    /\ \A x : /\ EmptyDocument(x).manifest = {} /\ EmptyDocument(x).sections = {}
              /\ EmptyDocument(x).partial = {} /\ EmptyDocument(x).failed = {}
    /\ NoReply.detail = "none" /\ NoReply.document = NoDocument
    /\ NoReply \in [detail : {"none"} \union Statuses, document : Document]
<1>1. \A x : /\ EmptyDocument(x).status = x
             /\ EmptyDocument(x).manifest = {} /\ EmptyDocument(x).sections = {}
             /\ EmptyDocument(x).partial = {} /\ EmptyDocument(x).failed = {}
             /\ x \in DocumentStatus => EmptyDocument(x) \in Document
  BY DEF EmptyDocument, Document
<1>2. {"none", "pending", "failed"} \subseteq DocumentStatus
  BY DEF DocumentStatus
<1>3. NoDocument \in Document
  BY <1>1, <1>2 DEF NoDocument
<1> QED
  BY <1>1, <1>2, <1>3 DEF NoDocument, InitialDocument, NoReply

LEMMA InitIInv == ClientInit => IInv
<1> SUFFICES ASSUME ClientInit PROVE IInv
  OBVIOUS
<1> USE DEF ClientInit
<1>1. StreamInv
  BY InitStreamInv
<1>2. Q = <<>> /\ ~Subscribing
  BY ReaderAssumption DEF StreamInit, Q, Subscribing
<1>3. ViewTypeOK
  <2>1. view \in View
    BY DocumentConstants DEF EmptyView, View, Signals
  <2>2. stage \in [Sections -> DOMAIN Follows]
    BY TypesAre DEF Types
  <2>3. attempts \in 0..MaxReconnectAttempts /\ faults \in 0..MaxFaults
    BY AttemptsAssumption, BoundsAssumption
  <2> QED
    BY <2>1, <2>2, <2>3, DocumentConstants DEF ViewTypeOK
<1>4. JobInv /\ DraftInv
  BY DocumentConstants DEF JobInv, DraftInv, StreamInit, Init, Outcomes, Drafts, InitialDocument
<1>5. PhaseInv
  BY <1>2 DEF PhaseInv
<1>6. FinalInv
  BY DEF FinalInv
<1>7. QueuedInv
  BY <1>2, NothingQueued DEF QueuedInv
<1>8. SignalInv
  BY DEF SignalInv, EmptyView
<1>9. KeptInv
  <2>1. view.document = NoDocument
    BY DEF EmptyView
  <2>2. KeptBy(view.signals, NoDocument, doc)
    BY DocumentConstants DEF KeptBy, NoDocument, Outcomes
  <2> QED
    BY <2>1, <2>2, DocumentConstants DEF KeptInv, Outcomes
<1>10. ChainInv
  BY <1>2, NothingChained DEF ChainInv
<1>11. FollowInv
  BY DEF FollowInv, Current
<1> QED
  BY <1>1, <1>3, <1>4, <1>5, <1>6, <1>7, <1>8, <1>9, <1>10, <1>11 DEF IInv


-----------------------------------------------------------------------------
(* The steps of the job and of the row.                                    *)
LEMMA StreamStands ==
    ASSUME StreamInv, UNCHANGED vars
    PROVE  /\ StreamInv' /\ Q' = Q /\ (Subscribing' <=> Subscribing)
           /\ UNCHANGED <<status, announced, at, revised>>
<1>1. StreamInv'
  BY NextKeeps
<1>2. UNCHANGED <<status, announced, at, queue, revised>>
  BY DEF vars, lifecycleVars, streamVars
<1> QED
  BY <1>1, <1>2 DEF Q, Subscribing

LEMMA SectionMovesKeeps ==
    ASSUME IInv, NEW s0 \in Sections, SectionMoves(s0)
    PROVE  IInv'
<1>0. /\ StreamInv /\ ViewTypeOK /\ JobInv /\ DraftInv /\ PhaseInv /\ FinalInv
      /\ QueuedInv /\ SignalInv /\ KeptInv /\ ChainInv /\ FollowInv
  BY DEF IInv
<1>1. PICK t0 \in Follows[stage[s0]] :
         /\ stage' = [stage EXCEPT ![s0] = t0]
         /\ doc' = Saved(doc, t0, s0)
         /\ IF t0 \in SavedEvents
            THEN unsent' = unsent \union {<<t0, s0>>} /\ UNCHANGED <<vars, missed>>
            ELSE Sent(<<t0, s0>>) /\ UNCHANGED unsent
  BY DEF SectionMoves
<1>2. /\ alive /\ status = "running" /\ doc.status \notin Outcomes
      /\ \A event \in unsent : event[2] # s0
      /\ UNCHANGED <<alive, phase, reply, detail, view, attempts, faults>>
  BY DEF SectionMoves, viewVars
<1>3. /\ doc \in Document /\ stage \in [Sections -> Types] /\ unsent \subseteq SectionEvents
      /\ view \in View /\ view.document \in Document /\ missed \in BOOLEAN
  BY <1>0, TypesHold DEF ViewTypeOK
<1>4. stage[s0] \in Types /\ t0 \in Types /\ t0 # "none"
  BY <1>3, FollowsIs
<1>5. \A t \in Types : <<t, s0>> \notin unsent
  BY <1>2
<1>6. Becomes(doc', doc, t0, s0) /\ (t0 \notin SavedEvents => doc' = doc)
  BY <1>1, <1>3, <1>4, SavedIs
<1>7. /\ stage' \in [Sections -> Types] /\ stage'[s0] = t0
      /\ \A s \in Sections \ {s0} : stage'[s] = stage[s]
  BY <1>1, <1>3, <1>4
<1>8. /\ doc' \in Document /\ doc'.status # "none" /\ doc'.status \notin Outcomes
      /\ doc.sections \subseteq doc'.sections /\ doc.failed = {} /\ doc'.failed = {}
  <2>1. doc.status # "none" /\ doc.failed = {}
    BY <1>0, <1>2 DEF JobInv, DraftInv
  <2> QED
    BY <1>2, <1>6, <2>1 DEF Becomes, Outcomes
<1>9. /\ StreamInv' /\ UNCHANGED <<status, at, revised>> /\ missed' \in BOOLEAN
      /\ \/ /\ t0 \in SavedEvents /\ unsent' = unsent \union {<<t0, s0>>}
            /\ Q' = Q /\ missed' = missed
         \/ /\ t0 \notin SavedEvents /\ unsent' = unsent
            /\ Subscribing /\ Q' = Append(Q, <<t0, s0>>) /\ missed' = missed
         \/ /\ t0 \notin SavedEvents /\ unsent' = unsent
            /\ ~Subscribing /\ Q' = Q
            /\ ~missed' => ~missed /\ phase \notin {"open", "hidden", "waiting"} \union Refreshing
  <2>1. CASE t0 \in SavedEvents
    BY <1>0, <1>1, <1>3, <2>1, StreamStands
  <2>2. CASE t0 \notin SavedEvents
    <3>1. Sent(<<t0, s0>>) /\ UNCHANGED unsent /\ <<t0, s0>> \in SectionEvents
      BY <1>1, <1>4, <2>2, SectionEventsAre
    <3> QED
      BY <1>0, <1>3, <2>2, <3>1, SentIs
  <2> QED
    BY <2>1, <2>2
<1>10. /\ Subscribing' <=> Subscribing
       /\ Q \in Seq(Events) /\ <<t0, s0>> \in Events /\ <<t0, s0>> \in SectionEvents
       /\ ~Subscribing => Q = <<>>
  BY <1>0, <1>4, <1>9, ReaderIs, SectionEventsAre DEF PhaseInv, Subscribing
<1>11. ViewTypeOK'
  <2>1. unsent' \subseteq SectionEvents
    BY <1>3, <1>9, <1>10
  <2> QED
    BY <1>0, <1>2, <1>7, <1>8, <1>9, <2>1 DEF ViewTypeOK, Types
<1>12. JobInv'
  <2>1. ASSUME NEW t \in Types, NEW s \in Sections, <<t, s>> \in unsent'
        PROVE  /\ t \in SavedEvents /\ stage'[s] = t
               /\ t = "section_ready" => s \in doc'.sections
    <3>1. CASE <<t, s>> \in unsent
      <4>1. s # s0
        BY <1>5, <3>1
      <4> QED
        BY <1>0, <1>7, <1>8, <3>1, <4>1 DEF JobInv
    <3>2. CASE t0 \in SavedEvents /\ t = t0 /\ s = s0
      BY <1>6, <1>7, <3>2 DEF Becomes
    <3> QED
      BY <1>9, <2>1, <3>1, <3>2
  <2>2. "section_ready" \in Types
    BY TypesAre
  <2> QED
    BY <1>0, <1>2, <1>8, <1>9, <2>1, <2>2 DEF JobInv, Outcomes
<1>13. DraftInv'
  <2>1. ASSUME NEW s \in Sections
        PROVE  /\ s \in doc'.manifest <=> stage'[s] # "none"
               /\ s \in doc'.partial <=> stage'[s] \in Drafts
    <3>1. /\ s \in doc.manifest <=> stage[s] # "none"
          /\ s \in doc.partial <=> stage[s] \in Drafts
      BY <1>0, <1>2 DEF DraftInv
    <3>2. CASE s # s0
      <4>1. s \in doc'.manifest <=> s \in doc.manifest
        BY <1>6, <3>2 DEF Becomes
      <4>2. s \in doc'.partial <=> s \in doc.partial
        BY <1>6, <3>2 DEF Becomes
      <4> QED
        BY <1>7, <3>1, <3>2, <4>1, <4>2
    <3>3. CASE s = s0
      <4>1. s \in doc'.manifest
        BY <1>4, <1>6, <3>1, <3>3, FollowsIs DEF Becomes
      <4>2. CASE t0 \in {"section_partial", "section_final", "section_ready"}
        BY <1>4, <1>6, <1>7, <3>3, <4>1, <4>2 DEF Becomes, Drafts
      <4>3. CASE t0 \notin {"section_partial", "section_final", "section_ready"}
        <5>1. s \in doc'.partial <=> stage[s] \in Drafts
          BY <1>6, <3>1, <4>3 DEF Becomes
        <5>2. t0 \in MustDraft \/ t0 \in {"section_started", "progress_update",
                                          "section_failed", "media_frame_ready"}
          BY <1>4, <4>3, TypesAre DEF MustDraft
        <5>3. stage[s] \in Drafts <=> t0 \in Drafts
          BY <1>4, <3>3, <5>2, FollowsIs DEF Drafts, MustDraft
        <5> QED
          BY <1>4, <1>7, <3>3, <4>1, <5>1, <5>3
      <4> QED
        BY <4>2, <4>3
    <3> QED
      BY <3>2, <3>3
  <2> QED
    BY <1>8, <2>1 DEF DraftInv
<1>14. PhaseInv'
  BY <1>0, <1>2, <1>9, <1>10 DEF PhaseInv
<1>15. FinalInv'
  BY <1>0, <1>2, <1>9 DEF FinalInv, Outcomes
<1>16. QueuedInv' /\ SignalInv'
  <2>1. Grows(doc.sections, doc'.sections, stage, stage')
    <3>1. stage[s0] \in Dead => t0 \in Dead
      BY <1>4, FollowsIs DEF Dead
    <3> QED
      BY <1>7, <1>8, <3>1 DEF Grows
  <2>2. Told(<<t0, s0>>, doc'.sections, stage, stage')
    <3>1. t0 = "section_ready" => s0 \in doc'.sections
      BY <1>6 DEF Becomes
    <3>2. t0 = "section_failed" => stage'[s0] \in Dead
      BY <1>7 DEF Dead
    <3>3. stage[s0] \in Dead => t0 = "media_frame_ready"
      BY <1>4, FollowsIs
    <3> QED
      BY <1>4, <3>1, <3>2, <3>3 DEF Told
  <2>3. Q' = Q \/ Q' = Append(Q, <<t0, s0>>)
    BY <1>9
  <2>4. Queued(Q', doc'.sections, stage')
    <3>1. Queued(Q, doc.sections, stage)
      BY <1>0 DEF QueuedInv
    <3>2. CASE Q' = Q
      BY <2>1, <3>1, <3>2, GrownQueued
    <3>3. CASE Q' = Append(Q, <<t0, s0>>)
      BY <1>10, <2>1, <2>2, <3>1, <3>3, AppendQueued
    <3> QED
      BY <2>3, <3>2, <3>3
  <2>5. ASSUME NEW s \in Sections, view.signals[s] = "failed"
        PROVE  stage'[s] \in Dead /\ OnlyMedia(Q', 0, s)
    <3>1. stage[s] \in Dead /\ OnlyMedia(Q, 0, s)
      BY <1>0, <2>5 DEF SignalInv
    <3>2. CASE Q' = Append(Q, <<t0, s0>>)
      <4>1. \A t \in Types : <<t0, s0>> = <<t, s>> => t = "media_frame_ready"
        BY <2>2, <3>1 DEF Told
      <4>2. 0 \in 0..Len(Q)
        BY <1>10
      <4> QED
        BY <1>10, <2>1, <3>1, <3>2, <4>1, <4>2, AppendMedia DEF Grows
    <3> QED
      BY <2>1, <2>3, <3>1, <3>2 DEF Grows
  <2> QED
    BY <1>2, <2>4, <2>5 DEF QueuedInv, SignalInv
<1>17. KeptInv'
  <2>1. KeptBy(view.signals, view.document, doc') /\ view.document.status \notin Outcomes
    BY <1>0, <1>2, <1>3, <1>8, KeptOnward DEF KeptInv
  <2>2. reply.document # NoDocument => KeptBy(view.signals, reply.document, doc')
    BY <1>0, <1>2, <1>3, <1>8, KeptOnward DEF KeptInv
  <2> QED
    BY <1>0, <1>2, <2>1, <2>2 DEF KeptInv
<1>18. ChainInv'
  <2>1. Chained(Q, unsent, stage)
    BY <1>0, <1>2 DEF ChainInv, Running
  <2>2. CASE Q' = Q /\ unsent' = unsent \union {<<t0, s0>>}
    <3>1. Chained(Q, unsent \union {<<t0, s0>>}, stage')
      BY <1>4, <1>5, <1>7, <1>10, <2>1, SavedChained
    <3> QED
      BY <2>2, <3>1 DEF ChainInv
  <2>3. CASE Q' = Append(Q, <<t0, s0>>) /\ unsent' = unsent
    <3>1. Chained(Append(Q, <<t0, s0>>), unsent, stage')
      BY <1>4, <1>5, <1>7, <1>10, <2>1, SentChained
    <3> QED
      BY <2>3, <3>1 DEF ChainInv
  <2>4. CASE Q' = <<>>
    BY <2>4, NothingChained DEF ChainInv
  <2> QED
    BY <1>9, <1>10, <2>2, <2>3, <2>4
<1>19. FollowInv'
  <2>1. SUFFICES ASSUME ~missed', Current', NEW s \in Sections
                 PROVE  Shows(Q', unsent', stage'[s], doc'.sections, Base', s)
    BY DEF FollowInv
  <2>2. Base' = Base /\ Current
    BY <1>2, <2>1 DEF Base, Current
  <2>3. ~missed /\ (t0 \in SavedEvents \/ Subscribing)
    <3>1. phase \in {"open", "hidden", "waiting"} \union Refreshing
      BY <1>0, <2>2 DEF Current, ViewTypeOK, Refreshing, Over
    <3> QED
      BY <1>9, <2>1, <3>1
  <2>4. Shows(Q, unsent, stage[s], doc.sections, Base, s)
    BY <1>0, <1>2, <2>2, <2>3 DEF FollowInv, Running
  <2>5. stage[s] \in Types /\ MovesOn(stage[s], stage'[s], s, s0, t0, unsent)
    BY <1>3, <1>5, <1>7 DEF MovesOn
  <2>6. s \in doc'.sections => s \in doc.sections \/ (s = s0 /\ t0 = "section_ready")
    BY <1>6 DEF Becomes
  <2>7. CASE t0 \in SavedEvents
    <3>1. Q' = Q /\ unsent' = unsent \union {<<t0, s0>>}
      BY <1>9, <2>7
    <3>2. Shows(Q, unsent', stage'[s], doc'.sections, Base, s)
      BY <1>4, <1>10, <2>4, <2>5, <2>6, <3>1, SavedShows
    <3> QED
      BY <2>2, <3>1, <3>2
  <2>8. CASE t0 \notin SavedEvents
    <3>1. Q' = Append(Q, <<t0, s0>>) /\ unsent' = unsent /\ doc' = doc
      BY <1>6, <1>9, <2>3, <2>8
    <3>2. Shows(Q', unsent, stage'[s], doc.sections, Base, s)
      BY <1>4, <1>10, <2>4, <2>5, <3>1, SentShows
    <3> QED
      BY <2>2, <3>1, <3>2
  <2> QED
    BY <2>7, <2>8
<1> QED
  BY <1>9, <1>11, <1>12, <1>13, <1>14, <1>15, <1>16, <1>17, <1>18, <1>19 DEF IInv


LEMMA EventPublishedKeeps ==
    ASSUME IInv, EventPublished
    PROVE  IInv'
<1>0. /\ StreamInv /\ ViewTypeOK /\ JobInv /\ DraftInv /\ PhaseInv /\ FinalInv
      /\ QueuedInv /\ SignalInv /\ KeptInv /\ ChainInv /\ FollowInv
  BY DEF IInv
<1>1. PICK e \in unsent : Sent(e) /\ unsent' = unsent \ {e}
  BY DEF EventPublished
<1>2. /\ alive
      /\ UNCHANGED <<doc, stage, alive, phase, reply, detail, view, attempts, faults>>
  BY DEF EventPublished, viewVars
<1>3. /\ doc \in Document /\ stage \in [Sections -> Types] /\ unsent \subseteq SectionEvents
      /\ view \in View /\ missed \in BOOLEAN
  BY <1>0, TypesHold DEF ViewTypeOK
<1>4. PICK t0 \in Types, s0 \in Sections : e = <<t0, s0>>
  BY <1>3, SectionEventsAre
<1>5. /\ doc.status \notin Outcomes /\ t0 \in SavedEvents /\ stage[s0] = t0
      /\ \A t \in Types : <<t, s0>> \in unsent => stage[s0] = t
      /\ t0 = "section_ready" => s0 \in doc.sections
      /\ <<t0, s0>> \in unsent
  BY <1>0, <1>4 DEF JobInv
<1>6. /\ StreamInv' /\ UNCHANGED <<status, at, revised>> /\ missed' \in BOOLEAN
      /\ \/ Subscribing /\ Q' = Append(Q, <<t0, s0>>) /\ missed' = missed
         \/ /\ ~Subscribing /\ Q' = Q
            /\ ~missed' => ~missed /\ phase \notin {"open", "hidden", "waiting"} \union Refreshing
  BY <1>0, <1>1, <1>3, <1>4, SentIs
<1>7. /\ Subscribing' <=> Subscribing
      /\ Q \in Seq(Events) /\ <<t0, s0>> \in Events
      /\ ~Subscribing => Q = <<>>
  BY <1>0, <1>6, ReaderIs, SectionEventsAre DEF PhaseInv, Subscribing
<1>8. /\ doc.status # "none" /\ unsent' = unsent \ {<<t0, s0>>}
      /\ view.document.status \notin Outcomes
  <2>1. view.document.status \notin Outcomes
    BY <1>0, <1>3, <1>5, KeptOnward DEF KeptInv
  <2> QED
    BY <1>0, <1>1, <1>4, <2>1 DEF JobInv
<1>9. ViewTypeOK'
  BY <1>0, <1>1, <1>2, <1>6 DEF ViewTypeOK
<1>10. JobInv' /\ DraftInv'
  <2>1. unsent' \subseteq unsent /\ UNCHANGED <<doc, stage, status, alive>>
    BY <1>1, <1>2, <1>6
  <2> QED
    BY <1>0, <1>2, <1>5, <2>1 DEF JobInv, DraftInv
<1>11. PhaseInv' /\ FinalInv'
  BY <1>0, <1>2, <1>6, <1>7 DEF PhaseInv, FinalInv
<1>12. QueuedInv' /\ SignalInv'
  <2>1. Grows(doc.sections, doc.sections, stage, stage)
    BY DEF Grows
  <2>2. stage[s0] \notin Dead
    BY <1>5 DEF Dead, SavedEvents
  <2>3. Told(<<t0, s0>>, doc.sections, stage, stage)
    BY <1>5, <2>2 DEF Told, SavedEvents
  <2>4. Queued(Q', doc.sections, stage)
    <3>1. Queued(Q, doc.sections, stage)
      BY <1>0 DEF QueuedInv
    <3>2. CASE Q' = Append(Q, <<t0, s0>>)
      BY <1>7, <2>1, <2>3, <3>1, <3>2, AppendQueued
    <3> QED
      BY <1>6, <3>1, <3>2
  <2>5. ASSUME NEW s \in Sections, view.signals[s] = "failed"
        PROVE  stage[s] \in Dead /\ OnlyMedia(Q', 0, s)
    <3>1. stage[s] \in Dead /\ OnlyMedia(Q, 0, s)
      BY <1>0, <2>5 DEF SignalInv
    <3>2. CASE Q' = Append(Q, <<t0, s0>>)
      <4>1. \A t \in Types : <<t0, s0>> = <<t, s>> => t = "media_frame_ready"
        BY <2>3, <3>1 DEF Told
      <4>2. 0 \in 0..Len(Q)
        BY <1>7
      <4> QED
        BY <1>7, <3>1, <3>2, <4>1, <4>2, AppendMedia
    <3> QED
      BY <1>6, <3>1, <3>2
  <2> QED
    BY <1>2, <2>4, <2>5 DEF QueuedInv, SignalInv
<1>13. KeptInv'
  BY <1>0, <1>2, <1>8 DEF KeptInv
<1>14. ChainInv'
  <2>1. Chained(Q, unsent, stage)
    BY <1>0, <1>2, <1>5 DEF ChainInv, Running
  <2>2. CASE Q' = Append(Q, <<t0, s0>>)
    <3>1. Chained(Append(Q, <<t0, s0>>), unsent \ {<<t0, s0>>}, stage)
      BY <1>5, <1>7, <2>1, PublishedChained
    <3> QED
      BY <1>2, <1>8, <2>2, <3>1 DEF ChainInv
  <2>3. CASE Q' = <<>>
    BY <2>3, NothingChained DEF ChainInv
  <2> QED
    BY <1>6, <1>7, <2>2, <2>3
<1>15. FollowInv'
  <2>1. SUFFICES ASSUME ~missed', Current', NEW s \in Sections
                 PROVE  Shows(Q', unsent', stage'[s], doc'.sections, Base', s)
    BY DEF FollowInv
  <2>2. Base' = Base /\ Current
    BY <1>2, <2>1 DEF Base, Current
  <2>3. phase \in {"open", "hidden", "waiting"} \union Refreshing
    BY <1>0, <2>2 DEF Current, ViewTypeOK, Refreshing, Over
  <2>4. ~missed /\ Q' = Append(Q, <<t0, s0>>)
    BY <1>6, <2>1, <2>3
  <2>5. Shows(Q, unsent, stage[s], doc.sections, Base, s)
    BY <1>0, <1>2, <1>5, <2>2, <2>4 DEF FollowInv, Running
  <2>6. Shows(Q', unsent', stage[s], doc.sections, Base, s)
    BY <1>5, <1>7, <1>8, <2>4, <2>5, PublishedShows
  <2> QED
    BY <1>2, <2>2, <2>6
<1> QED
  BY <1>6, <1>9, <1>10, <1>11, <1>12, <1>13, <1>14, <1>15 DEF IInv

(* A job that is over, or gone, publishes no event of a section any more.  *)
LEMMA StoppedFollows ==
    ASSUME ~Running'
    PROVE  ChainInv' /\ FollowInv'
BY DEF ChainInv, FollowInv

LEMMA FailedIs ==
    ASSUME NEW d \in Document
    PROVE  /\ FailedSnapshot(d) \in Document /\ FailedSnapshot(d).status = "failed"
           /\ FailedSnapshot(d).sections = d.sections /\ FailedSnapshot(d).failed = d.failed
           /\ FailedSnapshot(d).partial = d.partial
           /\ d.status = "failed" => FailedSnapshot(d) = d
BY DEF FailedSnapshot, Document, DocumentStatus

LEMMA ResultIs ==
    ASSUME NEW m \in SUBSET Sections, NEW b \in SUBSET Sections, NEW f \in SUBSET Sections,
           NEW p \in SUBSET Sections
    PROVE  LET r == ResultDocument(m, b, f, p)
           IN  r \in Document /\ r.status \in Outcomes /\ r.sections = b
<1> DEFINE x == (p \ b) \ f
           y == f \ b
           r == ResultDocument(m, b, f, p)
<1>1. r.status \in Outcomes
  BY DEF ResultDocument, Outcomes
<1>2. r = [status |-> r.status, manifest |-> m, sections |-> b, partial |-> x, failed |-> y]
  BY DEF ResultDocument
<1>3. x \in SUBSET Sections /\ y \in SUBSET Sections
  OBVIOUS
<1> HIDE DEF x, y, r
<1>4. r.status \in DocumentStatus
  BY <1>1 DEF Outcomes, DocumentStatus
<1>5. r \in Document /\ r.sections = b
  BY <1>2, <1>3, <1>4 DEF Document
<1> QED
  BY <1>1, <1>5 DEF r


(* The row's document becomes a final one and keeps what it held.          *)
LEMMA DocumentEnds ==
    ASSUME IInv, StreamInv', doc' \in Document, doc'.status \in Outcomes,
           status' = status, Q' = Q, at' = at,
           UNCHANGED <<stage, alive, phase, reply, detail, view, attempts, faults, missed>>,
           unsent' = {},
           KeptBy(view.signals, view.document, doc'),
           reply.document # NoDocument => KeptBy(view.signals, reply.document, doc'),
           Queued(Q, doc'.sections, stage),
           revised' = TRUE \/ (revised' = revised /\ status \notin Outcomes)
    PROVE  IInv'
<1>0. /\ StreamInv /\ ViewTypeOK /\ JobInv /\ DraftInv /\ PhaseInv /\ FinalInv
      /\ QueuedInv /\ SignalInv /\ KeptInv /\ ChainInv /\ FollowInv
  BY DEF IInv
<1>1. ViewTypeOK'
  BY <1>0 DEF ViewTypeOK
<1>2. JobInv' /\ DraftInv'
  BY DEF JobInv, DraftInv, Outcomes
<1>3. PhaseInv'
  BY <1>0 DEF PhaseInv, Subscribing
<1>4. FinalInv'
  BY <1>0 DEF FinalInv
<1>5. QueuedInv' /\ SignalInv'
  BY <1>0 DEF QueuedInv, SignalInv
<1>6. KeptInv'
  BY <1>0 DEF KeptInv
<1>7. ChainInv' /\ FollowInv'
  BY StoppedFollows DEF Running
<1> QED
  BY <1>1, <1>2, <1>3, <1>4, <1>5, <1>6, <1>7 DEF IInv

LEMMA JobConcludesKeeps ==
    ASSUME IInv, JobConcludes
    PROVE  IInv'
<1>0. StreamInv /\ ViewTypeOK /\ JobInv /\ DraftInv /\ KeptInv /\ QueuedInv
  BY DEF IInv
<1>1. /\ doc.status \notin Outcomes /\ status = "running" /\ unsent' = {} /\ UNCHANGED vars
      /\ UNCHANGED <<stage, alive, phase, reply, detail, view, attempts, faults, missed>>
      /\ \/ doc' = ResultDocument(doc.manifest, doc.sections,
                                  {s \in Sections : stage[s] = "section_failed"}, doc.partial)
         \/ doc' = FailedSnapshot(doc)
  BY DEF JobConcludes, viewVars
<1>2. /\ doc \in Document /\ view.document \in Document
      /\ doc.manifest \in SUBSET Sections /\ doc.sections \in SUBSET Sections
      /\ doc.partial \in SUBSET Sections
  BY <1>0, TypesHold DEF Document
<1>3. /\ doc' \in Document /\ doc'.status \in Outcomes
      /\ doc.sections = doc'.sections /\ doc.failed = {}
  <2>1. doc.failed = {}
    BY <1>0, <1>1 DEF DraftInv
  <2>2. CASE doc' = FailedSnapshot(doc)
    BY <1>2, <2>1, <2>2, FailedIs DEF Outcomes
  <2> DEFINE f == {s \in Sections : stage[s] = "section_failed"}
  <2>3. CASE doc' = ResultDocument(doc.manifest, doc.sections, f, doc.partial)
    <3>1. f \in SUBSET Sections
      OBVIOUS
    <3> HIDE DEF f
    <3> QED
      BY <1>2, <2>1, <2>3, <3>1, ResultIs
  <2> QED
    BY <1>1, <2>2, <2>3
<1>4. /\ StreamInv' /\ Q' = Q /\ UNCHANGED <<status, at, revised>>
  BY <1>0, <1>1, StreamStands
<1>5. KeptBy(view.signals, view.document, doc')
  BY <1>0, <1>1, <1>2, <1>3, KeptOnward DEF KeptInv
<1>6. reply.document # NoDocument => KeptBy(view.signals, reply.document, doc')
  BY <1>0, <1>1, <1>2, <1>3, KeptOnward DEF KeptInv
<1>7. Queued(Q, doc'.sections, stage)
  BY <1>0, <1>3 DEF QueuedInv
<1>8. status \notin Outcomes
  BY <1>1 DEF Outcomes
<1> QED
  BY <1>1, <1>3, <1>4, <1>5, <1>6, <1>7, <1>8, DocumentEnds

(* Failing a document that is over, or that nobody works on, takes nothing *)
(* back.                                                                   *)
LEMMA FailedKept ==
    ASSUME NEW g, NEW v, NEW d \in Document, KeptBy(g, v, d)
    PROVE  KeptBy(g, v, FailedSnapshot(d))
<1>1. CASE Lost(d)
  BY <1>1, LostIs, FailedIs
<1>2. CASE ~Lost(d)
  BY <1>2, FailedIs DEF KeptBy, Outcomes
<1> QED
  BY <1>1, <1>2

LEMMA InterruptedKeeps ==
    ASSUME IInv, Interrupted
    PROVE  IInv'
<1>0. /\ StreamInv /\ ViewTypeOK /\ JobInv /\ PhaseInv /\ KeptInv /\ QueuedInv
  BY DEF IInv
<1>1. /\ ~alive /\ status \in Active /\ UNCHANGED vars
      /\ doc' \in {InterruptedSnapshot(NoDocument), InterruptedSnapshot(doc)}
      /\ UNCHANGED <<stage, unsent, alive, phase, reply, detail, view, attempts, faults, missed>>
  BY DEF Interrupted, viewVars
<1>2. doc \in Document
  BY <1>0, TypesHold
<1>3. Lost(doc') \/ doc' = FailedSnapshot(doc)
  BY <1>0, <1>1, DocumentConstants DEF InterruptedSnapshot, Lost, JobInv
<1>4. doc' \in Document /\ doc'.status \in Outcomes
  BY <1>2, <1>3, FailedIs, DocumentConstants DEF Lost, Outcomes
<1>5. /\ StreamInv' /\ Q' = Q /\ UNCHANGED <<status, at, revised>>
  BY <1>0, <1>1, StreamStands
<1>6. Q = <<>> /\ unsent = {}
  BY <1>0, <1>1 DEF PhaseInv, JobInv
<1>7. KeptBy(view.signals, view.document, doc')
  BY <1>0, <1>2, <1>3, FailedKept DEF KeptInv, KeptBy
<1>8. reply.document # NoDocument => KeptBy(view.signals, reply.document, doc')
  BY <1>0, <1>2, <1>3, FailedKept DEF KeptInv, KeptBy
<1>9. Queued(Q, doc'.sections, stage)
  BY <1>6, NothingQueued
<1>10. status \notin Outcomes
  BY <1>1 DEF Active, Outcomes
<1> QED
  BY <1>1, <1>4, <1>5, <1>6, <1>7, <1>8, <1>9, <1>10, DocumentEnds

LEMMA RowSettlesKeeps ==
    ASSUME IInv, RowSettles
    PROVE  IInv'
<1>0. /\ StreamInv /\ ViewTypeOK /\ JobInv /\ DraftInv /\ PhaseInv /\ FinalInv
      /\ QueuedInv /\ SignalInv /\ KeptInv /\ ChainInv /\ FollowInv
  BY DEF IInv
<1>1. /\ UNCHANGED <<at, queue, current, told, progress, revised>>
      /\ UNCHANGED <<doc, stage, unsent, alive, phase, reply, detail, view, attempts, faults, missed>>
  BY DEF RowSettles, streamVars, jobVars, viewVars
<1>2. Accept \/ Start \/ (doc.status \in Outcomes /\ Finish(doc.status))
  BY DEF RowSettles
<1>3. RowMoves
  BY <1>1, <1>2 DEF RowMoves, streamVars
<1>4. StreamInv' /\ Q' = Q /\ (Subscribing' <=> Subscribing)
  BY <1>0, <1>1, <1>3, RowMovesKeeps DEF Q, Subscribing
<1>5. /\ status \notin Outcomes
      /\ status' \in Outcomes => doc.status \in Outcomes
  BY <1>2 DEF Accept, Start, Finish, Active, Outcomes
<1>6. ViewTypeOK'
  BY <1>0, <1>1 DEF ViewTypeOK
<1>7. JobInv' /\ DraftInv'
  BY <1>0, <1>1, <1>5 DEF JobInv, DraftInv
<1>8. PhaseInv'
  BY <1>0, <1>1, <1>4 DEF PhaseInv
<1>9. FinalInv'
  BY <1>0, <1>1, <1>5 DEF FinalInv
<1>10. QueuedInv' /\ SignalInv' /\ KeptInv'
  BY <1>0, <1>1, <1>4 DEF QueuedInv, SignalInv, KeptInv
<1>11. ChainInv' /\ FollowInv'
  BY <1>0, <1>1, <1>4 DEF ChainInv, FollowInv, Running, Current, Base
<1> QED
  BY <1>4, <1>6, <1>7, <1>8, <1>9, <1>10, <1>11 DEF IInv

LEMMA JobAnnouncesKeeps ==
    ASSUME IInv, JobAnnounces
    PROVE  IInv'
<1>0. /\ StreamInv /\ ViewTypeOK /\ JobInv /\ DraftInv /\ PhaseInv /\ FinalInv
      /\ QueuedInv /\ SignalInv /\ KeptInv /\ ChainInv /\ FollowInv
  BY DEF IInv
<1> DEFINE e == OutcomeEvent(status)
<1>1. /\ alive /\ OutcomePublished /\ status \in Outcomes /\ Publish(e)
      /\ UNCHANGED <<status, at, current, told, progress, revised>>
      /\ UNCHANGED <<doc, stage, unsent, alive, phase, reply, detail, view, attempts, faults, missed>>
  BY DEF JobAnnounces, OutcomePublished, Announce, jobVars, viewVars
<1>2. StreamInv'
  BY <1>0, <1>1, PublishedKeeps
<1>3. e \in Events /\ EndsStream(e) /\ e[1] \in Outcomes
  BY <1>1, OutcomeEventsType
<1> HIDE DEF e
<1>4. (Subscribing => Q' = Append(Q, e)) /\ (~Subscribing => Q' = Q)
  BY <1>0, <1>1, <1>3, ReaderHears
<1>5. /\ Q \in Seq(Events) /\ (Subscribing' <=> Subscribing)
      /\ ~Subscribing => Q = <<>>
      /\ doc.status \in Outcomes
  BY <1>0, <1>1, ReaderIs DEF Subscribing, PhaseInv, JobInv
<1>6. \A t \in Types : \A s : e # <<t, s>>
  BY <1>3, SectionEventsAre
<1>7. ViewTypeOK' /\ JobInv' /\ DraftInv'
  BY <1>0, <1>1 DEF ViewTypeOK, JobInv, DraftInv
<1>8. PhaseInv' /\ FinalInv'
  BY <1>0, <1>1, <1>4, <1>5 DEF PhaseInv, FinalInv
<1>9. QueuedInv' /\ SignalInv'
  <2>1. Grows(doc.sections, doc.sections, stage, stage)
    BY DEF Grows
  <2>2. Told(e, doc.sections, stage, stage)
    BY <1>6, TypesAre DEF Told
  <2>3. Queued(Q', doc.sections, stage)
    <3>1. Queued(Q, doc.sections, stage)
      BY <1>0 DEF QueuedInv
    <3>2. CASE Q' = Append(Q, e)
      BY <1>3, <1>5, <2>1, <2>2, <3>1, <3>2, AppendQueued
    <3> QED
      BY <1>4, <3>1, <3>2
  <2>4. ASSUME NEW s \in Sections, view.signals[s] = "failed"
        PROVE  stage[s] \in Dead /\ OnlyMedia(Q', 0, s)
    <3>1. stage[s] \in Dead /\ OnlyMedia(Q, 0, s) /\ 0 \in 0..Len(Q)
      BY <1>0, <1>5, <2>4 DEF SignalInv
    <3>2. CASE Q' = Append(Q, e)
      BY <1>3, <1>5, <1>6, <3>1, <3>2, AppendMedia
    <3> QED
      BY <1>4, <3>1, <3>2
  <2> QED
    BY <1>1, <2>3, <2>4 DEF QueuedInv, SignalInv
<1>10. KeptInv'
  <2>1. ASSUME view.document.status \in Outcomes, NEW i \in 1..Len(Q')
        PROVE  EndsStream(Q'[i])
    <3>1. \A k \in 1..Len(Q) : EndsStream(Q[k])
      BY <1>0, <2>1 DEF KeptInv
    <3>2. CASE Q' = Append(Q, e)
      <4>1. /\ Len(Q) \in Nat /\ Len(Q') = Len(Q) + 1
            /\ \A k \in 1..Len(Q) : Q'[k] = Q[k]
            /\ Q'[Len(Q) + 1] = e
        BY <1>3, <1>5, <3>2, AppendIs
      <4>2. i \in 1..Len(Q) \/ i = Len(Q) + 1
        BY <2>1, <4>1
      <4> QED
        BY <1>3, <3>1, <4>1, <4>2
    <3> QED
      BY <1>4, <2>1, <3>1, <3>2
  <2> QED
    BY <1>0, <1>1, <2>1 DEF KeptInv, EndsStream
<1>11. ChainInv' /\ FollowInv'
  BY <1>1, <1>5, StoppedFollows DEF Running
<1> QED
  BY <1>2, <1>7, <1>8, <1>9, <1>10, <1>11 DEF IInv

LEMMA JobRevisesKeeps ==
    ASSUME IInv, JobRevises
    PROVE  IInv'
<1>0. /\ StreamInv /\ ViewTypeOK /\ JobInv /\ DraftInv /\ PhaseInv /\ FinalInv
      /\ QueuedInv /\ SignalInv /\ KeptInv /\ ChainInv /\ FollowInv
  BY DEF IInv
<1>1. /\ OutcomeRevised /\ status \in Outcomes /\ status' = "failed" /\ revised' = TRUE
      /\ doc' = FailedSnapshot(doc) /\ faults < MaxFaults /\ faults' = faults + 1
      /\ UNCHANGED <<at, queue, current, told, progress>>
      /\ UNCHANGED <<stage, unsent, alive, phase, reply, detail, view, attempts, missed>>
  BY DEF JobRevises, OutcomeRevised, Revise, Fault, streamVars, viewVars
<1>2. StreamInv' /\ Q' = Q /\ (Subscribing' <=> Subscribing)
  BY <1>0, <1>1, RevisedKeeps DEF Q, Subscribing
<1>3. /\ doc \in Document /\ doc' \in Document /\ doc'.status = "failed"
      /\ doc'.sections = doc.sections /\ doc.status \in Outcomes /\ unsent = {}
  <2>1. doc \in Document
    BY <1>0, TypesHold
  <2>2. doc.status \in Outcomes /\ unsent = {}
    BY <1>0, <1>1 DEF JobInv
  <2> QED
    BY <1>1, <2>1, <2>2, FailedIs
<1>4. ViewTypeOK'
  <2>1. faults' \in 0..MaxFaults
    BY <1>0, <1>1, BoundsAssumption DEF ViewTypeOK
  <2> QED
    BY <1>0, <1>1, <1>3, <2>1 DEF ViewTypeOK
<1>5. JobInv' /\ DraftInv'
  BY <1>1, <1>3 DEF JobInv, DraftInv, Outcomes
<1>6. PhaseInv' /\ FinalInv'
  BY <1>0, <1>1, <1>2 DEF PhaseInv, FinalInv
<1>7. QueuedInv' /\ SignalInv'
  BY <1>0, <1>1, <1>2, <1>3 DEF QueuedInv, SignalInv
<1>8. KeptInv'
  <2>1. KeptBy(view.signals, view.document, doc')
    BY <1>0, <1>1, <1>3, FailedKept DEF KeptInv
  <2>2. reply.document # NoDocument => KeptBy(view.signals, reply.document, doc')
    BY <1>0, <1>1, <1>3, FailedKept DEF KeptInv
  <2> QED
    BY <1>0, <1>1, <1>2, <2>1, <2>2 DEF KeptInv
<1>9. ChainInv' /\ FollowInv'
  BY <1>3, StoppedFollows DEF Running, Outcomes
<1> QED
  BY <1>2, <1>4, <1>5, <1>6, <1>7, <1>8, <1>9 DEF IInv


-----------------------------------------------------------------------------
(* The steps of the view while the server and the job stand still.         *)
LEMMA ViewMoves ==
    ASSUME IInv, UNCHANGED <<vars, doc, stage, unsent, alive>>, view'.signals = view.signals,
           ViewTypeOK', PhaseInv', FinalInv', KeptInv', FollowInv'
    PROVE  IInv'
<1>0. StreamInv /\ JobInv /\ DraftInv /\ QueuedInv /\ SignalInv /\ ChainInv
  BY DEF IInv
<1>1. StreamInv' /\ Q' = Q /\ status' = status
  BY <1>0, StreamStands
<1>2. JobInv' /\ DraftInv'
  BY <1>0, <1>1 DEF JobInv, DraftInv
<1>3. QueuedInv' /\ SignalInv' /\ ChainInv'
  BY <1>0, <1>1 DEF QueuedInv, SignalInv, ChainInv, Running
<1> QED
  BY <1>1, <1>2, <1>3 DEF IInv

LEMMA DetailAnsweredKeeps ==
    ASSUME IInv, DetailAnswered
    PROVE  IInv'
<1>0. /\ StreamInv /\ ViewTypeOK /\ PhaseInv /\ FinalInv /\ KeptInv /\ FollowInv
  BY DEF IInv
<1>1. /\ phase \in Refreshing /\ reply' = [reply EXCEPT !.detail = status]
      /\ UNCHANGED <<vars, doc, stage, unsent, alive>>
      /\ UNCHANGED <<phase, detail, view, attempts, faults, missed>>
  BY DEF DetailAnswered, jobVars
<1>2. /\ Q' = Q /\ (Subscribing' <=> Subscribing) /\ UNCHANGED <<status, revised>>
      /\ status \in Statuses
  BY <1>0, <1>1, StreamStands, ReaderIs
<1>3. /\ reply' \in [detail : {"none"} \union Statuses, document : Document]
      /\ reply'.detail = status /\ reply'.document = reply.document
  BY <1>0, <1>1, <1>2 DEF ViewTypeOK
<1>4. ViewTypeOK' /\ PhaseInv' /\ FinalInv'
  BY <1>0, <1>1, <1>2, <1>3 DEF ViewTypeOK, PhaseInv, FinalInv
<1>5. KeptInv'
  BY <1>0, <1>1, <1>2, <1>3 DEF KeptInv
<1>6. FollowInv'
  BY <1>0, <1>1, <1>2, <1>3 DEF FollowInv, Running, Current, Base
<1> QED
  BY <1>1, <1>4, <1>5, <1>6, ViewMoves

LEMMA DocumentAnsweredKeeps ==
    ASSUME IInv, DocumentAnswered
    PROVE  IInv'
<1>0. /\ StreamInv /\ ViewTypeOK /\ JobInv /\ DraftInv /\ PhaseInv /\ FinalInv
      /\ KeptInv /\ FollowInv
  BY DEF IInv
<1>1. /\ phase \in Refreshing /\ reply' = [reply EXCEPT !.document = doc] /\ missed' = FALSE
      /\ UNCHANGED <<vars, doc, stage, unsent, alive>>
      /\ UNCHANGED <<phase, detail, view, attempts, faults>>
  BY DEF DocumentAnswered, jobVars
<1>2. /\ Q' = Q /\ (Subscribing' <=> Subscribing) /\ UNCHANGED <<status, revised>>
  BY <1>0, <1>1, StreamStands
<1>3. doc \in Document /\ stage \in [Sections -> Types] /\ doc # NoDocument
  BY <1>0, TypesHold, DocumentConstants DEF JobInv
<1>4. /\ reply' \in [detail : {"none"} \union Statuses, document : Document]
      /\ reply'.detail = reply.detail /\ reply'.document = doc
  BY <1>0, <1>1, <1>3 DEF ViewTypeOK
<1>5. ViewTypeOK' /\ PhaseInv' /\ FinalInv'
  BY <1>0, <1>1, <1>2, <1>4 DEF ViewTypeOK, PhaseInv, FinalInv
<1>6. KeptInv'
  BY <1>0, <1>1, <1>2, <1>4, KeptByItself DEF KeptInv
<1>7. FollowInv'
  <2>1. SUFFICES ASSUME Running, NEW s \in Sections
                 PROVE  Shows(Q', unsent, stage[s], doc.sections, doc, s)
    BY <1>1, <1>3, <1>4 DEF FollowInv, Running, Base
  <2>2. Q' = <<>>
    BY <1>0, <1>1, <1>2 DEF PhaseInv, Refreshing
  <2>3. /\ s \in doc.manifest <=> stage[s] # "none"
        /\ s \in doc.partial <=> stage[s] \in Drafts
    BY <1>0, <2>1 DEF DraftInv, Running
  <2>4. \A t \in Types : <<t, s>> \in unsent => t \in SavedEvents /\ stage[s] = t
    BY <1>0 DEF JobInv
  <2>5. stage[s] \in Types
    BY <1>3
  <2>6. Shows(<<>>, unsent, stage[s], doc.sections, doc, s)
    BY <2>3, <2>4, <2>5, RowShows
  <2> QED
    BY <2>2, <2>6
<1> QED
  BY <1>1, <1>5, <1>6, <1>7, ViewMoves

LEMMA ReconnectIs ==
    ASSUME Reconnect, attempts \in 0..MaxReconnectAttempts
    PROVE  phase' \in {"waiting", "lost"} /\ attempts' \in 0..MaxReconnectAttempts
BY AttemptsAssumption DEF Reconnect

LEMMA RefreshedKeeps ==
    ASSUME IInv, Refreshed
    PROVE  IInv'
<1>0. /\ StreamInv /\ ViewTypeOK /\ PhaseInv /\ FinalInv /\ KeptInv /\ FollowInv
  BY DEF IInv
<1>1. /\ phase \in Refreshing /\ reply.detail # "none" /\ reply.document # NoDocument
      /\ reply' = NoReply /\ detail' = reply.detail /\ view' = Snapshot(view, reply.document)
      /\ UNCHANGED <<vars, doc, stage, unsent, alive, faults, missed>>
  BY DEF Refreshed, jobVars
<1>2. /\ phase = "finalizing" => phase' = "finalized" /\ attempts' = attempts
      /\ phase # "finalizing" => \/ phase' \in {"settled", "open"} /\ attempts' = attempts
                                 \/ Reconnect
  BY DEF Refreshed
<1>3. attempts \in 0..MaxReconnectAttempts
  BY <1>0 DEF ViewTypeOK
<1>4. /\ attempts' \in 0..MaxReconnectAttempts
      /\ phase = "finalizing" => phase' = "finalized"
      /\ phase # "finalizing" => phase' \in {"settled", "open", "waiting", "lost"}
  BY <1>2, <1>3, ReconnectIs
<1>5. /\ Q' = Q /\ (Subscribing' <=> Subscribing) /\ UNCHANGED <<status, revised>>
  BY <1>0, <1>1, StreamStands
<1>6. /\ reply.document \in Document /\ view \in View /\ reply.detail \in {"none"} \union Statuses
      /\ view' \in View /\ view'.document = reply.document /\ view'.signals = view.signals
  <2>1. reply.document \in Document /\ view \in View /\ reply.detail \in {"none"} \union Statuses
    BY <1>0, TypesHold
  <2> QED
    BY <1>1, <2>1 DEF Snapshot, View
<1>7. ~Subscribing /\ Q = <<>>
  BY <1>0, <1>1 DEF PhaseInv, Refreshing
<1>8. ViewTypeOK'
  BY <1>0, <1>1, <1>4, <1>6, DocumentConstants DEF ViewTypeOK, Over
<1>9. PhaseInv'
  BY <1>1, <1>5, <1>7 DEF PhaseInv
<1>10. FinalInv'
  BY <1>0, <1>1, <1>4, <1>5, <1>6 DEF FinalInv
<1>11. KeptInv'
  <2>1. \A i \in 1..Len(Q') : FALSE
    BY <1>5, <1>7
  <2> QED
    BY <1>0, <1>1, <1>6, <2>1, DocumentConstants DEF KeptInv
<1>12. FollowInv'
  <2>1. Base' = Base
    BY <1>1, <1>6, DocumentConstants DEF Base
  <2>2. Current' => Current
    BY <1>1, <1>4 DEF Current, Refreshing, Over
  <2> QED
    BY <1>0, <1>1, <1>5, <2>1, <2>2 DEF FollowInv, Running
<1> QED
  BY <1>1, <1>6, <1>8, <1>9, <1>10, <1>11, <1>12, ViewMoves

LEMMA RefreshFailsKeeps ==
    ASSUME IInv, RefreshFails
    PROVE  IInv'
<1>0. /\ StreamInv /\ ViewTypeOK /\ PhaseInv /\ FinalInv /\ KeptInv /\ FollowInv
  BY DEF IInv
<1>1. /\ phase \in Refreshing /\ reply' = NoReply /\ missed' = TRUE
      /\ faults < MaxFaults /\ faults' = faults + 1
      /\ UNCHANGED <<vars, doc, stage, unsent, alive, detail, view>>
  BY DEF RefreshFails, Fault, jobVars
<1>2. /\ phase = "loading" => phase' = "error" /\ attempts' = attempts
      /\ phase = "finalizing" => phase' = "unrefreshed" /\ attempts' = attempts
      /\ phase = "revalidating" => Reconnect
      /\ phase = "refreshing" => phase' = "open" /\ attempts' = attempts
  BY DEF RefreshFails
<1>3. attempts \in 0..MaxReconnectAttempts
  BY <1>0 DEF ViewTypeOK
<1>4. /\ attempts' \in 0..MaxReconnectAttempts
      /\ phase' \in {"error", "unrefreshed", "waiting", "lost", "open"}
  BY <1>1, <1>2, <1>3, ReconnectIs DEF Refreshing
<1>5. /\ Q' = Q /\ (Subscribing' <=> Subscribing) /\ UNCHANGED <<status, revised>>
  BY <1>0, <1>1, StreamStands
<1>6. ~Subscribing /\ Q = <<>>
  BY <1>0, <1>1 DEF PhaseInv, Refreshing
<1>7. ViewTypeOK'
  <2>1. faults' \in 0..MaxFaults
    BY <1>0, <1>1, BoundsAssumption DEF ViewTypeOK
  <2> QED
    BY <1>0, <1>1, <1>4, <2>1, DocumentConstants DEF ViewTypeOK, Over
<1>8. PhaseInv' /\ FinalInv'
  BY <1>0, <1>1, <1>4, <1>5, <1>6 DEF PhaseInv, FinalInv
<1>9. KeptInv'
  BY <1>0, <1>1, <1>5, DocumentConstants DEF KeptInv
<1>10. FollowInv'
  BY <1>1 DEF FollowInv
<1> QED
  BY <1>1, <1>7, <1>8, <1>9, <1>10, ViewMoves

(* Load, TimerFires, TabShown and ConnectFails only move the phase on.     *)
LEMMA PhaseMoves ==
    ASSUME IInv, UNCHANGED <<vars, jobVars, reply, detail, view, missed>>,
           attempts' = attempts, faults' \in 0..MaxFaults,
           \/ phase = "idle" /\ phase' = "loading"
           \/ phase = "waiting" /\ phase' = "refreshing"
           \/ phase = "hidden" /\ phase' = "open"
           \/ phase = "open" /\ ~Subscribing /\ phase' = "revalidating"
    PROVE  IInv'
<1>0. /\ StreamInv /\ ViewTypeOK /\ PhaseInv /\ FinalInv /\ KeptInv /\ FollowInv
  BY DEF IInv
<1>1. UNCHANGED <<doc, stage, unsent, alive>>
  BY DEF jobVars
<1>2. /\ Q' = Q /\ (Subscribing' <=> Subscribing) /\ UNCHANGED <<status, revised>>
  BY <1>0, StreamStands
<1>3. reply = NoReply /\ ~Subscribing
  BY <1>0 DEF PhaseInv, Refreshing
<1>4. ViewTypeOK'
  BY <1>0, <1>1 DEF ViewTypeOK, Refreshing
<1>5. PhaseInv' /\ FinalInv'
  BY <1>0, <1>1, <1>2, <1>3 DEF PhaseInv, FinalInv
<1>6. KeptInv'
  BY <1>0, <1>1, <1>2 DEF KeptInv
<1>7. FollowInv'
  <2>1. Current' => Current
    BY <1>3, DocumentConstants DEF Current, Over
  <2> QED
    BY <1>0, <1>1, <1>2, <2>1 DEF FollowInv, Running, Base
<1> QED
  BY <1>1, <1>4, <1>5, <1>6, <1>7, ViewMoves

LEMMA PhaseStepsKeep ==
    ASSUME IInv, Load \/ TimerFires \/ TabShown \/ ConnectFails
    PROVE  IInv'
<1>0. StreamInv /\ ViewTypeOK
  BY DEF IInv
<1>1. /\ UNCHANGED <<vars, jobVars, reply, detail, view, missed>> /\ attempts' = attempts
      /\ \/ phase = "idle" /\ phase' = "loading"
         \/ phase = "waiting" /\ phase' = "refreshing"
         \/ phase = "hidden" /\ phase' = "open"
         \/ phase = "open" /\ ~Subscribing /\ phase' = "revalidating"
  BY DEF Load, TimerFires, TabShown, ConnectFails, Subscribing
<1>2. faults' \in 0..MaxFaults
  BY <1>0, BoundsAssumption DEF Load, TimerFires, TabShown, ConnectFails, Fault, ViewTypeOK
<1> QED
  BY <1>1, <1>2, PhaseMoves


-----------------------------------------------------------------------------
(* The steps of the connection.                                            *)
LEMMA OpensKeeps ==
    ASSUME IInv, Opens
    PROVE  IInv'
<1>0. /\ StreamInv /\ ViewTypeOK /\ JobInv /\ DraftInv /\ PhaseInv /\ FinalInv
      /\ QueuedInv /\ SignalInv /\ KeptInv /\ ChainInv /\ FollowInv
  BY DEF IInv
<1>1. /\ phase = "open" /\ Connect(Reader) /\ attempts' = 0
      /\ UNCHANGED <<doc, stage, unsent, alive, phase, reply, detail, view, faults, missed>>
  BY DEF Opens, jobVars
<1>2. StreamInv'
  BY <1>0, <1>1, ReaderAssumption, ConnectKeeps
<1>3. /\ at[Reader] = "off" /\ UNCHANGED <<status, announced, revised>>
      /\ at' = [at EXCEPT ![Reader] = "read"] /\ queue' = [queue EXCEPT ![Reader] = <<>>]
  BY <1>1 DEF Connect, lifecycleVars
<1>4. /\ at \in [Clients -> {"off", "read", "drain", "wait", "recheck", "closed"}]
      /\ queue \in [Clients -> Seq(Events)]
  BY <1>0 DEF StreamInv, StreamTypeOK
<1>5. Q' = <<>> /\ Subscribing' /\ ~Subscribing
  BY <1>3, <1>4, ReaderAssumption DEF Q, Subscribing
<1>6. Q' = Q
  BY <1>0, <1>5 DEF PhaseInv
<1>7. ViewTypeOK' /\ JobInv' /\ DraftInv'
  BY <1>0, <1>1, <1>3, AttemptsAssumption DEF ViewTypeOK, JobInv, DraftInv
<1>8. PhaseInv' /\ FinalInv'
  BY <1>0, <1>1, <1>3, <1>5 DEF PhaseInv, FinalInv
<1>9. QueuedInv' /\ SignalInv' /\ KeptInv'
  BY <1>0, <1>1, <1>6 DEF QueuedInv, SignalInv, KeptInv
<1>10. ChainInv' /\ FollowInv'
  BY <1>0, <1>1, <1>6 DEF ChainInv, FollowInv, Running, Current, Base
<1> QED
  BY <1>2, <1>7, <1>8, <1>9, <1>10 DEF IInv

(* The connection is gone, or the whole server with the job.               *)
LEMMA HangsUp ==
    ASSUME IInv, Disconnect(Reader) \/ Restart,
           UNCHANGED <<doc, stage, reply, detail, view, attempts>>,
           \/ alive' = alive /\ unsent' = unsent /\ missed' = TRUE
           \/ alive' = FALSE /\ unsent' = {} /\ missed' \in BOOLEAN,
           phase' = phase \/ (phase = "open" /\ phase' \in {"revalidating", "hidden"}),
           phase' # "open" \/ ~Subscribing,
           faults' \in 0..MaxFaults
    PROVE  IInv'
<1>0. /\ StreamInv /\ ViewTypeOK /\ JobInv /\ DraftInv /\ PhaseInv /\ FinalInv
      /\ QueuedInv /\ SignalInv /\ KeptInv /\ ChainInv /\ FollowInv
  BY DEF IInv
<1>1. StreamInv'
  BY <1>0, ReaderAssumption, DisconnectKeeps, RestartKeeps
<1>2. UNCHANGED <<status, announced, revised>>
  BY DEF Disconnect, Restart, lifecycleVars
<1>3. /\ at \in [Clients -> {"off", "read", "drain", "wait", "recheck", "closed"}]
      /\ queue \in [Clients -> Seq(Events)]
  BY <1>0 DEF StreamInv, StreamTypeOK
<1>4. Q' = <<>> /\ ~Subscribing'
  BY <1>3, ReaderAssumption DEF Disconnect, Restart, Q, Subscribing
<1>5. ViewTypeOK'
  BY <1>0 DEF ViewTypeOK, Refreshing
<1>6. JobInv' /\ DraftInv'
  BY <1>0, <1>2 DEF JobInv, DraftInv
<1>7. PhaseInv'
  BY <1>0, <1>4 DEF PhaseInv, Refreshing
<1>8. FinalInv'
  BY <1>0, <1>2 DEF FinalInv
<1>9. QueuedInv' /\ SignalInv'
  BY <1>0, <1>4, NothingQueued DEF QueuedInv, SignalInv
<1>10. KeptInv'
  <2>1. \A i \in 1..Len(Q') : FALSE
    BY <1>4
  <2> QED
    BY <1>0, <2>1 DEF KeptInv
<1>11. ChainInv'
  BY <1>4, NothingChained DEF ChainInv
<1>12. FollowInv'
  BY DEF FollowInv, Running
<1> QED
  BY <1>1, <1>5, <1>6, <1>7, <1>8, <1>9, <1>10, <1>11, <1>12 DEF IInv

LEMMA HangUpsKeep ==
    ASSUME IInv, Breaks \/ ServerDies \/ TabHidden
    PROVE  IInv'
<1>0. ViewTypeOK /\ JobInv
  BY DEF IInv
<1>1. alive \in BOOLEAN /\ missed \in BOOLEAN /\ (~alive => unsent = {})
  BY <1>0 DEF ViewTypeOK, JobInv
<1>2. faults' \in 0..MaxFaults
  BY <1>0, BoundsAssumption DEF Breaks, ServerDies, TabHidden, Fault, ViewTypeOK
<1>3. CASE Breaks
  <2>1. /\ phase = "open" /\ phase' = "revalidating" /\ missed' = TRUE
        /\ UNCHANGED <<doc, stage, reply, detail, view, attempts>>
        /\ unsent' = IF alive' THEN unsent ELSE {}
        /\ (Disconnect(Reader) /\ alive' = alive) \/ (Restart /\ alive' = FALSE)
    BY <1>3 DEF Breaks
  <2>2. \/ alive' = alive /\ unsent' = unsent /\ missed' = TRUE
        \/ alive' = FALSE /\ unsent' = {} /\ missed' \in BOOLEAN
    BY <1>1, <2>1
  <2> QED
    BY <1>2, <2>1, <2>2, HangsUp
<1>4. CASE ServerDies
  BY <1>1, <1>2, <1>4, HangsUp DEF ServerDies, viewVars
<1>5. CASE TabHidden
  BY <1>2, <1>5, HangsUp DEF TabHidden, jobVars
<1> QED
  BY <1>3, <1>4, <1>5

(* What a step of the stream does to the view's queue.                     *)
LEMMA StreamNextIs ==
    ASSUME StreamInv, StreamNext(Reader)
    PROVE  /\ StreamInv' /\ Subscribing /\ UNCHANGED <<status, announced, revised>>
           /\ \/ /\ at'[Reader] = "closed" /\ ~Subscribing'
                 /\ Q' = <<>> /\ told'[Reader] # <<>>
              \/ at'[Reader] # "closed" /\ Subscribing' /\ Q' = Q
              \/ /\ at'[Reader] # "closed" /\ Subscribing'
                 /\ Q # <<>> /\ ~EndsStream(Head(Q)) /\ Q' = Tail(Q)
<1>1. Reader \in Clients
  BY ReaderAssumption
<1>2. StreamInv'
  BY <1>1, ReadRowKeeps, ForwardKeeps, DrainedKeeps, KeepAliveKeeps, RecheckKeeps DEF StreamNext
<1>3. UNCHANGED <<status, announced, revised>>
  BY DEF StreamNext, ReadRow, Forward, Drained, KeepAliveExpires, Recheck, lifecycleVars
<1>4. /\ at \in [Clients -> {"off", "read", "drain", "wait", "recheck", "closed"}]
      /\ queue \in [Clients -> Seq(Events)] /\ told \in [Clients -> Seq(Outcomes)]
  BY DEF StreamInv, StreamTypeOK
<1>5. ASSUME NEW o, End(Reader, o)
      PROVE  at'[Reader] = "closed" /\ ~Subscribing' /\ Q' = <<>> /\ told'[Reader] # <<>>
  <2>1. /\ told' = [told EXCEPT ![Reader] = Append(@, o)]
        /\ at' = [at EXCEPT ![Reader] = "closed"]
        /\ queue' = [queue EXCEPT ![Reader] = <<>>]
    BY <1>5 DEF End
  <2>2. at'[Reader] = "closed" /\ Q' = <<>>
    BY <1>1, <1>4, <2>1 DEF Q
  <2>3. told'[Reader] = Append(told[Reader], o) /\ told[Reader] \in Seq(Outcomes)
    BY <1>1, <1>4, <2>1
  <2>4. told'[Reader] # <<>>
    BY <2>3
  <2> QED
    BY <2>2, <2>4 DEF Subscribing
<1>6. CASE ReadRow(Reader)
  <2>1. /\ at[Reader] = "read" /\ at' = [at EXCEPT ![Reader] = "drain"] /\ queue' = queue
    BY <1>6 DEF ReadRow
  <2> QED
    BY <1>1, <1>2, <1>3, <1>4, <2>1 DEF Q, Subscribing
<1>7. CASE KeepAliveExpires(Reader)
  <2>1. /\ at[Reader] = "wait" /\ at' = [at EXCEPT ![Reader] = "recheck"] /\ queue' = queue
    BY <1>7 DEF KeepAliveExpires
  <2> QED
    BY <1>1, <1>2, <1>3, <1>4, <2>1 DEF Q, Subscribing
<1>8. CASE Recheck(Reader)
  <2>1. /\ at[Reader] = "recheck"
        /\ \/ End(Reader, status)
           \/ at' = [at EXCEPT ![Reader] = "wait"] /\ queue' = queue
    BY <1>8 DEF Recheck
  <2>2. CASE End(Reader, status)
    BY <1>2, <1>3, <1>5, <2>1, <2>2 DEF Subscribing
  <2>3. CASE at' = [at EXCEPT ![Reader] = "wait"] /\ queue' = queue
    BY <1>1, <1>2, <1>3, <1>4, <2>1, <2>3 DEF Q, Subscribing
  <2> QED
    BY <2>1, <2>2, <2>3
<1>9. CASE Drained(Reader)
  <2>1. /\ at[Reader] = "drain"
        /\ \/ End(Reader, current[Reader])
           \/ at' = [at EXCEPT ![Reader] = "wait"] /\ queue' = queue
    BY <1>9 DEF Drained
  <2>2. CASE End(Reader, current[Reader])
    BY <1>2, <1>3, <1>5, <2>1, <2>2 DEF Subscribing
  <2>3. CASE at' = [at EXCEPT ![Reader] = "wait"] /\ queue' = queue
    BY <1>1, <1>2, <1>3, <1>4, <2>1, <2>3 DEF Q, Subscribing
  <2> QED
    BY <2>1, <2>2, <2>3
<1>10. CASE Forward(Reader)
  <2>1. /\ at[Reader] \in {"drain", "wait"} /\ Q # <<>>
        /\ \/ End(Reader, Head(Q)[1])
           \/ /\ ~EndsStream(Head(Q)) /\ at' = at
              /\ queue' = [queue EXCEPT ![Reader] = Tail(@)]
    BY <1>10 DEF Forward, Q
  <2>2. CASE End(Reader, Head(Q)[1])
    BY <1>2, <1>3, <1>5, <2>1, <2>2 DEF Subscribing
  <2>3. CASE /\ ~EndsStream(Head(Q)) /\ at' = at
             /\ queue' = [queue EXCEPT ![Reader] = Tail(@)]
    <3>1. Q' = Tail(Q)
      BY <1>1, <1>4, <2>3 DEF Q
    <3> QED
      BY <1>2, <1>3, <2>1, <2>3, <3>1 DEF Subscribing
  <2> QED
    BY <2>1, <2>2, <2>3
<1> QED
  BY <1>6, <1>7, <1>8, <1>9, <1>10 DEF StreamNext


(* What is forwarded of a section's events is told to the view.            *)
Forwards(t0, s0, ok) ==
    /\ t0 \in Types /\ s0 \in Sections /\ ok \in BOOLEAN
    /\ Q # <<>> /\ Head(Q) = <<t0, s0>> /\ Q' = Tail(Q)
    /\ Folded(view', view, t0, s0, ok)
    /\ missed' = (missed \/ ~ok)

LEMMA DeliverIs ==
    ASSUME IInv, Deliver
    PROVE  /\ StreamInv' /\ Subscribing /\ UNCHANGED <<status, announced, revised>>
           /\ phase = "open"
           /\ UNCHANGED <<doc, stage, unsent, alive, reply, detail, attempts, faults>>
           /\ \/ /\ phase' = "finalizing" /\ ~Subscribing' /\ Q' = <<>>
                 /\ told'[Reader] # <<>> /\ UNCHANGED <<view, missed>>
              \/ /\ phase' = "open" /\ Subscribing' /\ Q' = Q /\ UNCHANGED <<view, missed>>
              \/ /\ phase' = "open" /\ Subscribing'
                 /\ \E t0 \in Types, s0 \in Sections, ok \in BOOLEAN : Forwards(t0, s0, ok)
<1>0. StreamInv /\ ViewTypeOK
  BY DEF IInv
<1>1. /\ phase = "open" /\ StreamNext(Reader)
      /\ UNCHANGED <<doc, stage, unsent, alive, reply, detail, attempts, faults>>
  BY DEF Deliver, jobVars
<1>2. /\ StreamInv' /\ Subscribing /\ UNCHANGED <<status, announced, revised>>
      /\ \/ /\ at'[Reader] = "closed" /\ ~Subscribing'
            /\ Q' = <<>> /\ told'[Reader] # <<>>
         \/ at'[Reader] # "closed" /\ Subscribing' /\ Q' = Q
         \/ /\ at'[Reader] # "closed" /\ Subscribing'
            /\ Q # <<>> /\ ~EndsStream(Head(Q)) /\ Q' = Tail(Q)
  BY <1>0, <1>1, StreamNextIs
<1>3. CASE at'[Reader] = "closed"
  <2>1. phase' = "finalizing" /\ UNCHANGED <<view, missed>>
    BY <1>3 DEF Deliver
  <2> QED
    BY <1>1, <1>2, <1>3, <2>1
<1>4. CASE at'[Reader] # "closed"
  <2>1. PICK ok \in BOOLEAN : Fold(ok)
    BY <1>4 DEF Deliver
  <2>2. phase' = "open"
    BY <1>1, <1>4 DEF Deliver
  <2>3. Q \in Seq(Events)
    BY <1>0, ReaderIs
  <2>4. IF Len(Q') < Len(Q)
        THEN view' = Applied(view, Head(Q), ok) /\ missed' = (missed \/ ~ok)
        ELSE UNCHANGED <<view, missed>>
    BY <2>1 DEF Fold, Q
  <2>5. CASE Q' = Q
    <3>1. UNCHANGED <<view, missed>>
      BY <2>3, <2>4, <2>5
    <3> QED
      BY <1>1, <1>2, <1>4, <2>2, <2>5, <3>1
  <2>6. CASE Q # <<>> /\ ~EndsStream(Head(Q)) /\ Q' = Tail(Q)
    <3>1. Len(Q') < Len(Q) /\ Head(Q) \in Events
      BY <2>3, <2>6
    <3>2. PICK t0 \in Types, s0 \in Sections : Head(Q) = <<t0, s0>>
      BY <2>6, <3>1, SectionEventsAre
    <3>3. view' = Applied(view, <<t0, s0>>, ok) /\ missed' = (missed \/ ~ok)
      BY <2>4, <3>1, <3>2
    <3>4. view \in View
      BY <1>0, TypesHold
    <3>5. Folded(view', view, t0, s0, ok)
      BY <2>1, <3>2, <3>3, <3>4, AppliedIs
    <3>6. Forwards(t0, s0, ok)
      BY <2>1, <2>6, <3>2, <3>3, <3>5 DEF Forwards
    <3> QED
      BY <1>1, <1>2, <1>4, <2>1, <2>2, <3>2, <3>6
  <2> QED
    BY <1>2, <1>4, <2>5, <2>6
<1> QED
  BY <1>3, <1>4

(* A view that still hears of sections does not show a final document, and *)
(* what it hears next is so.                                               *)
LEMMA HeadIs ==
    ASSUME IInv, NEW t0 \in Types, NEW s0 \in Sections, NEW ok, Forwards(t0, s0, ok)
    PROVE  /\ view.document.status \notin Outcomes
           /\ t0 # "none"
           /\ t0 = "section_ready" => s0 \in doc.sections
           /\ t0 = "section_failed" => stage[s0] \in Dead /\ OnlyMedia(Q, 1, s0)
           /\ view.signals[s0] = "failed" => t0 = "media_frame_ready"
<1>0. StreamInv /\ QueuedInv /\ SignalInv /\ KeptInv
  BY DEF IInv
<1>1. Q # <<>> /\ Head(Q) = <<t0, s0>> /\ Q \in Seq(Events)
  BY <1>0, ReaderIs DEF Forwards
<1>2. 1 \in 1..Len(Q) /\ 1 \in (0+1)..Len(Q) /\ Q[1] = <<t0, s0>>
  BY <1>1
<1>3. view.document.status \notin Outcomes
  <2>1. ~EndsStream(<<t0, s0>>)
    BY SectionEventsAre
  <2> QED
    BY <1>0, <1>2, <2>1 DEF KeptInv
<1>4. /\ t0 # "none"
      /\ t0 = "section_ready" => s0 \in doc.sections
      /\ t0 = "section_failed" => stage[s0] \in Dead /\ OnlyMedia(Q, 1, s0)
  BY <1>0, <1>2 DEF QueuedInv, Queued
<1>5. view.signals[s0] = "failed" => t0 = "media_frame_ready"
  BY <1>0, <1>2 DEF SignalInv, OnlyMedia
<1> QED
  BY <1>3, <1>4, <1>5

LEMMA TailHearsMedia ==
    ASSUME NEW q \in Seq(Events), q # <<>>, NEW s, OnlyMedia(q, 0, s) \/ OnlyMedia(q, 1, s)
    PROVE  OnlyMedia(Tail(q), 0, s)
<1>1. OnlyMedia(q, 0 + 1, s)
  <2>1. \A j \in (1+1)..Len(q) : j \in (0+1)..Len(q)
    OBVIOUS
  <2>2. 0 + 1 = 1
    OBVIOUS
  <2> QED
    BY <2>1, <2>2 DEF OnlyMedia
<1> QED
  BY <1>1, TailMedia

LEMMA ForwardsKeep ==
    ASSUME IInv, NEW t0 \in Types, NEW s0 \in Sections, NEW ok, Forwards(t0, s0, ok),
           StreamInv', Subscribing, Subscribing', UNCHANGED <<status, announced, revised>>,
           phase = "open", phase' = "open",
           UNCHANGED <<doc, stage, unsent, alive, reply, detail, attempts, faults>>
    PROVE  IInv'
<1>0. /\ StreamInv /\ ViewTypeOK /\ JobInv /\ DraftInv /\ PhaseInv /\ FinalInv
      /\ QueuedInv /\ SignalInv /\ KeptInv /\ ChainInv /\ FollowInv
  BY DEF IInv
<1>1. /\ ok \in BOOLEAN /\ Q # <<>> /\ Head(Q) = <<t0, s0>> /\ Q' = Tail(Q) /\ Q \in Seq(Events)
      /\ Folded(view', view, t0, s0, ok) /\ missed' = (missed \/ ~ok)
  BY <1>0, ReaderIs DEF Forwards
<1>2. /\ view \in View /\ view.document \in Document /\ doc \in Document
      /\ stage \in [Sections -> Types] /\ missed \in BOOLEAN /\ reply = NoReply
      /\ reply.document = NoDocument
      /\ view.signals \in [Sections -> Signals]
  BY <1>0, TypesHold, DocumentConstants DEF ViewTypeOK, PhaseInv, Refreshing
<1>3. /\ view.document.status \notin Outcomes
      /\ t0 # "none"
      /\ t0 = "section_ready" => s0 \in doc.sections
      /\ t0 = "section_failed" => stage[s0] \in Dead /\ OnlyMedia(Q, 1, s0)
      /\ view.signals[s0] = "failed" => t0 = "media_frame_ready"
  BY HeadIs
<1>4. /\ view' \in View
      /\ ShownBecomes(view'.document, view.document, t0, s0, ok)
      /\ view'.signals[s0] = Signalled(view.signals[s0], t0)
      /\ \A x \in Sections \ {s0} : view'.signals[x] = view.signals[x]
  BY <1>1 DEF Folded
<1>5. ViewTypeOK'
  <2>1. missed' \in BOOLEAN
    BY <1>1
  <2> QED
    BY <1>0, <1>4, <2>1 DEF ViewTypeOK
<1>6. JobInv' /\ DraftInv'
  BY <1>0 DEF JobInv, DraftInv
<1>7. PhaseInv'
  <2>1. alive
    BY <1>0, <1>1 DEF PhaseInv
  <2> QED
    BY <1>2, <2>1 DEF PhaseInv
<1>8. FinalInv'
  BY DEF FinalInv
<1>9. QueuedInv'
  BY <1>0, <1>1, TailQueued DEF QueuedInv
<1>10. SignalInv'
  <2>1. SUFFICES ASSUME NEW s \in Sections, view'.signals[s] = "failed"
                 PROVE  stage[s] \in Dead /\ OnlyMedia(Q', 0, s)
    BY DEF SignalInv
  <2>2. view.signals[s] = "failed" \/ (s = s0 /\ t0 = "section_failed")
    BY <1>2, <1>4, <2>1, SignalledIs
  <2>3. stage[s] \in Dead /\ (OnlyMedia(Q, 0, s) \/ OnlyMedia(Q, 1, s))
    BY <1>0, <1>3, <2>2 DEF SignalInv
  <2>4. OnlyMedia(Tail(Q), 0, s)
    BY <1>1, <2>3, TailHearsMedia
  <2> QED
    BY <1>1, <2>3, <2>4
<1>11. KeptInv'
  <2>1. KeptBy(view.signals, view.document, doc)
    BY <1>0 DEF KeptInv
  <2>2. PICK w \in View : w = view
    BY <1>2
  <2>3. PICK n : n = view'
    OBVIOUS
  <2>4. /\ Folded(n, w, t0, s0, ok) /\ w.document.status \notin Outcomes
        /\ KeptBy(w.signals, w.document, doc)
        /\ t0 = "section_ready" => s0 \in doc.sections
        /\ w.signals[s0] = "failed" => t0 = "media_frame_ready"
    BY <1>1, <1>3, <2>1, <2>2, <2>3
  <2>5. KeptBy(n.signals, n.document, doc) /\ n.document.status \notin Outcomes
    BY <1>1, <2>4, FoldKept
  <2>6. KeptBy(view'.signals, view'.document, doc) /\ view'.document.status \notin Outcomes
    BY <2>3, <2>5
  <2> QED
    BY <1>2, <2>6 DEF KeptInv
<1>12. ChainInv'
  BY <1>0, <1>1, TailChained DEF ChainInv, Running
<1>13. FollowInv'
  <2>1. SUFFICES ASSUME Running, ~missed', NEW s \in Sections
                 PROVE  Shows(Q', unsent, stage[s], doc.sections, view'.document, s)
    BY <1>2 DEF FollowInv, Running, Base
  <2>2. ~missed /\ ok = TRUE
    BY <1>1, <1>2, <2>1
  <2>3. Current
    BY DEF Current, Over
  <2>4. Shows(Q, unsent, stage[s], doc.sections, view.document, s)
    BY <1>0, <1>2, <2>1, <2>2, <2>3 DEF FollowInv, Base
  <2>5. CASE s # s0
    <3>1. Head(Q)[2] # s
      BY <1>1, <2>5
    <3>2. /\ s \in view'.document.manifest <=> s \in view.document.manifest
          /\ s \in view'.document.sections <=> s \in view.document.sections
      BY <1>4, <2>5 DEF ShownBecomes
    <3>3. s \in view'.document.partial <=> s \in view.document.partial
      BY <1>4, <2>5 DEF ShownBecomes
    <3>4. s \in view'.document.failed <=> s \in view.document.failed
      BY <1>4, <2>5 DEF ShownBecomes
    <3> QED
      BY <1>1, <2>4, <3>1, <3>2, <3>3, <3>4, OtherShows
  <2>6. CASE s = s0
    <3>1. t0 = "section_partial" => s0 \notin view.document.failed
      <4>1. doc.failed = {} /\ ~Lost(doc)
        BY <1>0, <1>2, <2>1, LostIs DEF DraftInv, Running, Outcomes
      <4>2. \A x \in view.document.failed : view.signals[x] = "failed"
        BY <1>0, <4>1 DEF KeptInv, KeptBy
      <4> QED
        BY <1>3, <4>2
    <3>2. Chained(Q, unsent, stage)
      BY <1>0, <2>1 DEF ChainInv
    <3>3. ShownBecomes(view'.document, view.document, t0, s0, TRUE)
      BY <1>4, <2>2
    <3>4. Shows(Q, unsent, stage[s0], doc.sections, view.document, s0)
      BY <2>4, <2>6
    <3>5. Shows(Q', unsent, stage[s0], doc.sections, view'.document, s0)
      BY <1>1, <1>3, <3>1, <3>2, <3>3, <3>4, FoldShows
    <3> QED
      BY <2>6, <3>5
  <2> QED
    BY <2>5, <2>6
<1> QED
  BY <1>5, <1>6, <1>7, <1>8, <1>9, <1>10, <1>11, <1>12, <1>13 DEF IInv

LEMMA DeliverKeeps ==
    ASSUME IInv, Deliver
    PROVE  IInv'
<1>0. /\ StreamInv /\ ViewTypeOK /\ JobInv /\ DraftInv /\ PhaseInv /\ FinalInv
      /\ QueuedInv /\ SignalInv /\ KeptInv /\ ChainInv /\ FollowInv
  BY DEF IInv
<1>1. /\ StreamInv' /\ Subscribing /\ UNCHANGED <<status, announced, revised>>
      /\ phase = "open"
      /\ UNCHANGED <<doc, stage, unsent, alive, reply, detail, attempts, faults>>
      /\ \/ /\ phase' = "finalizing" /\ ~Subscribing' /\ Q' = <<>>
            /\ told'[Reader] # <<>> /\ UNCHANGED <<view, missed>>
         \/ /\ phase' = "open" /\ Subscribing' /\ Q' = Q /\ UNCHANGED <<view, missed>>
         \/ /\ phase' = "open" /\ Subscribing'
            /\ \E t0 \in Types, s0 \in Sections, ok \in BOOLEAN : Forwards(t0, s0, ok)
  BY DeliverIs
<1>2. CASE /\ phase' = "finalizing" /\ ~Subscribing' /\ Q' = <<>>
           /\ told'[Reader] # <<>> /\ UNCHANGED <<view, missed>>
  <2>1. reply = NoReply
    BY <1>0, <1>1 DEF PhaseInv, Refreshing
  <2>2. ViewTypeOK'
    BY <1>0, <1>1, <1>2 DEF ViewTypeOK, Refreshing
  <2>3. JobInv' /\ DraftInv'
    BY <1>0, <1>1 DEF JobInv, DraftInv
  <2>4. PhaseInv'
    BY <1>2 DEF PhaseInv, Refreshing
  <2>5. FinalInv'
    <3>1. ~revised' => status' \in Outcomes
      BY <1>1, <1>2, ReaderAssumption DEF StreamInv, ToldInv
    <3> QED
      BY <1>1, <1>2, <2>1, <3>1, DocumentConstants DEF FinalInv
  <2>6. QueuedInv' /\ SignalInv'
    BY <1>0, <1>1, <1>2, NothingQueued DEF QueuedInv, SignalInv
  <2>7. KeptInv'
    <3>1. \A i \in 1..Len(Q') : FALSE
      BY <1>2
    <3> QED
      BY <1>0, <1>1, <1>2, <3>1 DEF KeptInv
  <2>8. ChainInv'
    BY <1>2, NothingChained DEF ChainInv
  <2>9. FollowInv'
    BY <1>2 DEF FollowInv, Current
  <2> QED
    BY <1>1, <2>2, <2>3, <2>4, <2>5, <2>6, <2>7, <2>8, <2>9 DEF IInv
<1>3. CASE phase' = "open" /\ Subscribing' /\ Q' = Q /\ UNCHANGED <<view, missed>>
  <2>1. ViewTypeOK' /\ JobInv' /\ DraftInv'
    BY <1>0, <1>1, <1>3 DEF ViewTypeOK, JobInv, DraftInv
  <2>2. PhaseInv' /\ FinalInv'
    BY <1>0, <1>1, <1>3 DEF PhaseInv, FinalInv
  <2>3. QueuedInv' /\ SignalInv' /\ KeptInv'
    BY <1>0, <1>1, <1>3 DEF QueuedInv, SignalInv, KeptInv
  <2>4. ChainInv' /\ FollowInv'
    BY <1>0, <1>1, <1>3 DEF ChainInv, FollowInv, Running, Current, Base
  <2> QED
    BY <1>1, <2>1, <2>2, <2>3, <2>4 DEF IInv
<1>4. ASSUME phase' = "open", Subscribing',
             NEW t0 \in Types, NEW s0 \in Sections, NEW ok \in BOOLEAN, Forwards(t0, s0, ok)
      PROVE  IInv'
  BY <1>1, <1>4, ForwardsKeep
<1> QED
  BY <1>1, <1>2, <1>3, <1>4


-----------------------------------------------------------------------------
LEMMA ClientStandsKeeps ==
    ASSUME IInv, UNCHANGED clientVars
    PROVE  IInv'
<1>0. /\ StreamInv /\ ViewTypeOK /\ JobInv /\ DraftInv /\ PhaseInv /\ FinalInv
      /\ QueuedInv /\ SignalInv /\ KeptInv /\ ChainInv /\ FollowInv
  BY DEF IInv
<1>1. /\ UNCHANGED vars
      /\ UNCHANGED <<doc, stage, unsent, alive, phase, reply, detail, view, attempts, faults, missed>>
  BY DEF clientVars, jobVars, viewVars
<1>2. StreamInv' /\ Q' = Q /\ (Subscribing' <=> Subscribing) /\ UNCHANGED <<status, revised>>
  BY <1>0, <1>1, StreamStands
<1>3. ViewTypeOK' /\ PhaseInv' /\ FinalInv' /\ KeptInv'
  BY <1>0, <1>1, <1>2 DEF ViewTypeOK, PhaseInv, FinalInv, KeptInv
<1>4. FollowInv'
  BY <1>0, <1>1, <1>2 DEF FollowInv, Running, Current, Base
<1> QED
  BY <1>1, <1>3, <1>4, ViewMoves

(* The invariant is inductive: one case for each action.                   *)
LEMMA ClientNextKeeps == IInv /\ [ClientNext]_clientVars => IInv'
<1> SUFFICES ASSUME IInv, [ClientNext]_clientVars PROVE IInv'
  OBVIOUS
<1>1. CASE JobNext
  <2>1. ASSUME NEW s \in Sections, SectionMoves(s) PROVE IInv'
    BY <2>1, SectionMovesKeeps
  <2> QED
    BY <1>1, <2>1, EventPublishedKeeps, JobConcludesKeeps, InterruptedKeeps,
       RowSettlesKeeps, JobAnnouncesKeeps DEF JobNext
<1>2. CASE Load
  BY <1>2, PhaseStepsKeep
<1>3. CASE ViewNext
  BY <1>3, DetailAnsweredKeeps, DocumentAnsweredKeeps, RefreshedKeeps, PhaseStepsKeep,
     OpensKeeps, DeliverKeeps DEF ViewNext
<1>4. CASE FaultNext
  BY <1>4, JobRevisesKeeps, RefreshFailsKeeps, PhaseStepsKeep, HangUpsKeep DEF FaultNext
<1>5. CASE UNCHANGED clientVars
  BY <1>5, ClientStandsKeeps
<1> QED
  BY <1>1, <1>2, <1>3, <1>4, <1>5 DEF ClientNext

(* A view that missed nothing and has read all it was sent shows what the  *)
(* row holds.                                                              *)
LEMMA IInvFollows == IInv => ViewFollowsRow
<1> SUFFICES ASSUME IInv, phase = "open", queue[Reader] = <<>>, unsent = {}, ~missed,
                    alive, doc.status \notin Outcomes, NEW s \in Sections
             PROVE  /\ s \in view.document.manifest <=> s \in doc.manifest
                    /\ s \notin view.document.failed =>
                         /\ s \in view.document.sections <=> s \in doc.sections
                         /\ s \in doc.partial => s \in view.document.partial
                         /\ s \in view.document.partial =>
                               s \in doc.partial \/ stage[s] = "section_final"
  BY DEF ViewFollowsRow
<1>1. ViewTypeOK /\ DraftInv /\ PhaseInv /\ KeptInv /\ FollowInv
  BY DEF IInv
<1>2. Q = <<>> /\ Running /\ Current /\ Base = view.document
  BY <1>1, DocumentConstants DEF Q, Running, Current, Over, PhaseInv, Refreshing, Base
<1>3. Shows(<<>>, {}, stage[s], doc.sections, view.document, s)
  BY <1>1, <1>2 DEF FollowInv
<1>4. Quiet(<<>>, {}, 0, s) /\ ~Pends(<<>>, {}, <<"section_ready", s>>)
  <2>1. <<>> \in Seq(Events) /\ 0 >= Len(<<>>) /\ \A i \in 1..Len(<<>>) : FALSE
    OBVIOUS
  <2>2. Silent(<<>>, 0, s)
    BY <2>1, EndTells
  <2> QED
    BY <2>1, <2>2 DEF Quiet, Pends
<1>5. /\ s \in doc.manifest <=> stage[s] # "none"
      /\ s \in doc.partial <=> stage[s] \in Drafts
  BY <1>1 DEF DraftInv
<1>6. view.document.sections \subseteq doc.sections
  <2>1. ~Lost(doc)
    BY <1>1, TypesHold, LostIs DEF Outcomes
  <2> QED
    BY <1>1, <2>1 DEF KeptInv, KeptBy
<1> QED
  BY <1>3, <1>4, <1>5, <1>6 DEF Shows

LEMMA IInvFinal == IInv => FinalizedShowsRow
BY DEF IInv, FinalInv, FinalizedShowsRow

(* What no step does to a slot.                                            *)
SlotsStayNow ==
    \A s \in view.document.manifest \intersect view'.document.manifest :
         /\ SlotIsOver(view, s)
         /\ ~ \E type \in SavedEvents :
                queue[Reader] # <<>> /\ Head(queue[Reader]) = <<type, s>>
         => SlotIsOver(view', s)

LEMMA StepsKeepSlots == IInv /\ [ClientNext]_clientVars => SlotsStayNow
<1> SUFFICES ASSUME IInv, [ClientNext]_clientVars,
                    NEW s \in view.document.manifest, s \in view'.document.manifest,
                    SlotIsOver(view, s),
                    \A type \in SavedEvents : ~(Q # <<>> /\ Head(Q) = <<type, s>>)
             PROVE  SlotIsOver(view', s)
  BY DEF SlotsStayNow, Q
<1>1. ViewTypeOK /\ KeptInv
  BY DEF IInv
<1>2. view \in View /\ view.document \in Document /\ reply.document \in Document
  BY <1>1, TypesHold
<1>3. s \in Sections
  BY <1>2 DEF Document
<1>4. view' = view \/ Refreshed \/ Deliver
  BY DEF ClientNext, JobNext, SectionMoves, EventPublished, JobConcludes, Interrupted, RowSettles,
         JobAnnounces, Load, ViewNext, DetailAnswered, DocumentAnswered, TimerFires, Opens,
         TabShown, FaultNext, JobRevises, RefreshFails, ConnectFails, Breaks, ServerDies,
         TabHidden, clientVars, viewVars
<1>5. CASE Refreshed
  <2>1. view' = Snapshot(view, reply.document) /\ reply.document # NoDocument
    BY <1>5 DEF Refreshed
  <2>2. view'.document = reply.document
    BY <1>2, <2>1 DEF Snapshot, View
  <2>3. KeptBy(view.signals, view.document, reply.document)
    BY <1>1, <2>1 DEF KeptInv
  <2>4. s \in reply.document.manifest
    BY <2>2
  <2> QED
    BY <1>2, <2>1, <2>3, <2>4, SnapshotStays
<1>6. CASE Deliver
  <2>1. \/ view' = view
        \/ \E t0 \in Types, s0 \in Sections, ok \in BOOLEAN : Forwards(t0, s0, ok)
    BY <1>6, DeliverIs
  <2>2. ASSUME NEW t0 \in Types, NEW s0 \in Sections, NEW ok \in BOOLEAN, Forwards(t0, s0, ok)
        PROVE  SlotIsOver(view', s)
    <3>1. Folded(view', view, t0, s0, ok) /\ view.document.status \notin Outcomes
      BY <2>2, HeadIs DEF Forwards
    <3>2. s = s0 => t0 \notin SavedEvents
      BY <2>2 DEF Forwards
    <3> DEFINE n == view'
    <3>3. Folded(n, view, t0, s0, ok) /\ s \in n.document.manifest
      BY <3>1
    <3> HIDE DEF n
    <3>4. SlotIsOver(n, s)
      BY <1>2, <1>3, <3>1, <3>2, <3>3, FoldStays
    <3> QED
      BY <3>4 DEF n
  <2> QED
    BY <2>1, <2>2
<1> QED
  BY <1>4, <1>5, <1>6

-----------------------------------------------------------------------------
(* The inductive invariant holds of every behaviour.                       *)
THEOREM ClientInvariant == ClientSpec => []IInv
<1> QED
  BY InitIInv, ClientNextKeeps, PTL DEF ClientSpec

(* The view, the job's document and what is between them keep their types. *)
THEOREM ViewTypes == ClientSpec => []ViewTypeOK
<1>1. IInv => ViewTypeOK
  BY DEF IInv
<1> QED
  BY <1>1, ClientInvariant, PTL

(* However the job's events, their delivery, faults and refreshes fall, a  *)
(* connected view that missed nothing and has read all it was sent shows   *)
(* the sections the row holds.                                             *)
THEOREM ViewFollows == ClientSpec => []ViewFollowsRow
<1> QED
  BY IInvFollows, ClientInvariant, PTL

(* A view whose stream was ended by an outcome and that could read the row *)
(* after that shows its last document and status.                          *)
THEOREM FinalizedShows == ClientSpec => []FinalizedShowsRow
<1> QED
  BY IInvFinal, ClientInvariant, PTL

(* No late event and no refresh that knows less takes a slot that is ready *)
(* or failed back into work in progress, unless the section is written     *)
(* again.                                                                  *)
THEOREM SlotsNeverReopen == ClientSpec => SlotsStay
<1>1. IInv /\ [ClientNext]_clientVars => [SlotsStayNow]_clientVars
  BY StepsKeepSlots
<1> QED
  BY <1>1, ClientInvariant, PTL DEF ClientSpec, SlotsStay, SlotsStayNow, SlotIsOver

(* The stream's promises hold with a real job behind it and a view before  *)
(* it: no outcome passes a connection, and none hears two.                 *)
THEOREM ConnectionPromises == ClientSpec => [](OutcomeNotMissed /\ ToldTheOutcome)
<1>1. IInv => OutcomeNotMissed /\ ToldTheOutcome
  BY DEF IInv, StreamInv, ToldInv, ToldTheOutcome
<1> QED
  BY <1>1, ClientInvariant, PTL
=============================================================================
