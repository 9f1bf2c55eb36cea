-------------------------- MODULE ListPagesProofs --------------------------
(***************************************************************************)
(* ListPages, proved for any pages whose operations have different names,  *)
(* any clusters, and any number of requests, timers and polls.             *)
(***************************************************************************)
EXTENDS ListPages, TLAPS

Reads    == [at : Places, quiet : BOOLEAN, since : Nat, excuse : Causes \cup {None}]
Requests == [op : page.ops, of : Clusters \cup {None}, to : Places]
Timeouts == [at : Places, label : BOOLEAN]

\* The clusters a page may have seen: while no other tab has chosen another one, the
\* stored one; for a page that keeps its cluster, that one.
Known == IF page.from = "none" THEN {None}
         ELSE IF page.from = "state" THEN {None, cluster}
         ELSE IF switched THEN Clusters \cup {None} ELSE {None, stored}

From(gs) == {gs[i].at[1] : i \in DOMAIN gs}

PlacesKnown ==
    /\ cluster \in Known
    /\ rows # None => rows.at[1] \in Known
    /\ From(gets) \subseteq Known
    /\ \A i \in DOMAIN acts : acts[i].to[1] \in Known
    /\ From(timers) \subseteq Known
    /\ poll # None => poll.at[1] \in Known

\* The dialog of a row is open for the cluster that the page would name, unless
\* another tab has chosen another one.
DialogOK ==
    dialog # None /\ dialog.op.row =>
        \/ page.from = "storage" /\ switched
        \/ /\ dialog.of = cluster
           /\ dialog.of = None => page.from = "none"
           /\ page.from = "storage" => cluster = stored

FlagsUp == \A i \in DOMAIN acts : acts[i].op.guard = "flag" => acts[i].op.name \in pending

\* What is fetched with the skeleton later on has a cluster.
TimersOK ==
    \A i \in DOMAIN timers :
        timers[i].label \/ (page.from = "state" => timers[i].at[1] # None)

PollOK ==
    poll # None =>
        /\ page.from = "state" => poll.at[1] # None
        /\ \A op \in page.ops : op.later = "poll" => poll.label = op.label

IInv == /\ TypeOK /\ page \in Pages /\ SkeletonHasRequest /\ MisdirectedHasCause /\ OneAtATime
        /\ LabelHasRequest /\ PlacesKnown /\ DialogOK /\ FlagsUp /\ TimersOK /\ PollOK

-----------------------------------------------------------------------------
(* Sequences.                                                              *)

LEMMA Element ==
    ASSUME NEW T, NEW s \in Seq(T), NEW i \in DOMAIN s
    PROVE  s[i] \in T
  OBVIOUS

LEMMA AppendOK ==
    ASSUME NEW T, NEW s \in Seq(T), NEW x \in T
    PROVE  /\ Append(s, x) \in Seq(T)
           /\ DOMAIN Append(s, x) = DOMAIN s \cup {Len(s) + 1}
           /\ Len(s) + 1 \notin DOMAIN s
           /\ \A j \in DOMAIN s : Append(s, x)[j] = s[j]
           /\ Append(s, x)[Len(s) + 1] = x
  OBVIOUS

\* Without(s, i) holds the other elements, each once.
LEMMA WithoutOK ==
    ASSUME NEW T, NEW s \in Seq(T), NEW i \in DOMAIN s
    PROVE  /\ Without(s, i) \in Seq(T)
           /\ \A j \in DOMAIN Without(s, i) :
                 \E k \in DOMAIN s \ {i} : Without(s, i)[j] = s[k]
           /\ \A k \in DOMAIN s \ {i} :
                 \E j \in DOMAIN Without(s, i) : Without(s, i)[j] = s[k]
           /\ \A j, k \in DOMAIN Without(s, i) :
                 j # k => \E x, y \in DOMAIN s \ {i} :
                             x # y /\ Without(s, i)[j] = s[x] /\ Without(s, i)[k] = s[y]
<1> DEFINE w == Without(s, i)
           b(j) == IF j < i THEN j ELSE j + 1
<1>1. Len(s) \in Nat /\ DOMAIN s = 1 .. Len(s) /\ i \in 1 .. Len(s)
  OBVIOUS
<1>2. DOMAIN w = 1 .. Len(s) - 1 /\ Len(s) - 1 \in Nat
  BY <1>1 DEF Without
<1>3. \A j \in DOMAIN w : b(j) \in DOMAIN s \ {i} /\ w[j] = s[b(j)]
  BY <1>1, <1>2 DEF Without
<1>4. w \in Seq(T)
  BY <1>1, <1>2, <1>3 DEF Without
<1>5. \A j, k \in DOMAIN w : j # k => b(j) # b(k)
  BY <1>1, <1>2
<1>6. ASSUME NEW k \in DOMAIN s \ {i} PROVE \E j \in DOMAIN w : w[j] = s[k]
  <2>1. CASE k < i
    <3>1. k \in DOMAIN w /\ b(k) = k
      BY <1>1, <1>2, <2>1
    <3> QED
      BY <1>3, <3>1
  <2>2. CASE k > i
    <3>1. k - 1 \in DOMAIN w /\ b(k - 1) = k
      BY <1>1, <1>2, <2>2
    <3> QED
      BY <1>3, <3>1
  <2> QED
    BY <1>1, <2>1, <2>2
<1> HIDE DEF w, b
<1>7. \A j \in DOMAIN w : \E k \in DOMAIN s \ {i} : w[j] = s[k]
  BY <1>3
<1>8. \A j, k \in DOMAIN w :
         j # k => \E x, y \in DOMAIN s \ {i} : x # y /\ w[j] = s[x] /\ w[k] = s[y]
  BY <1>3, <1>5
<1> QED
  BY <1>4, <1>6, <1>7, <1>8 DEF w

LEMMA FromWithout ==
    ASSUME NEW T, NEW s \in Seq(T), NEW i \in DOMAIN s
    PROVE  From(Without(s, i)) \subseteq From(s)
BY WithoutOK DEF From

LEMMA FromAppend ==
    ASSUME NEW T, NEW s \in Seq(T), NEW x \in T
    PROVE  From(Append(s, x)) = From(s) \cup {x.at[1]}
BY AppendOK DEF From

-----------------------------------------------------------------------------
(* List requests.  Loud: one of them takes the skeleton away.              *)

Loud(gs) == \E i \in DOMAIN gs : ~gs[i].quiet

\* Excuse and Rest change nothing of a request but its excuse.
LEMMA ExcuseOK ==
    ASSUME NEW gs \in Seq(Reads), NEW f, DOMAIN f = DOMAIN gs, f = [i \in DOMAIN gs |-> f[i]],
           \A i \in DOMAIN gs : \E why \in Causes \cup {None} :
              f[i] \in {gs[i], [gs[i] EXCEPT !.excuse = why]}
    PROVE  f \in Seq(Reads) /\ From(f) = From(gs) /\ (Loud(f) <=> Loud(gs))
           /\ \A i \in DOMAIN gs : f[i].quiet = gs[i].quiet
<1>1. ASSUME NEW i \in DOMAIN gs
      PROVE  f[i] \in Reads /\ f[i].at = gs[i].at /\ f[i].quiet = gs[i].quiet
  <2>1. gs[i] \in Reads
    BY Element
  <2>2. PICK why \in Causes \cup {None} : f[i] \in {gs[i], [gs[i] EXCEPT !.excuse = why]}
    OBVIOUS
  <2>3. CASE f[i] = gs[i]
    BY <2>1, <2>3
  <2>4. CASE f[i] = [gs[i] EXCEPT !.excuse = why]
    <3> DEFINE g == gs[i]
    <3> HIDE DEF g
    <3>1. g \in Reads /\ f[i] = [g EXCEPT !.excuse = why]
      BY <2>1, <2>4 DEF g
    <3>2. f[i] \in Reads /\ f[i].at = g.at /\ f[i].quiet = g.quiet
      BY <3>1 DEF Reads
    <3> QED
      BY <3>2 DEF g
  <2> QED
    BY <2>2, <2>3, <2>4
<1>2. f \in Seq(Reads)
  <2>1. Len(gs) \in Nat /\ DOMAIN gs = 1 .. Len(gs)
    OBVIOUS
  <2> QED
    BY <1>1, <2>1
<1> QED
  BY <1>1, <1>2 DEF From, Loud

LEMMA Excused ==
    ASSUME NEW gs \in Seq(Reads), NEW why \in Causes \cup {None}
    PROVE  /\ Excuse(gs, why) \in Seq(Reads) /\ From(Excuse(gs, why)) = From(gs)
           /\ Loud(Excuse(gs, why)) <=> Loud(gs)
<1> DEFINE f == Excuse(gs, why)
<1>1. DOMAIN f = DOMAIN gs /\ f = [i \in DOMAIN gs |-> f[i]]
  BY DEF Excuse
<1>2. ASSUME NEW i \in DOMAIN gs
      PROVE  \E y \in Causes \cup {None} : f[i] \in {gs[i], [gs[i] EXCEPT !.excuse = y]}
  <2> DEFINE y == Either(why, gs[i].excuse)
  <2>1. gs[i] \in Reads
    BY Element
  <2>2. y \in Causes \cup {None}
    BY <2>1 DEF Reads, Either
  <2>3. f[i] = [gs[i] EXCEPT !.excuse = y]
    BY DEF Excuse
  <2> HIDE DEF f, y
  <2> QED
    BY <2>2, <2>3
<1> HIDE DEF f
<1> QED
  BY <1>1, <1>2, ExcuseOK DEF f

LEMMA RestOK ==
    ASSUME TypeOK, NEW i \in DOMAIN gets, NEW why \in Causes \cup {None}
    PROVE  /\ Rest(i, why) \in Seq(Reads) /\ From(Rest(i, why)) \subseteq From(gets)
           /\ Loud(gets) /\ gets[i].quiet => Loud(Rest(i, why))
<1> DEFINE f == [j \in DOMAIN gets |->
                    IF j < i THEN [gets[j] EXCEPT !.excuse = why] ELSE gets[j]]
<1>1. gets \in Seq(Reads)
  BY DEF TypeOK, Reads
<1>2. DOMAIN f = DOMAIN gets /\ f = [j \in DOMAIN gets |-> f[j]]
  OBVIOUS
<1>3. \A j \in DOMAIN gets : f[j] \in {gets[j], [gets[j] EXCEPT !.excuse = why]}
  OBVIOUS
<1>4. Rest(i, why) = Without(f, i)
  BY DEF Rest
<1> HIDE DEF f
<1>5. \A j \in DOMAIN gets : \E y \in Causes \cup {None} :
         f[j] \in {gets[j], [gets[j] EXCEPT !.excuse = y]}
  BY <1>3
<1>6. /\ f \in Seq(Reads) /\ From(f) = From(gets) /\ (Loud(f) <=> Loud(gets))
      /\ \A j \in DOMAIN gets : f[j].quiet = gets[j].quiet
  BY <1>1, <1>2, <1>5, ExcuseOK
<1>7. ASSUME Loud(f), f[i].quiet PROVE Loud(Without(f, i))
  <2>1. PICK k \in DOMAIN f \ {i} : ~f[k].quiet
    BY <1>7 DEF Loud
  <2>2. i \in DOMAIN f
    BY <1>2
  <2>3. \A x \in DOMAIN f \ {i} : \E j \in DOMAIN Without(f, i) : Without(f, i)[j] = f[x]
    BY <1>6, <2>2, WithoutOK
  <2>4. PICK j \in DOMAIN Without(f, i) : Without(f, i)[j] = f[k]
    BY <2>1, <2>3
  <2> QED
    BY <2>1, <2>4 DEF Loud
<1>8. Without(f, i) \in Seq(Reads) /\ From(Without(f, i)) \subseteq From(f)
  BY <1>2, <1>6, WithoutOK, FromWithout
<1> QED
  BY <1>4, <1>6, <1>7, <1>8

LEMMA FetchOK ==
    ASSUME TypeOK, made' \in [Clusters \cup {None} -> Nat], NEW gs \in Seq(Reads),
           NEW at \in Places, NEW quiet \in BOOLEAN, NEW drops \in BOOLEAN
    PROVE  /\ Fetch(gs, at, quiet, drops) \in Seq(Reads)
           /\ From(Fetch(gs, at, quiet, drops)) \subseteq From(gs) \cup {at[1]}
           /\ Loud(gs) => Loud(Fetch(gs, at, quiet, drops))
           /\ ~quiet /\ (page.from = "state" => at[1] # None)
              => Loud(Fetch(gs, at, quiet, drops))
<1> DEFINE to  == IF drops THEN <<at[1], All>> ELSE at
           why == IF to = <<NextCluster, filter>> THEN None
                  ELSE IF drops THEN "unfiltered" ELSE "closure"
           g   == Get(to, quiet, why)
<1>1. to \in Places /\ to[1] = at[1] /\ to[1] \in Clusters \cup {None}
  BY DEF Places, Filters
<1>2. why \in Causes \cup {None}
  BY DEF Causes
<1>3. Fetch(gs, at, quiet, drops) = IF page.from = "state" /\ at[1] = None THEN gs
                                    ELSE Append(gs, g)
  BY DEF Fetch
<1> HIDE DEF to, why
<1>4. g \in Reads /\ g.at = to /\ g.quiet = quiet
  BY <1>1, <1>2 DEF Get, Reads
<1> HIDE DEF g
<1>5. /\ Append(gs, g) \in Seq(Reads)
      /\ From(Append(gs, g)) = From(gs) \cup {at[1]}
      /\ Loud(gs) => Loud(Append(gs, g))
      /\ ~quiet => Loud(Append(gs, g))
  <2>1. Append(gs, g) \in Seq(Reads) /\ From(Append(gs, g)) = From(gs) \cup {at[1]}
    BY <1>1, <1>4, AppendOK, FromAppend
  <2> QED
    BY <1>4, <2>1, AppendOK DEF Loud
<1> QED
  BY <1>3, <1>5

-----------------------------------------------------------------------------
(* Renders.                                                                *)

LEMMA PageOK ==
    ASSUME TypeOK, page \in Pages
    PROVE  /\ page.from \in {"none", "state", "storage"} /\ page.ops \subseteq Op
           /\ page.from = "state" => "cluster" \in page.deps
           /\ \A op \in page.ops :
                 page.from = "state" /\ op.later = "settled" => op.label
           /\ \A x, y \in page.ops : x.name = y.name => x = y
           /\ \A x, y \in page.ops : x.later = "poll" /\ y.later = "poll" => x = y
<1>1. page \in Page
  BY DEF TypeOK
<1> QED
  BY <1>1, ListPagesAssumption DEF Page

\* What a page may have seen stays so while its cluster is kept.
LEMMA KnownStays ==
    ASSUME IInv, page' = page, stored' = stored, switched' = switched,
           cluster' = cluster \/ page.from # "state" \/ cluster = None
    PROVE  Known \subseteq Known'
BY PageOK DEF IInv, TypeOK, Known

\* The cluster a render may come to.
Follows(c) ==
    \/ c = NextCluster
    \/ page.from = "state" /\ cluster = None /\ c = stored

\* What it leaves is typed, the skeleton has its request, and the clusters are known.
Rendered ==
    /\ cluster' \in Clusters \cup {None} /\ filter' \in Filters
    /\ gets' \in Seq(Reads) /\ loading' \in BOOLEAN /\ cause' \in Causes \cup {None}
    /\ SkeletonHasRequest'
    /\ Known \subseteq Known' /\ cluster' \in Known' /\ From(gets') \subseteq Known'

LEMMA RenderOK ==
    ASSUME IInv, page' = page, stored' = stored, switched' = switched,
           made' \in [Clusters \cup {None} -> Nat],
           NEW c, Follows(c), NEW f \in Filters, NEW gs \in Seq(Reads), From(gs) \subseteq Known,
           NEW ld \in BOOLEAN, ld => Loud(gs) \/ (page.from = "state" /\ cluster = None),
           NEW why \in Causes \cup {None}, Render(c, f, gs, ld, why)
    PROVE  /\ cluster' = c /\ Rendered
<1>1. /\ cluster' = c /\ filter' = f
      /\ gets' = IF Refetches(c, f) THEN Append(gs, Get(<<c, f>>, FALSE, None))
                 ELSE Excuse(gs, IF <<c, f>> # Here /\ ~Refetches(c, f) THEN "unasked" ELSE None)
      /\ loading' = (ld \/ Refetches(c, f))
      /\ cause' = IF <<c, f>> # Here /\ ~Refetches(c, f) THEN "unasked" ELSE why
  BY DEF Render
<1>2. page.from \in {"none", "state", "storage"}
  BY PageOK DEF IInv
<1>3. c \in Clusters \cup {None} /\ cluster \in Clusters \cup {None} /\ stored \in Clusters \cup {None}
  BY DEF IInv, TypeOK, Follows, NextCluster
<1>4. Known \subseteq Known'
  BY <1>1, <1>2, KnownStays DEF Follows, NextCluster
<1>5. c \in Known'
  BY <1>1, <1>2, <1>3 DEF IInv, PlacesKnown, Known, Follows, NextCluster
<1>6. loading' \in BOOLEAN /\ cause' \in Causes \cup {None}
  <2>1. Refetches(c, f) \in BOOLEAN
    BY DEF Refetches
  <2> QED
    BY <1>1, <2>1 DEF Causes
<1>7. CASE Refetches(c, f)
  <2> DEFINE g == Get(<<c, f>>, FALSE, None)
  <2>1. g \in Reads /\ g.at[1] = c /\ g.quiet = FALSE
    BY <1>3 DEF Get, Reads, Places
  <2> HIDE DEF g
  <2>2. gets' = Append(gs, g)
    BY <1>1, <1>7 DEF g
  <2>3. gets' \in Seq(Reads) /\ From(gets') = From(gs) \cup {c} /\ Loud(gets')
    BY <2>1, <2>2, AppendOK, FromAppend DEF Loud
  <2>4. SkeletonHasRequest'
    BY <2>3 DEF Loud, SkeletonHasRequest
  <2> QED
    BY <1>1, <1>3, <1>4, <1>5, <1>6, <2>3, <2>4 DEF Rendered
<1>8. CASE ~Refetches(c, f)
  <2> DEFINE y == IF <<c, f>> # Here /\ ~Refetches(c, f) THEN "unasked" ELSE None
  <2>1. y \in Causes \cup {None}
    BY DEF Causes
  <2>2. gets' = Excuse(gs, y)
    BY <1>1, <1>8
  <2> HIDE DEF y
  <2>3. gets' \in Seq(Reads) /\ From(gets') = From(gs) /\ (Loud(gets') <=> Loud(gs))
    BY <2>1, <2>2, Excused
  <2>4. SkeletonHasRequest'
    <3> SUFFICES ASSUME loading', ~Loud(gets') PROVE page.from = "state" /\ cluster' = None
      BY DEF SkeletonHasRequest, Loud
    <3>1. page.from = "state" /\ cluster = None
      BY <1>1, <1>8, <2>3
    <3>2. c = None
      BY <1>2, <1>8, <3>1, PageOK DEF IInv, Refetches
    <3> QED
      BY <1>1, <3>1, <3>2
  <2> QED
    BY <1>1, <1>3, <1>4, <1>5, <1>6, <2>3, <2>4 DEF Rendered
<1> QED
  BY <1>7, <1>8

\* The usual render, after which a dialog that stays open is still right.
LEMMA RerenderOK ==
    ASSUME IInv, page' = page, stored' = stored, switched' = switched,
           made' \in [Clusters \cup {None} -> Nat],
           NEW gs \in Seq(Reads), From(gs) \subseteq Known,
           NEW ld \in BOOLEAN, ld => Loud(gs) \/ (page.from = "state" /\ cluster = None),
           NEW why \in Causes \cup {None}, Rerender(gs, ld, why)
    PROVE  /\ cluster' = NextCluster /\ Rendered
<1>1. Render(NextCluster, filter, gs, ld, why) /\ Follows(NextCluster) /\ filter \in Filters
  BY DEF Rerender, Follows, IInv, TypeOK
<1> QED
  BY <1>1, RenderOK

LEMMA UnrenderedOK ==
    ASSUME IInv, page' = page, stored' = stored, switched' = switched,
           NEW gs \in Seq(Reads), From(gs) \subseteq Known,
           loading => Loud(gs) \/ (page.from = "state" /\ cluster = None),
           NEW why \in Causes \cup {None}, Unrendered(gs, why)
    PROVE  /\ cluster' = cluster /\ Rendered
<1>1. gets' = gs /\ cause' = why /\ UNCHANGED <<cluster, filter, loading>>
  BY DEF Unrendered
<1>2. Known \subseteq Known'
  BY <1>1, KnownStays
<1>3. SkeletonHasRequest'
  BY <1>1 DEF SkeletonHasRequest, Loud
<1> QED
  BY <1>1, <1>2, <1>3 DEF IInv, TypeOK, PlacesKnown, Rendered

LEMMA DialogKept ==
    ASSUME IInv, page' = page, stored' = stored, switched' = switched,
           dialog' \in {dialog, None}, cluster' = cluster \/ Follows(cluster')
    PROVE  DialogOK'
<1>1. page.from \in {"none", "state", "storage"}
  BY PageOK DEF IInv
<1> SUFFICES ASSUME dialog # None, dialog.op.row, dialog' = dialog,
                    ~(page.from = "storage" /\ switched)
             PROVE  /\ dialog.of = cluster'
                    /\ dialog.of = None => page.from = "none"
                    /\ page.from = "storage" => cluster' = stored
  BY DEF DialogOK
<1>2. /\ dialog.of = cluster
      /\ dialog.of = None => page.from = "none"
      /\ page.from = "storage" => cluster = stored
  BY DEF IInv, DialogOK
<1> QED
  BY <1>1, <1>2 DEF Follows, NextCluster

-----------------------------------------------------------------------------
(* One lemma for each action.                                              *)

\* What an action that touches no request, timer or poll keeps of them.
LEMMA RequestsKept ==
    ASSUME IInv, UNCHANGED <<page, acts, timers, poll, label>>, Known \subseteq Known',
           switched => switched', \A n \in pending : n \in pending'
    PROVE  /\ MisdirectedHasCause' /\ OneAtATime' /\ LabelHasRequest'
           /\ FlagsUp' /\ TimersOK' /\ PollOK'
           /\ \A i \in DOMAIN acts' : acts'[i].to[1] \in Known'
           /\ From(timers') \subseteq Known'
           /\ poll' # None => poll'.at[1] \in Known'
<1>1. MisdirectedHasCause' /\ OneAtATime' /\ LabelHasRequest' /\ FlagsUp' /\ TimersOK' /\ PollOK'
  BY DEF IInv, MisdirectedHasCause, OneAtATime, LabelHasRequest, FlagsUp, TimersOK, PollOK
<1> QED
  BY <1>1 DEF IInv, PlacesKnown, From

LEMMA PlacesOK ==
    ASSUME Rendered, rows' # None => rows'.at[1] \in Known',
           \A j \in DOMAIN acts' : acts'[j].to[1] \in Known',
           From(timers') \subseteq Known', poll' # None => poll'.at[1] \in Known'
    PROVE  PlacesKnown'
BY DEF PlacesKnown, Rendered

LEMMA StoreFirstStep ==
    ASSUME IInv, StoreFirst
    PROVE  IInv'
<1>1. /\ stored = None /\ stored' \in Clusters /\ changes' = changes + 1 /\ page.from # "none"
      /\ UNCHANGED <<page, cluster, filter, rows, loading, gets, dialog, pending, label, acts,
                     timers, poll, made, sent, switched, cause>>
  BY DEF StoreFirst
<1>2. Known \subseteq Known'
  BY <1>1, PageOK DEF IInv, TypeOK, Known
<1>3. TypeOK'
  BY <1>1 DEF IInv, TypeOK
<1>4. /\ MisdirectedHasCause' /\ OneAtATime' /\ LabelHasRequest' /\ FlagsUp' /\ TimersOK' /\ PollOK'
      /\ \A i \in DOMAIN acts' : acts'[i].to[1] \in Known'
      /\ From(timers') \subseteq Known' /\ (poll' # None => poll'.at[1] \in Known')
  BY <1>1, <1>2, RequestsKept
<1>5. PlacesKnown'
  BY <1>1, <1>2, <1>4 DEF IInv, PlacesKnown, From
<1>6. DialogOK'
  BY <1>1 DEF IInv, DialogOK
<1>7. SkeletonHasRequest'
  BY <1>1 DEF IInv, SkeletonHasRequest
<1> QED
  BY <1>1, <1>3, <1>4, <1>5, <1>6, <1>7 DEF IInv

LEMMA OtherTabStep ==
    ASSUME IInv, OtherTab
    PROVE  IInv'
<1>1. /\ stored # None /\ stored' \in Clusters /\ switched' = TRUE /\ changes' = changes + 1
      /\ UNCHANGED <<page, cluster, filter, rows, loading, gets, dialog, pending, label, acts,
                     timers, poll, made, sent, cause>>
  BY DEF OtherTab
<1>2. Known \subseteq Known'
  BY <1>1, PageOK DEF IInv, TypeOK, Known
<1>3. TypeOK'
  BY <1>1 DEF IInv, TypeOK
<1>4. /\ MisdirectedHasCause' /\ OneAtATime' /\ LabelHasRequest' /\ FlagsUp' /\ TimersOK' /\ PollOK'
      /\ \A i \in DOMAIN acts' : acts'[i].to[1] \in Known'
      /\ From(timers') \subseteq Known' /\ (poll' # None => poll'.at[1] \in Known')
  BY <1>1, <1>2, RequestsKept
<1>5. PlacesKnown'
  BY <1>1, <1>2, <1>4 DEF IInv, PlacesKnown, From
<1>6. DialogOK'
  BY <1>1 DEF IInv, DialogOK
<1>7. SkeletonHasRequest'
  BY <1>1 DEF IInv, SkeletonHasRequest
<1> QED
  BY <1>1, <1>3, <1>4, <1>5, <1>6, <1>7 DEF IInv

\* An action that renders the page, and touches neither requests, timers and polls nor
\* the rows.
LEMMA QuietRender ==
    ASSUME IInv, Rendered, cluster' = cluster \/ Follows(cluster'),
           UNCHANGED <<page, stored, rows, dialog, pending, label, acts, timers, poll, made, sent,
                       switched>>,
           changes' \in Nat
    PROVE  IInv'
<1>1. Known \subseteq Known'
  BY DEF Rendered
<1>2. TypeOK'
  BY DEF Rendered, Reads, IInv, TypeOK
<1>3. /\ MisdirectedHasCause' /\ OneAtATime' /\ LabelHasRequest' /\ FlagsUp' /\ TimersOK' /\ PollOK'
      /\ \A i \in DOMAIN acts' : acts'[i].to[1] \in Known'
      /\ From(timers') \subseteq Known' /\ (poll' # None => poll'.at[1] \in Known')
  BY <1>1, RequestsKept
<1>4. PlacesKnown'
  BY <1>1, <1>3 DEF IInv, PlacesKnown, Rendered
<1>5. DialogOK'
  BY DialogKept
<1> QED
  BY <1>2, <1>3, <1>4, <1>5 DEF IInv, Rendered

\* What the state holds before a render.
LEMMA Before ==
    ASSUME IInv
    PROVE  /\ gets \in Seq(Reads) /\ From(gets) \subseteq Known /\ loading \in BOOLEAN
           /\ cause \in Causes \cup {None} /\ made \in [Clusters \cup {None} -> Nat]
           /\ loading => Loud(gets) \/ (page.from = "state" /\ cluster = None)
           /\ changes \in Nat /\ cluster \in Clusters \cup {None} /\ filter \in Filters
           /\ acts \in Seq(Requests) /\ timers \in Seq(Timeouts) /\ Here \in Places
BY DEF IInv, TypeOK, Reads, Requests, Timeouts, Places, PlacesKnown, SkeletonHasRequest, Loud, Here

LEMMA AdoptStep ==
    ASSUME IInv, Adopt
    PROVE  IInv'
<1>1. /\ page.from = "state" /\ cluster = None /\ Follows(stored)
      /\ UNCHANGED <<page, stored, rows, dialog, pending, label, acts, timers, poll, made, sent,
                     changes, switched>>
      /\ Render(stored, filter, gets, loading, cause)
  BY DEF Adopt, Follows
<1>2. cluster' = stored /\ Rendered
  BY <1>1, Before, RenderOK
<1> QED
  BY <1>1, <1>2, Before, QuietRender

LEMMA NarrowStep ==
    ASSUME IInv, NEW f \in Filters, Narrow(f)
    PROVE  IInv'
<1>1. /\ Follows(NextCluster) /\ changes' = changes + 1
      /\ UNCHANGED <<page, stored, rows, dialog, pending, label, acts, timers, poll, made, sent,
                     switched>>
      /\ Render(NextCluster, f, gets, loading, cause)
  BY DEF Narrow, Follows
<1>2. cluster' = NextCluster /\ Rendered
  BY <1>1, Before, RenderOK
<1> QED
  BY <1>1, <1>2, Before, QuietRender

LEMMA PressStep ==
    ASSUME IInv, Press
    PROVE  IInv'
<1> DEFINE gs == Fetch(gets, Here, FALSE, FALSE)
           ld == page.from = "state" => cluster # None
<1>1. /\ UNCHANGED <<page, stored, rows, dialog, pending, label, acts, timers, poll, made, sent,
                     changes, switched>>
      /\ Rerender(gs, ld, cause)
  BY DEF Press
<1>2. /\ gs \in Seq(Reads) /\ From(gs) \subseteq From(gets) \cup {Here[1]}
      /\ ld => Loud(gs)
  BY <1>1, Before, FetchOK DEF IInv, Here
<1>3. Here[1] = cluster /\ cluster \in Known /\ ld \in BOOLEAN
  BY DEF Here, IInv, PlacesKnown
<1> HIDE DEF gs, ld
<1>4. From(gs) \subseteq Known
  BY <1>2, <1>3, Before
<1>5. cluster' = NextCluster /\ Rendered
  BY <1>1, <1>2, <1>3, <1>4, Before, RerenderOK
<1> QED
  BY <1>1, <1>5, Before, QuietRender DEF Follows

LEMMA ListedStep ==
    ASSUME IInv, NEW i \in DOMAIN gets, Listed(i)
    PROVE  IInv'
<1> DEFINE g  == gets[i]
           gs == Rest(i, "overtaken")
<1>1. PICK v \in g.since .. made[g.at[1]] :
         /\ rows' = [at |-> g.at, seen |-> v]
         /\ UNCHANGED <<page, stored, dialog, pending, label, acts, timers, poll, made, sent,
                        changes, switched>>
         /\ Rerender(gs, g.quiet /\ loading,
                     IF g.at = <<NextCluster, filter>> /\ v = made[g.at[1]]
                     THEN None ELSE Either(g.excuse, cause))
  BY DEF Listed
<1> DEFINE why == IF g.at = <<NextCluster, filter>> /\ v = made[g.at[1]]
                  THEN None ELSE Either(g.excuse, cause)
<1>2. g \in Reads /\ g.at[1] \in From(gets)
  BY Before, Element DEF From
<1>3. /\ g.at \in Places /\ g.quiet \in BOOLEAN /\ g.since \in Nat
      /\ g.excuse \in Causes \cup {None}
  BY <1>2 DEF Reads
<1>4. /\ gs \in Seq(Reads) /\ From(gs) \subseteq Known
      /\ Loud(gets) /\ g.quiet => Loud(gs)
  BY Before, RestOK DEF IInv, Causes
<1> HIDE DEF g, gs
<1>5. why \in Causes \cup {None}
  BY <1>3, Before DEF Either
<1> HIDE DEF why
<1>6. /\ (g.quiet /\ loading) \in BOOLEAN
      /\ g.quiet /\ loading => Loud(gs) \/ (page.from = "state" /\ cluster = None)
  BY <1>3, <1>4, Before
<1>7. cluster' = NextCluster /\ Rendered
  BY <1>1, <1>4, <1>5, <1>6, Before, RerenderOK DEF why
<1>8. rows' \in [at : Places, seen : Nat]
  <2>1. g.at[1] \in Clusters \cup {None}
    BY <1>3 DEF Places
  <2> QED
    BY <1>1, <1>3, <2>1, Before
<1>9. Known \subseteq Known'
  BY <1>7 DEF Rendered
<1>10. TypeOK'
  BY <1>1, <1>7, <1>8 DEF Rendered, Reads, IInv, TypeOK
<1>11. /\ MisdirectedHasCause' /\ OneAtATime' /\ LabelHasRequest' /\ FlagsUp' /\ TimersOK' /\ PollOK'
       /\ \A j \in DOMAIN acts' : acts'[j].to[1] \in Known'
       /\ From(timers') \subseteq Known' /\ (poll' # None => poll'.at[1] \in Known')
  BY <1>1, <1>9, RequestsKept
<1>12. rows'.at[1] \in Known'
  BY <1>1, <1>2, <1>9, Before
<1>13. PlacesKnown'
  BY <1>7, <1>11, <1>12, PlacesOK
<1>14. DialogOK'
  BY <1>1, <1>7, DialogKept DEF Follows
<1> QED
  BY <1>1, <1>7, <1>10, <1>11, <1>13, <1>14 DEF IInv, Rendered

LEMMA UnlistedStep ==
    ASSUME IInv, NEW i \in DOMAIN gets, Unlisted(i)
    PROVE  IInv'
<1> DEFINE gs == Rest(i, "failed")
<1>1. /\ UNCHANGED <<page, stored, rows, dialog, pending, label, acts, timers, poll, made, sent,
                     changes, switched>>
      /\ IF gets[i].quiet THEN Unrendered(gs, "failed") ELSE Rerender(gs, FALSE, "failed")
  BY DEF Unlisted
<1>2. "failed" \in Causes
  BY DEF Causes
<1>3. /\ gs \in Seq(Reads) /\ From(gs) \subseteq Known
      /\ Loud(gets) /\ gets[i].quiet => Loud(gs)
  BY <1>2, Before, RestOK DEF IInv
<1> HIDE DEF gs
<1>4. CASE gets[i].quiet
  <2>1. cluster' = cluster /\ Rendered
    BY <1>1, <1>2, <1>3, <1>4, Before, UnrenderedOK
  <2> QED
    BY <1>1, <2>1, Before, QuietRender
<1>5. CASE ~gets[i].quiet
  <2>1. cluster' = NextCluster /\ Rendered
    BY <1>1, <1>2, <1>3, <1>5, Before, RerenderOK
  <2> QED
    BY <1>1, <2>1, Before, QuietRender DEF Follows
<1> QED
  BY <1>4, <1>5

LEMMA OpenStep ==
    ASSUME IInv, NEW op \in page.ops, Open(op)
    PROVE  IInv'
<1>1. /\ dialog = None
      /\ op.row => rows # None
      /\ op.row /\ rows.at[1] = None => page.from = "none"
      /\ dialog' = [op |-> op, of |-> IF op.row THEN rows.at[1] ELSE None]
      /\ pending' = IF op.guard = "dialog" THEN pending \ {op.name} ELSE pending
      /\ UNCHANGED <<page, stored, rows, label, acts, timers, poll, made, sent, changes, switched>>
      /\ Rerender(gets, loading, cause)
  BY DEF Open, Reset
<1>2. cluster' = NextCluster /\ Rendered
  BY <1>1, Before, RerenderOK
<1>3. Known \subseteq Known' /\ page.from \in {"none", "state", "storage"}
  BY <1>2, PageOK DEF Rendered, IInv
<1>4. op.row => rows.at[1] \in Clusters \cup {None} /\ rows.at[1] \in Known
  BY <1>1 DEF IInv, TypeOK, Places, PlacesKnown
<1>5. TypeOK'
  <2>1. dialog' \in [op : page.ops, of : Clusters \cup {None}]
    BY <1>1, <1>4
  <2> QED
    BY <1>1, <1>2, <2>1 DEF Rendered, Reads, IInv, TypeOK
<1>6. /\ MisdirectedHasCause' /\ OneAtATime' /\ LabelHasRequest' /\ TimersOK' /\ PollOK'
  BY <1>1 DEF IInv, MisdirectedHasCause, OneAtATime, LabelHasRequest, TimersOK, PollOK
<1>7. FlagsUp'
  <2> SUFFICES ASSUME NEW j \in DOMAIN acts, acts[j].op.guard = "flag"
               PROVE  acts[j].op.name \in pending'
    BY <1>1 DEF FlagsUp
  <2>1. acts[j] \in Requests
    BY Before, Element
  <2>2. acts[j].op \in page.ops /\ acts[j].op.name \in pending
    BY <2>1 DEF Requests, IInv, FlagsUp
  <2>3. op.guard = "dialog" => acts[j].op.name # op.name
    BY <2>2, PageOK DEF IInv
  <2> QED
    BY <1>1, <2>2, <2>3
<1>8. PlacesKnown'
  BY <1>1, <1>2, <1>3 DEF IInv, PlacesKnown, Rendered, From
<1>9. DialogOK'
  <2> SUFFICES ASSUME op.row, ~(page.from = "storage" /\ switched)
               PROVE  /\ rows.at[1] = cluster'
                      /\ rows.at[1] = None => page.from = "none"
                      /\ page.from = "storage" => cluster' = stored
    BY <1>1 DEF DialogOK
  <2>1. rows.at[1] \in Known /\ (rows.at[1] = None => page.from = "none")
    BY <1>1, <1>4
  <2>2. page.from # "storage" => cluster' = cluster
    BY <1>2 DEF NextCluster
  <2>3. page.from = "storage" => cluster' = stored
    BY <1>2 DEF NextCluster
  <2>4. page.from = "none" => cluster = None
    BY DEF IInv, PlacesKnown, Known
  <2> QED
    BY <1>3, <2>1, <2>2, <2>3, <2>4 DEF Known
<1> QED
  BY <1>1, <1>2, <1>5, <1>6, <1>7, <1>8, <1>9 DEF IInv, Rendered

LEMMA DismissStep ==
    ASSUME IInv, Dismiss
    PROVE  IInv'
<1>1. /\ dialog' = None
      /\ UNCHANGED <<page, stored, rows, pending, label, acts, timers, poll, made, sent, changes,
                     switched>>
      /\ Rerender(gets, loading, cause)
  BY DEF Dismiss
<1>2. cluster' = NextCluster /\ Rendered
  BY <1>1, Before, RerenderOK
<1>3. Known \subseteq Known'
  BY <1>2 DEF Rendered
<1>4. TypeOK'
  BY <1>1, <1>2 DEF Rendered, Reads, IInv, TypeOK
<1>5. /\ MisdirectedHasCause' /\ OneAtATime' /\ LabelHasRequest' /\ FlagsUp' /\ TimersOK' /\ PollOK'
      /\ \A i \in DOMAIN acts' : acts'[i].to[1] \in Known'
      /\ From(timers') \subseteq Known' /\ (poll' # None => poll'.at[1] \in Known')
  BY <1>1, <1>3, RequestsKept
<1>6. PlacesKnown' /\ DialogOK'
  BY <1>1, <1>2, <1>3, <1>5, DialogKept DEF IInv, PlacesKnown, Rendered, Follows
<1> QED
  BY <1>1, <1>2, <1>4, <1>5, <1>6 DEF IInv, Rendered

LEMMA ConfirmStep ==
    ASSUME IInv, Confirm
    PROVE  IInv'
<1> DEFINE op  == dialog.op
           x   == [op |-> op, of |-> dialog.of, to |-> Here]
           new == Len(acts) + 1
<1>1. /\ dialog # None
      /\ op.guard # "none" => op.name \notin pending
      /\ acts' = Append(acts, x)
      /\ sent' = sent + 1
      /\ pending' = IF op.guard = "none" THEN pending ELSE pending \cup {op.name}
      /\ label' = (label \/ op.label)
      /\ dialog' \in {dialog, None}
      /\ UNCHANGED <<page, stored, rows, timers, poll, made, changes, switched>>
      /\ Rerender(gets, loading, cause)
  BY DEF Confirm
<1>2. dialog \in [op : page.ops, of : Clusters \cup {None}]
  BY <1>1 DEF IInv, TypeOK
<1>3. /\ op \in page.ops /\ op \in Op /\ dialog.of \in Clusters \cup {None}
      /\ op.label \in BOOLEAN
  BY <1>2, PageOK DEF IInv, Op
<1>4. x \in Requests /\ x.op = op /\ x.of = dialog.of /\ x.to[1] = cluster
  BY <1>3, Before DEF Requests, Here
<1>5. /\ acts' \in Seq(Requests)
      /\ DOMAIN acts' = DOMAIN acts \cup {new} /\ new \notin DOMAIN acts
      /\ \A j \in DOMAIN acts : acts'[j] = acts[j]
      /\ acts'[new] = x
  BY <1>1, <1>4, Before, AppendOK
<1> HIDE DEF x, new
<1>6. cluster' = NextCluster /\ Rendered
  BY <1>1, Before, RerenderOK
<1>7. Known \subseteq Known'
  BY <1>6 DEF Rendered
<1>8. TypeOK'
  <2>1. pending' \subseteq {y.name : y \in page.ops} /\ label' \in BOOLEAN
    BY <1>1, <1>3 DEF IInv, TypeOK
  <2> QED
    BY <1>1, <1>2, <1>5, <1>6, <2>1 DEF Rendered, Reads, Requests, IInv, TypeOK
<1>9. MisdirectedHasCause'
  <2>1. op.row /\ dialog.of # cluster => page.from = "storage" /\ switched
    BY <1>1 DEF IInv, DialogOK
  <2>2. \A j \in DOMAIN acts' :
           acts'[j].op.row /\ acts'[j].of # acts'[j].to[1] => page.from = "storage" /\ switched
    BY <1>4, <1>5, <2>1 DEF IInv, MisdirectedHasCause
  <2> QED
    BY <1>1, <2>2 DEF MisdirectedHasCause
<1>10. OneAtATime' /\ FlagsUp'
  <2>1. \A j \in DOMAIN acts : acts[j].op = op => acts[j].op.guard # "flag"
    BY <1>1 DEF IInv, FlagsUp
  <2>2. OneAtATime'
    BY <1>4, <1>5, <2>1 DEF IInv, OneAtATime
  <2>3. FlagsUp'
    BY <1>1, <1>4, <1>5 DEF IInv, FlagsUp
  <2> QED
    BY <2>2, <2>3
<1>11. LabelHasRequest'
  BY <1>1, <1>4, <1>5 DEF IInv, LabelHasRequest
<1>12. TimersOK' /\ PollOK'
  BY <1>1 DEF IInv, TimersOK, PollOK
<1>13. \A j \in DOMAIN acts' : acts'[j].to[1] \in Known'
  BY <1>4, <1>5, <1>7 DEF IInv, PlacesKnown
<1>14. /\ rows' # None => rows'.at[1] \in Known'
       /\ From(timers') \subseteq Known'
       /\ poll' # None => poll'.at[1] \in Known'
  BY <1>1, <1>7 DEF IInv, PlacesKnown, From
<1>15. PlacesKnown'
  BY <1>6, <1>13, <1>14, PlacesOK
<1>16. DialogOK'
  BY <1>1, <1>6, DialogKept DEF Follows
<1> QED
  BY <1>1, <1>6, <1>8, <1>9, <1>10, <1>11, <1>12, <1>15, <1>16 DEF IInv, Rendered

\* The end of a request.
LEMMA ReleaseOK ==
    ASSUME IInv, page' = page, switched' = switched, NEW i \in DOMAIN acts, NEW ok \in BOOLEAN,
           ok => Possible(acts[i]), Release(i, ok), Known \subseteq Known'
    PROVE  /\ acts' \in Seq(Requests) /\ timers' \in Seq(Timeouts) /\ label' \in BOOLEAN
           /\ pending' \subseteq pending /\ dialog' \in {dialog, None}
           /\ MisdirectedHasCause' /\ OneAtATime' /\ FlagsUp' /\ TimersOK'
           /\ \A j \in DOMAIN acts' : acts'[j].to[1] \in Known'
           /\ From(timers') \subseteq Known'
           /\ label' => \/ \E j \in DOMAIN acts' : acts'[j].op.label
                        \/ \E j \in DOMAIN timers' : timers'[j].label
                        \/ poll # None /\ poll.label /\ poll.on
                        \/ ok /\ acts[i].op.label /\ acts[i].op.later = "poll"
<1> DEFINE op == acts[i].op
           t  == [at |-> acts[i].to, label |-> op.label]
           timed == op.later = "settled" \/ (ok /\ op.later = "success")
<1>1. /\ acts' = Without(acts, i)
      /\ pending' = IF op.guard = "none" THEN pending ELSE pending \ {op.name}
      /\ dialog' \in {dialog, None}
      /\ timers' = IF timed THEN Append(timers, t) ELSE timers
      /\ label' = Labelled(op, ok)
  BY DEF Release
<1>2. /\ acts' \in Seq(Requests)
      /\ \A j \in DOMAIN acts' : \E k \in DOMAIN acts \ {i} : acts'[j] = acts[k]
      /\ \A k \in DOMAIN acts \ {i} : \E j \in DOMAIN acts' : acts'[j] = acts[k]
      /\ \A j, k \in DOMAIN acts' :
            j # k => \E x, y \in DOMAIN acts \ {i} :
                        x # y /\ acts'[j] = acts[x] /\ acts'[k] = acts[y]
  BY <1>1, Before, WithoutOK
<1>3. \A k \in DOMAIN acts : acts[k] \in Requests
  BY Before, Element
<1>4. /\ op \in page.ops /\ acts[i].to \in Places
      /\ op.label \in BOOLEAN /\ op.later \in {"never", "settled", "success", "poll"}
  <2>1. op \in page.ops /\ acts[i].to \in Places
    BY <1>3 DEF Requests
  <2> QED
    BY <2>1, PageOK DEF IInv, Op
<1>5. t \in Timeouts /\ t.at = acts[i].to /\ t.label = op.label
  BY <1>4 DEF Timeouts
<1> HIDE DEF t
<1>6. /\ timed => /\ timers' \in Seq(Timeouts)
                  /\ DOMAIN timers' = DOMAIN timers \cup {Len(timers) + 1}
                  /\ \A j \in DOMAIN timers : timers'[j] = timers[j]
                  /\ timers'[Len(timers) + 1] = t
                  /\ From(timers') = From(timers) \cup {t.at[1]}
      /\ ~timed => timers' = timers
  BY <1>1, <1>5, Before, AppendOK, FromAppend
<1>7. timers' \in Seq(Timeouts) /\ From(timers') \subseteq Known'
  BY <1>5, <1>6, Before DEF IInv, PlacesKnown
<1>8. MisdirectedHasCause'
  BY <1>2 DEF IInv, MisdirectedHasCause
<1>9. OneAtATime'
  <2> SUFFICES ASSUME NEW j \in DOMAIN acts', NEW k \in DOMAIN acts', j # k,
                      acts'[j].op = acts'[k].op
               PROVE  acts'[j].op.guard # "flag"
    BY DEF OneAtATime
  <2>1. PICK x \in DOMAIN acts \ {i}, y \in DOMAIN acts \ {i} :
           x # y /\ acts'[j] = acts[x] /\ acts'[k] = acts[y]
    BY <1>2
  <2> QED
    BY <2>1 DEF IInv, OneAtATime
<1>10. FlagsUp'
  <2> SUFFICES ASSUME NEW j \in DOMAIN acts', acts'[j].op.guard = "flag"
               PROVE  acts'[j].op.name \in pending'
    BY DEF FlagsUp
  <2>1. PICK k \in DOMAIN acts \ {i} : acts'[j] = acts[k]
    BY <1>2
  <2>2. acts[k].op.name \in pending /\ acts[k].op # op /\ acts[k].op \in page.ops
    BY <1>3, <2>1 DEF IInv, FlagsUp, OneAtATime, Requests
  <2>3. acts[k].op.name # op.name
    BY <1>4, <2>2, PageOK DEF IInv
  <2> QED
    BY <1>1, <2>1, <2>2, <2>3
<1>11. TimersOK'
  <2>1. timed => t.label \/ (page.from = "state" => t.at[1] # None)
    <3>1. op.later = "settled" /\ page.from = "state" => op.label
      BY <1>4, PageOK DEF IInv
    <3>2. ok => (page.from = "state" => acts[i].to[1] # None)
      BY DEF Possible
    <3> QED
      BY <1>5, <3>1, <3>2
  <2> QED
    BY <1>6, <2>1 DEF IInv, TimersOK
<1>12. \A j \in DOMAIN acts' : acts'[j].to[1] \in Known'
  BY <1>2 DEF IInv, PlacesKnown
<1>13. label' \in BOOLEAN
  BY <1>1 DEF Labelled
<1>14. ASSUME label'
       PROVE  \/ \E j \in DOMAIN acts' : acts'[j].op.label
              \/ \E j \in DOMAIN timers' : timers'[j].label
              \/ poll # None /\ poll.label /\ poll.on
              \/ ok /\ op.label /\ op.later = "poll"
  <2>1. label /\ ~(op.label /\ (op.later = "never" \/ (~ok /\ op.later # "settled")))
    BY <1>1, <1>14 DEF Labelled
  <2>2. CASE \E k \in DOMAIN acts \ {i} : acts[k].op.label
    BY <1>2, <2>2
  <2>3. CASE \E k \in DOMAIN timers : timers[k].label
    BY <1>6, <2>3
  <2>4. CASE op.label
    <3>1. timed => timers'[Len(timers) + 1].label /\ Len(timers) + 1 \in DOMAIN timers'
      BY <1>5, <1>6, <2>4
    <3> QED
      BY <1>4, <2>1, <2>4, <3>1
  <2> QED
    BY <2>1, <2>2, <2>3, <2>4 DEF IInv, LabelHasRequest
<1> QED
  BY <1>1, <1>2, <1>7, <1>8, <1>9, <1>10, <1>11, <1>12, <1>13, <1>14

\* The list requests after a success.
LEMMA RefetchedOK ==
    ASSUME IInv, made' \in [Clusters \cup {None} -> Nat], NEW i \in DOMAIN acts, Possible(acts[i])
    PROVE  LET a  == acts[i]
               gs == Refetched(a)
           IN  /\ gs \in Seq(Reads) /\ From(gs) \subseteq Known
               /\ Loud(gets) \/ a.op.now = "loud" => Loud(gs)
<1> DEFINE a  == acts[i]
           gs == Refetched(a)
           quiet == a.op.now = "quiet"
<1>1. a \in Requests
  BY Before, Element
<1>2. a.op \in page.ops /\ a.to \in Places /\ a.to[1] \in Known
  BY <1>1 DEF Requests, IInv, PlacesKnown
<1>3. a.op.drops \in BOOLEAN /\ quiet \in BOOLEAN
  BY <1>2, PageOK DEF IInv, Op
<1>4. page.from = "state" => a.to[1] # None
  BY DEF Possible
<1>5. CASE a.op.now \in {"quiet", "loud"}
  <2> DEFINE fs == Fetch(gets, a.to, quiet, a.op.drops)
  <2>1. gs = fs
    BY <1>5 DEF Refetched
  <2>2. a.op.now = "loud" => ~quiet
    OBVIOUS
  <2> HIDE DEF quiet
  <2>3. TypeOK /\ gets \in Seq(Reads)
    BY Before DEF IInv
  <2> HIDE DEF gs
  <2>4. /\ fs \in Seq(Reads) /\ From(fs) \subseteq From(gets) \cup {a.to[1]}
        /\ Loud(gets) => Loud(fs)
        /\ ~quiet /\ (page.from = "state" => a.to[1] # None) => Loud(fs)
    BY <1>2, <1>3, <2>3, FetchOK
  <2> HIDE DEF fs
  <2>5. gs \in Seq(Reads) /\ From(gs) \subseteq Known
    BY <1>2, <2>1, <2>4, Before
  <2>6. Loud(gets) \/ a.op.now = "loud" => Loud(gs)
    BY <1>4, <2>1, <2>2, <2>4
  <2> QED
    BY <2>5, <2>6 DEF gs
<1>6. CASE a.op.now \notin {"quiet", "loud"}
  <2> DEFINE why == IF a.op.now = "local" THEN "overtaken"
                    ELSE IF Unfollowed(a.op) THEN "unasked" ELSE None
  <2>1. why \in Causes \cup {None}
    BY DEF Causes
  <2>2. gs = Excuse(gets, why)
    BY <1>6 DEF Refetched
  <2> HIDE DEF why
  <2>3. gs \in Seq(Reads) /\ From(gs) = From(gets) /\ (Loud(gs) <=> Loud(gets))
    BY <2>1, <2>2, Before, Excused
  <2> QED
    BY <1>6, <2>3, Before
<1> QED
  BY <1>5, <1>6

LEMMA DoneStep ==
    ASSUME IInv, NEW i \in DOMAIN acts, Done(i)
    PROVE  IInv'
<1> DEFINE a  == acts[i]
           gs == Refetched(a)
           ld == loading \/ a.op.now = "loud"
           why == IF Unfollowed(a.op) THEN "unasked" ELSE cause
           p  == [at |-> a.to, label |-> a.op.label, retries |-> 0, out |-> 0, on |-> TRUE]
<1>1. /\ Possible(a) /\ Release(i, TRUE) /\ Changed(a)
      /\ \/ rows' = rows
         \/ rows # None /\ rows' = [rows EXCEPT !.seen = @ + 1]
      /\ poll' = IF a.op.later = "poll" THEN p ELSE poll
      /\ Rerender(gs, ld, why)
      /\ UNCHANGED <<page, stored, sent, changes, switched>>
  BY DEF Done
<1>2. a \in Requests
  BY Before, Element
<1>3. a.op \in page.ops /\ a.to \in Places /\ a.to[1] \in Known /\ a.to[1] \in Clusters \cup {None}
  BY <1>2 DEF Requests, Places, IInv, PlacesKnown
<1>4. a.op.label \in BOOLEAN
  BY <1>3, PageOK DEF IInv, Op
<1>5. made' \in [Clusters \cup {None} -> Nat]
  BY <1>1, <1>3, Before DEF Changed
<1>6. /\ gs \in Seq(Reads) /\ From(gs) \subseteq Known
      /\ Loud(gets) \/ a.op.now = "loud" => Loud(gs)
  BY <1>1, <1>5, RefetchedOK
<1>7. /\ ld \in BOOLEAN /\ why \in Causes \cup {None}
      /\ ld => Loud(gs) \/ (page.from = "state" /\ cluster = None)
  BY <1>6, Before DEF Causes
<1> HIDE DEF gs, ld, why
<1>8. cluster' = NextCluster /\ Rendered
  BY <1>1, <1>5, <1>6, <1>7, RerenderOK
<1>9. Known \subseteq Known'
  BY <1>8 DEF Rendered
<1>10. /\ acts' \in Seq(Requests) /\ timers' \in Seq(Timeouts) /\ label' \in BOOLEAN
       /\ pending' \subseteq pending /\ dialog' \in {dialog, None}
       /\ MisdirectedHasCause' /\ OneAtATime' /\ FlagsUp' /\ TimersOK'
       /\ \A j \in DOMAIN acts' : acts'[j].to[1] \in Known'
       /\ From(timers') \subseteq Known'
       /\ label' => \/ \E j \in DOMAIN acts' : acts'[j].op.label
                    \/ \E j \in DOMAIN timers' : timers'[j].label
                    \/ poll # None /\ poll.label /\ poll.on
                    \/ a.op.label /\ a.op.later = "poll"
  BY <1>1, <1>9, ReleaseOK
<1>11. p \in Poll /\ p # None /\ p.at = a.to /\ p.label = a.op.label /\ p.on
  <2>1. p \in Poll
    BY <1>3, <1>4 DEF Poll
  <2>2. p.at = a.to /\ p.label = a.op.label /\ p.on
    OBVIOUS
  <2> HIDE DEF p
  <2>3. p # None
    BY <2>1, ListPagesAssumption
  <2> QED
    BY <2>1, <2>2, <2>3
<1> HIDE DEF p
<1>12. rows' \in [at : Places, seen : Nat] \cup {None} /\ (rows' # None => rows'.at[1] \in Known')
  <2>1. CASE rows' = rows
    BY <1>9, <2>1 DEF IInv, TypeOK, PlacesKnown
  <2>2. CASE rows # None /\ rows' = [rows EXCEPT !.seen = @ + 1]
    <3>1. rows \in [at : Places, seen : Nat] /\ rows.at[1] \in Known
      BY <2>2 DEF IInv, TypeOK, PlacesKnown
    <3>2. rows' \in [at : Places, seen : Nat] /\ rows'.at = rows.at
      BY <2>2, <3>1
    <3> QED
      BY <1>9, <3>1, <3>2
  <2> QED
    BY <1>1, <2>1, <2>2
<1>13. TypeOK'
  <2>1. poll' \in Poll \cup {None}
    BY <1>1, <1>11 DEF IInv, TypeOK
  <2>2. dialog' \in [op : page.ops, of : Clusters \cup {None}] \cup {None}
    BY <1>10 DEF IInv, TypeOK
  <2> QED
    BY <1>1, <1>5, <1>8, <1>10, <1>12, <2>1, <2>2
       DEF Rendered, Reads, Requests, Timeouts, IInv, TypeOK
<1>14. PollOK'
  <2>1. CASE a.op.later = "poll"
    <3>1. \A op \in page.ops : op.later = "poll" => op = a.op
      BY <1>3, <2>1, PageOK DEF IInv
    <3> QED
      BY <1>1, <1>11, <2>1, <3>1 DEF PollOK, Possible
  <2>2. CASE a.op.later # "poll"
    BY <1>1, <2>2 DEF IInv, PollOK
  <2> QED
    BY <2>1, <2>2
<1>15. LabelHasRequest'
  <2>1. CASE a.op.later = "poll"
    <3>1. poll # None /\ poll.label => a.op.label
      BY <1>3, <2>1 DEF IInv, PollOK
    <3> QED
      BY <1>1, <1>10, <1>11, <2>1, <3>1 DEF LabelHasRequest
  <2>2. CASE a.op.later # "poll"
    BY <1>1, <1>10, <2>2 DEF LabelHasRequest
  <2> QED
    BY <2>1, <2>2
<1>16. poll' # None => poll'.at[1] \in Known'
  BY <1>1, <1>3, <1>9, <1>11 DEF IInv, PlacesKnown
<1>17. PlacesKnown'
  BY <1>8, <1>10, <1>12, <1>16, PlacesOK
<1>18. DialogOK'
  BY <1>1, <1>8, <1>10, DialogKept DEF Follows
<1> QED
  BY <1>1, <1>8, <1>10, <1>13, <1>14, <1>15, <1>17, <1>18 DEF IInv, Rendered

LEMMA UndoneStep ==
    ASSUME IInv, NEW i \in DOMAIN acts, NEW lost \in BOOLEAN, Undone(i, lost)
    PROVE  IInv'
<1> DEFINE a   == acts[i]
           why == IF lost /\ a.op.writes /\ a.op.later # "settled" THEN "unanswered" ELSE None
           gs  == Excuse(gets, why)
           cs  == Either(why, cause)
           still == a.op.guard = "none" /\ ~a.op.label
<1>1. /\ lost => Possible(a)
      /\ Release(i, FALSE)
      /\ IF lost THEN Changed(a) ELSE UNCHANGED made
      /\ still => Unrendered(gs, cs)
      /\ ~still => Rerender(gs, loading, cs)
      /\ UNCHANGED <<page, stored, rows, poll, sent, changes, switched>>
  BY DEF Undone
<1>2. a \in Requests
  BY Before, Element
<1>3. a.to[1] \in Clusters \cup {None}
  BY <1>2 DEF Requests, Places
<1>4. made' \in [Clusters \cup {None} -> Nat]
  BY <1>1, <1>3, Before DEF Changed
<1>5. why \in Causes \cup {None}
  BY DEF Causes
<1> HIDE DEF why, still
<1>6. gs \in Seq(Reads) /\ From(gs) = From(gets) /\ (Loud(gs) <=> Loud(gets))
  BY <1>5, Before, Excused
<1>7. cs \in Causes \cup {None}
  BY <1>5, Before DEF Either
<1> HIDE DEF gs, cs
<1>8. From(gs) \subseteq Known
      /\ (loading => Loud(gs) \/ (page.from = "state" /\ cluster = None))
  BY <1>6, Before
<1>9. Rendered /\ (cluster' = cluster \/ Follows(cluster'))
  <2>1. CASE still
    BY <1>1, <1>6, <1>7, <1>8, <2>1, UnrenderedOK
  <2>2. CASE ~still
    <3>1. cluster' = NextCluster /\ Rendered
      BY <1>1, <1>4, <1>6, <1>7, <1>8, <2>2, Before, RerenderOK
    <3> QED
      BY <3>1 DEF Follows
  <2> QED
    BY <2>1, <2>2
<1>10. Known \subseteq Known'
  BY <1>9 DEF Rendered
<1>11. /\ acts' \in Seq(Requests) /\ timers' \in Seq(Timeouts) /\ label' \in BOOLEAN
       /\ pending' \subseteq pending /\ dialog' \in {dialog, None}
       /\ MisdirectedHasCause' /\ OneAtATime' /\ FlagsUp' /\ TimersOK'
       /\ \A j \in DOMAIN acts' : acts'[j].to[1] \in Known'
       /\ From(timers') \subseteq Known'
       /\ label' => \/ \E j \in DOMAIN acts' : acts'[j].op.label
                    \/ \E j \in DOMAIN timers' : timers'[j].label
                    \/ poll # None /\ poll.label /\ poll.on
  BY <1>1, <1>10, ReleaseOK
<1>12. TypeOK'
  <2>1. dialog' \in [op : page.ops, of : Clusters \cup {None}] \cup {None}
    BY <1>11 DEF IInv, TypeOK
  <2> QED
    BY <1>1, <1>4, <1>9, <1>11, <2>1 DEF Rendered, Reads, Requests, Timeouts, IInv, TypeOK
<1>13. PollOK' /\ LabelHasRequest'
  BY <1>1, <1>11 DEF IInv, PollOK, LabelHasRequest
<1>14. /\ rows' # None => rows'.at[1] \in Known'
       /\ poll' # None => poll'.at[1] \in Known'
  BY <1>1, <1>10 DEF IInv, PlacesKnown
<1>15. PlacesKnown'
  BY <1>9, <1>11, <1>14, PlacesOK
<1>16. DialogOK'
  BY <1>1, <1>9, <1>11, DialogKept
<1> QED
  BY <1>1, <1>9, <1>11, <1>12, <1>13, <1>15, <1>16 DEF IInv, Rendered

LEMMA FireStep ==
    ASSUME IInv, NEW i \in DOMAIN timers, Fire(i)
    PROVE  IInv'
<1> DEFINE t  == timers[i]
           gs == Fetch(gets, t.at, t.label, FALSE)
           ld == loading \/ ~t.label
<1>1. /\ timers' = Without(timers, i)
      /\ label' = (label /\ ~t.label)
      /\ UNCHANGED <<page, stored, rows, dialog, pending, acts, poll, made, sent, changes,
                     switched>>
      /\ Rerender(gs, ld, cause)
  BY DEF Fire
<1>2. t \in Timeouts /\ t.at[1] \in From(timers)
  BY Before, Element DEF From
<1>3. t.at \in Places /\ t.label \in BOOLEAN /\ t.at[1] \in Known
  BY <1>2 DEF Timeouts, IInv, PlacesKnown
<1>4. t.label \/ (page.from = "state" => t.at[1] # None)
  BY DEF IInv, TimersOK
<1> HIDE DEF t
<1>5. /\ gs \in Seq(Reads) /\ From(gs) \subseteq From(gets) \cup {t.at[1]}
      /\ Loud(gets) => Loud(gs)
      /\ ~t.label /\ (page.from = "state" => t.at[1] # None) => Loud(gs)
  BY <1>1, <1>3, Before, FetchOK DEF IInv
<1> HIDE DEF gs
<1>6. /\ From(gs) \subseteq Known /\ ld \in BOOLEAN
      /\ ld => Loud(gs) \/ (page.from = "state" /\ cluster = None)
  BY <1>3, <1>4, <1>5, Before
<1> HIDE DEF ld
<1>7. cluster' = NextCluster /\ Rendered
  BY <1>1, <1>5, <1>6, Before, RerenderOK
<1>8. Known \subseteq Known'
  BY <1>7 DEF Rendered
<1>9. /\ timers' \in Seq(Timeouts) /\ From(timers') \subseteq From(timers)
      /\ \A j \in DOMAIN timers' : \E k \in DOMAIN timers \ {i} : timers'[j] = timers[k]
      /\ \A k \in DOMAIN timers \ {i} : \E j \in DOMAIN timers' : timers'[j] = timers[k]
  BY <1>1, Before, WithoutOK, FromWithout
<1>10. TypeOK'
  <2>1. label' \in BOOLEAN
    BY <1>1
  <2> QED
    BY <1>1, <1>7, <1>9, <2>1 DEF Rendered, Reads, Timeouts, IInv, TypeOK
<1>11. MisdirectedHasCause' /\ OneAtATime' /\ FlagsUp' /\ PollOK'
  BY <1>1 DEF IInv, MisdirectedHasCause, OneAtATime, FlagsUp, PollOK
<1>12. TimersOK'
  BY <1>1, <1>9 DEF IInv, TimersOK
<1>13. LabelHasRequest'
  <2> SUFFICES ASSUME label, ~t.label PROVE LabelHasRequest'
    BY <1>1 DEF LabelHasRequest
  <2>1. CASE \E k \in DOMAIN timers : timers[k].label
    BY <1>9, <2>1 DEF LabelHasRequest, t
  <2>2. CASE ~\E k \in DOMAIN timers : timers[k].label
    BY <1>1, <2>2 DEF IInv, LabelHasRequest
  <2> QED
    BY <2>1, <2>2
<1>14. /\ rows' # None => rows'.at[1] \in Known'
       /\ \A j \in DOMAIN acts' : acts'[j].to[1] \in Known'
       /\ From(timers') \subseteq Known'
       /\ poll' # None => poll'.at[1] \in Known'
  BY <1>1, <1>8, <1>9 DEF IInv, PlacesKnown
<1>15. PlacesKnown'
  BY <1>7, <1>14, PlacesOK
<1>16. DialogOK'
  BY <1>1, <1>7, DialogKept DEF Follows
<1> QED
  BY <1>1, <1>7, <1>10, <1>11, <1>12, <1>13, <1>15, <1>16 DEF IInv, Rendered

\* An answer to the poll.
LEMMA PolledOK ==
    ASSUME IInv, page' = page, poll # None, poll.out > 0, NEW on \in BOOLEAN, Polled(on)
    PROVE  /\ poll' \in Poll \cup {None}
           /\ poll' # None => poll'.at = poll.at /\ poll'.label = poll.label /\ poll'.on = on
           /\ on => poll' # None
           /\ PollOK'
<1>1. poll \in Poll
  BY DEF IInv, TypeOK
<1>2. poll' = None \/ poll' = [poll EXCEPT !.out = @ - 1, !.on = on]
  BY DEF Polled
<1>3. on => poll' = [poll EXCEPT !.out = @ - 1, !.on = on]
  BY DEF Polled
<1> DEFINE q == [poll EXCEPT !.out = @ - 1]
           p == [poll EXCEPT !.out = @ - 1, !.on = on]
<1>4. p \in Poll /\ p.at = poll.at /\ p.label = poll.label /\ p.on = on
  <2>1. poll.out \in Nat /\ poll.out - 1 \in Nat
    BY <1>1 DEF Poll
  <2>2. q \in Poll /\ q.at = poll.at /\ q.label = poll.label
    BY <1>1, <2>1 DEF Poll
  <2>3. p = [q EXCEPT !.on = on]
    OBVIOUS
  <2> HIDE DEF p, q
  <2> QED
    BY <2>2, <2>3 DEF Poll
<1> HIDE DEF p
<1>5. p # None
  BY <1>4, ListPagesAssumption
<1>6. poll' # None => poll'.at = poll.at /\ poll'.label = poll.label /\ poll'.on = on
  BY <1>2, <1>4 DEF p
<1>7. PollOK'
  BY <1>6 DEF IInv, PollOK
<1> QED
  BY <1>2, <1>3, <1>4, <1>5, <1>6, <1>7 DEF p

LEMMA TickStep ==
    ASSUME IInv, Tick
    PROVE  IInv'
<1>1. /\ poll # None
      /\ poll' = [poll EXCEPT !.retries = @ + 1, !.out = @ + 1]
      /\ UNCHANGED <<page, stored, cluster, filter, rows, loading, gets, dialog, pending, label,
                     acts, timers, made, sent, changes, switched, cause>>
  BY DEF Tick
<1>2. poll \in Poll
  BY <1>1 DEF IInv, TypeOK
<1> DEFINE q == [poll EXCEPT !.retries = @ + 1]
<1>3. poll' \in Poll /\ poll'.at = poll.at /\ poll'.label = poll.label /\ poll'.on = poll.on
  <2>1. q \in Poll /\ q.at = poll.at /\ q.label = poll.label /\ q.on = poll.on
    BY <1>2 DEF Poll
  <2>2. poll' = [q EXCEPT !.out = @ + 1]
    BY <1>1
  <2> HIDE DEF q
  <2> QED
    BY <2>1, <2>2 DEF Poll
<1>4. poll' # None
  BY <1>3, ListPagesAssumption
<1>5. TypeOK'
  BY <1>1, <1>3 DEF IInv, TypeOK
<1>6. MisdirectedHasCause' /\ OneAtATime' /\ FlagsUp' /\ TimersOK' /\ SkeletonHasRequest' /\ DialogOK'
  BY <1>1 DEF IInv, MisdirectedHasCause, OneAtATime, FlagsUp, TimersOK, SkeletonHasRequest, DialogOK
<1>7. LabelHasRequest' /\ PollOK'
  BY <1>1, <1>3, <1>4 DEF IInv, LabelHasRequest, PollOK
<1>8. Known' = Known
  BY <1>1 DEF Known
<1>9. PlacesKnown'
  BY <1>1, <1>3, <1>8 DEF IInv, PlacesKnown, From
<1> QED
  BY <1>1, <1>5, <1>6, <1>7, <1>9 DEF IInv

LEMMA PollEndsStep ==
    ASSUME IInv, PollEnds
    PROVE  IInv'
<1> DEFINE t == [at |-> poll.at, label |-> poll.label]
<1>1. /\ poll # None /\ poll.out > 0 /\ Polled(FALSE)
      /\ timers' = Append(timers, t)
      /\ dialog' \in {dialog, None}
      /\ UNCHANGED <<page, stored, rows, pending, label, acts, made, sent, changes, switched>>
      /\ Rerender(gets, loading, cause)
  BY DEF PollEnds
<1>2. cluster' = NextCluster /\ Rendered
  BY <1>1, Before, RerenderOK
<1>3. Known \subseteq Known'
  BY <1>2 DEF Rendered
<1>4. /\ poll' \in Poll \cup {None} /\ PollOK'
      /\ poll' # None => poll'.at = poll.at
  BY <1>1, PolledOK
<1>5. t \in Timeouts /\ t.at = poll.at /\ t.label = poll.label
  BY <1>1 DEF IInv, TypeOK, Poll, Timeouts
<1> HIDE DEF t
<1>6. /\ timers' \in Seq(Timeouts)
      /\ DOMAIN timers' = DOMAIN timers \cup {Len(timers) + 1}
      /\ \A j \in DOMAIN timers : timers'[j] = timers[j]
      /\ timers'[Len(timers) + 1] = t
      /\ From(timers') = From(timers) \cup {t.at[1]}
  BY <1>1, <1>5, Before, AppendOK, FromAppend
<1>7. TypeOK'
  <2>1. dialog' \in [op : page.ops, of : Clusters \cup {None}] \cup {None}
    BY <1>1 DEF IInv, TypeOK
  <2> QED
    BY <1>1, <1>2, <1>4, <1>6, <2>1 DEF Rendered, Reads, Timeouts, IInv, TypeOK
<1>8. MisdirectedHasCause' /\ OneAtATime' /\ FlagsUp'
  BY <1>1 DEF IInv, MisdirectedHasCause, OneAtATime, FlagsUp
<1>9. TimersOK'
  <2>1. page.from = "state" => t.at[1] # None
    BY <1>1, <1>5 DEF IInv, PollOK
  <2> QED
    BY <1>1, <1>6, <2>1 DEF IInv, TimersOK
<1>10. LabelHasRequest'
  BY <1>1, <1>5, <1>6 DEF IInv, LabelHasRequest
<1>11. /\ rows' # None => rows'.at[1] \in Known'
       /\ \A j \in DOMAIN acts' : acts'[j].to[1] \in Known'
       /\ From(timers') \subseteq Known'
       /\ poll' # None => poll'.at[1] \in Known'
  BY <1>1, <1>3, <1>4, <1>5, <1>6 DEF IInv, PlacesKnown
<1>12. PlacesKnown'
  BY <1>2, <1>11, PlacesOK
<1>13. DialogOK'
  BY <1>1, <1>2, DialogKept DEF Follows
<1> QED
  BY <1>1, <1>2, <1>4, <1>7, <1>8, <1>9, <1>10, <1>12, <1>13 DEF IInv, Rendered

LEMMA PollGoesOnStep ==
    ASSUME IInv, PollGoesOn
    PROVE  IInv'
<1>1. /\ poll # None /\ poll.out > 0 /\ Polled(poll.on)
      /\ UNCHANGED <<page, stored, cluster, filter, rows, loading, gets, dialog, pending, label,
                     acts, timers, made, sent, changes, switched, cause>>
  BY DEF PollGoesOn
<1>2. poll.on \in BOOLEAN
  BY <1>1 DEF IInv, TypeOK, Poll
<1>3. /\ poll' \in Poll \cup {None} /\ PollOK'
      /\ poll' # None => poll'.at = poll.at /\ poll'.label = poll.label /\ poll'.on = poll.on
      /\ poll.on => poll' # None
  BY <1>1, <1>2, PolledOK
<1>4. TypeOK'
  BY <1>1, <1>3 DEF IInv, TypeOK
<1>5. MisdirectedHasCause' /\ OneAtATime' /\ FlagsUp' /\ TimersOK' /\ SkeletonHasRequest' /\ DialogOK'
  BY <1>1 DEF IInv, MisdirectedHasCause, OneAtATime, FlagsUp, TimersOK, SkeletonHasRequest, DialogOK
<1>6. LabelHasRequest'
  BY <1>1, <1>3 DEF IInv, LabelHasRequest
<1>7. Known' = Known
  BY <1>1 DEF Known
<1>8. PlacesKnown'
  BY <1>1, <1>3, <1>7 DEF IInv, PlacesKnown, From
<1> QED
  BY <1>1, <1>3, <1>4, <1>5, <1>6, <1>8 DEF IInv

LEMMA PollGivesUpStep ==
    ASSUME IInv, PollGivesUp
    PROVE  IInv'
<1>1. /\ poll # None /\ poll.out > 0 /\ Polled(FALSE)
      /\ label' = FALSE
      /\ UNCHANGED <<page, stored, rows, dialog, pending, acts, timers, made, sent, changes,
                     switched>>
      /\ Rerender(gets, loading, cause)
  BY DEF PollGivesUp
<1>2. cluster' = NextCluster /\ Rendered
  BY <1>1, Before, RerenderOK
<1>3. Known \subseteq Known'
  BY <1>2 DEF Rendered
<1>4. /\ poll' \in Poll \cup {None} /\ PollOK'
      /\ poll' # None => poll'.at = poll.at
  BY <1>1, PolledOK
<1>5. TypeOK'
  BY <1>1, <1>2, <1>4 DEF Rendered, Reads, IInv, TypeOK
<1>6. MisdirectedHasCause' /\ OneAtATime' /\ FlagsUp' /\ TimersOK' /\ LabelHasRequest'
  BY <1>1 DEF IInv, MisdirectedHasCause, OneAtATime, FlagsUp, TimersOK, LabelHasRequest
<1>7. /\ rows' # None => rows'.at[1] \in Known'
      /\ \A j \in DOMAIN acts' : acts'[j].to[1] \in Known'
      /\ From(timers') \subseteq Known'
      /\ poll' # None => poll'.at[1] \in Known'
  BY <1>1, <1>3, <1>4 DEF IInv, PlacesKnown, From
<1>8. PlacesKnown'
  BY <1>2, <1>7, PlacesOK
<1>9. DialogOK'
  BY <1>1, <1>2, DialogKept DEF Follows
<1> QED
  BY <1>1, <1>2, <1>4, <1>5, <1>6, <1>8, <1>9 DEF IInv, Rendered

-----------------------------------------------------------------------------
(* The invariant.                                                          *)

LEMMA InitIInv == Init => IInv
<1> SUFFICES ASSUME Init PROVE IInv
  OBVIOUS
<1> DEFINE g == [at |-> <<cluster, filter>>, quiet |-> ~page.spins, since |-> 0, excuse |-> None]
<1>1. /\ page \in Pages /\ page \in Page
      /\ stored \in Clusters \cup {None} /\ (page.from = "none" => stored = None)
      /\ cluster = stored /\ filter = All /\ rows = None
      /\ made = [c \in Clusters \cup {None} |-> 0] /\ loading = page.spins
      /\ gets = IF page.from = "state" /\ cluster = None THEN <<>> ELSE <<g>>
      /\ dialog = None /\ pending = {} /\ label = FALSE
      /\ acts = <<>> /\ timers = <<>> /\ poll = None
      /\ sent = 0 /\ changes = 0 /\ switched = FALSE
      /\ cause \in {"unasked", None}
  BY ListPagesAssumption DEF Init, FirstFilter
<1>2. page.from \in {"none", "state", "storage"} /\ page.spins \in BOOLEAN
  BY <1>1 DEF Page
<1>3. g \in Reads /\ g.at[1] = cluster /\ g.quiet = ~page.spins
  BY <1>1, <1>2 DEF Reads, Places, Filters
<1> HIDE DEF g
<1>4. <<>> \in Seq(Reads) /\ <<g>> \in Seq(Reads)
  BY <1>3
<1>5. gets \in Seq(Reads)
  BY <1>1, <1>4
<1>6. TypeOK
  <2>1. made \in [Clusters \cup {None} -> Nat]
    BY <1>1
  <2>2. acts \in Seq(Requests) /\ timers \in Seq(Timeouts)
    BY <1>1
  <2>3. cause \in Causes \cup {None} /\ filter \in Filters
    BY <1>1 DEF Causes, Filters
  <2> QED
    BY <1>1, <1>2, <1>5, <2>1, <2>2, <2>3 DEF TypeOK, Reads, Requests, Timeouts
<1>7. SkeletonHasRequest
  <2>1. CASE page.from = "state" /\ cluster = None
    BY <2>1 DEF SkeletonHasRequest
  <2>2. CASE ~(page.from = "state" /\ cluster = None)
    <3>1. 1 \in DOMAIN gets /\ gets[1] = g
      BY <1>1, <2>2
    <3> QED
      BY <1>1, <1>3, <3>1 DEF SkeletonHasRequest
  <2> QED
    BY <2>1, <2>2
<1>8. PlacesKnown
  <2>1. cluster \in Known
    BY <1>1, <1>2 DEF Known
  <2>2. \A i \in DOMAIN gets : gets[i] = g
    BY <1>1
  <2>3. From(gets) \subseteq Known
    BY <1>3, <2>1, <2>2 DEF From
  <2>4. From(timers) \subseteq Known
    BY <1>1 DEF From
  <2> QED
    BY <1>1, <2>1, <2>3, <2>4 DEF PlacesKnown
<1>9. MisdirectedHasCause /\ OneAtATime /\ LabelHasRequest /\ DialogOK /\ FlagsUp /\ TimersOK /\ PollOK
  BY <1>1 DEF MisdirectedHasCause, OneAtATime, LabelHasRequest, DialogOK, FlagsUp, TimersOK, PollOK
<1> QED
  BY <1>1, <1>6, <1>7, <1>8, <1>9 DEF IInv

LEMMA StutterStep ==
    ASSUME IInv, UNCHANGED vars
    PROVE  IInv'
<1> USE DEF vars
<1>1. TypeOK' /\ SkeletonHasRequest' /\ MisdirectedHasCause' /\ OneAtATime' /\ LabelHasRequest'
  BY DEF IInv, TypeOK, SkeletonHasRequest, MisdirectedHasCause, OneAtATime, LabelHasRequest
<1>2. DialogOK' /\ FlagsUp' /\ TimersOK' /\ PollOK'
  BY DEF IInv, DialogOK, FlagsUp, TimersOK, PollOK
<1>3. Known' = Known
  BY DEF Known
<1>4. PlacesKnown'
  BY <1>3 DEF IInv, PlacesKnown, From
<1> QED
  BY <1>1, <1>2, <1>4 DEF IInv

LEMMA NextIInv == IInv /\ [Next]_vars => IInv'
<1> SUFFICES ASSUME IInv, [Next]_vars PROVE IInv'
  OBVIOUS
<1>1. CASE StoreFirst
  BY <1>1, StoreFirstStep
<1>2. CASE OtherTab
  BY <1>2, OtherTabStep
<1>3. CASE Adopt
  BY <1>3, AdoptStep
<1>4. ASSUME NEW f \in Filters, Narrow(f) PROVE IInv'
  BY <1>4, NarrowStep
<1>5. CASE Press
  BY <1>5, PressStep
<1>6. CASE Answer
  <2>1. PICK i \in DOMAIN gets : Listed(i) \/ Unlisted(i)
    BY <1>6 DEF Answer
  <2> QED
    BY <2>1, ListedStep, UnlistedStep
<1>7. ASSUME NEW op \in page.ops, Open(op) PROVE IInv'
  BY <1>7, OpenStep
<1>8. CASE Dismiss
  BY <1>8, DismissStep
<1>9. CASE Confirm
  BY <1>9, ConfirmStep
<1>10. CASE End
  <2>1. PICK i \in DOMAIN acts : Done(i) \/ Undone(i, TRUE) \/ Undone(i, FALSE)
    BY <1>10 DEF End
  <2> QED
    BY <2>1, DoneStep, UndoneStep
<1>11. ASSUME NEW i \in DOMAIN timers, Fire(i) PROVE IInv'
  BY <1>11, FireStep
<1>12. CASE Tick
  BY <1>12, TickStep
<1>13. CASE PollEnds
  BY <1>13, PollEndsStep
<1>14. CASE PollGoesOn
  BY <1>14, PollGoesOnStep
<1>15. CASE PollGivesUp
  BY <1>15, PollGivesUpStep
<1>16. CASE UNCHANGED vars
  BY <1>16, StutterStep
<1> QED
  BY <1>1, <1>2, <1>3, <1>4, <1>5, <1>6, <1>7, <1>8, <1>9, <1>10, <1>11, <1>12, <1>13, <1>14,
     <1>15, <1>16 DEF Next

LEMMA Invariance == Spec => []IInv
<1>1. Init => IInv
  BY InitIInv
<1>2. IInv /\ [Next]_vars => IInv'
  BY NextIInv
<1> QED
  BY <1>1, <1>2, PTL DEF Spec

-----------------------------------------------------------------------------
(* What brings the table up to date.  The requests in flight are answered   *)
(* in any order, but the last one sent decides: it finds all that was done, *)
(* or bears the reason why not, unless a timer is going to fetch again.     *)

LastOf(s) == s[Len(s)]

\* A timer that will fetch: without a cluster a page that keeps it does not.
Fetches(t) == page.from = "state" => t.at[1] # None
Promised   == \E i \in DOMAIN timers : Fetches(timers[i])

LastDecides ==
    gets # <<>> => \/ Promised
                   \/ LastOf(gets).excuse # None
                   \/ LastOf(gets).at = Here /\ LastOf(gets).since = made[cluster]

RowsDecide == gets = <<>> /\ cause = None => Promised \/ Current

Covered == LastDecides /\ RowsDecide

\* What the requests gs and the cause why have to be for a render to keep that,
\* when neither cluster nor filter changes.
Decided(gs, why) ==
    /\ gs # <<>> => \/ Promised'
                    \/ LastOf(gs).excuse # None
                    \/ LastOf(gs).at = Here /\ LastOf(gs).since = made'[cluster]
    /\ gs = <<>> /\ why = None =>
          Promised' \/ (rows' # None /\ rows'.at = Here /\ rows'.seen = made'[cluster])

LEMMA LastAppended ==
    ASSUME NEW T, NEW s \in Seq(T), NEW x \in T
    PROVE  Append(s, x) # <<>> /\ LastOf(Append(s, x)) = x
<1>1. Len(Append(s, x)) = Len(s) + 1 /\ Append(s, x)[Len(s) + 1] = x
  OBVIOUS
<1>2. Append(s, x) # <<>>
  <2>1. Len(s) \in Nat /\ Len(<<>>) = 0
    OBVIOUS
  <2> QED
    BY <1>1, <2>1
<1> QED
  BY <1>1, <1>2 DEF LastOf

\* Excuse marks the last request with the rest.
LEMMA LastExcused ==
    ASSUME NEW gs \in Seq(Reads), NEW why \in Causes \cup {None}
    PROVE  /\ Excuse(gs, why) = <<>> <=> gs = <<>>
           /\ why # None /\ gs # <<>> => LastOf(Excuse(gs, why)).excuse # None
           /\ why = None => Excuse(gs, why) = gs
<1> DEFINE f == Excuse(gs, why)
<1>1. Len(gs) \in Nat /\ DOMAIN gs = 1 .. Len(gs)
  OBVIOUS
<1>2. f \in Seq(Reads) /\ DOMAIN f = DOMAIN gs
  <2>1. f \in Seq(Reads)
    BY Excused
  <2>2. DOMAIN f = DOMAIN gs
    BY DEF Excuse
  <2> QED
    BY <2>1, <2>2
<1>3. Len(f) = Len(gs)
  BY <1>1, <1>2
<1>4. f = <<>> <=> gs = <<>>
  BY <1>1, <1>2, <1>3
<1>5. ASSUME gs # <<>>, why # None PROVE LastOf(f).excuse # None
  <2>1. Len(gs) \in DOMAIN gs
    BY <1>1, <1>5
  <2>2. PICK g \in Reads : g = gs[Len(gs)]
    BY <2>1, Element
  <2>3. f[Len(gs)] = [g EXCEPT !.excuse = why]
    BY <1>5, <2>1, <2>2 DEF Excuse, Either
  <2>4. f[Len(gs)].excuse = why
    BY <2>2, <2>3 DEF Reads
  <2> QED
    BY <1>3, <1>5, <2>4 DEF LastOf
<1>6. ASSUME why = None PROVE f = gs
  <2>1. \A i \in DOMAIN gs : f[i] = gs[i]
    <3> SUFFICES ASSUME NEW i \in DOMAIN gs PROVE f[i] = gs[i]
      OBVIOUS
    <3>1. PICK g \in Reads : g = gs[i]
      BY Element
    <3>2. f[i] = [g EXCEPT !.excuse = g.excuse]
      BY <1>6, <3>1 DEF Excuse, Either
    <3>3. f[i] = g
      BY <3>1, <3>2 DEF Reads
    <3> QED
      BY <3>1, <3>3
  <2> QED
    BY <1>2, <1>3, <2>1
<1> HIDE DEF f
<1> QED
  BY <1>4, <1>5, <1>6 DEF f

\* The requests that remain after an answer: the last one is the same, or every one
\* has its reason.
LEMMA LastOfRest ==
    ASSUME TypeOK, NEW i \in DOMAIN gets, NEW why \in Causes
    PROVE  /\ Rest(i, why) = <<>> => Len(gets) = 1 /\ i = 1
           /\ Rest(i, why) # <<>> =>
                 \/ LastOf(Rest(i, why)).excuse # None
                 \/ i # Len(gets) /\ LastOf(Rest(i, why)) = LastOf(gets)
<1> DEFINE f == [j \in DOMAIN gets |->
                    IF j < i THEN [gets[j] EXCEPT !.excuse = why] ELSE gets[j]]
           r == Rest(i, why)
           n == Len(gets)
<1>1. gets \in Seq(Reads)
  BY DEF TypeOK, Reads
<1>2. n \in Nat /\ DOMAIN gets = 1 .. n /\ i \in 1 .. n
  BY <1>1
<1>3. r = [j \in 1 .. Len(f) - 1 |-> f[IF j < i THEN j ELSE j + 1]]
  BY DEF Rest, Without
<1>4. f \in Seq(Reads) /\ Len(f) = n
  <2>1. \A j \in DOMAIN f : f[j] \in Reads
    <3> SUFFICES ASSUME NEW j \in DOMAIN gets PROVE f[j] \in Reads
      OBVIOUS
    <3>1. PICK g \in Reads : g = gets[j]
      BY <1>1, Element
    <3>2. [g EXCEPT !.excuse = why] \in Reads
      BY DEF Reads
    <3> QED
      BY <3>1, <3>2
  <2> QED
    BY <1>2, <2>1
<1>5. r \in Seq(Reads) /\ Len(r) = n - 1
  <2>1. r \in Seq(Reads)
    BY <1>3, <1>4, <1>2
  <2> QED
    BY <1>2, <1>3, <1>4, <2>1
<1>6. r = <<>> => n = 1 /\ i = 1
  <2> SUFFICES ASSUME r = <<>> PROVE n = 1 /\ i = 1
    OBVIOUS
  <2>1. Len(r) = 0
    OBVIOUS
  <2>2. n - 1 = 0
    BY <1>5, <2>1
  <2> HIDE DEF r, n
  <2> QED
    BY <1>2, <2>2
<1>7. ASSUME r # <<>>
      PROVE  \/ LastOf(r).excuse # None
             \/ i # n /\ LastOf(r) = LastOf(gets)
  <2>1. n - 1 \in 1 .. n - 1 /\ LastOf(r) = r[n - 1]
    <3>1. Len(r) # 0
      BY <1>5, <1>7
    <3> QED
      BY <1>2, <1>5, <3>1 DEF LastOf
  <2>2. CASE i = n
    <3>1. r[n - 1] = f[n - 1] /\ n - 1 \in DOMAIN gets /\ n - 1 < i
      BY <1>2, <1>3, <1>4, <2>1, <2>2
    <3>2. PICK g \in Reads : g = gets[n - 1]
      BY <1>1, <3>1, Element
    <3>3. r[n - 1] = [g EXCEPT !.excuse = why]
      BY <3>1, <3>2
    <3>4. r[n - 1].excuse = why
      BY <3>2, <3>3 DEF Reads
    <3> QED
      BY <2>1, <3>4, ListPagesAssumption
  <2>3. CASE i # n
    <3>1. r[n - 1] = f[n] /\ n \in DOMAIN gets /\ ~(n < i)
      BY <1>2, <1>3, <1>4, <2>1, <2>3
    <3>2. f[n] = gets[n]
      BY <3>1
    <3> QED
      BY <2>1, <2>3, <3>1, <3>2 DEF LastOf
  <2> QED
    BY <2>2, <2>3
<1> HIDE DEF r, n
<1> QED
  BY <1>6, <1>7 DEF r, n

\* Rows are no None: what is shown has a field.
LEMMA NotRows ==
    ASSUME NEW r \in [at : Places, seen : Nat]
    PROVE  r # None
BY ListPagesAssumption

\* A request sent to the place the page shows finds everything, one sent elsewhere
\* bears the reason.
LEMMA FetchDecides ==
    ASSUME TypeOK, made' \in [Clusters \cup {None} -> Nat], NEW gs \in Seq(Reads),
           NEW at \in Places, NEW quiet \in BOOLEAN, NEW drops \in BOOLEAN, NEW why,
           <<NextCluster, filter>> = Here, page.from = "state" => at[1] # None
    PROVE  Decided(Fetch(gs, at, quiet, drops), why)
<1> DEFINE to == IF drops THEN <<at[1], All>> ELSE at
           y  == IF to = <<NextCluster, filter>> THEN None
                 ELSE IF drops THEN "unfiltered" ELSE "closure"
           g  == Get(to, quiet, y)
<1>1. to \in Places /\ to[1] \in Clusters \cup {None}
  BY DEF Places, Filters
<1>2. y \in Causes \cup {None} /\ (to # Here => y # None) /\ (to = Here => to[1] = cluster)
  BY ListPagesAssumption DEF Causes, Here
<1>3. Fetch(gs, at, quiet, drops) = Append(gs, g)
  BY DEF Fetch
<1> HIDE DEF to, y
<1>4. g \in Reads /\ g.at = to /\ g.excuse = y /\ g.since = made'[to[1]]
  BY <1>1, <1>2 DEF Get, Reads
<1> HIDE DEF g
<1>5. Append(gs, g) # <<>> /\ LastOf(Append(gs, g)) = g
  BY <1>4, LastAppended
<1> QED
  BY <1>2, <1>3, <1>4, <1>5 DEF Decided

\* A render keeps it: it fetches, or says that it did not.
LEMMA RenderCovers ==
    ASSUME TypeOK, page' = page, made' \in [Clusters \cup {None} -> Nat],
           NEW c \in Clusters \cup {None}, NEW f \in Filters, NEW gs \in Seq(Reads), NEW ld,
           NEW why \in Causes \cup {None}, Render(c, f, gs, ld, why),
           <<c, f>> = Here => Decided(gs, why)
    PROVE  Covered'
<1>1. /\ cluster' = c /\ filter' = f
      /\ gets' = IF Refetches(c, f) THEN Append(gs, Get(<<c, f>>, FALSE, None))
                 ELSE Excuse(gs, IF <<c, f>> # Here /\ ~Refetches(c, f) THEN "unasked" ELSE None)
      /\ cause' = IF <<c, f>> # Here /\ ~Refetches(c, f) THEN "unasked" ELSE why
  BY DEF Render
<1>2. Here' = <<c, f>>
  BY <1>1 DEF Here
<1>u. "unasked" \in Causes /\ "unasked" # None
  BY ListPagesAssumption DEF Causes
<1>3. CASE Refetches(c, f)
  <2> DEFINE g == Get(<<c, f>>, FALSE, None)
  <2>1. g \in Reads /\ g.at = <<c, f>> /\ g.since = made'[c]
    BY DEF Get, Reads, Places
  <2> HIDE DEF g
  <2>2. gets' = Append(gs, g)
    BY <1>1, <1>3 DEF g
  <2>3. gets' # <<>> /\ LastOf(gets') = g
    BY <2>1, <2>2, LastAppended
  <2> QED
    BY <1>1, <1>2, <2>1, <2>3 DEF Covered, LastDecides, RowsDecide, LastOf
<1>4. CASE ~Refetches(c, f) /\ <<c, f>> # Here
  <2>1. gets' = Excuse(gs, "unasked") /\ cause' = "unasked"
    BY <1>1, <1>4
  <2>2. gets' # <<>> => LastOf(gets').excuse # None
    BY <1>u, <2>1, LastExcused
  <2> QED
    BY <1>u, <2>1, <2>2 DEF Covered, LastDecides, RowsDecide, LastOf
<1>5. CASE ~Refetches(c, f) /\ <<c, f>> = Here
  <2>1. gets' = Excuse(gs, None) /\ cause' = why
    BY <1>1, <1>5
  <2>2. gets' = gs
    BY <2>1, LastExcused
  <2>3. c = cluster /\ Here' = Here
    BY <1>2, <1>5 DEF Here
  <2> QED
    BY <1>1, <1>5, <2>1, <2>2, <2>3
       DEF Decided, Covered, LastDecides, RowsDecide, LastOf, Current
<1> QED
  BY <1>3, <1>4, <1>5

LEMMA RerenderCovers ==
    ASSUME TypeOK, page' = page, made' \in [Clusters \cup {None} -> Nat],
           NEW gs \in Seq(Reads), NEW ld, NEW why \in Causes \cup {None},
           Rerender(gs, ld, why), <<NextCluster, filter>> = Here => Decided(gs, why)
    PROVE  Covered'
<1>1. NextCluster \in Clusters \cup {None} /\ filter \in Filters
  BY DEF TypeOK, NextCluster
<1> QED
  BY <1>1, RenderCovers DEF Rerender

LEMMA UnrenderedCovers ==
    ASSUME NEW gs, NEW why, Unrendered(gs, why), Decided(gs, why)
    PROVE  Covered'
<1>1. gets' = gs /\ cause' = why /\ cluster' = cluster /\ filter' = filter
  BY DEF Unrendered
<1>2. Here' = Here
  BY <1>1 DEF Here
<1> QED
  BY <1>1, <1>2 DEF Decided, Covered, LastDecides, RowsDecide, LastOf, Current

\* What was decided stays so while no list changes and no timer is lost.
LEMMA StaysDecided ==
    ASSUME Covered, rows' = rows, made'[cluster] = made[cluster], Promised => Promised'
    PROVE  Decided(gets, cause)
BY DEF Covered, LastDecides, RowsDecide, Decided, Current, Here

\* A reason for every request and for the table excuses whatever happens.
LEMMA ExcuseDecides ==
    ASSUME NEW gs \in Seq(Reads), NEW why \in Causes, NEW y \in Causes
    PROVE  Decided(Excuse(gs, why), y)
<1>1. None \notin Causes
  BY ListPagesAssumption
<1> QED
  BY <1>1, LastExcused DEF Decided

\* Every timer but one that ended is still there, and new ones come last.
LEMMA TimerStays ==
    ASSUME page' = page, timers' = timers
    PROVE  Promised => Promised'
BY DEF Promised, Fetches

LEMMA TimerAdded ==
    ASSUME page' = page, timers \in Seq(Timeouts), NEW t \in Timeouts,
           timers' = Append(timers, t)
    PROVE  /\ Promised => Promised'
           /\ Fetches(t) => Promised'
<1>1. /\ DOMAIN timers' = DOMAIN timers \cup {Len(timers) + 1}
      /\ \A j \in DOMAIN timers : timers'[j] = timers[j]
      /\ timers'[Len(timers) + 1] = t
  BY AppendOK
<1> QED
  BY <1>1 DEF Promised, Fetches

\* The end of a request leaves the timers, and adds the one that follows it.
LEMMA ReleaseTimers ==
    ASSUME IInv, page' = page, NEW i \in DOMAIN acts, NEW ok \in BOOLEAN, Release(i, ok)
    PROVE  /\ Promised => Promised'
           /\ /\ acts[i].op.later = "settled" \/ (ok /\ acts[i].op.later = "success")
              /\ page.from = "state" => acts[i].to[1] # None
              => Promised'
<1> DEFINE t == [at |-> acts[i].to, label |-> acts[i].op.label]
           timed == acts[i].op.later = "settled" \/ (ok /\ acts[i].op.later = "success")
<1>1. timers' = IF timed THEN Append(timers, t) ELSE timers
  BY DEF Release
<1>2. acts[i] \in Requests
  BY Before, Element
<1>3. acts[i].op \in page.ops /\ acts[i].to \in Places
  BY <1>2 DEF Requests
<1>4. acts[i].op.label \in BOOLEAN
  BY <1>3, PageOK DEF IInv, Op
<1>5. t \in Timeouts /\ t.at = acts[i].to
  BY <1>3, <1>4 DEF Timeouts
<1> HIDE DEF t
<1>6. CASE timed
  <2>1. (Promised => Promised') /\ (Fetches(t) => Promised')
    BY <1>1, <1>5, <1>6, Before, TimerAdded
  <2> QED
    BY <1>5, <2>1 DEF Fetches
<1>7. CASE ~timed
  BY <1>1, <1>7, TimerStays
<1> QED
  BY <1>6, <1>7

\* Only a success, or a failure that was none, changes a list: that of its cluster.
LEMMA ChangedMade ==
    ASSUME IInv, NEW a \in Requests, Changed(a)
    PROVE  /\ made' \in [Clusters \cup {None} -> Nat]
           /\ ~a.op.writes \/ a.to[1] # cluster => made'[cluster] = made[cluster]
           /\ a.op.writes => made'[a.to[1]] = made[a.to[1]] + 1
<1>1. a.to[1] \in Clusters \cup {None}
  BY DEF Requests, Places
<1> QED
  BY <1>1, Before DEF Changed

\* The success of a request: it fetches the list, takes the row out of the table, sets
\* the timer that will fetch, or leaves a reason.
LEMMA DoneCovers ==
    ASSUME IInv, Covered, NEW i \in DOMAIN acts, Done(i)
    PROVE  Covered'
<1> DEFINE a  == acts[i]
           gs == Refetched(a)
           ld == loading \/ a.op.now = "loud"
           why == IF Unfollowed(a.op) THEN "unasked" ELSE cause
           upToDate == rows # None /\ rows.at[1] = a.to[1] /\ rows.seen = made[a.to[1]]
<1>1. /\ Possible(a) /\ Release(i, TRUE) /\ Changed(a)
      /\ rows' = IF a.op.now = "local" /\ upToDate THEN [rows EXCEPT !.seen = @ + 1] ELSE rows
      /\ Rerender(gs, ld, why)
      /\ page' = page
  BY DEF Done
<1>2. a \in Requests
  BY Before, Element
<1>3. a.op \in page.ops /\ a.to \in Places
  BY <1>2 DEF Requests
<1>4. page.from = "state" => a.to[1] # None
  BY <1>1 DEF Possible
<1>5. /\ a.op.now \in {"quiet", "loud", "local", "none"}
      /\ a.op.later \in {"never", "settled", "success", "poll"}
      /\ a.op.drops \in BOOLEAN
      /\ a.op.now = "local" => a.op.writes
      /\ a.op.writes /\ a.op.later = "poll" => a.op.now # "none"
  <2>1. page \in Pages /\ a.op \in Op
    BY <1>3, PageOK DEF IInv
  <2>2. /\ a.op.now = "local" => a.op.writes
        /\ a.op.writes /\ a.op.later = "poll" => a.op.now # "none"
    <3>1. ASSUME NEW op \in page.ops
          PROVE  /\ op.now = "local" => op.writes
                 /\ op.writes /\ op.later = "poll" => op.now # "none"
      BY <2>1, ListPagesAssumption
    <3> QED
      BY <1>3, <3>1
  <2> HIDE DEF a
  <2>3. /\ a.op.now \in {"quiet", "loud", "local", "none"}
        /\ a.op.later \in {"never", "settled", "success", "poll"}
        /\ a.op.drops \in BOOLEAN
    BY <2>1 DEF Op
  <2> QED
    BY <2>2, <2>3
<1>6. /\ made' \in [Clusters \cup {None} -> Nat]
      /\ ~a.op.writes \/ a.to[1] # cluster => made'[cluster] = made[cluster]
      /\ a.op.writes => made'[a.to[1]] = made[a.to[1]] + 1
  BY <1>1, <1>2, ChangedMade
<1>7. /\ Promised => Promised'
      /\ a.op.later \in {"settled", "success"} => Promised'
  BY <1>1, <1>4, ReleaseTimers
<1>8. gets \in Seq(Reads) /\ None \notin Causes /\ {"unasked", "overtaken"} \subseteq Causes
  BY Before, ListPagesAssumption DEF Causes
<1>9. gs \in Seq(Reads)
  BY <1>1, <1>6, RefetchedOK
<1>10. why \in Causes \cup {None}
  BY <1>8, Before
<1> HIDE DEF a
<1>11. ASSUME <<NextCluster, filter>> = Here PROVE Decided(gs, why)
  <2>1. CASE a.op.now \in {"quiet", "loud"}
    <3>1. gs = Fetch(gets, a.to, a.op.now = "quiet", a.op.drops)
      BY <2>1 DEF Refetched
    <3>2. (a.op.now = "quiet") \in BOOLEAN
      OBVIOUS
    <3> HIDE DEF why, gs
    <3>3. TypeOK
      BY DEF IInv
    <3>4. Decided(Fetch(gets, a.to, a.op.now = "quiet", a.op.drops), why)
      BY <1>3, <1>4, <1>5, <1>6, <1>8, <1>11, <3>2, <3>3, FetchDecides
    <3> QED
      BY <3>1, <3>4
  <2>2. CASE a.op.now = "local"
    <3>1. gs = Excuse(gets, "overtaken") /\ why = cause
      BY <2>2 DEF Refetched, Unfollowed
    <3>2. gs # <<>> => LastOf(gs).excuse # None
      BY <1>8, <3>1, LastExcused
    <3>3. ASSUME gs = <<>>, cause = None, ~Promised'
          PROVE  rows' # None /\ rows'.at = Here /\ rows'.seen = made'[cluster]
      <4>1. gets = <<>>
        BY <1>8, <3>1, <3>3, LastExcused
      <4>2. rows # None /\ rows.at = Here /\ rows.seen = made[cluster]
        BY <1>7, <3>3, <4>1 DEF Covered, RowsDecide, Current
      <4>3. rows.at[1] = cluster /\ rows \in [at : Places, seen : Nat]
        BY <4>2 DEF Here, IInv, TypeOK
      <4>4. CASE a.to[1] = cluster
        <5>1. rows' = [rows EXCEPT !.seen = @ + 1]
          BY <1>1, <2>2, <4>2, <4>3, <4>4
        <5>2. rows' \in [at : Places, seen : Nat] /\ rows'.at = Here
              /\ rows'.seen = made[cluster] + 1
          BY <4>2, <4>3, <5>1
        <5>3. rows' # None
          BY <5>2, NotRows
        <5> QED
          BY <1>5, <1>6, <2>2, <4>4, <5>2, <5>3
      <4>5. CASE a.to[1] # cluster
        BY <1>1, <1>6, <4>2, <4>3, <4>5
      <4> QED
        BY <4>4, <4>5
    <3> QED
      BY <3>1, <3>2, <3>3 DEF Decided
  <2>3. CASE a.op.now = "none" /\ Unfollowed(a.op)
    <3>1. gs = Excuse(gets, "unasked") /\ why = "unasked"
      BY <2>3 DEF Refetched
    <3> QED
      BY <1>8, <3>1, ExcuseDecides
  <2>4. CASE a.op.now = "none" /\ ~Unfollowed(a.op)
    <3>1. gs = Excuse(gets, None) /\ why = cause
      BY <2>4 DEF Refetched
    <3>2. gs = gets
      BY <1>8, <3>1, LastExcused
    <3>3. CASE a.op.writes
      <4>1. Promised'
        BY <1>5, <1>7, <2>4, <3>3 DEF Unfollowed
      <4> QED
        BY <4>1 DEF Decided
    <3>4. CASE ~a.op.writes
      <4>1. rows' = rows
        BY <1>1, <2>4
      <4> QED
        BY <1>6, <1>7, <3>1, <3>2, <3>4, <4>1, StaysDecided
    <3> QED
      BY <3>3, <3>4
  <2> QED
    BY <1>5, <2>1, <2>2, <2>3, <2>4
<1> HIDE DEF gs, ld, why
<1> QED
  BY <1>1, <1>6, <1>9, <1>10, <1>11, RerenderCovers DEF IInv

\* A request that failed: what was carried out all the same has its timer, or leaves a
\* reason.
LEMMA UndoneCovers ==
    ASSUME IInv, Covered, NEW i \in DOMAIN acts, NEW lost \in BOOLEAN, Undone(i, lost)
    PROVE  Covered'
<1> DEFINE a   == acts[i]
           why == IF lost /\ a.op.writes /\ a.op.later # "settled" THEN "unanswered" ELSE None
           gs  == Excuse(gets, why)
           cs  == Either(why, cause)
           still == a.op.guard = "none" /\ ~a.op.label
<1>1. /\ lost => Possible(a)
      /\ Release(i, FALSE)
      /\ IF lost THEN Changed(a) ELSE UNCHANGED made
      /\ still => Unrendered(gs, cs)
      /\ ~still => Rerender(gs, loading, cs)
      /\ UNCHANGED <<page, rows>>
  BY DEF Undone
<1>2. a \in Requests
  BY Before, Element
<1>3. /\ made' \in [Clusters \cup {None} -> Nat]
      /\ ~lost \/ ~a.op.writes => made'[cluster] = made[cluster]
  BY <1>1, <1>2, Before, ChangedMade
<1>4. /\ Promised => Promised'
      /\ lost /\ a.op.later = "settled" => Promised'
  BY <1>1, ReleaseTimers DEF Possible
<1>5. gets \in Seq(Reads) /\ None \notin Causes /\ "unanswered" \in Causes
  BY Before, ListPagesAssumption DEF Causes
<1>6. why \in Causes \cup {None}
  BY <1>5
<1>7. Decided(gs, cs)
  <2>1. CASE why # None
    <3>1. why \in Causes /\ cs = why
      BY <1>6, <2>1 DEF Either
    <3> HIDE DEF why
    <3> QED
      BY <1>5, <3>1, ExcuseDecides
  <2>2. CASE why = None
    <3>1. gs = gets /\ cs = cause
      BY <1>5, <2>2, LastExcused DEF Either
    <3>2. CASE lost /\ a.op.writes
      <4>1. Promised'
        BY <1>4, <1>5, <2>2, <3>2
      <4> QED
        BY <4>1 DEF Decided
    <3>3. CASE ~lost \/ ~a.op.writes
      <4> HIDE DEF gs, cs, why
      <4> QED
        BY <1>1, <1>3, <1>4, <3>1, <3>3, StaysDecided
    <3> QED
      BY <3>2, <3>3
  <2> QED
    BY <2>1, <2>2
<1>8. gs \in Seq(Reads) /\ cs \in Causes \cup {None}
  BY <1>5, <1>6, Before, Excused DEF Either
<1> HIDE DEF gs, cs, why, still
<1> QED
  BY <1>1, <1>3, <1>7, <1>8, RerenderCovers, UnrenderedCovers DEF IInv

\* A list that arrives shows what is there, or the last request is still out, or there
\* is a reason.
LEMMA ListedCovers ==
    ASSUME IInv, Covered, NEW i \in DOMAIN gets, Listed(i)
    PROVE  Covered'
<1> DEFINE g  == gets[i]
           gs == Rest(i, "overtaken")
<1>1. PICK v \in g.since .. made[g.at[1]] :
         /\ rows' = [at |-> g.at, seen |-> v]
         /\ UNCHANGED <<page, timers, made>>
         /\ Rerender(gs, g.quiet /\ loading,
                     IF g.at = <<NextCluster, filter>> /\ v = made[g.at[1]]
                     THEN None ELSE Either(g.excuse, cause))
  BY DEF Listed
<1> DEFINE why == IF g.at = <<NextCluster, filter>> /\ v = made[g.at[1]]
                  THEN None ELSE Either(g.excuse, cause)
<1>2. g \in Reads
  BY Before, Element
<1>3. /\ g.at \in Places /\ g.at[1] \in Clusters \cup {None} /\ g.since \in Nat
      /\ g.excuse \in Causes \cup {None}
  BY <1>2 DEF Reads, Places
<1>4. gs \in Seq(Reads) /\ "overtaken" \in Causes
  BY Before, RestOK DEF IInv, Causes
<1>5. /\ gs = <<>> => Len(gets) = 1 /\ i = 1
      /\ gs # <<>> => \/ LastOf(gs).excuse # None
                      \/ i # Len(gets) /\ LastOf(gs) = LastOf(gets)
  BY <1>4, LastOfRest DEF IInv
<1>6. why \in Causes \cup {None}
  BY <1>3, Before DEF Either
<1>7. gets # <<>>
  OBVIOUS
<1>8. Promised => Promised'
  BY <1>1, TimerStays
<1>9. made[g.at[1]] \in Nat /\ made' \in [Clusters \cup {None} -> Nat]
  BY <1>1, <1>3, Before
<1>10. ASSUME <<NextCluster, filter>> = Here PROVE Decided(gs, why)
  <2>1. CASE gs # <<>>
    BY <1>1, <1>5, <1>7, <1>8, <2>1 DEF Decided, Covered, LastDecides
  <2>2. CASE gs = <<>> /\ why # None
    BY <2>2 DEF Decided
  <2>3. CASE gs = <<>> /\ g.at = Here /\ v = made[g.at[1]]
    <3>1. g.at[1] = cluster
      BY <2>3 DEF Here
    <3>2. rows'.at = Here /\ rows'.seen = made'[cluster]
      BY <1>1, <2>3, <3>1
    <3>3. rows' \in [at : Places, seen : Nat]
      BY <1>1, <1>3, <1>9, <2>3
    <3>4. rows' # None
      BY <3>3, NotRows
    <3> QED
      BY <2>3, <3>2, <3>4 DEF Decided
  <2>4. CASE gs = <<>> /\ why = None /\ ~(g.at = Here /\ v = made[g.at[1]])
    <3>1. g.excuse = None
      BY <1>10, <2>4 DEF Either
    <3>2. LastOf(gets) = g
      BY <1>5, <2>4 DEF LastOf
    <3>3. Promised \/ (g.at = Here /\ g.since = made[cluster])
      BY <1>7, <3>1, <3>2 DEF Covered, LastDecides
    <3>4. ~(g.at = Here /\ g.since = made[cluster])
      <4> SUFFICES ASSUME g.at = Here, g.since = made[cluster] PROVE FALSE
        OBVIOUS
      <4>1. g.at[1] = cluster
        BY DEF Here
      <4>2. v = made[g.at[1]]
        BY <1>1, <1>3, <1>9, <4>1
      <4> QED
        BY <2>4, <4>2
    <3> QED
      BY <1>8, <2>4, <3>3, <3>4 DEF Decided
  <2> QED
    BY <2>1, <2>2, <2>3, <2>4
<1> HIDE DEF gs, why
<1> QED
  BY <1>1, <1>4, <1>6, <1>9, <1>10, RerenderCovers DEF IInv, why

\* A list request that fails is a reason, also for those sent before it.
LEMMA UnlistedCovers ==
    ASSUME IInv, Covered, NEW i \in DOMAIN gets, Unlisted(i)
    PROVE  Covered'
<1> DEFINE gs == Rest(i, "failed")
<1>1. /\ UNCHANGED <<page, rows, timers, made>>
      /\ IF gets[i].quiet THEN Unrendered(gs, "failed") ELSE Rerender(gs, FALSE, "failed")
  BY DEF Unlisted
<1>2. "failed" \in Causes /\ "failed" # None
  BY ListPagesAssumption DEF Causes
<1>3. gs \in Seq(Reads)
  BY <1>2, Before, RestOK DEF IInv
<1>4. gs # <<>> => \/ LastOf(gs).excuse # None
                   \/ i # Len(gets) /\ LastOf(gs) = LastOf(gets)
  BY <1>2, LastOfRest DEF IInv
<1>5. gets # <<>>
  OBVIOUS
<1> HIDE DEF gs
<1>6. Promised => Promised'
  BY <1>1, TimerStays
<1>7. Decided(gs, "failed")
  BY <1>1, <1>2, <1>4, <1>5, <1>6 DEF Decided, Covered, LastDecides
<1> QED
  BY <1>1, <1>2, <1>3, <1>7, Before, RerenderCovers, UnrenderedCovers DEF IInv

\* A timer fetches, or it is not the one that was going to.
LEMMA FireCovers ==
    ASSUME IInv, Covered, NEW i \in DOMAIN timers, Fire(i)
    PROVE  Covered'
<1> DEFINE t  == timers[i]
           gs == Fetch(gets, t.at, t.label, FALSE)
           ld == loading \/ ~t.label
<1>1. /\ timers' = Without(timers, i)
      /\ UNCHANGED <<page, rows, made>>
      /\ Rerender(gs, ld, cause)
  BY DEF Fire
<1>2. t \in Timeouts
  BY Before, Element
<1>3. t.at \in Places /\ t.label \in BOOLEAN
  BY <1>2 DEF Timeouts
<1>4. gs \in Seq(Reads)
  BY <1>1, <1>3, Before, FetchOK DEF IInv
<1>5. \A k \in DOMAIN timers \ {i} : \E j \in DOMAIN timers' : timers'[j] = timers[k]
  BY <1>1, Before, WithoutOK
<1> HIDE DEF ld
<1>6. ASSUME <<NextCluster, filter>> = Here PROVE Decided(gs, cause)
  <2>1. CASE Fetches(t)
    <3> HIDE DEF t
    <3> QED
      BY <1>1, <1>3, <1>6, <2>1, Before, FetchDecides DEF IInv, Fetches
  <2>2. CASE ~Fetches(t)
    <3>1. gs = gets
      BY <2>2 DEF Fetch, Fetches
    <3>2. ASSUME Promised PROVE Promised'
      <4>1. PICK k \in DOMAIN timers : Fetches(timers[k])
        BY <3>2 DEF Promised
      <4>2. k \in DOMAIN timers \ {i}
        BY <2>2, <4>1
      <4>3. PICK j \in DOMAIN timers' : timers'[j] = timers[k]
        BY <1>5, <4>2
      <4> QED
        BY <1>1, <4>1, <4>3 DEF Promised, Fetches
    <3> HIDE DEF gs, t
    <3> QED
      BY <1>1, <3>1, <3>2, StaysDecided
  <2> QED
    BY <2>1, <2>2
<1> HIDE DEF gs, t
<1> QED
  BY <1>1, <1>4, <1>6, Before, RerenderCovers DEF IInv

\* Every other action leaves lists and requests alone, and may render the page.
LEMMA RenderedAlone ==
    ASSUME IInv, Covered, UNCHANGED <<page, rows, made>>, Promised => Promised',
           NEW c \in Clusters \cup {None}, NEW f \in Filters, NEW ld,
           Render(c, f, gets, ld, cause)
    PROVE  Covered'
<1>1. Decided(gets, cause)
  BY StaysDecided
<1> QED
  BY <1>1, Before, RenderCovers DEF IInv

LEMMA LeftAlone ==
    ASSUME Covered, Promised => Promised',
           UNCHANGED <<page, cluster, filter, rows, gets, made, cause>>
    PROVE  Covered'
BY DEF Covered, LastDecides, RowsDecide, LastOf, Current, Here

LEMMA PressCovers ==
    ASSUME IInv, Covered, Press
    PROVE  Covered'
<1> DEFINE gs == Fetch(gets, Here, FALSE, FALSE)
           ld == page.from = "state" => cluster # None
<1>1. UNCHANGED <<page, rows, timers, made>> /\ Rerender(gs, ld, cause)
  BY DEF Press
<1>2. gs \in Seq(Reads)
  BY <1>1, Before, FetchOK DEF IInv
<1>3. Promised => Promised'
  BY <1>1, TimerStays
<1> HIDE DEF ld
<1>4. ASSUME <<NextCluster, filter>> = Here PROVE Decided(gs, cause)
  <2>1. CASE page.from = "state" => Here[1] # None
    BY <1>1, <1>4, <2>1, Before, FetchDecides DEF IInv
  <2>2. CASE page.from = "state" /\ Here[1] = None
    <3>1. gs = gets
      BY <2>2 DEF Fetch
    <3> HIDE DEF gs
    <3> QED
      BY <1>1, <1>3, <3>1, StaysDecided
  <2> QED
    BY <2>1, <2>2
<1> HIDE DEF gs
<1> QED
  BY <1>1, <1>2, <1>4, Before, RerenderCovers DEF IInv

LEMMA PollEndsCovers ==
    ASSUME IInv, Covered, PollEnds
    PROVE  Covered'
<1> DEFINE t == [at |-> poll.at, label |-> poll.label]
<1>1. /\ poll # None /\ timers' = Append(timers, t)
      /\ UNCHANGED <<page, rows, made>>
      /\ Render(NextCluster, filter, gets, loading, cause)
  BY DEF PollEnds, Rerender
<1>2. poll \in Poll
  BY <1>1 DEF IInv, TypeOK
<1>3. t \in Timeouts
  BY <1>2 DEF Poll, Timeouts
<1> HIDE DEF t
<1>4. Promised => Promised'
  BY <1>1, <1>3, Before, TimerAdded
<1>5. NextCluster \in Clusters \cup {None} /\ filter \in Filters
  BY DEF IInv, TypeOK, NextCluster
<1> QED
  BY <1>1, <1>4, <1>5, RenderedAlone

LEMMA InitCovers == Init => Covered
<1> SUFFICES ASSUME Init PROVE Covered
  OBVIOUS
<1>1. IInv
  BY InitIInv
<1>2. CASE page.from = "state" /\ cluster = None
  <2>1. gets = <<>> /\ cause = "unasked" /\ cause # None
    BY <1>2, ListPagesAssumption DEF Init, Causes
  <2> QED
    BY <2>1 DEF Covered, LastDecides, RowsDecide
<1>3. CASE ~(page.from = "state" /\ cluster = None)
  <2> DEFINE g == [at |-> <<cluster, filter>>, quiet |-> ~page.spins, since |-> 0,
                   excuse |-> None]
  <2>1. gets = <<g>> /\ g.at = Here /\ g.since = made[cluster]
    BY <1>1, <1>3 DEF Init, Here, IInv, TypeOK
  <2> HIDE DEF g
  <2>2. gets # <<>> /\ LastOf(gets) = g
    BY <2>1 DEF LastOf
  <2> QED
    BY <2>1, <2>2 DEF Covered, LastDecides, RowsDecide
<1> QED
  BY <1>2, <1>3

LEMMA NextCovers == IInv /\ Covered /\ [Next]_vars => Covered'
<1> SUFFICES ASSUME IInv, Covered, [Next]_vars PROVE Covered'
  OBVIOUS
<1>c. NextCluster \in Clusters \cup {None} /\ filter \in Filters /\ stored \in Clusters \cup {None}
  BY DEF IInv, TypeOK, NextCluster
<1>1. CASE StoreFirst \/ OtherTab \/ Tick \/ PollGoesOn \/ UNCHANGED vars
  <2>1. UNCHANGED <<page, timers, cluster, filter, rows, gets, made, cause>>
    BY <1>1 DEF StoreFirst, OtherTab, Tick, PollGoesOn, vars
  <2> QED
    BY <2>1, TimerStays, LeftAlone
<1>2. CASE Adopt
  BY <1>2, <1>c, TimerStays, RenderedAlone DEF Adopt
<1>3. ASSUME NEW f \in Filters, Narrow(f) PROVE Covered'
  BY <1>3, <1>c, TimerStays, RenderedAlone DEF Narrow
<1>4. CASE Press
  BY <1>4, PressCovers
<1>5. CASE Answer
  <2>1. PICK i \in DOMAIN gets : Listed(i) \/ Unlisted(i)
    BY <1>5 DEF Answer
  <2> QED
    BY <2>1, ListedCovers, UnlistedCovers
<1>6. ASSUME NEW op \in page.ops, Open(op) PROVE Covered'
  BY <1>6, <1>c, TimerStays, RenderedAlone DEF Open, Rerender
<1>7. CASE Dismiss
  BY <1>7, <1>c, TimerStays, RenderedAlone DEF Dismiss, Rerender
<1>8. CASE Confirm
  BY <1>8, <1>c, TimerStays, RenderedAlone DEF Confirm, Rerender
<1>9. CASE End
  <2>1. PICK i \in DOMAIN acts : Done(i) \/ Undone(i, TRUE) \/ Undone(i, FALSE)
    BY <1>9 DEF End
  <2> QED
    BY <2>1, DoneCovers, UndoneCovers
<1>10. ASSUME NEW i \in DOMAIN timers, Fire(i) PROVE Covered'
  BY <1>10, FireCovers
<1>11. CASE PollEnds
  BY <1>11, PollEndsCovers
<1>12. CASE PollGivesUp
  BY <1>12, <1>c, TimerStays, RenderedAlone DEF PollGivesUp, Rerender
<1> QED
  BY <1>1, <1>2, <1>3, <1>4, <1>5, <1>6, <1>7, <1>8, <1>9, <1>10, <1>11, <1>12 DEF Next

-----------------------------------------------------------------------------
(* The results.                                                            *)

\* Every variable keeps its type.
THEOREM TypeCorrect == Spec => []TypeOK
<1>1. IInv => TypeOK
  BY DEF IInv
<1> QED
  BY <1>1, Invariance, PTL

\* Whatever opens, closes, fails or comes back in whatever order, the skeleton hides a
\* page's table only while a request is out whose end shows it again (fetchData).
THEOREM NoEndlessSkeleton == Spec => []SkeletonHasRequest
<1>1. IInv => SkeletonHasRequest
  BY DEF IInv
<1> QED
  BY <1>1, Invariance, PTL

\* A request about a row goes to the cluster the row was shown for, but on a page that
\* reads localStorage at each render, after another tab has written it.
THEOREM RightCluster == Spec => []MisdirectedHasCause
<1>1. IInv => MisdirectedHasCause
  BY DEF IInv
<1> QED
  BY <1>1, Invariance, PTL

\* A flag that disables a dialog's button lets one request of its kind out at a time.
THEOREM OneFlagOneRequest == Spec => []OneAtATime
<1>1. IInv => OneAtATime
  BY DEF IInv
<1> QED
  BY <1>1, Invariance, PTL

\* A row that says that an operation is going on has something that will end it: a
\* request, a timer or the poll of a restart.
THEOREM LabelsEnd == Spec => []LabelHasRequest
<1>1. IInv => LabelHasRequest
  BY DEF IInv
<1> QED
  BY <1>1, Invariance, PTL

\* When everything has been answered the table shows the list of the page's cluster and
\* filter, unless one of the causes that the model names has come in between: no order of
\* answers, dialogs, timers and renders adds another one.
THEOREM StaleOnlyForCause == Spec => []StaleHasCause
<1>1. Covered => StaleHasCause
  <2> SUFFICES ASSUME Covered, Settled, ~Current, cause = None PROVE FALSE
    BY DEF StaleHasCause
  <2>1. Promised
    BY DEF Covered, RowsDecide, Settled
  <2>2. timers = <<>>
    BY DEF Settled
  <2> QED
    BY <2>1, <2>2 DEF Promised
<1> QED
  BY <1>1, Invariance, InitCovers, NextCovers, PTL DEF Spec

=============================================================================
