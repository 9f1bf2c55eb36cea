------------------------- MODULE ObjectPagesProofs -------------------------
(***************************************************************************)
(* ObjectPages, proved for any pages whose parts have different names, any *)
(* number of reads and of requests.                                        *)
(***************************************************************************)
EXTENDS ObjectPages, FiniteSetTheorems, TLAPS

Reads    == [part : page.parts, since : Nat]
Requests == [part : page.parts, blank : BOOLEAN, mine : BOOLEAN]

PageOK == page \in Pages

\* A saving flag is set as long as a request runs whose end takes it back, and two
\* such requests are of different parts.
FlagsOK ==
    /\ \A i \in DOMAIN saves : saves[i].mine /\ saves[i].part.once => saves[i].part.name \in busy
    /\ OneAtATime

\* What is sent later sees more.
InOrder ==
    \A i \in DOMAIN gets :
        /\ gets[i].since <= made
        /\ \A j \in DOMAIN gets : i < j => gets[i].since <= gets[j].since

\* StaleHasCause, said of a page that still waits: a read that sees the last change
\* is on its way.
Refreshes == \E i \in DOMAIN gets : gets[i].part.name = "main" /\ gets[i].since = made

StaleIsFetched == ~left /\ Main # {} /\ seen < made /\ cause = None => Refreshes

LoadedOK == \A n \in loaded : \E p \in page.parts : p.name = n

\* What may be empty for a known reason.
Excused(p) ==
    \/ p.name \in failed
    \/ p.hides = "none"
    \/ p.asked = "click" /\ page.first = p.name

\* A part that can be seen has been fetched, is being fetched behind its flag, or may
\* be empty.
Fetched ==
    \A p \in page.parts :
        p.asked = "mount" \/ (p.asked = "click" /\ open = p.name)
        => p.name \in spin \cup loaded \/ Excused(p)

BlankOK == \A p \in page.parts : p.asked # "never" /\ p.name \in blank => Excused(p)

\* A form behind the page's flag is fetched once, and not typed into before.
Guarded(p) == p.edit = "form" /\ p.asked = "mount" /\ p.hides = "page"

FormsOK ==
    /\ \A i \in DOMAIN gets :
          /\ gets[i].part.asked # "never" \/ gets[i].part.name = "main"
          /\ Guarded(gets[i].part) =>
                /\ gets[i].part.name \in spin /\ gets[i].part.name \notin typing
                /\ \A j \in DOMAIN gets : gets[j].part = gets[i].part => j = i

IInv == /\ TypeOK /\ PageOK /\ SkeletonHasRequest /\ FlagsOK /\ InOrder /\ StaleIsFetched
        /\ LoadedOK /\ Fetched /\ BlankOK /\ BlankHasCause /\ FormsOK

-----------------------------------------------------------------------------
(* Sequences of requests.                                                  *)

\* Where the j-th element of Without(s, i) was.
Before(j, i) == IF j < i THEN j ELSE j + 1

LEMMA WithoutOK ==
    ASSUME NEW T, NEW s \in Seq(T), NEW i \in DOMAIN s
    PROVE  /\ Without(s, i) \in Seq(T)
           /\ \A j \in DOMAIN Without(s, i) :
                 /\ Before(j, i) \in DOMAIN s \ {i}
                 /\ Without(s, i)[j] = s[Before(j, i)]
           /\ \A j, k \in DOMAIN Without(s, i) :
                 /\ j < k => Before(j, i) < Before(k, i)
                 /\ j # k => Before(j, i) # Before(k, i)
           /\ \A k \in DOMAIN s \ {i} : \E j \in DOMAIN Without(s, i) : Before(j, i) = k
<1> DEFINE w == Without(s, i)
<1>1. Len(s) \in Nat /\ DOMAIN s = 1 .. Len(s) /\ i \in 1 .. Len(s)
  OBVIOUS
<1>2. DOMAIN w = 1 .. Len(s) - 1 /\ Len(s) - 1 \in Nat
  BY <1>1 DEF Without
<1>3. \A j \in DOMAIN w : Before(j, i) \in DOMAIN s \ {i} /\ w[j] = s[Before(j, i)]
  BY <1>1, <1>2 DEF Without, Before
<1>4. w \in Seq(T)
  BY <1>1, <1>2, <1>3 DEF Without
<1>5. \A j, k \in DOMAIN w : /\ j < k => Before(j, i) < Before(k, i)
                             /\ j # k => Before(j, i) # Before(k, i)
  BY <1>1, <1>2 DEF Before
<1>6. ASSUME NEW k \in DOMAIN s \ {i} PROVE \E j \in DOMAIN w : Before(j, i) = k
  <2>1. CASE k < i
    BY <1>1, <1>2, <2>1 DEF Before
  <2>2. CASE k > i
    <3>1. k - 1 \in DOMAIN w /\ Before(k - 1, i) = k
      BY <1>1, <1>2, <2>2 DEF Before
    <3> QED
      BY <3>1
  <2> QED
    BY <1>1, <2>1, <2>2
<1> QED
  BY <1>3, <1>4, <1>5, <1>6

LEMMA Element ==
    ASSUME NEW T, NEW s \in Seq(T), NEW i \in DOMAIN s
    PROVE  s[i] \in T
  OBVIOUS

LEMMA Collect ==
    ASSUME NEW T, NEW s \in Seq(T), NEW f, f = [i \in DOMAIN s |-> f[i]],
           \A i \in DOMAIN s : f[i] \in T
    PROVE  f \in Seq(T) /\ DOMAIN f = DOMAIN s
<1>1. Len(s) \in Nat /\ DOMAIN s = 1 .. Len(s)
  OBVIOUS
<1> QED
  BY <1>1

LEMMA MineOK ==
    ASSUME NEW r \in Requests, NEW b \in BOOLEAN
    PROVE  LET mine == [r EXCEPT !.mine = @ /\ b]
           IN  /\ mine \in Requests
               /\ mine.part = r.part /\ mine.blank = r.blank /\ mine.mine = (r.mine /\ b)
  BY DEF Requests

\* A read that is sent.
LEMMA SentOK ==
    ASSUME NEW T, NEW s \in Seq(T), NEW x \in T
    PROVE  /\ Append(s, x) \in Seq(T)
           /\ DOMAIN Append(s, x) = DOMAIN s \cup {Len(s) + 1}
           /\ Len(s) + 1 \notin DOMAIN s
           /\ \A j \in DOMAIN s : Append(s, x)[j] = s[j] /\ j < Len(s) + 1
           /\ Append(s, x)[Len(s) + 1] = x
  OBVIOUS

-----------------------------------------------------------------------------
(* What a render leaves.                                                   *)

\* The requests ss, of which some may have lost their editor; those that have not
\* keep its flag, if it is in bs.
Rendered(ss, bs) ==
    /\ DOMAIN saves' = DOMAIN ss
    /\ \A i \in DOMAIN ss :
          /\ saves'[i].part = ss[i].part /\ saves'[i].blank = ss[i].blank
          /\ saves'[i].mine => ss[i].mine
          /\ saves'[i].mine /\ ss[i].part.name \in bs => ss[i].part.name \in busy'

LEMMA RenderOK ==
    ASSUME TypeOK, page' = page, NEW s \in SUBSET Names, NEW l \in SUBSET Names, NEW tab \in Names,
           NEW ns \in SUBSET Names, NEW bs \in SUBSET Names, NEW ss \in Seq(Requests),
           Render(s, l, tab, ns, bs, ss)
    PROVE  /\ spin' = s /\ loaded' = l
           /\ open' \in Names /\ open' \in {tab, page.first}
           /\ typing' \subseteq ns /\ busy' \subseteq bs
           /\ \A n \in ns : n \notin Copies => n \in typing'
           /\ saves' \in Seq(Requests)
           /\ Rendered(ss, bs)
<1>1. spin' = s /\ loaded' = l
  BY DEF Render
<1>2. page \in Page
  BY DEF TypeOK
<1>3. open' \in Names /\ open' \in {tab, page.first}
  BY <1>2 DEF Render, NextTab, Page
<1>4. typing' \subseteq ns /\ busy' \subseteq bs
  BY DEF Render, Kept
<1>5. \A n \in ns : n \notin Copies => n \in typing'
  BY DEF Render, Kept
<1>6. saves' = [i \in DOMAIN ss |->
                   [ss[i] EXCEPT !.mine = @ /\ Kept({ss[i].part.name}, s, l, tab) # {}]]
  BY DEF Render
<1>7. ASSUME NEW i \in DOMAIN ss
      PROVE  /\ saves'[i] \in Requests
             /\ saves'[i].part = ss[i].part /\ saves'[i].blank = ss[i].blank
             /\ saves'[i].mine => ss[i].mine
             /\ saves'[i].mine => Kept({ss[i].part.name}, s, l, tab) # {}
  <2> DEFINE b == Kept({ss[i].part.name}, s, l, tab) # {}
  <2>1. ss[i] \in Requests /\ b \in BOOLEAN
    BY Element
  <2>2. saves'[i] = [ss[i] EXCEPT !.mine = @ /\ b]
    BY <1>6
  <2> HIDE DEF b
  <2>3. saves'[i] \in Requests /\ saves'[i].part = ss[i].part
        /\ saves'[i].blank = ss[i].blank /\ saves'[i].mine = (ss[i].mine /\ b)
    BY <2>1, <2>2, MineOK
  <2> QED
    BY <2>3 DEF b
<1>8. saves' \in Seq(Requests) /\ DOMAIN saves' = DOMAIN ss
  <2>1. saves' = [i \in DOMAIN ss |-> saves'[i]]
    BY <1>6
  <2>2. \A i \in DOMAIN ss : saves'[i] \in Requests
    BY <1>7
  <2> QED
    BY <2>1, <2>2, Collect
<1>9. ASSUME NEW i \in DOMAIN ss, saves'[i].mine, ss[i].part.name \in bs
      PROVE  ss[i].part.name \in busy'
  <2>1. Kept({ss[i].part.name}, s, l, tab) # {}
    BY <1>7, <1>9
  <2> QED
    BY <1>9, <2>1 DEF Kept, Render
<1>10. Rendered(ss, bs)
  BY <1>7, <1>8, <1>9 DEF Rendered
<1> QED
  BY <1>1, <1>3, <1>4, <1>5, <1>8, <1>10

LEMMA PartsOK ==
    ASSUME TypeOK, PageOK
    PROVE  /\ page \in Page /\ page.parts \subseteq Part
           /\ \A p \in page.parts : p.name \in Names /\ Flag(p) \subseteq Names
           /\ \A p, q \in page.parts : p.name = q.name => p = q
           /\ \A p \in page.parts : p.edit = "form" => p.name # "main" /\ p.name \notin Copies
BY ObjectPagesAssumption DEF TypeOK, PageOK, Page, Part, Flag, Main, Copies

\* Requests that remain keep what is said of them.
LEMMA SavesKept ==
    ASSUME TypeOK, FlagsOK, BlankHasCause, page' = page, failed \subseteq failed',
           NEW pos \in [DOMAIN saves' -> DOMAIN saves],
           \A i, j \in DOMAIN saves' : i # j => pos[i] # pos[j],
           \A i \in DOMAIN saves' :
              /\ saves'[i].part = saves[pos[i]].part /\ saves'[i].blank = saves[pos[i]].blank
              /\ saves'[i].mine => saves[pos[i]].mine
              /\ saves'[i].mine /\ saves'[i].part.once => saves'[i].part.name \in busy'
    PROVE  FlagsOK' /\ BlankHasCause'
<1>1. OneAtATime'
  BY DEF FlagsOK, OneAtATime
<1>2. BlankHasCause'
  BY DEF BlankHasCause
<1> QED
  BY <1>1, <1>2 DEF FlagsOK

\* A render that takes no request away.
LEMMA SavesStay ==
    ASSUME TypeOK, FlagsOK, BlankHasCause, page' = page, failed \subseteq failed',
           NEW s, NEW l, NEW tab, NEW ns, s \in SUBSET Names, l \in SUBSET Names, tab \in Names,
           ns \in SUBSET Names, Render(s, l, tab, ns, busy, saves)
    PROVE  FlagsOK' /\ BlankHasCause'
<1> DEFINE pos == [i \in DOMAIN saves |-> i]
<1>1. saves \in Seq(Requests) /\ busy \in SUBSET Names
  BY DEF TypeOK, Requests
<1>2. /\ DOMAIN saves' = DOMAIN saves
      /\ \A i \in DOMAIN saves :
            /\ saves'[i].part = saves[i].part /\ saves'[i].blank = saves[i].blank
            /\ saves'[i].mine => saves[i].mine
            /\ saves'[i].mine /\ saves[i].part.name \in busy => saves[i].part.name \in busy'
  <2>1. Rendered(saves, busy)
    BY <1>1, RenderOK
  <2> QED
    BY <2>1 DEF Rendered
<1>3. \A i \in DOMAIN saves' :
         /\ saves'[i].part = saves[i].part /\ saves'[i].blank = saves[i].blank
         /\ saves'[i].mine => saves[i].mine
         /\ saves'[i].mine /\ saves'[i].part.once => saves'[i].part.name \in busy'
  BY <1>2 DEF FlagsOK
<1>4. pos \in [DOMAIN saves' -> DOMAIN saves] /\ \A i \in DOMAIN saves' : pos[i] = i
  BY <1>2
<1> HIDE DEF pos
<1> QED
  BY <1>3, <1>4, SavesKept

\* A render that takes the i-th request away, and its flag.
LEMMA SaveEnds ==
    ASSUME TypeOK, PageOK, FlagsOK, BlankHasCause, page' = page, failed \subseteq failed',
           NEW i \in DOMAIN saves, NEW s, NEW l, NEW tab, NEW ns, s \in SUBSET Names,
           l \in SUBSET Names, tab \in Names, ns \in SUBSET Names,
           Render(s, l, tab, ns, busy \ Ended(i), Without(saves, i))
    PROVE  FlagsOK' /\ BlankHasCause'
<1> DEFINE w   == Without(saves, i)
           bs  == busy \ Ended(i)
           pos == [j \in DOMAIN w |-> Before(j, i)]
<1>1. saves \in Seq(Requests) /\ bs \in SUBSET Names
  BY DEF TypeOK, Requests
<1>2. /\ w \in Seq(Requests)
      /\ \A j \in DOMAIN w : Before(j, i) \in DOMAIN saves \ {i} /\ w[j] = saves[Before(j, i)]
      /\ \A j, k \in DOMAIN w : j # k => Before(j, i) # Before(k, i)
  BY <1>1, WithoutOK
<1> HIDE DEF w, bs
<1>3. Render(s, l, tab, ns, bs, w)
  BY DEF w, bs
<1>4. /\ DOMAIN saves' = DOMAIN w
      /\ \A j \in DOMAIN w :
            /\ saves'[j].part = w[j].part /\ saves'[j].blank = w[j].blank
            /\ saves'[j].mine => w[j].mine
            /\ saves'[j].mine /\ w[j].part.name \in bs => w[j].part.name \in busy'
  <2>1. Rendered(w, bs)
    BY <1>1, <1>2, <1>3, RenderOK
  <2> QED
    BY <2>1 DEF Rendered
<1>5. /\ pos \in [DOMAIN saves' -> DOMAIN saves]
      /\ \A j \in DOMAIN saves' : pos[j] = Before(j, i)
  BY <1>2, <1>4
<1> HIDE DEF pos
<1>6. ASSUME NEW j \in DOMAIN saves', saves'[j].mine, saves'[j].part.once
      PROVE  saves'[j].part.name \in busy'
  <2> DEFINE k == Before(j, i)
  <2>1. k \in DOMAIN saves /\ k # i /\ w[j] = saves[k]
    BY <1>2, <1>4, <1>6
  <2> HIDE DEF k
  <2>2. saves[k].mine /\ saves[k].part.once /\ saves'[j].part = saves[k].part
    BY <1>4, <1>6, <2>1
  <2>3. saves[k].part.name \in busy
    BY <2>1, <2>2 DEF FlagsOK
  <2>4. saves[k].part.name \notin Ended(i)
    <3>1. saves[i] \in Requests /\ saves[k] \in Requests
      BY <1>1, <2>1, Element
    <3>2. ASSUME saves[i].mine, saves[i].part.name = saves[k].part.name PROVE FALSE
      <4>1. saves[i].part = saves[k].part
        BY <3>1, <3>2, PartsOK DEF Requests
      <4> QED
        BY <2>1, <2>2, <3>2, <4>1 DEF FlagsOK, OneAtATime
    <3> QED
      BY <3>2 DEF Ended
  <2>5. w[j].part.name \in bs
    BY <2>1, <2>3, <2>4 DEF bs
  <2> QED
    BY <1>4, <1>6, <2>5
<1>7. \A j \in DOMAIN saves' :
         /\ saves'[j].part = saves[pos[j]].part /\ saves'[j].blank = saves[pos[j]].blank
         /\ saves'[j].mine => saves[pos[j]].mine
  BY <1>2, <1>4, <1>5
<1>8. \A j, k \in DOMAIN saves' : j # k => pos[j] # pos[k]
  BY <1>2, <1>4, <1>5
<1> QED
  BY <1>5, <1>6, <1>7, <1>8, SavesKept

-----------------------------------------------------------------------------
(* Reads that remain, and reads that are sent.                             *)

LEMMA GetsRemain ==
    ASSUME IInv, NEW i \in DOMAIN gets, page' = page, given' = given, made' = made, open' \in Names,
           gets' = Without(gets, i), spin' = spin \ {gets[i].part.name}, typing' \subseteq typing
    PROVE  /\ gets' \in Seq(Reads)
           /\ SkeletonHasRequest' /\ InOrder' /\ FormsOK'
           /\ gets[i].part.name # "main" \/ gets[i].since # made => (Refreshes => Refreshes')
<1>1. gets \in Seq(Reads)
  BY DEF IInv, TypeOK, Reads
<1>2. /\ gets' \in Seq(Reads)
      /\ \A j \in DOMAIN gets' : Before(j, i) \in DOMAIN gets \ {i} /\ gets'[j] = gets[Before(j, i)]
      /\ \A j, k \in DOMAIN gets' : /\ j < k => Before(j, i) < Before(k, i)
                                    /\ j # k => Before(j, i) # Before(k, i)
      /\ \A k \in DOMAIN gets \ {i} : \E j \in DOMAIN gets' : Before(j, i) = k
  BY <1>1, WithoutOK
<1>3. SkeletonHasRequest'
  <2> SUFFICES ASSUME NEW n \in spin', given
               PROVE  \E j \in DOMAIN gets' : gets'[j].part.name = n
    BY DEF SkeletonHasRequest
  <2>1. PICK k \in DOMAIN gets : gets[k].part.name = n
    BY DEF IInv, SkeletonHasRequest
  <2> QED
    BY <1>2, <2>1
<1>4. InOrder'
  BY <1>2 DEF IInv, InOrder
<1>5. FormsOK'
  <2> SUFFICES ASSUME NEW j \in DOMAIN gets'
               PROVE  /\ gets'[j].part.asked # "never" \/ gets'[j].part.name = "main"
                      /\ Guarded(gets'[j].part) =>
                            /\ gets'[j].part.name \in spin' /\ gets'[j].part.name \notin typing'
                            /\ \A x \in DOMAIN gets' : gets'[x].part = gets'[j].part => x = j
    BY DEF FormsOK, Guarded
  <2> DEFINE k == Before(j, i)
  <2>1. k \in DOMAIN gets \ {i} /\ gets'[j] = gets[k]
    BY <1>2
  <2> HIDE DEF k
  <2>2. gets'[j].part.asked # "never" \/ gets'[j].part.name = "main"
    BY <2>1 DEF IInv, FormsOK
  <2>3. ASSUME Guarded(gets'[j].part)
        PROVE  /\ gets'[j].part.name \in spin' /\ gets'[j].part.name \notin typing'
               /\ \A x \in DOMAIN gets' : gets'[x].part = gets'[j].part => x = j
    <3>1. /\ gets[k].part.name \in spin /\ gets[k].part.name \notin typing
          /\ \A x \in DOMAIN gets : gets[x].part = gets[k].part => x = k
      BY <2>1, <2>3 DEF IInv, FormsOK
    <3>2. gets[k].part.name # gets[i].part.name
      <4>1. gets[k] \in Reads /\ gets[i] \in Reads
        BY <1>1, <2>1, Element
      <4> QED
        BY <2>1, <3>1, <4>1, PartsOK DEF IInv, Reads
    <3>3. ASSUME NEW x \in DOMAIN gets', gets'[x].part = gets'[j].part PROVE x = j
      <4>1. Before(x, i) = k
        BY <1>2, <2>1, <3>1, <3>3
      <4> QED
        BY <1>2, <4>1 DEF k
    <3> QED
      BY <2>1, <3>1, <3>2, <3>3
  <2> QED
    BY <2>2, <2>3
<1>6. ASSUME gets[i].part.name # "main" \/ gets[i].since # made, Refreshes PROVE Refreshes'
  <2>1. PICK k \in DOMAIN gets : gets[k].part.name = "main" /\ gets[k].since = made
    BY <1>6 DEF Refreshes
  <2>2. PICK j \in DOMAIN gets' : Before(j, i) = k
    BY <1>2, <1>6, <2>1
  <2> QED
    BY <1>2, <2>1, <2>2 DEF Refreshes
<1> QED
  BY <1>2, <1>3, <1>4, <1>5, <1>6

LEMMA GetsStay ==
    ASSUME IInv, page' = page, given' = given, gets' = gets, made' \in Nat, made <= made',
           spin' = spin, typing' \subseteq typing
    PROVE  gets' \in Seq(Reads) /\ SkeletonHasRequest' /\ InOrder' /\ FormsOK'
<1>1. gets \in Seq(Reads)
  BY DEF IInv, TypeOK, Reads
<1>2. SkeletonHasRequest' /\ FormsOK'
  BY DEF IInv, SkeletonHasRequest, FormsOK, Guarded
<1>3. \A i \in DOMAIN gets : gets[i].since \in Nat
  <2>1. \A i \in DOMAIN gets : gets[i] \in Reads
    BY <1>1, Element
  <2> QED
    BY <2>1 DEF Reads
<1>4. InOrder'
  BY <1>3 DEF IInv, InOrder, TypeOK
<1> QED
  BY <1>1, <1>2, <1>4 DEF Reads

LEMMA GetSent ==
    ASSUME IInv, NEW p \in page.parts, page' = page, given' = given,
           p.asked # "never" \/ p.name = "main", ~Guarded(p),
           made' \in Nat, made <= made', gets' = Append(gets, Get(p)),
           spin' = spin \cup Flag(p), typing' \subseteq typing
    PROVE  /\ gets' \in Seq(Reads)
           /\ SkeletonHasRequest' /\ InOrder' /\ FormsOK'
           /\ p.name = "main" => Refreshes'
           /\ made' = made => (Refreshes => Refreshes')
<1> DEFINE new == Len(gets) + 1
<1>1. gets \in Seq(Reads) /\ Get(p) \in Reads
  BY DEF IInv, TypeOK, Reads, Get
<1>2. /\ gets' \in Seq(Reads)
      /\ DOMAIN gets' = DOMAIN gets \cup {new} /\ new \notin DOMAIN gets
      /\ \A j \in DOMAIN gets : gets'[j] = gets[j] /\ j < new
      /\ gets'[new] = Get(p)
  BY <1>1, SentOK
<1>3. /\ \A i \in DOMAIN gets : gets[i].since \in Nat /\ i \in Nat
      /\ new \in Nat
  <2>1. \A i \in DOMAIN gets : gets[i] \in Reads
    BY <1>1, Element
  <2>2. \A i \in DOMAIN gets : gets[i].since \in Nat
    BY <2>1 DEF Reads
  <2>3. new \in Nat /\ DOMAIN gets \subseteq Nat
    BY <1>1
  <2> QED
    BY <2>2, <2>3
<1> HIDE DEF new
<1>4. gets'[new].part = p /\ gets'[new].since = made'
  BY <1>2 DEF Get
<1>5. SkeletonHasRequest'
  <2> SUFFICES ASSUME NEW n \in spin', given
               PROVE  \E j \in DOMAIN gets' : gets'[j].part.name = n
    BY DEF SkeletonHasRequest
  <2>1. CASE n \in spin
    BY <1>2, <2>1 DEF IInv, SkeletonHasRequest
  <2>2. CASE n = p.name
    BY <1>2, <1>4, <2>2
  <2> QED
    BY <2>1, <2>2 DEF Flag
<1>6. InOrder'
  BY <1>2, <1>3, <1>4 DEF IInv, InOrder, TypeOK
<1>7. FormsOK'
  BY <1>2, <1>4 DEF IInv, FormsOK, Guarded
<1>8. p.name = "main" => Refreshes'
  BY <1>2, <1>4 DEF Refreshes
<1>9. made' = made => (Refreshes => Refreshes')
  BY <1>2 DEF Refreshes
<1> QED
  BY <1>2, <1>5, <1>6, <1>7, <1>8, <1>9 DEF Reads

\* What a part shows stays excused or fetched when its flag is only taken back by the
\* end of a read, and the open tab has been asked for.
LEMMA FetchedKept ==
    ASSUME IInv, page' = page, NEW tab, open' \in {tab, page.first},
           spin \cup loaded \cup failed \subseteq spin' \cup loaded' \cup failed',
           failed \subseteq failed', loaded' \subseteq loaded \cup {p.name : p \in page.parts},
           blank' = blank,
           tab = open \/ tab \in spin' \cup loaded' \cup failed' \/ \E p \in page.parts :
                                                 p.name = tab /\ p.hides = "none"
    PROVE  LoadedOK' /\ Fetched' /\ BlankOK'
<1>1. \A p \in page.parts : Excused(p) => Excused(p)'
  BY DEF Excused
<1>2. LoadedOK'
  BY DEF IInv, LoadedOK
<1>3. BlankOK'
  BY <1>1 DEF IInv, BlankOK
<1>4. ASSUME NEW p \in page.parts, p.asked = "mount" \/ (p.asked = "click" /\ open' = p.name)
      PROVE  p.name \in spin' \cup loaded' \/ Excused(p)'
  <2>1. CASE p.asked = "mount"
    BY <1>1, <2>1 DEF IInv, Fetched, Excused
  <2>2. CASE p.asked = "click" /\ open' = page.first
    BY <1>4, <2>2 DEF Excused
  <2>3. CASE p.asked = "click" /\ open' = tab /\ tab = open
    BY <1>1, <1>4, <2>3 DEF IInv, Fetched, Excused
  <2>4. CASE p.asked = "click" /\ open' = tab /\ tab # open
    <3>1. \A q \in page.parts : q.name = p.name => q = p
      BY PartsOK DEF IInv
    <3> QED
      BY <1>4, <2>4, <3>1 DEF Excused
  <2> QED
    BY <1>4, <2>1, <2>2, <2>3, <2>4
<1>5. Fetched'
  BY <1>4 DEF Fetched, Excused
<1> QED
  BY <1>2, <1>3, <1>5

-----------------------------------------------------------------------------
(* One lemma for each action.                                              *)

LEMMA ClickStep ==
    ASSUME IInv, NEW p \in page.parts, Click(p)
    PROVE  IInv'
<1> DEFINE s == IF p.name \notin loaded THEN spin \cup Flag(p) ELSE spin
<1>1. /\ p.asked = "click"
      /\ UNCHANGED <<page, given, made, seen, blank, failed, sent, cause, left>>
      /\ gets' = IF p.name \notin loaded THEN Append(gets, Get(p)) ELSE gets
      /\ Render(s, loaded, p.name, typing, busy, saves)
  BY DEF Click
<1>2. /\ p.name \in Names /\ Flag(p) \subseteq Names
      /\ s \in SUBSET Names /\ loaded \in SUBSET Names
      /\ typing \in SUBSET Names /\ busy \in SUBSET Names /\ saves \in Seq(Requests)
  BY PartsOK DEF IInv, TypeOK, Requests
<1>3. /\ spin' = s /\ loaded' = loaded /\ open' \in Names /\ open' \in {p.name, page.first}
      /\ typing' \subseteq typing /\ busy' \subseteq busy /\ saves' \in Seq(Requests)
  BY <1>1, <1>2, RenderOK DEF IInv
<1>4. ~Guarded(p)
  BY <1>1 DEF Guarded
<1>5. /\ gets' \in Seq(Reads) /\ SkeletonHasRequest' /\ InOrder' /\ FormsOK'
      /\ Refreshes => Refreshes'
  <2>1. CASE p.name \in loaded
    <3>1. gets' \in Seq(Reads) /\ SkeletonHasRequest' /\ InOrder' /\ FormsOK'
      BY <1>1, <1>3, <2>1, GetsStay DEF IInv, TypeOK
    <3> QED
      BY <1>1, <2>1, <3>1 DEF Refreshes
  <2>2. CASE p.name \notin loaded
    BY <1>1, <1>3, <1>4, <2>2, GetSent DEF IInv, TypeOK
  <2> QED
    BY <2>1, <2>2
<1>6. TypeOK'
  BY <1>1, <1>2, <1>3, <1>5 DEF IInv, TypeOK, Reads, Requests
<1>7. FlagsOK' /\ BlankHasCause'
  BY <1>1, <1>2, SavesStay DEF IInv
<1>8. StaleIsFetched'
  BY <1>1, <1>5 DEF IInv, StaleIsFetched, Main
<1>9. p.name \in spin' \cup loaded' \/ p.hides = "none"
  BY <1>2, <1>3 DEF Flag
<1>10. LoadedOK' /\ Fetched' /\ BlankOK'
  <2>1. spin \cup loaded \cup failed \subseteq spin' \cup loaded' \cup failed'
    BY <1>1, <1>3
  <2> QED
    BY <1>1, <1>3, <1>9, <2>1, FetchedKept
<1> QED
  BY <1>1, <1>5, <1>6, <1>7, <1>8, <1>10 DEF IInv, PageOK

\* What can be seen and has not been fetched may be empty.
LEMMA ShownOK ==
    ASSUME IInv, NEW p \in page.parts, Shown(p), p.asked # "never", p.name \notin loaded
    PROVE  Excused(p)
<1>1. p.asked \in {"mount", "click"}
  BY PartsOK DEF IInv, Part
<1> QED
  BY <1>1 DEF IInv, Fetched, Shown, Excused

LEMMA EditStep ==
    ASSUME IInv, NEW p \in page.parts, Edit(p)
    PROVE  IInv'
<1>1. /\ p.edit \in {"copy", "form"} /\ Shown(p)
      /\ typing' = typing \cup {p.name}
      /\ blank' = IF p.name \in loaded THEN blank \ {p.name} ELSE blank \cup {p.name}
      /\ UNCHANGED <<page, given, made, loaded, seen, spin, open, gets, saves, busy, failed, sent,
                     cause, left>>
  BY DEF Edit
<1>2. p.name \in Names /\ \A q \in page.parts : q.name = p.name => q = p
  BY PartsOK DEF IInv
<1>3. TypeOK'
  BY <1>1, <1>2 DEF IInv, TypeOK
<1>4. /\ SkeletonHasRequest' /\ FlagsOK' /\ InOrder' /\ StaleIsFetched' /\ LoadedOK' /\ Fetched'
      /\ BlankHasCause'
  BY <1>1 DEF IInv, SkeletonHasRequest, FlagsOK, OneAtATime, InOrder, StaleIsFetched, Main,
              Refreshes, LoadedOK, Fetched, Excused, BlankHasCause
<1>5. BlankOK'
  <2>1. \A q \in page.parts : Excused(q) => Excused(q)'
    BY <1>1 DEF Excused
  <2>2. p.name \notin loaded /\ p.asked # "never" => Excused(p)
    BY <1>1, ShownOK
  <2>3. ASSUME NEW q \in page.parts, q.asked # "never", q.name \in blank'
        PROVE  Excused(q)
    <3>1. CASE q.name \in blank
      BY <2>3, <3>1 DEF IInv, BlankOK
    <3>2. CASE q.name \notin blank
      BY <1>1, <1>2, <2>2, <2>3, <3>2
    <3> QED
      BY <3>1, <3>2
  <2> QED
    BY <1>1, <2>1, <2>3 DEF BlankOK
<1>6. FormsOK'
  <2> SUFFICES ASSUME NEW i \in DOMAIN gets, Guarded(gets[i].part), gets[i].part.name = p.name
               PROVE  FALSE
    BY <1>1 DEF IInv, FormsOK, Guarded
  <2>1. gets \in Seq(Reads)
    BY DEF IInv, TypeOK, Reads
  <2>2. gets[i] \in Reads
    BY <2>1, Element
  <2>3. gets[i].part = p
    BY <1>2, <2>2 DEF Reads
  <2>4. p.name \in spin /\ p.hides = "page"
    BY <2>3 DEF IInv, FormsOK, Guarded
  <2> QED
    BY <1>1, <2>4 DEF Shown, Hidden
<1> QED
  BY <1>1, <1>3, <1>4, <1>5, <1>6 DEF IInv, PageOK

LEMMA SaveStep ==
    ASSUME IInv, NEW p \in page.parts, Save(p)
    PROVE  IInv'
<1> DEFINE x   == [part |-> p, blank |-> Blank(p), mine |-> TRUE]
           new == Len(saves) + 1
<1>1. /\ p.edit # "none" /\ Shown(p) /\ Enabled(p)
      /\ sent' = sent + 1
      /\ saves' = Append(saves, x)
      /\ busy' = IF p.once THEN busy \cup {p.name} ELSE busy
      /\ UNCHANGED <<page, given, made, loaded, seen, spin, open, typing, blank, gets, failed,
                     cause, left>>
  BY DEF Save
<1>2. saves \in Seq(Requests) /\ x \in Requests
  <2>1. Blank(p) \in BOOLEAN
    BY DEF Blank
  <2> QED
    BY <2>1 DEF IInv, TypeOK, Requests
<1> HIDE DEF x, new
<1>3. /\ saves' \in Seq(Requests)
      /\ DOMAIN saves' = DOMAIN saves \cup {new} /\ new \notin DOMAIN saves
      /\ \A j \in DOMAIN saves : saves'[j] = saves[j]
      /\ saves'[new] = x
  BY <1>1, <1>2, SentOK DEF new
<1>4. x.part = p /\ x.blank = Blank(p) /\ x.mine
  BY DEF x
<1>5. p.name \in Names
  BY PartsOK DEF IInv
<1>6. TypeOK'
  BY <1>1, <1>3, <1>5 DEF IInv, TypeOK, Requests
<1>7. /\ SkeletonHasRequest' /\ InOrder' /\ StaleIsFetched' /\ LoadedOK' /\ Fetched'
      /\ BlankOK' /\ FormsOK'
  BY <1>1 DEF IInv, SkeletonHasRequest, InOrder, StaleIsFetched, Main, Refreshes, LoadedOK,
              Fetched, Excused, BlankOK, FormsOK, Guarded
<1>8. FlagsOK'
  <2>1. \A i \in DOMAIN saves' :
           saves'[i].mine /\ saves'[i].part.once => saves'[i].part.name \in busy'
    BY <1>1, <1>3, <1>4 DEF IInv, FlagsOK
  <2>2. \A i \in DOMAIN saves : saves[i].part = p /\ saves[i].part.once => ~saves[i].mine
    BY <1>1 DEF IInv, FlagsOK, Enabled
  <2>3. OneAtATime'
    BY <1>3, <1>4, <2>2 DEF IInv, FlagsOK, OneAtATime
  <2> QED
    BY <2>1, <2>3 DEF FlagsOK
<1>9. BlankHasCause'
  <2>1. ASSUME Blank(p), p.asked # "never" PROVE Excused(p)
    <3>1. CASE p.name \in blank
      BY <2>1, <3>1 DEF IInv, BlankOK
    <3>2. CASE p.name \notin blank
      BY <1>1, <2>1, <3>2, ShownOK DEF Blank
    <3> QED
      BY <3>1, <3>2
  <2>2. ASSUME NEW i \in DOMAIN saves', saves'[i].blank, saves'[i].part.asked # "never"
        PROVE  Excused(saves'[i].part)
    <3>1. CASE i = new
      BY <1>3, <1>4, <2>1, <2>2, <3>1
    <3>2. CASE i \in DOMAIN saves
      BY <1>3, <2>2, <3>2 DEF IInv, BlankHasCause, Excused
    <3> QED
      BY <1>3, <3>1, <3>2
  <2> QED
    BY <1>1, <2>2 DEF BlankHasCause, Excused
<1> QED
  BY <1>1, <1>6, <1>7, <1>8, <1>9 DEF IInv, PageOK

LEMMA AnsweredStep ==
    ASSUME IInv, NEW i \in DOMAIN gets, Answered(i)
    PROVE  IInv'
<1> DEFINE g  == gets[i]
           n  == g.part.name
           ns == IF g.part.edit = "form" THEN typing \ {n} ELSE typing
<1>1. /\ gets' = Without(gets, i)
      /\ IF n # "main" THEN UNCHANGED <<seen, cause>>
         ELSE /\ seen' \in g.since .. made
              /\ cause' = IF seen' = made THEN None
                          ELSE IF seen' < seen THEN "overtaken" ELSE cause
      /\ UNCHANGED <<page, given, made, blank, failed, sent, left>>
      /\ Render(spin \ {n}, loaded \cup {n}, open, ns, busy, saves)
  BY DEF Answered
<1>2. gets \in Seq(Reads) /\ saves \in Seq(Requests)
  BY DEF IInv, TypeOK, Reads, Requests
<1>3. g \in Reads
  BY <1>2, Element
<1>4. g.part \in page.parts /\ n \in Names /\ g.since \in Nat
  BY <1>3, PartsOK DEF IInv, Reads
<1> HIDE DEF g, n
<1>5. /\ spin \ {n} \in SUBSET Names /\ loaded \cup {n} \in SUBSET Names /\ open \in Names
      /\ ns \in SUBSET Names /\ busy \in SUBSET Names
  BY <1>4 DEF IInv, TypeOK
<1>6. /\ spin' = spin \ {n} /\ loaded' = loaded \cup {n}
      /\ open' \in Names /\ open' \in {open, page.first}
      /\ typing' \subseteq ns /\ busy' \subseteq busy /\ saves' \in Seq(Requests)
  BY <1>1, <1>2, <1>5, RenderOK DEF IInv
<1>7. typing' \subseteq typing
  BY <1>6
<1>8. /\ gets' \in Seq(Reads) /\ SkeletonHasRequest' /\ InOrder' /\ FormsOK'
      /\ n # "main" \/ g.since # made => (Refreshes => Refreshes')
  BY <1>1, <1>6, <1>7, GetsRemain DEF g, n
<1>9. seen' \in Nat /\ cause' \in Causes \cup {None}
  BY <1>1, <1>4 DEF IInv, TypeOK, Causes
<1>10. TypeOK'
  BY <1>1, <1>4, <1>6, <1>7, <1>8, <1>9 DEF IInv, TypeOK, Reads, Requests
<1>11. FlagsOK' /\ BlankHasCause'
  BY <1>1, <1>5, SavesStay DEF IInv
<1>12. LoadedOK' /\ Fetched' /\ BlankOK'
  <2>1. spin \cup loaded \cup failed \subseteq spin' \cup loaded' \cup failed'
    BY <1>1, <1>6
  <2>2. loaded' \subseteq loaded \cup {p.name : p \in page.parts}
    BY <1>4, <1>6 DEF n
  <2> QED
    BY <1>1, <1>6, <2>1, <2>2, FetchedKept
<1>13. StaleIsFetched'
  <2> SUFFICES ASSUME ~left, Main # {}, seen' < made, cause' = None PROVE Refreshes'
    BY <1>1 DEF StaleIsFetched, Main
  <2>1. seen < made /\ cause = None /\ (n # "main" \/ g.since # made)
    <3>1. CASE n # "main"
      BY <1>1, <3>1
    <3>2. CASE n = "main"
      BY <1>1, <1>4, <1>9, <3>2, ObjectPagesAssumption DEF IInv, TypeOK, Causes
    <3> QED
      BY <3>1, <3>2
  <2> QED
    BY <1>8, <2>1 DEF IInv, StaleIsFetched
<1> QED
  BY <1>1, <1>8, <1>10, <1>11, <1>12, <1>13 DEF IInv, PageOK

LEMMA UnansweredStep ==
    ASSUME IInv, NEW i \in DOMAIN gets, Unanswered(i)
    PROVE  IInv'
<1> DEFINE n == gets[i].part.name
<1>1. /\ gets' = Without(gets, i)
      /\ failed' = failed \cup {n}
      /\ cause' = IF n = "main" THEN "failed" ELSE cause
      /\ UNCHANGED <<page, given, made, seen, blank, sent, left>>
      /\ Render(spin \ {n}, loaded, open, typing, busy, saves)
  BY DEF Unanswered
<1>2. gets \in Seq(Reads) /\ saves \in Seq(Requests)
  BY DEF IInv, TypeOK, Reads, Requests
<1>3. gets[i] \in Reads
  BY <1>2, Element
<1>4. n \in Names
  BY <1>3, PartsOK DEF IInv, Reads
<1> HIDE DEF n
<1>5. /\ spin \ {n} \in SUBSET Names /\ loaded \in SUBSET Names /\ open \in Names
      /\ typing \in SUBSET Names /\ busy \in SUBSET Names
  BY <1>4 DEF IInv, TypeOK
<1>6. /\ spin' = spin \ {n} /\ loaded' = loaded
      /\ open' \in Names /\ open' \in {open, page.first}
      /\ typing' \subseteq typing /\ busy' \subseteq busy /\ saves' \in Seq(Requests)
  BY <1>1, <1>2, <1>5, RenderOK DEF IInv
<1>7. /\ gets' \in Seq(Reads) /\ SkeletonHasRequest' /\ InOrder' /\ FormsOK'
      /\ n # "main" => (Refreshes => Refreshes')
  BY <1>1, <1>6, GetsRemain DEF n
<1>8. TypeOK'
  BY <1>1, <1>4, <1>6, <1>7 DEF IInv, TypeOK, Reads, Requests, Causes
<1>9. FlagsOK' /\ BlankHasCause'
  BY <1>1, <1>5, SavesStay DEF IInv
<1>10. LoadedOK' /\ Fetched' /\ BlankOK'
  <2>1. spin \cup loaded \cup failed \subseteq spin' \cup loaded' \cup failed'
    BY <1>1, <1>6
  <2> QED
    BY <1>1, <1>6, <2>1, FetchedKept
<1>11. StaleIsFetched'
  BY <1>1, <1>7, ObjectPagesAssumption DEF IInv, StaleIsFetched, Main, Causes
<1> QED
  BY <1>1, <1>7, <1>8, <1>9, <1>10, <1>11 DEF IInv, PageOK

LEMMA SavedStep ==
    ASSUME IInv, ~left, NEW i \in DOMAIN saves, Saved(i)
    PROVE  IInv'
<1> DEFINE p    == saves[i].part
           more == Follows(p)
           m    == CHOOSE x \in more : TRUE
           s    == spin \cup UNION {Flag(x) : x \in more}
           w    == Without(saves, i)
           bs   == busy \ Ended(i)
<1>1. /\ made' = IF p.writes THEN made + 1 ELSE made
      /\ left' = (p.then = "leave")
      /\ gets' = IF more = {} THEN gets ELSE Append(gets, Get(m))
      /\ cause' = IF p.writes /\ p.then = "stay" THEN "unasked" ELSE cause
      /\ UNCHANGED <<page, given, seen, blank, failed, sent>>
      /\ Render(s, loaded, open, typing \ Ended(i), bs, w)
  BY DEF Saved
<1>2. /\ saves \in Seq(Requests) /\ gets \in Seq(Reads)
      /\ made \in Nat /\ typing \subseteq Names /\ busy \subseteq Names
      /\ spin \subseteq Names /\ loaded \in SUBSET Names /\ open \in Names
  BY DEF IInv, TypeOK, Requests, Reads
<1>3. saves[i] \in Requests
  BY <1>2, Element
<1>4. p \in page.parts /\ p.name \in Names /\ p.then \in {"leave", "main", "stay"}
  BY <1>3, PartsOK DEF IInv, Requests, Part
<1> HIDE DEF p
<1>5. /\ p.then = "main" => more = Main
      /\ p.then # "main" => more = {}
  BY DEF Follows
<1> HIDE DEF more
<1>6. more # {} => /\ m \in page.parts /\ m.name = "main" /\ more = {m}
                   /\ Flag(m) \subseteq Names /\ m.edit # "form"
  <2> SUFFICES ASSUME more # {}
               PROVE  /\ m \in page.parts /\ m.name = "main" /\ more = {m}
                      /\ Flag(m) \subseteq Names /\ m.edit # "form"
    OBVIOUS
  <2>1. m \in more /\ more = Main
    BY <1>5
  <2>2. m \in page.parts /\ m.name = "main"
    BY <2>1 DEF Main
  <2> QED
    BY <2>1, <2>2, PartsOK DEF IInv, Main
<1> HIDE DEF m
<1>7. /\ more = {} => s = spin
      /\ more # {} => s = spin \cup Flag(m)
  BY <1>6
<1> HIDE DEF s
<1>8. w \in Seq(Requests)
  BY <1>2, WithoutOK
<1>9. s \in SUBSET Names /\ typing \ Ended(i) \in SUBSET Names /\ bs \in SUBSET Names
  BY <1>2, <1>6, <1>7
<1> HIDE DEF w, bs
<1>10. /\ spin' = s /\ loaded' = loaded
       /\ open' \in Names /\ open' \in {open, page.first}
       /\ typing' \subseteq typing \ Ended(i) /\ busy' \subseteq bs /\ saves' \in Seq(Requests)
  BY <1>1, <1>2, <1>8, <1>9, RenderOK DEF IInv
<1>11. made' \in Nat /\ made <= made' /\ (~p.writes => made' = made)
  BY <1>1, <1>2
<1>12. /\ gets' \in Seq(Reads) /\ SkeletonHasRequest' /\ InOrder' /\ FormsOK'
       /\ more # {} => Refreshes'
  <2>1. CASE more = {}
    BY <1>1, <1>7, <1>10, <1>11, <2>1, GetsStay
  <2>2. CASE more # {}
    <3>1. m.name = "main" /\ ~Guarded(m) /\ gets' = Append(gets, Get(m)) /\ spin' = spin \cup Flag(m)
      BY <1>1, <1>6, <1>7, <1>10, <2>2 DEF Guarded
    <3> QED
      BY <1>1, <1>6, <1>10, <1>11, <2>2, <3>1, GetSent
  <2> QED
    BY <2>1, <2>2
<1>13. TypeOK'
  <2>1. cause' \in Causes \cup {None} /\ left' \in BOOLEAN
    BY <1>1 DEF IInv, TypeOK, Causes
  <2>2. typing' \subseteq Names /\ busy' \subseteq Names
    BY <1>9, <1>10
  <2> QED
    BY <1>1, <1>9, <1>10, <1>11, <1>12, <2>1, <2>2 DEF IInv, TypeOK, Reads, Requests
<1>14. FlagsOK' /\ BlankHasCause'
  BY <1>1, <1>2, <1>9, SaveEnds DEF IInv, w, bs
<1>15. LoadedOK' /\ Fetched' /\ BlankOK'
  <2>1. spin \cup loaded \cup failed \subseteq spin' \cup loaded' \cup failed'
    BY <1>1, <1>7, <1>10
  <2> QED
    BY <1>1, <1>10, <2>1, FetchedKept
<1>16. StaleIsFetched'
  <2> SUFFICES ASSUME ~left', Main # {}, seen < made', cause' = None, more = {}
               PROVE  Refreshes'
    BY <1>1, <1>12 DEF StaleIsFetched, Main
  <2>1. p.then = "stay"
    BY <1>1, <1>4, <1>5
  <2>2. ~p.writes
    BY <1>1, <2>1, ObjectPagesAssumption DEF Causes
  <2>3. made' = made /\ cause' = cause /\ gets' = gets
    BY <1>1, <1>11, <2>2
  <2> QED
    BY <2>3 DEF IInv, StaleIsFetched, Refreshes
<1> QED
  BY <1>1, <1>12, <1>13, <1>14, <1>15, <1>16 DEF IInv, PageOK

LEMMA UnsavedStep ==
    ASSUME IInv, NEW i \in DOMAIN saves, NEW lost \in BOOLEAN, Unsaved(i, lost)
    PROVE  IInv'
<1> DEFINE p  == saves[i].part
           w  == Without(saves, i)
           bs == busy \ Ended(i)
<1>1. /\ made' = IF lost /\ p.writes THEN made + 1 ELSE made
      /\ cause' = IF lost /\ p.writes THEN "unanswered" ELSE cause
      /\ UNCHANGED <<page, given, seen, blank, gets, failed, sent, left>>
      /\ Render(spin, loaded, open, typing, bs, w)
  BY DEF Unsaved
<1>2. /\ saves \in Seq(Requests) /\ gets \in Seq(Reads)
      /\ made \in Nat /\ typing \in SUBSET Names /\ busy \subseteq Names
      /\ spin \in SUBSET Names /\ loaded \in SUBSET Names /\ open \in Names
  BY DEF IInv, TypeOK, Requests, Reads
<1>3. w \in Seq(Requests) /\ bs \in SUBSET Names
  BY <1>2, WithoutOK
<1> HIDE DEF p, w, bs
<1>4. /\ spin' = spin /\ loaded' = loaded
      /\ open' \in Names /\ open' \in {open, page.first}
      /\ typing' \subseteq typing /\ busy' \subseteq bs /\ saves' \in Seq(Requests)
  BY <1>1, <1>2, <1>3, RenderOK DEF IInv
<1>5. made' \in Nat /\ made <= made'
  BY <1>1, <1>2
<1>6. gets' \in Seq(Reads) /\ SkeletonHasRequest' /\ InOrder' /\ FormsOK'
  BY <1>1, <1>4, <1>5, GetsStay
<1>7. TypeOK'
  <2>1. cause' \in Causes \cup {None}
    BY <1>1 DEF IInv, TypeOK, Causes
  <2>2. typing' \subseteq Names /\ busy' \subseteq Names
    BY <1>2, <1>3, <1>4
  <2> QED
    BY <1>1, <1>4, <1>5, <1>6, <2>1, <2>2 DEF IInv, TypeOK, Reads, Requests
<1>8. FlagsOK' /\ BlankHasCause'
  BY <1>1, <1>2, <1>3, SaveEnds DEF IInv, w, bs
<1>9. LoadedOK' /\ Fetched' /\ BlankOK'
  BY <1>1, <1>4, FetchedKept
<1>10. StaleIsFetched'
  BY <1>1, ObjectPagesAssumption DEF IInv, StaleIsFetched, Main, Refreshes, Causes
<1> QED
  BY <1>1, <1>6, <1>7, <1>8, <1>9, <1>10 DEF IInv, PageOK

-----------------------------------------------------------------------------
LEMMA InitIInv == Init => IInv
<1> SUFFICES ASSUME Init PROVE IInv
  OBVIOUS
<1> DEFINE ps == IF given THEN {p \in page.parts : p.asked = "mount"} ELSE {}
<1>1. PICK s \in OneEach(ps) : gets = [i \in DOMAIN s |-> [part |-> s[i], since |-> 0]]
  BY DEF Init
<1>2. page \in Page /\ IsFiniteSet(page.parts) /\ page.parts \subseteq Part
      /\ \A p, q \in page.parts : p.name = q.name => p = q
  BY ObjectPagesAssumption DEF Init, Page
<1>3. ps \in SUBSET page.parts
  OBVIOUS
<1>4. Cardinality(ps) \in Nat
  BY <1>2, <1>3, FS_Subset, FS_CardinalityType
<1> DEFINE n == Cardinality(ps)
<1> HIDE DEF ps
<1>5. /\ s \in [1 .. n -> ps]
      /\ \A p \in ps : \E i \in 1 .. n : s[i] = p
      /\ \A i, j \in 1 .. n : s[i] = s[j] => i = j
  BY <1>1 DEF OneEach, Bijection, Injection, Surjection, IsInjective
<1> HIDE DEF n
<1>6. /\ DOMAIN gets = 1 .. n
      /\ \A i \in 1 .. n : gets[i].part = s[i] /\ gets[i].since = 0 /\ gets[i] \in Reads
  BY <1>1, <1>3, <1>5 DEF Reads
<1>7. gets \in Seq(Reads)
  <2>1. gets = [i \in 1 .. n |-> gets[i]]
    BY <1>1, <1>5
  <2> QED
    BY <1>4, <1>6, <2>1 DEF n
<1>8. /\ made = 0 /\ loaded = {} /\ seen = 0
      /\ spin = {p.name : p \in {q \in page.parts : FlaggedAtMount(q)}}
      /\ open = page.first /\ typing = {} /\ blank = {}
      /\ saves = <<>> /\ busy = {} /\ failed = {}
      /\ sent = 0 /\ cause = None /\ left = FALSE
      /\ page \in Pages /\ given \in BOOLEAN
  BY DEF Init
<1>9. TypeOK
  <2>1. saves \in Seq(Requests) /\ Names = Names \cup {page.first}
    BY <1>2, <1>8 DEF Page
  <2>2. spin \subseteq Names
    BY <1>2, <1>8 DEF Part
  <2> QED
    BY <1>2, <1>7, <1>8, <2>1, <2>2 DEF TypeOK, Reads, Requests
<1>10. SkeletonHasRequest
  <2> SUFFICES ASSUME NEW x \in spin, given PROVE \E i \in DOMAIN gets : gets[i].part.name = x
    BY DEF SkeletonHasRequest
  <2>1. PICK p \in page.parts : FlaggedAtMount(p) /\ p.name = x
    BY <1>8
  <2>2. p \in ps
    BY <2>1 DEF ps, FlaggedAtMount
  <2> QED
    BY <1>5, <1>6, <2>1, <2>2
<1>11. FormsOK
  <2>1. ASSUME NEW i \in DOMAIN gets
        PROVE  /\ gets[i].part.asked = "mount" /\ gets[i].part \in page.parts
               /\ \A j \in DOMAIN gets : gets[j].part = gets[i].part => j = i
    BY <1>5, <1>6 DEF ps
  <2> QED
    BY <1>8, <2>1 DEF FormsOK, Guarded, FlaggedAtMount
<1>12. FlagsOK /\ BlankHasCause
  BY <1>8 DEF FlagsOK, OneAtATime, BlankHasCause
<1>13. InOrder /\ StaleIsFetched
  BY <1>6, <1>8 DEF InOrder, StaleIsFetched
<1>14. LoadedOK /\ BlankOK
  BY <1>8 DEF LoadedOK, BlankOK
<1>15. Fetched
  BY <1>8 DEF Fetched, Excused, FlaggedAtMount
<1> QED
  BY <1>8, <1>9, <1>10, <1>11, <1>12, <1>13, <1>14, <1>15 DEF IInv, PageOK

LEMMA NextIInv == IInv /\ [Next]_vars => IInv'
<1> SUFFICES ASSUME IInv, [Next]_vars PROVE IInv'
  OBVIOUS
<1>1. CASE \E n \in Names : Answer(n)
  BY <1>1, AnsweredStep, UnansweredStep DEF Answer
<1>2. CASE End
  BY <1>2, SavedStep, UnsavedStep DEF End
<1>3. CASE \E p \in page.parts : Click(p) \/ Edit(p) \/ Save(p)
  BY <1>3, ClickStep, EditStep, SaveStep
<1>4. CASE UNCHANGED vars
  BY <1>4 DEF vars, IInv, TypeOK, PageOK, SkeletonHasRequest, FlagsOK, OneAtATime, InOrder,
              StaleIsFetched, Main, Refreshes, LoadedOK, Fetched, Excused, BlankOK,
              BlankHasCause, FormsOK, Guarded
<1> QED
  BY <1>1, <1>2, <1>3, <1>4 DEF Next

LEMMA Invariance == Spec => []IInv
BY InitIInv, NextIInv, PTL DEF Spec

\* Every page stays within its parts, whatever is answered and pressed.
THEOREM TypeCorrect == Spec => []TypeOK
BY Invariance, PTL DEF IInv

\* What a loading flag hides is on its way: no handler of the pages leaves setLoading(true)
\* without a request that ends in setLoading(false).
THEOREM NoEndlessSkeleton == Spec => []SkeletonHasRequest
BY Invariance, PTL DEF IInv

\* A part with a saving flag has one request under way that its end belongs to.
THEOREM SavesOnce == Spec => []OneAtATime
BY Invariance, PTL DEF IInv, FlagsOK

\* handleSave never sends an editor that did not hold the object's text, but for the
\* three reasons named.
THEOREM BlankOnlyForCause == Spec => []BlankHasCause
BY Invariance, PTL DEF IInv

\* A page at rest shows its own last change, or there is a reason why not.
THEOREM StaleOnlyForCause == Spec => []StaleHasCause
<1>1. IInv => StaleHasCause
  BY DEF IInv, TypeOK, LoadedOK, StaleIsFetched, Refreshes, Main, StaleHasCause
<1> QED
  BY <1>1, Invariance, PTL

-----------------------------------------------------------------------------
(* What the user types.                                                    *)

Typed(p) ==
    /\ p.edit = "form" /\ p.then = "leave"
    /\ p.asked = "never" \/ (p.asked = "mount" /\ p.hides = "page")
    /\ p.name \in typing

LEMMA TypedStays ==
    ASSUME IInv, NEW p \in page.parts, Typed(p), [Next]_vars, p.name \notin typing'
    PROVE  left'
<1>1. p.name \notin Copies /\ p.name # "main"
  BY PartsOK DEF IInv, Typed
<1>2. /\ saves \in Seq(Requests) /\ gets \in Seq(Reads)
      /\ typing \in SUBSET Names /\ busy \in SUBSET Names
      /\ spin \in SUBSET Names /\ loaded \in SUBSET Names /\ open \in Names
  BY DEF IInv, TypeOK, Requests, Reads
<1>3. \A s, l, tab, ns, bs, ss :
         Render(s, l, tab, ns, bs, ss) => p.name \notin ns
  BY <1>1 DEF Render, Kept
<1>4. ASSUME NEW i \in DOMAIN gets, Answered(i) PROVE FALSE
  <2>1. gets[i].part.edit = "form" /\ gets[i].part.name = p.name
    BY <1>3, <1>4 DEF Answered, Typed
  <2>2. gets[i] \in Reads
    BY <1>2, Element
  <2>3. gets[i].part = p
    BY <2>1, <2>2, PartsOK DEF IInv, Reads
  <2> QED
    BY <1>1, <2>3 DEF IInv, FormsOK, Guarded, Typed
<1>5. ASSUME NEW i \in DOMAIN gets, Unanswered(i) PROVE FALSE
  BY <1>3, <1>5 DEF Unanswered, Typed
<1>6. ASSUME NEW i \in DOMAIN saves, Saved(i) PROVE left'
  <2>1. p.name \in Ended(i)
    BY <1>3, <1>6 DEF Saved, Typed
  <2>2. saves[i] \in Requests
    BY <1>2, Element
  <2>3. saves[i].part = p
    BY <2>1, <2>2, PartsOK DEF IInv, Requests, Ended
  <2> QED
    BY <1>6, <2>3 DEF Saved, Typed
<1>7. ASSUME NEW i \in DOMAIN saves, NEW lost, Unsaved(i, lost) PROVE FALSE
  BY <1>3, <1>7 DEF Unsaved, Typed
<1>8. ASSUME NEW q \in page.parts, Click(q) PROVE FALSE
  BY <1>3, <1>8 DEF Click, Typed
<1>9. ASSUME NEW q \in page.parts, Edit(q) \/ Save(q) PROVE FALSE
  BY <1>9 DEF Edit, Save, Typed
<1>10. typing' # typing
  BY DEF Typed
<1> QED
  BY <1>4, <1>5, <1>6, <1>7, <1>8, <1>9, <1>10 DEF Next, vars, Answer, End

\* What is typed into a form that fetches nothing, or fetches it before it is shown, goes
\* only with the page, after a success.
THEOREM TypingSurvives == Spec => TypedTextIsKept
<1>1. IInv /\ [Next]_vars =>
         [\A p \in page.parts :
             /\ p.edit = "form" /\ p.then = "leave"
             /\ p.asked = "never" \/ (p.asked = "mount" /\ p.hides = "page")
             /\ p.name \in typing /\ p.name \notin typing'
             => left']_vars
  BY TypedStays DEF Typed
<1> QED
  BY <1>1, Invariance, PTL DEF Spec, TypedTextIsKept

=============================================================================
