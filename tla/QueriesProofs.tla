--------------------------- MODULE QueriesProofs ---------------------------
(***************************************************************************)
(* Queries, proved for any queries that send a stream by its button alone, *)
(* any values, and any number of requests, reports and changes.            *)
(***************************************************************************)
EXTENDS Queries, TLAPS

LastOf(gs) == gs[Len(gs)]

Loads(gs) == \E i \in DOMAIN gs : gs[i].how = "loud"

\* At most one stream goes on, and its controller is at hand.
Alone(gs) ==
    \A i, j \in DOMAIN gs : gs[i].stage = "sent" /\ gs[j].stage = "sent" => i = j /\ gs[i].held

NoneSent(gs) == \A i \in DOMAIN gs : gs[i].stage # "sent"

\* A request for something else than w has a reason; what streams has one state.
Timely(gs, w) ==
    \A i \in DOMAIN gs : gs[i].since = 0 /\ (gs[i].excuse = None => gs[i].of = Sent(w))

-----------------------------------------------------------------------------
(* The inductive invariant.                                                *)

\* What starts the job again, and what repeats a request, are the pages of jobs
\* and those with a switch.
OnlyRuns == /\ acting => query.auto \in {"ends", "run"}
            /\ timer => query.auto # "no"
            /\ ~HasJob => job = 0

\* While no controller has been lost, OneAnalysis holds, and the one analysis can
\* be given up.
AloneAndHeld == query.stream /\ ~orphaned => Alone(gets)

\* Without a reason to the contrary a Jenkins page has nothing to report; the page
\* of a pipeline has reports of an end under way, and if none, the server knows.
ReportsDecide ==
    misreport = None =>
        /\ query.posts = "start" => posts = <<>> /\ posted = 1
        /\ query.posts = "both" =>
              /\ \A i \in DOMAIN posts : posts[i] = 1
              /\ rendered = "ended" /\ posts = <<>> => posted = 1

\* The last request, if it has no reason, was sent for the job's present state and
\* for the present values, or a timeout will send another one.
LastDecides ==
    gets # <<>> /\ LastOf(gets).excuse = None =>
        LastOf(gets).since = job /\ (due = None => LastOf(gets).of = Sent(want))

\* An analysis without a reason is that of the chosen alert, in flight or shown.
StreamDecides ==
    query.stream =>
        /\ Timely(gets, want)
        /\ shown # None /\ cause = None => shown.of = Sent(want) /\ shown.seen = 0

\* With nothing on its way and no reason, the page shows what is asked for, up to
\* the state of a job that a timer watches and that no render will leave.
ShownDecides ==
    gets = <<>> /\ due = None /\ shown # None /\ cause = None =>
        shown.of = Sent(want) /\ (shown.seen = job \/ (timer /\ HasJob /\ ~RenderDue))

Known == TypeOK /\ query \in Queries /\ OnlyRuns

Decided == LastDecides /\ StreamDecides /\ ShownDecides

IInv == Known /\ LoadingHasRequest /\ AloneAndHeld /\ ReportsDecide /\ Decided

-----------------------------------------------------------------------------
(* Sequences.                                                              *)

LEMMA Element ==
    ASSUME NEW T, NEW s \in Seq(T), NEW i \in DOMAIN s
    PROVE  s[i] \in T
  OBVIOUS

LEMMA AppendOK ==
    ASSUME NEW T, NEW s \in Seq(T), NEW x \in T
    PROVE  /\ Append(s, x) \in Seq(T)
           /\ DOMAIN Append(s, x) = DOMAIN s \cup {Len(s) + 1}
           /\ Len(s) + 1 \notin DOMAIN s
           /\ \A j \in DOMAIN s : Append(s, x)[j] = s[j]
           /\ Append(s, x)[Len(s) + 1] = x
  OBVIOUS

\* The last element of what has been added to.
LEMMA LastAppended ==
    ASSUME NEW T, NEW s \in Seq(T), NEW x \in T
    PROVE  Append(s, x) # <<>> /\ LastOf(Append(s, x)) = x
<1>1. Len(Append(s, x)) = Len(s) + 1 /\ Len(s) \in Nat
  OBVIOUS
<1>2. Append(s, x) # <<>>
  <2> SUFFICES ASSUME Append(s, x) = <<>> PROVE FALSE
    OBVIOUS
  <2>1. Len(Append(s, x)) = 0
    OBVIOUS
  <2> QED
    BY <1>1, <2>1
<1> QED
  BY <1>1, <1>2, AppendOK DEF LastOf

\* Without(s, i) holds the other elements, each once.
LEMMA WithoutOK ==
    ASSUME NEW T, NEW s \in Seq(T), NEW i \in DOMAIN s
    PROVE  /\ Without(s, i) \in Seq(T) /\ Len(Without(s, i)) = Len(s) - 1
           /\ \A j \in DOMAIN Without(s, i) :
                 \E k \in DOMAIN s \ {i} : Without(s, i)[j] = s[k]
           /\ \A k \in DOMAIN s \ {i} :
                 \E j \in DOMAIN Without(s, i) : Without(s, i)[j] = s[k]
           /\ \A j, k \in DOMAIN Without(s, i) :
                 j # k => \E x, y \in DOMAIN s \ {i} :
                             x # y /\ Without(s, i)[j] = s[x] /\ Without(s, i)[k] = s[y]
<1> DEFINE w == Without(s, i)
           b(j) == IF j < i THEN j ELSE j + 1
<1>1. Len(s) \in Nat /\ DOMAIN s = 1 .. Len(s) /\ i \in 1 .. Len(s)
  OBVIOUS
<1>2. DOMAIN w = 1 .. Len(s) - 1 /\ Len(s) - 1 \in Nat
  BY <1>1 DEF Without
<1>3. \A j \in DOMAIN w : b(j) \in DOMAIN s \ {i} /\ w[j] = s[b(j)]
  BY <1>1, <1>2 DEF Without
<1>4. w \in Seq(T)
  BY <1>1, <1>2, <1>3 DEF Without
<1>5. \A j, k \in DOMAIN w : j # k => b(j) # b(k)
  BY <1>1, <1>2
<1>6. ASSUME NEW k \in DOMAIN s \ {i} PROVE \E j \in DOMAIN w : w[j] = s[k]
  <2>1. CASE k < i
    <3>1. k \in DOMAIN w /\ b(k) = k
      BY <1>1, <1>2, <2>1
    <3> QED
      BY <1>3, <3>1
  <2>2. CASE k > i
    <3>1. k - 1 \in DOMAIN w /\ b(k - 1) = k
      BY <1>1, <1>2, <2>2
    <3> QED
      BY <1>3, <3>1
  <2> QED
    BY <1>1, <2>1, <2>2
<1>7. Len(w) = Len(s) - 1
  BY <1>2, <1>4
<1> HIDE DEF w, b
<1>8. \A j \in DOMAIN w : \E k \in DOMAIN s \ {i} : w[j] = s[k]
  BY <1>3
<1>9. \A j, k \in DOMAIN w :
         j # k => \E x, y \in DOMAIN s \ {i} : x # y /\ w[j] = s[x] /\ w[k] = s[y]
  BY <1>3, <1>5
<1> QED
  BY <1>4, <1>6, <1>7, <1>8, <1>9 DEF w

\* Its last element is that of s, unless that is the one taken out.
LEMMA WithoutLast ==
    ASSUME NEW T, NEW s \in Seq(T), NEW i \in DOMAIN s
    PROVE  /\ Without(s, i) = <<>> => Len(s) = 1 /\ i = 1
           /\ Without(s, i) # <<>> /\ i # Len(s) => LastOf(Without(s, i)) = LastOf(s)
           /\ Without(s, i) # <<>> /\ i = Len(s) =>
                 Len(s) - 1 \in DOMAIN s /\ LastOf(Without(s, i)) = s[Len(s) - 1]
<1> DEFINE w == Without(s, i)
           n == Len(s)
<1>1. n \in Nat /\ DOMAIN s = 1 .. n /\ i \in 1 .. n
  OBVIOUS
<1>2. w \in Seq(T) /\ Len(w) = n - 1
  BY WithoutOK
<1>3. \A j \in 1 .. n - 1 : w[j] = s[IF j < i THEN j ELSE j + 1]
  BY DEF Without
<1>4. w = <<>> => n = 1 /\ i = 1
  <2> SUFFICES ASSUME w = <<>> PROVE n = 1 /\ i = 1
    OBVIOUS
  <2>1. Len(w) = 0
    OBVIOUS
  <2>2. n - 1 = 0
    BY <1>2, <2>1
  <2> HIDE DEF w, n
  <2> QED
    BY <1>1, <2>2
<1>5. w # <<>> => Len(w) # 0
  BY <1>2
<1> HIDE DEF w, n
<1>6. w # <<>> => n - 1 \in 1 .. n - 1 /\ LastOf(w) = w[n - 1]
  BY <1>1, <1>2, <1>5 DEF LastOf
<1>7. w # <<>> /\ i # n => LastOf(w) = s[n]
  BY <1>1, <1>3, <1>6
<1>8. w # <<>> /\ i = n => n - 1 \in DOMAIN s /\ LastOf(w) = s[n - 1]
  BY <1>1, <1>3, <1>6
<1> QED
  BY <1>4, <1>7, <1>8 DEF w, n, LastOf

-----------------------------------------------------------------------------
(* Requests.                                                               *)

\* What no change of a request in flight touches; it may get a reason.
Kin(x, y) == /\ x \in Request /\ x.of = y.of /\ x.since = y.since /\ x.how = y.how
             /\ x.stage = y.stage /\ (x.excuse = None => y.excuse = None)

\* fs is gs with reasons added, and with controllers dropped.
Copy(fs, gs) == fs \in Seq(Request) /\ DOMAIN fs = DOMAIN gs
                /\ \A i \in DOMAIN gs : Kin(fs[i], gs[i])

\* Every request of fs is one of gs, possibly with a reason.
Part(fs, gs) == fs \in Seq(Request)
                /\ \A j \in DOMAIN fs : \E k \in DOMAIN gs : Kin(fs[j], gs[k])

LEMMA WithExcuse ==
    ASSUME NEW g \in Request, NEW why \in Causes
    PROVE  /\ Kin([g EXCEPT !.excuse = Either(@, why)], g)
           /\ [g EXCEPT !.excuse = Either(@, why)].excuse # None
           /\ [g EXCEPT !.excuse = Either(@, why)].held = g.held
<1> DEFINE y == Either(g.excuse, why)
           f == [g EXCEPT !.excuse = y]
<1>1. y \in Causes \cup {None} /\ y # None
  BY QueriesAssumption DEF Either, Request
<1> HIDE DEF y
<1>2. /\ f \in Request /\ f.of = g.of /\ f.since = g.since /\ f.how = g.how
      /\ f.stage = g.stage /\ f.excuse = y /\ f.held = g.held
  BY <1>1 DEF Request
<1> QED
  BY <1>1, <1>2 DEF Kin, y

LEMMA KinSelf ==
    ASSUME NEW g \in Request PROVE Kin(g, g)
BY DEF Kin

LEMMA CopyOK ==
    ASSUME NEW gs \in Seq(Request), NEW fs, DOMAIN fs = DOMAIN gs,
           fs = [i \in DOMAIN gs |-> fs[i]], \A i \in DOMAIN gs : Kin(fs[i], gs[i])
    PROVE  /\ Copy(fs, gs) /\ Len(fs) = Len(gs) /\ (fs = <<>> <=> gs = <<>>)
           /\ Loads(fs) <=> Loads(gs)
           /\ gs # <<>> => Kin(LastOf(fs), LastOf(gs)) /\ Len(gs) \in DOMAIN gs
<1>1. Len(gs) \in Nat /\ DOMAIN gs = 1 .. Len(gs)
  OBVIOUS
<1>2. fs \in Seq(Request)
  BY <1>1 DEF Kin
<1>3. Len(fs) = Len(gs)
  BY <1>1, <1>2
<1>4. fs = <<>> <=> gs = <<>>
  BY <1>2, <1>3
<1>5. gs # <<>> => Len(gs) \in DOMAIN gs
  BY <1>1
<1> QED
  BY <1>2, <1>3, <1>4, <1>5 DEF Copy, Loads, LastOf, Kin

LEMMA ExcuseOK ==
    ASSUME NEW gs \in Seq(Request), NEW w, NEW why \in Causes
    PROVE  /\ Copy(Excuse(gs, w, why), gs)
           /\ Excuse(gs, w, why) = <<>> <=> gs = <<>>
           /\ Loads(Excuse(gs, w, why)) <=> Loads(gs)
           /\ gs # <<>> => Kin(LastOf(Excuse(gs, w, why)), LastOf(gs))
           /\ \A i \in DOMAIN gs :
                 /\ gs[i].held => Excuse(gs, w, why)[i].held
                 /\ Excuse(gs, w, why)[i].excuse = None => gs[i].of = Sent(w)
           /\ gs # <<>> /\ LastOf(Excuse(gs, w, why)).excuse = None =>
                 LastOf(Excuse(gs, w, why)).of = Sent(w)
<1> DEFINE f == Excuse(gs, w, why)
<1>1. DOMAIN f = DOMAIN gs /\ f = [i \in DOMAIN gs |-> f[i]]
  BY DEF Excuse
<1>2. ASSUME NEW i \in DOMAIN gs
      PROVE  Kin(f[i], gs[i]) /\ (gs[i].held => f[i].held) /\ (f[i].excuse = None => gs[i].of = Sent(w))
  <2>1. PICK g \in Request : g = gs[i]
    BY Element
  <2>2. f[i] = IF g.of = Sent(w) THEN g ELSE [g EXCEPT !.excuse = Either(@, why)]
    BY <2>1 DEF Excuse
  <2> HIDE DEF f
  <2>3. CASE g.of = Sent(w)
    BY <2>1, <2>2, <2>3, KinSelf
  <2>4. CASE g.of # Sent(w)
    BY <2>1, <2>2, <2>4, WithExcuse
  <2> QED
    BY <2>3, <2>4
<1> HIDE DEF f
<1>3. /\ Copy(f, gs) /\ Len(f) = Len(gs) /\ (f = <<>> <=> gs = <<>>)
      /\ Loads(f) <=> Loads(gs)
      /\ gs # <<>> => Kin(LastOf(f), LastOf(gs)) /\ Len(gs) \in DOMAIN gs
  BY <1>1, <1>2, CopyOK
<1>4. gs # <<>> /\ LastOf(f).excuse = None => LastOf(f).of = Sent(w)
  BY <1>2, <1>3 DEF LastOf, Kin
<1> QED
  BY <1>2, <1>3, <1>4 DEF f

LEMMA Unwatched ==
    ASSUME NEW gs \in Seq(Request), NEW f,
           f = [i \in DOMAIN gs |-> [gs[i] EXCEPT !.excuse = Either(@, "unwatched")]]
    PROVE  /\ Copy(f, gs) /\ (f = <<>> <=> gs = <<>>) /\ (Loads(f) <=> Loads(gs))
           /\ \A i \in DOMAIN f : f[i].excuse # None
           /\ gs # <<>> => LastOf(f).excuse # None
<1>1. DOMAIN f = DOMAIN gs /\ f = [i \in DOMAIN gs |-> f[i]]
  OBVIOUS
<1>2. ASSUME NEW i \in DOMAIN gs PROVE Kin(f[i], gs[i]) /\ f[i].excuse # None
  <2>1. PICK g \in Request : g = gs[i]
    BY Element
  <2>2. f[i] = [g EXCEPT !.excuse = Either(@, "unwatched")]
    BY <2>1
  <2>3. "unwatched" \in Causes
    BY DEF Causes
  <2> QED
    BY <2>1, <2>2, <2>3, WithExcuse
<1>3. /\ Copy(f, gs) /\ Len(f) = Len(gs) /\ (f = <<>> <=> gs = <<>>)
      /\ Loads(f) <=> Loads(gs)
      /\ gs # <<>> => Kin(LastOf(f), LastOf(gs)) /\ Len(gs) \in DOMAIN gs
  <2>1. \A i \in DOMAIN gs : Kin(f[i], gs[i])
    BY <1>2
  <2> HIDE <1>2
  <2> QED
    BY <1>1, <2>1, CopyOK
<1> QED
  BY <1>1, <1>2, <1>3 DEF LastOf

LEMMA DropOK ==
    ASSUME NEW gs \in Seq(Request)
    PROVE  /\ Copy(Drop(gs), gs)
           /\ Drop(gs) = <<>> <=> gs = <<>>
           /\ Loads(Drop(gs)) <=> Loads(gs)
           /\ gs # <<>> => Kin(LastOf(Drop(gs)), LastOf(gs))
<1> DEFINE f == Drop(gs)
<1>1. DOMAIN f = DOMAIN gs /\ f = [i \in DOMAIN gs |-> f[i]]
  BY DEF Drop
<1>2. ASSUME NEW i \in DOMAIN gs PROVE Kin(f[i], gs[i])
  <2>1. PICK g \in Request : g = gs[i]
    BY Element
  <2>2. f[i] = [g EXCEPT !.held = FALSE]
    BY <2>1 DEF Drop
  <2> HIDE DEF f
  <2>3. /\ f[i] \in Request /\ f[i].of = g.of /\ f[i].since = g.since /\ f[i].how = g.how
        /\ f[i].stage = g.stage /\ f[i].excuse = g.excuse
    BY <2>2 DEF Request
  <2> QED
    BY <2>1, <2>3 DEF Kin
<1> HIDE DEF f
<1> QED
  BY <1>1, <1>2, CopyOK DEF f

LEMMA PartOfCopy ==
    ASSUME NEW fs, NEW gs, Copy(fs, gs)
    PROVE  Part(fs, gs)
BY DEF Copy, Part

LEMMA KinTwice ==
    ASSUME NEW x, NEW y, NEW z, Kin(x, y), Kin(y, z)
    PROVE  Kin(x, z)
BY DEF Kin

LEMMA PartTwice ==
    ASSUME NEW fs, NEW gs, NEW hs, Part(fs, gs), Part(gs, hs)
    PROVE  Part(fs, hs)
<1> SUFFICES ASSUME NEW j \in DOMAIN fs PROVE \E k \in DOMAIN hs : Kin(fs[j], hs[k])
  BY DEF Part
<1>1. PICK i \in DOMAIN gs : Kin(fs[j], gs[i])
  BY DEF Part
<1>2. PICK k \in DOMAIN hs : Kin(gs[i], hs[k])
  BY DEF Part
<1> QED
  BY <1>1, <1>2, KinTwice

\* What is left of a sequence all of whose streams have ended has none either.
LEMMA NoneSentLeft ==
    ASSUME NEW fs, NEW gs, Part(fs, gs), NoneSent(gs)
    PROVE  NoneSent(fs)
BY DEF Part, NoneSent, Kin

LEMMA TimelyLeft ==
    ASSUME NEW fs, NEW gs, NEW w, Part(fs, gs), Timely(gs, w)
    PROVE  Timely(fs, w)
BY DEF Part, Timely, Kin

LEMMA WithoutPart ==
    ASSUME NEW gs \in Seq(Request), NEW i \in DOMAIN gs
    PROVE  /\ Part(Without(gs, i), gs)
           /\ Loads(gs) /\ gs[i].how # "loud" => Loads(Without(gs, i))
           /\ Alone(gs) => Alone(Without(gs, i))
           /\ (\A j \in DOMAIN gs \ {i} : gs[j].stage # "sent") => NoneSent(Without(gs, i))
<1> DEFINE f == Without(gs, i)
<1>1. /\ f \in Seq(Request)
      /\ \A j \in DOMAIN f : \E k \in DOMAIN gs \ {i} : f[j] = gs[k]
      /\ \A k \in DOMAIN gs \ {i} : \E j \in DOMAIN f : f[j] = gs[k]
      /\ \A j, k \in DOMAIN f :
            j # k => \E x, y \in DOMAIN gs \ {i} : x # y /\ f[j] = gs[x] /\ f[k] = gs[y]
  BY WithoutOK
<1> HIDE DEF f
<1>2. Part(f, gs)
  <2> SUFFICES ASSUME NEW j \in DOMAIN f PROVE \E k \in DOMAIN gs : Kin(f[j], gs[k])
    BY <1>1 DEF Part
  <2>1. PICK k \in DOMAIN gs \ {i} : f[j] = gs[k]
    BY <1>1
  <2>2. Kin(gs[k], gs[k])
    BY <2>1, Element, KinSelf
  <2> QED
    BY <2>1, <2>2
<1>3. ASSUME Loads(gs), gs[i].how # "loud" PROVE Loads(f)
  <2>1. PICK k \in DOMAIN gs \ {i} : gs[k].how = "loud"
    BY <1>3 DEF Loads
  <2> QED
    BY <1>1, <2>1 DEF Loads
<1>4. ASSUME Alone(gs) PROVE Alone(f)
  <2> SUFFICES ASSUME NEW j \in DOMAIN f, NEW k \in DOMAIN f,
                      f[j].stage = "sent", f[k].stage = "sent"
               PROVE  j = k /\ f[j].held
    BY DEF Alone
  <2>1. PICK x \in DOMAIN gs : f[j] = gs[x]
    BY <1>1
  <2>2. f[j].held
    BY <1>4, <2>1 DEF Alone
  <2>3. ASSUME j # k PROVE FALSE
    <3>1. PICK y \in DOMAIN gs, z \in DOMAIN gs : y # z /\ f[j] = gs[y] /\ f[k] = gs[z]
      BY <1>1, <2>3
    <3> QED
      BY <1>4, <3>1 DEF Alone
  <2> QED
    BY <2>2, <2>3
<1>5. ASSUME \A j \in DOMAIN gs \ {i} : gs[j].stage # "sent" PROVE NoneSent(f)
  BY <1>1, <1>5 DEF NoneSent
<1> QED
  BY <1>2, <1>3, <1>4, <1>5 DEF f

\* An abort takes the one stream out whose controller is at hand.
LEMMA AbortOK ==
    ASSUME NEW gs \in Seq(Request)
    PROVE  /\ Part(Abort(gs), gs)
           /\ ~Running(gs) /\ Loads(gs) => Loads(Abort(gs))
           /\ Alone(gs) => NoneSent(Abort(gs))
<1>1. CASE ~Running(gs)
  <2>1. Abort(gs) = Drop(gs)
    BY <1>1 DEF Abort
  <2>2. Part(Drop(gs), gs) /\ (Loads(gs) => Loads(Drop(gs)))
    BY DropOK, PartOfCopy
  <2>3. Alone(gs) => NoneSent(gs)
    BY <1>1 DEF Alone, NoneSent, Running, Goes
  <2> QED
    BY <2>1, <2>2, <2>3, NoneSentLeft
<1>2. CASE Running(gs)
  <2> DEFINE i == CHOOSE k \in DOMAIN gs : Goes(gs[k])
             f == Without(gs, i)
  <2>1. i \in DOMAIN gs /\ Goes(gs[i])
    BY <1>2 DEF Running
  <2>2. Abort(gs) = Drop(f)
    BY <1>2 DEF Abort
  <2> HIDE DEF i
  <2>3. Part(f, gs)
    BY <2>1, WithoutPart
  <2>4. Alone(gs) => NoneSent(f)
    <3> SUFFICES ASSUME Alone(gs) PROVE NoneSent(f)
      OBVIOUS
    <3>1. \A j \in DOMAIN gs \ {i} : gs[j].stage # "sent"
      BY <2>1 DEF Alone, Goes
    <3> QED
      BY <2>1, <3>1, WithoutPart
  <2> HIDE DEF f
  <2>5. f \in Seq(Request)
    BY <2>3 DEF Part
  <2>6. Part(Drop(f), f)
    BY <2>5, DropOK, PartOfCopy
  <2>7. Part(Drop(f), gs)
    BY <2>3, <2>6, PartTwice
  <2> QED
    BY <1>2, <2>2, <2>4, <2>6, <2>7, NoneSentLeft
<1> QED
  BY <1>1, <1>2

\* What remains after an answer: the last request is the same, or every one has a
\* reason.
LEMMA RestOK ==
    ASSUME gets \in Seq(Request), NEW i \in DOMAIN gets
    PROVE  /\ Part(Rest(i), gets)
           /\ Loads(gets) /\ gets[i].how # "loud" => Loads(Rest(i))
           /\ Alone(gets) => Alone(Rest(i))
           /\ (\A j \in DOMAIN gets \ {i} : gets[j].stage # "sent") => NoneSent(Rest(i))
           /\ Rest(i) = <<>> => Len(gets) = 1 /\ i = 1
           /\ Rest(i) # <<>> /\ LastOf(Rest(i)).excuse = None =>
                 LastOf(Rest(i)) = LastOf(gets)
<1> DEFINE f == [j \in DOMAIN gets |->
                    IF j < i THEN [gets[j] EXCEPT !.excuse = Either(@, "overtaken")] ELSE gets[j]]
<1>1. Rest(i) = Without(f, i)
  BY DEF Rest
<1>2. DOMAIN f = DOMAIN gets /\ f = [j \in DOMAIN gets |-> f[j]]
  OBVIOUS
<1>3. "overtaken" \in Causes
  BY DEF Causes
<1>4. ASSUME NEW j \in DOMAIN gets
      PROVE  /\ Kin(f[j], gets[j]) /\ f[j].held = gets[j].held
             /\ j < i => f[j].excuse # None
             /\ ~(j < i) => f[j] = gets[j]
  <2>1. PICK g \in Request : g = gets[j]
    BY Element
  <2>2. f[j] = IF j < i THEN [g EXCEPT !.excuse = Either(@, "overtaken")] ELSE g
    BY <2>1
  <2> HIDE DEF f
  <2>3. CASE j < i
    BY <1>3, <2>1, <2>2, <2>3, WithExcuse
  <2>4. CASE ~(j < i)
    BY <2>1, <2>2, <2>4, KinSelf
  <2> QED
    BY <2>3, <2>4
<1> HIDE DEF f
<1>5. Copy(f, gets) /\ Len(f) = Len(gets) /\ (Loads(f) <=> Loads(gets))
  BY <1>2, <1>4, CopyOK
<1>6. f \in Seq(Request) /\ i \in DOMAIN f
  BY <1>2, <1>5 DEF Copy
<1>7. f[i] = gets[i]
  <2>1. ~(i < i)
    OBVIOUS
  <2> QED
    BY <1>4, <2>1
<1>8. Part(f, gets) /\ Part(Without(f, i), f)
  BY <1>5, <1>6, PartOfCopy, WithoutPart
<1>9. Part(Rest(i), gets)
  BY <1>1, <1>8, PartTwice
<1>10. Loads(gets) /\ gets[i].how # "loud" => Loads(Rest(i))
  BY <1>1, <1>5, <1>6, <1>7, WithoutPart
<1>11. Alone(gets) => Alone(Rest(i))
  <2>1. Alone(gets) => Alone(f)
    BY <1>2, <1>4 DEF Alone, Kin
  <2> QED
    BY <1>1, <1>6, <2>1, WithoutPart
<1>12. ASSUME \A j \in DOMAIN gets \ {i} : gets[j].stage # "sent" PROVE NoneSent(Rest(i))
  <2>1. \A j \in DOMAIN f \ {i} : f[j].stage # "sent"
    BY <1>2, <1>4, <1>12 DEF Kin
  <2> QED
    BY <1>1, <1>6, <2>1, WithoutPart
<1>13. /\ Without(f, i) = <<>> => Len(f) = 1 /\ i = 1
       /\ Without(f, i) # <<>> /\ i # Len(f) => LastOf(Without(f, i)) = LastOf(f)
       /\ Without(f, i) # <<>> /\ i = Len(f) =>
             Len(f) - 1 \in DOMAIN f /\ LastOf(Without(f, i)) = f[Len(f) - 1]
  BY <1>6, WithoutLast
<1>14. ASSUME Rest(i) # <<>>, LastOf(Rest(i)).excuse = None
       PROVE  LastOf(Rest(i)) = LastOf(gets)
  <2>1. Len(gets) \in Nat /\ DOMAIN gets = 1 .. Len(gets) /\ i \in 1 .. Len(gets)
    OBVIOUS
  <2>2. CASE i = Len(gets)
    <3>1. Len(f) - 1 < i
      BY <1>5, <2>1, <2>2
    <3> QED
      BY <1>1, <1>2, <1>4, <1>5, <1>13, <1>14, <2>2, <3>1
  <2>3. CASE i # Len(gets)
    <3>1. Len(gets) \in DOMAIN gets /\ ~(Len(gets) < i)
      BY <2>1, <2>3
    <3>2. f[Len(gets)] = gets[Len(gets)]
      BY <1>4, <3>1
    <3> QED
      BY <1>1, <1>5, <1>13, <1>14, <2>3, <3>2 DEF LastOf
  <2> QED
    BY <2>2, <2>3
<1> QED
  BY <1>1, <1>5, <1>9, <1>10, <1>11, <1>12, <1>13, <1>14

-----------------------------------------------------------------------------
(* Requests that are sent.                                                 *)

LEMMA Before ==
    ASSUME TypeOK
    PROVE  /\ query \in Query /\ query.stream \in BOOLEAN /\ query.stuck \in BOOLEAN
           /\ query.delay \in BOOLEAN
           /\ want \in Values /\ memo \in Values
           /\ shown \in [of: Values, seen: Nat] \cup {None}
           /\ loading \in BOOLEAN /\ timer \in BOOLEAN /\ acting \in BOOLEAN /\ orphaned \in BOOLEAN
           /\ rendered \in {"none", "runs", "ended"} /\ eclipsed \in BOOLEAN
           /\ gets \in Seq(Request)
           /\ due \in Values \cup {None}
           /\ job \in Nat /\ changes \in Nat
           /\ posts \in Seq({1, 2}) /\ posted \in {1, 2}
           /\ cause \in Causes \cup {None} /\ misreport \in Misreports \cup {None}
BY DEF TypeOK, Query

\* What is asked of the queries.
LEMMA QueryOK ==
    ASSUME query \in Queries
    PROVE  /\ query.stream => ~query.first /\ query.deps = {} /\ query.auto = "no"
           /\ query.auto = "ends" => query.spins # "each"
           /\ query.posts = "both" => query.auto = "ends"
BY QueriesAssumption

LEMMA SentOK ==
    ASSUME NEW w \in Values
    PROVE  Sent(w) \in Values /\ Sent(Sent(w)) = Sent(w) /\ Sent(w) # None
<1>1. Sent(w) \in Values
  BY DEF Sent, Values
<1>2. Sent(Sent(w)) = Sent(w)
  BY DEF Sent
<1> QED
  BY <1>1, <1>2, QueriesAssumption

LEMMA ReportedOK == \A n : Reported(n) \in {1, 2} /\ (Ended(n) => Reported(n) = 1)
BY DEF Reported

LEMMA AskOK ==
    ASSUME TypeOK, job' \in Nat, NEW gs \in Seq(Request), NEW w \in Values,
           NEW how \in {"loud", "quiet", "poll"}, NEW why \in Causes \cup {None}
    PROVE  /\ Ask(gs, w, how, why) \in Seq(Request) /\ Ask(gs, w, how, why) # <<>>
           /\ LastOf(Ask(gs, w, how, why)).of = Sent(w)
           /\ LastOf(Ask(gs, w, how, why)).since = job'
           /\ LastOf(Ask(gs, w, how, why)).excuse = why
           /\ how = "loud" => Loads(Ask(gs, w, how, why))
           /\ Loads(gs) /\ (query.stream => ~Running(gs)) => Loads(Ask(gs, w, how, why))
           /\ query.stream /\ Alone(gs) /\ ~Running(gs) => Alone(Ask(gs, w, how, why))
           /\ \A v : Timely(gs, v) /\ job' = 0 /\ (why = None => Sent(w) = Sent(v))
                     => Timely(Ask(gs, w, how, why), v)
<1> DEFINE a == IF query.stream THEN Abort(gs) ELSE gs
<1>1. PICK n : n = New(gs, w, how, why)
  OBVIOUS
<1> DEFINE f == Append(a, n)
<1>0. Ask(gs, w, how, why) = f
  BY <1>1 DEF Ask
<1> HIDE DEF a, f
<1>2. n \in Request /\ n.of = Sent(w) /\ n.since = job' /\ n.how = how /\ n.excuse = why
      /\ (query.stream /\ ~Running(gs) => n.held)
  <2>1. Sent(w) \in Values
    BY SentOK
  <2> QED
    BY <1>1, <2>1 DEF New, Request
<1>3. Part(gs, gs)
  BY Element, KinSelf DEF Part
<1> USE DEF a, f
<1>4. /\ Part(a, gs)
      /\ Loads(gs) /\ (query.stream => ~Running(gs)) => Loads(a)
      /\ query.stream /\ Alone(gs) => NoneSent(a)
  BY <1>3, AbortOK
<1>5. a \in Seq(Request)
  BY <1>4 DEF Part
<1> HIDE DEF a
<1>6. /\ f \in Seq(Request)
      /\ DOMAIN f = DOMAIN a \cup {Len(a) + 1} /\ Len(a) + 1 \notin DOMAIN a
      /\ \A j \in DOMAIN a : f[j] = a[j]
      /\ f[Len(a) + 1] = n
  BY <1>2, <1>5, AppendOK
<1>7. f # <<>> /\ LastOf(f) = n
  BY <1>2, <1>5, LastAppended
<1> HIDE DEF f
<1>8. how = "loud" => Loads(f)
  BY <1>2, <1>6 DEF Loads
<1>9. Loads(gs) /\ (query.stream => ~Running(gs)) => Loads(f)
  BY <1>4, <1>6 DEF Loads
<1>10. query.stream /\ Alone(gs) /\ ~Running(gs) => Alone(f)
  BY <1>2, <1>4, <1>6 DEF Alone, NoneSent
<1>11. ASSUME NEW v, Timely(gs, v), job' = 0, why = None => Sent(w) = Sent(v)
       PROVE  Timely(f, v)
  <2>1. Timely(a, v)
    BY <1>4, <1>11, TimelyLeft
  <2> QED
    BY <1>2, <1>6, <1>11, <2>1 DEF Timely
<1> QED
  BY <1>0, <1>2, <1>6, <1>7, <1>8, <1>9, <1>10, <1>11

LEMMA HowOK == How \in {"loud", "quiet", "poll"} /\ (Loud <=> How = "loud")
BY DEF How

-----------------------------------------------------------------------------
(* Types.                                                                  *)

LEMMA ShowTyped ==
    ASSUME Known, NEW to \in [of: Values, seen: Nat], NEW g \in Request, Show(to, g)
    PROVE  /\ shown' \in [of: Values, seen: Nat] \cup {None}
           /\ timer' \in BOOLEAN /\ (timer' => query.auto # "no")
           /\ cause' \in Causes \cup {None} /\ posts' \in Seq({1, 2})
           /\ rendered' = rendered /\ eclipsed' \in BOOLEAN
<1> USE Before DEF Known
<1>1. shown' = to /\ rendered' = rendered
  BY DEF Show
<1>2. timer' \in BOOLEAN /\ (timer' => query.auto # "no")
  BY DEF Show, Then, OnlyRuns
<1>3. g.excuse \in Causes \cup {None}
  BY DEF Request
<1>4. cause' \in Causes \cup {None}
  BY <1>3 DEF Show, Either
<1>5. Append(posts, Reported(to.seen)) \in Seq({1, 2})
  BY ReportedOK
<1>6. posts' \in {posts, Append(posts, Reported(to.seen))}
  BY DEF Show, Then
<1>7. eclipsed' \in BOOLEAN
  BY DEF Show, RenderDue
<1> QED
  BY <1>1, <1>2, <1>4, <1>5, <1>6, <1>7

LEMMA InitKnown == Init => Known
<1> SUFFICES ASSUME Init PROVE Known
  OBVIOUS
<1>1. query \in Queries /\ query \in Query
  BY QueriesAssumption DEF Init
<1>2. PICK v \in Vals : Start([i \in Inputs |-> IF i = "subject" /\ ~query.first THEN None ELSE v])
  BY DEF Init
<1> DEFINE w == [i \in Inputs |-> IF i = "subject" /\ ~query.first THEN None ELSE v]
<1>3. w \in Values
  BY DEF Values
<1> HIDE DEF w
<1>4. Start(w)
  BY <1>2 DEF w
<1>5. Sent(w) \in Values
  BY <1>3, SentOK
<1>6. job \in Nat /\ (~HasJob => job = 0)
  BY <1>4 DEF Start
<1> DEFINE g == [of |-> Sent(w), since |-> job, held |-> FALSE, stage |-> "sent",
                 how |-> IF query.spins = "never" THEN "quiet" ELSE "loud", excuse |-> None]
<1>7. g \in Request
  BY <1>5, <1>6 DEF Request
<1>8. gets = IF query.first /\ ~query.delay THEN <<g>> ELSE <<>>
  BY <1>4 DEF Start
<1> HIDE DEF g
<1>9. gets \in Seq(Request)
  BY <1>7, <1>8
<1>10. posts = <<>> /\ posted \in {1, 2}
  BY <1>4, ReportedOK DEF Start
<1>11. TypeOK
  <2>1. /\ want \in Values /\ memo \in Values /\ shown = None /\ loading \in BOOLEAN
        /\ rendered = "none" /\ eclipsed = FALSE
        /\ timer \in BOOLEAN /\ acting \in BOOLEAN /\ orphaned \in BOOLEAN
        /\ due \in Values \cup {None} /\ changes \in Nat
    BY <1>3, <1>4, <1>5 DEF Start
  <2>2. cause \in Causes \cup {None} /\ misreport \in Misreports \cup {None}
    BY <1>4 DEF Start, Misreports
  <2>3. posts \in Seq({1, 2})
    BY <1>10
  <2> QED
    BY <1>1, <1>6, <1>9, <1>10, <2>1, <2>2, <2>3 DEF TypeOK
<1>12. OnlyRuns
  BY <1>4, <1>6 DEF Start, OnlyRuns
<1> QED
  BY <1>1, <1>11, <1>12 DEF Known

LEMMA StreamsWait ==
    ASSUME Known, query.stream
    PROVE  ~timer /\ ~acting /\ ~HasJob /\ job = 0 /\ query.deps = {}
BY QueryOK DEF Known, OnlyRuns, HasJob

\* What the job does is what OnlyRuns speaks of.
LEMMA RunsOK ==
    ASSUME Known, query' = query, acting' => acting \/ query.auto \in {"ends", "run"},
           timer' => query.auto # "no", job' = job \/ HasJob
    PROVE  OnlyRuns'
BY DEF Known, OnlyRuns, HasJob

LEMMA ChangeKnown ==
    ASSUME Known, NEW i \in Inputs, NEW v \in Vals, Change(i, v)
    PROVE  Known'
<1> DEFINE w     == [want EXCEPT ![i] = v]
           wiped == i \in query.wipes
           kept  == IF wiped /\ query.stream THEN Abort(gets) ELSE gets
           asks  == i \in query.deps /\ Ready(w)
           left  == IF asks THEN kept ELSE Excuse(kept, w, "unasked")
<1> USE Before DEF Known
<1>1. w \in Values
  BY DEF Values
<1>2. kept \in Seq(Request)
  BY AbortOK DEF Part
<1>3. Excuse(kept, w, "unasked") \in Seq(Request)
  BY <1>2, ExcuseOK DEF Copy, Causes
<1>4. left \in Seq(Request)
  BY <1>2, <1>3
<1>5. /\ want' = w /\ UNCHANGED <<renderVars, query, job, acting, posts, posted, misreport, orphaned>>
      /\ memo' \in {memo, w} /\ timer' = (timer /\ ~wiped) /\ due' \in {Sent(w), due}
      /\ gets' = (IF asks /\ ~query.delay THEN Ask(left, w, How, None) ELSE left)
      /\ loading' = (IF wiped /\ query.stream THEN FALSE
                     ELSE loading \/ (asks /\ ~query.delay /\ Loud))
      /\ cause' \in {cause, "unasked"}
      /\ shown' \in {shown, None, [of |-> Sent(w), seen |-> 0]} /\ changes' = changes + 1
  BY DEF Change, Count
<1> HIDE DEF w, left, kept, wiped
<1>6. Sent(w) \in Values
  BY <1>1, SentOK
<1>7. Ask(left, w, How, None) \in Seq(Request)
  BY <1>1, <1>4, <1>5, AskOK, HowOK
<1>8. gets' \in Seq(Request)
  BY <1>4, <1>5, <1>7
<1>9. loading' \in BOOLEAN /\ timer' \in BOOLEAN /\ cause' \in Causes \cup {None}
  BY <1>5 DEF Causes
<1>10. TypeOK'
  <2>1. shown' \in [of: Values, seen: Nat] \cup {None} /\ due' \in Values \cup {None}
    BY <1>5, <1>6
  <2>2. want' \in Values /\ memo' \in Values /\ changes' \in Nat
    BY <1>1, <1>5
  <2> QED
    BY <1>5, <1>8, <1>9, <2>1, <2>2 DEF TypeOK, renderVars
<1>11. OnlyRuns'
  BY <1>5, RunsOK DEF OnlyRuns
<1> QED
  BY <1>5, <1>10, <1>11

\* The actions of the user, timers and the job.
LEMMA UserKnown ==
    ASSUME Known, PutAway \/ Press \/ Again \/ Due \/ Switch
    PROVE  Known'
<1> USE Before DEF Known
<1>1. CASE PutAway
  <2> DEFINE w == [want EXCEPT !["subject"] = None]
  <2>1. w \in Values /\ want' = w /\ gets' = Excuse(gets, w, "unstopped")
    BY <1>1 DEF PutAway, Values
  <2> HIDE DEF w
  <2>2. gets' \in Seq(Request)
    BY <2>1, ExcuseOK DEF Copy, Causes
  <2>3. TypeOK'
    <3>1. memo' = want' /\ shown' = None /\ changes' = changes + 1
      BY <1>1 DEF PutAway, Count
    <3>2. UNCHANGED <<renderVars, query, loading, due, timer, job, acting, posts, posted, cause, misreport,
                      orphaned>>
      BY <1>1 DEF PutAway
    <3> QED
      BY <2>1, <2>2, <3>1, <3>2 DEF TypeOK, renderVars
  <2>4. OnlyRuns'
    BY <1>1, RunsOK DEF PutAway, OnlyRuns
  <2> QED
    BY <1>1, <2>3, <2>4 DEF PutAway
<1>2. CASE Press
  <2> DEFINE w == IF query.memo THEN memo ELSE want
             y == IF w = want THEN None ELSE "closure"
  <2>1. w \in Values /\ y \in Causes \cup {None}
    BY DEF Causes
  <2>2. /\ gets' = Ask(gets, w, How, y) /\ job' = job /\ Asked
        /\ UNCHANGED <<renderVars, query, want, shown, memo, due, timer, job, acting, posts, posted,
                       changes, cause, misreport>>
    BY <1>2 DEF Press
  <2> HIDE DEF w, y
  <2>3. gets' \in Seq(Request)
    BY <2>1, <2>2, AskOK, HowOK
  <2>4. loading' \in BOOLEAN /\ orphaned' \in BOOLEAN
    BY <2>2 DEF Asked
  <2>5. TypeOK'
    BY <2>2, <2>3, <2>4 DEF TypeOK, renderVars
  <2>6. OnlyRuns'
    BY <2>2, RunsOK DEF OnlyRuns
  <2> QED
    BY <2>2, <2>5, <2>6
<1>3. CASE Again
  <2>1. gets' \in Seq(Request)
    BY <1>3, AbortOK DEF Again, Part
  <2>2. TypeOK'
    BY <1>3, <2>1, SentOK DEF TypeOK, renderVars, Again, Count
  <2>3. OnlyRuns'
    BY <1>3, RunsOK DEF Again, OnlyRuns
  <2> QED
    BY <1>3, <2>2, <2>3 DEF Again
<1>4. CASE Due
  <2> DEFINE y == IF due = Sent(want) THEN None ELSE "closure"
  <2>1. due \in Values /\ y \in Causes \cup {None}
    BY <1>4 DEF Causes, Due
  <2>2. /\ gets' = Ask(gets, due, How, y) /\ job' = job /\ Asked /\ due' = None
        /\ shown' \in {shown, None}
        /\ UNCHANGED <<renderVars, query, want, memo, timer, job, acting, posts, posted, changes, cause,
                       misreport>>
    BY <1>4 DEF Due
  <2> HIDE DEF y
  <2>3. gets' \in Seq(Request)
    BY <2>1, <2>2, AskOK, HowOK
  <2>4. loading' \in BOOLEAN /\ orphaned' \in BOOLEAN
    BY <2>2 DEF Asked
  <2>5. TypeOK'
    BY <2>2, <2>3, <2>4 DEF TypeOK, renderVars
  <2>6. OnlyRuns'
    BY <2>2, RunsOK DEF OnlyRuns
  <2> QED
    BY <2>2, <2>5, <2>6
<1>5. CASE Switch
  <2>1. TypeOK'
    BY <1>5 DEF TypeOK, renderVars, Switch, Count
  <2>2. OnlyRuns'
    BY <1>5, RunsOK DEF Switch
  <2> QED
    BY <1>5, <2>1, <2>2 DEF Switch
<1> QED
  BY <1>1, <1>2, <1>3, <1>4, <1>5

LEMMA JobKnown ==
    ASSUME Known, Tick \/ TimeLimit \/ Proceed \/ Act \/ Acted \/ Elsewhere \/ NotActed
    PROVE  Known'
<1> USE Before DEF Known
<1>1. CASE Tick
  <2> DEFINE how == IF query.auto = "ends" THEN "poll" ELSE How
  <2>1. how \in {"loud", "quiet", "poll"}
    BY HowOK
  <2>2. /\ gets' = Ask(gets, want, how, None) /\ loading' = (loading \/ Loud)
        /\ UNCHANGED <<renderVars, query, want, shown, memo, due, timer, job, acting, posts, posted, changes,
                       cause, misreport, orphaned>>
    BY <1>1 DEF Tick
  <2> HIDE DEF how
  <2>3. gets' \in Seq(Request)
    BY <2>1, <2>2, AskOK
  <2>4. TypeOK'
    BY <2>2, <2>3 DEF TypeOK, renderVars
  <2>5. OnlyRuns'
    BY <2>2, RunsOK DEF OnlyRuns
  <2> QED
    BY <2>2, <2>4, <2>5
<1>2. CASE TimeLimit
  <2>1. TypeOK'
    BY <1>2 DEF TypeOK, renderVars, TimeLimit, Causes
  <2>2. OnlyRuns'
    BY <1>2, RunsOK DEF TimeLimit
  <2> QED
    BY <1>2, <2>1, <2>2 DEF TimeLimit
<1>3. CASE Proceed
  <2>1. gets' = [i \in DOMAIN gets |-> [gets[i] EXCEPT !.excuse = Either(@, "unwatched")]]
    BY <1>3 DEF Proceed
  <2>2. Copy(gets', gets)
    BY <2>1, Unwatched
  <2>3. TypeOK'
    BY <1>3, <2>2 DEF TypeOK, renderVars, Proceed, Causes, Copy
  <2>4. OnlyRuns'
    BY <1>3, RunsOK DEF Proceed, OnlyRuns
  <2> QED
    BY <1>3, <2>3, <2>4 DEF Proceed
<1>4. CASE Act
  <2>1. TypeOK'
    BY <1>4 DEF TypeOK, renderVars, Act, Count
  <2>2. OnlyRuns'
    BY <1>4, RunsOK DEF Act, OnlyRuns
  <2> QED
    BY <1>4, <2>1, <2>2 DEF Act
<1>5. CASE Acted
  <2>1. /\ job' \in {job, job + 1} /\ query.auto \in {"ends", "run"} /\ acting' = FALSE
        /\ timer' = (timer \/ query.auto = "run")
        /\ gets' = Ask(gets, want, "quiet", None)
        /\ posts' \in {posts, Append(posts, Reported(job'))}
        /\ misreport' \in {misreport, "untold"}
        /\ UNCHANGED <<renderVars, query, want, shown, loading, memo, due, posted, changes, cause, orphaned>>
    BY <1>5 DEF Acted, OnlyRuns
  <2>2. gets' \in Seq(Request)
    BY <2>1, AskOK
  <2>3. posts' \in Seq({1, 2})
    BY <2>1, ReportedOK
  <2>4. job' \in Nat /\ timer' \in BOOLEAN /\ misreport' \in Misreports \cup {None}
    BY <2>1 DEF Misreports
  <2>5. TypeOK'
    BY <2>1, <2>2, <2>3, <2>4 DEF TypeOK, renderVars
  <2>6. OnlyRuns'
    BY <2>1, RunsOK DEF HasJob
  <2> QED
    BY <2>1, <2>5, <2>6
<1>6. CASE Elsewhere
  <2>1. Append(posts, 2) \in Seq({1, 2})
    OBVIOUS
  <2>2. TypeOK'
    BY <1>6, <2>1 DEF TypeOK, renderVars, Elsewhere, Misreports
  <2>3. OnlyRuns'
    BY <1>6, RunsOK DEF Elsewhere, OnlyRuns
  <2> QED
    BY <1>6, <2>2, <2>3 DEF Elsewhere
<1>7. CASE NotActed
  <2>1. TypeOK'
    BY <1>7 DEF TypeOK, renderVars, NotActed
  <2>2. OnlyRuns'
    BY <1>7, RunsOK DEF NotActed, OnlyRuns
  <2> QED
    BY <1>7, <2>1, <2>2 DEF NotActed
<1> QED
  BY <1>1, <1>2, <1>3, <1>4, <1>5, <1>6, <1>7

\* A stream whose stage changes is otherwise as it was.
Staged(f, gs, i, stage) == f = [gs EXCEPT ![i].stage = stage]

LEMMA StagedOK ==
    ASSUME NEW gs \in Seq(Request), NEW i \in DOMAIN gs, gs[i].stage = "sent",
           NEW stage \in {"reported", "empty"}, NEW f, Staged(f, gs, i, stage)
    PROVE  /\ f \in Seq(Request) /\ f # <<>>
           /\ Loads(gs) => Loads(f)
           /\ Alone(gs) => Alone(f)
           /\ \A w : Timely(gs, w) => Timely(f, w)
           /\ LastOf(f).of = LastOf(gs).of /\ LastOf(f).since = LastOf(gs).since
           /\ LastOf(f).excuse = LastOf(gs).excuse
<1>1. PICK g \in Request : g = gs[i]
  BY Element
<1>2. f = [gs EXCEPT ![i] = [g EXCEPT !.stage = stage]]
  BY <1>1 DEF Staged
<1> DEFINE h == [g EXCEPT !.stage = stage]
<1>3. /\ h \in Request /\ h.of = g.of /\ h.since = g.since /\ h.how = g.how
      /\ h.stage = stage /\ h.excuse = g.excuse
  BY DEF Request
<1>4. DOMAIN f = DOMAIN gs /\ f[i] = h /\ \A j \in DOMAIN gs \ {i} : f[j] = gs[j]
  BY <1>2
<1> HIDE DEF h
<1>5. Len(gs) \in Nat /\ DOMAIN gs = 1 .. Len(gs) /\ Len(gs) \in DOMAIN gs
  OBVIOUS
<1>6. f = [j \in 1 .. Len(gs) |-> f[j]] /\ \A j \in 1 .. Len(gs) : f[j] \in Request
  <2>1. f = [j \in DOMAIN gs |-> f[j]]
    BY <1>2
  <2>2. \A j \in DOMAIN gs : f[j] \in Request
    BY <1>3, <1>4, Element
  <2> QED
    BY <1>5, <2>1, <2>2
<1>7. f \in Seq(Request) /\ Len(f) = Len(gs)
  BY <1>5, <1>6
<1>8. f # <<>>
  <2> SUFFICES ASSUME f = <<>> PROVE FALSE
    OBVIOUS
  <2>1. Len(f) = 0
    OBVIOUS
  <2> QED
    BY <1>5, <1>7, <2>1
<1>9. Loads(gs) => Loads(f)
  BY <1>1, <1>3, <1>4 DEF Loads
<1>10. Alone(gs) => Alone(f)
  BY <1>3, <1>4 DEF Alone
<1>11. \A w : Timely(gs, w) => Timely(f, w)
  BY <1>1, <1>3, <1>4 DEF Timely
<1>12. LastOf(f).of = LastOf(gs).of /\ LastOf(f).since = LastOf(gs).since
       /\ LastOf(f).excuse = LastOf(gs).excuse
  BY <1>1, <1>3, <1>4, <1>5, <1>7 DEF LastOf
<1> QED
  BY <1>7, <1>8, <1>9, <1>10, <1>11, <1>12

LEMMA AnswerKnown ==
    ASSUME Known, NEW i \in DOMAIN gets, Answer(i) \/ Unanswered(i) \/ Stuck(i)
    PROVE  Known'
<1> USE Before DEF Known
<1> DEFINE g == gets[i]
<1>1. g \in Request /\ g.of \in Values /\ g.since \in Nat
  <2>1. g \in Request
    BY Element
  <2> HIDE DEF g
  <2> QED
    BY <2>1 DEF Request
<1>2. Rest(i) \in Seq(Request) /\ Drop(Rest(i)) \in Seq(Request)
  BY RestOK, DropOK DEF Part, Copy
<1>3. LoadingAfter(i) \in BOOLEAN
  BY DEF LoadingAfter
<1>4. ASSUME Finally(i) PROVE gets' \in Seq(Request) /\ loading' \in BOOLEAN /\ orphaned' \in BOOLEAN
  BY <1>2, <1>3, <1>4 DEF Finally
<1> HIDE DEF g
<1>5. CASE Answered(i)
  <2>1. PICK n \in g.since .. job : Show([of |-> g.of, seen |-> n], g)
    BY <1>5 DEF Answered, g
  <2>2. [of |-> g.of, seen |-> n] \in [of: Values, seen: Nat]
    BY <1>1
  <2>3. /\ shown' \in [of: Values, seen: Nat] \cup {None}
        /\ timer' \in BOOLEAN /\ (timer' => query.auto # "no")
        /\ cause' \in Causes \cup {None} /\ posts' \in Seq({1, 2})
        /\ rendered' = rendered /\ eclipsed' \in BOOLEAN
    BY <1>1, <2>1, <2>2, ShowTyped
  <2>4. TypeOK'
    BY <1>2, <1>3, <1>5, <2>3 DEF TypeOK, renderVars, Answered
  <2>5. OnlyRuns'
    BY <1>5, <2>3, RunsOK DEF Answered
  <2> QED
    BY <1>5, <2>4, <2>5 DEF Answered
<1>6. ASSUME \/ Show([of |-> g.of, seen |-> 0], g)
             \/ UNCHANGED <<renderVars, shown, timer, cause, posts>>
      PROVE  /\ shown' \in [of: Values, seen: Nat] \cup {None}
             /\ timer' \in BOOLEAN /\ (timer' => query.auto # "no")
             /\ cause' \in Causes \cup {None} /\ posts' \in Seq({1, 2})
             /\ rendered' = rendered /\ eclipsed' \in BOOLEAN
  <2>1. [of |-> g.of, seen |-> 0] \in [of: Values, seen: Nat]
    BY <1>1
  <2>2. CASE Show([of |-> g.of, seen |-> 0], g)
    BY <1>1, <2>1, <2>2, ShowTyped
  <2>3. CASE UNCHANGED <<renderVars, shown, timer, cause, posts>>
    BY <2>3 DEF OnlyRuns, renderVars
  <2> QED
    BY <1>6, <2>2, <2>3
<1>7. CASE Streamed(i)
  <2>1. gets' \in Seq(Request)
    <3>1. gets[i].stage = "sent"
      BY <1>7 DEF Streamed
    <3>2. PICK stage \in {"reported", "empty"} : Staged(gets', gets, i, stage)
      BY <1>7 DEF Streamed, Staged
    <3> QED
      BY <3>1, <3>2, StagedOK
  <2>2. \/ Show([of |-> g.of, seen |-> 0], g)
        \/ UNCHANGED <<renderVars, shown, timer, cause, posts>>
    BY <1>7 DEF Streamed, g
  <2>3. UNCHANGED <<query, want, loading, memo, due, job, acting, posted, changes,
                    misreport, orphaned>>
    BY <1>7 DEF Streamed
  <2>4. TypeOK'
    BY <1>6, <2>1, <2>2, <2>3 DEF TypeOK, renderVars
  <2>5. OnlyRuns'
    BY <1>6, <2>2, <2>3, RunsOK
  <2> QED
    BY <2>3, <2>4, <2>5
<1>8. CASE Finished(i)
  <2>1. \/ Show([of |-> g.of, seen |-> 0], g)
        \/ UNCHANGED <<renderVars, shown, timer, cause, posts>>
    BY <1>8 DEF Finished, g
  <2>2. /\ UNCHANGED <<query, want, memo, due, job, acting, posted, changes, misreport>>
        /\ Finally(i)
    BY <1>8 DEF Finished
  <2>3. TypeOK'
    BY <1>4, <1>6, <2>1, <2>2 DEF TypeOK, renderVars
  <2>4. OnlyRuns'
    BY <1>6, <2>1, <2>2, RunsOK
  <2> QED
    BY <2>2, <2>3, <2>4
<1>9. CASE Unanswered(i)
  <2>1. /\ UNCHANGED <<renderVars, query, want, memo, due, timer, job, acting, posts, posted, changes, misreport>>
        /\ Finally(i) /\ shown' \in {shown, None} /\ cause' = "failed"
    BY <1>9 DEF Unanswered
  <2>2. TypeOK'
    BY <1>4, <2>1 DEF TypeOK, renderVars, Causes
  <2>3. OnlyRuns'
    BY <2>1, RunsOK DEF OnlyRuns
  <2> QED
    BY <2>1, <2>2, <2>3
<1>10. CASE Stuck(i)
  <2>1. TypeOK'
    BY <1>2, <1>10 DEF TypeOK, renderVars, Stuck, Causes
  <2>2. OnlyRuns'
    BY <1>10, RunsOK DEF Stuck, OnlyRuns
  <2> QED
    BY <1>10, <2>1, <2>2 DEF Stuck
<1> QED
  BY <1>5, <1>7, <1>8, <1>9, <1>10 DEF Answer

LEMMA RenderedOK ==
    ASSUME Known, Render
    PROVE  /\ shown \in [of: Values, seen: Nat] /\ query.auto = "ends"
           /\ posts' = IF query.posts = "both" /\ Ended(shown.seen)
                       THEN Append(posts, 1) ELSE posts
           /\ rendered' = IF Ended(shown.seen) THEN "ended" ELSE "runs"
<1> USE Before DEF Known
<1>1. shown \in [of: Values, seen: Nat] /\ query.auto = "ends" /\ shown # None
  BY DEF Render, RenderDue
<1>2. posts' = IF query.posts = "both" /\ Ended(shown.seen)
               THEN Append(posts, Reported(shown.seen)) ELSE posts
  BY DEF Render, Rendered
<1>3. rendered' = IF Ended(shown.seen) THEN "ended" ELSE "runs"
  BY <1>1 DEF Render, Status
<1> QED
  BY <1>1, <1>2, <1>3, ReportedOK

LEMMA RenderKnown ==
    ASSUME Known, Render
    PROVE  Known'
<1> USE Before DEF Known
<1>1. posts' \in Seq({1, 2}) /\ rendered' \in {"runs", "ended"} /\ query.auto = "ends"
  <2>1. Append(posts, 1) \in Seq({1, 2})
    OBVIOUS
  <2> QED
    BY <2>1, RenderedOK
<1>2. timer' \in BOOLEAN /\ eclipsed' = FALSE
      /\ UNCHANGED <<query, want, shown, loading, gets, memo, due, job, acting, posted,
                     changes, cause, misreport, orphaned>>
  BY DEF Render, Ended
<1>3. TypeOK'
  BY <1>1, <1>2 DEF TypeOK
<1>4. OnlyRuns'
  BY <1>1, <1>2, RunsOK DEF OnlyRuns
<1> QED
  BY <1>2, <1>3, <1>4

LEMMA ReportKnown ==
    ASSUME Known, NEW i \in DOMAIN posts, Told(i) \/ Untold(i)
    PROVE  Known'
<1> USE Before DEF Known
<1>1. posts[i] \in {1, 2} /\ Without(posts, i) \in Seq({1, 2})
  BY Element, WithoutOK
<1>2. /\ posts' = Without(posts, i) /\ posted' \in {posted, posts[i]}
      /\ misreport' \in {"reordered", "lost", None, misreport}
      /\ UNCHANGED <<renderVars, query, want, shown, loading, gets, memo, due, timer, job, acting, changes, cause,
                     orphaned>>
  BY DEF Told, Untold
<1>3. TypeOK'
  BY <1>1, <1>2 DEF TypeOK, renderVars, Misreports
<1>4. OnlyRuns'
  BY <1>2, RunsOK DEF OnlyRuns
<1> QED
  BY <1>2, <1>3, <1>4

LEMMA KnownStep == Known /\ [Next]_vars => Known'
<1> SUFFICES ASSUME Known, [Next]_vars PROVE Known'
  OBVIOUS
<1>1. CASE UNCHANGED vars
  BY <1>1 DEF vars, renderVars, Known, TypeOK, OnlyRuns, HasJob
<1>2. CASE Next
  BY <1>2, ChangeKnown, UserKnown, JobKnown, RenderKnown, AnswerKnown, ReportKnown DEF Next
<1> QED
  BY <1>1, <1>2

-----------------------------------------------------------------------------
(* Reports.                                                                *)

LEMMA ReportsStay ==
    ASSUME ReportsDecide, UNCHANGED <<query, rendered, posts, posted, misreport>>
    PROVE  ReportsDecide'
BY DEF ReportsDecide

\* What is reported besides is an end, and the effect reports each that it finds.
LEMMA EndsReported ==
    ASSUME Known, ReportsDecide, UNCHANGED <<query, posted, misreport>>,
           posts' = posts \/ (query.posts = "both" /\ posts' = Append(posts, 1)),
           posts' = posts /\ query.posts = "both" => rendered' \in {rendered, "runs"}
    PROVE  ReportsDecide'
<1> USE Before DEF Known
<1> SUFFICES ASSUME misreport' = None PROVE ReportsDecide'
  BY DEF ReportsDecide
<1>1. CASE posts' = posts
  BY <1>1 DEF ReportsDecide
<1>2. CASE query.posts = "both" /\ posts' = Append(posts, 1)
  <2>1. \A i \in DOMAIN posts : posts[i] = 1
    BY <1>2 DEF ReportsDecide
  <2>2. \A i \in DOMAIN posts' : posts'[i] = 1
    BY <1>2, <2>1
  <2>3. posts' # <<>>
    <3>1. 1 \in {1, 2}
      OBVIOUS
    <3> QED
      BY <1>2, <3>1, LastAppended
  <2> QED
    BY <1>2, <2>2, <2>3 DEF ReportsDecide
<1> QED
  BY <1>1, <1>2

LEMMA ShowReports ==
    ASSUME Known, ReportsDecide, NEW to \in [of: Values, seen: Nat], NEW g, Show(to, g),
           UNCHANGED <<query, posted, misreport>>
    PROVE  ReportsDecide'
<1>1. /\ rendered' = rendered
      /\ \/ posts' = posts
         \/ /\ query.posts = "both" /\ Ended(to.seen)
            /\ posts' = Append(posts, Reported(to.seen))
  BY DEF Show, Then
<1> QED
  BY <1>1, ReportedOK, EndsReported

LEMMA RenderReports ==
    ASSUME Known, ReportsDecide, Render
    PROVE  ReportsDecide'
<1>1. UNCHANGED <<query, posted, misreport>>
  BY DEF Render
<1> QED
  BY <1>1, RenderedOK, EndsReported

LEMMA ToldReports ==
    ASSUME Known, ReportsDecide, NEW i \in DOMAIN posts, Told(i) \/ Untold(i)
    PROVE  ReportsDecide'
<1> USE Before DEF Known
<1>1. posts' = Without(posts, i) /\ UNCHANGED <<query, rendered>>
  BY DEF Told, Untold, renderVars
<1> SUFFICES ASSUME misreport' = None PROVE ReportsDecide'
  BY DEF ReportsDecide
<1>2. /\ posts' = <<>> /\ posted' = posts[i]
      /\ \/ /\ query.posts = "both" /\ shown # None /\ ~RenderDue
            /\ posted' = Reported(shown.seen)
         \/ misreport = None
  BY QueriesAssumption DEF Told, Untold, Misreports
<1>3. query.posts = "start" => misreport # None
  <2>1. posts # <<>>
    OBVIOUS
  <2> QED
    BY <2>1 DEF ReportsDecide
<1>4. query.posts # "start"
  BY <1>2, <1>3
<1>5. ASSUME query.posts = "both", rendered = "ended" PROVE posted' = 1
  <2>1. CASE misreport = None
    BY <1>2, <1>5, <2>1 DEF ReportsDecide
  <2>2. CASE shown # None /\ ~RenderDue /\ posted' = Reported(shown.seen)
    <3>1. Ended(shown.seen)
      BY <1>5, <2>2, QueryOK DEF RenderDue, Status
    <3> QED
      BY <2>2, <3>1, ReportedOK
  <2> QED
    BY <1>2, <2>1, <2>2
<1> QED
  BY <1>1, <1>2, <1>4, <1>5 DEF ReportsDecide

LEMMA ReportsStep ==
    ASSUME Known, ReportsDecide, [Next]_vars
    PROVE  ReportsDecide'
<1> USE Before DEF Known
<1>1. CASE UNCHANGED vars
  BY <1>1, ReportsStay DEF vars, renderVars
<1>2. ASSUME NEW i \in Inputs, NEW v \in Vals, Change(i, v) PROVE ReportsDecide'
  BY <1>2, ReportsStay DEF Change, renderVars
<1>3. CASE PutAway \/ Press \/ Again \/ Due \/ Switch
  BY <1>3, ReportsStay DEF PutAway, Press, Again, Due, Switch, renderVars
<1>4. CASE Tick \/ TimeLimit \/ Proceed \/ Act \/ NotActed
  BY <1>4, ReportsStay DEF Tick, TimeLimit, Proceed, Act, NotActed, renderVars
<1>5. CASE Acted
  <2>1. CASE query.posts = "start"
    BY <1>5, <2>1, QueriesAssumption DEF Acted, ReportsDecide, Misreports
  <2>2. CASE query.posts # "start"
    <3>1. UNCHANGED <<query, rendered, posts, posted, misreport>>
      BY <1>5, <2>2 DEF Acted, renderVars
    <3> QED
      BY <3>1, ReportsStay
  <2> QED
    BY <2>1, <2>2
<1>6. CASE Elsewhere
  BY <1>6, QueriesAssumption DEF Elsewhere, ReportsDecide, Misreports
<1>7. ASSUME NEW i \in DOMAIN gets, Answer(i) \/ Unanswered(i) \/ Stuck(i) PROVE ReportsDecide'
  <2> DEFINE g == gets[i]
  <2>1. g \in Request
    BY Element
  <2>2. UNCHANGED <<query, posted, misreport>>
    BY <1>7 DEF Answer, Answered, Streamed, Finished, Unanswered, Stuck
  <2>3. \/ \E n \in g.since .. job : Show([of |-> g.of, seen |-> n], g)
        \/ Show([of |-> g.of, seen |-> 0], g)
        \/ UNCHANGED <<posts, rendered>>
    BY <1>7 DEF Answer, Answered, Streamed, Finished, Unanswered, Stuck, renderVars
  <2> HIDE DEF g
  <2>4. g.of \in Values /\ g.since \in Nat
    BY <2>1 DEF Request
  <2>5. ASSUME NEW n \in Nat, Show([of |-> g.of, seen |-> n], g) PROVE ReportsDecide'
    <3>1. [of |-> g.of, seen |-> n] \in [of: Values, seen: Nat]
      BY <2>4
    <3> QED
      BY <2>2, <2>5, <3>1, ShowReports
  <2>6. CASE UNCHANGED <<posts, rendered>>
    BY <2>2, <2>6, ReportsStay
  <2>7. ASSUME NEW n \in g.since .. job PROVE n \in Nat
    BY <2>4
  <2>8. 0 \in Nat
    OBVIOUS
  <2> QED
    BY <2>3, <2>5, <2>6, <2>7, <2>8
<1>8. ASSUME NEW i \in DOMAIN posts, Told(i) \/ Untold(i) PROVE ReportsDecide'
  BY <1>8, ToldReports
<1>9. CASE Render
  BY <1>9, RenderReports
<1> QED
  BY <1>1, <1>2, <1>3, <1>4, <1>5, <1>6, <1>7, <1>8, <1>9 DEF Next

-----------------------------------------------------------------------------
(* Loading, and the one analysis.                                          *)

Spinning == LoadingHasRequest /\ AloneAndHeld

LEMMA SpinsOn ==
    ASSUME Spinning, query' = query, NEW gs, gets' = gs,
           loading' /\ ~query.stuck => \/ loading /\ (Loads(gets) => Loads(gs))
                                       \/ Loads(gs),
           query.stream /\ ~orphaned' => \/ ~orphaned /\ (Alone(gets) => Alone(gs))
                                         \/ Alone(gs)
    PROVE  Spinning'
BY DEF Spinning, LoadingHasRequest, AloneAndHeld, Loads, Alone

LEMMA SameSpins ==
    ASSUME Spinning, UNCHANGED <<query, gets, loading, orphaned>>
    PROVE  Spinning'
BY DEF Spinning, LoadingHasRequest, AloneAndHeld, Alone

LEMMA NoneSentAlone == \A gs : NoneSent(gs) => Alone(gs)
BY DEF NoneSent, Alone

\* A request sent by the button or a timeout.
LEMMA AskedSpins ==
    ASSUME Known, Spinning, NEW w \in Values, NEW why \in Causes \cup {None},
           gets' = Ask(gets, w, How, why), Asked, UNCHANGED <<query, job>>
    PROVE  Spinning'
<1> USE Before DEF Known
<1>1. PICK gs : gs = Ask(gets, w, How, why)
  OBVIOUS
<1>2. /\ How = "loud" => Loads(gs)
      /\ Loads(gets) /\ (query.stream => ~Running(gets)) => Loads(gs)
      /\ query.stream /\ Alone(gets) /\ ~Running(gets) => Alone(gs)
  BY <1>1, AskOK, HowOK
<1>3. /\ loading' => ~Running(gets) /\ (loading \/ Loud)
      /\ ~orphaned' => ~orphaned /\ ~Running(gets)
  BY DEF Asked
<1> QED
  BY <1>1, <1>2, <1>3, SpinsOn, HowOK

\* The end of a request's handler: all controllers are gone.
LEMMA FinallySpins ==
    ASSUME Known, Spinning, NEW i \in DOMAIN gets, Finally(i), query' = query
    PROVE  Spinning'
<1> USE Before DEF Known
<1>1. /\ Loads(gets) /\ gets[i].how # "loud" => Loads(Rest(i))
      /\ (\A j \in DOMAIN gets \ {i} : gets[j].stage # "sent") => NoneSent(Rest(i))
      /\ Rest(i) \in Seq(Request)
  BY RestOK DEF Part
<1>2. (Loads(Rest(i)) => Loads(Drop(Rest(i)))) /\ Part(Drop(Rest(i)), Rest(i))
  BY <1>1, DropOK, PartOfCopy
<1>3. PICK gs : gs = gets'
  OBVIOUS
<1>4. gs = IF query.stream THEN Drop(Rest(i)) ELSE Rest(i)
  BY <1>3 DEF Finally
<1>5. loading' => loading /\ gets[i].how # "loud"
  BY DEF Finally, LoadingAfter
<1>6. loading' => loading /\ (Loads(gets) => Loads(gs))
  BY <1>1, <1>2, <1>4, <1>5
<1>7. ASSUME query.stream, ~orphaned' PROVE Alone(gs)
  <2>1. ~orphaned /\ \A j \in DOMAIN gets : j # i => ~Goes(gets[j])
    BY <1>7 DEF Finally
  <2>2. Alone(gets)
    BY <1>7, <2>1 DEF Spinning, AloneAndHeld
  <2>3. \A j \in DOMAIN gets \ {i} : gets[j].stage # "sent"
    BY <2>1, <2>2 DEF Alone, Goes
  <2>4. NoneSent(gs)
    BY <1>1, <1>2, <1>4, <1>7, <2>3, NoneSentLeft
  <2> QED
    BY <2>4, NoneSentAlone
<1> QED
  BY <1>3, <1>6, <1>7, SpinsOn

LEMMA ExcuseAlone ==
    ASSUME NEW gs \in Seq(Request), NEW w, NEW why \in Causes, NEW f, f = Excuse(gs, w, why)
    PROVE  Copy(f, gs) /\ (Loads(f) <=> Loads(gs)) /\ (Alone(gs) => Alone(f))
<1>1. Copy(Excuse(gs, w, why), gs)
  BY ExcuseOK
<1>2. Loads(Excuse(gs, w, why)) <=> Loads(gs)
  BY ExcuseOK
<1>3. \A i \in DOMAIN gs :
         /\ gs[i].held => Excuse(gs, w, why)[i].held
         /\ Excuse(gs, w, why)[i].excuse = None => gs[i].of = Sent(w)
  BY ExcuseOK
<1>4. Copy(f, gs) /\ (Loads(f) <=> Loads(gs)) /\ \A i \in DOMAIN gs : gs[i].held => f[i].held
  BY <1>1, <1>2, <1>3
<1> QED
  BY <1>4 DEF Copy, Alone, Kin

LEMMA ChangeSpins ==
    ASSUME Known, Spinning, NEW i \in Inputs, NEW v \in Vals, Change(i, v)
    PROVE  Spinning'
<1> DEFINE w     == [want EXCEPT ![i] = v]
           wiped == i \in query.wipes
           kept  == IF wiped /\ query.stream THEN Abort(gets) ELSE gets
           asks  == i \in query.deps /\ Ready(w)
           left  == IF asks THEN kept ELSE Excuse(kept, w, "unasked")
<1> USE Before DEF Known
<1>1. w \in Values /\ "unasked" \in Causes
  BY DEF Values, Causes
<1>2. /\ UNCHANGED <<query, job, orphaned>>
      /\ gets' = (IF asks /\ ~query.delay THEN Ask(left, w, How, None) ELSE left)
      /\ loading' = (IF wiped /\ query.stream THEN FALSE
                     ELSE loading \/ (asks /\ ~query.delay /\ Loud))
  BY DEF Change
<1>3. query.stream => ~asks
  BY QueryOK
<1>4. Part(Abort(gets), gets) /\ (Alone(gets) => NoneSent(Abort(gets)))
  BY AbortOK
<1>5. /\ kept \in Seq(Request) /\ (Alone(gets) => Alone(kept))
      /\ ~(wiped /\ query.stream) => kept = gets
  BY <1>4, NoneSentAlone DEF Part
<1> HIDE DEF w, kept, asks, wiped
<1>6. /\ left \in Seq(Request) /\ (Loads(kept) => Loads(left)) /\ (Alone(kept) => Alone(left))
  <2>1. CASE asks
    BY <1>5, <2>1
  <2>2. CASE ~asks
    <3>1. PICK f : f = Excuse(kept, w, "unasked")
      OBVIOUS
    <3>2. Copy(f, kept) /\ (Loads(f) <=> Loads(kept)) /\ (Alone(kept) => Alone(f))
      BY <1>1, <1>5, <3>1, ExcuseAlone
    <3>3. left = f
      BY <2>2, <3>1 DEF left
    <3> QED
      BY <3>2, <3>3 DEF Copy
  <2> QED
    BY <2>1, <2>2
<1> HIDE DEF left
<1>7. PICK gs : gs = gets'
  OBVIOUS
<1>8. loading' => (loading /\ (Loads(gets) => Loads(gs))) \/ Loads(gs)
  <2>1. CASE asks /\ ~query.delay
    <3>1. gs = Ask(left, w, How, None) /\ ~query.stream
      BY <1>2, <1>3, <1>7, <2>1
    <3>2. (How = "loud" => Loads(gs)) /\ (Loads(left) => Loads(gs))
      BY <1>1, <1>2, <1>6, <3>1, AskOK, HowOK
    <3> QED
      BY <1>2, <1>5, <1>6, <3>1, <3>2, HowOK
  <2>2. CASE ~(asks /\ ~query.delay)
    BY <1>2, <1>5, <1>6, <1>7, <2>2
  <2> QED
    BY <2>1, <2>2
<1>9. query.stream => (Alone(gets) => Alone(gs))
  BY <1>2, <1>3, <1>5, <1>6, <1>7
<1> QED
  BY <1>2, <1>7, <1>8, <1>9, SpinsOn

LEMMA SpinningStep ==
    ASSUME Known, Spinning, [Next]_vars
    PROVE  Spinning'
<1> USE Before DEF Known
<1>1. CASE UNCHANGED vars
  BY <1>1, SameSpins DEF vars
<1>2. ASSUME NEW i \in Inputs, NEW v \in Vals, Change(i, v) PROVE Spinning'
  BY <1>2, ChangeSpins
<1>3. CASE PutAway
  <2> DEFINE w == [want EXCEPT !["subject"] = None]
  <2>1. /\ UNCHANGED <<query, loading, orphaned>> /\ "unstopped" \in Causes
        /\ gets' = Excuse(gets, w, "unstopped")
    BY <1>3 DEF PutAway, Causes
  <2> HIDE DEF w
  <2>2. PICK f : f = gets'
    OBVIOUS
  <2>3. (Loads(f) <=> Loads(gets)) /\ (Alone(gets) => Alone(f))
    BY <2>1, <2>2, ExcuseAlone
  <2> QED
    BY <2>1, <2>2, <2>3, SpinsOn
<1>4. CASE Press
  <2> DEFINE w == IF query.memo THEN memo ELSE want
             y == IF w = want THEN None ELSE "closure"
  <2>1. w \in Values /\ y \in Causes \cup {None}
    BY DEF Causes
  <2>2. gets' = Ask(gets, w, How, y) /\ Asked /\ UNCHANGED <<query, job>>
    BY <1>4 DEF Press
  <2> HIDE DEF w, y
  <2> QED
    BY <2>1, <2>2, AskedSpins
<1>5. CASE Again
  <2>1. gets' = Abort(gets) /\ ~loading' /\ UNCHANGED <<query, orphaned>>
    BY <1>5 DEF Again
  <2>2. Alone(gets) => Alone(Abort(gets))
    BY AbortOK, NoneSentAlone
  <2> QED
    BY <2>1, <2>2, SpinsOn
<1>6. CASE Due
  <2> DEFINE y == IF due = Sent(want) THEN None ELSE "closure"
  <2>1. due \in Values /\ y \in Causes \cup {None}
    BY <1>6 DEF Causes, Due
  <2>2. gets' = Ask(gets, due, How, y) /\ Asked /\ UNCHANGED <<query, job>>
    BY <1>6 DEF Due
  <2> HIDE DEF y
  <2> QED
    BY <2>1, <2>2, AskedSpins
<1>7. CASE Switch \/ TimeLimit \/ Act \/ Elsewhere \/ NotActed \/ Render
  BY <1>7, SameSpins DEF Switch, TimeLimit, Act, Elsewhere, NotActed, Render
<1>8. CASE Tick
  <2> DEFINE how == IF query.auto = "ends" THEN "poll" ELSE How
  <2>1. how \in {"loud", "quiet", "poll"} /\ (Loud => how = "loud")
    BY HowOK, QueryOK DEF Loud
  <2>2. /\ gets' = Ask(gets, want, how, None) /\ (loading' <=> loading \/ Loud)
        /\ UNCHANGED <<query, job, orphaned>> /\ ~query.stream
    BY <1>8, StreamsWait DEF Tick
  <2> HIDE DEF how
  <2>3. PICK gs : gs = gets'
    OBVIOUS
  <2>4. (how = "loud" => Loads(gs)) /\ (Loads(gets) => Loads(gs))
    BY <2>1, <2>2, <2>3, AskOK
  <2> QED
    BY <2>1, <2>2, <2>3, <2>4, SpinsOn
<1>9. CASE Proceed
  <2>1. gets' = [i \in DOMAIN gets |-> [gets[i] EXCEPT !.excuse = Either(@, "unwatched")]]
        /\ UNCHANGED <<query, loading, orphaned>> /\ ~query.stream
    BY <1>9, StreamsWait DEF Proceed
  <2>2. PICK gs : gs = gets'
    OBVIOUS
  <2>3. Loads(gs) <=> Loads(gets)
    BY <2>1, <2>2, Unwatched
  <2> QED
    BY <2>1, <2>2, <2>3, SpinsOn
<1>10. CASE Acted
  <2>1. /\ job' \in {job, job + 1} /\ gets' = Ask(gets, want, "quiet", None)
        /\ UNCHANGED <<query, loading, orphaned>> /\ ~query.stream
    BY <1>10, StreamsWait DEF Acted
  <2>2. PICK gs : gs = gets'
    OBVIOUS
  <2>3. job' \in Nat
    BY <2>1
  <2>4. Loads(gets) => Loads(gs)
    BY <2>1, <2>2, <2>3, AskOK
  <2> QED
    BY <2>1, <2>2, <2>4, SpinsOn
<1>11. ASSUME NEW i \in DOMAIN gets, Answer(i) \/ Unanswered(i) \/ Stuck(i) PROVE Spinning'
  <2>1. (Loads(gets) /\ gets[i].how # "loud" => Loads(Rest(i))) /\ (Alone(gets) => Alone(Rest(i)))
    BY RestOK
  <2>2. CASE Answered(i)
    <3>1. gets' = Rest(i) /\ query' = query /\ ~query.stream
          /\ (loading' => loading /\ gets[i].how # "loud")
      BY <2>2 DEF Answered, LoadingAfter
    <3> QED
      BY <2>1, <3>1, SpinsOn
  <2>3. CASE Streamed(i)
    <3>1. gets[i].stage = "sent" /\ UNCHANGED <<query, loading, orphaned>>
      BY <2>3 DEF Streamed
    <3>2. PICK stage \in {"reported", "empty"} : Staged(gets', gets, i, stage)
      BY <2>3 DEF Streamed, Staged
    <3>3. PICK gs : gs = gets'
      OBVIOUS
    <3>4. Staged(gs, gets, i, stage)
      BY <3>2, <3>3
    <3>5. (Loads(gets) => Loads(gs)) /\ (Alone(gets) => Alone(gs))
      BY <3>1, <3>4, StagedOK
    <3> QED
      BY <3>1, <3>3, <3>5, SpinsOn
  <2>4. CASE Finished(i) \/ Unanswered(i)
    BY <2>4, FinallySpins DEF Finished, Unanswered
  <2>5. CASE Stuck(i)
    <3>1. gets' = Rest(i) /\ query' = query /\ query.stuck /\ orphaned' = orphaned
      BY <2>5 DEF Stuck
    <3> QED
      BY <2>1, <3>1, SpinsOn
  <2> QED
    BY <1>11, <2>2, <2>3, <2>4, <2>5 DEF Answer
<1>12. ASSUME NEW i \in DOMAIN posts, Told(i) \/ Untold(i) PROVE Spinning'
  BY <1>12, SameSpins DEF Told, Untold
<1> QED
  BY <1>1, <1>2, <1>3, <1>4, <1>5, <1>6, <1>7, <1>8, <1>9, <1>10, <1>11, <1>12 DEF Next

-----------------------------------------------------------------------------
(* What will be shown.                                                     *)

\* The three parts of Decided for the requests gs and the values w of the next state.
LastFits(gs, w) ==
    gs # <<>> /\ LastOf(gs).excuse = None =>
        LastOf(gs).since = job' /\ (due' = None => LastOf(gs).of = Sent(w))

StreamFits(gs, w) ==
    query.stream =>
        /\ Timely(gs, w)
        /\ shown' # None /\ cause' = None => shown'.of = Sent(w) /\ shown'.seen = 0

ShownFits(gs, w) ==
    gs = <<>> /\ due' = None /\ shown' # None /\ cause' = None =>
        shown'.of = Sent(w) /\ (shown'.seen = job' \/ (timer' /\ HasJob /\ ~RenderDue'))

LEMMA Fits ==
    ASSUME NEW gs, NEW w, gets' = gs, want' = w, query' = query,
           LastFits(gs, w), StreamFits(gs, w), ShownFits(gs, w)
    PROVE  Decided'
<1>1. LastDecides'
  BY DEF LastFits, LastDecides, LastOf, Sent
<1>2. StreamDecides'
  BY DEF StreamFits, StreamDecides, Timely, Sent
<1>3. ShownDecides'
  BY DEF ShownFits, ShownDecides, Sent, HasJob
<1> QED
  BY <1>1, <1>2, <1>3 DEF Decided

\* Nothing is asked for or answered, and no watch ends without a reason.
LEMMA StaysDecided ==
    ASSUME Known, Decided, UNCHANGED <<query, gets, want, job, due>>, shown' \in {shown, None},
           cause' = cause \/ cause' # None,
           timer /\ HasJob /\ ~RenderDue /\ cause' = None => timer' /\ rendered' = rendered
    PROVE  Decided'
<1>1. LastFits(gets, want)
  BY DEF LastFits, Decided, LastDecides
<1>2. StreamFits(gets, want)
  BY DEF StreamFits, Decided, StreamDecides
<1>3. ShownFits(gets, want)
  <2>1. shown' = shown /\ rendered' = rendered => RenderDue' = RenderDue
    BY DEF RenderDue, Status
  <2> QED
    BY <2>1 DEF ShownFits, Decided, ShownDecides
<1> QED
  BY <1>1, <1>2, <1>3, Fits

\* A request is sent for the present values, or with a reason.
LEMMA AskDecides ==
    ASSUME Known, query' = query, job' \in Nat, NEW gs \in Seq(Request), NEW w \in Values,
           NEW how \in {"loud", "quiet", "poll"}, NEW why \in Causes \cup {None}, NEW v,
           gets' = Ask(gs, w, how, why), want' = v, why = None => Sent(w) = Sent(v),
           query.stream => Timely(gs, v) /\ job' = 0 /\ shown' = None
    PROVE  Decided'
<1>1. PICK fs : fs = gets'
  OBVIOUS
<1>2. TypeOK
  BY DEF Known
<1>3. /\ fs # <<>> /\ LastOf(fs).of = Sent(w) /\ LastOf(fs).since = job' /\ LastOf(fs).excuse = why
      /\ query.stream => Timely(fs, v)
  BY <1>1, <1>2, AskOK
<1>4. LastFits(fs, v) /\ StreamFits(fs, v) /\ ShownFits(fs, v)
  BY <1>3 DEF LastFits, StreamFits, ShownFits
<1> QED
  BY <1>1, <1>4, Fits

\* All requests in flight get a reason, unless they ask for what is asked for now.
LEMMA ExcuseDecides ==
    ASSUME Known, Decided, NEW gs \in Seq(Request), gs = gets \/ (query.stream /\ Part(gs, gets)),
           NEW w, NEW why \in Causes, gets' = Excuse(gs, w, why), want' = w,
           UNCHANGED <<query, job>>, shown' = None \/ cause' # None
    PROVE  Decided'
<1> USE Before DEF Known
<1>1. PICK fs : fs = gets'
  OBVIOUS
<1>2. /\ Copy(fs, gs) /\ (fs = <<>> <=> gs = <<>>)
      /\ gs # <<>> => Kin(LastOf(fs), LastOf(gs))
      /\ \A i \in DOMAIN gs : fs[i].excuse = None => gs[i].of = Sent(w)
      /\ gs # <<>> /\ LastOf(fs).excuse = None => LastOf(fs).of = Sent(w)
  <2>1. fs = Excuse(gs, w, why)
    BY <1>1
  <2> HIDE <1>1
  <2> QED
    BY <2>1, ExcuseOK
<1>3. query.stream => job = 0 /\ Timely(gs, want)
  BY StreamsWait, TimelyLeft DEF Decided, StreamDecides
<1>4. query.stream => Timely(fs, w)
  BY <1>2, <1>3 DEF Timely, Copy, Kin
<1>5. LastFits(fs, w)
  <2> SUFFICES ASSUME fs # <<>>, LastOf(fs).excuse = None PROVE LastOf(fs).since = job
    BY <1>2 DEF LastFits
  <2>1. gs # <<>> /\ LastOf(fs).since = LastOf(gs).since /\ LastOf(gs).excuse = None
    BY <1>2 DEF Kin
  <2>2. CASE gs = gets
    BY <2>1, <2>2 DEF Decided, LastDecides
  <2>3. CASE query.stream
    <3>1. Len(gs) \in DOMAIN gs
      BY <2>1
    <3> QED
      BY <1>3, <2>1, <2>3, <3>1 DEF Timely, LastOf
  <2> QED
    BY <2>2, <2>3
<1>6. StreamFits(fs, w) /\ ShownFits(fs, w)
  BY <1>4 DEF StreamFits, ShownFits
<1> QED
  BY <1>1, <1>5, <1>6, Fits

LEMMA ChangeDecides ==
    ASSUME Known, Decided, NEW i \in Inputs, NEW v \in Vals, Change(i, v)
    PROVE  Decided'
<1> DEFINE w     == [want EXCEPT ![i] = v]
           wiped == i \in query.wipes
           kept  == IF wiped /\ query.stream THEN Abort(gets) ELSE gets
           asks  == i \in query.deps /\ Ready(w)
           left  == IF asks THEN kept ELSE Excuse(kept, w, "unasked")
<1> USE Before DEF Known
<1>1. w \in Values /\ "unasked" \in Causes
  BY DEF Values, Causes
<1>2. /\ UNCHANGED <<query, job>> /\ want' = w
      /\ gets' = (IF asks /\ ~query.delay THEN Ask(left, w, How, None) ELSE left)
      /\ asks /\ query.delay => due' = Sent(w)
      /\ ~asks => cause' = "unasked"
  BY DEF Change
<1>3. query.stream => ~asks
  BY QueryOK
<1>4. Part(Abort(gets), gets)
  BY AbortOK
<1>5. kept \in Seq(Request) /\ (kept = gets \/ (query.stream /\ Part(kept, gets)))
      /\ (~query.stream => kept = gets)
  BY <1>4 DEF Part
<1> HIDE DEF w, kept, asks, wiped
<1>6. CASE asks /\ ~query.delay
  <2>1. gets' = Ask(gets, w, How, None) /\ ~query.stream
    BY <1>2, <1>3, <1>5, <1>6
  <2> QED
    BY <1>1, <1>2, <2>1, AskDecides, HowOK
<1>7. CASE asks /\ query.delay
  <2>1. gets' = gets /\ ~query.stream /\ due' # None
    BY <1>1, <1>2, <1>3, <1>5, <1>7, SentOK
  <2>2. LastFits(gets, w) /\ StreamFits(gets, w) /\ ShownFits(gets, w)
    BY <1>2, <2>1 DEF LastFits, StreamFits, ShownFits, Decided, LastDecides
  <2> QED
    BY <1>2, <2>1, <2>2, Fits
<1>8. CASE ~asks
  <2>1. gets' = Excuse(kept, w, "unasked") /\ cause' # None
    BY <1>1, <1>2, <1>8, QueriesAssumption
  <2> QED
    BY <1>1, <1>2, <1>5, <2>1, ExcuseDecides
<1> QED
  BY <1>6, <1>7, <1>8

LEMMA UserDecides ==
    ASSUME Known, Decided, PutAway \/ Press \/ Again \/ Due \/ Switch
    PROVE  Decided'
<1> USE Before DEF Known
<1>1. query.stream => job = 0 /\ Timely(gets, want)
  BY StreamsWait DEF Decided, StreamDecides
<1>2. CASE PutAway
  <2> DEFINE w == [want EXCEPT !["subject"] = None]
  <2>1. /\ gets' = Excuse(gets, w, "unstopped") /\ want' = w /\ UNCHANGED <<query, job>>
        /\ shown' = None /\ "unstopped" \in Causes
    BY <1>2 DEF PutAway, Causes
  <2> HIDE DEF w
  <2> QED
    BY <2>1, ExcuseDecides
<1>3. CASE Press
  <2> DEFINE w == IF query.memo THEN memo ELSE want
             y == IF w = want THEN None ELSE "closure"
  <2>1. w \in Values /\ y \in Causes \cup {None} /\ (y = None => w = want)
    BY QueriesAssumption DEF Causes
  <2>2. /\ gets' = Ask(gets, w, How, y) /\ UNCHANGED <<query, job, want>>
        /\ query.stream => shown' = None
    BY <1>3 DEF Press
  <2> HIDE DEF w, y
  <2> QED
    BY <1>1, <2>1, <2>2, AskDecides, HowOK
<1>4. CASE Again
  <2>1. /\ gets' = Abort(gets) /\ UNCHANGED <<query, job, want>> /\ shown' = None
        /\ due' = Sent(want) /\ query.stream
    BY <1>4 DEF Again
  <2>2. PICK gs : gs = gets'
    OBVIOUS
  <2>3. Part(gs, gets)
    BY <2>1, <2>2, AbortOK
  <2>4. Timely(gs, want)
    BY <1>1, <2>1, <2>3, TimelyLeft
  <2>5. gs # <<>> => Len(gs) \in DOMAIN gs
    BY <2>3 DEF Part
  <2>6. LastFits(gs, want)
    BY <1>1, <2>1, <2>4, <2>5, SentOK DEF LastFits, Timely, LastOf
  <2>7. StreamFits(gs, want) /\ ShownFits(gs, want)
    BY <2>1, <2>4 DEF StreamFits, ShownFits
  <2> QED
    BY <2>1, <2>2, <2>6, <2>7, Fits
<1>5. CASE Due
  <2> DEFINE y == IF due = Sent(want) THEN None ELSE "closure"
  <2>1. due \in Values /\ y \in Causes \cup {None} /\ (y = None => due = Sent(want))
    BY <1>5, QueriesAssumption DEF Causes, Due
  <2>2. /\ gets' = Ask(gets, due, How, y) /\ UNCHANGED <<query, job, want>>
        /\ query.stream => shown' = None
    BY <1>5 DEF Due
  <2> HIDE DEF y
  <2>3. y = None => Sent(due) = Sent(want)
    BY <2>1, SentOK
  <2> QED
    BY <1>1, <2>1, <2>2, <2>3, AskDecides, HowOK
<1>6. CASE Switch
  <2>1. UNCHANGED <<query, gets, want, job, due, shown, cause>> /\ ~HasJob
    BY <1>6 DEF Switch, HasJob
  <2> QED
    BY <2>1, StaysDecided
<1> QED
  BY <1>2, <1>3, <1>4, <1>5, <1>6

LEMMA JobDecides ==
    ASSUME Known, Decided, Tick \/ TimeLimit \/ Proceed \/ Act \/ Acted \/ Elsewhere \/ NotActed
    PROVE  Decided'
<1> USE Before DEF Known
<1>1. CASE Tick
  <2> DEFINE how == IF query.auto = "ends" THEN "poll" ELSE How
  <2>1. how \in {"loud", "quiet", "poll"}
    BY HowOK
  <2>2. gets' = Ask(gets, want, how, None) /\ UNCHANGED <<query, job, want>> /\ ~query.stream
    BY <1>1, StreamsWait DEF Tick
  <2> HIDE DEF how
  <2> QED
    BY <2>1, <2>2, AskDecides
<1>2. CASE TimeLimit
  <2>1. UNCHANGED <<query, gets, want, job, due, shown>> /\ cause' # None
    BY <1>2, QueriesAssumption DEF TimeLimit, Causes
  <2> QED
    BY <2>1, StaysDecided
<1>3. CASE Proceed
  <2>1. /\ gets' = [i \in DOMAIN gets |-> [gets[i] EXCEPT !.excuse = Either(@, "unwatched")]]
        /\ UNCHANGED <<query, want, shown, due, timer>> /\ ~query.stream /\ HasJob
        /\ cause' = (IF timer /\ ~RenderDue THEN cause ELSE "unwatched") /\ rendered' = rendered
    BY <1>3, StreamsWait DEF Proceed, renderVars
  <2>2. PICK gs : gs = gets'
    OBVIOUS
  <2>3. (gs = <<>> <=> gets = <<>>) /\ (gs # <<>> => LastOf(gs).excuse # None)
    BY <2>1, <2>2, Unwatched
  <2>4. "unwatched" # None
    BY QueriesAssumption DEF Causes
  <2>5. LastFits(gs, want) /\ StreamFits(gs, want)
    BY <2>1, <2>3 DEF LastFits, StreamFits
  <2>6. ShownFits(gs, want)
    <3>1. RenderDue' = RenderDue
      BY <2>1 DEF RenderDue, Status
    <3> QED
      BY <2>1, <2>3, <2>4, <3>1 DEF ShownFits, Decided, ShownDecides
  <2> QED
    BY <2>1, <2>2, <2>5, <2>6, Fits
<1>4. CASE Act \/ Elsewhere \/ NotActed
  <2>1. UNCHANGED <<query, gets, want, job, due, shown, cause, timer, rendered>>
    BY <1>4 DEF Act, Elsewhere, NotActed, renderVars
  <2> QED
    BY <2>1, StaysDecided
<1>5. CASE Acted
  <2>1. /\ job' \in {job, job + 1} /\ gets' = Ask(gets, want, "quiet", None)
        /\ UNCHANGED <<query, want>> /\ ~query.stream
    BY <1>5, StreamsWait DEF Acted
  <2>2. job' \in Nat
    BY <2>1
  <2> QED
    BY <2>1, <2>2, AskDecides
<1> QED
  BY <1>1, <1>2, <1>3, <1>4, <1>5

\* A request is gone, and what is shown is the same or nothing, with a reason.
LEMMA LastLeft ==
    ASSUME Known, Decided, NEW i \in DOMAIN gets, NEW gs,
           gs \in {Rest(i), Drop(Rest(i))}, UNCHANGED <<query, want, due, job>>
    PROVE  LastFits(gs, want) /\ (query.stream => Timely(gs, want))
           /\ (gs = <<>> => Len(gets) = 1 /\ i = 1)
<1> USE Before DEF Known
<1>1. PICK r : r = Rest(i)
  OBVIOUS
<1>2. /\ Part(r, gets) /\ r \in Seq(Request)
      /\ r = <<>> => Len(gets) = 1 /\ i = 1
      /\ r # <<>> /\ LastOf(r).excuse = None => LastOf(r) = LastOf(gets)
  BY <1>1, RestOK DEF Part
<1>3. /\ Part(gs, r) /\ (gs = <<>> <=> r = <<>>)
      /\ r # <<>> => Kin(LastOf(gs), LastOf(r)) \/ gs = r
  BY <1>1, <1>2, DropOK, PartOfCopy, Element, KinSelf DEF Part
<1>4. query.stream => Timely(gs, want)
  BY <1>2, <1>3, TimelyLeft DEF Decided, StreamDecides
<1>5. gets # <<>>
  OBVIOUS
<1>6. LastFits(gs, want)
  BY <1>2, <1>3, <1>5 DEF LastFits, Kin, Decided, LastDecides
<1> QED
  BY <1>2, <1>3, <1>4, <1>6

LEMMA AnswerDecides ==
    ASSUME Known, Decided, NEW i \in DOMAIN gets, Answer(i) \/ Unanswered(i) \/ Stuck(i)
    PROVE  Decided'
<1> USE Before DEF Known
<1>1. PICK g \in Request : g = gets[i]
  BY Element
<1>2. g.of \in Values /\ g.since \in Nat /\ g.excuse \in Causes \cup {None}
  BY <1>1 DEF Request
<1>3. query.stream => job = 0 /\ g.since = 0 /\ (g.excuse = None => g.of = Sent(want))
  BY <1>1, StreamsWait DEF Decided, StreamDecides, Timely
<1>4. Rest(i) \in Seq(Request)
  BY RestOK DEF Part
<1>5. PICK gs : gs = gets'
  OBVIOUS
\* What is shown in a stream's end is what is asked for, or not without a reason.
<1>6. ASSUME query.stream, UNCHANGED <<query, want, job>>,
             \/ Show([of |-> g.of, seen |-> 0], g)
             \/ UNCHANGED <<renderVars, shown, timer, cause, posts>>,
             shown' # None, cause' = None
      PROVE  shown'.of = Sent(want) /\ shown'.seen = 0
  <2>1. CASE Show([of |-> g.of, seen |-> 0], g)
    <3>1. shown' = [of |-> g.of, seen |-> 0]
          /\ (g.of = Sent(want) \/ Either(g.excuse, cause) = None)
      BY <1>6, <2>1 DEF Show
    <3> QED
      BY <1>3, <1>6, <3>1 DEF Either
  <2>2. CASE UNCHANGED <<renderVars, shown, timer, cause, posts>>
    BY <1>6, <2>2 DEF Decided, StreamDecides
  <2> QED
    BY <1>6, <2>1, <2>2
<1>7. CASE Answered(i)
  <2>1. PICK n \in g.since .. job : Show([of |-> g.of, seen |-> n], g)
    BY <1>1, <1>7 DEF Answered
  <2>2. /\ gs = Rest(i) /\ UNCHANGED <<query, want, due, job>> /\ ~query.stream
        /\ shown' = [of |-> g.of, seen |-> n]
        /\ cause' = IF g.of = Sent(want) /\ n = job THEN None ELSE Either(g.excuse, cause)
    BY <1>5, <1>7, <2>1 DEF Answered, Show
  <2>3. LastFits(gs, want) /\ (gs = <<>> => Len(gets) = 1 /\ i = 1)
    BY <2>2, LastLeft
  <2>4. ShownFits(gs, want)
    <3> SUFFICES ASSUME gs = <<>>, due = None, cause' = None
                 PROVE  g.of = Sent(want) /\ n = job
      BY <2>2 DEF ShownFits
    <3>1. Len(gets) = 1 /\ i = 1
      BY <2>3
    <3>2. gets # <<>>
      OBVIOUS
    <3>3. LastOf(gets) = g
      BY <1>1, <3>1 DEF LastOf
    <3>4. g.excuse = None => g.since = job /\ g.of = Sent(want)
      BY <2>2, <3>3, <3>2 DEF Decided, LastDecides
    <3>5. g.since = job => n = job
      BY <1>2, <2>1
    <3> QED
      BY <2>2, <3>4, <3>5 DEF Either
  <2> QED
    BY <1>5, <2>2, <2>3, <2>4, Fits DEF StreamFits
<1>8. CASE Streamed(i)
  <2>1. /\ query.stream /\ gets[i].stage = "sent" /\ UNCHANGED <<query, want, due, job>>
        /\ \/ Show([of |-> g.of, seen |-> 0], g)
           \/ UNCHANGED <<renderVars, shown, timer, cause, posts>>
    BY <1>1, <1>8 DEF Streamed
  <2>2. PICK stage \in {"reported", "empty"} : Staged(gets', gets, i, stage)
    BY <1>8 DEF Streamed, Staged
  <2>3. /\ gs # <<>> /\ (\A w : Timely(gets, w) => Timely(gs, w))
        /\ LastOf(gs).of = LastOf(gets).of
        /\ LastOf(gs).since = LastOf(gets).since
        /\ LastOf(gs).excuse = LastOf(gets).excuse
    <3>1. Staged(gs, gets, i, stage) /\ gets[i].stage = "sent"
      BY <1>5, <2>1, <2>2
    <3> QED
      BY <3>1, StagedOK
  <2>4. gets # <<>>
    OBVIOUS
  <2>5. LastFits(gs, want) /\ ShownFits(gs, want)
    BY <2>1, <2>3, <2>4 DEF LastFits, ShownFits, Decided, LastDecides
  <2>6. StreamFits(gs, want)
    BY <1>6, <2>1, <2>3 DEF StreamFits, Decided, StreamDecides
  <2> QED
    BY <1>5, <2>1, <2>5, <2>6, Fits
<1>9. CASE Finished(i)
  <2>1. /\ query.stream /\ UNCHANGED <<query, want, due, job>> /\ gs = Drop(Rest(i))
        /\ \/ Show([of |-> g.of, seen |-> 0], g)
           \/ UNCHANGED <<renderVars, shown, timer, cause, posts>>
    BY <1>1, <1>5, <1>9 DEF Finished, Finally
  <2>2. LastFits(gs, want) /\ Timely(gs, want)
    BY <2>1, LastLeft
  <2>3. StreamFits(gs, want)
    BY <1>6, <2>1, <2>2 DEF StreamFits
  <2>4. ShownFits(gs, want)
    BY <1>3, <1>6, <2>1 DEF ShownFits
  <2> QED
    BY <1>5, <2>1, <2>2, <2>3, <2>4, Fits
<1>10. CASE Unanswered(i) \/ Stuck(i)
  <2>1. UNCHANGED <<query, want, due, job>> /\ gs \in {Rest(i), Drop(Rest(i))} /\ cause' # None
    BY <1>5, <1>10, QueriesAssumption DEF Unanswered, Stuck, Finally, Causes
  <2>2. LastFits(gs, want) /\ (query.stream => Timely(gs, want))
    BY <2>1, LastLeft
  <2> QED
    BY <1>5, <2>1, <2>2, Fits DEF StreamFits, ShownFits
<1> QED
  BY <1>7, <1>8, <1>9, <1>10 DEF Answer

LEMMA DecidedStep ==
    ASSUME Known, Decided, [Next]_vars
    PROVE  Decided'
<1>1. CASE UNCHANGED vars
  BY <1>1, StaysDecided DEF vars, renderVars
<1>2. ASSUME NEW i \in DOMAIN posts, Told(i) \/ Untold(i) PROVE Decided'
  <2>1. UNCHANGED <<query, gets, want, job, due, shown, cause, timer, rendered>>
    BY <1>2 DEF Told, Untold, renderVars
  <2> QED
    BY <2>1, StaysDecided
<1>3. CASE Render
  BY <1>3, StaysDecided DEF Render
<1> QED
  BY <1>1, <1>2, <1>3, ChangeDecides, UserDecides, JobDecides, AnswerDecides DEF Next

-----------------------------------------------------------------------------
(* The theorems.                                                           *)

LEMMA InitIInv == Init => IInv
<1> SUFFICES ASSUME Init PROVE IInv
  OBVIOUS
<1>1. Known
  BY InitKnown
<1> USE Before DEF Known
<1>2. PICK w : Start(w)
  BY DEF Init
<1>3. w = want /\ shown = None /\ timer \in BOOLEAN
  BY <1>2 DEF Start
<1> DEFINE g == [of |-> Sent(w), since |-> job, held |-> FALSE, stage |-> "sent",
                 how |-> IF query.spins = "never" THEN "quiet" ELSE "loud", excuse |-> None]
<1>4. gets = IF query.first /\ ~query.delay THEN <<g>> ELSE <<>>
  BY <1>2 DEF Start
<1>5. g.of = Sent(want) /\ g.since = job /\ (query.spins # "never" => g.how = "loud")
  BY <1>3
<1>6. query.stream => gets = <<>>
  BY <1>1, <1>4, QueryOK
<1> HIDE DEF g
<1>7. LoadingHasRequest
  <2> SUFFICES ASSUME loading PROVE \E i \in DOMAIN gets : gets[i].how = "loud"
    BY DEF LoadingHasRequest
  <2>1. gets # <<>> /\ query.spins # "never"
    BY <1>2 DEF Start
  <2>2. gets = <<g>>
    BY <1>4, <2>1
  <2>3. 1 \in DOMAIN gets /\ gets[1] = g
    BY <2>2
  <2> QED
    BY <1>5, <2>1, <2>3
<1>8. AloneAndHeld
  BY <1>6 DEF AloneAndHeld, Alone
<1>9. ReportsDecide
  BY <1>2, <1>3, ReportedOK, QueriesAssumption DEF Start, ReportsDecide, Reported, Misreports
<1>10. LastDecides
  <2> SUFFICES ASSUME gets # <<>> PROVE LastOf(gets).since = job /\ LastOf(gets).of = Sent(want)
    BY DEF LastDecides
  <2>1. gets = <<g>>
    BY <1>4
  <2>2. LastOf(gets) = g
    BY <2>1 DEF LastOf
  <2> QED
    BY <1>5, <2>2
<1>11. StreamDecides /\ ShownDecides
  BY <1>3, <1>6 DEF StreamDecides, ShownDecides, Timely
<1> QED
  BY <1>1, <1>7, <1>8, <1>9, <1>10, <1>11 DEF IInv, Decided

\* The invariant all the others follow from.
THEOREM Invariance == Spec => []IInv
<1>1. Init => IInv
  BY InitIInv
<1>2. IInv /\ [Next]_vars => IInv'
  <2> SUFFICES ASSUME IInv, [Next]_vars PROVE IInv'
    OBVIOUS
  <2>1. Known /\ ReportsDecide /\ Spinning /\ Decided
    BY DEF IInv, Spinning
  <2>2. Known'
    BY <2>1, KnownStep
  <2>3. ReportsDecide'
    BY <2>1, ReportsStep
  <2>4. Spinning'
    BY <2>1, SpinningStep
  <2>5. Decided'
    BY <2>1, DecidedStep
  <2> QED
    BY <2>2, <2>3, <2>4, <2>5 DEF IInv, Spinning
<1> QED
  BY <1>1, <1>2, PTL DEF Spec

\* Requests, reports, what is shown and what is asked for keep their form.
THEOREM TypeCorrect == Spec => []TypeOK
<1>1. IInv => TypeOK
  BY DEF IInv, Known
<1> QED
  BY <1>1, Invariance, PTL

\* No page goes on loading without a request whose end takes that away, except the
\* card of a metric that was answered with an error code (handleSearch and fetchRuns
\* with their finally, fetchMetricData without).
THEOREM NoEndlessLoading == Spec => []LoadingHasRequest
<1>1. IInv => LoadingHasRequest
  BY DEF IInv
<1> QED
  BY <1>1, Invariance, PTL

\* handleStartAnalysis and handleSelectAlert give up the analysis that runs: two run
\* at once only after a finally has dropped the controller of another handler's
\* stream.
THEOREM OneAnalysisAtATime == Spec => []OneAnalysis
<1>1. IInv => OneAnalysis
  BY DEF IInv, AloneAndHeld, Alone, OneAnalysis
<1> QED
  BY <1>1, Invariance, PTL

\* The server learns of the end of a run that the page of the pipeline shows, unless
\* a report failed or was overtaken or another run was started (updatePipelineStatus);
\* of a Jenkins build it is told the start only.
THEOREM ReportOnlyForCause == Spec => []ReportHasCause
<1>1. IInv => ReportHasCause
  <2> SUFFICES ASSUME IInv PROVE ReportHasCause
    OBVIOUS
  <2>1. query.posts \in {"never", "start", "both"}
    BY DEF IInv, Known, TypeOK, Query
  <2>2. query.posts = "both" /\ shown # None /\ Ended(shown.seen) /\ ~RenderDue =>
           rendered = "ended"
    BY QueryOK DEF IInv, Known, RenderDue, Status
  <2> QED
    BY <2>1, <2>2 DEF IInv, ReportsDecide, ReportHasCause
<1> QED
  BY <1>1, Invariance, PTL

\* A page at rest shows the answer to what it asks for now, or one of the reasons
\* has occurred since it last did.
THEOREM StaleOnlyForCause == Spec => []StaleHasCause
<1>1. IInv => StaleHasCause
  <2> SUFFICES ASSUME IInv, ~Waiting, shown # None, cause = None
               PROVE  shown = [of |-> Sent(want), seen |-> job]
    BY DEF StaleHasCause
  <2>1. gets = <<>> /\ due = None /\ ~timer
    BY DEF Waiting
  <2>2. shown.of = Sent(want) /\ shown.seen = job
    BY <2>1 DEF IInv, Decided, ShownDecides
  <2>3. shown \in [of: Values, seen: Nat]
    BY DEF IInv, Known, TypeOK
  <2> QED
    BY <2>2, <2>3
<1> QED
  BY <1>1, Invariance, PTL

=============================================================================
