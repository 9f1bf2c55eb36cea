---------------------------- MODULE ObjectPages ----------------------------
(***************************************************************************)
(* The pages about one object: its details in tabs, its YAML, and the      *)
(* forms that create or edit it (frontend/src/pages, components/shared).   *)
(* All are made of parts: something fetched when the page is mounted or    *)
(* when its tab is first opened, an editor over it, and buttons whose      *)
(* handlers send a request and then leave the page, fetch the details      *)
(* again, or stay.  A record says what each page has (module Objects); one *)
(* page is mounted, and its answers arrive in any order.                   *)
(***************************************************************************)
EXTENDS Integers, Sequences, FiniteSets, Functions

CONSTANTS
    Pages,      \* the pages checked, records of the form below
    None,
    MaxGets,    \* bound: reads in flight when the user asks for one
    MaxSaves    \* bound: requests that change something

Names == {"main", "list", "tab", "yaml", "fields", "remove", "change", "act"}

\* A part of a page:
\*   asked  it is fetched when the page is mounted, when its tab is opened and it
\*          has not been fetched yet, or never
\*   hides  a flag hides the page or the part while the request runs
\*   edit   the user edits a copy of the text (YamlViewer's edit mode), the state
\*          itself (a form), or presses a button; "none": it is shown only
\*   once   a flag disables the button while the request runs
\*   then   after a success the page navigates away, fetches its main part again,
\*          or stays
\*   writes the request changes what the page shows of the object
Part == [name: Names, asked: {"mount", "click", "never"}, hides: {"page", "part", "none"},
         edit: {"none", "copy", "form", "button"}, once: BOOLEAN,
         then: {"leave", "main", "stay"}, writes: BOOLEAN]

\* A page:
\*   strict  without the object's name in the URL it fetches nothing
\*   needs   without its main part it shows nothing else
\*   first   the tab that is open at first, whatever has been fetched; "main" or
\*           "list" when it shows nothing of its own
Page == [strict: BOOLEAN, needs: BOOLEAN, first: Names, parts: SUBSET Part]

\* Why the main part may be older than the page's own last change: nothing fetched
\* it, the request failed, an older answer came last, or the change was carried
\* out and its answer lost.
Causes == {"unasked", "failed", "overtaken", "unanswered"}

ASSUME ObjectPagesAssumption ==
    /\ Pages \subseteq Page
    /\ \A pg \in Pages :
          /\ IsFiniteSet(pg.parts)
          /\ \A p, q \in pg.parts : p.name = q.name => p = q
          /\ \A p \in pg.parts : p.edit = "form" => p.name # "main"
    /\ None \notin Names \cup Causes
    /\ MaxGets \in Nat /\ MaxSaves \in Nat

VARIABLES
    page,     \* the mounted page
    given,    \* the URL names the object
    made,     \* how many changes the page has made to the object
    loaded,   \* the parts that have been fetched
    seen,     \* how many of the changes the main part shows
    spin,     \* the parts whose loading flag is set
    open,     \* the open tab
    typing,   \* the parts the user is editing
    blank,    \* those of them whose text started empty, before it was fetched
    gets,     \* reads in flight, in the order they were sent
    saves,    \* other requests in flight
    busy,     \* the parts whose saving flag is set
    failed,   \* the parts of which a read has failed
    sent,     \* requests sent that change something
    cause,    \* the last reason for which the main part may be old
    left      \* the page has navigated away

vars == <<page, given, made, loaded, seen, spin, open, typing, blank, gets, saves, busy,
          failed, sent, cause, left>>

Without(s, i) == [j \in 1 .. Len(s) - 1 |-> s[IF j < i THEN j ELSE j + 1]]

\* A read sent in this step sees what the step leaves.
Get(p) == [part |-> p, since |-> made']

Main   == {p \in page.parts : p.name = "main"}
Copies == {p.name : p \in {q \in page.parts : q.edit = "copy"}}

\* Nothing of the page but its skeleton, or the note that the object was not found,
\* is rendered.
Hidden(s, l) ==
    \/ \E p \in page.parts : p.name \in s /\ p.hides = "page"
    \/ page.needs /\ "main" \notin l

\* A part is rendered: a tab when it is open.
Shown(p) ==
    /\ ~left /\ ~Hidden(spin, loaded)
    /\ p.name \notin spin \/ p.hides = "none"
    /\ p.asked = "click" => open = p.name

-----------------------------------------------------------------------------
(* Mounting and reading.                                                   *)

\* useState of the loading flags.
\* Mutant: the flag is false at first.
FlaglessMount(p) == FALSE

FlaggedAtMount(p) == p.asked = "mount" /\ p.hides # "none"

OneEach(ps) == Bijection(1 .. Cardinality(ps), ps)

Init ==
    /\ page \in Pages
    /\ given \in IF page.strict THEN BOOLEAN ELSE {TRUE}
    /\ made = 0 /\ loaded = {} /\ seen = 0
    /\ spin = {p.name : p \in {q \in page.parts : FlaggedAtMount(q)}}
    /\ open = page.first
    /\ typing = {} /\ blank = {}
    /\ \E s \in OneEach(IF given THEN {p \in page.parts : p.asked = "mount"} ELSE {}) :
           gets = [i \in DOMAIN s |-> [part |-> s[i], since |-> 0]]
    /\ saves = <<>> /\ busy = {} /\ failed = {}
    /\ sent = 0 /\ cause = None /\ left = FALSE

\* What becomes of the editors when s and l are the flags and the loaded parts next:
\* YamlViewer keeps its edit mode and its flag in its own state, which goes when
\* the page or its tab is not rendered; a form keeps them in the page.
Kept(ns, s, l, tab) ==
    {n \in ns : n \in Copies => /\ ~Hidden(s, l)
                                /\ \A p \in page.parts :
                                      /\ p.name = n
                                      => /\ p.asked = "click" => tab = n
                                         /\ p.hides = "part" => n \notin s}

\* The tabs are mounted again, and the first one is open, when the page comes back.
NextTab(s, l, tab) == IF Hidden(s, l) THEN page.first ELSE tab

\* A render: s, l and tab are the flags, the loaded parts and the open tab as the
\* event leaves them, ns and bs the parts in edit mode and those whose saving flag is set,
\* ss the requests.  An editor that is gone no longer takes back its flag.
Render(s, l, tab, ns, bs, ss) ==
    /\ spin' = s
    /\ loaded' = l
    /\ open' = NextTab(s, l, tab)
    /\ typing' = Kept(ns, s, l, tab)
    /\ busy' = Kept(bs, s, l, tab)
    /\ saves' = [i \in DOMAIN ss |->
                    [ss[i] EXCEPT !.mine = @ /\ Kept({ss[i].part.name}, s, l, tab) # {}]]

Flag(p) == IF p.hides = "none" THEN {} ELSE {p.name}

\* handleTabChange: a tab whose data has not come yet is fetched, again if need be.
Click(p) ==
    /\ p.asked = "click" /\ open # p.name
    /\ ~left /\ ~Hidden(spin, loaded)
    /\ LET asks == p.name \notin loaded
       IN  /\ asks => Len(gets) < MaxGets
           /\ UNCHANGED <<page, given, made, seen, blank, failed, sent, cause, left>>
           /\ gets' = IF asks THEN Append(gets, Get(p)) ELSE gets
           /\ Render(IF asks THEN spin \cup Flag(p) ELSE spin, loaded, p.name, typing, busy, saves)

\* An answer: the state is set, which in a form overwrites what was typed.
Answered(i) ==
    LET g == gets[i]
        n == g.part.name
    IN  /\ gets' = Without(gets, i)
        /\ IF n # "main" THEN UNCHANGED <<seen, cause>>
           ELSE /\ seen' \in g.since .. made
                /\ cause' = IF seen' = made THEN None ELSE IF seen' < seen THEN "overtaken" ELSE cause
        /\ UNCHANGED <<page, given, made, blank, failed, sent, left>>
        /\ Render(spin \ {n}, loaded \cup {n}, open,
                  IF g.part.edit = "form" THEN typing \ {n} ELSE typing, busy, saves)

\* A failure: a toast, and the flag is taken back in the finally.
\* Mutant: the flag is taken back when the data has been set.
UnansweredInTry(i) ==
    /\ gets' = Without(gets, i)
    /\ failed' = failed \cup {gets[i].part.name}
    /\ cause' = IF gets[i].part.name = "main" THEN "failed" ELSE cause
    /\ UNCHANGED <<page, given, made, seen, blank, sent, left>>
    /\ Render(spin, loaded, open, typing, busy, saves)

\* Mutant: it is tried again without a limit.
Retried(i) ==
    /\ failed' = failed \cup {gets[i].part.name}
    /\ UNCHANGED <<page, given, made, seen, blank, sent, left, cause, spin, loaded, open, typing,
                   busy, saves>>
    /\ gets' = Append(Without(gets, i), Get(gets[i].part))

Unanswered(i) ==
    /\ gets' = Without(gets, i)
    /\ failed' = failed \cup {gets[i].part.name}
    /\ cause' = IF gets[i].part.name = "main" THEN "failed" ELSE cause
    /\ UNCHANGED <<page, given, made, seen, blank, sent, left>>
    /\ Render(spin \ {gets[i].part.name}, loaded, open, typing, busy, saves)

Answer(n) ==
    ~left /\ \E i \in DOMAIN gets : gets[i].part.name = n /\ (Answered(i) \/ Unanswered(i))

-----------------------------------------------------------------------------
(* Editing and saving.                                                     *)

\* The edit button copies the text; in a form the user just types.
Edit(p) ==
    /\ p.edit \in {"copy", "form"} /\ Shown(p) /\ p.name \notin typing
    /\ typing' = typing \cup {p.name}
    /\ blank' = IF p.name \in loaded THEN blank \ {p.name} ELSE blank \cup {p.name}
    /\ UNCHANGED <<page, given, made, loaded, seen, spin, open, gets, saves, busy, failed, sent,
                   cause, left>>

\* Mutant: the button is never disabled.
Undisabled(p) == TRUE

Enabled(p) == p.once => p.name \notin busy

\* What is sent never held the object's text: the copied text did not, or the state
\* of the form does not yet.
Blank(p) == \/ p.edit = "copy" /\ p.name \in blank
            \/ p.edit = "form" /\ p.name \notin loaded

\* The save button, or one that edits nothing.
Save(p) ==
    /\ p.edit # "none" /\ Shown(p) /\ Enabled(p)
    /\ p.edit = "copy" => p.name \in typing
    /\ sent < MaxSaves
    /\ sent' = sent + 1
    /\ saves' = Append(saves, [part |-> p, blank |-> Blank(p), mine |-> TRUE])
    /\ busy' = IF p.once THEN busy \cup {p.name} ELSE busy
    /\ UNCHANGED <<page, given, made, loaded, seen, spin, open, typing, blank, gets, failed,
                   cause, left>>

\* What onUpdated and the handlers fetch after a success.
\* Mutant: the details are not fetched again.
NothingMore(p) == {}

Follows(p) == IF p.then = "main" THEN Main ELSE {}

\* The editor whose flag the end of the i-th request takes back.
Ended(i) == IF saves[i].mine THEN {saves[i].part.name} ELSE {}

\* The request succeeds: an editor leaves its edit mode, and the page goes on.
Saved(i) ==
    LET p    == saves[i].part
        more == Follows(p)
    IN  /\ made' = IF p.writes THEN made + 1 ELSE made
        /\ left' = (p.then = "leave")
        /\ gets' = IF more = {} THEN gets ELSE Append(gets, Get(CHOOSE m \in more : TRUE))
        /\ cause' = IF p.writes /\ p.then = "stay" THEN "unasked" ELSE cause
        /\ UNCHANGED <<page, given, seen, blank, failed, sent>>
        /\ Render(spin \cup UNION {Flag(m) : m \in more}, loaded, open,
                  typing \ Ended(i), busy \ Ended(i), Without(saves, i))

\* It fails: refused, or carried out and its answer lost.  The text stays.
\* Mutant: the text goes in the finally.
UnsavedCleared(i, lost) ==
    LET p == saves[i].part
    IN  /\ made' = IF lost /\ p.writes THEN made + 1 ELSE made
        /\ cause' = IF lost /\ p.writes THEN "unanswered" ELSE cause
        /\ UNCHANGED <<page, given, seen, blank, gets, failed, sent, left>>
        /\ Render(spin, loaded, open, typing \ Ended(i), busy \ Ended(i), Without(saves, i))

Unsaved(i, lost) ==
    LET p == saves[i].part
    IN  /\ made' = IF lost /\ p.writes THEN made + 1 ELSE made
        /\ cause' = IF lost /\ p.writes THEN "unanswered" ELSE cause
        /\ UNCHANGED <<page, given, seen, blank, gets, failed, sent, left>>
        /\ Render(spin, loaded, open, typing, busy \ Ended(i), Without(saves, i))

End == ~left /\ \E i \in DOMAIN saves : Saved(i) \/ Unsaved(i, TRUE) \/ Unsaved(i, FALSE)

-----------------------------------------------------------------------------
Next ==
    \/ \E n \in Names : Answer(n)
    \/ End
    \/ \E p \in page.parts : Click(p) \/ Edit(p) \/ Save(p)

\* Every read is answered or times out, and so is every other request; nobody has to
\* press a button.
Fairness == (\A n \in Names : WF_vars(Answer(n))) /\ WF_vars(End)

Spec == Init /\ [][Next]_vars /\ Fairness

-----------------------------------------------------------------------------
(* Properties.                                                             *)

TypeOK ==
    /\ page \in Page /\ given \in BOOLEAN
    /\ made \in Nat /\ seen \in Nat
    /\ loaded \subseteq Names /\ blank \subseteq Names
    /\ spin \subseteq Names /\ typing \subseteq Names /\ busy \subseteq Names
    /\ failed \subseteq Names
    /\ open \in Names
    /\ gets \in Seq([part : page.parts, since : Nat])
    /\ saves \in Seq([part : page.parts, blank : BOOLEAN, mine : BOOLEAN])
    /\ sent \in Nat
    /\ cause \in Causes \cup {None} /\ left \in BOOLEAN

\* What a loading flag hides comes back: a request runs whose end takes the flag
\* away.  Only a page opened without the object's name shows its skeleton for ever
\* (`if (!name) { toast.error(...); return }' before setLoading(false)).
SkeletonHasRequest ==
    \A n \in spin : ~given \/ \E i \in DOMAIN gets : gets[i].part.name = n

\* A save that overwrites the object with an editor that never held its text: the
\* read of the text failed, which leaves the empty editor usable; or the editor is
\* shown while the text is on its way; or its tab was open before it was asked for.
BlankHasCause ==
    \A i \in DOMAIN saves :
        LET p == saves[i].part
        IN  saves[i].blank /\ p.asked # "never"
            => \/ p.name \in failed
               \/ p.hides = "none"
               \/ p.asked = "click" /\ page.first = p.name

\* A form that fetches nothing, or is not rendered before its data has come, keeps what
\* the user types until its page is left after a success: no late answer and no
\* failure overwrites it.
TypedTextIsKept ==
    [][\A p \in page.parts :
          /\ p.edit = "form" /\ p.then = "leave"
          /\ p.asked = "never" \/ (p.asked = "mount" /\ p.hides = "page")
          /\ p.name \in typing /\ p.name \notin typing'
          => left']_vars

\* A form or an editor with a saving flag sends one request at a time.  Only a YAML
\* editor that went with its tab leaves a request behind it.
OneAtATime ==
    \A i, j \in DOMAIN saves :
        i # j /\ saves[i].part = saves[j].part /\ saves[i].part.once
        => ~saves[i].mine \/ ~saves[j].mine

\* When everything has been answered, the main part shows the page's own last
\* change, unless nothing was fetched after it, the read failed, an older answer
\* came last, or the change was carried out without an answer.
StaleHasCause ==
    ~left /\ gets = <<>> /\ saves = <<>> /\ "main" \in loaded /\ seen < made => cause # None

\* A page that shows its skeleton comes back, whatever fails.
Skeleton == \E p \in page.parts : p.hides = "page" /\ p.name \in spin

PageComesBack == given /\ Skeleton ~> ~Skeleton \/ left

=============================================================================
