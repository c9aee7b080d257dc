----------------------------- MODULE Ospf_proofs -----------------------------
(* The OSPF page and the stored OSPF domain.  For any domains and contents,    *)
(* and however long the page is used: what it shows and applies is current, it *)
(* is not closed for ever, and it overwrites nothing unseen.  For any nodes,   *)
(* links and areas, and however often it is saved in whatever shape: a stored  *)
(* domain stays what it is when it is read, its nodes get the links they have, *)
(* and an area nobody touched keeps its settings.                              *)
EXTENDS OspfEditor, OspfDomain, FiniteSetTheorems, TLAPS

-----------------------------------------------------------------------------
(* The inductive invariant.                                                *)

Entry == [id : Domain, content : Content, base : Content \cup {Absent}]
Comparison ==
    [id : Domain, rev : 1 .. MaxRevision, content : Content \cup {Absent}, right : BOOLEAN]

Page ==
    [id : Domain, isNew : BOOLEAN, content : Content, base : Content \cup {Absent},
     misled : BOOLEAN, rev : 1 .. MaxRevision, active : SUBSET Domain, list : SUBSET Entry,
     conflict : BOOLEAN, comparison : Comparison \cup {None},
     state : {"loading", "ready", "error"}, pending : {None, "preview", "draft", "save"},
     load : Load \cup {None}, token : Payload \cup {None}, shown : Payload \cup {None}]

RequestState ==
    [kind : {"preview", "draft", "apply", "delete"}, draft : Payload, waited : BOOLEAN,
     reply : Outcome \cup {None}, now : 1 .. MaxRevision \cup {None},
     token : Payload \cup {None}, existing : BOOLEAN,
     base : Content \cup {Absent, None}, misled : BOOLEAN]

TypeInv ==
    /\ revision \in 1 .. MaxRevision
    /\ stored \in [Domain -> Content \cup {Absent}]
    /\ drafts \in [Domain -> Draft \cup {None}]
    /\ requests \subseteq RequestState
    /\ page \in Page
    /\ patience \in 0 .. Patience

\* `base' is what the inventory had of domain d at revision rev, as far as can
\* still be told: nothing was committed since.
Based(d, base, rev, misled) ==
    /\ rev <= revision
    /\ rev = revision /\ ~misled => base = stored[d]

DraftBased(d, draft) == draft # None => Based(d, draft.base, draft.rev, draft.misled)

\* What a list of domains said when it was read.
SnapshotBased(s) ==
    /\ \A d \in Domain : DraftBased(d, s.drafts[d])
    /\ \A d \in Domain : Based(d, s.stored[d], s.rev, FALSE)

PageBased(p) ==
    /\ p.rev <= revision
    /\ Ready(p) => Based(p.id, p.base, p.rev, p.misled)
    /\ p.comparison # None =>
          Based(p.comparison.id, p.comparison.content, p.comparison.rev, ~p.comparison.right)
    /\ p.load # None /\ p.load.snapshot # None => SnapshotBased(p.load.snapshot)

RequestBased(r) ==
    /\ r.kind # "preview" =>
          r.base \in Content \cup {Absent} /\ Based(r.draft.id, r.base, r.draft.rev, r.misled)
    /\ IF r.reply = None THEN r.now = None ELSE r.now \in 1 .. revision

BasedInv ==
    /\ \A d \in Domain : DraftBased(d, drafts[d])
    /\ PageBased(page)
    /\ \A r \in requests : RequestBased(r)

IInv == TypeInv /\ BasedInv /\ PreviewIsCurrent /\ ClosedOnlyWhileBusy

-----------------------------------------------------------------------------
(* Steps of the page.                                                      *)

\* Its token and its text are those it had, or made for what it becomes.
Fits(p) == {p.token, p.shown} \subseteq {None, page.token, page.shown, Submitted(p)}

\* It is closed only while something is awaited.
Busy(p, answers) ==
    p.pending # None =>
        \/ \E r \in answers : r.waited
        \/ p.load # None /\ p.load.why = "save"

LEMMA WatchedIs ==
    ASSUME NEW p \in Page
    PROVE  /\ Watched(p) \in Page
           /\ Watched(p).id = p.id /\ Watched(p).base = p.base /\ Watched(p).misled = p.misled
           /\ Watched(p).content = p.content /\ Watched(p).rev = p.rev
           /\ Watched(p).state = p.state /\ Watched(p).comparison = p.comparison
           /\ Watched(p).load = p.load /\ Watched(p).pending = p.pending
           /\ Watched(p) = p \/ (Watched(p).token = None /\ Watched(p).shown = None)
           /\ Submitted(p) # Submitted(page) => Watched(p).token = None /\ Watched(p).shown = None
<1> DEFINE q == [p EXCEPT !.token = None, !.shown = None]
<1>1. /\ q \in Page
      /\ q.id = p.id /\ q.base = p.base /\ q.misled = p.misled
      /\ q.content = p.content /\ q.rev = p.rev
      /\ q.state = p.state /\ q.comparison = p.comparison
      /\ q.load = p.load /\ q.pending = p.pending
      /\ q.token = None /\ q.shown = None
  BY DEF Page
<1>2. \/ Watched(p) = p /\ Submitted(p) = Submitted(page)
      \/ Watched(p) = q
  BY Zenon DEF Watched
<1> HIDE DEF q
<1>. QED
  BY <1>1, <1>2

LEMMA PageStep ==
    ASSUME IInv, NEW p \in Page, Becomes(p), PageBased(p), Fits(p), Busy(p, requests'),
           UNCHANGED controller, patience' \in 0 .. Patience,
           requests' \subseteq RequestState, \A r \in requests' : RequestBased(r)
    PROVE  IInv'
<1>1. /\ page' \in Page
      /\ page'.id = p.id /\ page'.base = p.base /\ page'.misled = p.misled
      /\ page'.content = p.content /\ page'.rev = p.rev
      /\ page'.state = p.state /\ page'.comparison = p.comparison
      /\ page'.load = p.load /\ page'.pending = p.pending
      /\ page' = p \/ (page'.token = None /\ page'.shown = None)
      /\ Submitted(p) # Submitted(page) => page'.token = None /\ page'.shown = None
  BY WatchedIs DEF Becomes
<1>2. revision' = revision /\ stored' = stored /\ drafts' = drafts
  BY DEF controller
<1>3. TypeInv'
  BY <1>1, <1>2 DEF IInv, TypeInv
<1>4. BasedInv'
  <2>1. \A d \in Domain : DraftBased(d, drafts[d])'
    BY <1>2 DEF IInv, BasedInv, DraftBased, Based
  <2>2. PageBased(page)'
    BY <1>1, <1>2 DEF PageBased, Ready, SnapshotBased, DraftBased, Based
  <2>3. \A r \in requests' : RequestBased(r)'
    BY <1>2 DEF RequestBased, Based
  <2>. QED
    BY <2>1, <2>2, <2>3 DEF BasedInv
<1>5. PreviewIsCurrent'
  <2>1. CASE page'.token = None /\ page'.shown = None
    BY <2>1 DEF PreviewIsCurrent
  <2>2. CASE page' = p /\ Submitted(p) = Submitted(page)
    BY <2>2 DEF PreviewIsCurrent, Fits, IInv
  <2>. QED
    BY <1>1, <2>1, <2>2
<1>6. ClosedOnlyWhileBusy'
  BY <1>1 DEF ClosedOnlyWhileBusy, Busy
<1>. QED
  BY <1>3, <1>4, <1>5, <1>6 DEF IInv

\* A step that leaves what the watch looks at.
LEMMA Unwatched ==
    ASSUME NEW p, page' = p, Submitted(p) = Submitted(page), Ready(p) = Ready(page)
    PROVE  Becomes(p)
BY DEF Becomes, Watched

LEMMA PageFacts ==
    ASSUME IInv
    PROVE  /\ page \in Page /\ PageBased(page) /\ Fits(page) /\ Busy(page, requests)
           /\ requests \subseteq RequestState /\ \A r \in requests : RequestBased(r)
           /\ revision \in 1 .. MaxRevision /\ revision \in Nat
           /\ patience \in 0 .. Patience /\ (Spend => patience' \in 0 .. Patience)
BY BoundAssumption DEF IInv, TypeInv, BasedInv, Fits, Busy, ClosedOnlyWhileBusy, Spend

-----------------------------------------------------------------------------
(* Loading.                                                                *)

LEMMA LoadingIs ==
    ASSUME IInv, NEW why \in {"view", "save"}
    PROVE  LET p == Loading(page, why) IN
           /\ p \in Page /\ p.state = "loading" /\ ~Ready(p)
           /\ p.id = page.id /\ p.rev = page.rev /\ p.content = page.content
           /\ p.token = page.token /\ p.shown = page.shown
           /\ p.comparison = page.comparison
           /\ p.load = [why |-> why, snapshot |-> None]
           /\ p.pending \in {None, page.pending}
           /\ page.load # None /\ page.load.why = "save" => p.pending = None
<1>1. page \in Page
  BY PageFacts
<1>2. [why |-> why, snapshot |-> None] \in Load
  BY DEF Load
<1>. QED
  BY <1>1, <1>2 DEF Loading, Page, Ready

LEMMA LoadingStep ==
    ASSUME IInv, Becomes(Loading(page, "view")), UNCHANGED <<controller, requests>>,
           patience' \in 0 .. Patience
    PROVE  IInv'
<1> DEFINE p == Loading(page, "view")
<1>1. /\ p \in Page /\ ~Ready(p) /\ p.rev = page.rev /\ p.token = page.token /\ p.shown = page.shown
      /\ p.comparison = page.comparison /\ p.load = [why |-> "view", snapshot |-> None]
      /\ p.pending \in {None, page.pending}
      /\ page.load # None /\ page.load.why = "save" => p.pending = None
  BY LoadingIs
<1> HIDE DEF p
<1>2. PageBased(p) /\ Fits(p) /\ Busy(p, requests)
  BY <1>1, PageFacts DEF PageBased, Fits, Busy
<1>. QED
  BY <1>1, <1>2, PageFacts, PageStep DEF p

LEMMA ReadStep == ASSUME IInv, ReadDomains PROVE IInv'
<1> DEFINE s == [rev |-> revision, stored |-> stored, drafts |-> drafts]
           p == [page EXCEPT !.load.snapshot = s]
<1>1. s \in Snapshot /\ page \in Page /\ page.load \in Load
  BY PageFacts DEF IInv, TypeInv, Snapshot, ReadDomains, Page
<1>2. [page.load EXCEPT !.snapshot = s] \in Load /\ [page.load EXCEPT !.snapshot = s].why = page.load.why
      /\ [page.load EXCEPT !.snapshot = s].snapshot = s
  BY <1>1 DEF Load
<1>3. /\ p \in Page /\ p.load = [page.load EXCEPT !.snapshot = s]
      /\ p.id = page.id /\ p.rev = page.rev /\ p.content = page.content /\ p.state = page.state
      /\ p.base = page.base /\ p.misled = page.misled
      /\ p.token = page.token /\ p.shown = page.shown
      /\ p.comparison = page.comparison /\ p.pending = page.pending
  BY <1>1, <1>2 DEF Page
<1>4. SnapshotBased(s)
  BY PageFacts DEF SnapshotBased, IInv, BasedInv, Based
<1>5. Becomes(p)
  BY <1>3, Unwatched DEF ReadDomains, Submitted, Ready
<1> HIDE DEF p, s
<1>6. PageBased(p) /\ Fits(p) /\ Busy(p, requests)
  BY <1>2, <1>3, <1>4, PageFacts, NoneAssumption DEF PageBased, Fits, Busy, Ready, ReadDomains
<1>. QED
  BY <1>3, <1>5, <1>6, PageFacts, PageStep DEF ReadDomains

\* The entry that a list shows for a domain.
LEMMA ListedIs ==
    ASSUME NEW s \in Snapshot, NEW d \in {x.id : x \in Listed(s)}
    PROVE  LET shown == CHOOSE x \in Listed(s) : x.id = d IN
           /\ d \in Domain
           /\ shown.base = (IF s.drafts[d] # None THEN s.drafts[d].base ELSE s.stored[d])
           /\ shown.content \in Content /\ shown.base \in Content \cup {Absent}
<1> DEFINE L(x) == IF s.drafts[x] # None
                   THEN [id |-> x, content |-> s.drafts[x].content, base |-> s.drafts[x].base]
                   ELSE [id |-> x, content |-> s.stored[x], base |-> s.stored[x]]
           D == {x \in Domain : s.stored[x] # Absent \/ s.drafts[x] # None}
           shown == CHOOSE x \in Listed(s) : x.id = d
<1>1. Listed(s) = {L(x) : x \in D}
  BY DEF Listed
<1>2. \A x \in D : L(x).id = x
  OBVIOUS
<1>3. shown \in Listed(s) /\ shown.id = d
  OBVIOUS
<1>4. d \in D /\ shown = L(d)
  <2> HIDE DEF L, D, shown
  <2>1. PICK x \in D : shown = L(x)
    BY <1>1, <1>3
  <2>2. x = d
    BY <1>2, <1>3, <2>1
  <2>. QED
    BY <2>1, <2>2
<1>5. /\ L(d).base = (IF s.drafts[d] # None THEN s.drafts[d].base ELSE s.stored[d])
      /\ L(d).content = (IF s.drafts[d] # None THEN s.drafts[d].content ELSE s.stored[d])
  OBVIOUS
<1>6. /\ s.drafts[d] # None => s.drafts[d].base \in Content \cup {Absent} /\ s.drafts[d].content \in Content
      /\ s.stored[d] \in Content \cup {Absent}
      /\ s.drafts[d] = None => s.stored[d] # Absent
  BY <1>4 DEF Snapshot, Draft
<1> HIDE DEF shown, L
<1>7. shown.content \in Content /\ shown.base \in Content \cup {Absent}
  BY <1>4, <1>5, <1>6
<1>. QED
  BY <1>4, <1>5, <1>7 DEF shown

LEMMA EntriesListed ==
    ASSUME NEW s \in Snapshot
    PROVE  Listed(s) \subseteq Entry
<1> SUFFICES ASSUME NEW x \in {y \in Domain : s.stored[y] # Absent \/ s.drafts[y] # None}
             PROVE  (IF s.drafts[x] # None
                     THEN [id |-> x, content |-> s.drafts[x].content, base |-> s.drafts[x].base]
                     ELSE [id |-> x, content |-> s.stored[x], base |-> s.stored[x]]) \in Entry
  BY DEF Listed
<1>1. /\ s.drafts[x] # None => s.drafts[x].base \in Content \cup {Absent} /\ s.drafts[x].content \in Content
      /\ s.stored[x] \in Content \cup {Absent}
      /\ s.drafts[x] = None => s.stored[x] # Absent
  BY DEF Snapshot, Draft
<1>. QED
  BY <1>1 DEF Entry

\* A new domain has never been stored.
LEMMA ClearedIs ==
    ASSUME NEW p \in Page, NEW d \in Fresh
    PROVE  LET q == Cleared(p, d) IN
           /\ q \in Page /\ q.id = d /\ q.rev = p.rev /\ q.base = Absent /\ ~q.misled
           /\ q.comparison = None /\ q.load = p.load /\ q.pending = p.pending
           /\ q.state = p.state /\ q.token = p.token /\ q.shown = p.shown
           /\ stored[d] = Absent
BY ContentAssumption DEF Cleared, Page, Fresh

LEMMA SelectedIs ==
    ASSUME NEW p \in Page, NEW x \in Entry
    PROVE  LET q == Selected(p, x) IN
           /\ q \in Page /\ q.rev = p.rev /\ q.misled
           /\ q.comparison = None /\ q.load = p.load /\ q.pending = p.pending
           /\ q.state = p.state /\ q.token = p.token /\ q.shown = p.shown
BY DEF Selected, Page, Entry

\* The load is over, and what it says is to be shown.
Answered == LET s == page.load.snapshot IN
    [Unlocked(page) EXCEPT !.state = "ready", !.rev = s.rev, !.list = Listed(s),
                           !.active = {d \in Domain : s.stored[d] # Absent}]

LEMMA AnsweredIs ==
    ASSUME IInv, page.load # None, page.load.snapshot # None
    PROVE  /\ Answered \in Page /\ Answered.rev = page.load.snapshot.rev
           /\ Answered.token = page.token /\ Answered.shown = page.shown
           /\ Answered.comparison = page.comparison /\ Answered.load = None
           /\ Answered.pending \in {None, page.pending}
           /\ page.load.why = "save" => Answered.pending = None
           /\ page.load.snapshot \in Snapshot /\ page.load.why \in {"view", "save"}
<1>1. page \in Page /\ page.load \in Load /\ page.load.snapshot \in Snapshot
  BY PageFacts DEF Page, Load
<1>2. /\ page.load.snapshot.rev \in 1 .. MaxRevision
      /\ Listed(page.load.snapshot) \subseteq Entry
      /\ {d \in Domain : page.load.snapshot.stored[d] # Absent} \subseteq Domain
  BY <1>1, EntriesListed DEF Snapshot
<1> DEFINE p == Unlocked(page)
<1>3. /\ p \in Page /\ p.load = None /\ p.pending \in {None, page.pending}
      /\ page.load.why = "save" => p.pending = None
      /\ p.token = page.token /\ p.shown = page.shown /\ p.comparison = page.comparison
  BY <1>1 DEF Unlocked, Page, Load
<1>4. page.load.why \in {"view", "save"}
  BY <1>1 DEF Load
<1> DEFINE s == page.load.snapshot
           active == {d \in Domain : s.stored[d] # Absent}
<1>5. Answered = [p EXCEPT !.state = "ready", !.rev = s.rev, !.list = Listed(s), !.active = active]
  BY DEF Answered
<1>6. s.rev \in 1 .. MaxRevision /\ Listed(s) \subseteq Entry /\ active \subseteq Domain
  BY <1>2
<1> HIDE DEF p, s, active
<1>7. /\ Answered \in Page /\ Answered.rev = s.rev
      /\ Answered.token = p.token /\ Answered.shown = p.shown
      /\ Answered.comparison = p.comparison /\ Answered.load = p.load
      /\ Answered.pending = p.pending
  BY <1>3, <1>5, <1>6 DEF Page
<1>. QED
  BY <1>1, <1>3, <1>4, <1>7 DEF s

\* What a page becomes that shows a domain.
Shows(p, d, content, base, misled, rev, conflict) ==
    [p EXCEPT !.id = d, !.isNew = FALSE, !.content = content, !.base = base,
              !.misled = misled, !.rev = rev, !.conflict = conflict]

LEMMA ShowsIs ==
    ASSUME NEW p \in Page, NEW d \in Domain, NEW content \in Content, NEW base \in Content \cup {Absent},
           NEW misled \in BOOLEAN, NEW rev \in 1 .. MaxRevision, NEW conflict \in BOOLEAN
    PROVE  LET q == Shows(p, d, content, base, misled, rev, conflict)
           IN  /\ q \in Page /\ q.id = d /\ q.base = base /\ q.rev = rev /\ q.misled = misled
               /\ q.comparison = p.comparison /\ q.load = p.load /\ q.pending = p.pending
               /\ q.token = p.token /\ q.shown = p.shown
<1> DEFINE a == [p EXCEPT !.id = d, !.isNew = FALSE, !.content = content]
           b == [a EXCEPT !.base = base, !.misled = misled]
           c == [b EXCEPT !.rev = rev, !.conflict = conflict]
<1>1. /\ a \in Page /\ a.id = d
      /\ a.comparison = p.comparison /\ a.load = p.load /\ a.pending = p.pending
      /\ a.token = p.token /\ a.shown = p.shown
  BY DEF Page
<1> HIDE DEF a
<1>2. /\ b \in Page /\ b.id = d /\ b.base = base /\ b.misled = misled
      /\ b.comparison = p.comparison /\ b.load = p.load /\ b.pending = p.pending
      /\ b.token = p.token /\ b.shown = p.shown
  BY <1>1 DEF Page
<1> HIDE DEF b
<1>3. /\ c \in Page /\ c.id = d /\ c.base = base /\ c.misled = misled /\ c.rev = rev
      /\ c.comparison = p.comparison /\ c.load = p.load /\ c.pending = p.pending
      /\ c.token = p.token /\ c.shown = p.shown
  BY <1>2 DEF Page
<1>. QED
  BY <1>3 DEF a, b, Shows

LEMMA LoadedIs ==
    ASSUME NEW p \in Page, NEW s \in Snapshot, SnapshotBased(s), p.rev = s.rev,
           NEW d \in {x.id : x \in Listed(s)}
    PROVE  LET q == Loaded(p, d, s) IN
           /\ q \in Page /\ Based(q.id, q.base, q.rev, q.misled)
           /\ q.comparison = p.comparison /\ q.load = p.load /\ q.pending = p.pending
           /\ q.token = p.token /\ q.shown = p.shown
<1> DEFINE draft == s.drafts[d]
           stale == draft # None /\ draft.rev # s.rev
           shown == CHOOSE x \in Listed(s) : x.id = d
           rev == IF stale THEN draft.rev ELSE p.rev
           misled == draft # None /\ draft.misled
           q == [p EXCEPT !.id = d, !.isNew = FALSE, !.content = shown.content,
                          !.base = shown.base, !.misled = misled, !.rev = rev,
                          !.conflict = @ \/ stale]
<1>1. /\ d \in Domain
      /\ shown.base = (IF draft # None THEN draft.base ELSE s.stored[d])
      /\ shown.content \in Content /\ shown.base \in Content \cup {Absent}
  BY ListedIs
<1>2. draft # None => draft.rev \in 1 .. MaxRevision /\ draft.misled \in BOOLEAN
  BY <1>1 DEF Snapshot, Draft
<1>3. rev \in 1 .. MaxRevision /\ misled \in BOOLEAN /\ stale \in BOOLEAN
  BY <1>2 DEF Page
<1>4. Loaded(p, d, s) = q
  BY DEF Loaded
<1>5. Based(d, shown.base, rev, misled)
  <2>1. DraftBased(d, draft) /\ Based(d, s.stored[d], s.rev, FALSE)
    BY <1>1 DEF SnapshotBased
  <2>2. CASE draft = None
    BY <1>1, <2>1, <2>2 DEF Based
  <2>3. CASE draft # None
    <3>1. Based(d, draft.base, draft.rev, draft.misled) /\ shown.base = draft.base
      BY <1>1, <2>1, <2>3 DEF DraftBased
    <3>2. rev = draft.rev /\ misled = draft.misled
      BY <2>3, <1>2
    <3>. QED
      BY <3>1, <3>2
  <2>. QED
    BY <2>2, <2>3
<1> DEFINE conflict == p.conflict \/ stale
<1>7. conflict \in BOOLEAN /\ q = Shows(p, d, shown.content, shown.base, misled, rev, conflict)
  BY <1>3 DEF Page, Shows
<1> HIDE DEF rev, misled, shown, stale, conflict, q
<1>6. /\ q \in Page /\ q.id = d /\ q.base = shown.base /\ q.rev = rev /\ q.misled = misled
      /\ q.comparison = p.comparison /\ q.load = p.load /\ q.pending = p.pending
      /\ q.token = p.token /\ q.shown = p.shown
  <2> HIDE DEF q
  <2>1. \A text \in Content, base \in Content \cup {Absent} : d \in Domain =>
          LET z == Shows(p, d, text, base, misled, rev, conflict)
          IN  /\ z \in Page /\ z.id = d /\ z.base = base /\ z.rev = rev /\ z.misled = misled
              /\ z.comparison = p.comparison /\ z.load = p.load /\ z.pending = p.pending
              /\ z.token = p.token /\ z.shown = p.shown
    BY <1>3, <1>7, ShowsIs
  <2>. QED
    BY <1>1, <1>7, <2>1
<1>. QED
  BY <1>4, <1>5, <1>6

LEMMA LoadReplyStep == ASSUME IInv, LoadReply PROVE IInv'
<1> DEFINE s == page.load.snapshot
           ids == {x.id : x \in Listed(s)}
<1>1. page.load # None /\ s # None /\ UNCHANGED <<patience, controller, requests>>
  BY DEF LoadReply
<1>2. /\ Answered \in Page /\ Answered.rev = s.rev
      /\ Answered.token = page.token /\ Answered.shown = page.shown
      /\ Answered.comparison = page.comparison /\ Answered.load = None
      /\ Answered.pending \in {None, page.pending}
      /\ page.load.why = "save" => Answered.pending = None
      /\ s \in Snapshot
  BY <1>1, AnsweredIs
<1>3. SnapshotBased(s) /\ s.rev <= revision
  <2>1. SnapshotBased(s)
    BY <1>1, PageFacts DEF PageBased
  <2>2. PICK d \in Domain : TRUE
    BY PageFacts DEF Page
  <2>. QED
    BY <2>1, <2>2 DEF SnapshotBased, Based
<1>4. \/ \E d \in ids : Becomes(Loaded(Answered, d, s))
      \/ \E d \in Fresh : Becomes(Cleared(Answered, d))
  BY DEF LoadReply, Answered
<1>5. ASSUME NEW p \in Page, Becomes(p), Based(p.id, p.base, p.rev, p.misled),
             p.comparison \in {None, page.comparison}, p.load = None, p.pending = Answered.pending,
             p.token = page.token, p.shown = page.shown
      PROVE  IInv'
  <2>1. PageBased(p)
    BY <1>5, PageFacts DEF PageBased, Based
  <2>2. Fits(p) /\ Busy(p, requests)
    BY <1>1, <1>2, <1>5, PageFacts DEF Fits, Busy
  <2>. QED
    BY <1>1, <1>5, <2>1, <2>2, PageFacts, PageStep
<1>6. ASSUME NEW d \in ids, Becomes(Loaded(Answered, d, s)) PROVE IInv'
  <2>1. LET q == Loaded(Answered, d, s) IN
        /\ q \in Page /\ Based(q.id, q.base, q.rev, q.misled)
        /\ q.comparison = Answered.comparison /\ q.load = Answered.load /\ q.pending = Answered.pending
        /\ q.token = Answered.token /\ q.shown = Answered.shown
    BY <1>2, <1>3, LoadedIs
  <2>. QED
    BY <1>2, <1>5, <1>6, <2>1
<1>7. ASSUME NEW d \in Fresh, Becomes(Cleared(Answered, d)) PROVE IInv'
  <2> DEFINE q == Cleared(Answered, d)
  <2>1. /\ q \in Page /\ q.id = d /\ q.rev = s.rev /\ q.base = Absent /\ ~q.misled
        /\ q.comparison = None /\ q.load = None /\ q.pending = Answered.pending
        /\ q.token = page.token /\ q.shown = page.shown
        /\ stored[d] = Absent
    BY <1>2, ClearedIs
  <2>2. Based(q.id, q.base, q.rev, q.misled)
    BY <1>3, <2>1 DEF Based
  <2>. QED
    BY <1>5, <1>7, <2>1, <2>2
<1>. QED
  BY <1>4, <1>6, <1>7

LEMMA LoadFailsStep == ASSUME IInv, LoadFails PROVE IInv'
<1> DEFINE p == [Unlocked(page) EXCEPT !.state = "error"]
<1>1. page \in Page /\ page.load # None
  BY PageFacts DEF LoadFails
<1>2. /\ p \in Page /\ p.rev = page.rev /\ ~Ready(p) /\ p.comparison = page.comparison /\ p.load = None
      /\ p.token = page.token /\ p.shown = page.shown
      /\ p.pending = IF page.load.why = "save" THEN None ELSE page.pending
  BY <1>1 DEF Unlocked, Page, Ready
<1> HIDE DEF p
<1>3. PageBased(p) /\ Fits(p) /\ Busy(p, requests)
  BY <1>1, <1>2, PageFacts DEF PageBased, Fits, Busy
<1>. QED
  BY <1>2, <1>3, PageFacts, PageStep DEF LoadFails, p

-----------------------------------------------------------------------------
(* What the user does.                                                     *)

LEMMA EditStep == ASSUME IInv, NEW content \in Content, Edit(content) PROVE IInv'
<1> DEFINE p == [page EXCEPT !.content = content]
<1>1. page \in Page
  BY PageFacts
<1>2. /\ p \in Page /\ p.rev = page.rev /\ p.state = page.state /\ p.comparison = page.comparison
      /\ p.id = page.id /\ p.base = page.base /\ p.misled = page.misled /\ p.load = page.load
      /\ p.token = page.token /\ p.shown = page.shown /\ p.pending = page.pending
  BY <1>1 DEF Page
<1> HIDE DEF p
<1>3. PageBased(p) /\ Fits(p) /\ Busy(p, requests)
  BY <1>1, <1>2, PageFacts DEF PageBased, Fits, Busy, Ready
<1>. QED
  BY <1>2, <1>3, PageFacts, PageStep DEF Edit, p

LEMMA SelectStep == ASSUME IInv, NEW x \in page.list, Select(x) PROVE IInv'
<1> DEFINE p == Selected(page, x)
<1>1. page \in Page /\ x \in Entry
  BY PageFacts DEF Page
<1>2. /\ p \in Page /\ p.rev = page.rev /\ p.misled
      /\ p.comparison = None /\ p.load = page.load /\ p.pending = page.pending
      /\ p.state = page.state /\ p.token = page.token /\ p.shown = page.shown
  BY <1>1, SelectedIs
<1> HIDE DEF p
<1>3. PageBased(p) /\ Fits(p) /\ Busy(p, requests)
  BY <1>2, PageFacts DEF PageBased, Based, Fits, Busy
<1>. QED
  BY <1>2, <1>3, PageFacts, PageStep DEF Select, p

LEMMA NewDomainStep == ASSUME IInv, NewDomain PROVE IInv'
<1>1. PICK d \in Fresh : Becomes(Cleared(page, d))
  BY DEF NewDomain
<1> DEFINE p == Cleared(page, d)
<1>2. /\ p \in Page /\ p.id = d /\ p.rev = page.rev /\ p.base = Absent /\ ~p.misled
      /\ p.comparison = None /\ p.load = page.load /\ p.pending = page.pending
      /\ p.state = page.state /\ p.token = page.token /\ p.shown = page.shown
      /\ stored[d] = Absent
  BY PageFacts, ClearedIs
<1> HIDE DEF p
<1>3. PageBased(p) /\ Fits(p) /\ Busy(p, requests)
  BY <1>2, PageFacts DEF PageBased, Based, Fits, Busy
<1>. QED
  BY <1>1, <1>2, <1>3, PageFacts, PageStep DEF NewDomain, p

\* A request carries what the page shows, and what it was set against.
LEMMA RequestIs ==
    ASSUME IInv, Ready(page), NEW kind \in {"preview", "draft", "apply", "delete"}
    PROVE  Request(kind, page) \in RequestState /\ RequestBased(Request(kind, page))
           /\ Request(kind, page).waited
<1> DEFINE r == Request(kind, page)
<1>1. page \in Page /\ Submitted(page) \in Payload /\ Submitted(page).id = page.id /\ Submitted(page).rev = page.rev
  BY PageFacts DEF Submitted, Page, Payload
<1>2. /\ r.kind = kind /\ r.draft = Submitted(page) /\ r.waited = TRUE /\ r.reply = None /\ r.now = None
      /\ r.base = (IF kind = "preview" THEN None ELSE page.base)
      /\ kind # "preview" => r.misled = page.misled
  BY <1>1 DEF Request, Page
<1>3. r \in RequestState
  BY <1>1 DEF Request, RequestState, Page
<1> HIDE DEF r
<1>4. RequestBased(r)
  <2>1. Based(page.id, page.base, page.rev, page.misled) /\ page.base \in Content \cup {Absent}
    BY PageFacts DEF PageBased, Page
  <2>. QED
    BY <1>1, <1>2, <2>1 DEF RequestBased
<1>. QED
  BY <1>2, <1>3, <1>4 DEF r

LEMMA SendStep ==
    ASSUME IInv, Open, NEW kind \in {"preview", "draft", "apply", "delete"}, Send(kind), Spend,
           NEW p \in Page, page' = p, UNCHANGED controller,
           p.id = page.id, p.content = page.content, p.rev = page.rev, p.state = page.state,
           p.base = page.base, p.misled = page.misled, p.load = page.load,
           p.comparison = page.comparison, {p.token, p.shown} \subseteq {None, page.token, page.shown}
    PROVE  IInv'
<1>1. Request(kind, page) \in RequestState /\ RequestBased(Request(kind, page)) /\ Request(kind, page).waited
  BY RequestIs DEF Open
<1>2. requests' \subseteq RequestState /\ \A r \in requests' : RequestBased(r)
  BY <1>1, PageFacts DEF Send
<1>3. Busy(p, requests')
  BY <1>1 DEF Send, Busy
<1>4. PageBased(p) /\ Fits(p)
  BY PageFacts DEF PageBased, Fits, Ready
<1>5. Becomes(p)
  BY Unwatched DEF Submitted, Ready
<1>. QED
  BY <1>2, <1>3, <1>4, <1>5, PageFacts, PageStep

LEMMA SendSteps ==
    ASSUME IInv, SaveDraft \/ PreviewDomain \/ Apply \/ DeleteDomain
    PROVE  IInv'
<1>1. page \in Page
  BY PageFacts
<1>2. CASE SaveDraft
  <2> DEFINE p == [page EXCEPT !.pending = "draft"]
  <2>1. /\ p \in Page /\ p.id = page.id /\ p.content = page.content /\ p.rev = page.rev /\ p.state = page.state
        /\ p.base = page.base /\ p.misled = page.misled /\ p.load = page.load
        /\ p.comparison = page.comparison /\ p.token = page.token /\ p.shown = page.shown
    BY <1>1 DEF Page
  <2>2. page' = p /\ Open /\ Send("draft") /\ Spend /\ UNCHANGED controller
    BY <1>2 DEF SaveDraft
  <2> HIDE DEF p
  <2>. QED
    BY <2>1, <2>2, SendStep
<1>3. CASE PreviewDomain
  <2> DEFINE p == [page EXCEPT !.pending = "preview", !.token = None, !.shown = None]
  <2>1. /\ p \in Page /\ p.id = page.id /\ p.content = page.content /\ p.rev = page.rev /\ p.state = page.state
        /\ p.base = page.base /\ p.misled = page.misled /\ p.load = page.load
        /\ p.comparison = page.comparison /\ p.token = None /\ p.shown = None
    BY <1>1 DEF Page
  <2>2. page' = p /\ Open /\ Send("preview") /\ Spend /\ UNCHANGED controller
    BY <1>3 DEF PreviewDomain
  <2> HIDE DEF p
  <2>. QED
    BY <2>1, <2>2, SendStep
<1>4. CASE Apply
  <2> DEFINE p == [page EXCEPT !.pending = "save", !.shown = None]
  <2>1. /\ p \in Page /\ p.id = page.id /\ p.content = page.content /\ p.rev = page.rev /\ p.state = page.state
        /\ p.base = page.base /\ p.misled = page.misled /\ p.load = page.load
        /\ p.comparison = page.comparison /\ p.token = page.token /\ p.shown = None
    BY <1>1 DEF Page
  <2>2. page' = p /\ Open /\ Send("apply") /\ Spend /\ UNCHANGED controller
    BY <1>4 DEF Apply
  <2> HIDE DEF p
  <2>. QED
    BY <2>1, <2>2, SendStep
<1>5. CASE DeleteDomain
  <2> DEFINE p == [page EXCEPT !.pending = "save"]
  <2>1. /\ p \in Page /\ p.id = page.id /\ p.content = page.content /\ p.rev = page.rev /\ p.state = page.state
        /\ p.base = page.base /\ p.misled = page.misled /\ p.load = page.load
        /\ p.comparison = page.comparison /\ p.token = page.token /\ p.shown = page.shown
    BY <1>1 DEF Page
  <2>2. page' = p /\ Open /\ Send("delete") /\ Spend /\ UNCHANGED controller
    BY <1>5 DEF DeleteDomain
  <2> HIDE DEF p
  <2>. QED
    BY <2>1, <2>2, SendStep
<1>. QED
  BY <1>2, <1>3, <1>4, <1>5

LEMMA CompareStep == ASSUME IInv, Compare PROVE IInv'
<1> DEFINE seen == IF page.isNew THEN Absent ELSE stored[page.id]
           right == seen = stored[page.id]
           c == [id |-> page.id, rev |-> revision, content |-> seen, right |-> right]
           active == {d \in Domain : stored[d] # Absent}
           p == [page EXCEPT !.comparison = c, !.active = active]
<1>1. page \in Page /\ stored \in [Domain -> Content \cup {Absent}]
  BY PageFacts DEF IInv, TypeInv
<1>2. c \in Comparison
  BY <1>1, PageFacts DEF Comparison, Page
<1>3. c.id = page.id /\ c.rev = revision /\ c.content = seen /\ c.right = right
  OBVIOUS
<1>4. /\ page' = p /\ UNCHANGED <<controller, requests>> /\ Spend
  BY DEF Compare
<1>5. active \subseteq Domain
  OBVIOUS
<1> HIDE DEF c, active
<1>6. c.right \in BOOLEAN /\ (c.right => seen = stored[page.id])
  BY <1>2, <1>3 DEF Comparison
<1> HIDE DEF seen, right
<1>7. c.rev <= revision
  BY <1>3, PageFacts
<1>8. Based(c.id, c.content, c.rev, ~c.right)
  BY <1>3, <1>6, <1>7 DEF Based
<1>9. /\ p \in Page /\ p.comparison = c
      /\ p.id = page.id /\ p.content = page.content /\ p.rev = page.rev /\ p.state = page.state
      /\ p.base = page.base /\ p.misled = page.misled /\ p.load = page.load
      /\ p.pending = page.pending /\ p.token = page.token /\ p.shown = page.shown
  BY <1>1, <1>2, <1>5 DEF Page
<1> HIDE DEF p
<1>10. PageBased(p) /\ Fits(p) /\ Busy(p, requests)
  BY <1>8, <1>9, PageFacts DEF PageBased, Fits, Busy, Ready
<1>11. Becomes(p)
  BY <1>4, <1>9, Unwatched DEF Submitted, Ready
<1>. QED
  BY <1>4, <1>9, <1>10, <1>11, PageFacts, PageStep

\* Keeping the draft of a comparison sets it against what was compared.
LEMMA KeepStep == ASSUME IInv, Keep PROVE IInv'
<1> DEFINE c == page.comparison
           content == c.content
           isNew == page.isNew \/ content = Absent
           misled == c.id # page.id \/ ~c.right
           a == [page EXCEPT !.rev = c.rev, !.comparison = None, !.conflict = FALSE]
           p == [a EXCEPT !.isNew = isNew, !.base = content, !.misled = misled]
<1>1. page \in Page /\ c \in Comparison /\ c # None
  BY PageFacts DEF Page, Keep
<1>2. /\ a \in Page /\ a.rev = c.rev /\ a.comparison = None
      /\ a.id = page.id /\ a.content = page.content /\ a.state = page.state
      /\ a.load = page.load /\ a.isNew = page.isNew
      /\ a.pending = page.pending /\ a.token = page.token /\ a.shown = page.shown
  BY <1>1 DEF Page, Comparison
<1>3. Kept(page) = p
  BY <1>1 DEF Kept, Page
<1> HIDE DEF a
<1>4. isNew \in BOOLEAN /\ misled \in BOOLEAN /\ content \in Content \cup {Absent}
  BY <1>1 DEF Page, Comparison
<1> HIDE DEF isNew, misled, content
<1>5. a \in Page
  BY <1>2
<1>6. /\ p \in Page /\ p.rev = a.rev /\ p.comparison = a.comparison
      /\ p.id = a.id /\ p.content = a.content /\ p.state = a.state
      /\ p.base = content /\ p.misled = misled /\ p.load = a.load
      /\ p.pending = a.pending /\ p.token = a.token /\ p.shown = a.shown
  BY <1>5, <1>4 DEF Page
<1> HIDE DEF p
<1>7. /\ p \in Page /\ p.rev = c.rev /\ p.comparison = None
      /\ p.id = page.id /\ p.content = page.content /\ p.state = page.state
      /\ p.base = content /\ p.misled = misled /\ p.load = page.load
      /\ p.pending = page.pending /\ p.token = page.token /\ p.shown = page.shown
  BY <1>2, <1>6
<1>8. Based(p.id, p.base, p.rev, p.misled)
  <2>1. Based(c.id, c.content, c.rev, ~c.right)
    BY <1>1, PageFacts DEF PageBased
  <2>. QED
    BY <1>7, <2>1 DEF Based, misled, content
<1>9. PageBased(p) /\ Fits(p) /\ Busy(p, requests)
  BY <1>7, <1>8, PageFacts DEF PageBased, Based, Fits, Busy
<1>. QED
  BY <1>3, <1>7, <1>9, PageFacts, PageStep DEF Keep

LEMMA AdoptStep == ASSUME IInv, Adopt PROVE IInv'
<1> DEFINE q == Loading(page, "view")
           p == [q EXCEPT !.comparison = None, !.conflict = FALSE]
<1>1. /\ q \in Page /\ ~Ready(q) /\ q.rev = page.rev /\ q.token = page.token /\ q.shown = page.shown
      /\ q.load = [why |-> "view", snapshot |-> None] /\ q.state = "loading"
      /\ q.pending \in {None, page.pending}
      /\ page.load # None /\ page.load.why = "save" => q.pending = None
  BY LoadingIs
<1> HIDE DEF q
<1>2. /\ p \in Page /\ ~Ready(p) /\ p.rev = page.rev /\ p.token = page.token /\ p.shown = page.shown
      /\ p.comparison = None /\ p.load = [why |-> "view", snapshot |-> None]
      /\ p.pending \in {None, page.pending}
      /\ page.load # None /\ page.load.why = "save" => p.pending = None
  BY <1>1 DEF Page, Ready
<1> HIDE DEF p
<1>3. PageBased(p) /\ Fits(p) /\ Busy(p, requests)
  BY <1>2, PageFacts DEF PageBased, Fits, Busy
<1>. QED
  BY <1>2, <1>3, PageFacts, PageStep DEF Adopt, p, q

LEMMA UserStep == ASSUME IInv, User PROVE IInv'
<1>1. CASE Retry \/ Authenticated \/ NodesChange
  BY <1>1, LoadingStep, PageFacts DEF Retry, Authenticated, NodesChange
<1>. QED
  BY <1>1, EditStep, SelectStep, NewDomainStep, SendSteps, CompareStep, KeepStep, AdoptStep DEF User

-----------------------------------------------------------------------------
(* Answers to the page.                                                    *)

\* A request less, and the page goes on.
LEMMA ReceiveStep ==
    ASSUME IInv, NEW r \in requests, NEW p \in Page, Receive(r, p), PageBased(p), Fits(p),
           Busy(p, requests \ {r})
    PROVE  IInv'
BY PageFacts, PageStep DEF Receive

\* A page that awaits nothing any more, and otherwise stays as it is.
Opened(p) ==
    /\ p \in Page /\ p.pending = None
    /\ p.id = page.id /\ p.content = page.content /\ p.rev = page.rev /\ p.state = page.state
    /\ p.base = page.base /\ p.misled = page.misled /\ p.load = page.load
    /\ p.comparison = page.comparison

LEMMA OpenedFacts ==
    ASSUME IInv, NEW p, Opened(p), NEW answers
    PROVE  PageBased(p) /\ Busy(p, answers) /\ Submitted(p) = Submitted(page)
BY PageFacts DEF Opened, PageBased, Busy, Ready, Submitted

LEMMA FailedIs ==
    ASSUME IInv, NEW conflict \in BOOLEAN
    PROVE  LET p == [page EXCEPT !.pending = None, !.conflict = conflict] IN
           Opened(p) /\ p.token = page.token /\ p.shown = page.shown
BY PageFacts DEF Opened, Page

LEMMA FailedStep ==
    ASSUME IInv, NEW r \in requests, Receive(r, Failed(page, r))
    PROVE  IInv'
<1> DEFINE conflict == page.conflict \/ r.reply = "conflict"
           p == [page EXCEPT !.pending = None, !.conflict = conflict]
<1>1. page \in Page /\ conflict \in BOOLEAN
  BY PageFacts DEF Page
<1>2. Failed(page, r) = p
  BY <1>1 DEF Failed, Page
<1> HIDE DEF conflict
<1>3. Opened(p) /\ p.token = page.token /\ p.shown = page.shown
  BY <1>1, FailedIs
<1> HIDE DEF p
<1>4. PageBased(p) /\ Busy(p, requests \ {r}) /\ Fits(p) /\ p \in Page
  BY <1>3, OpenedFacts DEF Fits, Opened
<1>. QED
  BY <1>2, <1>4, ReceiveStep

LEMMA PreviewReplyStep == ASSUME IInv, NEW r \in requests, PreviewReply(r) PROVE IInv'
<1> DEFINE open == [page EXCEPT !.pending = None]
           token == IF r.reply = "valid" THEN r.draft ELSE None
           draft == r.draft
           p == [open EXCEPT !.shown = draft, !.token = token]
<1>1. page \in Page /\ draft \in Payload /\ token \in Payload \cup {None}
  BY PageFacts DEF RequestState
<1>2. Opened(open) /\ open.token = page.token /\ open.shown = page.shown
  BY <1>1 DEF Opened, Page
<1> HIDE DEF open, token, draft
<1>3. open \in Page
  BY <1>2 DEF Opened
<1>4. /\ p \in Page /\ p.token = token /\ p.shown = draft /\ p.pending = open.pending
      /\ p.id = open.id /\ p.content = open.content /\ p.rev = open.rev /\ p.state = open.state
      /\ p.base = open.base /\ p.misled = open.misled /\ p.load = open.load
      /\ p.comparison = open.comparison
  BY <1>1, <1>3 DEF Page
<1> HIDE DEF p
<1>5. Opened(p) /\ p.token = token /\ p.shown = draft
  BY <1>2, <1>4 DEF Opened
<1>6. CASE Receive(r, Failed(page, r))
  BY <1>6, FailedStep
<1>7. CASE Receive(r, open)
  <2>1. PageBased(open) /\ Busy(open, requests \ {r}) /\ Fits(open) /\ open \in Page
    BY <1>2, OpenedFacts DEF Fits, Opened
  <2>. QED
    BY <1>7, <2>1, ReceiveStep
<1>8. CASE Submitted(page) = draft /\ Receive(r, p)
  <2>1. PageBased(p) /\ Busy(p, requests \ {r}) /\ Fits(p) /\ p \in Page
    BY <1>5, <1>8, OpenedFacts DEF Fits, Opened, token, draft
  <2>. QED
    BY <1>8, <2>1, ReceiveStep
<1>. QED
  BY <1>6, <1>7, <1>8 DEF PreviewReply, open, token, draft, p

\* A load that has begun.
LEMMA Awaited ==
    ASSUME NEW load, load = [why |-> "save", snapshot |-> None]
    PROVE  load # None /\ load.snapshot = None /\ load.why = "save"
BY NoneAssumption DEF Load

\* A saved draft or an applied domain is loaded again, with the editor closed until then.
LEMMA ReloadStep ==
    ASSUME IInv, NEW r \in requests, NEW id \in Domain, NEW rev \in 1 .. revision,
           Receive(r, [Loading(page, "save") EXCEPT !.id = id, !.isNew = FALSE, !.rev = rev])
    PROVE  IInv'
<1> DEFINE q == Loading(page, "save")
           p == [q EXCEPT !.id = id, !.isNew = FALSE, !.rev = rev]
<1>1. /\ q \in Page /\ q.state = "loading" /\ q.token = page.token /\ q.shown = page.shown
      /\ q.comparison = page.comparison /\ q.load = [why |-> "save", snapshot |-> None]
  BY LoadingIs
<1> HIDE DEF q
<1>2. rev \in 1 .. MaxRevision /\ rev <= revision
  BY PageFacts, BoundAssumption
<1>3. q \in Page
  BY <1>1
<1>4. /\ p \in Page /\ p.state = q.state /\ p.token = q.token /\ p.shown = q.shown
      /\ p.comparison = q.comparison /\ p.load = q.load /\ p.rev = rev
  BY <1>2, <1>3 DEF Page
<1> HIDE DEF p
<1>5. PageBased(p) /\ Fits(p) /\ Busy(p, requests \ {r})
  BY <1>1, <1>2, <1>4, Awaited, PageFacts DEF PageBased, Fits, Busy, Ready
<1>. QED
  BY <1>4, <1>5, ReceiveStep DEF p, q

LEMMA DraftReplyStep == ASSUME IInv, NEW r \in requests, DraftReply(r) PROVE IInv'
<1>1. r.draft.id \in Domain /\ r.now \in 1 .. revision
  BY PageFacts DEF DraftReply, RequestState, Payload, RequestBased
<1>2. CASE r.reply = "ok"
  BY <1>1, <1>2, ReloadStep DEF DraftReply
<1>3. CASE r.reply # "ok"
  BY <1>3, FailedStep DEF DraftReply
<1>. QED
  BY <1>2, <1>3

LEMMA ApplyReplyStep == ASSUME IInv, NEW r \in requests, ApplyReply(r) PROVE IInv'
<1> DEFINE q == Loading(page, "save")
           id == r.draft.id
           p == [q EXCEPT !.id = id, !.isNew = FALSE]
<1>1. id \in Domain
  BY PageFacts DEF RequestState, Payload
<1>2. CASE r.reply = "ok"
  <2>1. /\ q \in Page /\ q.rev = page.rev /\ q.state = "loading"
        /\ q.token = page.token /\ q.shown = page.shown /\ q.comparison = page.comparison
        /\ q.load = [why |-> "save", snapshot |-> None]
    BY LoadingIs
  <2>2. Receive(r, p)
    BY <1>2 DEF ApplyReply
  <2> HIDE DEF q, id
  <2>3. q \in Page
    BY <2>1
  <2>4. /\ p \in Page /\ p.state = q.state /\ p.token = q.token /\ p.shown = q.shown
        /\ p.comparison = q.comparison /\ p.load = q.load /\ p.rev = q.rev
    BY <1>1, <2>3 DEF Page
  <2> HIDE DEF p
  <2>5. PageBased(p) /\ Fits(p) /\ Busy(p, requests \ {r})
    BY <2>1, <2>4, Awaited, PageFacts DEF PageBased, Fits, Busy, Ready
  <2>. QED
    BY <2>2, <2>4, <2>5, ReceiveStep
<1>3. CASE r.reply # "ok"
  BY <1>3, FailedStep DEF ApplyReply
<1>. QED
  BY <1>2, <1>3

\* What is shown next was on the page's list, and nothing tells whether it still holds.
LEMMA DeleteReplyStep == ASSUME IInv, NEW r \in requests, DeleteReply(r) PROVE IInv'
<1> DEFINE rest == {x \in page.list : page.isNew \/ x.id # page.id}
           now == r.now
           open == [page EXCEPT !.pending = None, !.list = rest]
           q == [open EXCEPT !.rev = now]
<1>1. page \in Page /\ rest \subseteq Entry
  BY PageFacts DEF Page
<1>2. now \in 1 .. revision
  BY PageFacts DEF DeleteReply, RequestBased
<1>3. page \in Page /\ rest \subseteq Entry /\ now \in 1 .. revision /\ now \in 1 .. MaxRevision
  BY <1>1, <1>2, PageFacts, BoundAssumption
<1>4. [page EXCEPT !.pending = None, !.list = rest, !.rev = now] = q
  BY <1>3 DEF Page
<1>5. \/ r.reply # "ok" /\ Receive(r, Failed(page, r))
      \/ \E x \in rest : Receive(r, Selected(q, x))
      \/ \E d \in Fresh : Receive(r, Cleared(q, d))
  BY <1>4 DEF DeleteReply
<1> HIDE DEF rest, now
<1>6. /\ open \in Page /\ open.pending = None /\ open.load = page.load /\ open.state = page.state
      /\ open.token = page.token /\ open.shown = page.shown
  BY <1>3 DEF Page
<1> HIDE DEF open
<1>7. open \in Page
  BY <1>6
<1>8. /\ q \in Page /\ q.rev = now /\ q.pending = open.pending /\ q.load = open.load
      /\ q.state = open.state /\ q.token = open.token /\ q.shown = open.shown
  BY <1>3, <1>7 DEF Page
<1> HIDE DEF q
<1>9. ASSUME NEW x \in rest, Receive(r, Selected(q, x))
      PROVE  IInv'
  <2> DEFINE p == Selected(q, x)
  <2>1. /\ p \in Page /\ p.rev = q.rev /\ p.misled
        /\ p.comparison = None /\ p.load = q.load /\ p.pending = q.pending
        /\ p.token = q.token /\ p.shown = q.shown
    BY <1>3, <1>8, SelectedIs
  <2> HIDE DEF p
  <2>2. PageBased(p) /\ Fits(p) /\ Busy(p, requests \ {r})
    BY <1>3, <1>6, <1>8, <2>1, PageFacts DEF PageBased, Based, Fits, Busy
  <2>. QED
    BY <1>9, <2>1, <2>2, ReceiveStep DEF p
<1>10. ASSUME NEW d \in Fresh, Receive(r, Cleared(q, d))
      PROVE  IInv'
  <2> DEFINE p == Cleared(q, d)
  <2>1. /\ p \in Page /\ p.id = d /\ p.rev = q.rev /\ p.base = Absent /\ ~p.misled
        /\ p.comparison = None /\ p.load = q.load /\ p.pending = q.pending
        /\ p.token = q.token /\ p.shown = q.shown /\ stored[d] = Absent
    BY <1>8, ClearedIs
  <2> HIDE DEF p
  <2>2. PageBased(p) /\ Fits(p) /\ Busy(p, requests \ {r})
    BY <1>3, <1>6, <1>8, <2>1, PageFacts DEF PageBased, Based, Fits, Busy
  <2>. QED
    BY <1>10, <2>1, <2>2, ReceiveStep DEF p
<1>. QED
  BY <1>5, <1>9, <1>10, FailedStep

LEMMA ReplyStep == ASSUME IInv, NEW r \in requests, Reply(r) PROVE IInv'
BY PreviewReplyStep, DraftReplyStep, ApplyReplyStep, DeleteReplyStep DEF Reply

-----------------------------------------------------------------------------
(* No answer comes.                                                        *)

\* The outcome is unknown to the page: a conflict to be looked at.
LEMMA UnknownIs ==
    ASSUME IInv, NEW answers
    PROVE  LET p == [page EXCEPT !.pending = None, !.conflict = TRUE] IN
           p \in Page /\ PageBased(p) /\ Fits(p) /\ Busy(p, answers)
<1> DEFINE p == [page EXCEPT !.pending = None, !.conflict = TRUE]
<1>1. Opened(p) /\ p.token = page.token /\ p.shown = page.shown
  BY FailedIs
<1> HIDE DEF p
<1>2. p \in Page /\ PageBased(p) /\ Fits(p) /\ Busy(p, answers)
  BY <1>1, OpenedFacts DEF Opened, Fits
<1>. QED
  BY <1>2 DEF p

LEMMA TimeOutStep == ASSUME IInv, NEW r \in requests, TimeOut(r) PROVE IInv'
<1> DEFINE p == [page EXCEPT !.pending = None, !.conflict = TRUE]
           late == [r EXCEPT !.waited = FALSE]
<1>1. p \in Page /\ PageBased(p) /\ Fits(p) /\ Busy(p, requests')
  BY UnknownIs
<1> HIDE DEF p
<1>2. r \in RequestState /\ RequestBased(r)
  BY PageFacts
<1>3. /\ late \in RequestState /\ late.kind = r.kind /\ late.draft = r.draft /\ late.base = r.base
      /\ late.misled = r.misled /\ late.reply = r.reply /\ late.now = r.now
  BY <1>2 DEF RequestState
<1>4. requests' \subseteq requests \cup {late}
  BY DEF TimeOut
<1> HIDE DEF late
<1>5. RequestBased(late)
  BY <1>2, <1>3 DEF RequestBased
<1>. QED
  BY <1>1, <1>3, <1>4, <1>5, PageFacts, PageStep DEF TimeOut, p

LEMMA CrashStep == ASSUME IInv, Crash PROVE IInv'
<1>1. CASE \E r \in requests : r.waited
  BY <1>1, UnknownIs, PageFacts, PageStep DEF Crash
<1>2. CASE ~ \E r \in requests : r.waited
  <2>1. Busy(page, {})
    BY <1>2, PageFacts DEF Busy
  <2>. QED
    BY <1>2, <2>1, PageFacts, PageStep DEF Crash
<1>. QED
  BY <1>1, <1>2

-----------------------------------------------------------------------------
(* The controller.                                                         *)

\* The revision only grows, and grows with what is stored.
Grown ==
    \/ revision' = revision /\ stored' = stored
    \/ revision' = revision + 1

\* What was said of an older revision still holds.
LEMMA StillBased ==
    ASSUME IInv, Grown, NEW d, NEW base, NEW rev \in Nat, NEW misled, Based(d, base, rev, misled)
    PROVE  rev <= revision' /\ (rev = revision' /\ ~misled => base = stored'[d])
BY PageFacts DEF Grown, Based

LEMMA StillBasedDraft ==
    ASSUME IInv, Grown, NEW d, NEW draft \in Draft \cup {None}, DraftBased(d, draft)
    PROVE  DraftBased(d, draft)'
<1>1. draft # None => draft.rev \in Nat
  BY BoundAssumption DEF Draft
<1>2. draft # None => draft.rev <= revision' /\ (draft.rev = revision' /\ ~draft.misled => draft.base = stored'[d])
  BY <1>1, StillBased DEF DraftBased
<1>. QED
  BY <1>2 DEF DraftBased, Based

LEMMA StillBasedSnapshot ==
    ASSUME IInv, Grown, NEW s \in Snapshot, SnapshotBased(s)
    PROVE  SnapshotBased(s)'
<1>1. ASSUME NEW d \in Domain PROVE DraftBased(d, s.drafts[d])'
  BY StillBasedDraft DEF Snapshot, SnapshotBased
<1>2. ASSUME NEW d \in Domain PROVE Based(d, s.stored[d], s.rev, FALSE)'
  <2>1. s.rev \in Nat
    BY BoundAssumption DEF Snapshot
  <2>2. Based(d, s.stored[d], s.rev, FALSE)
    BY DEF SnapshotBased
  <2>. QED
    BY <2>1, <2>2, StillBased DEF Based
<1>. QED
  BY <1>1, <1>2 DEF SnapshotBased

LEMMA StillBasedPage ==
    ASSUME IInv, Grown, page' = page
    PROVE  PageBased(page)'
<1>1. page \in Page /\ page.rev \in Nat
  BY PageFacts, BoundAssumption DEF Page
<1>2. page.rev <= revision'
  BY <1>1, PageFacts DEF Grown, PageBased
<1>3. Ready(page) => Based(page.id, page.base, page.rev, page.misled)'
  BY <1>1, PageFacts, StillBased DEF PageBased, Based
<1>4. page.comparison # None =>
         Based(page.comparison.id, page.comparison.content, page.comparison.rev, ~page.comparison.right)'
  <2> DEFINE c == page.comparison
  <2>1. c # None => c.rev \in Nat
    BY <1>1, BoundAssumption DEF Page, Comparison
  <2>2. c # None => Based(c.id, c.content, c.rev, ~c.right)
    BY PageFacts DEF PageBased
  <2>. QED
    BY <2>1, <2>2, StillBased DEF Based
<1>5. ASSUME page.load # None, page.load.snapshot # None
      PROVE  SnapshotBased(page.load.snapshot)'
  <2>1. page.load.snapshot \in Snapshot /\ SnapshotBased(page.load.snapshot)
    BY <1>1, <1>5, PageFacts DEF Page, Load, PageBased
  <2>. QED
    BY <2>1, StillBasedSnapshot DEF SnapshotBased, DraftBased, Based
<1>. QED
  BY <1>2, <1>3, <1>4, <1>5 DEF PageBased, Ready, Based, SnapshotBased, DraftBased

\* A request that stays as it was.
LEMMA StillBasedRequest ==
    ASSUME IInv, Grown, NEW r \in requests
    PROVE  RequestBased(r)'
<1>1. r \in RequestState /\ RequestBased(r) /\ r.draft.rev \in Nat
  BY PageFacts, BoundAssumption DEF RequestState, Payload
<1>2. r.kind # "preview" => r.base \in Content \cup {Absent} /\ Based(r.draft.id, r.base, r.draft.rev, r.misled)'
  BY <1>1, StillBased DEF RequestBased, Based
<1>3. IF r.reply = None THEN r.now = None ELSE r.now \in 1 .. revision'
  BY <1>1, PageFacts DEF RequestBased, Grown
<1>. QED
  BY <1>2, <1>3 DEF RequestBased

LEMMA ControllerStep ==
    ASSUME IInv, Grown, page' = page, patience' = patience,
           revision' \in 1 .. MaxRevision, stored' \in [Domain -> Content \cup {Absent}],
           drafts' \in [Domain -> Draft \cup {None}],
           \A d \in Domain : drafts'[d] \in {None, drafts[d]} \/ DraftBased(d, drafts'[d]),
           requests' \subseteq RequestState, \A r \in requests' : RequestBased(r)',
           (\E r \in requests : r.waited) => \E r \in requests' : r.waited
    PROVE  IInv'
<1>1. TypeInv'
  BY DEF IInv, TypeInv
<1>2. ASSUME NEW d \in Domain PROVE DraftBased(d, drafts[d])'
  <2>1. drafts'[d] \in Draft \cup {None} /\ DraftBased(d, drafts'[d])
    BY DEF IInv, BasedInv, DraftBased
  <2>. QED
    BY <2>1, StillBasedDraft DEF DraftBased, Based
<1>3. BasedInv'
  BY <1>2, StillBasedPage DEF BasedInv
<1>4. PreviewIsCurrent' /\ ClosedOnlyWhileBusy'
  BY DEF IInv, PreviewIsCurrent, ClosedOnlyWhileBusy, Submitted
<1>. QED
  BY <1>1, <1>3, <1>4 DEF IInv

LEMMA AnswerIs ==
    ASSUME IInv, Grown, revision' \in 1 .. MaxRevision, NEW r \in requests,
           NEW reply \in Outcome, Answer(r, reply)
    PROVE  /\ requests' \subseteq RequestState /\ \A q \in requests' : RequestBased(q)'
           /\ (\E q \in requests : q.waited) => \E q \in requests' : q.waited
           /\ requests' \subseteq requests \cup {[r EXCEPT !.reply = reply, !.now = revision']}
<1> DEFINE a == [r EXCEPT !.reply = reply, !.now = revision']
<1>1. r \in RequestState /\ RequestBased(r) /\ RequestBased(r)'
  BY PageFacts, StillBasedRequest
<1>2. /\ a \in RequestState /\ a.kind = r.kind /\ a.draft = r.draft /\ a.waited = r.waited
      /\ a.base = r.base /\ a.misled = r.misled /\ a.reply = reply /\ a.now = revision'
  BY <1>1 DEF RequestState
<1>3. requests' = (requests \ {r}) \cup (IF r.waited \/ reply = "committed" THEN {a} ELSE {})
  BY DEF Answer
<1> HIDE DEF a
<1>4. reply # None /\ revision' \in 1 .. revision'
  BY NoneAssumption, BoundAssumption
<1>5. ASSUME NEW q \in requests' PROVE q \in RequestState /\ RequestBased(q)'
  <2>1. CASE q = a
    BY <1>1, <1>2, <1>4, <2>1 DEF RequestBased, Based
  <2>2. CASE q \in requests
    BY <2>2, PageFacts, StillBasedRequest
  <2>. QED
    BY <1>3, <2>1, <2>2
<1>. QED
  BY <1>2, <1>3, <1>5 DEF a

\* An answer that changes nothing else.
LEMMA JustAnswered ==
    ASSUME IInv, NEW r \in requests, NEW reply \in Outcome, Answer(r, reply),
           UNCHANGED <<controller, page, patience>>
    PROVE  IInv'
<1>1. Grown /\ revision' = revision /\ stored' = stored /\ drafts' = drafts
  BY DEF Grown, controller
<1>. QED
  BY <1>1, AnswerIs, ControllerStep DEF IInv, TypeInv

LEMMA CommitIs ==
    ASSUME IInv, NEW d \in Domain, NEW content \in Content \cup {Absent}, Commit(d, content)
    PROVE  Grown /\ revision' \in 1 .. MaxRevision /\ stored' \in [Domain -> Content \cup {Absent}]
BY PageFacts, BoundAssumption DEF IInv, TypeInv, Commit, Grown

LEMMA HandleDraftStep == ASSUME IInv, NEW r \in requests, HandleDraft(r) PROVE IInv'
<1> DEFINE d == r.draft.id
           draft == [content |-> r.draft.content, rev |-> r.draft.rev, base |-> r.base, misled |-> r.misled]
<1>1. CASE drafts' = [drafts EXCEPT ![d] = draft] /\ Answer(r, "ok")
  <2>1. r \in RequestState /\ RequestBased(r) /\ r.kind = "draft" /\ drafts \in [Domain -> Draft \cup {None}]
    BY PageFacts DEF HandleDraft, IInv, TypeInv
  <2>2. d \in Domain /\ draft \in Draft /\ DraftBased(d, draft)
    BY <2>1 DEF RequestState, Payload, RequestBased, Draft, DraftBased, Based
  <2>3. /\ Grown /\ revision' \in 1 .. MaxRevision /\ stored' \in [Domain -> Content \cup {Absent}]
        /\ page' = page /\ patience' = patience
    BY DEF HandleDraft, Grown, IInv, TypeInv
  <2> HIDE DEF d, draft
  <2>4. drafts' \in [Domain -> Draft \cup {None}] /\ \A x \in Domain : drafts'[x] = drafts[x] \/ (x = d /\ drafts'[x] = draft)
    BY <1>1, <2>1, <2>2
  <2>. QED
    BY <1>1, <2>2, <2>3, <2>4, AnswerIs, ControllerStep DEF Outcome
<1>2. CASE UNCHANGED drafts /\ Answer(r, "conflict")
  BY <1>2, JustAnswered DEF HandleDraft, Outcome, controller
<1>. QED
  BY <1>1, <1>2 DEF HandleDraft

\* A commit for a request of the page.
LEMMA CommitStep ==
    ASSUME IInv, NEW r \in requests, NEW content \in Content \cup {Absent},
           Commit(r.draft.id, content), Answer(r, "committed"), UNCHANGED <<drafts, page, patience>>
    PROVE  IInv'
<1>1. r.draft.id \in Domain /\ drafts' \in [Domain -> Draft \cup {None}]
  BY PageFacts DEF RequestState, Payload, IInv, TypeInv
<1>2. Grown /\ revision' \in 1 .. MaxRevision /\ stored' \in [Domain -> Content \cup {Absent}]
  BY <1>1, CommitIs
<1>. QED
  BY <1>1, <1>2, AnswerIs, ControllerStep DEF Outcome

\* A draft that goes.
LEMMA DroppedIs ==
    ASSUME IInv, NEW d, drafts' = [drafts EXCEPT ![d] = None]
    PROVE  drafts' \in [Domain -> Draft \cup {None}] /\ \A x \in Domain : drafts'[x] \in {None, drafts[x]}
BY DEF IInv, TypeInv

LEMMA HandleApplyStep == ASSUME IInv, NEW r \in requests, HandleApply(r) PROVE IInv'
<1>1. CASE Applicable(r) /\ Commit(r.draft.id, r.draft.content) /\ Answer(r, "committed")
  <2>1. r.draft.content \in Content \cup {Absent}
    BY PageFacts DEF RequestState, Payload
  <2>. QED
    BY <1>1, <2>1, CommitStep DEF HandleApply
<1>2. CASE UNCHANGED <<revision, stored>> /\ \E reply \in {"conflict", "failed"} : Answer(r, reply)
  BY <1>2, JustAnswered DEF HandleApply, Outcome, controller
<1>. QED
  BY <1>1, <1>2 DEF HandleApply

LEMMA HandleDeleteStep == ASSUME IInv, NEW r \in requests, HandleDelete(r) PROVE IInv'
<1>1. CASE Commit(r.draft.id, Absent) /\ Answer(r, "committed") /\ UNCHANGED drafts
  BY <1>1, CommitStep DEF HandleDelete
<1>2. CASE UNCHANGED <<revision, stored>> /\ drafts' = [drafts EXCEPT ![r.draft.id] = None] /\ Answer(r, "ok")
  <2>1. Grown /\ revision' \in 1 .. MaxRevision /\ stored' \in [Domain -> Content \cup {Absent}]
    BY <1>2 DEF Grown, IInv, TypeInv
  <2>. QED
    BY <1>2, <2>1, DroppedIs, AnswerIs, ControllerStep DEF HandleDelete, Outcome
<1>3. CASE UNCHANGED controller /\ \E reply \in {"conflict", "failed"} : Answer(r, reply)
  BY <1>3, JustAnswered DEF HandleDelete, Outcome
<1>. QED
  BY <1>1, <1>2, <1>3 DEF HandleDelete

LEMMA DropDraftStep == ASSUME IInv, NEW r \in requests, DropDraft(r) PROVE IInv'
<1> DEFINE a == [r EXCEPT !.reply = "ok"]
<1>1. r \in RequestState /\ RequestBased(r) /\ RequestBased(r)' /\ Grown
  BY PageFacts, StillBasedRequest DEF DropDraft, Grown
<1>2. /\ a \in RequestState /\ a.kind = r.kind /\ a.draft = r.draft /\ a.waited = r.waited
      /\ a.base = r.base /\ a.misled = r.misled /\ a.reply = "ok" /\ a.now = r.now
  BY <1>1 DEF RequestState, Outcome
<1>3. requests' = (requests \ {r}) \cup (IF r.waited THEN {a} ELSE {})
  BY DEF DropDraft
<1> HIDE DEF a
<1>4. "ok" # None /\ r.reply # None
  BY NoneAssumption DEF Outcome, DropDraft
<1>5. RequestBased(a)'
  BY <1>1, <1>2, <1>4 DEF RequestBased
<1>6. /\ requests' \subseteq RequestState /\ \A q \in requests' : RequestBased(q)'
      /\ (\E q \in requests : q.waited) => \E q \in requests' : q.waited
  BY <1>2, <1>3, <1>5, PageFacts, StillBasedRequest, <1>1
<1>7. revision' \in 1 .. MaxRevision /\ stored' \in [Domain -> Content \cup {Absent}]
  BY DEF DropDraft, IInv, TypeInv
<1>. QED
  BY <1>1, <1>6, <1>7, DroppedIs, ControllerStep DEF DropDraft

LEMMA HandleStep == ASSUME IInv, NEW r \in requests, Handle(r) PROVE IInv'
<1>1. CASE HandlePreview(r)
  BY <1>1, JustAnswered DEF HandlePreview, Outcome
<1>. QED
  BY <1>1, HandleDraftStep, HandleApplyStep, HandleDeleteStep, DropDraftStep DEF Handle

LEMMA OthersStep == ASSUME IInv, Others PROVE IInv'
<1>1. PICK d \in Domain, content \in Content \cup {Absent} :
         Commit(d, content) /\ drafts' = [drafts EXCEPT ![d] = None]
  BY DEF Others
<1>2. Grown /\ revision' \in 1 .. MaxRevision /\ stored' \in [Domain -> Content \cup {Absent}]
  BY <1>1, CommitIs
<1>3. \A q \in requests' : RequestBased(q)'
  BY <1>2, StillBasedRequest DEF Others
<1>. QED
  BY <1>1, <1>2, <1>3, DroppedIs, PageFacts, ControllerStep DEF Others

-----------------------------------------------------------------------------
(* What holds always.                                                      *)

LEMMA Initially == ASSUME Init PROVE IInv
<1>1. /\ revision = 1 /\ 1 \in 1 .. MaxRevision /\ patience \in 0 .. Patience /\ requests = {}
      /\ stored \in [Domain -> Content \cup {Absent}] /\ drafts = [d \in Domain |-> None]
  BY BoundAssumption, ContentAssumption DEF Init
<1> DEFINE load == [why |-> "view", snapshot |-> None]
<1>2. PICK d \in Domain :
         /\ stored[d] = Absent
         /\ page = [id |-> d, isNew |-> TRUE, content |-> Empty, base |-> Absent,
                    misled |-> FALSE, rev |-> 1, active |-> {}, list |-> {}, conflict |-> FALSE,
                    comparison |-> None, state |-> "loading", pending |-> None,
                    load |-> load, token |-> None, shown |-> None]
  BY DEF Init
<1>3. load \in Load /\ load.snapshot = None
  BY DEF Load
<1> HIDE DEF load
<1>4. page \in Page
  BY <1>1, <1>2, <1>3, ContentAssumption DEF Page
<1>5. /\ page.rev = 1 /\ page.state = "loading" /\ page.comparison = None /\ page.load = load
      /\ page.pending = None /\ page.token = None /\ page.shown = None
  BY <1>2
<1>6. TypeInv
  BY <1>1, <1>4 DEF TypeInv
<1>7. BasedInv
  BY <1>1, <1>3, <1>5 DEF BasedInv, DraftBased, PageBased, Ready
<1>. QED
  BY <1>5, <1>6, <1>7 DEF IInv, PreviewIsCurrent, ClosedOnlyWhileBusy

LEMMA Inductive == ASSUME IInv, [Next]_vars PROVE IInv'
<1>1. CASE Next
  BY <1>1, UserStep, ReadStep, LoadReplyStep, LoadFailsStep, HandleStep, ReplyStep, TimeOutStep,
     OthersStep, CrashStep DEF Next
<1>2. CASE UNCHANGED vars
  BY <1>2 DEF vars, controller, IInv, TypeInv, BasedInv, DraftBased, Based, PageBased, Ready,
     SnapshotBased, RequestBased, PreviewIsCurrent, Submitted, ClosedOnlyWhileBusy
<1>. QED
  BY <1>1, <1>2

LEMMA Invariant == Spec => []IInv
<1>1. Init => IInv
  BY Initially
<1>2. IInv /\ [Next]_vars => IInv'
  BY Inductive
<1>. QED
  BY <1>1, <1>2, PTL DEF Spec

\* What the controller stores and the page shows has the type it should have.
THEOREM TypeCorrect == Spec => []TypeOK
<1>1. IInv => TypeOK
  BY DEF IInv, TypeInv, TypeOK, Page
<1>. QED
  BY <1>1, Invariant, PTL

\* The text and the credentials of a preview always belong to what the page shows.
THEOREM PreviewStaysCurrent == Spec => []PreviewIsCurrent
<1>1. IInv => PreviewIsCurrent
  BY DEF IInv
<1>. QED
  BY <1>1, Invariant, PTL

\* The editor is closed only while an answer, or the load after it, is awaited.
THEOREM ReopensAfterwards == Spec => []ClosedOnlyWhileBusy
<1>1. IInv => ClosedOnlyWhileBusy
  BY DEF IInv
<1>. QED
  BY <1>1, Invariant, PTL

\* Only the controller commits, and only the request it handles.
LEMMA Commits ==
    ASSUME IInv, Next, NEW r \in requests, CommittedBy(r)
    PROVE  Current(r) /\ r.kind \in {"apply", "delete"}
<1>1. revision' # revision
  BY DEF CommittedBy
<1>2. /\ r \in RequestState /\ RequestBased(r) /\ r.reply = None /\ r.now = None
      /\ "committed" # None
  BY PageFacts, NoneAssumption DEF CommittedBy, RequestBased, Outcome
<1> DEFINE a == [r EXCEPT !.reply = "committed", !.now = revision']
<1>3. a \in requests' /\ a.reply = "committed" /\ a.now = revision' /\ a.kind = r.kind /\ a.draft = r.draft
  BY <1>2 DEF CommittedBy, RequestState
<1> HIDE DEF a
<1>4. revision' = revision + 1 => a \notin requests
  BY <1>2, <1>3, PageFacts DEF RequestBased
<1>5. ASSUME NEW q \in requests, Current(q), q.kind \in {"apply", "delete"}, NEW d, NEW content,
             Commit(d, content), Answer(q, "committed")
      PROVE  Current(r) /\ r.kind \in {"apply", "delete"}
  <2> DEFINE b == [q EXCEPT !.reply = "committed", !.now = revision']
  <2>1. requests' = (requests \ {q}) \cup {b}
    BY <1>5 DEF Answer
  <2>2. b.kind = q.kind /\ b.draft = q.draft
    BY PageFacts DEF RequestState
  <2> HIDE DEF b
  <2>3. a = b
    BY <1>3, <1>4, <1>5, <2>1 DEF Commit
  <2>. QED
    BY <1>3, <1>5, <2>2, <2>3 DEF Current
<1>6. CASE \E q \in requests : HandleApply(q) \/ HandleDelete(q)
  BY <1>1, <1>5, <1>6 DEF HandleApply, HandleDelete, Applicable, controller
<1>7. CASE Others
  BY <1>3, <1>4, <1>7 DEF Others, Commit
<1>8. CASE \E q \in requests : HandlePreview(q) \/ HandleDraft(q) \/ DropDraft(q)
  BY <1>1, <1>8 DEF HandlePreview, HandleDraft, DropDraft, controller
<1>9. CASE \E q \in requests : Reply(q) \/ TimeOut(q)
  BY <1>1, <1>9 DEF Reply, PreviewReply, DraftReply, ApplyReply, DeleteReply, Receive, TimeOut, controller
<1>10. CASE User \/ ReadDomains \/ LoadReply \/ LoadFails \/ Crash
  BY <1>1, <1>10 DEF User, Edit, Select, NewDomain, SaveDraft, PreviewDomain, Apply, DeleteDomain,
     Compare, Keep, Adopt, Retry, Authenticated, NodesChange, ReadDomains, LoadReply, LoadFails,
     Crash, controller
<1>. QED
  BY <1>6, <1>7, <1>8, <1>9, <1>10 DEF Next, Handle

\* What an apply or a deletion of the page replaces was compared with first, whatever
\* others, lost answers and restored drafts did.
THEOREM OverwritesNothingUnseen == Spec => NoBlindOverwrite
<1>1. IInv /\ [Next]_vars =>
        [\A r \in requests : CommittedBy(r) /\ ~r.misled => r.base = stored[r.draft.id]]_vars
  <2>1. ASSUME IInv, Next, NEW r \in requests, CommittedBy(r), ~r.misled
        PROVE  r.base = stored[r.draft.id]
    <3>1. Current(r) /\ r.kind \in {"apply", "delete"}
      BY <2>1, Commits
    <3>2. RequestBased(r)
      BY <2>1, PageFacts
    <3>. QED
      BY <2>1, <3>1, <3>2 DEF RequestBased, Based, Current
  <2>. QED
    BY <2>1
<1>. QED
  BY <1>1, Invariant, PTL DEF Spec, NoBlindOverwrite

-----------------------------------------------------------------------------
(* What is there once.                                                     *)

LEMMA Least ==
    ASSUME NEW S \in SUBSET Nat, S # {}
    PROVE  Min(S) \in S /\ \A n \in S : Min(S) <= n
<1> PICK N \in S : TRUE
  OBVIOUS
<1> DEFINE Down == {0 .. n : n \in {m \in S : m <= N}}
<1>1. Down \subseteq FiniteSubsetsOf(0 .. N) /\ Down # {}
  <2>1. \A n \in S : n <= N => 0 .. n \subseteq 0 .. N
    OBVIOUS
  <2>2. \A n \in S : IsFiniteSet(0 .. n)
    BY FS_Interval
  <2>3. N \in {m \in S : m <= N}
    OBVIOUS
  <2>. QED
    BY <2>1, <2>2, <2>3 DEF FiniteSubsetsOf
<1>2. IsFiniteSet(0 .. N)
  BY FS_Interval
<1>3. PICK x \in Down : \A y \in Down : <<y, x>> \notin StrictSubsetOrdering(0 .. N)
  BY <1>1, <1>2, FS_StrictSubsetOrderingWellFounded, WFMin
<1>4. PICK n \in S : n <= N /\ x = 0 .. n
  OBVIOUS
<1>5. ASSUME NEW m \in S, m < n PROVE FALSE
  <2>1. 0 .. m \in Down /\ 0 .. m \subseteq 0 .. n /\ 0 .. m # 0 .. n /\ 0 .. n \subseteq 0 .. N
    BY <1>4, <1>5
  <2>. QED
    BY <1>3, <1>4, <2>1 DEF StrictSubsetOrdering
<1>6. \E k \in S : \A m \in S : k <= m
  BY <1>4, <1>5
<1>. QED
  BY <1>6 DEF Min

Good(d) == d \in DomainRecord /\ Proper(d)

OneEachNode(c) == \A x, y \in c : x.node = y.node => x = y
OneEachArea(c) == \A x, y \in c : x.area = y.area => x = y

GoodConfigs(c) == c \subseteq NodeConfig /\ OneEachNode(c) /\ \A x \in c : OneEachArea(x.options)
GoodLinks(set) == set \subseteq Link /\ \A l, k \in set : l.id = k.id => l = k
GoodMembers(set) == set \subseteq Member /\ OneEachNode(set)
GoodAreas(set) ==
    set \subseteq AreaEntry /\ OneEachArea(set) /\ \A x \in set : x.options.area = x.area

\* A domain is good part by part.
LEMMA Parts ==
    ASSUME NEW d \in DomainRecord
    PROVE  Good(d) <=> /\ GoodConfigs(d.configs) /\ GoodLinks(d.links)
                       /\ GoodMembers(d.members) /\ GoodAreas(d.areas)
<1>1. /\ d.configs \subseteq NodeConfig /\ d.links \subseteq Link
      /\ d.members \subseteq Member /\ d.areas \subseteq AreaEntry
  BY DEF DomainRecord
<1>2. Proper(d) <=> /\ OneEachNode(d.configs) /\ \A x \in d.configs : OneEachArea(x.options)
                    /\ \A l, k \in d.links : l.id = k.id => l = k
                    /\ OneEachNode(d.members)
                    /\ OneEachArea(d.areas) /\ \A x \in d.areas : x.options.area = x.area
  BY DEF Proper, OneEachNode, OneEachArea
<1>. QED
  BY <1>1, <1>2 DEF Good, GoodConfigs, GoodLinks, GoodMembers, GoodAreas

LEMMA AtNodeIs ==
    ASSUME NEW c
    PROVE  /\ \A n \in Nodes(c) : AtNode(c, n) \in c /\ AtNode(c, n).node = n
           /\ \A x \in c : x.node \in Nodes(c)
           /\ OneEachNode(c) => \A x \in c : AtNode(c, x.node) = x
<1>1. ASSUME NEW n \in Nodes(c) PROVE AtNode(c, n) \in c /\ AtNode(c, n).node = n
  <2>1. \E x \in c : x.node = n
    BY DEF Nodes
  <2>. QED
    BY <2>1 DEF AtNode
<1>2. \A x \in c : x.node \in Nodes(c)
  BY DEF Nodes
<1>. QED
  BY <1>1, <1>2 DEF OneEachNode

LEMMA AtAreaIs ==
    ASSUME NEW c
    PROVE  /\ \A a \in Areas(c) : AtArea(c, a) \in c /\ AtArea(c, a).area = a
           /\ \A x \in c : x.area \in Areas(c)
           /\ OneEachArea(c) => \A x \in c : AtArea(c, x.area) = x
<1>1. ASSUME NEW a \in Areas(c) PROVE AtArea(c, a) \in c /\ AtArea(c, a).area = a
  <2>1. \E x \in c : x.area = a
    BY DEF Areas
  <2>. QED
    BY <2>1 DEF AtArea
<1>2. \A x \in c : x.area \in Areas(c)
  BY DEF Areas
<1>. QED
  BY <1>1, <1>2 DEF OneEachArea

\* The fields of a domain and its parts.
LEMMA GoodFacts ==
    ASSUME NEW d, Good(d)
    PROVE  /\ d \in DomainRecord /\ d.structured \in BOOLEAN
           /\ GoodConfigs(d.configs) /\ GoodLinks(d.links)
           /\ GoodMembers(d.members) /\ GoodAreas(d.areas)
           /\ d.configs \subseteq NodeConfig /\ OneEachNode(d.configs)
           /\ d.links \subseteq Link /\ \A l, k \in d.links : l.id = k.id => l = k
           /\ d.members \subseteq Member /\ OneEachNode(d.members)
           /\ d.areas \subseteq AreaEntry /\ OneEachArea(d.areas)
           /\ \A x \in d.configs : /\ x.node \in Node /\ x.enabled \in BOOLEAN
                                   /\ x.versions \subseteq Family
                                   /\ x.options \subseteq Option /\ OneEachArea(x.options)
                                   /\ x.virtual \subseteq VirtualLink
           /\ \A x \in d.areas : /\ x.area \in Area /\ x.options \in Option
                                 /\ x.type \in {"normal", "stub"} /\ x.nets \subseteq Net
                                 /\ x.options.area = x.area
                                 /\ x.virtual \subseteq [node : Node, link : VirtualLink]
<1>1. d \in DomainRecord /\ Proper(d)
  BY DEF Good
<1>2. /\ d.structured \in BOOLEAN /\ d.configs \subseteq NodeConfig /\ d.links \subseteq Link
      /\ d.members \subseteq Member /\ d.areas \subseteq AreaEntry
  BY <1>1 DEF DomainRecord
<1>3. \A x \in d.configs : /\ x.node \in Node /\ x.enabled \in BOOLEAN
                           /\ x.versions \subseteq Family
                           /\ x.options \subseteq Option
                           /\ x.virtual \subseteq VirtualLink
  BY <1>2 DEF NodeConfig
<1>4. \A x \in d.areas : /\ x.area \in Area /\ x.options \in Option
                         /\ x.type \in {"normal", "stub"} /\ x.nets \subseteq Net
                         /\ x.virtual \subseteq [node : Node, link : VirtualLink]
  BY <1>2 DEF AreaEntry
<1>5. \A l, k \in d.links : l.id = k.id => l = k
  BY <1>1 DEF Proper
<1>6. OneEachNode(d.configs) /\ OneEachNode(d.members)
  BY <1>1 DEF Proper, OneEachNode
<1>7. OneEachArea(d.areas) /\ \A x \in d.configs : OneEachArea(x.options)
  BY <1>1 DEF Proper, OneEachArea
<1>8. \A x \in d.areas : x.options.area = x.area
  BY <1>1 DEF Proper
<1>. QED
  BY <1>1, <1>2, <1>3, <1>4, <1>5, <1>6, <1>7, <1>8, Parts

\* A domain with other configurations.
LEMMA WithConfigs ==
    ASSUME NEW d, Good(d), NEW c, c \subseteq NodeConfig, OneEachNode(c),
           \A x \in c : OneEachArea(x.options)
    PROVE  LET new == [d EXCEPT !.configs = c] IN
           /\ Good(new) /\ new.configs = c /\ new.links = d.links
           /\ new.members = d.members /\ new.areas = d.areas /\ new.structured = d.structured
<1> DEFINE new == [d EXCEPT !.configs = c]
<1>1. /\ new \in DomainRecord /\ new.configs = c /\ new.links = d.links
      /\ new.members = d.members /\ new.areas = d.areas /\ new.structured = d.structured
  BY DEF Good, DomainRecord
<1> HIDE DEF new
<1>2. Proper(new)
  BY <1>1 DEF Good, Proper, OneEachNode, OneEachArea
<1>. QED
  BY <1>1, <1>2 DEF Good, new

-----------------------------------------------------------------------------
(* The way back.                                                           *)

Member2Config(d, m) ==
    [node |-> m.node, enabled |-> m.enabled, versions |-> m.versions,
     options |-> UNION {AreaOptions(d.configs, m.node, x) : x \in d.areas},
     virtual |-> {e.link : e \in {f \in ListedLinks(d.areas) : f.node = m.node}}]

\* The settings node n gets for an area.
LEMMA AreaOptionsFacts ==
    ASSUME NEW d, Good(d), NEW x \in d.areas, NEW n
    PROVE  /\ AreaOptions(d.configs, n, x) \subseteq Option
           /\ \A o \in AreaOptions(d.configs, n, x) : o.area = x.area
           /\ \A o, p \in AreaOptions(d.configs, n, x) : o = p
<1>1. CASE n \in Nodes(d.configs) /\ Retained(d.configs, x)
  <2>1. AtNode(d.configs, n) \in d.configs
    BY <1>1, AtNodeIs
  <2>2. AreaOptions(d.configs, n, x) = {o \in AtNode(d.configs, n).options : o.area = x.area}
    BY <1>1 DEF AreaOptions
  <2>. QED
    BY <2>1, <2>2, GoodFacts DEF OneEachArea
<1>2. CASE ~(n \in Nodes(d.configs) /\ Retained(d.configs, x))
  <2> DEFINE new == [x.options EXCEPT !.type = x.type, !.nets = x.nets]
  <2>1. AreaOptions(d.configs, n, x) = {new}
    BY <1>2 DEF AreaOptions
  <2>2. new \in Option /\ new.area = x.area
    BY GoodFacts DEF Option
  <2>. QED
    BY <2>1, <2>2
<1>. QED
  BY <1>1, <1>2

LEMMA ListedFacts ==
    ASSUME NEW d, Good(d)
    PROVE  /\ \A e \in ListedLinks(d.areas) : e.link \in VirtualLink
           /\ \A x \in d.areas : \A e \in x.virtual :
                 [by |-> x.area, node |-> e.node, link |-> e.link] \in ListedLinks(d.areas)
           /\ \A f \in ListedLinks(d.areas) : \E x \in d.areas : \E e \in x.virtual :
                 f = [by |-> x.area, node |-> e.node, link |-> e.link]
<1>1. \A f \in ListedLinks(d.areas) : \E x \in d.areas : \E e \in x.virtual :
          f = [by |-> x.area, node |-> e.node, link |-> e.link]
  BY DEF ListedLinks
<1>2. \A x \in d.areas : \A e \in x.virtual :
          [by |-> x.area, node |-> e.node, link |-> e.link] \in ListedLinks(d.areas)
  BY DEF ListedLinks
<1>. QED
  BY <1>1, <1>2, GoodFacts

LEMMA ConfigFacts ==
    ASSUME NEW d, Good(d), NEW m \in d.members
    PROVE  LET x == Member2Config(d, m) IN
           /\ x \in NodeConfig /\ OneEachArea(x.options)
           /\ x.node = m.node /\ x.enabled = m.enabled /\ x.versions = m.versions
           /\ x.virtual = {e.link : e \in {f \in ListedLinks(d.areas) : f.node = m.node}}
           /\ Areas(x.options) \subseteq Areas(d.areas)
           /\ \A z \in d.areas : {o \in x.options : o.area = z.area} = AreaOptions(d.configs, m.node, z)
<1> DEFINE x == Member2Config(d, m)
<1>1. /\ x.node = m.node /\ x.enabled = m.enabled /\ x.versions = m.versions
      /\ x.options = UNION {AreaOptions(d.configs, m.node, z) : z \in d.areas}
      /\ x.virtual = {e.link : e \in {f \in ListedLinks(d.areas) : f.node = m.node}}
  BY DEF Member2Config
<1>2. /\ m.node \in Node /\ m.enabled \in BOOLEAN /\ m.versions \subseteq Family
  BY GoodFacts DEF Member
<1>a. \A z \in d.areas : /\ AreaOptions(d.configs, m.node, z) \subseteq Option
                         /\ \A o \in AreaOptions(d.configs, m.node, z) : o.area = z.area
                         /\ \A o, p \in AreaOptions(d.configs, m.node, z) : o = p
  BY AreaOptionsFacts
<1>b. \A o : o \in x.options <=> \E z \in d.areas : o \in AreaOptions(d.configs, m.node, z)
  BY <1>1
<1>c. \A y, z \in d.areas : y.area = z.area => y = z
  BY GoodFacts DEF OneEachArea
<1> HIDE DEF x
<1>3. \A o \in x.options : \E z \in d.areas : o \in AreaOptions(d.configs, m.node, z) /\ o.area = z.area
  BY <1>a, <1>b
<1>4. x.options \subseteq Option
  BY <1>3, <1>a
<1>5. \A z \in d.areas : {o \in x.options : o.area = z.area} = AreaOptions(d.configs, m.node, z)
  <2> SUFFICES ASSUME NEW z \in d.areas
               PROVE  {o \in x.options : o.area = z.area} = AreaOptions(d.configs, m.node, z)
    OBVIOUS
  <2>1. ASSUME NEW o \in x.options, o.area = z.area
        PROVE  o \in AreaOptions(d.configs, m.node, z)
    BY <1>3, <1>c, <2>1
  <2>2. ASSUME NEW o \in AreaOptions(d.configs, m.node, z)
        PROVE  o \in x.options /\ o.area = z.area
    BY <1>a, <1>b
  <2>. QED
    BY <2>1, <2>2
<1>6. OneEachArea(x.options)
  <2> SUFFICES ASSUME NEW o \in x.options, NEW p \in x.options, o.area = p.area
               PROVE  o = p
    BY DEF OneEachArea
  <2>1. PICK z \in d.areas : o \in AreaOptions(d.configs, m.node, z) /\ o.area = z.area
    BY <1>3
  <2>2. p \in AreaOptions(d.configs, m.node, z)
    BY <1>3, <1>c, <2>1
  <2>. QED
    BY <1>a, <2>1, <2>2
<1>7. x.virtual \subseteq VirtualLink
  BY <1>1, ListedFacts
<1>8. Areas(x.options) \subseteq Areas(d.areas)
  BY <1>3 DEF Areas
<1>9. x \in NodeConfig
  <2>1. x = [node |-> x.node, enabled |-> x.enabled, versions |-> x.versions, options |-> x.options,
             virtual |-> x.virtual]
    BY DEF Member2Config, x
  <2>. QED
    BY <1>1, <1>2, <1>4, <1>7, <2>1 DEF NodeConfig
<1>10. QED
  BY <1>1, <1>5, <1>6, <1>8, <1>9 DEF x

LEMMA AdaptFacts ==
    ASSUME NEW d, Good(d), d.structured
    PROVE  /\ Good(Adapt(d))
           /\ Adapt(d) = [d EXCEPT !.configs = {Member2Config(d, m) : m \in d.members}]
           /\ Adapt(d).configs = {Member2Config(d, m) : m \in d.members}
           /\ Adapt(d).links = d.links /\ Adapt(d).members = d.members
           /\ Adapt(d).areas = d.areas /\ Adapt(d).structured = d.structured
<1> DEFINE c == {Member2Config(d, m) : m \in d.members}
<1>1. Adapt(d) = [d EXCEPT !.configs = c]
  BY DEF Adapt, Member2Config
<1>2. c \subseteq NodeConfig /\ \A x \in c : OneEachArea(x.options)
  BY ConfigFacts
<1>3. OneEachNode(c)
  <2>1. \A m, n \in d.members : Member2Config(d, m).node = Member2Config(d, n).node => m = n
    BY ConfigFacts, GoodFacts DEF OneEachNode
  <2>. QED
    BY <2>1 DEF OneEachNode
<1> HIDE DEF c
<1>4. LET new == [d EXCEPT !.configs = c] IN
      /\ Good(new) /\ new.configs = c /\ new.links = d.links
      /\ new.members = d.members /\ new.areas = d.areas /\ new.structured = d.structured
  BY <1>2, <1>3, WithConfigs
<1>. QED
  BY <1>1, <1>4 DEF c

-----------------------------------------------------------------------------
(* The topology-first projection.                                          *)

\* The settings of node n for an area.
Opts(c, n, a) == {o \in AtNode(c, n).options : o.area = a}

LEMMA OptsFacts ==
    ASSUME NEW c, GoodConfigs(c), NEW n \in Nodes(c), NEW a
    PROVE  /\ Opts(c, n, a) \subseteq Option
           /\ \A o \in Opts(c, n, a) : Opts(c, n, a) = {o} /\ o.area = a
           /\ n \in Nodes(Configured(c, a)) <=> Opts(c, n, a) # {}
<1>1. AtNode(c, n) \in c /\ AtNode(c, n).node = n
  BY AtNodeIs
<1>2. AtNode(c, n).options \subseteq Option /\ OneEachArea(AtNode(c, n).options)
  BY <1>1 DEF GoodConfigs, NodeConfig
<1>3. n \in Nodes(Configured(c, a)) <=> a \in Areas(AtNode(c, n).options)
  BY <1>1 DEF Configured, Nodes, GoodConfigs, OneEachNode
<1>. QED
  BY <1>2, <1>3 DEF Opts, OneEachArea, Areas

LEMMA FirstFacts ==
    ASSUME Numbers, NEW c, GoodConfigs(c), NEW a \in Area
    PROVE  /\ First(c, a) \in Option /\ First(c, a).area = a
           /\ Nodes(Configured(c, a)) \subseteq Nodes(c)
           /\ Configured(c, a) # {} =>
                LET n == Min(Nodes(Configured(c, a))) IN
                /\ n \in Nodes(Configured(c, a)) /\ Opts(c, n, a) = {First(c, a)}
                /\ \A k \in Nodes(Configured(c, a)) : k \in Nat /\ n <= k
<1> DEFINE C == Configured(c, a)
           n == Min(Nodes(C))
<1>0. Nodes(C) \subseteq Nodes(c) /\ C \subseteq c
  BY DEF Nodes, Configured
<1>1. CASE C = {}
  <2>1. First(c, a) = Plain(a)
    BY <1>1 DEF First
  <2>2. Plain(a) \in Option /\ Plain(a).area = a
    BY DEF Plain, Option
  <2>. QED
    BY <1>0, <1>1, <2>1, <2>2
<1>2. CASE C # {}
  <2>1. \A x \in C : x.node \in Nat
    BY <1>0 DEF GoodConfigs, NodeConfig, Numbers
  <2>2. Nodes(C) \in SUBSET Nat /\ Nodes(C) # {}
    BY <1>2, <2>1 DEF Nodes
  <2>3. n \in Nodes(C) /\ \A k \in Nodes(C) : n <= k
    BY <2>2, Least
  <2>4. First(c, a) = AtArea(AtNode(c, n).options, a)
    BY <1>2 DEF First
  <2> HIDE DEF C, n
  <2>5. PICK o \in Opts(c, n, a) : Opts(c, n, a) = {o} /\ o.area = a /\ o \in Option
    BY <1>0, <2>3, OptsFacts DEF C
  <2>6. a \in Areas(AtNode(c, n).options)
    BY <2>5 DEF Opts, Areas
  <2>7. First(c, a) \in AtNode(c, n).options /\ First(c, a).area = a
    BY <2>4, <2>6, AtAreaIs
  <2>8. First(c, a) = o
    BY <2>5, <2>7 DEF Opts
  <2>. QED
    BY <1>0, <2>2, <2>3, <2>5, <2>8 DEF C, n
<1>. QED
  BY <1>1, <1>2

\* Nodes with the same settings agree on the first.
LEMMA SameFirst ==
    ASSUME NEW c, GoodConfigs(c), NEW e, GoodConfigs(e), NEW a \in Area, Numbers,
           Nodes(c) = Nodes(e), \A n \in Nodes(c) : Opts(c, n, a) = Opts(e, n, a)
    PROVE  Nodes(Configured(c, a)) = Nodes(Configured(e, a)) /\ First(c, a) = First(e, a)
<1>1. Nodes(Configured(c, a)) = Nodes(Configured(e, a))
  <2>1. Nodes(Configured(c, a)) \subseteq Nodes(c) /\ Nodes(Configured(e, a)) \subseteq Nodes(e)
    BY FirstFacts
  <2>. QED
    BY <2>1, OptsFacts
<1>2. CASE Configured(c, a) = {}
  <2>1. Nodes(Configured(c, a)) = {}
    BY <1>2 DEF Nodes
  <2>2. \A x \in Configured(e, a) : x.node \in Nodes(Configured(e, a))
    BY AtNodeIs
  <2>. QED
    BY <1>1, <1>2, <2>1, <2>2 DEF First
<1>3. CASE Configured(c, a) # {}
  <2>1. Configured(e, a) # {}
    BY <1>1, <1>3 DEF Nodes
  <2> DEFINE n == Min(Nodes(Configured(c, a)))
  <2>2. n \in Nodes(Configured(c, a)) /\ Opts(c, n, a) = {First(c, a)} /\ n \in Nodes(c)
    BY <1>3, FirstFacts
  <2>3. Opts(e, n, a) = {First(e, a)}
    BY <1>1, <2>1, FirstFacts
  <2>. QED
    BY <1>1, <2>2, <2>3
<1>. QED
  BY <1>2, <1>3

LEMMA VirtualFacts ==
    ASSUME NEW c, NEW a
    PROVE  /\ \A x \in c : \A v \in x.virtual :
                 v.area = a => [node |-> x.node, link |-> v] \in VirtualIn(c, a)
           /\ \A e \in VirtualIn(c, a) : \E x \in c : \E v \in x.virtual :
                 v.area = a /\ e = [node |-> x.node, link |-> v]
           /\ c \subseteq NodeConfig => VirtualIn(c, a) \subseteq [node : Node, link : VirtualLink]
<1>1. \A e : e \in VirtualIn(c, a) <=>
          \E x \in c : \E v \in x.virtual : v.area = a /\ e = [node |-> x.node, link |-> v]
  BY DEF VirtualIn
<1>2. c \subseteq NodeConfig => \A x \in c : x.node \in Node /\ x.virtual \subseteq VirtualLink
  BY DEF NodeConfig
<1>. QED
  BY <1>1, <1>2

LEMMA AreaNamesFacts ==
    ASSUME NEW d, Good(d)
    PROVE  /\ AreaNames(d) \subseteq Area
           /\ Areas(d.areas) \subseteq AreaNames(d) /\ Areas(d.links) \subseteq AreaNames(d)
           /\ \A x \in d.configs : Areas(x.options) \subseteq AreaNames(d) /\ Areas(x.virtual) \subseteq AreaNames(d)
<1>1. \A x \in d.configs : /\ \A o \in x.options : o.area \in Area
                           /\ \A v \in x.virtual : v.area \in Area
  BY GoodFacts DEF Option, VirtualLink
<1>2. \A l \in d.links : l.area \in Area
  BY GoodFacts DEF Link
<1>3. \A y \in d.areas : y.area \in Area
  BY GoodFacts
<1>. QED
  BY <1>1, <1>2, <1>3 DEF AreaNames, OwnAreas, Areas

LEMMA AreaModelFacts ==
    ASSUME Numbers, NEW d, Good(d), NEW a \in Area
    PROVE  LET x == AreaModel(d, a) IN
           /\ x \in AreaEntry /\ x.area = a /\ x.options.area = a
           /\ a \in Areas(d.areas) =>
                /\ AtArea(d.areas, a) \in d.areas
                /\ Settings(x) = Settings(AtArea(d.areas, a))
                /\ x.virtual = IF AtArea(d.areas, a).virtual # {} THEN AtArea(d.areas, a).virtual
                               ELSE VirtualIn(d.configs, a)
           /\ a \notin Areas(d.areas) =>
                /\ Settings(x) = <<First(d.configs, a).type, First(d.configs, a), First(d.configs, a).nets>>
                /\ x.virtual = VirtualIn(d.configs, a)
<1> DEFINE x == AreaModel(d, a)
           V == VirtualIn(d.configs, a)
<1>1. CASE a \in Areas(d.areas)
  <2> DEFINE y == AtArea(d.areas, a)
  <2>1. y \in d.areas /\ y.area = a /\ y \in AreaEntry /\ y.options.area = a
    BY <1>1, AtAreaIs, GoodFacts
  <2>2. V \subseteq [node : Node, link : VirtualLink]
    BY VirtualFacts, GoodFacts
  <2>3. x = IF y.virtual # {} THEN y ELSE [y EXCEPT !.virtual = V]
    BY <1>1 DEF AreaModel
  <2> HIDE DEF x, y, V
  <2>4. /\ x \in AreaEntry /\ x.area = a /\ x.options = y.options
        /\ x.type = y.type /\ x.nets = y.nets
        /\ x.virtual = IF y.virtual # {} THEN y.virtual ELSE V
    BY <2>1, <2>2, <2>3 DEF AreaEntry
  <2>. QED
    BY <1>1, <2>1, <2>4 DEF Settings, x, y, V
<1>2. CASE a \notin Areas(d.areas)
  <2> DEFINE f == First(d.configs, a)
  <2>1. f \in Option /\ f.area = a
    BY FirstFacts, GoodFacts
  <2>2. V \subseteq [node : Node, link : VirtualLink]
    BY VirtualFacts, GoodFacts
  <2>3. x = [area |-> a, type |-> f.type, options |-> f, nets |-> f.nets, virtual |-> V]
    BY <1>2 DEF AreaModel
  <2> HIDE DEF x, f, V
  <2>4. x \in AreaEntry
    BY <2>1, <2>2, <2>3 DEF AreaEntry, Option
  <2>. QED
    BY <1>2, <2>1, <2>3, <2>4 DEF Settings, x, f, V
<1>. QED
  BY <1>1, <1>2

Projected(x) == [node |-> x.node, enabled |-> x.enabled, versions |-> x.versions]

LEMMA ModelFacts ==
    ASSUME Numbers, NEW d, Good(d)
    PROVE  /\ Good(Model(d))
           /\ Model(d).structured = TRUE
           /\ Model(d).configs = d.configs /\ Model(d).links = d.links
           /\ Model(d).members = {Projected(x) : x \in d.configs}
           /\ Model(d).areas = {AreaModel(d, a) : a \in AreaNames(d)}
           /\ Areas(Model(d).areas) = AreaNames(d)
           /\ \A a \in AreaNames(d) : AtArea(Model(d).areas, a) = AreaModel(d, a)
           /\ Nodes(Model(d).members) = Nodes(d.configs)
<1> DEFINE M == {Projected(x) : x \in d.configs}
           A == {AreaModel(d, a) : a \in AreaNames(d)}
<1>1. Model(d) = [d EXCEPT !.structured = TRUE, !.members = M, !.areas = A]
  BY DEF Model, Projected
<1>2. /\ M \subseteq Member
      /\ \A x \in d.configs : Projected(x).node = x.node
  <2>1. \A x \in d.configs : x.node \in Node /\ x.enabled \in BOOLEAN /\ x.versions \subseteq Family
    BY GoodFacts
  <2>. QED
    BY <2>1 DEF Projected, Member
<1>3. OneEachNode(M) /\ Nodes(M) = Nodes(d.configs)
  <2>1. OneEachNode(d.configs)
    BY GoodFacts
  <2>. QED
    BY <1>2, <2>1 DEF OneEachNode, Nodes
<1>4. \A a \in AreaNames(d) : /\ AreaModel(d, a) \in AreaEntry /\ AreaModel(d, a).area = a
                              /\ AreaModel(d, a).options.area = a
  BY AreaNamesFacts, AreaModelFacts
<1>5. /\ A \subseteq AreaEntry /\ OneEachArea(A) /\ Areas(A) = AreaNames(d)
      /\ \A x \in A : x.options.area = x.area
  BY <1>4 DEF OneEachArea, Areas
<1>6. \A a \in AreaNames(d) : AtArea(A, a) = AreaModel(d, a)
  <2>1. \A a \in AreaNames(d) : AreaModel(d, a) \in A
    OBVIOUS
  <2>2. \A x \in A : AtArea(A, x.area) = x
    <3> HIDE DEF A
    <3>. QED
      BY <1>5, AtAreaIs
  <2>. QED
    BY <1>4, <2>1, <2>2
<1> HIDE DEF M, A
<1>7. /\ Model(d) \in DomainRecord /\ Model(d).structured = TRUE
      /\ Model(d).configs = d.configs /\ Model(d).links = d.links
      /\ Model(d).members = M /\ Model(d).areas = A
  BY <1>1, <1>2, <1>5 DEF Good, DomainRecord
<1>8. Proper(Model(d))
  BY <1>3, <1>5, <1>7 DEF Good, Proper, OneEachNode, OneEachArea
<1>. QED
  BY <1>3, <1>5, <1>6, <1>7, <1>8 DEF Good, M, A

-----------------------------------------------------------------------------
(* Normalisation.                                                          *)

\* What is checked depends on the configurations and links alone.
LEMMA SameValid ==
    ASSUME NEW d, NEW e, d.configs = e.configs, d.links = e.links, Valid(d)
    PROVE  Valid(e)
BY DEF Valid, HasBackbone

LEMMA NormalFacts ==
    ASSUME Numbers, NEW d, Good(d), Normalize(d) # Refused
    PROVE  LET r == Normalize(d) IN
           /\ Adaptable(d) /\ Good(r) /\ Valid(r)
           /\ r.structured = d.structured /\ r.links = d.links
           /\ d.structured => r = Model(Adapt(d)) /\ r.configs = Adapt(d).configs
           /\ ~d.structured => r = d
<1> DEFINE r == Normalize(d)
<1>1. /\ Adaptable(d) /\ Valid(Adapt(d))
      /\ r = IF d.structured THEN Model(Adapt(d)) ELSE Adapt(d)
  BY DEF Normalize
<1>2. d.structured \in BOOLEAN
  BY GoodFacts
<1>3. CASE d.structured
  <2>1. Good(Adapt(d)) /\ Adapt(d).links = d.links
    BY <1>3, AdaptFacts
  <2>2. /\ Good(Model(Adapt(d))) /\ Model(Adapt(d)).structured = TRUE
        /\ Model(Adapt(d)).configs = Adapt(d).configs /\ Model(Adapt(d)).links = Adapt(d).links
    BY <2>1, ModelFacts
  <2>3. Valid(Model(Adapt(d)))
    BY <1>1, <2>2, SameValid
  <2>. QED
    BY <1>1, <1>2, <1>3, <2>1, <2>2, <2>3
<1>4. CASE ~d.structured
  BY <1>1, <1>4 DEF Adapt
<1>. QED
  BY <1>3, <1>4

-----------------------------------------------------------------------------
(* Normalising what has been normalised.                                   *)

\* The virtual links of a member are those its area entries list; the
\* projection lists no other.
LEMMA VirtualsKept ==
    ASSUME Numbers, NEW d, Good(d), d.structured, NEW m \in d.members
    PROVE  LET c == Model(Adapt(d)) IN
           {e.link : e \in {f \in ListedLinks(c.areas) : f.node = m.node}} = Member2Config(d, m).virtual
<1> DEFINE b == Adapt(d)
           c == Model(b)
           x == Member2Config(d, m)
<1>1. /\ Good(b) /\ b.areas = d.areas /\ b.configs = {Member2Config(d, k) : k \in d.members}
      /\ x \in b.configs /\ x.node = m.node
  BY AdaptFacts, ConfigFacts
<1>2. /\ Good(c) /\ c.areas = {AreaModel(b, a) : a \in AreaNames(b)}
      /\ AreaNames(b) \subseteq Area /\ Areas(b.areas) \subseteq AreaNames(b)
  BY <1>1, ModelFacts, AreaNamesFacts
<1>3. x.virtual = {e.link : e \in {f \in ListedLinks(d.areas) : f.node = m.node}}
  BY ConfigFacts
<1> HIDE DEF b, c, x
<1>8. \A a \in AreaNames(b) :
         /\ AreaModel(b, a) \in c.areas /\ AreaModel(b, a).area = a
         /\ a \in Areas(b.areas) =>
              /\ AtArea(b.areas, a) \in d.areas
              /\ AreaModel(b, a).virtual = IF AtArea(b.areas, a).virtual # {} THEN AtArea(b.areas, a).virtual
                                           ELSE VirtualIn(b.configs, a)
         /\ a \notin Areas(b.areas) => AreaModel(b, a).virtual = VirtualIn(b.configs, a)
  <2> SUFFICES ASSUME NEW a \in AreaNames(b)
               PROVE  /\ AreaModel(b, a) \in c.areas /\ AreaModel(b, a).area = a
                      /\ a \in Areas(b.areas) =>
                           /\ AtArea(b.areas, a) \in d.areas
                           /\ AreaModel(b, a).virtual = IF AtArea(b.areas, a).virtual # {} THEN AtArea(b.areas, a).virtual
                                                        ELSE VirtualIn(b.configs, a)
                      /\ a \notin Areas(b.areas) => AreaModel(b, a).virtual = VirtualIn(b.configs, a)
    OBVIOUS
  <2>1. a \in Area /\ AreaModel(b, a) \in c.areas /\ Good(b) /\ b.areas = d.areas
    BY <1>1, <1>2
  <2>2. /\ AreaModel(b, a).area = a
        /\ a \in Areas(b.areas) =>
             /\ AtArea(b.areas, a) \in d.areas
             /\ AreaModel(b, a).virtual = IF AtArea(b.areas, a).virtual # {} THEN AtArea(b.areas, a).virtual
                                          ELSE VirtualIn(b.configs, a)
    BY <2>1, AreaModelFacts
  <2>3. a \notin Areas(b.areas) => AreaModel(b, a).virtual = VirtualIn(b.configs, a)
    BY <2>1, AreaModelFacts
  <2>. QED
    BY <2>1, <2>2, <2>3
<1>4. ASSUME NEW f \in ListedLinks(c.areas), f.node = m.node PROVE f.link \in x.virtual
  <2>1. PICK y \in c.areas : \E e \in y.virtual : f = [by |-> y.area, node |-> e.node, link |-> e.link]
    BY <1>2, ListedFacts
  <2>2. PICK e \in y.virtual : f = [by |-> y.area, node |-> e.node, link |-> e.link]
    BY <2>1
  <2>3. PICK a \in AreaNames(b) : y = AreaModel(b, a)
    BY <1>2
  <2>4. CASE a \in Areas(b.areas) /\ AtArea(b.areas, a).virtual # {}
    <3>1. y.virtual = AtArea(b.areas, a).virtual /\ AtArea(b.areas, a) \in d.areas
      BY <1>8, <2>3, <2>4
    <3>2. [by |-> AtArea(b.areas, a).area, node |-> e.node, link |-> e.link] \in ListedLinks(d.areas)
      BY <3>1, ListedFacts
    <3>. QED
      BY <1>3, <1>4, <2>2, <3>2
  <2>5. CASE ~(a \in Areas(b.areas) /\ AtArea(b.areas, a).virtual # {})
    <3>1. y.virtual = VirtualIn(b.configs, a)
      BY <1>8, <2>3, <2>5
    <3>2. PICK z \in b.configs : \E v \in z.virtual : e = [node |-> z.node, link |-> v]
      BY <3>1, VirtualFacts
    <3>3. z.node = m.node
      BY <1>4, <2>2, <3>2
    <3>4. z = x
      BY <1>1, <3>3, GoodFacts DEF OneEachNode
    <3>. QED
      BY <2>2, <3>2, <3>4
  <2>. QED
    BY <2>4, <2>5
<1>5. ASSUME NEW w \in x.virtual PROVE \E f \in ListedLinks(c.areas) : f.node = m.node /\ f.link = w
  <2>1. PICK f \in ListedLinks(d.areas) : f.node = m.node /\ f.link = w
    BY <1>3
  <2>2. PICK z \in d.areas : \E e \in z.virtual : f = [by |-> z.area, node |-> e.node, link |-> e.link]
    BY ListedFacts
  <2>3. PICK e \in z.virtual : f = [by |-> z.area, node |-> e.node, link |-> e.link]
    BY <2>2
  <2>4. z.area \in Areas(b.areas) /\ AtArea(b.areas, z.area) = z
    BY <1>1, AtAreaIs, GoodFacts
  <2>5. AreaModel(b, z.area).virtual = z.virtual /\ AreaModel(b, z.area) \in c.areas
    BY <1>2, <1>8, <2>3, <2>4
  <2>6. [by |-> AreaModel(b, z.area).area, node |-> e.node, link |-> e.link] \in ListedLinks(c.areas)
    BY <1>2, <2>3, <2>5, ListedFacts
  <2>. QED
    BY <2>1, <2>3, <2>6
<1>6. x.virtual = {e.link : e \in {f \in ListedLinks(c.areas) : f.node = m.node}}
  BY <1>4, <1>5
<1>. QED
  BY <1>6 DEF b, c, x

\* An entry keeps its virtual links; one without any has none to take from the
\* configurations.
LEMMA AreasKept ==
    ASSUME Numbers, NEW d, Good(d), d.structured
    PROVE  LET b == Adapt(d)
               c == Model(b)
               e == Adapt(c)
           IN  /\ AreaNames(e) = AreaNames(b)
               /\ Model(e).areas = c.areas
               /\ \A x \in b.configs : x.node \in Nodes(e.configs) /\ AtNode(e.configs, x.node).virtual = x.virtual
               /\ Nodes(e.configs) = Nodes(b.configs)
<1> DEFINE b == Adapt(d)
           c == Model(b)
           e == Adapt(c)
<1>1. /\ Good(b) /\ b.links = d.links /\ b.structured
      /\ Areas(b.areas) = Areas(d.areas)
  BY AdaptFacts
<1>2. b.configs = {Member2Config(d, m) : m \in d.members}
  BY AdaptFacts
<1>3. Good(c) /\ c.structured /\ c.links = b.links /\ Areas(c.areas) = AreaNames(b)
  BY <1>1, ModelFacts
<1>4. c.areas = {AreaModel(b, a) : a \in AreaNames(b)}
  BY <1>1, ModelFacts
<1>5. c.members = {Projected(x) : x \in b.configs}
  BY <1>1, ModelFacts
<1>6. Good(e) /\ e.links = b.links /\ e.areas = c.areas
  BY <1>3, AdaptFacts
<1>7. e.configs = {Member2Config(c, m) : m \in c.members}
  BY <1>3, AdaptFacts
<1>8. AreaNames(b) \subseteq Area
  BY <1>1, AreaNamesFacts
<1>9. \A m \in d.members : LET x == Member2Config(d, m) IN
         x.virtual = {f.link : f \in {g \in ListedLinks(c.areas) : g.node = m.node}}
  BY VirtualsKept
<1>10. \A m \in d.members : Member2Config(d, m).node = m.node
  BY ConfigFacts
<1> HIDE DEF b, c, e
<1>11. \A m \in c.members : /\ Member2Config(c, m).node = m.node
                            /\ Member2Config(c, m).virtual = {f.link : f \in {g \in ListedLinks(c.areas) : g.node = m.node}}
                            /\ Areas(Member2Config(c, m).options) \subseteq AreaNames(b)
  BY <1>3, ConfigFacts
<1>12. \A x \in b.configs : /\ Projected(x) \in c.members /\ Projected(x).node = x.node
                            /\ Member2Config(c, Projected(x)) \in e.configs
  BY <1>5, <1>7 DEF Projected
<1>13. ASSUME NEW x \in b.configs
       PROVE  /\ Member2Config(c, Projected(x)).node = x.node
              /\ Member2Config(c, Projected(x)).virtual = x.virtual
              /\ AtNode(e.configs, x.node) = Member2Config(c, Projected(x))
              /\ x.node \in Nodes(e.configs)
  <2>1. PICK m \in d.members : x = Member2Config(d, m)
    BY <1>2
  <2>2. x.virtual = {f.link : f \in {g \in ListedLinks(c.areas) : g.node = x.node}}
    BY <1>9, <1>10, <2>1
  <2>3. OneEachNode(e.configs)
    BY <1>6, GoodFacts
  <2>. QED
    BY <1>11, <1>12, <2>2, <2>3, AtNodeIs
<1>14. ASSUME NEW y \in e.configs
       PROVE  \E x \in b.configs : /\ y = Member2Config(c, Projected(x)) /\ y.node = x.node /\ y.virtual = x.virtual
                                   /\ Areas(y.options) \subseteq AreaNames(b)
  BY <1>5, <1>7, <1>11, <1>13
<1>15. Nodes(e.configs) = Nodes(b.configs)
  BY <1>13, <1>14 DEF Nodes
<1>16. AreaNames(e) = AreaNames(b)
  <2>1. AreaNames(b) \subseteq AreaNames(e)
    BY <1>3, <1>6, AreaNamesFacts
  <2>2. \A y \in e.configs : OwnAreas(y) \subseteq AreaNames(b)
    <3>1. \A x \in b.configs : Areas(x.virtual) \subseteq AreaNames(b)
      BY <1>1, AreaNamesFacts
    <3>. QED
      BY <1>14, <3>1 DEF OwnAreas
  <2>3. Areas(e.links) \subseteq AreaNames(b)
    BY <1>1, <1>6, AreaNamesFacts
  <2>. QED
    BY <1>3, <1>6, <2>1, <2>2, <2>3 DEF AreaNames
<1>17. ASSUME NEW a \in AreaNames(b)
       PROVE  AreaModel(e, a) = AreaModel(b, a)
  <2> DEFINE y == AreaModel(b, a)
  <2>1. a \in Area
    BY <1>8
  <2>2. y \in AreaEntry /\ y.area = a /\ y \in c.areas
    BY <1>1, <1>4, <2>1, AreaModelFacts
  <2>3. AtArea(e.areas, a) = y /\ a \in Areas(e.areas)
    BY <1>3, <1>6, <2>2, AtAreaIs, GoodFacts
  <2>4. CASE y.virtual # {}
    <3> HIDE DEF y
    <3>. QED
      BY <2>3, <2>4 DEF AreaModel, y
  <2>5. CASE y.virtual = {}
    <3>1. VirtualIn(b.configs, a) = {}
      BY <1>1, <2>1, <2>5, AreaModelFacts
    <3>2. VirtualIn(e.configs, a) = {}
      BY <1>14, <3>1, VirtualFacts
    <3> HIDE DEF y
    <3>3. [y EXCEPT !.virtual = {}] = y
      BY <2>2, <2>5 DEF AreaEntry
    <3>. QED
      BY <2>3, <2>5, <3>2, <3>3 DEF AreaModel, y
  <2>. QED
    BY <2>4, <2>5
<1>18. Model(e).areas = {AreaModel(e, a) : a \in AreaNames(e)}
  BY <1>6, ModelFacts
<1>19. Model(e).areas = c.areas
  BY <1>4, <1>16, <1>17, <1>18
<1>. QED
  BY <1>13, <1>15, <1>16, <1>19 DEF b, c, e

\* What an area's settings make of the options of one that differs.
Given(x) == [x.options EXCEPT !.type = x.type, !.nets = x.nets]

\* An area that is kept names an area of the configurations and agrees with
\* the first of them.
LEMMA RetainedFacts ==
    ASSUME Numbers, NEW d, Good(d), NEW x \in d.areas, Retained(d.configs, x)
    PROVE  /\ First(d.configs, x.area) = Given(x)
           /\ Settings(x) = <<Given(x).type, Given(x), Given(x).nets>>
           /\ \E y \in d.configs : x.area \in OwnAreas(y)
<1> DEFINE f == First(d.configs, x.area)
<1>1. f \in Option /\ x.options = f /\ x.type = f.type /\ x.nets = f.nets
  BY GoodFacts, FirstFacts DEF Retained, Settings
<1>2. \E y \in d.configs : x.area \in OwnAreas(y)
  BY DEF Retained
<1> HIDE DEF f
<1>3. Given(x) = f
  BY <1>1 DEF Given, Option
<1>. QED
  BY <1>1, <1>2, <1>3 DEF f, Settings

\* Each member has the settings of its own or those that were given to all.
LEMMA MemberOpts ==
    ASSUME Numbers, NEW d, Good(d), d.structured, NEW x \in d.areas, NEW n \in Nodes(d.members)
    PROVE  /\ n \in Nodes(Adapt(d).configs)
           /\ Opts(Adapt(d).configs, n, x.area) =
                IF n \in Nodes(d.configs) /\ Retained(d.configs, x) THEN Opts(d.configs, n, x.area)
                ELSE {Given(x)}
<1>1. PICK m \in d.members : m.node = n
  BY DEF Nodes
<1> DEFINE y == Member2Config(d, m)
<1>2. y.node = n /\ {o \in y.options : o.area = x.area} = AreaOptions(d.configs, n, x)
  BY <1>1, ConfigFacts
<1>3. y \in Adapt(d).configs /\ OneEachNode(Adapt(d).configs)
  BY AdaptFacts, GoodFacts
<1>4. n \in Nodes(Adapt(d).configs) /\ AtNode(Adapt(d).configs, n) = y
  BY <1>2, <1>3, AtNodeIs
<1>. QED
  BY <1>2, <1>4 DEF Opts, AreaOptions, Given

LEMMA MemberNodes ==
    ASSUME NEW d, Good(d), d.structured
    PROVE  Nodes(Adapt(d).configs) = Nodes(d.members)
<1>1. Adapt(d).configs = {Member2Config(d, m) : m \in d.members}
  BY AdaptFacts
<1>2. \A m \in d.members : Member2Config(d, m).node = m.node
  BY ConfigFacts
<1>. QED
  BY <1>1, <1>2 DEF Nodes

\* Once the members have what an area makes of them, they keep it, whatever
\* entry the projection has for the area, as long as its settings are the same.
LEMMA OptsKept ==
    ASSUME Numbers,
           NEW d, Good(d), d.structured, NEW x \in d.areas,
           NEW c, Good(c), c.structured, c.configs = Adapt(d).configs, Nodes(c.members) = Nodes(d.members),
           NEW y \in c.areas, y.area = x.area, Settings(y) = Settings(x),
           \/ ~Retained(d.configs, x)
           \/ /\ Nodes(Configured(d.configs, x.area)) \subseteq Nodes(d.members)
              /\ \/ Configured(d.configs, x.area) # {}
                 \/ /\ Nodes(d.members) \subseteq Nodes(d.configs)
                    /\ \E z \in c.configs : x.area \in OwnAreas(z),
           NEW n \in Nodes(d.members)
    PROVE  Opts(Adapt(c).configs, n, x.area) = Opts(Adapt(d).configs, n, x.area)
<1> DEFINE old == d.configs
           now == c.configs
           a == x.area
           f == First(old, a)
<1>1. /\ GoodConfigs(old) /\ GoodConfigs(now) /\ a \in Area /\ Nodes(now) = Nodes(d.members)
  BY GoodFacts, MemberNodes
<1>2. \A k \in Nodes(d.members) :
         Opts(now, k, a) = IF k \in Nodes(old) /\ Retained(old, x) THEN Opts(old, k, a) ELSE {Given(x)}
  <2> TAKE k \in Nodes(d.members)
  <2>1. Opts(Adapt(d).configs, k, a) =
            IF k \in Nodes(old) /\ Retained(old, x) THEN Opts(old, k, a) ELSE {Given(x)}
    BY MemberOpts
  <2>. QED
    BY <2>1
<1>3. Given(y) = Given(x)
  BY DEF Given, Settings
<1>4. Opts(Adapt(c).configs, n, a) = IF n \in Nodes(now) /\ Retained(now, y) THEN Opts(now, n, a)
                                     ELSE {Given(x)}
  BY <1>3, MemberOpts
<1>5. CASE ~Retained(old, x)
  BY <1>2, <1>4, <1>5
<1>6. CASE Retained(old, x)
  <2>1. /\ f = Given(x) /\ Settings(y) = <<f.type, f, f.nets>>
    BY <1>6, RetainedFacts
  <2>2. CASE Configured(old, a) # {}
    <3> DEFINE m == Min(Nodes(Configured(old, a)))
               k == Min(Nodes(Configured(now, a)))
    <3>1. /\ m \in Nodes(Configured(old, a)) /\ Opts(old, m, a) = {f} /\ m \in Nodes(old)
          /\ \A i \in Nodes(Configured(old, a)) : i \in Nat /\ m <= i
      BY <1>1, <2>2, FirstFacts
    <3>2. m \in Nodes(d.members)
      BY <1>6, <3>1
    <3> HIDE DEF m, k, f, now, old, a
    <3>3. Opts(now, m, a) = {f}
      BY <1>2, <1>6, <3>1, <3>2
    <3>4. m \in Nodes(Configured(now, a))
      BY <1>1, <3>2, <3>3, OptsFacts
    <3>5. Configured(now, a) # {}
      BY <3>4 DEF Nodes
    <3>6. /\ k \in Nodes(Configured(now, a)) /\ Opts(now, k, a) = {First(now, a)} /\ k \in Nodes(d.members)
          /\ \A i \in Nodes(Configured(now, a)) : i \in Nat /\ k <= i
      BY <1>1, <3>5, FirstFacts DEF k
    <3>7. First(now, a) = f
      <4>1. CASE k \notin Nodes(old)
        BY <1>2, <2>1, <3>6, <4>1
      <4>2. CASE k \in Nodes(old)
        <5>1. Opts(old, k, a) = {First(now, a)}
          BY <1>2, <1>6, <3>6, <4>2
        <5>2. k \in Nodes(Configured(old, a))
          BY <1>1, <4>2, <5>1, OptsFacts
        <5>3. k \in Nat /\ m \in Nat /\ k <= m /\ m <= k
          BY <3>1, <3>4, <3>6, <5>2
        <5>4. k = m
          BY <5>3
        <5>. QED
          BY <3>3, <3>6, <5>4
      <4>. QED
        BY <4>1, <4>2
    <3>8. \E z \in now : a \in OwnAreas(z)
      BY <3>5 DEF Configured, OwnAreas
    <3>9. Retained(now, y)
      BY <2>1, <3>7, <3>8 DEF Retained, a
    <3>. QED
      BY <1>1, <1>4, <3>9 DEF a, now
  <2>3. CASE Configured(old, a) = {}
    <3>1. Nodes(d.members) \subseteq Nodes(old) /\ \E z \in now : a \in OwnAreas(z)
      BY <1>6, <2>3
    <3>2. \A k \in Nodes(now) : Opts(now, k, a) = {}
      <4>1. Nodes(Configured(old, a)) = {}
        BY <2>3 DEF Nodes
      <4> HIDE DEF now, old, a
      <4>. QED
        BY <1>1, <1>2, <1>6, <3>1, <4>1, OptsFacts
    <3> HIDE DEF f, now, old, a
    <3>3. Configured(now, a) = {}
      <4>1. Nodes(Configured(now, a)) = {}
        BY <1>1, <3>2, OptsFacts, FirstFacts
      <4>2. \A z \in Configured(now, a) : z.node \in Nodes(Configured(now, a))
        BY AtNodeIs
      <4>. QED
        BY <4>1, <4>2
    <3>4. First(now, a) = f
      BY <2>3, <3>3 DEF First, f
    <3>5. Retained(now, y)
      BY <2>1, <3>1, <3>4 DEF Retained, a
    <3>. QED
      BY <1>1, <1>4, <3>5 DEF a, now
  <2>. QED
    BY <2>2, <2>3
<1>. QED
  BY <1>5, <1>6

\* Normalising a second time may still change a domain, a third time does not.
LEMMA Stable ==
    ASSUME Numbers, NEW d, Good(d), Normalize(d) # Refused, Normalize(Normalize(d)) # Refused
    PROVE  Normalize(Normalize(Normalize(d))) = Normalize(Normalize(d))
<1> DEFINE c == Normalize(d)
           s == Normalize(c)
<1>1. Good(c) /\ c.structured = d.structured /\ d.structured \in BOOLEAN
  BY NormalFacts, GoodFacts
<1>2. Good(s) /\ Valid(s) /\ Adaptable(c) /\ s.structured = c.structured
  BY <1>1, NormalFacts
<1>3. CASE ~d.structured
  <2>1. c = d
    BY <1>3, NormalFacts
  <2>. QED
    BY <2>1
<1>4. CASE d.structured
  <2> DEFINE b == Adapt(d)
             e == Adapt(c)
  <2>1. c = Model(b) /\ Good(b)
    BY <1>4, NormalFacts, AdaptFacts
  <2>2. s = Model(e) /\ Good(e) /\ c.structured
    BY <1>1, <1>4, NormalFacts, AdaptFacts
  <2>3. /\ e.links = c.links /\ e.members = c.members /\ e.areas = c.areas
        /\ e = [c EXCEPT !.configs = {Member2Config(c, m) : m \in c.members}]
    BY <1>1, <2>2, AdaptFacts
  <2>4. /\ s.configs = e.configs /\ s.links = c.links /\ s.areas = c.areas /\ s.structured = TRUE
        /\ AreaNames(e) = Areas(c.areas)
        /\ c.configs = b.configs
        /\ \A x \in c.configs : x.node \in Nodes(s.configs) /\ AtNode(s.configs, x.node).virtual = x.virtual
        /\ Nodes(s.configs) = Nodes(c.configs)
    <3>1. /\ s.configs = e.configs /\ s.links = e.links /\ s.structured = TRUE
      BY <2>2, ModelFacts
    <3>2. c.configs = b.configs /\ Areas(c.areas) = AreaNames(b)
      BY <2>1, ModelFacts
    <3>3. /\ AreaNames(Adapt(Model(b))) = AreaNames(b) /\ Model(Adapt(Model(b))).areas = Model(b).areas
          /\ \A x \in b.configs : /\ x.node \in Nodes(Adapt(Model(b)).configs)
                                  /\ AtNode(Adapt(Model(b)).configs, x.node).virtual = x.virtual
          /\ Nodes(Adapt(Model(b)).configs) = Nodes(b.configs)
      BY <1>4, AreasKept
    <3>. QED
      BY <2>1, <2>2, <2>3, <3>1, <3>2, <3>3
  <2> HIDE DEF c, s, e, b
  <2>5. s.members = c.members
    <3>1. \A m \in c.members : Projected(Member2Config(c, m)) = m
      <4>1. \A m \in c.members : m = [node |-> m.node, enabled |-> m.enabled, versions |-> m.versions]
        BY <1>1, GoodFacts DEF Member
      <4>. QED
        BY <4>1 DEF Member2Config, Projected
    <3>2. e.configs = {Member2Config(c, m) : m \in c.members}
      BY <1>1, <2>2, AdaptFacts DEF e
    <3>3. s.members = {Projected(x) : x \in e.configs}
      BY <2>2, ModelFacts
    <3>. QED
      BY <3>1, <3>2, <3>3
  <2>6. Nodes(c.members) = Nodes(c.configs)
    BY <2>1, ModelFacts
  <2>7. ASSUME NEW x \in c.areas, NEW n \in Nodes(c.members)
        PROVE  Opts(Adapt(s).configs, n, x.area) = Opts(s.configs, n, x.area)
    <3>1. Retained(c.configs, x) => \E z \in s.configs : x.area \in OwnAreas(z)
      <4> SUFFICES ASSUME Retained(c.configs, x) PROVE \E z \in s.configs : x.area \in OwnAreas(z)
        OBVIOUS
      <4>1. PICK z \in c.configs : x.area \in OwnAreas(z)
        BY DEF Retained
      <4> DEFINE w == AtNode(s.configs, z.node)
      <4>2. w \in s.configs /\ w.virtual = z.virtual /\ w.node = z.node /\ z.node \in Nodes(c.configs)
        BY <2>4, AtNodeIs
      <4>3. CASE x.area \in Areas(z.virtual)
        BY <4>2, <4>3 DEF OwnAreas
      <4>4. CASE x.area \in Areas(z.options)
        <5>1. z \in Configured(c.configs, x.area)
          BY <4>4 DEF Configured
        <5>2. z.node \in Nodes(Configured(c.configs, x.area))
          BY <5>1, AtNodeIs
        <5>3. Opts(c.configs, z.node, x.area) # {}
          BY <1>1, <4>2, <5>2, OptsFacts, GoodFacts
        <5>4. Opts(s.configs, z.node, x.area) = Opts(c.configs, z.node, x.area)
          BY <1>1, <2>2, <2>4, <2>6, <4>2, MemberOpts DEF e
        <5>. QED
          BY <4>2, <5>3, <5>4 DEF Opts, OwnAreas, Areas
      <4>. QED
        BY <4>1, <4>3, <4>4 DEF OwnAreas
    <3>2. Nodes(Configured(c.configs, x.area)) \subseteq Nodes(c.members)
      BY <1>1, <2>6, FirstFacts, GoodFacts
    <3>3. Opts(Adapt(s).configs, n, x.area) = Opts(Adapt(c).configs, n, x.area)
      BY <1>1, <1>2, <2>2, <2>4, <2>5, <2>6, <3>1, <3>2, OptsKept DEF e
    <3>. QED
      BY <2>4, <3>3 DEF e
  <2>8. ASSUME NEW m \in c.members
        PROVE  Member2Config(s, m) = Member2Config(c, m)
    <3> DEFINE x == Member2Config(c, m)
               y == Member2Config(s, m)
    <3>1. /\ x \in s.configs /\ y \in Adapt(s).configs /\ x.node = m.node /\ y.node = m.node
      <4>1. x \in e.configs /\ x.node = m.node
        BY <1>1, <2>2, AdaptFacts, ConfigFacts DEF e
      <4>2. y \in Adapt(s).configs /\ y.node = m.node
        BY <1>1, <1>2, <2>2, <2>5, AdaptFacts, ConfigFacts
      <4>. QED
        BY <2>4, <4>1, <4>2
    <3>2. AtNode(s.configs, m.node) = x /\ AtNode(Adapt(s).configs, m.node) = y
      <4>1. OneEachNode(s.configs) /\ OneEachNode(Adapt(s).configs)
        BY <1>2, <2>4, AdaptFacts, GoodFacts
      <4>. QED
        BY <3>1, <4>1, AtNodeIs
    <3>3. Areas(x.options) \subseteq Areas(c.areas) /\ Areas(y.options) \subseteq Areas(c.areas)
      BY <1>1, <1>2, <2>2, <2>4, <2>5, ConfigFacts
    <3>4. x.virtual = y.virtual
      <4>1. x.virtual = {f.link : f \in {g \in ListedLinks(c.areas) : g.node = m.node}}
        BY <1>1, ConfigFacts
      <4>2. y.virtual = {f.link : f \in {g \in ListedLinks(s.areas) : g.node = m.node}}
        BY <1>2, <2>5, ConfigFacts
      <4>. QED
        BY <2>4, <4>1, <4>2
    <3>5. /\ x = [node |-> m.node, enabled |-> m.enabled, versions |-> m.versions,
                  options |-> x.options, virtual |-> x.virtual]
          /\ y = [node |-> m.node, enabled |-> m.enabled, versions |-> m.versions,
                  options |-> y.options, virtual |-> y.virtual]
      BY DEF Member2Config
    <3>6. m.node \in Nodes(c.members)
      BY AtNodeIs
    <3> HIDE DEF x, y
    <3>7. \A z \in c.areas : {o \in x.options : o.area = z.area} = {o \in y.options : o.area = z.area}
      BY <2>7, <3>2, <3>6 DEF Opts
    <3>8. x.options = y.options
      <4>1. \A o \in x.options \cup y.options : \E z \in c.areas : o.area = z.area
        BY <3>3 DEF Areas
      <4>2. ASSUME NEW o PROVE o \in x.options <=> o \in y.options
        <5>1. \A z \in c.areas : o.area = z.area => (o \in x.options <=> o \in y.options)
          <6> TAKE z \in c.areas
          <6>1. o \in {p \in x.options : p.area = z.area} <=> o \in {p \in y.options : p.area = z.area}
            BY <3>7
          <6>. QED
            BY <6>1
        <5>. QED
          BY <4>1, <5>1
      <4>. QED
        BY <4>2
    <3>. QED
      BY <3>4, <3>5, <3>8 DEF x, y
  <2>9. Adapt(s).configs = s.configs
    <3>1. Adapt(s).configs = {Member2Config(s, m) : m \in s.members}
      BY <1>2, <2>4, AdaptFacts
    <3>2. s.configs = {Member2Config(c, m) : m \in c.members}
      BY <1>1, <2>2, <2>4, AdaptFacts DEF e
    <3>. QED
      BY <2>5, <2>8, <3>1, <3>2
  <2>10. Adapt(s) = s
    <3>1. Adapt(s) = [s EXCEPT !.configs = {Member2Config(s, m) : m \in s.members}]
      BY <1>2, <2>4, AdaptFacts
    <3>2. Adapt(s).configs = {Member2Config(s, m) : m \in s.members}
      BY <1>2, <2>4, AdaptFacts
    <3>3. s \in DomainRecord
      BY <1>2, GoodFacts
    <3>. QED
      BY <2>9, <3>1, <3>2, <3>3 DEF DomainRecord
  <2>11. Model(s) = s
    <3>1. /\ Model(s) \in DomainRecord /\ s \in DomainRecord
      BY <1>2, ModelFacts, GoodFacts
    <3>2. /\ Model(s).structured = s.structured /\ Model(s).configs = s.configs /\ Model(s).links = s.links
      BY <1>2, <2>4, ModelFacts
    <3>3. Model(s).members = s.members
      <4>1. Model(s).members = {Projected(x) : x \in s.configs}
        BY <1>2, ModelFacts
      <4>2. s.members = {Projected(x) : x \in e.configs}
        BY <2>2, ModelFacts
      <4>. QED
        BY <2>4, <4>1, <4>2
    <3>4. Model(s).areas = s.areas
      <4>1. Model(s).areas = {AreaModel(s, a) : a \in AreaNames(s)}
        BY <1>2, ModelFacts
      <4>2. s.areas = {AreaModel(e, a) : a \in AreaNames(e)}
        BY <2>2, ModelFacts
      <4>3. AreaNames(s) = AreaNames(e)
        BY <2>3, <2>4 DEF AreaNames
      <4>4. \A a : AreaModel(s, a) = AreaModel(e, a)
        BY <2>3, <2>4 DEF AreaModel
      <4>. QED
        BY <4>1, <4>2, <4>3, <4>4
    <3>. QED
      BY <3>1, <3>2, <3>3, <3>4 DEF DomainRecord
  <2>12. Adaptable(s)
    BY <1>2, <2>4, <2>5 DEF Adaptable
  <2>13. Normalize(s) = s
    BY <1>2, <2>4, <2>10, <2>11, <2>12 DEF Normalize
  <2>. QED
    BY <2>13 DEF s, c
<1>. QED
  BY <1>1, <1>3, <1>4

-----------------------------------------------------------------------------
(* What clients send back.                                                 *)

SameOptions(c, e) ==
    Nodes(e) = Nodes(c) /\ \A n \in Nodes(c) : AtNode(e, n).options = AtNode(c, n).options
SameSettings(set, other) ==
    /\ Areas(other) = Areas(set)
    /\ \A a \in Areas(set) : Settings(AtArea(other, a)) = Settings(AtArea(set, a))

\* Configurations, links and areas that are changed one by one.
LEMMA MappedConfigs ==
    ASSUME NEW c, GoodConfigs(c), NEW f,
           \A x \in c : f[x] \in NodeConfig /\ f[x].node = x.node /\ f[x].options = x.options
    PROVE  LET e == {f[x] : x \in c} IN GoodConfigs(e) /\ SameOptions(c, e)
<1> DEFINE e == {f[x] : x \in c}
<1>1. e \subseteq NodeConfig /\ OneEachNode(e)
  BY DEF GoodConfigs, OneEachNode
<1>2. \A x \in e : OneEachArea(x.options)
  BY DEF GoodConfigs
<1>3. Nodes(e) = Nodes(c)
  BY DEF Nodes
<1>4. \A n \in Nodes(c) : f[AtNode(c, n)] \in e /\ f[AtNode(c, n)].node = n
                          /\ f[AtNode(c, n)].options = AtNode(c, n).options
  BY AtNodeIs
<1> HIDE DEF e
<1>5. \A n \in Nodes(c) : AtNode(e, n).options = AtNode(c, n).options
  BY <1>1, <1>4, AtNodeIs
<1>. QED
  BY <1>1, <1>2, <1>3, <1>5 DEF GoodConfigs, SameOptions, e

LEMMA MappedLinks ==
    ASSUME NEW set, GoodLinks(set), NEW f, \A l \in set : f[l] \in Link /\ f[l].id = l.id
    PROVE  GoodLinks({f[l] : l \in set})
BY DEF GoodLinks

LEMMA MappedAreas ==
    ASSUME NEW set, GoodAreas(set), NEW f,
           \A x \in set : f[x] \in AreaEntry /\ f[x].area = x.area /\ Settings(f[x]) = Settings(x)
    PROVE  LET e == {f[x] : x \in set} IN GoodAreas(e) /\ SameSettings(set, e)
<1> DEFINE e == {f[x] : x \in set}
<1>1. e \subseteq AreaEntry /\ OneEachArea(e)
  BY DEF GoodAreas, OneEachArea
<1>2. \A x \in e : x.options.area = x.area
  BY DEF GoodAreas, Settings
<1>3. Areas(e) = Areas(set)
  BY DEF Areas
<1>4. \A a \in Areas(set) : f[AtArea(set, a)] \in e /\ f[AtArea(set, a)].area = a
                            /\ Settings(f[AtArea(set, a)]) = Settings(AtArea(set, a))
  BY AtAreaIs
<1> HIDE DEF e
<1>5. \A a \in Areas(set) : Settings(AtArea(e, a)) = Settings(AtArea(set, a))
  BY <1>1, <1>4, AtAreaIs
<1>. QED
  BY <1>1, <1>2, <1>3, <1>5 DEF GoodAreas, SameSettings, e

\* A domain with other parts.
LEMMA WithParts ==
    ASSUME NEW d, Good(d), NEW e, e.structured = d.structured, e.members = d.members,
           e = [structured |-> e.structured, configs |-> e.configs, links |-> e.links,
                members |-> e.members, areas |-> e.areas],
           GoodConfigs(e.configs), GoodLinks(e.links), GoodAreas(e.areas)
    PROVE  Good(e)
<1>1. d.structured \in BOOLEAN /\ GoodMembers(d.members)
  BY GoodFacts
<1>2. e \in DomainRecord
  BY <1>1 DEF DomainRecord, GoodConfigs, GoodLinks, GoodAreas, GoodMembers
<1>. QED
  BY <1>1, <1>2, Parts

LEMMA HideFacts ==
    ASSUME NEW s \in Password
    PROVE  Hide(s) \in Password
BY DEF Hide, Password

\* What is kept of a domain whose secrets are masked or put back.
Alike(d, e) ==
    /\ e.structured = d.structured /\ e.members = d.members
    /\ SameOptions(d.configs, e.configs) /\ SameSettings(d.areas, e.areas)

LEMMA RedactFacts ==
    ASSUME NEW d, Good(d)
    PROVE  Good(Redact(d)) /\ Alike(d, Redact(d))
<1> DEFINE f == [x \in d.configs |-> [x EXCEPT !.virtual = {[v EXCEPT !.secret = Hide(@)] : v \in @}]]
           g == [l \in d.links |-> [l EXCEPT !.ends = <<HideEnd(@[1]), HideEnd(@[2])>>]]
           h == [x \in d.areas |-> [x EXCEPT !.virtual = {[e EXCEPT !.link.secret = Hide(@)] : e \in @}]]
           c == {f[x] : x \in d.configs}
           k == {g[l] : l \in d.links}
           z == {h[x] : x \in d.areas}
<1>1. GoodConfigs(d.configs) /\ GoodLinks(d.links) /\ GoodAreas(d.areas) /\ GoodMembers(d.members)
      /\ d \in DomainRecord
  BY GoodFacts
<1>2. Redact(d) = [d EXCEPT !.configs = c, !.links = k, !.areas = z]
  <2>1. d.configs = d.configs /\ Redact(d) =
          [d EXCEPT
             !.configs = {[x EXCEPT !.virtual = {[v EXCEPT !.secret = Hide(@)] : v \in @}] : x \in d.configs},
             !.links = {[l EXCEPT !.ends = <<HideEnd(@[1]), HideEnd(@[2])>>] : l \in d.links},
             !.areas = {[x EXCEPT !.virtual = {[e EXCEPT !.link.secret = Hide(@)] : e \in @}] : x \in d.areas}]
    BY <1>1 DEF Redact, DomainRecord
  <2>2. c = {[x EXCEPT !.virtual = {[v EXCEPT !.secret = Hide(@)] : v \in @}] : x \in d.configs}
    OBVIOUS
  <2>3. k = {[l EXCEPT !.ends = <<HideEnd(@[1]), HideEnd(@[2])>>] : l \in d.links}
    OBVIOUS
  <2>4. z = {[x EXCEPT !.virtual = {[e EXCEPT !.link.secret = Hide(@)] : e \in @}] : x \in d.areas}
    OBVIOUS
  <2> HIDE DEF c, k, z
  <2>. QED
    BY <2>1, <2>2, <2>3, <2>4
<1>3. ASSUME NEW x \in d.configs
      PROVE  f[x] \in NodeConfig /\ f[x].node = x.node /\ f[x].options = x.options
  <2> DEFINE w == {[v EXCEPT !.secret = Hide(@)] : v \in x.virtual}
  <2>1. w \subseteq VirtualLink
    BY GoodFacts, HideFacts DEF VirtualLink
  <2>2. f[x] = [x EXCEPT !.virtual = w] /\ x \in NodeConfig
    BY <1>1 DEF GoodConfigs
  <2> HIDE DEF w, f
  <2>. QED
    BY <2>1, <2>2 DEF NodeConfig
<1>4. ASSUME NEW l \in d.links
      PROVE  g[l] \in Link /\ g[l].id = l.id
  <2>1. l \in Link /\ l.ends[1] \in LinkEnd /\ l.ends[2] \in LinkEnd
    BY <1>1 DEF GoodLinks, Link
  <2>2. HideEnd(l.ends[1]) \in LinkEnd /\ HideEnd(l.ends[2]) \in LinkEnd
    BY <2>1, HideFacts DEF HideEnd, LinkEnd
  <2>3. g[l] = [l EXCEPT !.ends = <<HideEnd(l.ends[1]), HideEnd(l.ends[2])>>]
    BY <2>1 DEF Link
  <2> HIDE DEF g
  <2>. QED
    BY <2>1, <2>2, <2>3 DEF Link
<1>5. ASSUME NEW x \in d.areas
      PROVE  h[x] \in AreaEntry /\ h[x].area = x.area /\ Settings(h[x]) = Settings(x)
  <2> DEFINE w == {[e EXCEPT !.link.secret = Hide(@)] : e \in x.virtual}
  <2>1. \A e \in x.virtual : [e EXCEPT !.link.secret = Hide(@)] \in [node : Node, link : VirtualLink]
    BY GoodFacts, HideFacts DEF VirtualLink
  <2>2. h[x] = [x EXCEPT !.virtual = w] /\ x \in AreaEntry /\ w \subseteq [node : Node, link : VirtualLink]
    BY <1>1, <2>1 DEF GoodAreas
  <2> HIDE DEF w, h
  <2>. QED
    BY <2>2 DEF AreaEntry, Settings
<1> HIDE DEF f, g, h
<1>6. GoodConfigs(c) /\ SameOptions(d.configs, c)
  BY <1>1, <1>3, MappedConfigs
<1>7. GoodLinks(k)
  BY <1>1, <1>4, MappedLinks
<1>8. GoodAreas(z) /\ SameSettings(d.areas, z)
  BY <1>1, <1>5, MappedAreas
<1> HIDE DEF c, k, z
<1>9. LET e == Redact(d) IN
      /\ e.configs = c /\ e.links = k /\ e.areas = z
      /\ e.structured = d.structured /\ e.members = d.members
      /\ e = [structured |-> e.structured, configs |-> e.configs, links |-> e.links,
              members |-> e.members, areas |-> e.areas]
  BY <1>1, <1>2 DEF DomainRecord
<1>10. Good(Redact(d))
  BY <1>6, <1>7, <1>8, <1>9, WithParts
<1>. QED
  BY <1>6, <1>8, <1>9, <1>10 DEF Alike

LEMMA RestoredFacts ==
    ASSUME NEW s \in Password, NEW old \in Password
    PROVE  Restored(s, old) \in Password
BY DEF Restored

LEMMA RestoreVirtualFacts ==
    ASSUME Numbers, NEW v \in VirtualLink, NEW old, old \subseteq [node : Node, link : VirtualLink]
    PROVE  RestoreVirtual(v, old) \in VirtualLink
<1> DEFINE same == {e \in old : e.link.peer = v.peer /\ e.link.area = v.area}
           e == AtNode(same, Min(Nodes(same)))
<1>1. CASE same = {}
  BY <1>1 DEF RestoreVirtual
<1>2. CASE same # {}
  <2>1. same \subseteq old /\ \A x \in same : x.node \in Nat
    BY DEF Numbers
  <2> HIDE DEF same
  <2>2. Nodes(same) \in SUBSET Nat /\ Nodes(same) # {}
    BY <1>2, <2>1 DEF Nodes
  <2>3. e \in same
    BY <2>2, Least, AtNodeIs
  <2>4. e.link \in VirtualLink
    BY <2>1, <2>3
  <2>5. e.link.secret \in Password /\ v.secret \in Password
    BY <2>4 DEF VirtualLink
  <2>6. RestoreVirtual(v, old) = [v EXCEPT !.secret = Restored(v.secret, e.link.secret)]
    BY <1>2 DEF RestoreVirtual, same, VirtualLink
  <2> HIDE DEF e
  <2>. QED
    BY <2>5, <2>6, RestoredFacts DEF VirtualLink
<1>. QED
  BY <1>1, <1>2

LEMMA RestoreLinkFacts ==
    ASSUME NEW l \in Link, NEW old, old \subseteq Link
    PROVE  RestoreLink(l, old) \in Link /\ RestoreLink(l, old).id = l.id
<1> DEFINE same == {k \in old : k.id = l.id /\ k.area = l.area}
           k == CHOOSE k \in same : TRUE
<1>1. CASE same = {}
  BY <1>1 DEF RestoreLink
<1>2. CASE same # {}
  <2>1. k \in Link
    BY <1>2
  <2>2. RestoreLink(l, old) =
          [l EXCEPT !.ends = <<RestoreEnd(l.ends[1], k.ends[1]), RestoreEnd(l.ends[2], k.ends[2])>>]
    BY <1>2 DEF RestoreLink
  <2> HIDE DEF k
  <2>3. /\ l.ends[1] \in LinkEnd /\ l.ends[2] \in LinkEnd
        /\ k.ends[1] \in LinkEnd /\ k.ends[2] \in LinkEnd
    BY <2>1 DEF Link
  <2>4. RestoreEnd(l.ends[1], k.ends[1]) \in LinkEnd /\ RestoreEnd(l.ends[2], k.ends[2]) \in LinkEnd
    BY <2>3, RestoredFacts DEF LinkEnd, RestoreEnd
  <2>. QED
    BY <2>2, <2>4 DEF Link
<1>. QED
  BY <1>1, <1>2

LEMMA RestoreConfigFacts ==
    ASSUME Numbers, NEW x \in NodeConfig, NEW old, old \subseteq NodeConfig
    PROVE  /\ RestoreConfig(x, old) \in NodeConfig
           /\ RestoreConfig(x, old).node = x.node /\ RestoreConfig(x, old).options = x.options
<1> DEFINE before == UNION {{[node |-> y.node, link |-> w] : w \in y.virtual} : y \in {z \in old : z.node = x.node}}
           new == {RestoreVirtual(v, before) : v \in x.virtual}
<1>1. before \subseteq [node : Node, link : VirtualLink]
  BY DEF NodeConfig
<1>2. x.virtual \subseteq VirtualLink
  BY DEF NodeConfig
<1>3. RestoreConfig(x, old) = [x EXCEPT !.virtual = new]
  BY DEF RestoreConfig, NodeConfig
<1> HIDE DEF before
<1>4. new \subseteq VirtualLink
  BY <1>1, <1>2, RestoreVirtualFacts
<1> HIDE DEF new
<1>. QED
  BY <1>3, <1>4 DEF NodeConfig

LEMMA RestoreAreaFacts ==
    ASSUME Numbers, NEW x \in AreaEntry, NEW old, old \subseteq AreaEntry
    PROVE  /\ RestoreArea(x, old) \in AreaEntry
           /\ RestoreArea(x, old).area = x.area /\ Settings(RestoreArea(x, old)) = Settings(x)
<1> DEFINE before == UNION {y.virtual : y \in {z \in old : z.area = x.area}}
           new == {[e EXCEPT !.link = RestoreVirtual(@, before)] : e \in x.virtual}
<1>1. before \subseteq [node : Node, link : VirtualLink]
  BY DEF AreaEntry
<1>2. x.virtual \subseteq [node : Node, link : VirtualLink]
  BY DEF AreaEntry
<1>3. RestoreArea(x, old) = [x EXCEPT !.virtual = new]
  BY DEF RestoreArea, AreaEntry
<1> HIDE DEF before
<1>4. \A e \in x.virtual : [e EXCEPT !.link = RestoreVirtual(@, before)] \in [node : Node, link : VirtualLink]
  <2> TAKE e \in x.virtual
  <2>1. e \in [node : Node, link : VirtualLink]
    BY <1>2
  <2>2. RestoreVirtual(e.link, before) \in VirtualLink
    BY <1>1, <2>1, RestoreVirtualFacts
  <2>. QED
    BY <2>1, <2>2
<1>5. new \subseteq [node : Node, link : VirtualLink]
  BY <1>4
<1> HIDE DEF new
<1>. QED
  BY <1>3, <1>5 DEF AreaEntry, Settings

LEMMA RestoreFacts ==
    ASSUME Numbers, NEW d, Good(d), NEW old, Good(old)
    PROVE  Good(Restore(d, old)) /\ Alike(d, Restore(d, old))
<1> DEFINE f == [x \in d.configs |-> RestoreConfig(x, old.configs)]
           g == [l \in d.links |-> RestoreLink(l, old.links)]
           h == [x \in d.areas |-> RestoreArea(x, old.areas)]
           c == {f[x] : x \in d.configs}
           k == {g[l] : l \in d.links}
           z == {h[x] : x \in d.areas}
<1>1. /\ GoodConfigs(d.configs) /\ GoodLinks(d.links) /\ GoodAreas(d.areas) /\ GoodMembers(d.members)
      /\ d \in DomainRecord
  BY GoodFacts
<1>2. old.configs \subseteq NodeConfig /\ old.links \subseteq Link /\ old.areas \subseteq AreaEntry
  BY GoodFacts
<1>3. Restore(d, old) = [d EXCEPT !.configs = c, !.links = k, !.areas = z]
  <2>1. Restore(d, old) = [d EXCEPT !.configs = {RestoreConfig(x, old.configs) : x \in d.configs},
                                    !.links   = {RestoreLink(l, old.links) : l \in d.links},
                                    !.areas   = {RestoreArea(x, old.areas) : x \in d.areas}]
    BY <1>1 DEF Restore, DomainRecord
  <2>2. c = {RestoreConfig(x, old.configs) : x \in d.configs}
    OBVIOUS
  <2>3. k = {RestoreLink(l, old.links) : l \in d.links}
    OBVIOUS
  <2>4. z = {RestoreArea(x, old.areas) : x \in d.areas}
    OBVIOUS
  <2> HIDE DEF c, k, z
  <2>. QED
    BY <2>1, <2>2, <2>3, <2>4
<1>4. \A x \in d.configs : f[x] \in NodeConfig /\ f[x].node = x.node /\ f[x].options = x.options
  BY <1>1, <1>2, RestoreConfigFacts DEF GoodConfigs
<1>5. \A l \in d.links : g[l] \in Link /\ g[l].id = l.id
  BY <1>1, <1>2, RestoreLinkFacts DEF GoodLinks
<1>6. \A x \in d.areas : h[x] \in AreaEntry /\ h[x].area = x.area /\ Settings(h[x]) = Settings(x)
  BY <1>1, <1>2, RestoreAreaFacts DEF GoodAreas
<1> HIDE DEF f, g, h
<1>7. GoodConfigs(c) /\ SameOptions(d.configs, c)
  BY <1>1, <1>4, MappedConfigs
<1>8. GoodLinks(k)
  BY <1>1, <1>5, MappedLinks
<1>9. GoodAreas(z) /\ SameSettings(d.areas, z)
  BY <1>1, <1>6, MappedAreas
<1> HIDE DEF c, k, z
<1>10. LET e == Restore(d, old) IN
       /\ e.configs = c /\ e.links = k /\ e.areas = z
       /\ e.structured = d.structured /\ e.members = d.members
       /\ e = [structured |-> e.structured, configs |-> e.configs, links |-> e.links,
               members |-> e.members, areas |-> e.areas]
  BY <1>1, <1>3 DEF DomainRecord
<1>11. Good(Restore(d, old))
  BY <1>7, <1>8, <1>9, <1>10, WithParts
<1>. QED
  BY <1>7, <1>9, <1>10, <1>11 DEF Alike

LEMMA MaterializeFacts ==
    ASSUME Numbers, NEW body, Good(body), NEW old, Good(old), NEW shape \in Shape
    PROVE  LET m == Materialize(body, shape, old) IN
           /\ Good(m)
           /\ shape = "whole" => Alike(body, m)
           /\ shape = "compact" => ~m.structured /\ SameOptions(body.configs, m.configs) /\ m.areas = {}
           /\ shape = "topology" => /\ m.structured = body.structured /\ m.members = body.members
                                    /\ m.configs = old.configs /\ SameSettings(body.areas, m.areas)
           /\ shape = "links" => /\ m.structured = old.structured /\ m.members = old.members
                                 /\ m.configs = old.configs /\ m.areas = old.areas
<1> DEFINE m == Materialize(body, shape, old)
           new == Restore(body, old)
<1>1. Good(new) /\ Alike(body, new)
  BY RestoreFacts
<1>2. /\ new \in DomainRecord /\ GoodConfigs(new.configs) /\ GoodLinks(new.links)
      /\ GoodMembers(new.members) /\ GoodAreas(new.areas)
  BY <1>1, GoodFacts
<1>3. /\ old \in DomainRecord /\ GoodConfigs(old.configs) /\ GoodLinks(old.links)
      /\ GoodMembers(old.members) /\ GoodAreas(old.areas)
  BY GoodFacts
<1> HIDE DEF new, m
<1>4. CASE shape = "whole"
  <2>1. m = new
    BY <1>4 DEF Materialize, m, new
  <2>. QED
    BY <1>1, <1>4, <2>1 DEF m
<1>5. CASE shape = "compact"
  <2>1. m = [new EXCEPT !.structured = FALSE, !.members = {}, !.areas = {}]
    BY <1>5 DEF Materialize, m, new
  <2>2. /\ m \in DomainRecord /\ ~m.structured /\ m.configs = new.configs /\ m.links = new.links
        /\ m.members = {} /\ m.areas = {}
    BY <1>2, <2>1 DEF DomainRecord
  <2>3. GoodMembers({}) /\ GoodAreas({})
    BY DEF GoodMembers, GoodAreas, OneEachNode, OneEachArea
  <2>. QED
    BY <1>1, <1>2, <1>5, <2>2, <2>3, Parts DEF m, Alike
<1>6. CASE shape = "topology"
  <2>1. m = [new EXCEPT !.configs = old.configs]
    BY <1>6 DEF Materialize, m, new
  <2>2. /\ m \in DomainRecord /\ m.structured = new.structured /\ m.configs = old.configs
        /\ m.links = new.links /\ m.members = new.members /\ m.areas = new.areas
    BY <1>2, <1>3, <2>1 DEF DomainRecord
  <2>. QED
    BY <1>1, <1>2, <1>3, <1>6, <2>2, Parts DEF m, Alike
<1>7. CASE shape = "links"
  <2>1. m = [old EXCEPT !.links = new.links]
    BY <1>7 DEF Materialize, m, new
  <2>2. /\ m \in DomainRecord /\ m.structured = old.structured /\ m.configs = old.configs
        /\ m.links = new.links /\ m.members = old.members /\ m.areas = old.areas
    BY <1>2, <1>3, <2>1 DEF DomainRecord
  <2>. QED
    BY <1>2, <1>3, <1>7, <2>2, Parts DEF m
<1>. QED
  BY <1>4, <1>5, <1>6, <1>7 DEF Shape

-----------------------------------------------------------------------------
(* The clients' edits.                                                     *)

\* At most one element is new, and it takes the place of its former self.
LEMMA OneConfig ==
    ASSUME NEW c, GoodConfigs(c), NEW z \in NodeConfig, OneEachArea(z.options),
           NEW e, e \subseteq c \cup {z}, \A y \in e : y.node = z.node => y = z
    PROVE  /\ GoodConfigs(e)
           /\ \A n \in Nodes(e) \cap Nodes(c) :
                 AtNode(e, n) = AtNode(c, n) \/ (n = z.node /\ AtNode(e, n) = z)
<1>1. e \subseteq NodeConfig /\ OneEachNode(e) /\ \A x \in e : OneEachArea(x.options)
  BY DEF GoodConfigs, OneEachNode
<1>2. ASSUME NEW n \in Nodes(e) \cap Nodes(c)
      PROVE  AtNode(e, n) = AtNode(c, n) \/ (n = z.node /\ AtNode(e, n) = z)
  <2>1. /\ AtNode(e, n) \in e /\ AtNode(e, n).node = n
        /\ AtNode(c, n) \in c /\ AtNode(c, n).node = n
    BY AtNodeIs
  <2>. QED
    BY <2>1 DEF GoodConfigs, OneEachNode
<1>. QED
  BY <1>1, <1>2 DEF GoodConfigs

LEMMA OneLink ==
    ASSUME NEW set, GoodLinks(set), NEW l \in Link, NEW e, e \subseteq set \cup {l},
           \A k \in e : k.id = l.id => k = l
    PROVE  GoodLinks(e)
BY DEF GoodLinks

LEMMA OneMember ==
    ASSUME NEW set, GoodMembers(set), NEW m \in Member, NEW e, e \subseteq set \cup {m},
           \A k \in e : k.node = m.node => k = m
    PROVE  GoodMembers(e)
BY DEF GoodMembers, OneEachNode

LEMMA OneArea ==
    ASSUME NEW set, GoodAreas(set), NEW x \in AreaEntry, x.options.area = x.area,
           NEW e, e \subseteq set \cup {x}, \A k \in e : k.area = x.area => k = x
    PROVE  /\ GoodAreas(e)
           /\ \A a \in Areas(e) \cap Areas(set) :
                 AtArea(e, a) = AtArea(set, a) \/ (a = x.area /\ AtArea(e, a) = x)
<1>1. GoodAreas(e)
  BY DEF GoodAreas, OneEachArea
<1>2. ASSUME NEW a \in Areas(e) \cap Areas(set)
      PROVE  AtArea(e, a) = AtArea(set, a) \/ (a = x.area /\ AtArea(e, a) = x)
  <2>1. /\ AtArea(e, a) \in e /\ AtArea(e, a).area = a
        /\ AtArea(set, a) \in set /\ AtArea(set, a).area = a
    BY AtAreaIs
  <2>. QED
    BY <2>1 DEF GoodAreas, OneEachArea
<1>. QED
  BY <1>1, <1>2

\* A domain with one other part.
LEMMA WithPart ==
    ASSUME NEW d, Good(d)
    PROVE  /\ \A c : GoodConfigs(c) =>
                 LET e == [d EXCEPT !.configs = c] IN
                 Good(e) /\ e.configs = c /\ e.areas = d.areas /\ e.structured = d.structured
           /\ \A l : GoodLinks(l) =>
                 LET e == [d EXCEPT !.links = l] IN
                 Good(e) /\ e.configs = d.configs /\ e.areas = d.areas /\ e.structured = d.structured
           /\ \A m : GoodMembers(m) =>
                 LET e == [d EXCEPT !.members = m] IN
                 Good(e) /\ e.configs = d.configs /\ e.areas = d.areas /\ e.structured = d.structured
           /\ \A x : GoodAreas(x) =>
                 LET e == [d EXCEPT !.areas = x] IN
                 Good(e) /\ e.configs = d.configs /\ e.areas = x /\ e.structured = d.structured
<1>1. /\ d \in DomainRecord /\ GoodConfigs(d.configs) /\ GoodLinks(d.links)
      /\ GoodMembers(d.members) /\ GoodAreas(d.areas)
  BY GoodFacts
<1>2. ASSUME NEW c, GoodConfigs(c)
      PROVE  LET e == [d EXCEPT !.configs = c] IN
             Good(e) /\ e.configs = c /\ e.areas = d.areas /\ e.structured = d.structured
  <2> DEFINE e == [d EXCEPT !.configs = c]
  <2>1. /\ e \in DomainRecord /\ e.configs = c /\ e.links = d.links /\ e.members = d.members
        /\ e.areas = d.areas /\ e.structured = d.structured
    BY <1>1, <1>2 DEF DomainRecord, GoodConfigs
  <2> HIDE DEF e
  <2>2. Good(e)
    BY <1>1, <1>2, <2>1, Parts
  <2>. QED
    BY <2>1, <2>2 DEF e
<1>3. ASSUME NEW l, GoodLinks(l)
      PROVE  LET e == [d EXCEPT !.links = l] IN
             Good(e) /\ e.configs = d.configs /\ e.areas = d.areas /\ e.structured = d.structured
  <2> DEFINE e == [d EXCEPT !.links = l]
  <2>1. /\ e \in DomainRecord /\ e.configs = d.configs /\ e.links = l /\ e.members = d.members
        /\ e.areas = d.areas /\ e.structured = d.structured
    BY <1>1, <1>3 DEF DomainRecord, GoodLinks
  <2> HIDE DEF e
  <2>2. Good(e)
    BY <1>1, <1>3, <2>1, Parts
  <2>. QED
    BY <2>1, <2>2 DEF e
<1>4. ASSUME NEW m, GoodMembers(m)
      PROVE  LET e == [d EXCEPT !.members = m] IN
             Good(e) /\ e.configs = d.configs /\ e.areas = d.areas /\ e.structured = d.structured
  <2> DEFINE e == [d EXCEPT !.members = m]
  <2>1. /\ e \in DomainRecord /\ e.configs = d.configs /\ e.links = d.links /\ e.members = m
        /\ e.areas = d.areas /\ e.structured = d.structured
    BY <1>1, <1>4 DEF DomainRecord, GoodMembers
  <2> HIDE DEF e
  <2>2. Good(e)
    BY <1>1, <1>4, <2>1, Parts
  <2>. QED
    BY <2>1, <2>2 DEF e
<1>5. ASSUME NEW x, GoodAreas(x)
      PROVE  LET e == [d EXCEPT !.areas = x] IN
             Good(e) /\ e.configs = d.configs /\ e.areas = x /\ e.structured = d.structured
  <2> DEFINE e == [d EXCEPT !.areas = x]
  <2>1. /\ e \in DomainRecord /\ e.configs = d.configs /\ e.links = d.links /\ e.members = d.members
        /\ e.areas = x /\ e.structured = d.structured
    BY <1>1, <1>5 DEF DomainRecord, GoodAreas
  <2> HIDE DEF e
  <2>2. Good(e)
    BY <1>1, <1>5, <2>1, Parts
  <2>. QED
    BY <2>1, <2>2 DEF e
<1>. QED
  BY <1>2, <1>3, <1>4, <1>5

\* What a client makes of a response: a good domain, that differs from the
\* stored one in the areas it changed, in its compact part, or in the rest.
IsResponse(old, r) ==
    /\ Good(r) /\ r.structured = TRUE
    /\ SameOptions(old.configs, r.configs) /\ SameSettings(Model(old).areas, r.areas)

Sent(old, body, shape, areas) ==
    /\ Good(body) /\ body.structured = TRUE /\ shape \in Shape
    /\ \A n \in Nodes(body.configs) \cap Nodes(old.configs), a \in Area \ areas :
          Opts(body.configs, n, a) = Opts(old.configs, n, a)
    /\ shape \in {"whole", "topology"} =>
          /\ Nodes(body.configs) = Nodes(old.configs)
          /\ \A a \in Areas(Model(old).areas) \ areas :
                /\ a \in Areas(body.areas)
                /\ Settings(AtArea(body.areas, a)) = Settings(AtArea(Model(old).areas, a))

LEMMA SentConfigs ==
    ASSUME NEW old, NEW r, IsResponse(old, r), NEW e, GoodConfigs(e), NEW areas,
           \A n \in Nodes(e) \cap Nodes(r.configs), a \in Area \ areas : Opts(e, n, a) = Opts(r.configs, n, a)
    PROVE  Sent(old, [r EXCEPT !.configs = e], "compact", areas)
<1> DEFINE body == [r EXCEPT !.configs = e]
<1>1. Good(body) /\ body.configs = e /\ body.structured = TRUE
  BY WithPart DEF IsResponse
<1>2. /\ Nodes(r.configs) = Nodes(old.configs)
      /\ \A n \in Nodes(old.configs) : \A a : Opts(r.configs, n, a) = Opts(old.configs, n, a)
  BY DEF IsResponse, SameOptions, Opts
<1> HIDE DEF body
<1>. QED
  BY <1>1, <1>2 DEF Sent, Shape, body

LEMMA SentRest ==
    ASSUME NEW old, NEW r, IsResponse(old, r), NEW body, Good(body), NEW areas, NEW shape \in Shape,
           body.structured = r.structured, body.configs = r.configs,
           \A a \in Areas(r.areas) \ areas :
              a \in Areas(body.areas) /\ Settings(AtArea(body.areas, a)) = Settings(AtArea(r.areas, a))
    PROVE  Sent(old, body, shape, areas)
<1>1. /\ Nodes(r.configs) = Nodes(old.configs)
      /\ \A n \in Nodes(old.configs) : \A a : Opts(r.configs, n, a) = Opts(old.configs, n, a)
  BY DEF IsResponse, SameOptions, Opts
<1>2. /\ Areas(r.areas) = Areas(Model(old).areas)
      /\ \A a \in Areas(Model(old).areas) : Settings(AtArea(r.areas, a)) = Settings(AtArea(Model(old).areas, a))
  BY DEF IsResponse, SameSettings
<1>. QED
  BY <1>1, <1>2 DEF Sent, IsResponse

Steady(d) == Good(d) /\ d # Refused /\ Normalize(d) = d /\ (~d.structured => d.areas = {})

LEMMA ResponseFacts ==
    ASSUME Numbers, Steady(domain)
    PROVE  IsResponse(domain, Response)
<1>1. Good(Model(domain)) /\ Model(domain).structured = TRUE /\ Model(domain).configs = domain.configs
  BY ModelFacts DEF Steady
<1>2. Good(Response) /\ Alike(Model(domain), Response)
  BY <1>1, RedactFacts DEF Response
<1>. QED
  BY <1>1, <1>2 DEF IsResponse, Alike

Sends == \E body, shape, areas : Sent(domain, body, shape, areas) /\ Save(body, shape, areas)

LEMMA NewConfigFacts ==
    ASSUME Schemas, NEW n \in Node, NEW v \in Versions
    PROVE  LET x == NewConfig(n, v) IN x \in NodeConfig /\ x.node = n /\ OneEachArea(x.options)
BY DEF Schemas, NewConfig, NodeConfig, OneEachArea

LEMMA ConfigChoicesFacts ==
    ASSUME Schemas, NEW x \in NodeConfig, NEW y \in ConfigChoices(x)
    PROVE  y \in NodeConfig /\ y.node = x.node /\ y.options = x.options
<1>1. Versions \subseteq SUBSET Family
  BY DEF Schemas
<1>2. CASE y = [x EXCEPT !.enabled = ~@]
  BY <1>2 DEF NodeConfig
<1>3. CASE \E v \in Versions : y = [x EXCEPT !.versions = v]
  BY <1>1, <1>3 DEF NodeConfig
<1>4. CASE \E w \in VirtualChoices(x.virtual) : y = [x EXCEPT !.virtual = w]
  <2>1. Virtual \subseteq VirtualLink
    BY DEF Virtual, VirtualLink, Password
  <2>2. \A w \in VirtualChoices(x.virtual) : w \subseteq VirtualLink
    BY <2>1 DEF VirtualChoices, NodeConfig
  <2>. QED
    BY <1>4, <2>2 DEF NodeConfig
<1>. QED
  BY <1>2, <1>3, <1>4 DEF ConfigChoices

LEMMA EditConfigSends ==
    ASSUME Numbers, Schemas, Steady(domain), EditConfig
    PROVE  Sends
<1> DEFINE r == Response
           c == r.configs
<1>1. IsResponse(domain, r) /\ GoodConfigs(c)
  BY ResponseFacts, GoodFacts DEF IsResponse
<1>2. PICK n \in Node, v \in Versions :
         IF n \notin Nodes(c) THEN Save([r EXCEPT !.configs = c \cup {NewConfig(n, v)}], "compact", {})
         ELSE LET x == AtNode(c, n) IN
              \/ Save([r EXCEPT !.configs = c \ {x}], "compact", {})
              \/ \E y \in ConfigChoices(x) : Save([r EXCEPT !.configs = Replace(c, x, y)], "compact", {})
  BY DEF EditConfig
<1> HIDE DEF r, c
<1>3. ASSUME NEW e, NEW z \in NodeConfig, OneEachArea(z.options), e \subseteq c \cup {z},
             \A y \in e : y.node = z.node => y = z,
             z.node \in Nodes(c) => z.options = AtNode(c, z.node).options,
             Save([r EXCEPT !.configs = e], "compact", {})
      PROVE  Sends
  <2>1. /\ GoodConfigs(e)
        /\ \A k \in Nodes(e) \cap Nodes(c) : AtNode(e, k) = AtNode(c, k) \/ (k = z.node /\ AtNode(e, k) = z)
    BY <1>1, <1>3, OneConfig
  <2>2. \A k \in Nodes(e) \cap Nodes(c) : AtNode(e, k).options = AtNode(c, k).options
    BY <1>3, <2>1
  <2>3. \A k \in Nodes(e) \cap Nodes(c), a \in Area \ {} : Opts(e, k, a) = Opts(c, k, a)
    BY <2>2 DEF Opts
  <2>4. Sent(domain, [r EXCEPT !.configs = e], "compact", {})
    BY <1>1, <2>1, <2>3, SentConfigs DEF c
  <2>. QED
    BY <1>3, <2>4 DEF Sends
<1>4. CASE n \notin Nodes(c)
  <2> DEFINE z == NewConfig(n, v)
             e == c \cup {z}
  <2>1. z \in NodeConfig /\ OneEachArea(z.options) /\ z.node = n
    BY NewConfigFacts
  <2>2. Save([r EXCEPT !.configs = e], "compact", {})
    BY <1>2, <1>4
  <2> HIDE DEF z
  <2>3. \A y \in e : y.node = z.node => y = z
    BY <1>4, <2>1, AtNodeIs
  <2> HIDE DEF e
  <2>. QED
    BY <1>3, <1>4, <2>1, <2>2, <2>3 DEF e
<1>5. CASE n \in Nodes(c)
  <2> DEFINE x == AtNode(c, n)
  <2>1. x \in c /\ x.node = n /\ x \in NodeConfig /\ OneEachArea(x.options)
    BY <1>1, <1>5, AtNodeIs DEF GoodConfigs
  <2>2. CASE Save([r EXCEPT !.configs = c \ {x}], "compact", {})
    <3> DEFINE e == c \ {x}
    <3> HIDE DEF x
    <3>1. \A y \in e : y.node = x.node => y = x
      BY <1>1, <2>1 DEF GoodConfigs, OneEachNode
    <3>2. x.options = AtNode(c, x.node).options
      BY <2>1 DEF x
    <3>. QED
      BY <1>3, <2>1, <2>2, <3>1, <3>2
  <2>3. ASSUME NEW y \in ConfigChoices(x), Save([r EXCEPT !.configs = Replace(c, x, y)], "compact", {})
        PROVE  Sends
    <3> DEFINE e == Replace(c, x, y)
    <3>1. y \in NodeConfig /\ y.node = n /\ y.options = x.options
      BY <2>1, ConfigChoicesFacts
    <3>2. y.options = AtNode(c, y.node).options
      BY <3>1
    <3> HIDE DEF x
    <3>3. e \subseteq c \cup {y} /\ \A k \in e : k.node = y.node => k = y
      BY <1>1, <2>1, <3>1 DEF GoodConfigs, OneEachNode, Replace
    <3> HIDE DEF e
    <3>. QED
      BY <1>3, <2>1, <2>3, <3>1, <3>2, <3>3 DEF e
  <2>. QED
    BY <1>2, <1>5, <2>2, <2>3
<1>. QED
  BY <1>4, <1>5

LEMMA EditOptionsSends ==
    ASSUME Numbers, Steady(domain), EditOptions
    PROVE  Sends
<1> DEFINE r == Response
           c == r.configs
<1>1. IsResponse(domain, r) /\ GoodConfigs(c)
  BY ResponseFacts, GoodFacts DEF IsResponse
<1>2. PICK x \in c, a \in Area :
         LET others == {o \in x.options : o.area # a} IN
         \E new \in {{}} \cup {{o} : o \in {p \in Option : p.area = a}} :
             Save([r EXCEPT !.configs = Replace(c, x, [x EXCEPT !.options = others \cup new])], "compact", {a})
  BY DEF EditOptions
<1> DEFINE others == {o \in x.options : o.area # a}
<1>3. PICK new \in {{}} \cup {{o} : o \in {p \in Option : p.area = a}} :
         Save([r EXCEPT !.configs = Replace(c, x, [x EXCEPT !.options = others \cup new])], "compact", {a})
  BY <1>2
<1> HIDE DEF r, c
<1> DEFINE y == [x EXCEPT !.options = others \cup new]
           e == Replace(c, x, y)
<1>4. x \in NodeConfig /\ OneEachArea(x.options)
  BY <1>1 DEF GoodConfigs
<1>5. new \subseteq Option /\ \A o, p \in new : o.area = a /\ o = p
  BY <1>3
<1>6. x.options \subseteq Option
  BY <1>4 DEF NodeConfig
<1> HIDE DEF others
<1>7. y \in NodeConfig /\ y.node = x.node /\ y.options = others \cup new
  <2>1. others \subseteq Option
    BY <1>6 DEF others
  <2>. QED
    BY <1>4, <1>5, <2>1 DEF NodeConfig
<1> HIDE DEF y
<1>8. OneEachArea(y.options)
  BY <1>4, <1>5, <1>7 DEF OneEachArea, others
<1>9. e \subseteq c \cup {y} /\ \A k \in e : k.node = y.node => k = y
  BY <1>1, <1>7 DEF GoodConfigs, OneEachNode, Replace
<1>10. Save([r EXCEPT !.configs = e], "compact", {a})
  BY <1>3 DEF y
<1> HIDE DEF e
<1>11. /\ GoodConfigs(e)
       /\ \A k \in Nodes(e) \cap Nodes(c) : AtNode(e, k) = AtNode(c, k) \/ (k = y.node /\ AtNode(e, k) = y)
  <2>1. y \in NodeConfig /\ y.node = x.node
    BY <1>7
  <2>. QED
    BY <1>1, <1>8, <1>9, <2>1, OneConfig
<1>12. AtNode(c, x.node) = x
  BY <1>1, AtNodeIs DEF GoodConfigs
<1>13. \A k \in Nodes(e) \cap Nodes(c), b \in Area \ {a} : Opts(e, k, b) = Opts(c, k, b)
  <2>1. \A b \in Area \ {a} : {o \in y.options : o.area = b} = {o \in x.options : o.area = b}
    BY <1>5, <1>7 DEF others
  <2>. QED
    BY <1>7, <1>11, <1>12, <2>1 DEF Opts
<1>14. Sent(domain, [r EXCEPT !.configs = e], "compact", {a})
  BY <1>1, <1>11, <1>13, SentConfigs DEF c
<1>. QED
  BY <1>10, <1>14 DEF Sends

LEMMA EditLinkSends ==
    ASSUME Numbers, Schemas, Steady(domain), NEW shape \in Shape, EditLink(shape)
    PROVE  Sends
<1> DEFINE r == Response
           set == r.links
<1>1. IsResponse(domain, r) /\ Good(r) /\ GoodLinks(set)
  BY ResponseFacts, GoodFacts DEF IsResponse
<1>2. PICK i \in LinkId :
         LET now == {l \in set : l.id = i}
             new == IF now = {} THEN NewLinks(i) ELSE UNION {{[l EXCEPT !.area = a] : a \in Area} : l \in now}
         IN  \/ Save([r EXCEPT !.links = set \ now], shape, {})
             \/ \E l \in new : Save([r EXCEPT !.links = (set \ now) \cup {l}], shape, {})
  BY DEF EditLink
<1> HIDE DEF r, set
<1> DEFINE now == {l \in set : l.id = i}
           new == IF now = {} THEN NewLinks(i) ELSE UNION {{[l EXCEPT !.area = a] : a \in Area} : l \in now}
<1>3. ASSUME NEW e, GoodLinks(e), Save([r EXCEPT !.links = e], shape, {})
      PROVE  Sends
  <2> DEFINE body == [r EXCEPT !.links = e]
  <2>1. Good(body) /\ body.configs = r.configs /\ body.areas = r.areas /\ body.structured = r.structured
    BY <1>1, <1>3, WithPart
  <2> HIDE DEF body
  <2>2. Sent(domain, body, shape, {})
    BY <1>1, <2>1, SentRest
  <2>. QED
    BY <1>3, <2>2 DEF Sends, body
<1>4. CASE Save([r EXCEPT !.links = set \ now], shape, {})
  <2>1. GoodLinks(set \ now)
    BY <1>1 DEF GoodLinks
  <2>. QED
    BY <1>3, <1>4, <2>1
<1>5. ASSUME NEW l \in new, Save([r EXCEPT !.links = (set \ now) \cup {l}], shape, {})
      PROVE  Sends
  <2>1. l \in Link /\ l.id = i
    <3>1. CASE now = {}
      BY <3>1 DEF Schemas
    <3>2. CASE now # {}
      <4>1. PICK k \in now, a \in Area : l = [k EXCEPT !.area = a]
        BY <3>2
      <4>2. k \in Link /\ k.id = i
        BY <1>1 DEF GoodLinks
      <4>. QED
        BY <4>1, <4>2 DEF Link
    <3>. QED
      BY <3>1, <3>2
  <2>2. GoodLinks((set \ now) \cup {l})
    BY <1>1, <2>1 DEF GoodLinks
  <2>. QED
    BY <1>3, <1>5, <2>2
<1>. QED
  BY <1>2, <1>4, <1>5

LEMMA EditMemberSends ==
    ASSUME Numbers, Schemas, Steady(domain), NEW shape \in Shape, EditMember(shape)
    PROVE  Sends
<1> DEFINE r == Response
           set == r.members
<1>1. IsResponse(domain, r) /\ Good(r) /\ GoodMembers(set)
  BY ResponseFacts, GoodFacts DEF IsResponse
<1>2. PICK n \in Node, v \in Versions :
         IF n \notin Nodes(set) THEN Save([r EXCEPT !.members = set \cup {NewMember(n, v)}], shape, {})
         ELSE LET m == AtNode(set, n) IN
              \/ Save([r EXCEPT !.members = set \ {m}], shape, {})
              \/ \E y \in MemberChoices(m) : Save([r EXCEPT !.members = Replace(set, m, y)], shape, {})
  BY DEF EditMember
<1> HIDE DEF r, set
<1>3. ASSUME NEW e, GoodMembers(e), Save([r EXCEPT !.members = e], shape, {})
      PROVE  Sends
  <2> DEFINE body == [r EXCEPT !.members = e]
  <2>1. Good(body) /\ body.configs = r.configs /\ body.areas = r.areas /\ body.structured = r.structured
    BY <1>1, <1>3, WithPart
  <2> HIDE DEF body
  <2>2. Sent(domain, body, shape, {})
    BY <1>1, <2>1, SentRest
  <2>. QED
    BY <1>3, <2>2 DEF Sends, body
<1>4. Versions \subseteq SUBSET Family
  BY DEF Schemas
<1>5. CASE n \notin Nodes(set)
  <2> DEFINE z == NewMember(n, v)
  <2>1. z \in Member /\ z.node = n
    BY <1>4 DEF NewMember, Member
  <2>2. Save([r EXCEPT !.members = set \cup {z}], shape, {})
    BY <1>2, <1>5
  <2> HIDE DEF z
  <2>3. \A k \in set \cup {z} : k.node = z.node => k = z
    BY <1>5, <2>1, AtNodeIs
  <2>4. GoodMembers(set \cup {z})
    BY <1>1, <2>1, <2>3, OneMember
  <2>. QED
    BY <1>3, <2>2, <2>4
<1>6. CASE n \in Nodes(set)
  <2> DEFINE m == AtNode(set, n)
  <2>1. m \in set /\ m.node = n /\ m \in Member
    BY <1>1, <1>6, AtNodeIs DEF GoodMembers
  <2>2. CASE Save([r EXCEPT !.members = set \ {m}], shape, {})
    <3>1. GoodMembers(set \ {m})
      BY <1>1 DEF GoodMembers, OneEachNode
    <3>. QED
      BY <1>3, <2>2, <3>1
  <2>3. ASSUME NEW y \in MemberChoices(m), Save([r EXCEPT !.members = Replace(set, m, y)], shape, {})
        PROVE  Sends
    <3>1. y \in Member /\ y.node = m.node
      <4> HIDE DEF m
      <4>1. CASE y = [m EXCEPT !.enabled = ~@]
        BY <2>1, <4>1 DEF Member
      <4>2. CASE \E w \in Versions : y = [m EXCEPT !.versions = w]
        BY <1>4, <2>1, <4>2 DEF Member
      <4>. QED
        BY <4>1, <4>2 DEF MemberChoices
    <3>2. GoodMembers(Replace(set, m, y))
      <4> HIDE DEF m
      <4>. QED
        BY <1>1, <2>1, <3>1 DEF GoodMembers, OneEachNode, Replace
    <3>. QED
      BY <1>3, <2>3, <3>2
  <2>. QED
    BY <1>2, <1>6, <2>2, <2>3
<1>. QED
  BY <1>5, <1>6

\* One entry of the areas is changed.
LEMMA AreaSent ==
    ASSUME NEW old, NEW r, IsResponse(old, r), NEW shape \in Shape, NEW areas,
           NEW x \in AreaEntry, x.options.area = x.area,
           NEW e, e \subseteq r.areas \cup {x}, \A k \in e : k.area = x.area => k = x,
           Areas(r.areas) \ areas \subseteq Areas(e),
           \A y \in r.areas : y.area = x.area /\ x.area \notin areas => Settings(x) = Settings(y)
    PROVE  Sent(old, [r EXCEPT !.areas = e], shape, areas)
<1> DEFINE body == [r EXCEPT !.areas = e]
           set == r.areas
<1>1. Good(r) /\ GoodAreas(set)
  BY GoodFacts DEF IsResponse
<1> HIDE DEF set
<1>2. /\ GoodAreas(e)
      /\ \A a \in Areas(e) \cap Areas(set) :
            AtArea(e, a) = AtArea(set, a) \/ (a = x.area /\ AtArea(e, a) = x)
  BY <1>1, OneArea DEF set
<1>3. Good(body) /\ body.configs = r.configs /\ body.areas = e /\ body.structured = r.structured
  BY <1>1, <1>2, WithPart
<1> HIDE DEF body
<1>4. ASSUME NEW a \in Areas(r.areas) \ areas
      PROVE  a \in Areas(e) /\ Settings(AtArea(e, a)) = Settings(AtArea(r.areas, a))
  <2>1. AtArea(r.areas, a) \in r.areas /\ AtArea(r.areas, a).area = a
    BY AtAreaIs
  <2>. QED
    BY <1>2, <2>1 DEF set
<1>5. Sent(old, body, shape, areas)
  BY <1>3, <1>4, SentRest
<1>. QED
  BY <1>5 DEF body

LEMMA AreaChoicesFacts ==
    ASSUME NEW x \in AreaEntry, x.options.area = x.area, NEW y \in AreaChoices(x)
    PROVE  y \in AreaEntry /\ y.area = x.area /\ y.options.area = y.area
<1>1. CASE \E t \in {"normal", "stub"} : y = [x EXCEPT !.type = t]
  BY <1>1 DEF AreaEntry
<1>2. CASE y = [x EXCEPT !.options.summary = ~@]
  <2> DEFINE o == [x.options EXCEPT !.summary = ~@]
  <2>1. x.options \in Option
    BY DEF AreaEntry
  <2>2. o \in Option /\ o.area = x.area
    BY <2>1 DEF Option
  <2>3. y = [x EXCEPT !.options = o]
    BY <1>2 DEF AreaEntry
  <2> HIDE DEF o
  <2>. QED
    BY <2>2, <2>3 DEF AreaEntry
<1>3. CASE \E s \in SUBSET Net : y = [x EXCEPT !.nets = s]
  BY <1>3 DEF AreaEntry
<1>. QED
  BY <1>1, <1>2, <1>3 DEF AreaChoices

LEMMA EditAreaSends ==
    ASSUME Numbers, Steady(domain), NEW shape \in Shape, EditArea(shape)
    PROVE  Sends
<1> DEFINE r == Response
           set == r.areas
<1>1. IsResponse(domain, r) /\ GoodAreas(set)
  BY ResponseFacts, GoodFacts DEF IsResponse
<1>2. PICK a \in Area :
         IF a \notin Areas(set) THEN Save([r EXCEPT !.areas = set \cup {NewArea(a)}], shape, {a})
         ELSE LET x == AtArea(set, a) IN
              \/ Save([r EXCEPT !.areas = set \ {x}], shape, {a})
              \/ \E y \in AreaChoices(x) : Save([r EXCEPT !.areas = Replace(set, x, y)], shape, {a})
  BY DEF EditArea
<1> HIDE DEF r, set
<1>3. ASSUME NEW e, NEW z \in AreaEntry, z.options.area = z.area, z.area = a, e \subseteq set \cup {z},
             \A k \in e : k.area = z.area => k = z, \A k \in set : k.area # a => k \in e,
             Save([r EXCEPT !.areas = e], shape, {a})
      PROVE  Sends
  <2>1. Areas(set) \ {a} \subseteq Areas(e)
    BY <1>3 DEF Areas
  <2>2. Sent(domain, [r EXCEPT !.areas = e], shape, {a})
    BY <1>1, <1>3, <2>1, AreaSent DEF set
  <2>. QED
    BY <1>3, <2>2 DEF Sends
<1>4. CASE a \notin Areas(set)
  <2> DEFINE z == NewArea(a)
             e == set \cup {z}
  <2>1. z \in AreaEntry /\ z.area = a /\ z.options.area = z.area
    BY DEF NewArea, Plain, AreaEntry, Option
  <2>2. Save([r EXCEPT !.areas = e], shape, {a})
    BY <1>2, <1>4
  <2> HIDE DEF z
  <2>3. \A k \in e : k.area = z.area => k = z
    BY <1>4, <2>1, AtAreaIs
  <2>4. e \subseteq set \cup {z} /\ \A k \in set : k.area # a => k \in e
    OBVIOUS
  <2> HIDE DEF e
  <2>. QED
    BY <1>3, <2>1, <2>2, <2>3, <2>4
<1>5. CASE a \in Areas(set)
  <2> DEFINE x == AtArea(set, a)
  <2>1. x \in set /\ x.area = a /\ x \in AreaEntry /\ x.options.area = x.area
    BY <1>1, <1>5, AtAreaIs DEF GoodAreas
  <2>2. CASE Save([r EXCEPT !.areas = set \ {x}], shape, {a})
    <3> HIDE DEF x
    <3> DEFINE e == set \ {x}
    <3>1. /\ e \subseteq set \cup {x} /\ \A k \in e : k.area = x.area => k = x
          /\ \A k \in set : k.area # a => k \in e
      BY <1>1, <2>1 DEF GoodAreas, OneEachArea
    <3>. QED
      BY <1>3, <2>1, <2>2, <3>1
  <2>3. ASSUME NEW y \in AreaChoices(x), Save([r EXCEPT !.areas = Replace(set, x, y)], shape, {a})
        PROVE  Sends
    <3> DEFINE e == Replace(set, x, y)
    <3>1. y \in AreaEntry /\ y.area = a /\ y.options.area = y.area
      BY <2>1, AreaChoicesFacts
    <3> HIDE DEF x
    <3>2. /\ e \subseteq set \cup {y} /\ \A k \in e : k.area = y.area => k = y
          /\ \A k \in set : k.area # a => k \in e
      BY <1>1, <2>1, <3>1 DEF GoodAreas, OneEachArea, Replace
    <3> HIDE DEF e
    <3>. QED
      BY <1>3, <2>3, <3>1, <3>2 DEF e
  <2>. QED
    BY <1>2, <1>5, <2>2, <2>3
<1>. QED
  BY <1>4, <1>5

LEMMA EditVirtualSends ==
    ASSUME Numbers, Steady(domain), NEW shape \in Shape, EditVirtual(shape)
    PROVE  Sends
<1> DEFINE r == Response
           set == r.areas
<1>1. IsResponse(domain, r) /\ GoodAreas(set) /\ Good(r)
  BY ResponseFacts, GoodFacts DEF IsResponse
<1>2. PICK x \in set :
        \/ Save([r EXCEPT !.areas = Replace(set, x, [x EXCEPT !.virtual = {}])], shape, {})
        \/ \E n \in Nodes(r.members), v \in Virtual :
              Save([r EXCEPT !.areas = Replace(set, x, [x EXCEPT !.virtual = x.virtual \cup {[node |-> n, link |-> v]}])],
                   shape, {})
  BY DEF EditVirtual
<1>3. Nodes(r.members) \subseteq Node
  BY <1>1, GoodFacts DEF Nodes, Member
<1> HIDE DEF r, set
<1>4. x \in AreaEntry /\ x.options.area = x.area
  BY <1>1 DEF GoodAreas
<1>5. ASSUME NEW w, w \subseteq [node : Node, link : VirtualLink],
             Save([r EXCEPT !.areas = Replace(set, x, [x EXCEPT !.virtual = w])], shape, {})
      PROVE  Sends
  <2> DEFINE z == [x EXCEPT !.virtual = w]
             e == Replace(set, x, z)
  <2>1. z \in AreaEntry /\ z.area = x.area /\ z.options.area = z.area /\ Settings(z) = Settings(x)
    BY <1>4, <1>5 DEF AreaEntry, Settings
  <2> HIDE DEF z
  <2>2. e \subseteq set \cup {z} /\ \A k \in e : k.area = z.area => k = z
    BY <1>1, <2>1 DEF GoodAreas, OneEachArea, Replace
  <2>3. Areas(set) \ {} \subseteq Areas(e)
    BY <2>1 DEF Areas, Replace
  <2>4. \A y \in set : y.area = z.area => Settings(z) = Settings(y)
    BY <1>1, <2>1 DEF GoodAreas, OneEachArea
  <2> HIDE DEF e
  <2>5. Sent(domain, [r EXCEPT !.areas = e], shape, {})
    BY <1>1, <2>1, <2>2, <2>3, <2>4, AreaSent DEF set
  <2>. QED
    BY <1>5, <2>5 DEF Sends, e, z
<1>6. CASE Save([r EXCEPT !.areas = Replace(set, x, [x EXCEPT !.virtual = {}])], shape, {})
  <2> DEFINE w == {}
  <2>1. /\ w \subseteq [node : Node, link : VirtualLink]
        /\ Save([r EXCEPT !.areas = Replace(set, x, [x EXCEPT !.virtual = w])], shape, {})
    BY <1>6
  <2> HIDE DEF w
  <2>. QED
    BY <1>5, <2>1
<1>7. ASSUME NEW n \in Nodes(r.members), NEW v \in Virtual,
             Save([r EXCEPT !.areas = Replace(set, x, [x EXCEPT !.virtual = x.virtual \cup {[node |-> n, link |-> v]}])],
                  shape, {})
      PROVE  Sends
  <2>1. v \in VirtualLink
    BY DEF Virtual, VirtualLink, Password
  <2>2. x.virtual \cup {[node |-> n, link |-> v]} \subseteq [node : Node, link : VirtualLink]
    BY <1>3, <1>4, <2>1 DEF AreaEntry
  <2>. QED
    BY <1>5, <1>7, <2>2
<1>. QED
  BY <1>2, <1>6, <1>7

LEMMA NextSends ==
    ASSUME Numbers, Schemas, Steady(domain), DomainNext
    PROVE  Sends
<1>1. CASE EditConfig
  BY <1>1, EditConfigSends
<1>2. CASE EditOptions
  BY <1>2, EditOptionsSends
<1>3. CASE \E shape \in Shape : EditLink(shape)
  BY <1>3, EditLinkSends
<1>4. ASSUME NEW shape \in {"whole", "topology"}, EditArea(shape) \/ EditVirtual(shape) \/ EditMember(shape)
      PROVE  Sends
  <2>1. shape \in Shape
    BY DEF Shape
  <2>. QED
    BY <1>4, <2>1, EditAreaSends, EditVirtualSends, EditMemberSends
<1>. QED
  BY <1>1, <1>2, <1>3, <1>4 DEF DomainNext

-----------------------------------------------------------------------------
(* Saving.                                                                 *)

LEMMA SaveFacts ==
    ASSUME Numbers, NEW old, Steady(old), NEW body, NEW shape, NEW areas, Sent(old, body, shape, areas),
           NEW new, new # Refused,
           Normalize(Materialize(body, shape, old)) # Refused,
           new = Normalize(Normalize(Materialize(body, shape, old)))
    PROVE  Steady(new)
<1> DEFINE m == Materialize(body, shape, old)
<1>1. Good(m)
  BY MaterializeFacts DEF Steady, Sent
<1>2. shape \in Shape /\ Good(body) /\ Good(old) /\ body.structured = TRUE /\ (~old.structured => old.areas = {})
  BY DEF Steady, Sent
<1>3. ~m.structured => m.areas = {}
  BY <1>2, MaterializeFacts DEF Shape, Alike
<1> HIDE DEF m
<1>4. Good(Normalize(m)) /\ Normalize(m).structured = m.structured /\ (~m.structured => Normalize(m) = m)
  BY <1>1, NormalFacts DEF m
<1>5. Good(new) /\ new.structured = m.structured /\ (~m.structured => new = m)
  BY <1>4, NormalFacts DEF m
<1>6. Normalize(new) = new
  BY <1>1, Stable DEF m
<1>. QED
  BY <1>3, <1>5, <1>6 DEF Steady

THEOREM SteadyInvariant == DomainSpec => []Steady(domain)
<1> USE NumberAssumption, SchemaAssumption
<1>1. DomainInit => Steady(domain)
  BY DEF DomainInit, Schemas, Steady, Good
<1>2. Steady(domain) /\ [DomainNext]_domainVars => Steady(domain)'
  <2> SUFFICES ASSUME Steady(domain), [DomainNext]_domainVars PROVE Steady(domain)'
    OBVIOUS
  <2>1. CASE DomainNext
    <3>1. PICK body, shape, areas : Sent(domain, body, shape, areas) /\ Save(body, shape, areas)
      BY <2>1, NextSends DEF Sends
    <3>2. Steady(domain')
      BY <3>1, SaveFacts DEF Save
    <3>. QED
      BY <3>2 DEF Steady, Good
  <2>2. CASE UNCHANGED domainVars
    BY <2>2 DEF domainVars, Steady
  <2>. QED
    BY <2>1, <2>2
<1>. QED
  BY <1>1, <1>2, PTL DEF DomainSpec

THEOREM StableReads == DomainSpec => []ReadsAreStable
<1> USE NumberAssumption, SchemaAssumption
<1>1. Steady(domain) => ReadsAreStable
  BY DEF Steady, ReadsAreStable
<1>. QED
  BY <1>1, SteadyInvariant, PTL

-----------------------------------------------------------------------------
(* What a node gets.                                                       *)

LEMMA EndFacts ==
    ASSUME NEW l, NEW n \in Nodes(Ends(l))
    PROVE  EndOf(l, n) \in Ends(l) /\ EndOf(l, n).node = n
BY DEF EndOf, Ends, Nodes

\* Links that share an interface of a node make one block.
LEMMA OneBlock ==
    ASSUME Numbers, NEW d, Good(d), Valid(d), NEW x \in d.configs, x.enabled, NEW v \in x.versions,
           NEW l \in LinksAt(d, x.node)
    PROVE  LET e      == EndOf(l, x.node)
               blocks == {b \in Blocks(d, x.node, v) : b.interface = e.interface}
           IN  \E b \in blocks :
                  /\ blocks = {b} /\ b.area = l.area /\ b.cost = l.cost /\ b.auth = l.auth
                  /\ b.type = e.type /\ b.secret = e.secret
                  /\ {y \in e.neighbors : y.family = v} \subseteq b.neighbors
                  /\ b.type = "nbma" \/ (b.type = "ptmp" /\ e.neighbors # {}) => b.neighbors # {}
                  /\ ~(b.auth = "simple" /\ v = "v3")
<1> DEFINE n == x.node
           e == EndOf(l, n)
           b == Block(d, n, v, l.area, e.interface)
           group == {k \in LinksAt(d, n) : k.area = l.area /\ EndOf(k, n).interface = e.interface}
           first == CHOOSE k \in group : \A j \in group : k.id <= j.id
<1>1. \A k \in LinksAt(d, n) : k \in d.links /\ EndOf(k, n) \in Ends(k) /\ EndOf(k, n).node = n
  BY EndFacts DEF LinksAt
<1>2. ASSUME NEW k \in LinksAt(d, n), EndOf(k, n).interface = e.interface
      PROVE  /\ k.area = l.area /\ k.cost = l.cost /\ k.auth = l.auth
             /\ EndOf(k, n).type = e.type /\ EndOf(k, n).secret = e.secret
  <2>1. CASE k = l
    BY <2>1
  <2>2. CASE k # l
    <3>1. Agree(k, l)
      BY <1>1, <2>2 DEF Valid
    <3>. QED
      BY <1>1, <1>2, <3>1 DEF Agree
  <2>. QED
    BY <2>1, <2>2
<1>3. first \in group
  <2> DEFINE ids == {k.id : k \in group}
  <2>1. \A k \in group : k.id \in Nat
    <3>1. \A k \in d.links : k.id \in LinkId
      BY GoodFacts DEF Link
    <3>. QED
      BY <1>1, <3>1 DEF Numbers
  <2>2. l \in group
    OBVIOUS
  <2> HIDE DEF group
  <2>3. ids \in SUBSET Nat /\ ids # {}
    BY <2>1, <2>2
  <2>4. PICK k \in group : k.id = Min(ids)
    BY <2>3, Least
  <2>5. \A j \in group : k.id <= j.id
    BY <2>3, <2>4, Least
  <2>. QED
    BY <2>5
<1>4. b = [interface |-> e.interface, area |-> l.area, cost |-> first.cost, auth |-> first.auth,
           type |-> EndOf(first, n).type, secret |-> EndOf(first, n).secret,
           neighbors |-> {y \in UNION {EndOf(k, n).neighbors : k \in group} : y.family = v}]
  BY DEF Block
<1>5. \A k \in LinksAt(d, n) : EndOf(k, n).interface = e.interface =>
          Block(d, n, v, k.area, EndOf(k, n).interface) = b
  BY <1>2
<1>6. \A k \in LinksAt(d, n) : Block(d, n, v, k.area, EndOf(k, n).interface).interface = EndOf(k, n).interface
  BY DEF Block
<1> HIDE DEF first, b
<1>7. first \in LinksAt(d, n) /\ EndOf(first, n).interface = e.interface
  BY <1>3
<1>8. /\ b.interface = e.interface /\ b.area = l.area /\ b.cost = l.cost /\ b.auth = l.auth
      /\ b.type = e.type /\ b.secret = e.secret
  BY <1>2, <1>4, <1>7
<1>9. {y \in e.neighbors : y.family = v} \subseteq b.neighbors
  <2>1. l \in group
    OBVIOUS
  <2> HIDE DEF group, e
  <2>2. b.neighbors = {y \in UNION {EndOf(k, n).neighbors : k \in group} : y.family = v}
    BY <1>4
  <2>. QED
    BY <2>1, <2>2 DEF e
<1>10. {z \in Blocks(d, n, v) : z.interface = e.interface} = {b}
  <2>1. b \in Blocks(d, n, v)
    BY DEF Blocks, b
  <2>2. \A z \in Blocks(d, n, v) : z.interface = e.interface => z = b
    BY <1>5, <1>6 DEF Blocks
  <2>. QED
    BY <1>8, <2>1, <2>2
<1>11. /\ l.auth = "simple" => "v3" \notin x.versions
       /\ e.type = "nbma" \/ (e.type = "ptmp" /\ e.neighbors # {}) => \E y \in e.neighbors : y.family = v
  <2>1. ValidEnd(d.configs, l, e)
    BY <1>1 DEF Valid
  <2>2. AtNode(d.configs, e.node) = x
    BY <1>1, AtNodeIs, GoodFacts
  <2>3. /\ l.auth = "simple" => "v3" \notin x.versions
        /\ e.type = "nbma" \/ (e.type = "ptmp" /\ e.neighbors # {}) =>
              x.versions \subseteq {y.family : y \in e.neighbors}
    <3> HIDE DEF e
    <3>. QED
      BY <2>1, <2>2 DEF ValidEnd
  <2>. QED
    BY <2>3
<1> HIDE DEF e
<1>. QED
  BY <1>8, <1>9, <1>10, <1>11 DEF e

THEOREM ConfiguredLinks == DomainSpec => []LinksAsConfigured
<1> USE NumberAssumption, SchemaAssumption
<1>1. Steady(domain) => LinksAsConfigured
  <2> SUFFICES ASSUME Steady(domain) PROVE LinksAsConfigured
    OBVIOUS
  <2>1. Good(domain) /\ Valid(domain)
    BY NormalFacts DEF Steady
  <2>. QED
    BY <2>1, OneBlock DEF LinksAsConfigured
<1>. QED
  BY <1>1, SteadyInvariant, PTL

-----------------------------------------------------------------------------
(* Areas nobody touches.                                                   *)

\* A structured domain in the inventory has an entry for every area, and its
\* configurations are what the entries make of them.
LEMMA Settling ==
    ASSUME Numbers, NEW d, Steady(d), d.structured
    PROVE  /\ Adapt(d).configs = d.configs /\ Nodes(d.members) = Nodes(d.configs)
           /\ \A a \in Area : Configured(d.configs, a) # {} => a \in Areas(d.areas)
<1>1. Good(d) /\ Normalize(d) # Refused /\ Normalize(d) = d
  BY DEF Steady
<1>2. d = Model(Adapt(d)) /\ d.configs = Adapt(d).configs
  BY <1>1, NormalFacts
<1>3. Nodes(d.members) = Nodes(d.configs)
  BY <1>1, <1>2, MemberNodes
<1>4. Good(Adapt(d))
  BY <1>1, AdaptFacts
<1>5. Areas(d.areas) = AreaNames(Adapt(d))
  BY <1>2, <1>4, ModelFacts
<1>6. \A x \in d.configs : Areas(x.options) \subseteq Areas(d.areas)
  BY <1>2, <1>4, <1>5, AreaNamesFacts
<1>. QED
  BY <1>2, <1>3, <1>6 DEF Configured

\* An entry with the settings an area has in the projection of a stored domain
\* makes of the members what they have.
LEMMA FirstSave ==
    ASSUME Numbers, NEW old, Steady(old), NEW a \in Area, Configured(old.configs, a) # {},
           NEW m, Good(m), m.structured, NEW x \in m.areas, x.area = a,
           Settings(x) = Settings(AtArea(Model(old).areas, a)),
           Nodes(m.configs) = Nodes(old.configs),
           \A k \in Nodes(old.configs) : Opts(m.configs, k, a) = Opts(old.configs, k, a),
           NEW n \in Nodes(old.configs) \cap Nodes(m.members)
    PROVE  Opts(Adapt(m).configs, n, a) = Opts(old.configs, n, a)
<1>1. Good(old) /\ GoodConfigs(old.configs) /\ GoodConfigs(m.configs)
  BY GoodFacts DEF Steady
<1>2. /\ Nodes(Configured(m.configs, a)) = Nodes(Configured(old.configs, a))
      /\ First(m.configs, a) = First(old.configs, a)
  BY <1>1, SameFirst
<1>3. Configured(m.configs, a) # {}
  BY <1>2 DEF Nodes
<1>4. /\ \E z \in m.configs : a \in OwnAreas(z)
      /\ \E z \in old.configs : a \in OwnAreas(z)
  BY <1>3 DEF Configured, OwnAreas
<1>5. Opts(Adapt(m).configs, n, a) =
          IF n \in Nodes(m.configs) /\ Retained(m.configs, x) THEN Opts(m.configs, n, a) ELSE {Given(x)}
  BY MemberOpts
<1>6. a \in AreaNames(old) /\ AtArea(Model(old).areas, a) = AreaModel(old, a)
  <2>1. a \in AreaNames(old)
    BY <1>1, <1>4, AreaNamesFacts DEF OwnAreas
  <2>. QED
    BY <1>1, <2>1, ModelFacts
<1>7. CASE Retained(m.configs, x)
  BY <1>5, <1>7
<1>8. CASE ~Retained(m.configs, x)
  <2>1. CASE ~old.structured
    <3>1. a \notin Areas(old.areas)
      BY <2>1 DEF Steady, Areas
    <3>2. Settings(x) = <<First(m.configs, a).type, First(m.configs, a), First(m.configs, a).nets>>
      BY <1>1, <1>2, <1>6, <3>1, AreaModelFacts
    <3>. QED
      BY <1>4, <1>8, <3>2 DEF Retained
  <2>2. CASE old.structured
    <3> DEFINE y == AtArea(old.areas, a)
    <3>1. /\ Adapt(old).configs = old.configs /\ Nodes(old.members) = Nodes(old.configs)
          /\ a \in Areas(old.areas)
      BY <2>2, Settling
    <3>2. y \in old.areas /\ y.area = a
      BY <3>1, AtAreaIs
    <3>3. Settings(x) = Settings(y)
      BY <1>1, <1>6, <3>1, AreaModelFacts
    <3> HIDE DEF y
    <3>4. Given(y) = Given(x)
      BY <3>3 DEF Given, Settings
    <3>5. ~Retained(old.configs, y)
      BY <1>2, <1>4, <1>8, <3>2, <3>3 DEF Retained
    <3>6. Opts(Adapt(old).configs, n, y.area) =
             IF n \in Nodes(old.configs) /\ Retained(old.configs, y) THEN Opts(old.configs, n, y.area)
             ELSE {Given(y)}
      BY <1>1, <2>2, <3>1, <3>2, MemberOpts
    <3>. QED
      BY <1>5, <1>8, <3>1, <3>2, <3>4, <3>5, <3>6
  <2>. QED
    BY <2>1, <2>2
<1>. QED
  BY <1>7, <1>8

LEMMA Settled ==
    ASSUME Numbers, NEW old, Steady(old), NEW body, NEW shape, NEW areas, Sent(old, body, shape, areas),
           NEW new, new # Refused,
           Normalize(Materialize(body, shape, old)) # Refused,
           new = Normalize(Normalize(Materialize(body, shape, old))),
           NEW a \in Area \ areas, Nodes(Configured(old.configs, a)) # {},
           \/ Nodes(Configured(old.configs, a)) \subseteq Nodes(new.configs)
           \/ shape \in {"compact", "links"},
           NEW n \in Nodes(old.configs) \cap Nodes(new.configs)
    PROVE  Opts(new.configs, n, a) = Opts(old.configs, n, a)
<1> DEFINE m == Materialize(body, shape, old)
           c == Normalize(m)
           having == Nodes(Configured(old.configs, a))
<1>1. shape \in Shape /\ Good(body) /\ Good(old) /\ body.structured = TRUE
  BY DEF Steady, Sent
<1>2. /\ Good(m)
      /\ shape = "whole" => Alike(body, m)
      /\ shape = "compact" => ~m.structured /\ SameOptions(body.configs, m.configs)
      /\ shape = "topology" => /\ m.structured = body.structured /\ m.members = body.members
                               /\ m.configs = old.configs /\ SameSettings(body.areas, m.areas)
      /\ shape = "links" => /\ m.structured = old.structured /\ m.members = old.members
                            /\ m.configs = old.configs /\ m.areas = old.areas
  BY <1>1, MaterializeFacts
<1>3. Configured(old.configs, a) # {}
  BY DEF Nodes
<1> HIDE DEF m
<1>4. c # Refused /\ new = Normalize(c)
  BY DEF m
<1>5. /\ Good(c) /\ c.structured = m.structured
      /\ m.structured => c = Model(Adapt(m)) /\ c.configs = Adapt(m).configs
      /\ ~m.structured => c = m
  BY <1>2, <1>4, NormalFacts
<1> HIDE DEF c
<1>6. /\ c.structured => new.configs = Adapt(c).configs
      /\ ~c.structured => new = c
  BY <1>4, <1>5, NormalFacts
<1>7. CASE ~m.structured
  <2>1. new = m
    BY <1>5, <1>6, <1>7
  <2>2. shape \in {"compact", "links"}
    BY <1>1, <1>2, <1>7 DEF Shape, Alike
  <2>3. CASE shape = "links"
    BY <1>2, <2>1, <2>3
  <2>4. CASE shape = "compact"
    <3>1. SameOptions(body.configs, m.configs)
      BY <1>2, <2>4
    <3>2. n \in Nodes(body.configs) /\ Opts(m.configs, n, a) = Opts(body.configs, n, a)
      BY <2>1, <3>1 DEF SameOptions, Opts
    <3>. QED
      BY <2>1, <3>2 DEF Sent
  <2>. QED
    BY <2>2, <2>3, <2>4
<1>8. CASE m.structured
  <2>1. shape \in {"whole", "topology", "links"}
    BY <1>1, <1>2, <1>8 DEF Shape
  <2>2. /\ Nodes(m.configs) = Nodes(old.configs)
        /\ \A k \in Nodes(old.configs) : Opts(m.configs, k, a) = Opts(old.configs, k, a)
    <3>1. CASE shape = "whole"
      <4>1. SameOptions(body.configs, m.configs)
        BY <1>2, <3>1 DEF Alike
      <4>2. /\ Nodes(body.configs) = Nodes(old.configs)
            /\ \A k \in Nodes(old.configs) : Opts(body.configs, k, a) = Opts(old.configs, k, a)
        BY <3>1 DEF Sent
      <4>. QED
        BY <4>1, <4>2 DEF SameOptions, Opts
    <3>2. CASE shape \in {"topology", "links"}
      BY <1>2, <3>2
    <3>. QED
      BY <2>1, <3>1, <3>2
  <2>3. a \in Areas(Model(old).areas)
    <3>1. \E z \in old.configs : a \in Areas(z.options)
      BY <1>3 DEF Configured
    <3>2. a \in AreaNames(old)
      BY <1>1, <3>1, AreaNamesFacts
    <3>. QED
      BY <1>1, <3>2, ModelFacts
  <2>4. a \in Areas(m.areas) /\ Settings(AtArea(m.areas, a)) = Settings(AtArea(Model(old).areas, a))
    <3>1. CASE shape \in {"whole", "topology"}
      <4>1. SameSettings(body.areas, m.areas)
        BY <1>2, <3>1 DEF Alike
      <4>2. /\ a \in Areas(body.areas)
            /\ Settings(AtArea(body.areas, a)) = Settings(AtArea(Model(old).areas, a))
        BY <2>3, <3>1 DEF Sent
      <4>. QED
        BY <4>1, <4>2 DEF SameSettings
    <3>2. CASE shape = "links"
      <4>1. old.structured /\ m.areas = old.areas
        BY <1>2, <1>8, <3>2
      <4>2. a \in Areas(old.areas)
        BY <1>3, <4>1, Settling
      <4>3. AtArea(Model(old).areas, a) = AreaModel(old, a)
        BY <1>1, <2>3, ModelFacts
      <4>. QED
        BY <1>1, <4>1, <4>2, <4>3, AreaModelFacts
    <3>. QED
      BY <2>1, <3>1, <3>2
  <2> DEFINE x == AtArea(m.areas, a)
  <2>5. x \in m.areas /\ x.area = a
    BY <2>4, AtAreaIs
  <2>6. Nodes(new.configs) = Nodes(m.members) /\ Nodes(c.members) = Nodes(m.members)
    <3>1. Nodes(Adapt(m).configs) = Nodes(m.members) /\ Good(Adapt(m))
      BY <1>2, <1>8, MemberNodes, AdaptFacts
    <3>2. Nodes(c.members) = Nodes(Adapt(m).configs)
      BY <1>5, <1>8, <3>1, ModelFacts
    <3>3. Nodes(Adapt(c).configs) = Nodes(c.members)
      BY <1>5, <1>8, MemberNodes
    <3>. QED
      BY <1>5, <1>6, <1>8, <3>1, <3>2, <3>3
  <2>7. Opts(Adapt(m).configs, n, a) = Opts(old.configs, n, a)
    <3> HIDE DEF x
    <3>1. Settings(x) = Settings(AtArea(Model(old).areas, a))
      BY <2>4 DEF x
    <3>. QED
      BY <1>2, <1>3, <1>8, <2>2, <2>5, <2>6, <3>1, FirstSave
  <2>8. Nodes(Configured(m.configs, a)) = having
    BY <1>1, <1>2, <2>2, SameFirst, GoodFacts
  <2>9. having \subseteq Nodes(m.members) /\ Configured(m.configs, a) # {}
    <3>1. Configured(m.configs, a) # {}
      BY <2>8 DEF Nodes
    <3>2. CASE shape \in {"whole", "topology"}
      BY <2>6, <3>1, <3>2
    <3>3. CASE shape = "links"
      <4>1. Nodes(m.members) = Nodes(old.configs)
        BY <1>2, <1>8, <3>3, Settling
      <4>2. having \subseteq Nodes(old.configs)
        BY <1>1, FirstFacts, GoodFacts
      <4>. QED
        BY <3>1, <4>1, <4>2
    <3>. QED
      BY <2>1, <3>2, <3>3
  <2>10. PICK y \in c.areas : y.area = a /\ Settings(y) = Settings(x)
    <3>1. Good(Adapt(m)) /\ Adapt(m).areas = m.areas
      BY <1>2, <1>8, AdaptFacts
    <3>2. a \in AreaNames(Adapt(m))
      BY <2>4, <3>1, AreaNamesFacts
    <3>3. AreaModel(Adapt(m), a) \in c.areas
      <4>1. c.areas = {AreaModel(Adapt(m), b) : b \in AreaNames(Adapt(m))}
        BY <1>5, <1>8, <3>1, ModelFacts
      <4>. QED
        BY <3>2, <4>1
    <3>. QED
      BY <2>4, <3>1, <3>3, AreaModelFacts
  <2> HIDE DEF x
  <2>11. Opts(Adapt(c).configs, n, x.area) = Opts(Adapt(m).configs, n, x.area)
    <3>1. /\ Good(m) /\ Good(c) /\ c.structured /\ c.configs = Adapt(m).configs
          /\ Nodes(c.members) = Nodes(m.members) /\ n \in Nodes(m.members)
      BY <1>2, <1>5, <1>8, <2>6
    <3>2. y.area = x.area /\ Settings(y) = Settings(x)
      BY <2>5, <2>10
    <3>3. Nodes(Configured(m.configs, x.area)) \subseteq Nodes(m.members) /\ Configured(m.configs, x.area) # {}
      BY <2>5, <2>8, <2>9
    <3>. QED
      BY <1>8, <2>5, <3>1, <3>2, <3>3, OptsKept
  <2>. QED
    BY <1>5, <1>6, <1>8, <2>5, <2>7, <2>11
<1>. QED
  BY <1>7, <1>8

THEOREM KeptAreas == DomainSpec => SettledAreasKept
<1> USE NumberAssumption, SchemaAssumption
<1> DEFINE Keeps ==
      \A a \in Area \ edit'.areas :
         LET having == Nodes(Configured(domain.configs, a)) IN
         having # {} /\ (having \subseteq Stay \/ edit'.shape \in {"compact", "links"}) =>
             \A n \in Stay : OptionsOf(domain', n, a) = OptionsOf(domain, n, a)
<1>1. Steady(domain) /\ [DomainNext]_domainVars => [Keeps]_domainVars
  <2> SUFFICES ASSUME Steady(domain), DomainNext PROVE Keeps
    OBVIOUS
  <2>1. PICK body, shape, areas : Sent(domain, body, shape, areas) /\ Save(body, shape, areas)
    BY NextSends DEF Sends
  <2>2. /\ Normalize(Materialize(body, shape, domain)) # Refused
        /\ domain' = Normalize(Normalize(Materialize(body, shape, domain))) /\ domain' # Refused
        /\ edit'.shape = shape /\ edit'.areas = areas
    BY <2>1 DEF Save
  <2>3. \A n, a : /\ OptionsOf(domain, n, a) = Opts(domain.configs, n, a)
                  /\ OptionsOf(domain', n, a) = Opts(domain'.configs, n, a)
    BY DEF OptionsOf, Opts
  <2>. QED
    BY <2>1, <2>2, <2>3, Settled DEF Stay
<1>. QED
  BY <1>1, SteadyInvariant, PTL DEF DomainSpec, SettledAreasKept
=============================================================================
