------------------------------ MODULE OspfEditor ------------------------------
(***************************************************************************)
(* The OSPF page of the web UI (apps/web/src/ospf/OspfWorkspace.vue) and   *)
(* the part of the controller it edits through: the stored domains, their  *)
(* drafts and the revision of the inventory                                *)
(* (src/resource-application-service.ts, src/store.ts), while other        *)
(* editors work on the same domains.  The page loads, edits, saves drafts, *)
(* previews and applies; its requests may be overtaken, answered late, or  *)
(* never.                                                                  *)
(*                                                                         *)
(* Positions, the text rendered while the user types, the runtime panes    *)
(* and the secrets of a draft are left out; what a candidate does to the   *)
(* nodes is in OspfDomain and Deployment.  The fields "base" and "misled"  *)
(* are not in the code: they record which stored content a page or a draft *)
(* was last set against, and whether the page then showed another: it was  *)
(* taken from the page's old list (Selected), or the comparison was of     *)
(* another domain or called a stored one absent (Kept).                    *)
(***************************************************************************)
EXTENDS Integers, FiniteSets

CONSTANTS
    Domain,         \* domain ids, those of new drafts included
    Content,        \* what a domain may contain
    Empty,          \* what a new one contains
    Absent,         \* the content of a domain that is not stored
    None,
    Patience,       \* bound: steps of the user and of the faults
    MaxRevision,    \* bound: inventory revision
    MaxRequests     \* bound: changes the controller is working on at once

ASSUME ContentAssumption == Empty \in Content /\ {Absent, None} \cap Content = {}
ASSUME BoundAssumption == Patience \in Nat /\ {MaxRevision, MaxRequests} \subseteq Nat \ {0}

VARIABLES
    revision,       \* the inventory's revision
    stored,         \* per domain: its content in the inventory
    drafts,         \* per domain: the saved draft
    requests,       \* the page's changes the controller has not ended
    page,           \* the page's refs
    patience        \* bound: steps the user and the faults have left

controller == <<revision, stored, drafts>>
vars == <<controller, requests, page, patience>>

Draft == [content : Content, rev : 1 .. MaxRevision, base : Content \cup {Absent}, misled : BOOLEAN]
Payload == [id : Domain, content : Content, rev : 1 .. MaxRevision]

\* What listOspfDomains answers with, and a load that waits for it.
Snapshot == [rev : 1 .. MaxRevision, stored : [Domain -> Content \cup {Absent}],
             drafts : [Domain -> Draft \cup {None}]]
Load == [why : {"view", "save"}, snapshot : Snapshot \cup {None}]

\* How the controller ends a request.
Outcome == {"valid", "invalid", "ok", "conflict", "failed", "committed"}

ASSUME NoneAssumption == None \notin Domain \cup Outcome \cup Load

\* domainPayload()
Submitted(p) == [id |-> p.id, content |-> p.content, rev |-> p.rev]
Ready(p) == p.state = "ready"

TypeOK ==
    /\ revision \in 1 .. MaxRevision
    /\ stored \in [Domain -> Content \cup {Absent}]
    /\ drafts \in [Domain -> Draft \cup {None}]
    /\ page.id \in Domain /\ page.isNew \in BOOLEAN
    /\ page.content \in Content
    /\ page.state \in {"loading", "ready", "error"}
    /\ page.pending \in {None, "preview", "draft", "save"}
    /\ \A part \in {page.token, page.shown} : part \in Payload \cup {None}
    /\ patience \in 0 .. Patience

----------------------------------------------------------------------------
(* What follows every step of the page: the watch on the serialized draft. *)

Watched(p) ==
    IF Submitted(p) = Submitted(page) /\ Ready(p) = Ready(page) THEN p
    ELSE [p EXCEPT !.token = None, !.shown = None]

Becomes(p) == page' = Watched(p)

Spend == patience > 0 /\ patience' = patience - 1

----------------------------------------------------------------------------
(* Loading.  A newer load takes the place of an older one, whose caller is *)
(* let go.                                                                 *)

LoadingOver(p, why) ==
    [p EXCEPT !.state = "loading", !.load = [why |-> why, snapshot |-> None]]

Loading(p, why) ==
    [p EXCEPT !.state = "loading", !.load = [why |-> why, snapshot |-> None],
              !.pending = IF page.load # None /\ page.load.why = "save" THEN None ELSE @]

\* listOspfDomains
ReadDomains ==
    /\ page.load # None /\ page.load.snapshot = None
    /\ page' = [page EXCEPT !.load.snapshot = [rev |-> revision, stored |-> stored, drafts |-> drafts]]
    /\ UNCHANGED <<patience, controller, requests>>

\* The list shows the draft of a domain in its place.
Listed(s) ==
    {IF s.drafts[d] # None
       THEN [id |-> d, content |-> s.drafts[d].content, base |-> s.drafts[d].base]
       ELSE [id |-> d, content |-> s.stored[d], base |-> s.stored[d]]
      : d \in {x \in Domain : s.stored[x] # Absent \/ s.drafts[x] # None}}

\* An id nobody uses: makeDraftDomainId.
Fresh == {d \in Domain : /\ stored[d] = Absent /\ drafts[d] = None
                         /\ d \notin {x.id : x \in page.list} \cup {page.id}
                         /\ \A r \in requests : r.draft.id # d}

Cleared(p, d) ==
    [p EXCEPT !.conflict = FALSE, !.comparison = None, !.id = d, !.isNew = TRUE,
              !.content = Empty, !.base = Absent, !.misled = FALSE]

LoadedAsLatest(p, d, s) ==
    LET draft == s.drafts[d]
        shown == CHOOSE x \in Listed(s) : x.id = d
    IN [p EXCEPT !.id = d, !.isNew = FALSE, !.content = shown.content,
                 !.base = shown.base, !.misled = draft # None /\ draft.misled]

Loaded(p, d, s) ==
    LET draft == s.drafts[d]
        stale == draft # None /\ draft.rev # s.rev
        shown == CHOOSE x \in Listed(s) : x.id = d
    IN [p EXCEPT !.id = d, !.isNew = FALSE, !.content = shown.content,
                 !.base = shown.base, !.misled = draft # None /\ draft.misled,
                 !.rev = IF stale THEN draft.rev ELSE @,
                 !.conflict = @ \/ stale]

\* While a load began by saving or applying is under way the page's actions stay closed.
Unlocked(p) == [p EXCEPT !.load = None, !.pending = IF page.load.why = "save" THEN None ELSE @]

LoadReply ==
    /\ page.load # None /\ page.load.snapshot # None
    /\ LET s == page.load.snapshot
           list == Listed(s)
           ids == {x.id : x \in list}
           answered == [Unlocked(page) EXCEPT !.state = "ready", !.rev = s.rev, !.list = list,
                                              !.active = {d \in Domain : s.stored[d] # Absent}]
       IN \/ \E d \in IF ~page.isNew /\ page.id \in ids THEN {page.id} ELSE ids : Becomes(Loaded(answered, d, s))
          \/ ids = {} /\ \E d \in Fresh : Becomes(Cleared(answered, d))
    /\ UNCHANGED <<patience, controller, requests>>

LoadFails ==
    /\ page.load # None
    /\ Becomes([Unlocked(page) EXCEPT !.state = "error"])
    /\ UNCHANGED <<patience, controller, requests>>

Retry ==
    /\ Spend
    /\ page.state = "error"
    /\ Becomes(Loading(page, "view"))
    /\ UNCHANGED <<controller, requests>>

\* The session ended and the user has logged in again, whatever the page was doing.
Authenticated ==
    /\ Spend
    /\ Becomes(Loading(page, "view"))
    /\ UNCHANGED <<controller, requests>>

\* A refresh of the dashboard finds another list of nodes.
NodesChange ==
    /\ Spend
    /\ page.isNew /\ \A r \in requests : ~r.waited
    /\ Becomes(Loading(page, "view"))
    /\ UNCHANGED <<controller, requests>>

----------------------------------------------------------------------------
(* What the user does.                                                     *)

Idle == page.pending = None
Open == Idle /\ Ready(page)

Edit(content) ==
    /\ Spend
    /\ Idle /\ content # page.content
    /\ Becomes([page EXCEPT !.content = content])
    /\ UNCHANGED <<controller, requests>>

\* Shown from the list the page holds; unsaved edits are asked about first.
Selected(p, x) ==
    [p EXCEPT !.conflict = FALSE, !.comparison = None, !.id = x.id, !.isNew = FALSE,
              !.content = x.content, !.base = x.base, !.misled = TRUE]

Select(x) ==
    /\ Spend
    /\ Open /\ x \in page.list /\ (x.id = page.id => page.isNew)
    /\ Becomes(Selected(page, x))
    /\ UNCHANGED <<controller, requests>>

NewDomain ==
    /\ Spend
    /\ Open
    /\ \E d \in Fresh : Becomes(Cleared(page, d))
    /\ UNCHANGED <<controller, requests>>

Request(kind, p) ==
    [kind |-> kind, draft |-> Submitted(p), waited |-> TRUE, reply |-> None, now |-> None,
     token |-> IF kind = "apply" THEN p.token ELSE None,
     existing |-> kind = "apply" /\ ~p.isNew /\ p.id \in p.active,
     base |-> IF kind = "preview" THEN None ELSE p.base,
     misled |-> kind # "preview" /\ p.misled]

Send(kind) == requests' = requests \cup {Request(kind, page)}

SaveDraft ==
    /\ Spend
    /\ Open /\ Cardinality(requests) < MaxRequests
    /\ Send("draft")
    /\ page' = [page EXCEPT !.pending = "draft"]
    /\ UNCHANGED controller

PreviewDomain ==
    /\ Spend
    /\ Open /\ ~page.conflict /\ Cardinality(requests) < MaxRequests
    /\ Send("preview")
    /\ page' = [page EXCEPT !.pending = "preview", !.token = None, !.shown = None]
    /\ UNCHANGED controller

Apply ==
    /\ Spend
    /\ Open /\ ~page.conflict /\ Cardinality(requests) < MaxRequests
    /\ Send("apply")
    /\ page' = [page EXCEPT !.pending = "save", !.shown = None]
    /\ UNCHANGED controller

DeleteDomain ==
    /\ Spend
    /\ Open /\ ~page.isNew /\ Cardinality(requests) < MaxRequests
    /\ Send("delete")
    /\ page' = [page EXCEPT !.pending = "save"]
    /\ UNCHANGED controller

\* The panel of a conflict: look at what is stored, then keep the draft or take the other.
Compare ==
    /\ Spend
    /\ page.conflict /\ Idle
    /\ LET seen == IF page.isNew THEN Absent ELSE stored[page.id] IN
       page' = [page EXCEPT !.comparison = [id |-> page.id, rev |-> revision, content |-> seen,
                                            right |-> seen = stored[page.id]],
                            !.active = {d \in Domain : stored[d] # Absent}]
    /\ UNCHANGED <<controller, requests>>

Kept(p) ==
    LET c == p.comparison IN
    [p EXCEPT !.rev = c.rev, !.comparison = None, !.conflict = FALSE,
              !.isNew = @ \/ c.content = Absent,
              !.base = c.content, !.misled = c.id # p.id \/ ~c.right]

Keep ==
    /\ Spend
    /\ page.conflict /\ page.comparison # None /\ Idle
    /\ Becomes(Kept(page))
    /\ UNCHANGED <<controller, requests>>

Adopt ==
    /\ Spend
    /\ page.conflict /\ page.comparison # None /\ \A r \in requests : ~r.waited
    /\ Becomes([Loading(page, "view") EXCEPT !.comparison = None, !.conflict = FALSE])
    /\ UNCHANGED <<controller, requests>>

----------------------------------------------------------------------------
(* The controller.  An apply and a deletion commit under the deployment    *)
(* lock and drop the draft of the domain afterwards.                       *)

Answer(r, reply) == requests' = (requests \ {r}) \cup
    (IF r.waited \/ reply = "committed" THEN {[r EXCEPT !.reply = reply, !.now = revision']} ELSE {})

Current(r) == r.draft.rev = revision

HandlePreview(r) ==
    /\ r.kind = "preview" /\ r.reply = None
    /\ UNCHANGED controller
    /\ \E reply \in IF Current(r) THEN {"valid", "invalid"} ELSE {"conflict"} : Answer(r, reply)
    /\ UNCHANGED <<patience, page>>

HandleDraft(r) ==
    /\ r.kind = "draft" /\ r.reply = None
    /\ UNCHANGED <<revision, stored>>
    /\ \/ /\ Current(r)
          /\ drafts' = [drafts EXCEPT ![r.draft.id] = [content |-> r.draft.content, rev |-> r.draft.rev,
                                                      base |-> r.base, misled |-> r.misled]]
          /\ Answer(r, "ok")
       \/ /\ ~Current(r)
          /\ UNCHANGED drafts
          /\ Answer(r, "conflict")
    /\ UNCHANGED <<patience, page>>

Commit(d, content) ==
    /\ revision < MaxRevision
    /\ revision' = revision + 1
    /\ stored' = [stored EXCEPT ![d] = content]

\* saveOspf: 404 for a domain that has gone, 409 for one that has come.
Applicable(r) ==
    /\ Current(r) /\ r.existing = (stored[r.draft.id] # Absent)
    /\ r.token # None /\ r.token.id = r.draft.id /\ r.token.rev = revision
    /\ r.token.content = r.draft.content

HandleApply(r) ==
    /\ r.kind = "apply" /\ r.reply = None
    /\ \/ /\ Applicable(r)
          /\ Commit(r.draft.id, r.draft.content)
          /\ Answer(r, "committed")
       \/ /\ UNCHANGED <<revision, stored>>
          /\ IF ~Current(r) \/ (~r.existing /\ stored[r.draft.id] # Absent)
               THEN Answer(r, "conflict")
               ELSE Answer(r, "failed")
    /\ UNCHANGED <<patience, drafts, page>>

HandleDelete(r) ==
    /\ r.kind = "delete" /\ r.reply = None
    /\ \/ /\ Current(r) /\ stored[r.draft.id] # Absent
          /\ Commit(r.draft.id, Absent)
          /\ Answer(r, "committed")
          /\ UNCHANGED drafts
       \/ /\ Current(r) /\ stored[r.draft.id] = Absent /\ drafts[r.draft.id] # None
          /\ UNCHANGED <<revision, stored>>
          /\ drafts' = [drafts EXCEPT ![r.draft.id] = None]
          /\ Answer(r, "ok")
       \/ /\ UNCHANGED controller
          /\ Answer(r, IF Current(r) THEN "failed" ELSE "conflict")
    /\ UNCHANGED <<patience, page>>

DropDraft(r) ==
    /\ r.reply = "committed"
    /\ drafts' = [drafts EXCEPT ![r.draft.id] = None]
    /\ requests' = (requests \ {r}) \cup (IF r.waited THEN {[r EXCEPT !.reply = "ok"]} ELSE {})
    /\ UNCHANGED <<patience, revision, stored, page>>

\* Another page changes or deletes a domain, saves a draft of it, or something else changes.
Taken == {page.id} \cup {r.draft.id : r \in requests}

Others ==
    /\ \E d \in Domain, content \in Content \cup {Absent} :
         /\ stored[d] # content /\ (stored[d] # Absent \/ d \notin Taken)
         /\ Commit(d, content)
         /\ drafts' = [drafts EXCEPT ![d] = None]
    /\ UNCHANGED <<patience, requests, page>>

----------------------------------------------------------------------------
(* The answers reach the page, or do not.                                  *)

Receive(r, p) == Becomes(p) /\ requests' = requests \ {r} /\ UNCHANGED <<patience, controller>>
Failed(p, r) == [p EXCEPT !.pending = None, !.conflict = @ \/ r.reply = "conflict"]

PreviewReplyUnchecked(r) ==
    /\ r.kind = "preview" /\ r.waited /\ r.reply # None
    /\ LET open == [page EXCEPT !.pending = None] IN
       IF r.reply = "conflict" THEN Receive(r, Failed(page, r))
       ELSE Receive(r, [open EXCEPT !.shown = r.draft, !.token = IF r.reply = "valid" THEN r.draft ELSE None])

PreviewReply(r) ==
    /\ r.kind = "preview" /\ r.waited /\ r.reply # None
    /\ LET open == [page EXCEPT !.pending = None] IN
       IF r.reply = "conflict" THEN Receive(r, Failed(page, r))
       ELSE IF Submitted(page) # r.draft THEN Receive(r, open)
       ELSE Receive(r, [open EXCEPT !.shown = r.draft, !.token = IF r.reply = "valid" THEN r.draft ELSE None])

DraftReply(r) ==
    /\ r.kind = "draft" /\ r.waited /\ r.reply # None
    /\ IF r.reply = "ok"
         THEN Receive(r, [Loading(page, "save") EXCEPT !.id = r.draft.id, !.isNew = FALSE, !.rev = r.now])
         ELSE Receive(r, Failed(page, r))

ApplyReply(r) ==
    /\ r.kind = "apply" /\ r.waited /\ r.reply \notin {None, "committed"}
    /\ IF r.reply = "ok"
         THEN Receive(r, [Loading(page, "save") EXCEPT !.id = r.draft.id, !.isNew = FALSE])
         ELSE Receive(r, Failed(page, r))

DeleteReply(r) ==
    /\ r.kind = "delete" /\ r.waited /\ r.reply \notin {None, "committed"}
    /\ LET rest == {x \in page.list : page.isNew \/ x.id # page.id}
           remaining == [page EXCEPT !.pending = None, !.list = rest, !.rev = r.now]
       IN IF r.reply # "ok" THEN Receive(r, Failed(page, r))
          ELSE \/ \E x \in rest : Receive(r, Selected(remaining, x))
               \/ rest = {} /\ \E d \in Fresh : Receive(r, Cleared(remaining, d))

\* The page gives up waiting, and takes the outcome for unknown; the controller goes on.
TimeOut(r) ==
    /\ Spend
    /\ r.waited
    /\ Becomes([page EXCEPT !.pending = None, !.conflict = TRUE])
    /\ requests' = (requests \ {r}) \cup (IF r.reply \in {None, "committed"} THEN {[r EXCEPT !.waited = FALSE]} ELSE {})
    /\ UNCHANGED controller

\* The controller restarts: what it had not ended is not ended, and nobody is answered.
Crash ==
    /\ Spend
    /\ requests # {}
    /\ requests' = {}
    /\ Becomes(IF \E r \in requests : r.waited THEN [page EXCEPT !.pending = None, !.conflict = TRUE] ELSE page)
    /\ UNCHANGED controller

----------------------------------------------------------------------------
Init ==
    /\ revision = 1 /\ patience = Patience
    /\ stored \in [Domain -> {Absent, Empty}]
    /\ drafts = [d \in Domain |-> None]
    /\ requests = {}
    /\ \E d \in Domain :
         /\ stored[d] = Absent
         /\ page = [id |-> d, isNew |-> TRUE, content |-> Empty, base |-> Absent,
                    misled |-> FALSE, rev |-> 1, active |-> {}, list |-> {}, conflict |-> FALSE,
                    comparison |-> None, state |-> "loading", pending |-> None,
                    load |-> [why |-> "view", snapshot |-> None],
                    token |-> None, shown |-> None]

User ==
    \/ \E content \in Content : Edit(content)
    \/ \E x \in page.list : Select(x)
    \/ NewDomain \/ SaveDraft \/ PreviewDomain \/ Apply \/ DeleteDomain
    \/ Compare \/ Keep \/ Adopt \/ Retry
    \/ Authenticated \/ NodesChange

Handle(r) == HandlePreview(r) \/ HandleDraft(r) \/ HandleApply(r) \/ HandleDelete(r) \/ DropDraft(r)

Reply(r) == PreviewReply(r) \/ DraftReply(r) \/ ApplyReply(r) \/ DeleteReply(r)

Next ==
    \/ User
    \/ ReadDomains \/ LoadReply \/ LoadFails
    \/ \E r \in requests : Handle(r) \/ Reply(r) \/ TimeOut(r)
    \/ Others
    \/ Crash

Spec == Init /\ [][Next]_vars

----------------------------------------------------------------------------
(* What must hold.                                                         *)

\* The text on the page and the credentials it applies with always belong to
\* what is on the page, down to the revision it is based on, although loads,
\* logins and answers arrive while a preview is on its way.
PreviewIsCurrent ==
    /\ page.token # None => page.token = Submitted(page)
    /\ page.shown # None => page.shown = Submitted(page)

CommittedBy(r) ==
    /\ revision' # revision /\ r.reply = None
    /\ [r EXCEPT !.reply = "committed", !.now = revision'] \in requests'

\* What an apply or a deletion of the page replaces is what the page or its
\* draft was last set against, unless the domain was taken from the page's
\* list: changes of others, lost answers and restored drafts are compared first.
NoBlindOverwrite == [][\A r \in requests : CommittedBy(r) /\ ~r.misled => r.base = stored[r.draft.id]]_vars

\* The same for every domain, as the message of a restored draft asks for
\* ("compare, then preview again", OspfWorkspace.vue:2051).
ListedIsComparedToo == [][\A r \in requests : CommittedBy(r) => r.base = stored[r.draft.id]]_vars

\* The editor is closed only while an answer, or the load after it, is awaited
\* (all of which the browser ends by a time-out): no overtaken load leaves it closed.
ClosedOnlyWhileBusy ==
    page.pending # None =>
        \/ \E r \in requests : r.waited
        \/ page.load # None /\ page.load.why = "save"

=============================================================================
