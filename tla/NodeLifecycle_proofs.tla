------------------------- MODULE NodeLifecycle_proofs -------------------------
(* For any nodes and any number of requests and restarts: removed nodes    *)
(* stay out, recovery can reach the node it replays, and a reinstallation  *)
(* script leaves the agent in use connected.                               *)
EXTENDS NodeLifecycle, TLAPS

-----------------------------------------------------------------------------
(* The inductive invariant.                                                *)

\* The requests that go through stage, journal, apply and commit.
Deploying == {"remove", "promote", "createSsh"}

\* Which requests come to which point of their way.
Shape(q) ==
    /\ IF q.pc = "new" THEN q = Fresh ELSE q.kind \in Kind /\ q.node \in Node
    /\ q.pc = "read" => q.kind \in {"setup", "rotate", "upgrade", "create", "promote"}
    /\ q.pc = "issue" => q.kind \in {"setup", "rotate", "upgrade", "create", "reinstall"}
    /\ q.pc \in {"lock", "locked"} =>
           q.kind \in {"create", "reinstall", "force"} \cup Deploying
    /\ q.pc \in {"stage", "journal", "apply", "clear", "mark", "undo"} => q.kind \in Deploying
    /\ q.pc = "commit" => q.kind \in Deploying \cup {"force"}
    /\ q.pc = "revoke" => q.kind \in {"remove", "force"}
    /\ q.token # None => q.pc = "end" \/ (q.kind = "create" /\ q.pc \in {"lock", "locked"})

TypeInv ==
    /\ TypeOK
    /\ \A r \in Request : Shape(requests[r]) /\ requests[r].token \in {r, None}

\* Where a request has the deployment lock, and where its journal is open.
InLock == {"locked", "stage", "journal", "apply", "commit", "revoke", "clear", "mark", "undo"}
Open == {"apply", "commit", "revoke", "clear", "mark", "undo"}

Holds(q) == q.pc \in InLock \/ (q.pc = "issue" /\ q.kind = "reinstall")

\* The journal of a request is its own and goes forward until it is undone.
OwnsJournal(r) ==
    LET q == requests[r] IN
    IF q.pc \in Open
    THEN /\ journal # None
         /\ journal.node = q.node /\ journal.before = q.seen /\ journal.after = After(r)
         /\ q.pc # "undo" => journal.direction = "forward"
    ELSE journal = None

\* What a request that has the lock may rely on.
Holder(r) ==
    LET q == requests[r] IN
    /\ lock = r
    /\ q.kind \in Deploying => OwnsJournal(r)
    /\ q.kind \in {"force", "create"} => journal = None
    /\ q.kind # "reinstall" => ~recovering
    /\ q.kind = "remove" /\ q.pc \in {"stage", "journal"} \cup Open => q.seen # None
    /\ q.kind = "createSsh" /\ q.pc \in {"stage", "journal"} \cup Open => q.seen = None
    /\ q.kind = "remove" /\ q.pc = "revoke" => nodes[q.node] = None
    /\ q.kind \in Deploying /\ Way(r) = "agent"
           /\ q.pc \in {"journal", "apply", "commit", "mark", "undo"} => HasCredential(q.node)

\* Nothing is left to be done on the node.
Settled == journal.after = None /\ journal.direction = "forward" /\ nodes[journal.node] = None

\* An open change of an agent node has the node's credential, or needs it no more.
JournalInv ==
    journal # None =>
        /\ journal.before # None \/ journal.after # None
        /\ "agent" \in {journal.before, journal.after} =>
               HasCredential(journal.node) \/ Settled

LockInv ==
    /\ \A r \in Request : Holds(requests[r]) => Holder(r)
    /\ recovering => journal # None
    /\ JournalInv

\* A token is that of its node or of a request about it.
Issued(n, t) == t = n \/ (t \in Request /\ requests[t].token = t /\ requests[t].node = n)

TokenInv ==
    /\ \A n \in Node : credentials[n] # None => \A t \in credentials[n].tokens : Issued(n, t)
    /\ \A t \in banned : \E n \in Node : Issued(n, t)
    /\ RemovedStaysOut

IInv == TypeInv /\ LockInv /\ TokenInv

-----------------------------------------------------------------------------
(* Types, and which request comes to which point.                          *)

LEMMA InitTypes ==
    ASSUME Init
    PROVE  TypeInv
  BY NoneAssumption DEF Init, TypeInv, TypeOK, Entry, Shape, Fresh, Pc, Transport, Credential, Token

LEMMA IssueTyped ==
    ASSUME TypeOK, NEW n \in Node, NEW t \in Token, NEW preserve \in BOOLEAN, Issue(n, t, preserve)
    PROVE  credentials' \in [Node -> Credential \cup {None}]
<1>1. [tokens |-> {t} \cup (IF preserve /\ HasCredential(n) THEN credentials[n].tokens ELSE {}),
       revoked |-> FALSE] \in Credential
  BY DEF TypeOK, HasCredential, Credential
<1>. QED
  BY <1>1 DEF Issue, TypeOK

LEMMA RevokeTyped ==
    ASSUME TypeOK, NEW n \in Node, Revoke(n)
    PROVE  credentials' \in [Node -> Credential \cup {None}]
<1>1. CASE credentials[n] = None
  BY <1>1 DEF Revoke, TypeOK
<1>2. CASE credentials[n] # None
  <2>1. [credentials[n] EXCEPT !.revoked = TRUE] \in Credential
    BY <1>2 DEF TypeOK, Credential
  <2>. QED
    BY <1>2, <2>1 DEF Revoke, TypeOK
<1>. QED
  BY <1>1, <1>2

\* A step that moves one request to an entry of the right shape.
LEMMA Moved ==
    ASSUME TypeInv, NEW r \in Request, NEW q \in Entry, Shape(q), q.token \in {r, None},
           requests' = [requests EXCEPT ![r] = q]
    PROVE  /\ requests' \in [Request -> Entry]
           /\ \A s \in Request : Shape(requests'[s]) /\ requests'[s].token \in {s, None}
  BY DEF TypeInv, TypeOK

\* The points a request goes on to, by its kind.
LEMMA MayGo ==
    ASSUME TypeInv, NEW r \in Request, NEW pc \in Pc \ {"new"}, Goto(r, pc),
           requests[r].pc # "new", requests[r].token # None => pc \in {"lock", "locked", "end"},
           \/ pc = "end"
           \/ pc = "issue" /\ requests[r].kind \in {"setup", "rotate", "upgrade", "create", "reinstall"}
           \/ pc \in {"lock", "locked"} /\ requests[r].kind \in {"create", "reinstall", "force"} \cup Deploying
                 /\ (requests[r].token # None => requests[r].kind = "create")
           \/ pc = "commit" /\ requests[r].kind \in {"force"} \cup Deploying
           \/ pc = "revoke" /\ requests[r].kind \in {"remove", "force"}
           \/ pc \in {"stage", "journal", "apply", "clear", "mark", "undo"} /\ requests[r].kind \in Deploying
    PROVE  /\ requests' \in [Request -> Entry]
           /\ \A s \in Request : Shape(requests'[s]) /\ requests'[s].token \in {s, None}
<1>. DEFINE q == [requests[r] EXCEPT !.pc = pc]
<1>1. requests[r] \in Entry /\ Shape(requests[r]) /\ requests[r].token \in {r, None}
  BY DEF TypeInv, TypeOK
<1>2. q \in Entry /\ q.token \in {r, None} /\ q.pc = pc /\ q.kind = requests[r].kind
        /\ q.node = requests[r].node /\ q.token = requests[r].token
  BY <1>1 DEF Entry
<1>3. Shape(q)
  BY <1>1, <1>2 DEF Shape, Pc
<1>4. requests' = [requests EXCEPT ![r] = q]
  BY DEF Goto, TypeInv, TypeOK
<1>. HIDE DEF q
<1>. QED
  BY <1>2, <1>3, <1>4, Moved

LEMMA SendTypes ==
    ASSUME TypeInv, NEW r \in Request, Send(r)
    PROVE  TypeInv'
<1>1. PICK k \in Kind, n \in Node :
          requests' = [requests EXCEPT ![r].kind = k, ![r].node = n,
              ![r].pc = IF k \in {"remove", "force", "reinstall", "createSsh"} THEN "lock" ELSE "read"]
  BY DEF Send
<1>. DEFINE q == [requests[r] EXCEPT !.kind = k, !.node = n,
              !.pc = IF k \in {"remove", "force", "reinstall", "createSsh"} THEN "lock" ELSE "read"]
<1>2. requests[r] \in Entry /\ requests[r].token = None
  BY DEF Send, Fresh, TypeInv, TypeOK
<1>3. q \in Entry /\ q.token = None /\ q.kind = k /\ q.node = n
        /\ q.pc = IF k \in {"remove", "force", "reinstall", "createSsh"} THEN "lock" ELSE "read"
  BY <1>2 DEF Entry, Pc
<1>6. Shape(q)
  BY <1>3 DEF Shape, Kind, Deploying
<1>4. requests' = [requests EXCEPT ![r] = q]
  BY <1>1 DEF TypeInv, TypeOK
<1>. HIDE DEF q
<1>5. /\ requests' \in [Request -> Entry]
      /\ \A s \in Request : Shape(requests'[s]) /\ requests'[s].token \in {s, None}
  BY <1>3, <1>4, <1>6, Moved
<1>. QED
  BY <1>5 DEF Send, TypeInv, TypeOK, control

LEMMA IssueTypes ==
    ASSUME TypeInv, NEW r \in Request, IssueToken(r)
    PROVE  TypeInv'
<1>1. requests[r] \in Entry /\ Shape(requests[r]) /\ requests[r].pc = "issue"
  BY DEF IssueToken, TypeInv, TypeOK
<1>2. lock' \in Request \cup {None}
  BY DEF IssueToken, TypeInv, TypeOK, End
<1>3. CASE /\ Issue(requests[r].node, r, requests[r].kind = "reinstall")
           /\ requests' = [requests EXCEPT ![r].token = r,
                                           ![r].pc = IF requests[r].kind = "create" THEN "lock" ELSE "end"]
  <2>. DEFINE q == [requests[r] EXCEPT !.token = r,
                        !.pc = IF requests[r].kind = "create" THEN "lock" ELSE "end"]
  <2>1. q \in Entry /\ q.token = r /\ q.kind = requests[r].kind /\ q.node = requests[r].node
          /\ q.pc = IF requests[r].kind = "create" THEN "lock" ELSE "end"
    BY <1>1 DEF Entry, Pc
  <2>2. Shape(q)
    BY <1>1, <2>1 DEF Shape
  <2>3. requests' = [requests EXCEPT ![r] = q]
    BY <1>3 DEF TypeInv, TypeOK
  <2>. HIDE DEF q
  <2>4. /\ requests' \in [Request -> Entry]
        /\ \A s \in Request : Shape(requests'[s]) /\ requests'[s].token \in {s, None}
    BY <2>1, <2>2, <2>3, Moved
  <2>5. requests[r].node \in Node /\ r \in Token
    BY <1>1 DEF Shape, Token
  <2>6. credentials' \in [Node -> Credential \cup {None}]
    BY <1>3, <2>5, IssueTyped DEF TypeInv
  <2>. QED
    BY <1>2, <2>4, <2>6 DEF IssueToken, TypeInv, TypeOK
<1>4. CASE UNCHANGED credentials /\ End(r)
  <2>1. /\ requests' \in [Request -> Entry]
        /\ \A s \in Request : Shape(requests'[s]) /\ requests'[s].token \in {s, None}
    BY <1>1, <1>4, MayGo DEF End, Pc
  <2>. QED
    BY <1>2, <1>4, <2>1 DEF IssueToken, TypeInv, TypeOK
<1>. QED
  BY <1>3, <1>4 DEF IssueToken

LEMMA SeenAndPc ==
    ASSUME requests \in [Request -> Entry], NEW r \in Request, NEW v, NEW pc
    PROVE  [requests EXCEPT ![r].seen = v, ![r].pc = pc]
             = [requests EXCEPT ![r] = [requests[r] EXCEPT !.seen = v, !.pc = pc]]
  OBVIOUS

LEMMA BeginTypes ==
    ASSUME TypeInv, NEW r \in Request, Begin(r)
    PROVE  TypeInv'
<1>1. requests[r] \in Entry /\ Shape(requests[r]) /\ requests[r].pc = "locked"
        /\ requests[r].token \in {r, None}
  BY DEF Begin, TypeInv, TypeOK
<1>2. CASE End(r) /\ UNCHANGED nodes
  <2>1. /\ requests' \in [Request -> Entry]
        /\ \A s \in Request : Shape(requests'[s]) /\ requests'[s].token \in {s, None}
    BY <1>1, <1>2, MayGo DEF End, Pc
  <2>. QED
    BY <1>2, <2>1 DEF Begin, TypeInv, TypeOK, End
<1>3. CASE ~(End(r) /\ UNCHANGED nodes)
  <2>. DEFINE k == requests[r].kind
              pc == CASE k \in {"remove", "promote", "createSsh"} -> "stage"
                      [] k = "reinstall" -> "issue"
                      [] k = "create" -> "end"
                      [] k = "force" -> "commit"
              q == [requests[r] EXCEPT !.seen = nodes[requests[r].node], !.pc = pc]
  <2>1. requests' = [requests EXCEPT ![r].seen = nodes[requests[r].node], ![r].pc = pc]
    BY <1>3 DEF Begin
  <2>2. k \in {"create", "reinstall", "force", "remove", "promote", "createSsh"}
          /\ requests[r].node \in Node
    BY <1>1 DEF Shape, Deploying
  <2>3. pc \in {"stage", "issue", "end", "commit"}
    BY <2>2
  <2>4. q \in Entry /\ q.token = requests[r].token /\ q.kind = k /\ q.node = requests[r].node /\ q.pc = pc
    BY <1>1, <2>2, <2>3 DEF Entry, Pc, TypeInv, TypeOK
  <2>5. /\ k = "reinstall" => pc = "issue"
        /\ k = "create" => pc = "end"
        /\ k = "force" => pc = "commit"
        /\ k \in Deploying => pc = "stage"
    <3>1. ASSUME k = "reinstall" PROVE pc = "issue"
      BY <3>1
    <3>2. ASSUME k = "create" PROVE pc = "end"
      BY <3>2
    <3>3. ASSUME k = "force" PROVE pc = "commit"
      BY <3>3
    <3>4. ASSUME k \in Deploying PROVE pc = "stage"
      BY <3>4 DEF Deploying
    <3>. QED
      BY <3>1, <3>2, <3>3, <3>4
  <2>. HIDE DEF pc
  <2>6. requests' = [requests EXCEPT ![r] = q]
    BY <2>1, SeenAndPc DEF TypeInv, TypeOK
  <2>. HIDE DEF q
  <2>9. Shape(q)
    BY <1>1, <2>2, <2>4, <2>5 DEF Shape, Deploying
  <2>7. /\ requests' \in [Request -> Entry]
        /\ \A s \in Request : Shape(requests'[s]) /\ requests'[s].token \in {s, None}
    BY <1>1, <2>4, <2>6, <2>9, Moved
  <2>8. nodes' \in [Node -> Transport \cup {None}] /\ lock' \in Request \cup {None}
    BY <1>3 DEF Begin, TypeInv, TypeOK, Transport
  <2>. QED
    BY <2>7, <2>8 DEF Begin, TypeInv, TypeOK
<1>. QED
  BY <1>2, <1>3

\* The other steps move their request by Goto alone.
LEMMA TypesKept ==
    ASSUME TypeInv, LockInv, NEW r \in Request, Step(r)
    PROVE  TypeInv'
<1>. DEFINE Typed == /\ requests' \in [Request -> Entry]
                     /\ \A s \in Request : Shape(requests'[s]) /\ requests'[s].token \in {s, None}
<1>0. requests[r] \in Entry /\ Shape(requests[r]) /\ requests[r].token \in {r, None}
  BY DEF TypeInv, TypeOK
<1>4. CASE Read(r)
  <2>1. Typed
    BY <1>0, <1>4, MayGo DEF Read, Shape, Pc, Deploying
  <2>. QED
    BY <1>4, <2>1 DEF Read, TypeInv, TypeOK, control
<1>5. CASE Lock(r)
  <2>1. Typed
    BY <1>0, <1>5, MayGo DEF Lock, Shape, Pc
  <2>. QED
    BY <1>5, <2>1 DEF Lock, TypeInv, TypeOK
<1>6. CASE Refused(r)
  <2>1. Typed
    BY <1>0, <1>6, MayGo DEF Refused, Shape, Pc
  <2>. QED
    BY <1>6, <2>1 DEF Refused, TypeInv, TypeOK, control
<1>7. CASE Stage(r)
  <2>1. Typed
    BY <1>0, <1>7, MayGo DEF Stage, End, Shape, Pc
  <2>. QED
    BY <1>7, <2>1 DEF Stage, End, TypeInv, TypeOK
<1>8. CASE Journal(r)
  <2>1. Typed
    BY <1>0, <1>8, MayGo DEF Journal, End, Shape, Pc
  <2>2. journal' \in Change \cup {None}
    BY <1>0, <1>8 DEF Journal, TypeInv, TypeOK, Change, Entry, Shape, After, Transport
  <2>. QED
    BY <1>8, <2>1, <2>2 DEF Journal, End, TypeInv, TypeOK
<1>9. CASE Apply(r)
  <2>1. Typed
    BY <1>0, <1>9, MayGo DEF Apply, Shape, Pc
  <2>2. requests[r].node \in Node
    BY <1>0, <1>9 DEF Apply, Shape
  <2>. QED
    BY <1>9, <2>1, <2>2 DEF Apply, LoadedWith, TypeInv, TypeOK, control
<1>10. CASE Commit(r)
  <2>1. Typed
    BY <1>0, <1>10, MayGo DEF Commit, End, Shape, Deploying, Pc
  <2>2. nodes' \in [Node -> Transport \cup {None}]
    BY <1>10 DEF Commit, TypeInv, TypeOK, After, Transport
  <2>. QED
    BY <1>10, <2>1, <2>2 DEF Commit, End, TypeInv, TypeOK
<1>11. CASE RevokeCredential(r)
  <2>1. Typed
    BY <1>0, <1>11, MayGo DEF RevokeCredential, End, Shape, Deploying, Pc
  <2>2. requests[r].node \in Node
    BY <1>0, <1>11 DEF RevokeCredential, Shape
  <2>3. credentials' \in [Node -> Credential \cup {None}]
    BY <1>11, <2>2, RevokeTyped DEF RevokeCredential, TypeInv, TypeOK
  <2>4. banned' \subseteq Token
    BY <1>11, <2>2 DEF RevokeCredential, TypeInv, TypeOK, Credential
  <2>. QED
    BY <1>11, <2>1, <2>3, <2>4 DEF RevokeCredential, End, TypeInv, TypeOK
<1>12. CASE Clear(r)
  <2>1. Typed
    BY <1>0, <1>12, MayGo DEF Clear, End, Shape, Pc
  <2>. QED
    BY <1>12, <2>1 DEF Clear, End, TypeInv, TypeOK
<1>13. CASE Mark(r)
  <2>1. Typed
    BY <1>0, <1>13, MayGo DEF Mark, Shape, Pc
  <2>2. journal \in Change
    BY <1>0, <1>13 DEF Mark, Shape, Deploying, LockInv, Holds, InLock, Holder, OwnsJournal, Open,
                       TypeInv, TypeOK
  <2>3. journal' \in Change
    BY <1>13, <2>2 DEF Mark, Change
  <2>. QED
    BY <1>13, <2>1, <2>3 DEF Mark, TypeInv, TypeOK, control
<1>14. CASE Undo(r)
  <2>1. Typed
    BY <1>0, <1>14, MayGo DEF Undo, End, Shape, Pc
  <2>2. requests[r].node \in Node
    BY <1>0, <1>14 DEF Undo, Shape
  <2>. QED
    BY <1>14, <2>1, <2>2 DEF Undo, End, LoadedWith, TypeInv, TypeOK
<1>15. CASE Install(r)
  <2>1. host' \in [Node -> Token \cup {None}]
    BY <1>0, <1>15 DEF Install, TypeInv, TypeOK, Token
  <2>. QED
    BY <1>15, <2>1 DEF Install, TypeInv, TypeOK, control
<1>. QED
  BY <1>4, <1>5, <1>6, <1>7, <1>8, <1>9, <1>10, <1>11, <1>12, <1>13, <1>14, <1>15,
     SendTypes, IssueTypes, BeginTypes DEF Step

LEMMA CrashTypes ==
    ASSUME TypeInv, Crash
    PROVE  TypeInv'
<1>1. ASSUME NEW r \in Request
      PROVE  /\ requests[r] \in Entry /\ Shape(requests[r]) /\ requests[r].token \in {r, None}
             /\ requests'[r] = IF requests[r] = Fresh THEN Fresh
                               ELSE [requests[r] EXCEPT !.pc = "end"]
  BY DEF Crash, TypeInv, TypeOK
<1>2. ASSUME NEW r \in Request
      PROVE  requests'[r] \in Entry /\ Shape(requests'[r]) /\ requests'[r].token \in {r, None}
  <2>1. CASE requests[r] = Fresh
    BY <1>1, <2>1
  <2>2. CASE requests[r] # Fresh
    BY <1>1, <2>2 DEF Entry, Shape, Pc
  <2>. QED
    BY <2>1, <2>2
<1>. QED
  BY <1>2 DEF Crash, TypeInv, TypeOK

LEMMA RecoverTypes ==
    ASSUME TypeInv, LockInv, Recover
    PROVE  TypeInv'
<1>1. journal \in Change /\ Desired \in Transport \cup {None}
  BY DEF Recover, TypeInv, TypeOK, LockInv, Desired, Change
<1>. QED
  BY <1>1 DEF Recover, TypeInv, TypeOK, LoadedWith, Change

-----------------------------------------------------------------------------
(* The lock and the journal.                                               *)

LEMMA InitLock ==
    ASSUME Init
    PROVE  LockInv
  BY DEF Init, LockInv, JournalInv, Holds, InLock, Fresh

Grants == \A n \in Node : HasCredential(n) => HasCredential(n)'

LEMMA IssueGrants ==
    ASSUME TypeOK, NEW n \in Node, NEW t \in Token, NEW preserve \in BOOLEAN, Issue(n, t, preserve)
    PROVE  Grants
<1>. DEFINE c == [tokens |-> {t} \cup (IF preserve /\ HasCredential(n) THEN credentials[n].tokens ELSE {}),
                  revoked |-> FALSE]
<1>1. c \in Credential /\ ~c.revoked
  BY DEF TypeOK, HasCredential, Credential
<1>2. credentials' = [credentials EXCEPT ![n] = c]
  BY DEF Issue
<1>. HIDE DEF c
<1>. QED
  BY <1>1, <1>2, NoneAssumption DEF TypeOK, HasCredential, Grants

\* A step by Goto changes nothing of its request but the point it is at.
LEMMA PcOnly ==
    ASSUME TypeInv, NEW r \in Request, NEW pc, Goto(r, pc)
    PROVE  /\ requests'[r].pc = pc /\ requests'[r].kind = requests[r].kind
           /\ requests'[r].node = requests[r].node /\ requests'[r].seen = requests[r].seen
           /\ requests'[r].token = requests[r].token
           /\ \A s \in Request \ {r} : requests'[s] = requests[s]
           /\ After(r)' = After(r) /\ Way(r)' = Way(r)
<1>1. /\ requests'[r].pc = pc /\ requests'[r].kind = requests[r].kind
      /\ requests'[r].node = requests[r].node /\ requests'[r].seen = requests[r].seen
      /\ requests'[r].token = requests[r].token
      /\ \A s \in Request \ {r} : requests'[s] = requests[s]
  BY DEF TypeInv, TypeOK, Entry, Goto
<1>. QED
  BY <1>1 DEF After, Way

LEMMA JournalStays ==
    ASSUME TypeInv, JournalInv, UNCHANGED <<journal, nodes>>, Grants
    PROVE  JournalInv'
  BY DEF JournalInv, Grants, Settled, TypeInv, TypeOK, Change

\* A request without the lock disturbs nobody.
LEMMA Harmless ==
    ASSUME TypeInv, LockInv, NEW r \in Request, UNCHANGED <<lock, journal, nodes, recovering>>, Grants,
           \A s \in Request \ {r} : requests'[s] = requests[s],
           ~Holds(requests'[r]) \/ requests'[r] = requests[r]
    PROVE  LockInv'
<1>1. ASSUME NEW s \in Request, Holds(requests'[s])
      PROVE  Holder(s)'
  <2>1. requests'[s] = requests[s] /\ Holder(s)
    BY <1>1 DEF LockInv
  <2>2. Shape(requests[s]) /\ requests[s] \in Entry
    BY DEF TypeInv, TypeOK
  <2>3. After(s)' = After(s) /\ Way(s)' = Way(s)
    BY <2>1 DEF After, Way
  <2>4. HasCredential(requests[s].node) /\ requests[s].pc # "new" => HasCredential(requests[s].node)'
    BY <2>1, <2>2 DEF Grants, Shape, HasCredential
  <2>5. OwnsJournal(s) => OwnsJournal(s)'
    BY <2>1, <2>3 DEF OwnsJournal
  <2>6. requests[s].kind \in Deploying /\ Way(s)' = "agent"
            /\ requests[s].pc \in {"journal", "apply", "commit", "mark", "undo"}
          => HasCredential(requests[s].node)'
    BY <2>1, <2>3, <2>4 DEF Holder
  <2>. QED
    BY <2>1, <2>5, <2>6 DEF Holder
<1>. QED
  BY <1>1, JournalStays DEF LockInv

\* A request that has the lock, or finds it free, need only look after itself.
LEMMA Alone ==
    ASSUME LockInv, NEW r \in Request, lock \in {None, r},
           \A s \in Request \ {r} : requests'[s] = requests[s],
           Holds(requests'[r]) => Holder(r)', recovering' => journal' # None, JournalInv'
    PROVE  LockInv'
<1>1. ASSUME NEW s \in Request \ {r}
      PROVE  ~Holds(requests'[s])
  BY NoneAssumption DEF LockInv, Holder, Token
<1>. QED
  BY <1>1 DEF LockInv

LEMMA LockStep ==
    ASSUME TypeInv, LockInv, TypeInv', NEW r \in Request, Lock(r)
    PROVE  LockInv'
<1>1. CASE lock' = r /\ Goto(r, "locked") /\ ((journal = None /\ ~recovering) \/ requests[r].kind = "reinstall")
  <2>1. lock \in {None, r} /\ JournalInv' /\ (recovering' => journal' # None)
    BY <1>1, JournalStays DEF Lock, LockInv, Grants, HasCredential
  <2>2. Holder(r)'
    <3>1. /\ requests'[r].pc = "locked" /\ lock' = r /\ UNCHANGED <<journal, recovering>>
          /\ requests'[r].kind # "reinstall" => journal' = None /\ ~recovering'
      BY <1>1, PcOnly DEF Lock
    <3>2. requests'[r].kind \in Deploying => OwnsJournal(r)'
      BY <3>1 DEF OwnsJournal, Open, Deploying
    <3>. QED
      BY <3>1, <3>2 DEF Holder, Open
  <2>. QED
    BY <1>1, <2>1, <2>2, PcOnly, Alone
<1>2. CASE UNCHANGED lock /\ Goto(r, "end")
  BY <1>2, PcOnly, Harmless DEF Lock, Grants, HasCredential, Holds, InLock
<1>. QED
  BY <1>1, <1>2 DEF Lock

LEMMA UnlockedSteps ==
    ASSUME TypeInv, LockInv, NEW r \in Request, Send(r) \/ Read(r) \/ Refused(r) \/ Install(r)
    PROVE  LockInv'
<1>1. Grants /\ UNCHANGED <<lock, journal, nodes, recovering>>
  BY DEF Send, Read, Refused, Install, control, Grants, HasCredential
<1>2. CASE Send(r)
  <2>1. /\ requests'[r].pc \in {"lock", "read"}
        /\ \A s \in Request \ {r} : requests'[s] = requests[s]
    <3>1. PICK k \in Kind, n \in Node :
              requests' = [requests EXCEPT ![r].kind = k, ![r].node = n,
                  ![r].pc = IF k \in {"remove", "force", "reinstall", "createSsh"} THEN "lock" ELSE "read"]
      BY <1>2 DEF Send
    <3>2. ASSUME NEW pc
          PROVE  LET q == [requests EXCEPT ![r].kind = k, ![r].node = n, ![r].pc = pc]
                 IN  q[r].pc = pc /\ \A s \in Request \ {r} : q[s] = requests[s]
      BY DEF TypeInv, TypeOK, Entry
    <3>. DEFINE p == IF k \in {"remove", "force", "reinstall", "createSsh"} THEN "lock" ELSE "read"
    <3>3. p \in {"lock", "read"}
      OBVIOUS
    <3>4. requests' = [requests EXCEPT ![r].kind = k, ![r].node = n, ![r].pc = p]
      BY <3>1
    <3>. HIDE DEF p
    <3>. QED
      BY <3>2, <3>3, <3>4
  <2>. QED
    BY <1>1, <2>1, Harmless DEF Holds, InLock
<1>3. CASE Read(r)
  <2>1. requests[r].pc = "read" => requests[r].kind # "reinstall"
    BY DEF TypeInv, Shape
  <2>. QED
    BY <1>1, <1>3, <2>1, PcOnly, Harmless DEF Read, Holds, InLock
<1>4. CASE Refused(r)
  BY <1>1, <1>4, PcOnly, Harmless DEF Refused, Holds, InLock
<1>5. CASE Install(r)
  BY <1>1, <1>5, Harmless DEF Install
<1>. QED
  BY <1>2, <1>3, <1>4, <1>5

LEMMA IssueStep ==
    ASSUME TypeInv, LockInv, NEW r \in Request, IssueToken(r)
    PROVE  LockInv'
<1>1. /\ requests[r].kind # "reinstall" => lock' = lock \/ lock = r
      /\ requests'[r].pc \in {"lock", "end"}
      /\ \A s \in Request \ {r} : requests'[s] = requests[s]
      /\ lock' = IF lock = r THEN None ELSE lock
      /\ UNCHANGED <<nodes, journal, recovering>>
  BY DEF IssueToken, End, Goto, TypeInv, TypeOK, Entry
<1>2. requests[r].node \in Node
  BY DEF IssueToken, TypeInv, Shape
<1>3. Grants
  BY <1>2, IssueGrants DEF IssueToken, Grants, HasCredential, TypeInv, Token
<1>4. JournalInv' /\ (recovering' => journal' # None)
  BY <1>1, <1>3, JournalStays DEF LockInv
<1>5. ~Holds(requests'[r])
  BY <1>1 DEF Holds, InLock
<1>6. CASE lock = r
  BY <1>1, <1>4, <1>5, <1>6, Alone
<1>7. CASE lock # r
  BY <1>1, <1>3, <1>5, <1>7, Harmless
<1>. QED
  BY <1>6, <1>7

\* What a request that has the lock knows of its own entry and its journal.
LEMMA HolderKnows ==
    ASSUME TypeInv, LockInv, NEW r \in Request, requests[r].pc \in InLock
    PROVE  /\ Holder(r) /\ lock = r /\ Shape(requests[r]) /\ requests[r].node \in Node
           /\ requests[r].kind \in Deploying /\ requests[r].pc \in Open =>
                  /\ journal \in Change /\ journal # None /\ journal.node = requests[r].node
                  /\ journal.before = requests[r].seen /\ journal.after = After(r)
                  /\ requests[r].pc # "undo" => journal.direction = "forward"
           /\ requests[r].kind \in Deploying /\ requests[r].pc \notin Open => journal = None
<1>1. Holder(r) /\ lock = r
  BY DEF LockInv, Holds, Holder
<1>2. Shape(requests[r]) /\ requests[r].node \in Node
  BY DEF TypeInv, Shape, InLock
<1>3. requests[r].kind \in Deploying => OwnsJournal(r)
  BY <1>1 DEF Holder
<1>. QED
  BY <1>1, <1>2, <1>3 DEF OwnsJournal, TypeInv, TypeOK

\* A change of an agent node goes to the node by its agent.
LEMMA AgentWay ==
    ASSUME TypeInv, LockInv, NEW r \in Request, requests[r].kind \in Deploying,
           requests[r].pc \in {"stage", "journal"} \cup Open
    PROVE  /\ "agent" \in {requests[r].seen, After(r)} => Way(r) = "agent"
           /\ requests[r].seen # None \/ After(r) # None
<1>1. Holder(r)
  BY HolderKnows DEF InLock, Open
<1>. QED
  BY <1>1, NoneAssumption DEF Holder, Way, After, Deploying, Transport

\* A request that ends or gives up with its journal as it is.
LEMMA EndStep ==
    ASSUME TypeInv, LockInv, NEW r \in Request, lock = r, End(r), JournalInv',
           UNCHANGED recovering, recovering => journal' # None
    PROVE  LockInv'
<1>1. ~Holds(requests'[r])
  BY PcOnly DEF End, Holds, InLock
<1>. QED
  BY <1>1, PcOnly, Alone DEF End

\* A request that keeps the lock and goes on to another point.
LEMMA HolderMoves ==
    ASSUME TypeInv, LockInv, NEW r \in Request, NEW pc \in {"journal"} \cup Open, Goto(r, pc),
           requests[r].pc \in {"stage", "journal"} \cup Open, requests[r].kind # "reinstall",
           UNCHANGED <<lock, recovering>>,
           requests[r].kind \in Deploying => OwnsJournal(r)',
           requests[r].kind \in {"force", "create"} => journal' = None,
           requests[r].kind = "remove" /\ pc = "revoke" => nodes'[requests[r].node] = None,
           requests[r].kind \in Deploying /\ Way(r) = "agent"
               /\ pc \in {"journal", "apply", "commit", "mark", "undo"} =>
                   UNCHANGED credentials /\ HasCredential(requests[r].node)
    PROVE  Holder(r)'
<1>1. Holder(r) /\ lock = r
  BY HolderKnows DEF InLock, Open
<1>2. /\ requests'[r].pc = pc /\ requests'[r].kind = requests[r].kind
      /\ requests'[r].node = requests[r].node /\ requests'[r].seen = requests[r].seen
      /\ Way(r)' = Way(r)
  BY PcOnly
<1>3. requests'[r].kind \in Deploying /\ Way(r)' = "agent"
          /\ requests'[r].pc \in {"journal", "apply", "commit", "mark", "undo"} =>
             HasCredential(requests[r].node)'
  BY <1>2 DEF HasCredential
<1>4. ~recovering'
  BY <1>1 DEF Holder
<1>5. /\ requests'[r].kind = "remove" => requests'[r].seen # None
      /\ requests'[r].kind = "createSsh" => requests'[r].seen = None
  BY <1>1, <1>2 DEF Holder
<1>. QED
  BY <1>1, <1>2, <1>3, <1>4, <1>5 DEF Holder

LEMMA BeginStep ==
    ASSUME TypeInv, LockInv, NEW r \in Request, Begin(r)
    PROVE  LockInv'
<1>1. /\ Holder(r) /\ lock = r /\ Shape(requests[r]) /\ requests[r].node \in Node
      /\ requests[r].kind \in Deploying => journal = None
  BY HolderKnows DEF Begin, InLock, Open
<1>2. Grants /\ UNCHANGED <<journal, recovering>>
  BY DEF Begin, Grants, HasCredential
<1>3. CASE End(r) /\ UNCHANGED nodes
  BY <1>1, <1>2, <1>3, JournalStays, EndStep DEF LockInv
<1>4. CASE ~(End(r) /\ UNCHANGED nodes)
  <2>. DEFINE k == requests[r].kind
  <2>1. k \in {"create", "reinstall", "force"} \cup Deploying
    BY <1>1 DEF Begin, Shape
  <2>2. /\ k = "createSsh" => nodes[requests[r].node] = None
        /\ k \in {"remove", "promote", "force"} => nodes[requests[r].node] # None
        /\ k # "create" => UNCHANGED nodes
        /\ lock' = IF k = "create" THEN None ELSE lock
    BY <1>4 DEF Begin
  <2>3. /\ \A s \in Request \ {r} : requests'[s] = requests[s]
        /\ requests'[r].kind = k /\ requests'[r].node = requests[r].node
        /\ requests'[r].seen = nodes[requests[r].node]
        /\ k \in Deploying => requests'[r].pc = "stage"
        /\ k = "reinstall" => requests'[r].pc = "issue"
        /\ k = "create" => requests'[r].pc = "end"
        /\ k = "force" => requests'[r].pc = "commit"
    BY <1>4 DEF Begin, TypeInv, TypeOK, Entry, Deploying
  <2>4. JournalInv' /\ (recovering' => journal' # None)
    <3>1. CASE k = "create"
      BY <1>1, <1>2, <3>1 DEF LockInv, JournalInv, Holder
    <3>2. CASE k # "create"
      BY <1>2, <2>2, <3>2, JournalStays DEF LockInv
    <3>. QED
      BY <3>1, <3>2
  <2>5. Holds(requests'[r]) => Holder(r)'
    <3>1. CASE k \in Deploying
      <4>1. OwnsJournal(r)' /\ lock' = r
        BY <1>1, <1>2, <2>2, <2>3, <3>1 DEF OwnsJournal, Open, Deploying
      <4>. QED
        BY <1>1, <1>2, <2>2, <2>3, <3>1, <4>1 DEF Holder, Deploying
    <3>2. CASE k \in {"reinstall", "force"}
      BY <1>1, <1>2, <2>2, <2>3, <3>2 DEF Holder, Deploying
    <3>3. CASE k = "create"
      BY <2>3, <3>3 DEF Holds, InLock
    <3>. QED
      BY <2>1, <3>1, <3>2, <3>3
  <2>. QED
    BY <1>1, <2>3, <2>4, <2>5, Alone
<1>. QED
  BY <1>3, <1>4

LEMMA StageStep ==
    ASSUME TypeInv, LockInv, NEW r \in Request, Stage(r)
    PROVE  LockInv'
<1>1. /\ Holder(r) /\ lock = r /\ requests[r].node \in Node /\ requests[r].kind \in Deploying
      /\ journal = None
  BY HolderKnows DEF Stage, InLock, Open, Shape
<1>2. Grants /\ UNCHANGED <<journal, nodes, recovering>>
  BY DEF Stage, Grants, HasCredential
<1>3. JournalInv' /\ (recovering' => journal' # None)
  BY <1>2, JournalStays DEF LockInv
<1>4. CASE Reaches(requests[r].node, Way(r)) /\ Goto(r, "journal") /\ UNCHANGED lock
  <2>1. Way(r) = "agent" => HasCredential(requests[r].node)
    BY <1>4 DEF Reaches, Connected, Authenticates, HasCredential
  <2>2. OwnsJournal(r)'
    BY <1>1, <1>2, <1>4, PcOnly DEF OwnsJournal, Open
  <2>4. Holder(r)'
    BY <1>1, <1>2, <1>4, <2>1, <2>2, HolderMoves DEF Deploying, Stage
  <2>. QED
    BY <1>1, <1>3, <1>4, <2>4, PcOnly, Alone
<1>5. CASE End(r)
  BY <1>1, <1>2, <1>3, <1>5, EndStep
<1>. QED
  BY <1>4, <1>5 DEF Stage

LEMMA JournalStep ==
    ASSUME TypeInv, LockInv, TypeInv', NEW r \in Request, Journal(r)
    PROVE  LockInv'
<1>1. /\ Holder(r) /\ lock = r /\ requests[r].node \in Node /\ requests[r].kind \in Deploying
      /\ journal = None /\ requests[r].pc = "journal"
  BY HolderKnows DEF Journal, InLock, Open, Shape
<1>2. Grants /\ UNCHANGED <<nodes, credentials, recovering>>
  BY DEF Journal, Grants, HasCredential
<1>3. CASE /\ journal' = [node |-> requests[r].node, before |-> requests[r].seen,
                          after |-> After(r), direction |-> "forward"]
           /\ Goto(r, "apply") /\ UNCHANGED lock
  <2>1. /\ journal'.node = requests[r].node /\ journal'.before = requests[r].seen
        /\ journal'.after = After(r) /\ journal'.direction = "forward"
    BY <1>3
  <2>2. journal' # None
    <3>1. requests[r].seen \in Transport \cup {None} /\ After(r) \in Transport \cup {None}
      BY DEF TypeInv, TypeOK, Entry, After, Transport
    <3>2. journal' \in Change
      BY <1>1, <1>3, <3>1 DEF Change
    <3>. QED
      BY <3>2, NoneAssumption
  <2>3. OwnsJournal(r)'
    BY <1>3, <2>1, <2>2, PcOnly DEF OwnsJournal, Open
  <2>4. Way(r) = "agent" => HasCredential(requests[r].node)
    BY <1>1 DEF Holder
  <2>6. Holder(r)'
    BY <1>1, <1>2, <1>3, <2>3, <2>4, HolderMoves DEF Deploying, Open
  <2>7. JournalInv'
    BY <1>1, <1>2, <2>1, <2>4, AgentWay DEF JournalInv, HasCredential
  <2>. QED
    BY <1>1, <1>3, <2>2, <2>6, <2>7, PcOnly, Alone
<1>4. CASE UNCHANGED journal /\ End(r)
  BY <1>1, <1>2, <1>4, EndStep, JournalStays DEF LockInv
<1>. QED
  BY <1>3, <1>4 DEF Journal

LEMMA ApplyStep ==
    ASSUME TypeInv, LockInv, NEW r \in Request, Apply(r)
    PROVE  LockInv'
<1>1. /\ Holder(r) /\ lock = r /\ requests[r].kind \in Deploying /\ requests[r].pc = "apply"
  BY HolderKnows DEF Apply, InLock, Open, Shape
<1>2. Grants /\ UNCHANGED <<nodes, credentials, journal, lock, recovering>>
  BY DEF Apply, Grants, HasCredential, control
<1>3. PICK pc \in {"commit", "mark"} : Goto(r, pc)
  BY DEF Apply
<1>4. OwnsJournal(r)'
  BY <1>1, <1>2, <1>3, PcOnly DEF Holder, OwnsJournal, Open
<1>5. Way(r) = "agent" => HasCredential(requests[r].node)
  BY <1>1 DEF Holder
<1>6. Holder(r)'
  BY <1>1, <1>2, <1>3, <1>4, <1>5, HolderMoves DEF Deploying, Open
<1>. QED
  BY <1>1, <1>2, <1>3, <1>6, PcOnly, Alone, JournalStays DEF LockInv

LEMMA CommitStep ==
    ASSUME TypeInv, LockInv, NEW r \in Request, Commit(r)
    PROVE  LockInv'
<1>1. /\ Holder(r) /\ lock = r /\ requests[r].node \in Node /\ requests[r].pc = "commit"
      /\ requests[r].kind \in Deploying \cup {"force"}
      /\ requests[r].kind = "force" => journal = None
  BY HolderKnows DEF Commit, InLock, Shape, Holder
<1>2. Grants /\ UNCHANGED <<credentials, journal, recovering>>
  BY DEF Commit, Grants, HasCredential
<1>3. CASE /\ nodes' = [nodes EXCEPT ![requests[r].node] = After(r)] /\ UNCHANGED lock
           /\ Goto(r, IF requests[r].kind \in {"remove", "force"} THEN "revoke" ELSE "clear")
  <2>1. JournalInv'
    <3>1. CASE requests[r].kind = "force"
      BY <1>1, <1>2, <3>1 DEF JournalInv
    <3>2. CASE requests[r].kind \in Deploying
      <4>1. /\ journal.node = requests[r].node /\ journal.before = requests[r].seen
            /\ journal.after = After(r)
        BY <1>1, <3>2, HolderKnows DEF InLock, Open
      <4>2. /\ "agent" \in {requests[r].seen, After(r)} => HasCredential(requests[r].node)
            /\ requests[r].seen # None \/ After(r) # None
        BY <1>1, <3>2, AgentWay DEF Holder, Open
      <4>. QED
        BY <1>1, <1>2, <4>1, <4>2 DEF JournalInv, Grants
    <3>. QED
      BY <1>1, <3>1, <3>2
  <2>2. requests[r].kind \in Deploying => OwnsJournal(r)'
    BY <1>1, <1>2, <1>3, PcOnly DEF Holder, OwnsJournal, Open
  <2>3. requests[r].kind = "remove" => nodes'[requests[r].node] = None
    BY <1>1, <1>3 DEF After, TypeInv, TypeOK
  <2>4. Holder(r)'
    BY <1>1, <1>2, <1>3, <2>2, <2>3, HolderMoves DEF Deploying, Open
  <2>. QED
    BY <1>1, <1>2, <1>3, <2>1, <2>4, PcOnly, Alone DEF LockInv
<1>4. CASE UNCHANGED nodes /\ requests[r].kind = "force" /\ End(r)
  BY <1>1, <1>2, <1>4, EndStep, JournalStays DEF LockInv
<1>5. CASE UNCHANGED nodes /\ requests[r].kind # "force" /\ Goto(r, "mark") /\ UNCHANGED lock
  <2>1. OwnsJournal(r)'
    BY <1>1, <1>2, <1>5, PcOnly DEF Holder, OwnsJournal, Open
  <2>2. Way(r) = "agent" => HasCredential(requests[r].node)
    BY <1>1, <1>5 DEF Holder
  <2>3. Holder(r)'
    BY <1>1, <1>2, <1>5, <2>1, <2>2, HolderMoves DEF Deploying, Open
  <2>. QED
    BY <1>1, <1>2, <1>5, <2>3, PcOnly, Alone, JournalStays DEF LockInv
<1>. QED
  BY <1>3, <1>4, <1>5 DEF Commit

LEMMA RevokeStep ==
    ASSUME TypeInv, LockInv, NEW r \in Request, RevokeCredential(r)
    PROVE  LockInv'
<1>1. /\ Holder(r) /\ lock = r /\ requests[r].node \in Node /\ requests[r].pc = "revoke"
      /\ requests[r].kind \in {"remove", "force"} /\ ~recovering
      /\ requests[r].kind = "force" => journal = None
  BY HolderKnows DEF RevokeCredential, InLock, Shape, Holder
<1>2. UNCHANGED <<nodes, journal, recovering>>
  BY DEF RevokeCredential
<1>3. CASE requests[r].kind = "force"
  <2>1. End(r) /\ JournalInv'
    BY <1>1, <1>2, <1>3 DEF RevokeCredential, JournalInv
  <2>. QED
    BY <1>1, <1>2, <2>1, EndStep
<1>4. CASE requests[r].kind = "remove"
  <2>1. /\ journal # None /\ journal.node = requests[r].node /\ journal.after = None
        /\ journal.direction = "forward" /\ nodes[requests[r].node] = None
    BY <1>1, <1>4, HolderKnows DEF InLock, Open, Deploying, After, Holder
  <2>2. JournalInv'
    BY <1>2, <2>1 DEF LockInv, JournalInv, Settled
  <2>3. CASE End(r)
    BY <1>1, <1>2, <2>2, <2>3, EndStep
  <2>4. CASE Goto(r, "clear") /\ UNCHANGED lock
    <3>1. OwnsJournal(r)'
      BY <1>1, <1>2, <1>4, <2>4, PcOnly DEF Holder, OwnsJournal, Open, Deploying
    <3>2. Holder(r)'
      BY <1>1, <1>2, <1>4, <2>4, <3>1, HolderMoves DEF Open
    <3>. QED
      BY <1>1, <1>2, <2>2, <2>4, <3>2, PcOnly, Alone
  <2>. QED
    BY <1>4, <2>3, <2>4 DEF RevokeCredential
<1>. QED
  BY <1>1, <1>3, <1>4

LEMMA ClearStep ==
    ASSUME TypeInv, LockInv, NEW r \in Request, Clear(r)
    PROVE  LockInv'
<1>1. lock = r /\ ~recovering
  BY HolderKnows DEF Clear, InLock, Shape, Deploying, Holder
<1>2. End(r) /\ Grants /\ UNCHANGED <<nodes, recovering>>
  BY DEF Clear, Grants, HasCredential
<1>3. JournalInv'
  <2>1. CASE journal' = journal
    BY <1>2, <2>1, JournalStays DEF LockInv
  <2>2. CASE journal' = None
    BY <2>2 DEF JournalInv
  <2>. QED
    BY <2>1, <2>2 DEF Clear
<1>. QED
  BY <1>1, <1>2, <1>3, EndStep

LEMMA MarkStep ==
    ASSUME TypeInv, LockInv, NEW r \in Request, Mark(r)
    PROVE  LockInv'
<1>1. /\ Holder(r) /\ lock = r /\ requests[r].node \in Node /\ requests[r].kind \in Deploying
      /\ requests[r].pc = "mark" /\ ~recovering
      /\ journal \in Change /\ journal.node = requests[r].node
      /\ journal.before = requests[r].seen /\ journal.after = After(r)
  BY HolderKnows DEF Mark, InLock, Open, Shape, Deploying, Holder
<1>2. Goto(r, "undo") /\ UNCHANGED <<nodes, credentials, lock, recovering>>
  BY DEF Mark, control
<1>3. /\ journal' \in Change /\ journal'.node = journal.node /\ journal'.before = journal.before
      /\ journal'.after = journal.after
  BY <1>1 DEF Mark, Change
<1>4. journal' # None
  BY <1>3, NoneAssumption
<1>5. OwnsJournal(r)'
  BY <1>1, <1>2, <1>3, <1>4, PcOnly DEF OwnsJournal, Open
<1>6. Way(r) = "agent" => HasCredential(requests[r].node)
  BY <1>1 DEF Holder
<1>7. Holder(r)'
  BY <1>1, <1>2, <1>5, <1>6, HolderMoves DEF Deploying, Open
<1>8. JournalInv'
  BY <1>1, <1>2, <1>3, <1>6, AgentWay DEF JournalInv, HasCredential, Open
<1>. QED
  BY <1>1, <1>2, <1>4, <1>7, <1>8, PcOnly, Alone

LEMMA UndoStep ==
    ASSUME TypeInv, LockInv, NEW r \in Request, Undo(r)
    PROVE  LockInv'
<1>1. lock = r /\ ~recovering
  BY HolderKnows DEF Undo, InLock, Shape, Deploying, Holder
<1>2. End(r) /\ Grants /\ UNCHANGED <<nodes, recovering>>
  BY DEF Undo, Grants, HasCredential
<1>3. JournalInv'
  <2>1. CASE journal' = journal
    BY <1>2, <2>1, JournalStays DEF LockInv
  <2>2. CASE journal' = None
    BY <2>2 DEF JournalInv
  <2>. QED
    BY <2>1, <2>2 DEF Undo
<1>. QED
  BY <1>1, <1>2, <1>3, EndStep

LEMMA CrashStep ==
    ASSUME TypeInv, LockInv, Crash
    PROVE  LockInv'
<1>1. ASSUME NEW s \in Request
      PROVE  requests'[s].pc \in {"new", "end"}
  BY DEF Crash, Fresh, TypeInv, TypeOK, Entry
<1>2. UNCHANGED <<nodes, credentials, journal>> /\ recovering' = (journal # None)
  BY DEF Crash
<1>3. JournalInv'
  BY <1>2, JournalStays DEF LockInv, Grants, HasCredential
<1>. QED
  BY <1>1, <1>2, <1>3 DEF LockInv, Holds, InLock

LEMMA RecoverStep ==
    ASSUME TypeInv, LockInv, Recover
    PROVE  LockInv'
<1>1. ASSUME NEW s \in Request
      PROVE  ~Holds(requests'[s])
  BY NoneAssumption DEF Recover, LockInv, Holder, Token
<1>. QED
  BY <1>1 DEF Recover, LockInv, JournalInv

LEMMA LockKept ==
    ASSUME TypeInv, LockInv, TypeInv', NEW r \in Request, Step(r)
    PROVE  LockInv'
  BY LockStep, UnlockedSteps, IssueStep, BeginStep, StageStep, JournalStep, ApplyStep, CommitStep,
     RevokeStep, ClearStep, MarkStep, UndoStep DEF Step

-----------------------------------------------------------------------------
(* The tokens.                                                             *)

LEMMA InitTokens ==
    ASSUME Init
    PROVE  TokenInv
  BY DEF Init, TokenInv, Issued, RemovedStaysOut, Authenticates

\* Tokens stay those of their nodes when requests keep what they issued.
Keeps == \A s \in Request : requests[s].token = s =>
             requests'[s].token = s /\ requests'[s].node = requests[s].node

LEMMA KeepsIssued ==
    ASSUME Keeps, NEW n \in Node, NEW t, Issued(n, t)
    PROVE  Issued(n, t)'
  BY DEF Keeps, Issued

LEMMA TokensStay ==
    ASSUME TypeInv, TokenInv, Keeps, UNCHANGED <<credentials, banned>>
    PROVE  TokenInv'
<1>1. \A n \in Node : credentials'[n] # None => \A t \in credentials'[n].tokens : Issued(n, t)'
  BY KeepsIssued DEF TokenInv
<1>2. \A t \in banned' : \E n \in Node : Issued(n, t)'
  BY KeepsIssued DEF TokenInv
<1>. QED
  BY <1>1, <1>2 DEF TokenInv, RemovedStaysOut, Authenticates

\* A token that was issued belongs to one node.
LEMMA OneNode ==
    ASSUME NEW m \in Node, NEW n \in Node, NEW t, Issued(m, t), Issued(n, t)
    PROVE  m = n
  BY NameAssumption DEF Issued

LEMMA IssueTokens ==
    ASSUME TypeInv, TokenInv, NEW r \in Request, IssueToken(r)
    PROVE  TokenInv'
<1>. DEFINE n == requests[r].node
<1>1. requests[r].token = None /\ n \in Node /\ requests[r] \in Entry
  BY DEF IssueToken, TypeInv, TypeOK, Shape
<1>2. Keeps /\ UNCHANGED banned
  BY <1>1, NoneAssumption DEF IssueToken, Keeps, End, Goto, TypeInv, TypeOK, Entry, Token
<1>3. CASE UNCHANGED credentials
  BY <1>2, <1>3, TokensStay
<1>4. CASE Issue(n, r, requests[r].kind = "reinstall") /\ requests'[r].token = r /\ requests'[r].node = n
  <2>. DEFINE c == [tokens |-> {r} \cup (IF requests[r].kind = "reinstall" /\ HasCredential(n)
                                         THEN credentials[n].tokens ELSE {}),
                    revoked |-> FALSE]
  <2>1. /\ credentials'[n] = c
        /\ \A m \in Node \ {n} : credentials'[m] = credentials[m]
    BY <1>1, <1>4 DEF Issue, TypeInv, TypeOK
  <2>2. \A t \in c.tokens : t = r \/ (HasCredential(n) /\ t \in credentials[n].tokens)
    OBVIOUS
  <2>. HIDE DEF c
  <2>3. \A m \in Node : m = n => Issued(m, r)'
    BY <1>4 DEF Issued
  <2>4. ASSUME NEW m \in Node, credentials'[m] # None, NEW t \in credentials'[m].tokens
        PROVE  Issued(m, t)'
    <3>1. CASE m = n /\ t = r
      BY <2>3, <3>1
    <3>2. CASE ~(m = n /\ t = r)
      <4>1. credentials[m] # None /\ t \in credentials[m].tokens
        BY <2>1, <2>2, <2>4, <3>2 DEF HasCredential
      <4>. QED
        BY <1>2, <4>1, KeepsIssued DEF TokenInv
    <3>. QED
      BY <3>1, <3>2
  <2>5. ASSUME NEW t \in banned'
        PROVE  \E m \in Node : Issued(m, t)'
    BY <1>2, KeepsIssued DEF TokenInv
  <2>6. r \notin banned
    BY <1>1, NameAssumption, NoneAssumption DEF TokenInv, Issued, Token
  <2>7. ASSUME NEW m \in Node, NEW t \in banned', Authenticates(m, t)'
        PROVE  FALSE
    <3>1. t \in banned /\ t # r
      BY <1>2, <2>6
    <3>2. credentials'[m] # None /\ ~credentials'[m].revoked /\ t \in credentials'[m].tokens
      BY <2>7 DEF Authenticates
    <3>3. Authenticates(m, t)
      BY <2>1, <2>2, <3>1, <3>2 DEF Authenticates, HasCredential
    <3>. QED
      BY <3>1, <3>3 DEF TokenInv, RemovedStaysOut
  <2>. QED
    BY <2>4, <2>5, <2>7 DEF TokenInv, RemovedStaysOut
<1>5. IssueToken(r) => \/ UNCHANGED credentials
                       \/ /\ Issue(n, r, requests[r].kind = "reinstall")
                          /\ requests'[r].token = r /\ requests'[r].node = n
  BY <1>1 DEF IssueToken, TypeInv, TypeOK, Entry
<1>. QED
  BY <1>3, <1>4, <1>5

LEMMA RevokeTokens ==
    ASSUME TypeInv, TokenInv, NEW r \in Request, RevokeCredential(r)
    PROVE  TokenInv'
<1>. DEFINE n == requests[r].node
<1>1. n \in Node
  BY DEF RevokeCredential, TypeInv, Shape
<1>2. Keeps
  BY PcOnly DEF RevokeCredential, End, Keeps
<1>3. CASE UNCHANGED <<credentials, banned>>
  BY <1>2, <1>3, TokensStay
<1>4. CASE credentials[n] # None /\ Revoke(n) /\ banned' = banned \cup credentials[n].tokens
  <2>1. /\ credentials'[n].tokens = credentials[n].tokens /\ credentials'[n].revoked
        /\ \A m \in Node \ {n} : credentials'[m] = credentials[m]
    BY <1>1, <1>4 DEF Revoke, TypeInv, TypeOK, Credential
  <2>2. ASSUME NEW m \in Node, credentials'[m] # None, NEW t \in credentials'[m].tokens
        PROVE  Issued(m, t)'
    BY <1>2, <1>4, <2>1, <2>2, KeepsIssued DEF TokenInv
  <2>3. ASSUME NEW t \in banned'
        PROVE  \E m \in Node : Issued(m, t)'
    BY <1>1, <1>2, <1>4, KeepsIssued DEF TokenInv
  <2>4. ASSUME NEW m \in Node, NEW t \in banned', Authenticates(m, t)'
        PROVE  FALSE
    <3>1. m # n
      BY <2>1, <2>4 DEF Authenticates
    <3>2. Authenticates(m, t)
      BY <2>1, <2>4, <3>1 DEF Authenticates
    <3>3. t \notin banned
      BY <3>2 DEF TokenInv, RemovedStaysOut
    <3>4. Issued(n, t) /\ Issued(m, t)
      BY <1>1, <1>4, <3>2, <3>3 DEF TokenInv, Authenticates
    <3>. QED
      BY <1>1, <3>1, <3>4, OneNode
  <2>. QED
    BY <2>2, <2>3, <2>4 DEF TokenInv, RemovedStaysOut
<1>. QED
  BY <1>3, <1>4 DEF RevokeCredential, Revoke

LEMMA TokensKept ==
    ASSUME TypeInv, TokenInv, NEW r \in Request, Step(r)
    PROVE  TokenInv'
<1>1. CASE Send(r)
  <2>1. requests[r].token # r /\ \A s \in Request \ {r} : requests'[s] = requests[s]
    BY <1>1, NoneAssumption DEF Send, Fresh, Token, TypeInv, TypeOK
  <2>. QED
    BY <1>1, <2>1, TokensStay DEF Send, Keeps
<1>2. CASE Begin(r)
  <2>1. Keeps
    BY <1>2 DEF Begin, End, Goto, Keeps, TypeInv, TypeOK, Entry
  <2>. QED
    BY <1>2, <2>1, TokensStay DEF Begin
<1>3. CASE Install(r)
  BY <1>3, TokensStay DEF Install, Keeps
<1>4. CASE \/ Read(r) \/ Lock(r) \/ Refused(r) \/ Stage(r) \/ Journal(r) \/ Apply(r)
           \/ Commit(r) \/ Clear(r) \/ Mark(r) \/ Undo(r)
  <2>1. /\ \E pc : Goto(r, pc)
        /\ UNCHANGED <<credentials, banned>>
    BY <1>4 DEF Read, Lock, Refused, Stage, Journal, Apply, Commit, Clear, Mark, Undo, End
  <2>2. Keeps
    BY <2>1, PcOnly DEF Keeps
  <2>. QED
    BY <2>1, <2>2, TokensStay
<1>. QED
  BY <1>1, <1>2, <1>3, <1>4, IssueTokens, RevokeTokens DEF Step

LEMMA CrashTokens ==
    ASSUME TypeInv, TokenInv, Crash
    PROVE  TokenInv'
<1>1. Keeps
  BY DEF Crash, Keeps, TypeInv, TypeOK, Entry
<1>. QED
  BY <1>1, TokensStay DEF Crash

-----------------------------------------------------------------------------
(* The theorems.                                                           *)

LEMMA Initially == ASSUME Init PROVE IInv
  BY InitTypes, InitLock, InitTokens DEF IInv

LEMMA Inductive ==
    ASSUME IInv, [Next]_vars
    PROVE  IInv'
<1>1. CASE Crash
  BY <1>1, CrashTypes, CrashStep, CrashTokens DEF IInv
<1>2. CASE Recover
  <2>1. Keeps /\ UNCHANGED <<credentials, banned>>
    BY <1>2 DEF Recover, Keeps
  <2>. QED
    BY <1>2, <2>1, RecoverTypes, RecoverStep, TokensStay DEF IInv
<1>3. ASSUME NEW r \in Request, Step(r)
      PROVE  IInv'
  BY <1>3, TypesKept, LockKept, TokensKept DEF IInv
<1>4. CASE UNCHANGED vars
  <2>1. TypeInv'
    BY <1>4 DEF IInv, vars, control, TypeInv, TypeOK
  <2>2. TokenInv'
    BY <1>4, TokensStay DEF IInv, vars, Keeps
  <2>3. LockInv'
    BY <1>4 DEF IInv, vars, control, LockInv, Holder, OwnsJournal, After, Way, JournalInv, Settled,
                HasCredential
  <2>. QED
    BY <2>1, <2>2, <2>3 DEF IInv
<1>. QED
  BY <1>1, <1>2, <1>3, <1>4 DEF Next

LEMMA Invariant == Spec => []IInv
<1>1. Init => IInv
  BY Initially
<1>2. IInv /\ [Next]_vars => IInv'
  BY Inductive
<1>. QED
  BY <1>1, <1>2, PTL DEF Spec

\* Every variable keeps its type, for any nodes, requests and restarts.
THEOREM TypeCorrect == Spec => []TypeOK
<1>1. IInv => TypeOK
  BY DEF IInv, TypeInv
<1>. QED
  BY <1>1, Invariant, PTL

\* Once a removal has revoked a node's credential, the tokens it had never
\* authenticate again (AgentBroker.revoke, issueToken).
THEOREM RemovedStayOut == Spec => []RemovedStaysOut
<1>1. IInv => RemovedStaysOut
  BY DEF IInv, TokenInv
<1>. QED
  BY <1>1, Invariant, PTL

\* Whatever fails and whenever the process dies, recover() finds the credential
\* of an agent node it still has to replay in force (decommission revokes last).
THEOREM RecoveryReaches == Spec => []RecoveryCanReach
<1>1. ASSUME IInv, journal # None, NeedsReplay, ReplayWay = "agent"
      PROVE  HasCredential(journal.node)
  <2>1. journal \in Change /\ (journal.before # None \/ journal.after # None)
    BY <1>1 DEF IInv, TypeInv, TypeOK, LockInv, JournalInv
  <2>2. Desired \in {journal.before, journal.after}
    BY DEF Desired
  <2>3. \E w \in {Desired, journal.after, journal.before} : w # None /\ (Desired # None => w = Desired)
    BY <2>1, <2>2
  <2>4. ReplayWay \in {Desired, journal.after, journal.before}
    BY <2>3 DEF ReplayWay
  <2>5. "agent" \in {journal.before, journal.after}
    BY <1>1, <2>2, <2>4
  <2>6. ~Settled
    BY <1>1 DEF NeedsReplay, Desired, Settled
  <2>. QED
    BY <1>1, <2>5, <2>6 DEF IInv, LockInv, JournalInv
<1>2. IInv => RecoveryCanReach
  BY <1>1 DEF RecoveryCanReach
<1>. QED
  BY <1>2, Invariant, PTL

\* A reinstallation script leaves every agent connected and its token works
\* (createReinstallScript adds its token to those in use).
THEOREM ReinstallKeeps == Spec => ReinstallKeepsAgent
<1>. DEFINE Kept == \A r \in Request :
        requests[r].kind = "reinstall" /\ requests[r].token = None /\ requests'[r].token # None =>
            \A n \in Node : (Connected(n) => Connected(n)')
                            /\ (n = requests[r].node => Authenticates(n, r)')
<1>1. ASSUME IInv, [Next]_vars
      PROVE  Kept
  <2>1. SUFFICES ASSUME NEW r \in Request, requests[r].kind = "reinstall",
                        requests[r].token = None, requests'[r].token # None
                 PROVE  \A n \in Node : (Connected(n) => Connected(n)')
                                        /\ (n = requests[r].node => Authenticates(n, r)')
    OBVIOUS
  <2>2. IssueToken(r) /\ requests'[r].token # None
    <3>1. ASSUME UNCHANGED vars \/ Recover \/ Crash
          PROVE  FALSE
      BY <1>1, <2>1, <3>1 DEF vars, Recover, Crash, IInv, TypeInv, TypeOK, Entry
    <3>2. PICK s \in Request : Step(s)
      BY <1>1, <3>1 DEF Next
    <3>3. s = r
      <4>1. Send(s) \/ Begin(s) \/ IssueToken(s) => \A q \in Request \ {s} : requests'[q] = requests[q]
        BY <1>1 DEF Send, Begin, IssueToken, End, Goto, IInv, TypeInv, TypeOK, Entry
      <4>2. Install(s) => requests' = requests
        BY DEF Install
      <4>3. (\E pc : Goto(s, pc)) => \A q \in Request \ {s} : requests'[q] = requests[q]
        BY <1>1, PcOnly DEF IInv
      <4>. QED
        BY <2>1, <3>2, <4>1, <4>2, <4>3
           DEF Step, Read, Lock, Refused, Stage, Journal, Apply, Commit, RevokeCredential, Clear, Mark,
               Undo, End
    <3>4. ASSUME \E pc : Goto(r, pc)
          PROVE  FALSE
      BY <1>1, <2>1, <3>4, PcOnly DEF IInv
    <3>5. ASSUME Send(r) \/ Begin(r) \/ Install(r)
          PROVE  FALSE
      <4>1. ~Send(r)
        <5>1. Fresh.kind # "reinstall"
          BY NoneAssumption DEF Fresh, Kind
        <5>. QED
          BY <2>1, <5>1 DEF Send
      <4>2. ~Install(r)
        BY <2>1 DEF Install
      <4>3. Begin(r) => requests'[r].token = requests[r].token
        BY <1>1 DEF Begin, End, Goto, IInv, TypeInv, TypeOK, Entry
      <4>. QED
        BY <2>1, <3>5, <4>1, <4>2, <4>3
    <3>. QED
      BY <2>1, <3>2, <3>3, <3>4, <3>5
         DEF Step, Read, Lock, Refused, Stage, Journal, Apply, Commit, RevokeCredential, Clear, Mark,
             Undo, End
  <2>3. requests[r].node \in Node /\ host' = host
    BY <1>1, <2>2 DEF IssueToken, IInv, TypeInv, Shape
  <2>4. Issue(requests[r].node, r, TRUE)
    BY <1>1, <2>1, <2>2, PcOnly DEF IssueToken, End, IInv
  <2>. DEFINE c == [tokens |-> {r} \cup (IF HasCredential(requests[r].node)
                                         THEN credentials[requests[r].node].tokens ELSE {}),
                    revoked |-> FALSE]
  <2>5. /\ credentials'[requests[r].node] = c
        /\ \A n \in Node \ {requests[r].node} : credentials'[n] = credentials[n]
    BY <1>1, <2>3, <2>4 DEF Issue, IInv, TypeInv, TypeOK
  <2>6. c \in Credential /\ r \in c.tokens /\ ~c.revoked
          /\ (HasCredential(requests[r].node) => credentials[requests[r].node].tokens \subseteq c.tokens)
    BY <1>1, <2>3 DEF Credential, HasCredential, IInv, TypeInv, TypeOK, Token
  <2>. HIDE DEF c
  <2>7. c # None
    BY <2>6, NoneAssumption
  <2>. QED
    BY <2>3, <2>5, <2>6, <2>7 DEF Connected, Authenticates, HasCredential
<1>2. IInv /\ [Next]_vars => [Kept]_vars
  BY <1>1
<1>. QED
  BY <1>2, Invariant, PTL DEF Spec, ReinstallKeepsAgent

=============================================================================
