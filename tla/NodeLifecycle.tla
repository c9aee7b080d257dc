----------------------------- MODULE NodeLifecycle -----------------------------
(***************************************************************************)
(* Nodes come and go (src/node-onboarding-service.ts): scripts with agent  *)
(* credentials, new agent nodes, the promotion of an SSH node, removal and *)
(* forced removal, with the credentials of src/agent-broker.ts and the     *)
(* recovery of src/deployment-service.ts.  Requests interleave at every    *)
(* await; some hold the deployment lock, some do not.  A node and the      *)
(* database may fail at any call, and the process may die.                 *)
(*                                                                         *)
(* One inventory entry per node, its transport, stands for the inventory;  *)
(* Deployment has the rest of a change.                                    *)
(***************************************************************************)
EXTENDS Naturals, FiniteSets

CONSTANTS
    Node,           \* the nodes' ids
    Request,        \* bound: the requests made
    None,
    MaxRestarts     \* bound: how often the process dies

Transport == {"ssh", "agent"}
Kind == {"setup", "rotate", "reinstall", "upgrade", "create", "createSsh",
         "promote", "remove", "force"}

\* Every request issues one token at most: its name is the token's.
Token == Request \cup Node

Credential == [tokens : SUBSET Token, revoked : BOOLEAN]

\* An active deployment journal: one node's transport before and after.
Change == [node : Node, before : Transport \cup {None}, after : Transport \cup {None},
           direction : {"forward", "rollback"}]

ASSUME NameAssumption == Request \cap Node = {}
ASSUME NoneAssumption == None \notin Token \cup Transport \cup Kind \cup Credential \cup Change
ASSUME BoundAssumption == MaxRestarts \in Nat

VARIABLES
    nodes,          \* inventory: the transport of each node, if it is there
    credentials,    \* per node the accepted tokens, and whether they are revoked
    host,           \* the token the agent on each host uses
    loaded,         \* the nodes that run a configuration that is not empty
    journal,        \* the open change, if any
    lock,           \* the request that holds the deployment lock
    requests,
    recovering,     \* the recovery of a restart is not done
    restarts,
    banned          \* (history) the tokens of removed nodes

control == <<lock, recovering, restarts>>
vars == <<nodes, credentials, host, loaded, journal, control, requests, banned>>

Pc == {"new", "read", "issue", "lock", "locked", "stage", "journal", "apply", "commit",
       "revoke", "clear", "mark", "undo", "end"}

Entry == [kind : Kind \cup {None}, node : Node \cup {None}, pc : Pc,
          seen : Transport \cup {None}, token : Request \cup {None}]

TypeOK ==
    /\ nodes \in [Node -> Transport \cup {None}]
    /\ credentials \in [Node -> Credential \cup {None}]
    /\ host \in [Node -> Token \cup {None}]
    /\ loaded \subseteq Node
    /\ journal \in Change \cup {None}
    /\ lock \in Request \cup {None}
    /\ requests \in [Request -> Entry]
    /\ recovering \in BOOLEAN
    /\ banned \subseteq Token

Fresh == [kind |-> None, node |-> None, pc |-> "new", seen |-> None, token |-> None]

\* Nodes that are there run their configuration, agents with the node's first
\* token.
Init ==
    /\ nodes \in [Node -> Transport \cup {None}]
    /\ credentials = [n \in Node |-> IF nodes[n] = "agent"
                                     THEN [tokens |-> {n}, revoked |-> FALSE] ELSE None]
    /\ host = [n \in Node |-> IF nodes[n] = "agent" THEN n ELSE None]
    /\ loaded = {n \in Node : nodes[n] # None}
    /\ journal = None /\ lock = None /\ recovering = FALSE /\ restarts = 0
    /\ requests = [r \in Request |-> Fresh] /\ banned = {}

-----------------------------------------------------------------------------
(* Credentials (src/agent-broker.ts).                                      *)

Authenticates(n, t) ==
    credentials[n] # None /\ ~credentials[n].revoked /\ t \in credentials[n].tokens

HasCredential(n) == credentials[n] # None /\ ~credentials[n].revoked
Connected(n) == Authenticates(n, host[n])

\* A stage, an apply or a rollback gets to the node.
Reaches(n, transport) == transport = "ssh" \/ Connected(n)

\* (Mutants: a reset where a token is added; a revoked one comes back.)
IssueReset(n, t, preserve) ==
    credentials' = [credentials EXCEPT ![n] = [tokens |-> {t}, revoked |-> FALSE]]

IssueRevived(n, t, preserve) ==
    credentials' = [credentials EXCEPT ![n] =
        [tokens  |-> {t} \cup (IF preserve /\ @ # None THEN @.tokens ELSE {}),
         revoked |-> FALSE]]

Issue(n, t, preserve) ==
    credentials' = [credentials EXCEPT ![n] =
        [tokens  |-> {t} \cup (IF preserve /\ HasCredential(n) THEN @.tokens ELSE {}),
         revoked |-> FALSE]]

Revoke(n) ==
    credentials' = IF credentials[n] = None THEN credentials
                   ELSE [credentials EXCEPT ![n].revoked = TRUE]

-----------------------------------------------------------------------------
(* Requests.                                                               *)

At(r, kinds, pc) == requests[r].kind \in kinds /\ requests[r].pc = pc
Goto(r, pc) == requests' = [requests EXCEPT ![r].pc = pc]

\* The request ends and, if it has it, gives the lock back.
End(r) == Goto(r, "end") /\ lock' = (IF lock = r THEN None ELSE lock)

Send(r) ==
    /\ requests[r] = Fresh
    /\ \E k \in Kind, n \in Node :
          requests' = [requests EXCEPT ![r].kind = k, ![r].node = n,
              ![r].pc = IF k \in {"remove", "force", "reinstall", "createSsh"} THEN "lock" ELSE "read"]
    /\ UNCHANGED <<nodes, credentials, host, loaded, journal, control, banned>>

\* createSetupScript, createAgentUpgradeScript, create and promoteToAgent read
\* the inventory without the lock.  Only "rotate" asks for a new credential of
\* an agent node.
MayFollow(k, n) ==
    CASE k = "setup"   -> nodes[n] # "agent"
      [] k = "rotate"  -> TRUE
      [] k = "upgrade" -> nodes[n] = "ssh"
      [] k = "create"  -> nodes[n] = None
      [] k = "promote" -> nodes[n] = "ssh" /\ Connected(n)

Read(r) ==
    LET k == requests[r].kind  n == requests[r].node IN
    /\ requests[r].pc = "read"
    /\ Goto(r, IF ~MayFollow(k, n) THEN "end"
               ELSE IF k = "promote" \/ (k = "create" /\ HasCredential(n)) THEN "lock" ELSE "issue")
    /\ UNCHANGED <<nodes, credentials, host, loaded, journal, control, banned>>

\* The token is in the script or in the answer.  A create goes on to the lock;
\* createReinstallScript has it, and adds its token to those in use.
IssueToken(r) ==
    LET k == requests[r].kind IN
    /\ requests[r].pc = "issue"
    /\ \/ /\ Issue(requests[r].node, r, k = "reinstall")
          /\ requests' = [requests EXCEPT ![r].token = r,
                                          ![r].pc = IF k = "create" THEN "lock" ELSE "end"]
          /\ lock' = (IF lock = r THEN None ELSE lock)
       \/ UNCHANGED credentials /\ End(r)
    /\ UNCHANGED <<nodes, host, loaded, journal, recovering, restarts, banned>>

\* withDeploymentLock: a removal waits for the lock, others are refused while
\* it is held; with an open journal only createReinstallScript goes on.
Lock(r) ==
    LET k == requests[r].kind IN
    /\ requests[r].pc = "lock" /\ lock = None
    /\ IF (journal = None /\ ~recovering) \/ k = "reinstall"
       THEN lock' = r /\ Goto(r, "locked")
       ELSE UNCHANGED lock /\ Goto(r, "end")
    /\ UNCHANGED <<nodes, credentials, host, loaded, journal, recovering, restarts, banned>>

Refused(r) ==
    /\ requests[r].pc = "lock" /\ lock # None /\ requests[r].kind \notin {"remove", "force"}
    /\ Goto(r, "end")
    /\ UNCHANGED <<nodes, credentials, host, loaded, journal, control, banned>>

\* With the lock the inventory is read again (the database may fail).
Begin(r) ==
    LET k == requests[r].kind  n == requests[r].node
        missing == k \notin {"create", "createSsh"} /\ nodes[n] = None
        wrong == \/ k \in {"create", "createSsh"} /\ nodes[n] # None
                 \/ k = "createSsh" /\ credentials[n] # None     \* it gets a new id
                 \/ k = "reinstall" /\ nodes[n] # "agent" IN
    /\ requests[r].pc = "locked" /\ UNCHANGED <<credentials, host, loaded, journal, banned>>
    /\ \E fails \in BOOLEAN : IF missing \/ wrong \/ fails
       THEN End(r) /\ UNCHANGED nodes
       ELSE /\ requests' = [requests EXCEPT ![r].seen = nodes[n],
                  ![r].pc = CASE k \in {"remove", "promote", "createSsh"} -> "stage"
                              [] k = "reinstall" -> "issue"
                              [] k = "create" -> "end"
                              [] k = "force" -> "commit"]
            /\ nodes' = IF k = "create" THEN [nodes EXCEPT ![n] = "agent"] ELSE nodes
            /\ lock' = IF k = "create" THEN None ELSE lock
    /\ UNCHANGED <<recovering, restarts>>

-----------------------------------------------------------------------------
(* The creation of an SSH node, a promotion and a removal: stage, journal,  *)
(* apply, commit; a removal then revokes the credential.                    *)

After(r) ==
    CASE requests[r].kind = "createSsh" -> "ssh"
      [] requests[r].kind = "promote"   -> "agent"
      [] OTHER                          -> None

\* The transport a call to the node takes: that of the node as it will be, or
\* of the node to be removed.
Way(r) == IF After(r) # None THEN After(r) ELSE requests[r].seen

\* A removed node runs an empty configuration.
LoadedWith(n, transport) == IF transport = None THEN loaded \ {n} ELSE loaded \cup {n}

Stage(r) ==
    /\ requests[r].pc = "stage"
    /\ \/ Reaches(requests[r].node, Way(r)) /\ Goto(r, "journal") /\ UNCHANGED lock
       \/ End(r)
    /\ UNCHANGED <<nodes, credentials, host, loaded, journal, recovering, restarts, banned>>

Journal(r) ==
    /\ requests[r].pc = "journal"
    /\ \/ /\ journal' = [node |-> requests[r].node, before |-> requests[r].seen,
                         after |-> After(r), direction |-> "forward"]
          /\ Goto(r, "apply") /\ UNCHANGED lock
       \/ UNCHANGED journal /\ End(r)
    /\ UNCHANGED <<nodes, credentials, host, loaded, recovering, restarts, banned>>

\* (Mutant: the credential goes as soon as the node is empty.)
ApplyAndRevoke(r) ==
    LET n == requests[r].node IN
    /\ requests[r].pc = "apply"
    /\ \/ /\ Reaches(n, Way(r)) /\ loaded' = LoadedWith(n, After(r)) /\ Goto(r, "commit")
          /\ IF requests[r].kind = "remove" THEN Revoke(n) ELSE UNCHANGED credentials
       \/ UNCHANGED <<loaded, credentials>> /\ Goto(r, "mark")
    /\ UNCHANGED <<nodes, host, journal, control, banned>>

\* It works, or it fails with or without an effect.
Apply(r) ==
    LET n == requests[r].node IN
    /\ requests[r].pc = "apply"
    /\ \/ /\ Reaches(n, Way(r)) /\ loaded' = LoadedWith(n, After(r))
          /\ (Goto(r, "commit") \/ Goto(r, "mark"))
       \/ UNCHANGED loaded /\ Goto(r, "mark")
    /\ UNCHANGED <<nodes, credentials, host, journal, control, banned>>

\* A forced removal commits without a journal and without the node.
Commit(r) ==
    LET k == requests[r].kind IN
    /\ requests[r].pc = "commit"
    /\ \/ /\ nodes' = [nodes EXCEPT ![requests[r].node] = After(r)]
          /\ Goto(r, IF k \in {"remove", "force"} THEN "revoke" ELSE "clear") /\ UNCHANGED lock
       \/ /\ UNCHANGED nodes
          /\ IF k = "force" THEN End(r) ELSE Goto(r, "mark") /\ UNCHANGED lock
    /\ UNCHANGED <<credentials, host, loaded, journal, recovering, restarts, banned>>

\* The tokens the node has had until then must not work again.
RevokeCredential(r) ==
    LET n == requests[r].node IN
    /\ requests[r].pc = "revoke"
    /\ \/ /\ Revoke(n) /\ banned' = banned \cup (IF credentials[n] = None THEN {} ELSE credentials[n].tokens)
          /\ IF requests[r].kind = "force" THEN End(r) ELSE Goto(r, "clear") /\ UNCHANGED lock
       \/ UNCHANGED <<credentials, banned>> /\ End(r)
    /\ UNCHANGED <<nodes, host, loaded, journal, recovering, restarts>>

Clear(r) ==
    /\ requests[r].pc = "clear" /\ End(r)
    /\ journal' \in {journal, None}
    /\ UNCHANGED <<nodes, credentials, host, loaded, recovering, restarts, banned>>

\* A failure before the commit: the journal turns round (or cannot), the node
\* is rolled back, and if both worked the journal is cleared.
Mark(r) ==
    /\ requests[r].pc = "mark" /\ Goto(r, "undo")
    /\ journal' = journal \/ journal' = [journal EXCEPT !.direction = "rollback"]
    /\ UNCHANGED <<nodes, credentials, host, loaded, control, banned>>

Undo(r) ==
    LET n == requests[r].node IN
    /\ requests[r].pc = "undo"
    /\ \/ /\ Reaches(n, Way(r)) /\ loaded' = LoadedWith(n, requests[r].seen)
          /\ journal' = journal \/ (journal.direction = "rollback" /\ journal' = None)
       \/ UNCHANGED <<loaded, journal>>
    /\ End(r)
    /\ UNCHANGED <<nodes, credentials, host, recovering, restarts, banned>>

-----------------------------------------------------------------------------
(* The world around.                                                       *)

\* The script of a request runs on the host: its agent uses the new token.
Install(r) ==
    /\ requests[r].token # None
    /\ host' = [host EXCEPT ![requests[r].node] = requests[r].token] /\ host' # host
    /\ UNCHANGED <<nodes, credentials, loaded, journal, control, requests, banned>>

Crash ==
    /\ restarts < MaxRestarts /\ restarts' = restarts + 1
    /\ lock' = None /\ recovering' = (journal # None)
    /\ requests' = [r \in Request |-> IF requests[r] = Fresh THEN Fresh
                                      ELSE [requests[r] EXCEPT !.pc = "end"]]
    /\ UNCHANGED <<nodes, credentials, host, loaded, journal, banned>>

\* What recover() has to make true, and whether the node is needed for it.
Desired == IF journal.direction = "forward" THEN journal.after ELSE journal.before
NeedsReplay == journal.direction = "rollback" \/ nodes[journal.node] # Desired
ReplayWay == CHOOSE w \in {Desired, journal.after, journal.before} :
                 w # None /\ (Desired # None => w = Desired)

Recover ==
    /\ recovering /\ lock = None
    /\ NeedsReplay => Reaches(journal.node, ReplayWay)
    /\ loaded' = IF NeedsReplay THEN LoadedWith(journal.node, Desired) ELSE loaded
    /\ nodes' = [nodes EXCEPT ![journal.node] = Desired]
    /\ journal' = None /\ recovering' = FALSE
    /\ UNCHANGED <<credentials, host, lock, requests, restarts, banned>>

Step(r) ==
    \/ Send(r) \/ Read(r) \/ IssueToken(r) \/ Lock(r) \/ Refused(r) \/ Begin(r)
    \/ Stage(r) \/ Journal(r) \/ Apply(r) \/ Commit(r) \/ RevokeCredential(r) \/ Clear(r)
    \/ Mark(r) \/ Undo(r) \/ Install(r)

Next == Crash \/ Recover \/ \E r \in Request : Step(r)

Spec == Init /\ [][Next]_vars

-----------------------------------------------------------------------------
(***************************************************************************)
(* Properties.                                                             *)
(***************************************************************************)

\* An open change that still has to be replayed on an agent node finds the
\* node's credential in force: a removal does not lock the agent out before
\* nothing is left for it to do, whatever fails and whenever the process dies.
RecoveryCanReach ==
    journal # None /\ NeedsReplay /\ ReplayWay = "agent" => HasCredential(journal.node)

\* Once a removal has revoked a credential no token the node had until then
\* works again: not after a script for the same id, a creation that had looked
\* at the inventory before, a failed change or a restart.
RemovedStaysOut == \A n \in Node, t \in banned : ~Authenticates(n, t)

\* README.md:279: a reinstallation script leaves the agent in use connected.
ReinstallKeepsAgent ==
    [][\A r \in Request :
        requests[r].kind = "reinstall" /\ requests[r].token = None /\ requests'[r].token # None =>
            \A n \in Node : (Connected(n) => Connected(n)')
                            /\ (n = requests[r].node => Authenticates(n, r)')]_vars
=============================================================================
