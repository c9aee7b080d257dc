------------------------------- MODULE Requests -------------------------------
(***************************************************************************)
(* The requests of the controller around its one deployment lock:          *)
(* withDeploymentLock and the shutdown of src/server.ts, the previews of   *)
(* src/resource-application-service.ts and of                              *)
(* src/session-application-service.ts, whose tokens tie what is applied to *)
(* what was looked at, and what waits for the lock (the removal of a node) *)
(* or takes it by the clock (the IRR schedule).  What a change does to the *)
(* nodes and to the journal is in Deployment: here it is switched, then    *)
(* committed, undone or left to the journal.                               *)
(*                                                                         *)
(* The resource kinds differ in where they look a token up: "policy"       *)
(* (defines, functions, filters, RPKI, source policies) before the lock is *)
(* asked for, with a second look at the revision inside; "system" (Direct, *)
(* Kernel, Pipe, Static, OSPF, iBGP domains) and "session" (eBGP) inside.  *)
(***************************************************************************)
EXTENDS Integers, FiniteSets, Sequences

CONSTANTS
    Request,        \* requests to the controller, the schedule's included
    Previews, Changes, Removals, Syncs,   \* what each of them may be
    Family,         \* the token maps in use
    None,
    MaxPreviews,    \* tokens a map keeps (200, 100 for defines)
    MaxAttempts,    \* INVENTORY_COMMIT_RETRIES
    MaxTokens,      \* bound: tokens ever handed out
    MaxRevision     \* bound: inventory revision

ASSUME KindAssumption == Previews \cup Changes \cup Removals \cup Syncs \subseteq Request
ASSUME FamilyAssumption == Family \subseteq {"policy", "system", "session"}
ASSUME NoneAssumption == None \notin Request \cup Nat \cup {"policy", "system", "session"}
ASSUME BoundAssumption == {MaxPreviews, MaxAttempts, MaxTokens, MaxRevision} \subseteq Nat \ {0}

VARIABLES
    revision,       \* the inventory's revision
    journalOpen,    \* the journal is active: its change is neither in nor out
    tokens,         \* per family: the token map in insertion order
    issued,         \* the tokens ever handed out: their map and their revision
    expired,        \* the oldest tokens, whose five minutes are over
    lock,           \* who holds the deployment lock
    waiters,        \* removals waiting for it, in the order they will wake
    req,            \* per request: what it asks for and how far it is
    stopping,       \* what shutdown waits for ("no" before it begins)
    captured        \* the activeDeployment shutdown found

store == <<revision, journalOpen>>
previews == <<tokens, issued, expired>>
locking == <<lock, waiters>>
shutdown == <<stopping, captured>>
vars == <<store, previews, locking, req, shutdown>>

Phase == {"idle", "sent", "prepared", "waiting", "locked", "read", "checked",
          "switched", "storing", "done"}

\* A request that has not been sent yet, or that has ended.
At(p) == [kind |-> "none", family |-> None, token |-> None, phase |-> p,
          seen |-> None, base |-> None, tries |-> 0, here |-> FALSE]

InLock(r) == req[r].phase \in {"locked", "read", "checked", "switched"}
Held(f) == {tokens[f][i] : i \in DOMAIN tokens[f]}
Valid(f, t) == t \in Held(f) /\ t > expired

TypeOK ==
    /\ revision \in 1 .. MaxRevision
    /\ journalOpen \in BOOLEAN
    /\ issued \in Seq([family : Family, revision : 1 .. MaxRevision]) /\ Len(issued) <= MaxTokens
    /\ expired \in 0 .. Len(issued)
    /\ \A f \in Family : Held(f) \subseteq 1 .. Len(issued) /\ Len(tokens[f]) <= MaxPreviews
    /\ \A r \in Request : req[r].phase \in Phase
    /\ {waiters[i] : i \in DOMAIN waiters} = {r \in Request : req[r].phase = "waiting"}
    /\ lock \in Request \cup {None}
    /\ stopping \in {"no", "deployment", "schedule", "server", "exited"}
    /\ captured \in Request \cup {None}

Init ==
    /\ revision = 1 /\ journalOpen = FALSE
    /\ tokens = [f \in Family |-> << >>] /\ issued = << >> /\ expired = 0
    /\ lock = None /\ waiters = << >>
    /\ req = [r \in Request |-> At("idle")]
    /\ stopping = "no" /\ captured = None

-----------------------------------------------------------------------------
Move(r, p) == req' = [req EXCEPT ![r].phase = p]
End(r) == req' = [req EXCEPT ![r] = At("done")]
Release == lock' = None /\ UNCHANGED waiters

\* A request comes in: a preview, a change with or without the token of an
\* earlier preview, or the removal of a node.
Send(r) ==
    /\ stopping = "no" /\ req[r].phase = "idle"
    /\ \/ \E kind \in {"preview", "change"}, f \in Family, t \in DOMAIN issued \cup {None} :
             /\ r \in IF kind = "preview" THEN Previews ELSE Changes
             /\ t # None => kind = "change" /\ issued[t].family = f
             /\ req' = [req EXCEPT ![r] =
                   [At(IF f = "policy" THEN "sent" ELSE "prepared") EXCEPT
                       !.kind = kind, !.family = f, !.token = t, !.here = TRUE]]
       \/ /\ r \in Removals
          /\ req' = [req EXCEPT ![r] = [At("prepared") EXCEPT !.kind = "removal", !.here = TRUE]]
    /\ UNCHANGED <<store, previews, locking, shutdown>>

\* The schedule refreshes one define after the other, for no client.
StartSync(r) ==
    /\ stopping = "no" /\ req[r].phase = "idle" /\ r \in Syncs
    /\ \A o \in Request : req[o].kind # "sync"
    /\ req' = [req EXCEPT ![r] = [At("prepared") EXCEPT !.kind = "sync"]]
    /\ UNCHANGED <<store, previews, locking, shutdown>>

\* A policy request reads the inventory and its token before the lock.
Prepare(r) ==
    /\ req[r].phase = "sent"
    /\ LET t == req[r].token IN
       IF t = None \/ (Valid("policy", t) /\ issued[t].revision = revision)
       THEN req' = [req EXCEPT ![r].phase = "prepared", ![r].seen = revision]
       ELSE End(r)
    /\ UNCHANGED <<store, previews, locking, shutdown>>

\* withDeploymentLock.  The removals woken by the end of an operation run
\* before any request that comes in later (they are microtasks).
Enter(r) ==
    /\ req[r].phase = "prepared"
    /\ lock = None => waiters = << >>
    /\ \/ /\ stopping # "no"
          /\ End(r) /\ UNCHANGED locking
       \/ /\ stopping = "no" /\ lock = None
          /\ Move(r, "locked") /\ lock' = r /\ UNCHANGED waiters
       \/ /\ stopping = "no" /\ lock # None /\ req[r].kind = "removal"
          /\ Move(r, "waiting") /\ waiters' = Append(waiters, r) /\ UNCHANGED lock
       \/ /\ stopping = "no" /\ lock # None /\ req[r].kind # "removal"
          /\ End(r) /\ UNCHANGED locking
    /\ UNCHANGED <<store, previews, shutdown>>

\* Mutant: only one of the waiting removals is ever woken.
WakeOne(r) ==
    /\ lock = None /\ waiters # << >> /\ r = Head(waiters)
    /\ lock' = r /\ waiters' = << >> /\ Move(r, "locked")
    /\ UNCHANGED <<store, previews, shutdown>>

\* Every removal wakes at the end of an operation; the first takes the lock,
\* the others find it taken and wait on.  None looks at shuttingDown again.
Wake(r) ==
    /\ lock = None /\ waiters # << >> /\ r = Head(waiters)
    /\ lock' = r /\ waiters' = Tail(waiters) /\ Move(r, "locked")
    /\ UNCHANGED <<store, previews, shutdown>>

\* Mutant: the refusal leaves without its finally block.
BeginWithoutFinally(r) ==
    /\ req[r].phase = "locked"
    /\ IF journalOpen
       THEN End(r) /\ UNCHANGED locking
       ELSE req' = [req EXCEPT ![r].phase = "read", ![r].base = revision] /\ UNCHANGED locking
    /\ UNCHANGED <<store, previews, shutdown>>

\* Inside the lock: no journal may be open, then the inventory is read.
Begin(r) ==
    /\ req[r].phase = "locked"
    /\ IF journalOpen
       THEN End(r) /\ Release
       ELSE req' = [req EXCEPT ![r].phase = "read", ![r].base = revision] /\ UNCHANGED locking
    /\ UNCHANGED <<store, previews, shutdown>>

\* Mutant: a policy request is not compared with the inventory again.
CurrentOnce(r) ==
    LET q == req[r] IN
    CASE q.family = "system" -> q.token # None => Valid("system", q.token) /\ issued[q.token].revision = revision
      [] q.family = "session" -> q.token # None => Valid("session", q.token) /\ issued[q.token].revision = q.base
      [] OTHER -> TRUE

\* What a request was prepared or previewed on must still be the inventory.
Current(r) ==
    LET q == req[r] IN
    CASE q.family = "policy" -> q.seen = revision
      [] q.family = "system" -> q.token # None => Valid("system", q.token) /\ issued[q.token].revision = revision
      [] q.family = "session" -> q.token # None => Valid("session", q.token) /\ issued[q.token].revision = q.base
      [] OTHER -> TRUE

Check(r) ==
    /\ req[r].phase = "read"
    /\ \/ Current(r) /\ Move(r, "checked") /\ UNCHANGED locking
       \/ ~Current(r) /\ End(r) /\ Release
    /\ UNCHANGED <<store, previews, shutdown>>

\* The candidate does not validate, or a node refuses it.
Refuse(r) ==
    /\ req[r].phase = "checked" /\ req[r].kind # "preview"
    /\ End(r) /\ Release
    /\ UNCHANGED <<store, previews, shutdown>>

\* A map drops what has expired, then its oldest token if it is full, and
\* keeps the new one if the candidate was valid.
Stored(f, valid, rev) ==
    LET fresh == SelectSeq(tokens[f], LAMBDA t : t > expired)
        room  == IF Len(fresh) >= MaxPreviews THEN Tail(fresh) ELSE fresh
    IN  /\ tokens' = [tokens EXCEPT ![f] = IF valid THEN Append(room, Len(issued) + 1) ELSE room]
        /\ issued' = IF valid THEN Append(issued, [family |-> f, revision |-> rev]) ELSE issued
        /\ UNCHANGED expired

\* A preview has its answers.  That of a session reads the inventory again
\* and keeps its token only after the lock is gone.
EndPreview(r) ==
    /\ req[r].kind = "preview" /\ req[r].phase = "checked"
    /\ Release
    /\ \/ /\ req[r].family = "session"
          /\ IF req[r].base = revision THEN Move(r, "storing") ELSE End(r)
          /\ UNCHANGED previews
       \/ /\ req[r].family # "session"
          /\ \E valid \in BOOLEAN :
                /\ valid => Len(issued) < MaxTokens
                /\ Stored(req[r].family, valid, IF req[r].family = "policy" THEN req[r].seen ELSE req[r].base)
          /\ End(r)
    /\ UNCHANGED <<store, shutdown>>

StorePreview(r) ==
    /\ req[r].phase = "storing"
    /\ \E valid \in BOOLEAN :
          /\ valid => Len(issued) < MaxTokens
          /\ Stored("session", valid, req[r].base)
    /\ End(r)
    /\ UNCHANGED <<store, locking, shutdown>>

\* The journal is written and the nodes are switched.
Switch(r) ==
    /\ req[r].kind # "preview" /\ req[r].phase = "checked"
    /\ Move(r, "switched")
    /\ UNCHANGED <<store, previews, locking, shutdown>>

Commit(r) ==
    /\ req[r].phase = "switched"
    /\ req[r].base = revision /\ revision < MaxRevision
    /\ revision' = revision + 1
    /\ End(r) /\ Release
    /\ UNCHANGED <<journalOpen, previews, shutdown>>

\* The inventory moved on: a change that goes through mutateAndApply is
\* undone and tried again on the new inventory.
Retry(r) ==
    /\ req[r].phase = "switched" /\ req[r].base # revision
    /\ req[r].kind # "removal" /\ req[r].family # "session"
    /\ req[r].tries + 1 < MaxAttempts
    /\ req' = [req EXCEPT ![r].phase = "read", ![r].base = revision, ![r].tries = @ + 1]
    /\ UNCHANGED <<store, previews, locking, shutdown>>

\* A node, or the commit, fails and everything is undone.
Undo(r) ==
    /\ req[r].phase = "switched"
    /\ End(r) /\ Release
    /\ UNCHANGED <<store, previews, shutdown>>

\* Shutdown has closed the HTTP server: the agents get no task and deliver no
\* result any more, so neither the change nor its rollback can be finished.
LoseAgents(r) ==
    /\ req[r].phase = "switched" /\ stopping # "no"
    /\ journalOpen' = TRUE
    /\ End(r) /\ Release
    /\ UNCHANGED <<revision, previews, shutdown>>

-----------------------------------------------------------------------------
\* Only the closing server looks at the connections, so that is when a client
\* that has hung up in the meantime makes a difference.
HangUp(r) ==
    /\ stopping = "server" /\ req[r].here
    /\ req' = [req EXCEPT ![r].here = FALSE]
    /\ UNCHANGED <<store, previews, locking, shutdown>>

\* Tokens all live for five minutes: the oldest expire first.
Expire ==
    /\ expired < Len(issued) /\ expired' = expired + 1
    /\ UNCHANGED <<store, tokens, issued, locking, req, shutdown>>

\* The layout of an iBGP domain is saved without the lock.
EditLayout ==
    /\ revision < MaxRevision /\ revision' = revision + 1
    /\ UNCHANGED <<journalOpen, previews, locking, req, shutdown>>

\* SIGTERM: no new request, and the operation in the lock is remembered.
Stop ==
    /\ stopping = "no"
    /\ stopping' = "deployment" /\ captured' = lock
    /\ UNCHANGED <<store, previews, locking, req>>

\* Mutant: shutdown does not wait for the running operation.
AwaitNothing ==
    /\ stopping = "deployment" /\ stopping' = "schedule"
    /\ UNCHANGED <<store, previews, locking, req, captured>>

AwaitDeployment ==
    /\ stopping = "deployment"
    /\ captured # None => ~InLock(captured)
    /\ stopping' = "schedule"
    /\ UNCHANGED <<store, previews, locking, req, captured>>

AwaitSchedule ==
    /\ stopping = "schedule"
    /\ \A r \in Request : req[r].kind # "sync"
    /\ stopping' = "server"
    /\ UNCHANGED <<store, previews, locking, req, captured>>

\* app.close ends with the last connection that still waits for an answer.
Exit ==
    /\ stopping = "server"
    /\ \A r \in Request : ~req[r].here
    /\ stopping' = "exited"
    /\ UNCHANGED <<store, previews, locking, req, captured>>

Step(r) ==
    \/ Prepare(r) \/ Enter(r) \/ Wake(r) \/ Begin(r) \/ Check(r) \/ Refuse(r)
    \/ EndPreview(r) \/ StorePreview(r)
    \/ Switch(r) \/ Commit(r) \/ Retry(r) \/ Undo(r) \/ LoseAgents(r)

Closing == AwaitDeployment \/ AwaitSchedule \/ Exit

\* Nothing happens in a process that has exited.
Next ==
    /\ stopping # "exited"
    /\ \/ \E r \in Request : Send(r) \/ StartSync(r) \/ Step(r) \/ HangUp(r)
       \/ Expire \/ EditLayout \/ Stop \/ Closing

Spec == Init /\ [][Next]_vars

\* Every wait inside an operation has a time-out (RPC, SSH, MySQL), promise
\* reactions run, and shutdown itself only waits.
Fairness ==
    /\ \A r \in Request : WF_vars(stopping # "exited" /\ Step(r))
    /\ WF_vars(Closing)

FairSpec == Spec /\ Fairness

-----------------------------------------------------------------------------
(***************************************************************************)
(* Properties.                                                             *)
(***************************************************************************)

\* The inventory a request was shown: that of its token, or the one the
\* policy request was prepared on.
Basis(r) == IF req[r].token # None THEN issued[req[r].token].revision ELSE req[r].seen

\* What is committed is what was looked at: a change with a preview token, or
\* prepared before the lock, only ever lands on the very revision that its
\* preview or preparation read, whatever other requests, layout edits,
\* retries, expiry and eviction did in between.
AppliedAsPreviewed ==
    [][\A r \in Request :
          Commit(r) /\ Basis(r) # None => revision = Basis(r)]_vars

\* The process exits under no operation that ran when shutdown began, nor
\* under the schedule, nor under one whose client is still there: only a
\* removal woken after that, whose client hung up, can be cut off.
ExitSparesActive ==
    stopping = "exited" =>
        \A r \in Request : InLock(r) =>
            r # captured /\ req[r].kind = "removal" /\ ~req[r].here

\* No removal waits for the lock for ever, however many wait with it and
\* whatever comes in meanwhile: it leaves the wait with the lock.
RemovalGetsLock ==
    (\E r \in Request : req[r].phase = "waiting") ~>
        (stopping = "exited" \/ \A r \in Request : req[r].phase # "waiting")

\* A shutdown that has begun ends, whatever is running or waiting.
ShutdownEnds == stopping # "no" ~> stopping = "exited"

\* docs/development.md:43: the process must not exit while a change is applied
\* to the nodes and not committed.  (Refuted.)
NothingInterrupted ==
    stopping = "exited" => ~journalOpen /\ \A r \in Request : req[r].phase # "switched"
=============================================================================
