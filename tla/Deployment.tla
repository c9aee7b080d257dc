----------------------------- MODULE Deployment -----------------------------
(***************************************************************************)
(* The remote-change transaction of the birdbox controller                 *)
(* (src/deployment-service.ts, with the lock of src/server.ts, the store   *)
(* of src/store.ts and the recovery loop of src/deployment-recovery.ts).   *)
(*                                                                         *)
(* One controller process changes a set of managed nodes and the inventory *)
(* together: it stages a candidate on each node, writes a durable journal, *)
(* applies the candidates one node at a time, commits the inventory with a *)
(* compare-and-swap on its revision and clears the journal.  Any step may  *)
(* fail, any reply may be lost and the process may die between any two     *)
(* steps; a new process finishes what the journal says.                    *)
(***************************************************************************)
EXTENDS Integers, FiniteSets, Sequences

CONSTANTS
    Node,         \* managed nodes
    Config,       \* contents of a node's generated configuration
    Layout,       \* the part of the inventory no node configuration depends on
    None,         \* "no journal", "no such file"
    MaxAttempts,  \* INVENTORY_COMMIT_RETRIES
    MaxRevision,  \* bound: no write starts from a store at this revision
    MaxRestarts,  \* bound: number of controller restarts
    Faults        \* which of FaultKinds the environment exhibits

(* "apply_refused": an apply never starts, or fails before the node saved   *)
(* its rollback copy.                                                       *)
(* "commit_reply_lost": the inventory CAS takes effect, its reply is lost.  *)
(* "confirm_missed": the read that looks for a CAS after its error fails    *)
(* too, or a layout save replaces the committed value before it.            *)
(* "journal_write": a journal write fails, or its reply is lost.            *)
(* "layout_edit": the layout of an iBGP domain is saved at any time.        *)
FaultKinds == {"apply_refused", "commit_reply_lost", "confirm_missed",
               "journal_write", "layout_edit"}

\* validateInventory admits exactly these: what each node runs, and the rest.
Inventory == [conf : [Node -> Config], layout : Layout]

\* uniqueNodeIds: the nodes of a change, in deployment order, none twice.
TargetList ==
    {t \in UNION {[1 .. k -> Node] : k \in 0 .. Cardinality(Node)} :
        \A i, j \in DOMAIN t : t[i] = t[j] => i = j}

Targets(t) == {t[i] : i \in DOMAIN t}

Journal == [direction : {"forward", "rollback"},
            before : Inventory, after : Inventory, targets : TargetList]

ChangePhase ==
    {"stage", "begin", "apply", "commit", "confirm", "clear",
     "mark", "rollback", "settle"}

RecoveryPhase == {"restage", "reapply", "recommit", "reconfirm", "reclear"}

Operation == [phase : ChangePhase \cup RecoveryPhase,
              before : Inventory,    \* the inventory the operation read ...
              revision : Nat,        \* ... and its revision
              after : Inventory,     \* the inventory it wants to commit
              targets : TargetList,
              at : Nat,              \* position in targets
              conflict : BOOLEAN,    \* the failure was a STATE_CONFLICT
              marked : BOOLEAN,      \* journalMarkedForRollback
              clean : BOOLEAN,       \* rollbackSucceeded
              tries : Nat]           \* attempts left, this one included

NoOp == [phase |-> "idle"]

ASSUME NodeAssumption == IsFiniteSet(Node)
ASSUME NoneAssumption ==
    /\ None \notin Journal
    /\ None \notin Config
    /\ None \notin [from : [Node -> Config], to : [Node -> Config]]
ASSUME BoundAssumption ==
    /\ MaxAttempts \in Nat \ {0}
    /\ MaxRevision \in Nat
    /\ MaxRestarts \in Nat
ASSUME FaultAssumption == Faults \subseteq FaultKinds

VARIABLES
    inventory, revision,  \* durable: birdbox_state "inventory"
    journal,              \* durable: birdbox_state "deployment_journal"
    running,              \* per node: the active generated configuration
    staged,               \* per node: the .candidate
    saved,                \* per node: the .rollback
    op,                   \* in memory: the operation that holds the lock
    recovery,             \* in memory: recoveryState
    restarts,             \* number of restarts so far
    told                  \* what the last change reported to its requester

store == <<inventory, revision>>
nodes == <<running, staged, saved>>
vars == <<inventory, revision, journal, running, staged, saved,
          op, recovery, restarts, told>>

-----------------------------------------------------------------------------

TypeOK ==
    /\ inventory \in Inventory
    /\ revision \in Nat
    /\ journal \in Journal \cup {None}
    /\ running \in [Node -> Config]
    /\ staged \in [Node -> Config \cup {None}]
    /\ saved \in [Node -> Config \cup {None}]
    /\ op \in Operation \cup {NoOp}
    /\ recovery \in {"idle", "pending", "failed"}
    /\ restarts \in Nat
    /\ told \in {"none", "applied", "failed"}

Init ==
    /\ inventory \in Inventory
    /\ revision = 1
    /\ journal = None
    /\ running = inventory.conf
    /\ staged = [n \in Node |-> None]
    /\ saved = [n \in Node |-> None]
    /\ op = NoOp
    /\ recovery = "idle"
    /\ restarts = 0
    /\ told = "none"

-----------------------------------------------------------------------------
(* Helpers.                                                                *)

\* withDeploymentLock for everything but the recovery itself.
LockFree == op = NoOp /\ recovery = "idle" /\ journal = None

Current == op.targets[op.at]

Go(phase, at) == op' = [op EXCEPT !.phase = phase, !.at = at]

\* The operation throws (or returns) and releases the lock.
Finish(outcome) == op' = NoOp /\ told' = outcome

\* The catch block of a change that is not committed.  Only a change with
\* targets has written a journal; the first `attempted` nodes are undone.
Abort(attempted, conflict) ==
    op' = [op EXCEPT !.phase = IF op.targets = << >> THEN "settle" ELSE "mark",
                     !.at = attempted, !.conflict = conflict]

\* A recovery attempt that throws; the runner sleeps and tries again.
RecoverThrow == op' = NoOp /\ recovery' = "failed"

\* The three ways a write of the journal can end for its caller.
JournalWrite(value, OnDone, OnError) ==
    \/ journal' = value /\ OnDone
    \/ "journal_write" \in Faults /\ journal' = journal /\ OnError
    \/ "journal_write" \in Faults /\ journal' = value /\ OnError

Entry == [direction |-> "forward", before |-> op.before, after |-> op.after,
          targets |-> op.targets]

\* bird.stage on node n: the candidate is replaced.  A preflight that fails
\* may have failed before or after that.
StageOk(n) == staged' = [staged EXCEPT ![n] = op.after.conf[n]]
StageFails(n) == UNCHANGED staged \/ StageOk(n)

\* bird.apply on node n promotes whatever candidate the node holds and keeps
\* the configuration it replaces.
ApplyTakesEffect(n) ==
    /\ staged[n] # None
    /\ running' = [running EXCEPT ![n] = staged[n]]
    /\ saved' = [saved EXCEPT ![n] = running[n]]
    /\ staged' = [staged EXCEPT ![n] = None]

\* BIRD rejects the candidate: the node restores what it ran before.
ApplyRestored(n) ==
    /\ staged[n] # None
    /\ saved' = [saved EXCEPT ![n] = running[n]]
    /\ staged' = [staged EXCEPT ![n] = None]
    /\ UNCHANGED running

\* An early return of bird.apply: nothing has changed yet, or the old .rollback
\* is removed and the new one could not be written.
ApplyRefused(n) ==
    /\ saved' \in {saved, [saved EXCEPT ![n] = None]}
    /\ UNCHANGED <<running, staged>>

\* Variant: without the test for a missing .rollback.
RollbackUnchecked(n) ==
    /\ running' = [running EXCEPT ![n] = saved[n]]
    /\ UNCHANGED <<staged, saved>>

\* bird.rollback on node n switches to the saved configuration.
RollbackTakesEffect(n) ==
    /\ saved[n] # None
    /\ running' = [running EXCEPT ![n] = saved[n]]
    /\ UNCHANGED <<staged, saved>>

-----------------------------------------------------------------------------
(* A change (mutateAndApply; the session and onboarding services follow    *)
(* the same steps with a single attempt).                                  *)

\* The mutator's result on the current inventory: new configurations for the
\* targets, everything else as read.
Draft(targets, conf) ==
    [inventory EXCEPT !.conf =
        [n \in Node |-> IF n \in Targets(targets) THEN conf[n] ELSE @[n]]]

Attempt(targets, conf, tries) ==
    op' = [phase |-> IF targets = << >> THEN "commit" ELSE "stage",
           before |-> inventory, revision |-> revision,
           after |-> Draft(targets, conf), targets |-> targets, at |-> 1,
           conflict |-> FALSE, marked |-> FALSE, clean |-> TRUE,
           tries |-> tries]

BeginChange(targets, conf, tries) ==
    /\ LockFree
    /\ revision < MaxRevision
    /\ Attempt(targets, conf, tries)
    /\ told' = "none"
    /\ UNCHANGED <<store, journal, nodes, recovery, restarts>>

\* Stage and validate the next node; after the last one the journal is due.
Stage ==
    /\ op.phase = "stage"
    /\ \/ /\ StageOk(Current)
          /\ IF op.at < Len(op.targets) THEN Go("stage", op.at + 1)
                                        ELSE Go("begin", 1)
          /\ UNCHANGED told
       \/ /\ StageFails(Current)
          /\ Finish("failed")
    /\ UNCHANGED <<store, journal, running, saved, recovery, restarts>>

\* beginJournal (its "unfinished recovery" error cannot occur: the lock was
\* taken without a journal, see OwnJournal).  If it throws, nothing has been
\* applied and the caller has no journal to clear, whether or not the entry
\* became durable.
BeginJournal ==
    /\ op.phase = "begin"
    /\ journal = None
    /\ JournalWrite(Entry, Go("apply", 1) /\ UNCHANGED told, Finish("failed"))
    /\ UNCHANGED <<store, nodes, recovery, restarts>>

\* Apply the next node.  The reply may say "failed" although the node switched
\* (a timeout, or the system rules that follow the apply).
Apply ==
    /\ op.phase = "apply"
    /\ \/ /\ ApplyTakesEffect(Current)
          /\ \/ IF op.at < Len(op.targets) THEN Go("apply", op.at + 1)
                                           ELSE Go("commit", 1)
             \/ Abort(op.at, FALSE)
       \/ /\ ApplyRestored(Current)
          /\ Abort(op.at, FALSE)
       \/ /\ "apply_refused" \in Faults
          /\ ApplyRefused(Current)
          /\ Abort(op.at, FALSE)
    /\ UNCHANGED <<store, journal, recovery, restarts, told>>

Committed == IF op.targets = << >> THEN Finish("applied")
                                   ELSE Go("clear", 1) /\ UNCHANGED told

\* Variant: an UPDATE without the revision in its WHERE clause.
SwapUnconditionally ==
    /\ inventory' = op.after
    /\ revision' = revision + 1

\* replaceState: one UPDATE guarded by the revision the operation read.
CompareAndSwap ==
    /\ revision = op.revision
    /\ inventory' = op.after
    /\ revision' = revision + 1

\* store.replace; any error is followed by a read that looks for the value.
Commit ==
    /\ op.phase = "commit"
    /\ \/ CompareAndSwap /\ Committed
       \/ /\ "commit_reply_lost" \in Faults
          /\ CompareAndSwap
          /\ op' = [op EXCEPT !.phase = "confirm"]
          /\ UNCHANGED told
       \/ /\ \E conflict \in {FALSE, revision # op.revision} :
                op' = [op EXCEPT !.phase = "confirm", !.conflict = conflict]
          /\ UNCHANGED <<store, told>>
    /\ UNCHANGED <<journal, nodes, recovery, restarts>>

\* Variant: the error of the CAS is taken at its word.
ConfirmUnread ==
    /\ op.phase = "confirm"
    /\ Abort(Len(op.targets), op.conflict)
    /\ UNCHANGED <<store, journal, nodes, recovery, restarts, told>>

\* The read after the error: the change is committed if the value is there.
Confirm ==
    /\ op.phase = "confirm"
    /\ \/ inventory = op.after /\ Committed
       \/ /\ inventory # op.after \/ "confirm_missed" \in Faults
          /\ Abort(Len(op.targets), op.conflict)
          /\ UNCHANGED told
    /\ UNCHANGED <<store, journal, nodes, recovery, restarts>>

\* clearJournal after the commit; its error reaches the requester, but the
\* change stays committed.
Clear ==
    /\ op.phase = "clear"
    /\ journal # None
    /\ JournalWrite(None, Finish("applied"), Finish("applied"))
    /\ UNCHANGED <<store, nodes, recovery, restarts>>

\* Variant: the rollback is not recorded before it starts.
RollbackUnrecorded ==
    /\ op.phase = "mark"
    /\ op' = [op EXCEPT !.phase = "rollback", !.marked = TRUE]
    /\ UNCHANGED <<store, journal, nodes, recovery, restarts, told>>

\* setJournalDirection; its failure is only logged.
MarkRollback ==
    /\ op.phase = "mark"
    /\ journal # None
    /\ JournalWrite([journal EXCEPT !.direction = "rollback"],
                    op' = [op EXCEPT !.phase = "rollback", !.marked = TRUE],
                    op' = [op EXCEPT !.phase = "rollback"])
    /\ UNCHANGED <<store, nodes, recovery, restarts, told>>

\* The rollback of a node is over; go on with the one before it.
NodeDone(ok) ==
    op' = [op EXCEPT !.phase = IF op.at = 1 THEN "settle" ELSE "rollback",
                     !.at = op.at - 1, !.clean = op.clean /\ ok]

\* Variant: a rollback that fails is tried again until it succeeds.
RollbackInsists ==
    /\ op.phase = "rollback"
    /\ \/ RollbackTakesEffect(Current) /\ NodeDone(TRUE)
       \/ UNCHANGED <<nodes, op>>
    /\ UNCHANGED <<store, journal, recovery, restarts, told>>

\* Undo the attempted nodes, last one first; a failure does not stop the loop.
Rollback ==
    /\ op.phase = "rollback"
    /\ \E ok \in BOOLEAN :
        /\ \/ RollbackTakesEffect(Current)
           \/ ~ok /\ UNCHANGED nodes
        /\ NodeDone(ok)
    /\ UNCHANGED <<store, journal, recovery, restarts, told>>

\* The end of the catch block: throw, or after a revision conflict that left
\* nothing behind read the inventory again and start over.
RetryOrThrow ==
    IF op.conflict /\ op.tries > 1
    THEN Attempt(op.targets, op.after.conf, op.tries - 1) /\ UNCHANGED told
    ELSE Finish("failed")

\* Variant: the journal is cleared whatever the rollbacks returned.
SettleUnclean ==
    /\ op.phase = "settle"
    /\ IF op.targets = << >>
       THEN RetryOrThrow /\ UNCHANGED journal
       ELSE journal # None /\ JournalWrite(None, RetryOrThrow, Finish("failed"))
    /\ UNCHANGED <<store, nodes, recovery, restarts>>

\* Variant: the retry does not wait for the journal to be cleared.
SettleUncleared ==
    /\ op.phase = "settle"
    /\ IF op.marked /\ op.clean /\ op.targets # << >>
       THEN journal # None /\ JournalWrite(None, RetryOrThrow, RetryOrThrow)
       ELSE RetryOrThrow /\ UNCHANGED journal
    /\ UNCHANGED <<store, nodes, recovery, restarts>>

Settle ==
    /\ op.phase = "settle"
    /\ IF op.targets = << >>
       THEN RetryOrThrow /\ UNCHANGED journal
       ELSE IF op.marked /\ op.clean
            THEN journal # None /\ JournalWrite(None, RetryOrThrow, Finish("failed"))
            ELSE Finish("failed") /\ UNCHANGED journal
    /\ UNCHANGED <<store, nodes, recovery, restarts>>

-----------------------------------------------------------------------------
(* Recovery of a journal left behind by an earlier process.                *)

Desired == IF journal.direction = "forward" THEN journal.after ELSE journal.before
Opposite == IF journal.direction = "forward" THEN journal.before ELSE journal.after

RecoveryOp(phase) ==
    [phase |-> phase, before |-> inventory, revision |-> revision,
     after |-> Desired, targets |-> journal.targets, at |-> 1,
     conflict |-> FALSE, marked |-> FALSE, clean |-> TRUE, tries |-> 1]

\* Variant: an inventory that is already the desired one needs no replay.
ReplayOnlyMissing == inventory # Desired

\* A rollback is always replayed; a change that is already committed is not.
ReplayNeeded == journal.direction = "rollback" \/ inventory # Desired

ResumePhase == IF ReplayNeeded THEN "restage" ELSE "reclear"

\* Variant: only an inventory that already is the desired one is accepted.
StartRecoveryStrictly ==
    /\ op = NoOp
    /\ recovery # "idle"
    /\ IF journal = None
       THEN recovery' = "idle" /\ UNCHANGED op
       ELSE \/ RecoverThrow
            \/ /\ inventory = Desired
               /\ op' = RecoveryOp(ResumePhase)
               /\ UNCHANGED recovery
    /\ UNCHANGED <<store, journal, nodes, restarts, told>>

\* recover reads the journal and the inventory, and refuses an inventory that
\* is neither the one before nor the one after the change.  Anything it does
\* before it reaches the nodes may throw as well, and so may the system rules
\* of a committed change.
StartRecovery ==
    /\ op = NoOp
    /\ recovery # "idle"
    /\ IF journal = None
       THEN recovery' = "idle" /\ UNCHANGED op
       ELSE \/ RecoverThrow
            \/ /\ inventory \in {Desired, Opposite}
               /\ op' = RecoveryOp(ResumePhase)
               /\ UNCHANGED recovery
    /\ UNCHANGED <<store, journal, nodes, restarts, told>>

Restage ==
    /\ op.phase = "restage"
    /\ \/ /\ StageOk(Current)
          /\ IF op.at < Len(op.targets) THEN Go("restage", op.at + 1)
                                        ELSE Go("reapply", 1)
          /\ UNCHANGED recovery
       \/ StageFails(Current) /\ RecoverThrow
    /\ UNCHANGED <<store, journal, running, saved, restarts, told>>

\* The last node's step includes recoverSourcePolicyRules on every node, which
\* may fail as the apply itself may.
Reapply ==
    /\ op.phase = "reapply"
    /\ \/ /\ ApplyTakesEffect(Current)
          /\ \/ /\ IF op.at < Len(op.targets) THEN Go("reapply", op.at + 1)
                   ELSE IF op.before = op.after THEN Go("reclear", 1)
                   ELSE Go("recommit", 1)
                /\ UNCHANGED recovery
             \/ RecoverThrow
       \/ ApplyRestored(Current) /\ RecoverThrow
       \/ UNCHANGED nodes /\ RecoverThrow
    /\ UNCHANGED <<store, journal, restarts, told>>

Recommit ==
    /\ op.phase = "recommit"
    /\ \/ CompareAndSwap /\ Go("reclear", 1)
       \/ /\ "commit_reply_lost" \in Faults
          /\ CompareAndSwap
          /\ Go("reconfirm", 1)
       \/ Go("reconfirm", 1) /\ UNCHANGED store
    /\ UNCHANGED <<journal, nodes, recovery, restarts, told>>

\* The same read in a recovery; one that is missed costs another attempt.
Reconfirm ==
    /\ op.phase = "reconfirm"
    /\ \/ inventory = op.after /\ Go("reclear", 1) /\ UNCHANGED recovery
       \/ RecoverThrow
    /\ UNCHANGED <<store, journal, nodes, restarts, told>>

Reclear ==
    /\ op.phase = "reclear"
    /\ journal # None
    /\ JournalWrite(None, op' = NoOp /\ recovery' = "idle", RecoverThrow)
    /\ UNCHANGED <<store, nodes, restarts, told>>

-----------------------------------------------------------------------------
(* The rest of the world.                                                  *)

\* Variant: previews do not take the deployment lock.
PreviewUnlocked(n, config) ==
    /\ staged' = [staged EXCEPT ![n] = config]
    /\ UNCHANGED <<store, journal, running, saved, op, recovery, restarts, told>>

\* A preview stages a candidate under the lock and changes nothing else.
Preview(n, config) ==
    /\ LockFree
    /\ staged' = [staged EXCEPT ![n] = config]
    /\ UNCHANGED <<store, journal, running, saved, op, recovery, restarts, told>>

\* updateIbgpDomainLayout writes the inventory outside the deployment lock,
\* between a CAS and the read that looks for it only as "confirm_missed".
EditLayout(layout) ==
    /\ "layout_edit" \in Faults
    /\ op.phase = "confirm" /\ inventory = op.after => "confirm_missed" \in Faults
    /\ revision < MaxRevision
    /\ inventory' = [inventory EXCEPT !.layout = layout]
    /\ revision' = revision + 1
    /\ UNCHANGED <<journal, nodes, op, recovery, restarts, told>>

\* The process dies, at any point, and a new one starts.
Restart ==
    /\ restarts < MaxRestarts
    /\ restarts' = restarts + 1
    /\ op' = NoOp
    /\ recovery' = IF journal = None THEN "idle" ELSE "pending"
    /\ UNCHANGED <<store, journal, nodes, told>>

Change == \/ Stage \/ BeginJournal \/ Apply \/ Commit \/ Confirm \/ Clear
          \/ MarkRollback \/ Rollback \/ Settle

Recovery == \/ StartRecovery \/ Restage \/ Reapply
            \/ Recommit \/ Reconfirm \/ Reclear

Next ==
    \/ \E targets \in TargetList, conf \in [Node -> Config],
          tries \in {1, MaxAttempts} : BeginChange(targets, conf, tries)
    \/ Change
    \/ Recovery
    \/ \E n \in Node, config \in Config : Preview(n, config)
    \/ \E layout \in Layout : EditLayout(layout)
    \/ Restart

Spec == Init /\ [][Next]_vars

-----------------------------------------------------------------------------
(* Fairness: the process keeps taking steps (every await in the operations *)
(* ends: remote calls, database calls and back-off all have a timeout).    *)
(* A step that can succeed again and again succeeds at last; this is       *)
(* assumed of the recovery only, whose runner retries for ever.            *)

StartOk == StartRecovery /\ (op' # NoOp \/ recovery' = "idle")
RestageOk(i) == op.phase = "restage" /\ op.at = i /\ Restage /\ op' # NoOp
ReapplyOk(i) == op.phase = "reapply" /\ op.at = i /\ Reapply /\ op' # NoOp
RecommitOk == op.phase = "recommit" /\ Recommit /\ op'.phase = "reclear"
ReclearOk == op.phase = "reclear" /\ Reclear /\ recovery' = "idle"

FairChange == Spec /\ WF_vars(Change)

FairSpec ==
    /\ FairChange
    /\ WF_vars(Recovery)
    /\ \A i \in 1 .. Cardinality(Node) :
        SF_vars(RestageOk(i)) /\ SF_vars(ReapplyOk(i))
    /\ SF_vars(StartOk) /\ SF_vars(RecommitOk) /\ SF_vars(ReclearOk)

-----------------------------------------------------------------------------
(* Safety.                                                                 *)

\* A node whose configuration is not the one the inventory gives it is always
\* covered by the durable journal: it is one of the journal's targets and runs
\* what it ran before the change or what the change gives it.  With no journal
\* (nothing to recover) every node agrees with the inventory.  This is what
\* beginJournal before the first apply, and clearJournal only after a commit
\* or a complete rollback, are for.
WriteAhead ==
    \A n \in Node : running[n] # inventory.conf[n] =>
        /\ journal # None
        /\ n \in Targets(journal.targets)
        /\ running[n] \in {journal.before.conf[n], journal.after.conf[n]}

\* From beginJournal to clearJournal the durable journal is the one of the
\* operation in memory, so the "replaced by another" error of clearJournal and
\* setJournalDirection cannot occur, and a rollback never runs under a journal
\* that a restart would read as another change.
OwnJournal ==
    op # NoOp /\ op.targets # << >> =>
        CASE op.phase \in {"stage", "begin"} -> journal = None
          [] op.phase \in ChangePhase \ {"stage", "begin"} ->
                /\ journal # None
                /\ journal.targets = op.targets
                /\ journal.before.conf = op.before.conf
                /\ journal.after = op.after
                /\ op.marked => journal.direction = "rollback"
          [] OTHER -> journal # None /\ op.after = Desired

\* What is applied is what this very operation staged and validated: no preview
\* and no other operation can slip another candidate under an apply that is
\* still to come (the apply promotes the node's .candidate, not its argument).
OwnCandidate ==
    op # NoOp /\ op.phase \in {"begin", "apply", "reapply"} =>
        \A i \in op.at .. Len(op.targets) :
            staged[op.targets[i]] = op.after.conf[op.targets[i]]

\* A saved layout is never undone by a deployment or by a recovery: both commit
\* a whole inventory, and must not commit one they read before the save.
LayoutIsKept ==
    [][inventory'.layout # inventory.layout =>
            revision' = revision + 1 /\ UNCHANGED <<op, journal>>]_vars

\* After a change was reported as failed its configuration is not committed
\* behind the requester's back: the only later change of the inventory's
\* configurations is the recovery of a recorded rollback, which takes back a
\* commit whose reply and confirmation were lost.
FailedChangeStaysFailed ==
    [][told = "failed" /\ inventory'.conf # inventory.conf =>
        /\ journal # None
        /\ journal.direction = "rollback"
        /\ inventory'.conf = journal.before.conf]_vars

\* A configuration the inventory committed is not rolled back on the nodes,
\* not even when the reply of the CAS is lost: the read that follows finds the
\* value.  Only a read that is missed too ("confirm_missed") undoes a commit.
CommittedIsNotRolledBack ==
    op # NoOp /\ op.phase = "rollback" => inventory.conf = op.before.conf

\* The transaction implements an atomic change of inventory and nodes.
Abstract == INSTANCE AtomicChange WITH
    committed <- inventory.conf,
    change <- IF journal = None THEN None
              ELSE [from |-> journal.before.conf, to |-> journal.after.conf]

ChangesAreAtomic == Abstract!Spec

-----------------------------------------------------------------------------
(* Liveness.                                                               *)

\* Every change ends and gives the lock back, whatever fails.
ChangeEnds == (op.phase \in ChangePhase) ~> (op = NoOp)

\* A restarted controller completes what its journal says and accepts changes
\* again - unless a layout save took the inventory away from both sides of the
\* journal: recovery never touches such an inventory.
RecoveryCompletesOrRefuses ==
    (recovery # "idle") ~>
        \/ recovery = "idle"
        \/ journal # None /\ inventory \notin {Desired, Opposite}

=============================================================================
