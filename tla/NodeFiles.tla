------------------------------- MODULE NodeFiles -------------------------------
(***************************************************************************)
(* The files of one node in include mode, as the agent (agent/bird.go) or  *)
(* the SSH scripts (src/bird-runtime.ts) work on them.  BIRD includes the  *)
(* link "generated", which names one version of the main text; that text   *)
(* includes the links of some resources (the prefix lists of defines).     *)
(* Beside each link stand a .candidate, written by a stage, and a          *)
(* .rollback, written by an apply.  A call works link by link, may fail or *)
(* die between two of them, may never start, and collects old versions.    *)
(*                                                                         *)
(* The controller stages, applies, commits or rolls back, and recovers by  *)
(* staging and applying again, as in Deployment; a reply may be lost.      *)
(***************************************************************************)
EXTENDS Integers, FiniteSets

CONSTANTS
    Resource,       \* resource files
    Text,           \* versions of a text (a hash in the name of its file)
    None,
    Bundle,         \* configurations: a text for Main and some resources
    Faults,         \* what happens: "file" (an operation fails), "crash" (in a
                    \* call), "unstarted" (a call that never starts)
    Losable,        \* bound: links a failing restore may leave removed
    MaxChanges      \* bound: changes the controller begins

Main == "generated"
Path == Resource \cup {Main}
Links == [Path -> Text \cup {None}]
Res(b) == {r \in Resource : b[r] # None}

ASSUME PathAssumption == Main \notin Resource /\ None \notin Text \cup Bundle
ASSUME BundleAssumption ==
    /\ Bundle \subseteq Links /\ Bundle # {}
    /\ \A b \in Bundle : b[Main] # None
    /\ \A b, c \in Bundle : b[Main] = c[Main] => Res(b) = Res(c)
ASSUME BoundAssumption ==
    Faults \subseteq {"file", "crash", "unstarted"} /\ Losable \subseteq Path /\ MaxChanges \in Nat

VARIABLES
    active,         \* the links BIRD includes
    candidate,      \* their .candidate links
    rollback,       \* their .rollback links
    stored,         \* the version files
    daemon,         \* what BIRD has loaded
    task,           \* the call the agent works on
    control,        \* the controller's operation
    faulted         \* "file", "crash": has happened; "stale": a rollback was called
                    \* after an apply that had not started, to an earlier change's copies

files == <<active, candidate, rollback, stored>>
vars == <<files, daemon, task, control, faulted>>

\* What BIRD reads through a set of links: the main text and what it includes.
Includes(m) == UNION {Res(b) : b \in {c \in Bundle : c[Main] = m}}
View(l) == [p \in Path |-> IF p = Main \/ p \in Includes(l[Main]) THEN l[p] ELSE None]

\* BIRD can load them: nothing it includes is missing.
Complete(l) ==
    l[Main] # None /\ \A p \in Includes(l[Main]) \cup {Main} : <<p, l[p]>> \in stored

Idle == [op |-> "none", bundle |-> None, touched |-> {}, gone |-> {}, todo |-> {}, at |-> None,
         pc |-> "done", snapshot |-> None, saved |-> None, ok |-> FALSE]

Init ==
    /\ \E b \in Bundle, transport \in {"agent", "ssh"} :
          /\ active = b /\ daemon = b
          /\ control = [phase |-> "idle", transport |-> transport,
                        session |-> FALSE, base |-> b, next |-> b, goal |-> b, changes |-> 0]
    /\ candidate = [p \in Path |-> None] /\ rollback = candidate
    /\ stored = {<<p, active[p]>> : p \in {q \in Path : active[q] # None}}
    /\ task = Idle /\ faulted = {}

-----------------------------------------------------------------------------
(* The steps of a call.                                                    *)

SSH == control.transport = "ssh"

\* The .rollback links as one configuration.
Saved == IF rollback[Main] = None THEN None ELSE View(rollback)

\* The resources a call is about; one that names none is about those that have
\* a .candidate (the scripts know no such rule).
Concerned(named) ==
    IF named # {} \/ SSH THEN named ELSE {p \in Resource : candidate[p] # None}

TodoBackMainOnly(op, b, concerned) ==
    CASE op = "stage" -> Res(b) [] op = "apply" -> concerned [] op = "rollback" -> {}

Todo(op, b, concerned) ==
    CASE op = "stage"    -> Res(b)
      [] op = "apply"    -> concerned
      [] op = "rollback" -> {p \in concerned : rollback[p] # None \/ SSH}

Begin(op, b, named, gone) ==
    task' = [op |-> op, bundle |-> b, touched |-> Concerned(named), gone |-> gone,
             todo |-> Todo(op, b, Concerned(named)) \cup {Main},
             at |-> None, pc |-> "next", snapshot |-> active, saved |-> Saved, ok |-> FALSE]

Return(ok) == task' = [task EXCEPT !.pc = "done", !.ok = ok]
To(pc) == task' = [task EXCEPT !.pc = pc]

\* The node has not touched a file for the call.
Untouched == task.todo = Todo(task.op, task.bundle, task.touched) \cup {Main}

\* The call never starts: its task expires with the broker, the node is not
\* reached, or the call returns before its first link.
NotStarted ==
    /\ "unstarted" \in Faults
    /\ task.pc = "next" /\ Untouched
    /\ Return(FALSE)
    /\ UNCHANGED <<files, daemon, control, faulted>>

\* gcBirdVersions keeps what some link names.
NamedByActive(p, t) == t \in {active'[p], candidate'[p]}       \* mutant: forgets .rollback
Named(p, t) == t \in {active'[p], candidate'[p], rollback'[p]}
Collect(s) == stored' = {f \in s : Named(f[1], f[2])}

\* The scripts collect the versions of a path before they write the next one,
\* those of a .rollback too, and after an apply the older main texts.
Overwritten(p) ==
    {<<p, t>> : t \in Text \ ({active[p]} \cup IF p = Main THEN {} ELSE {candidate[p]})}
Cleanup ==
    stored' = {f \in stored :
                  f[1] = Main => task.op = "rollback" \/ f[2] \in {active[Main], task.snapshot[Main]}}

\* A stage writes a version and its .candidate link, the main text last.
StagePath(p) ==
    /\ task.op = "stage" /\ task.pc = "next" /\ p \in task.todo
    /\ p = Main => task.todo = {Main}
    /\ stored' = (IF SSH THEN stored \ Overwritten(p) ELSE stored) \cup {<<p, task.bundle[p]>>}
    /\ candidate' = [candidate EXCEPT ![p] = task.bundle[p]]
    /\ task' = [task EXCEPT !.todo = @ \ {p}]
    /\ UNCHANGED <<active, rollback, daemon, control, faulted>>

\* Then it collects (bird.stage) and checks the candidates, apart from the
\* active links.
StageCheck ==
    /\ task.op = "stage" /\ task.pc = "next" /\ task.todo = {}
    /\ UNCHANGED <<active, candidate, rollback>>
    /\ IF SSH THEN UNCHANGED stored ELSE Collect(stored)
    /\ \E ok \in BOOLEAN : Return(ok)
    /\ UNCHANGED <<daemon, control, faulted>>

StageError ==
    /\ task.op = "stage" /\ task.pc = "next" /\ task.todo # {}
    /\ "file" \in Faults /\ faulted' = faulted \cup {"file"}
    /\ UNCHANGED <<active, candidate, rollback>>
    /\ IF SSH THEN \E p \in task.todo : /\ p = Main => task.todo = {Main}
                                       /\ stored' \in {stored, stored \ Overwritten(p)}
              ELSE Collect(stored)
    /\ Return(FALSE)
    /\ UNCHANGED <<daemon, control>>

\* Without a copy of the main text nothing is rolled back.  (The candidate
\* bird.apply needs was staged just before.)
Missing ==
    /\ task.op = "rollback" /\ task.pc = "next" /\ Main \in task.todo
    /\ rollback[Main] = None
    /\ Return(FALSE)
    /\ UNCHANGED <<files, daemon, control, faulted>>

\* The agent switches the main text first, the scripts last.
Turn(p) ==
    /\ task.pc = "next" /\ p \in task.todo
    /\ IF SSH THEN p = Main => task.todo = {Main} ELSE Main \in task.todo => p = Main

\* Link by link: remove the old copy, ...
DropCopy(p) ==
    /\ task.op = "apply" /\ Turn(p)
    /\ rollback' = [rollback EXCEPT ![p] = None]
    /\ task' = [task EXCEPT !.todo = @ \ {p}, !.at = p, !.pc = "save"]
    /\ UNCHANGED <<active, candidate, stored, daemon, control, faulted>>

\* ... save what the link named before the call, ...
SaveCopy ==
    /\ task.pc = "save"
    /\ rollback' = [rollback EXCEPT ![task.at] = task.snapshot[task.at]]
    /\ To("switch")
    /\ UNCHANGED <<active, candidate, stored, daemon, control, faulted>>

\* ... and switch it, or remove it.
SwitchPath ==
    /\ task.op = "apply" /\ task.pc = "switch"
    /\ active' = [active EXCEPT ![task.at] = IF task.at \in task.gone THEN None ELSE candidate[task.at]]
    /\ To("next")
    /\ UNCHANGED <<candidate, rollback, stored, daemon, control, faulted>>

\* A rollback switches every link that has a .rollback; the scripts remove the
\* others.  It removes the link of the main text before it makes it anew.
DropMain ==
    /\ task.op = "rollback" /\ Turn(Main)
    /\ rollback[Main] # None
    /\ active' = [active EXCEPT ![Main] = None]
    /\ To("restore")
    /\ UNCHANGED <<candidate, rollback, stored, daemon, control, faulted>>

SwitchBack(p) ==
    /\ task.op = "rollback"
    /\ IF p = Main THEN task.pc = "restore" ELSE Turn(p) /\ rollback[Main] # None
    /\ active' = [active EXCEPT ![p] = rollback[p]]
    /\ task' = [task EXCEPT !.todo = @ \ {p}, !.pc = "next"]
    /\ UNCHANGED <<candidate, rollback, stored, daemon, control, faulted>>

\* All links are switched.
Switched == task.op \in {"apply", "rollback"} /\ task.pc = "next" /\ task.todo = {}

\* restoreSnapshot puts the links back the call saw when it began; what it
\* cannot restore it leaves, or has removed.  A script restores the resources
\* from .rollback, after a rollback not at all.
Previous(p) ==
    IF ~SSH \/ p = Main THEN task.snapshot[p]
    ELSE IF task.op = "apply" /\ p \in task.touched THEN rollback[p] ELSE active[p]

Restore(skipped, lost) ==
    active' = [p \in Path |-> CASE p \in lost -> None
                                [] p \in skipped \ lost -> active[p]
                                [] OTHER -> Previous(p)]

\* An operation fails before everything is switched: the agent restores the
\* links (not in the middle of making that of the main text anew) and returns,
\* a script just ends; the .rollback links stay.
FileError ==
    /\ task.op \in {"apply", "rollback"} /\ task.pc \in {"next", "save", "switch", "restore"}
    /\ ~Switched
    /\ "file" \in Faults /\ faulted' = faulted \cup {"file"}
    /\ IF SSH \/ task.pc = "restore" THEN active' = active
       ELSE \E skipped \in SUBSET Path : \E lost \in SUBSET (skipped \cap Losable) : Restore(skipped, lost)
    /\ Return(FALSE)
    /\ UNCHANGED <<candidate, rollback, stored, daemon, control>>

\* bird.apply leaves no candidate of the main text.
DropCandidate ==
    candidate' = IF task.op = "apply" /\ ~SSH THEN [candidate EXCEPT ![Main] = None] ELSE candidate

\* Then come the check and "birdc configure".  The command may fail, or time
\* out after BIRD has obeyed.
Configure ==
    /\ Switched /\ Complete(active)
    /\ daemon' = View(active)
    /\ DropCandidate
    \* (A script keeps what it replaced as the next .rollback.)
    /\ rollback' = IF SSH /\ task.op = "rollback"
                   THEN [rollback EXCEPT ![Main] = task.snapshot[Main]] ELSE rollback
    /\ UNCHANGED <<active, control, faulted>>
    /\ IF SSH THEN Cleanup ELSE Collect(stored)
    /\ Return(TRUE)

ConfigureFails ==
    /\ Switched
    /\ daemon' = daemon \/ (Complete(active) /\ daemon' = View(active))
    /\ To("undo")
    /\ UNCHANGED <<files, control, faulted>>

\* restoreSnapshot, and a second configure whose result nobody looks at.
\* (Mutant: only the main link is put back.)
UndoMain ==
    /\ task.pc = "undo"
    /\ Restore(Resource, {}) /\ To("reload")
    /\ UNCHANGED <<candidate, rollback, stored, daemon, control, faulted>>

Undo ==
    /\ task.pc = "undo"
    /\ \E skipped \in SUBSET Path : \E lost \in SUBSET (skipped \cap Losable) :
          /\ Restore(skipped, lost)
          /\ skipped # {} => "file" \in Faults
          /\ faulted' = IF skipped = {} THEN faulted ELSE faulted \cup {"file"}
    /\ To("reload")
    /\ UNCHANGED <<candidate, rollback, stored, daemon, control>>

Reload ==
    /\ task.pc = "reload"
    /\ daemon' = daemon \/ (Complete(active) /\ daemon' = View(active))
    /\ DropCandidate
    /\ Return(FALSE)
    /\ UNCHANGED <<active, rollback, stored, control, faulted>>

\* The agent, or the whole node, dies in the middle of a call.
Crash ==
    /\ task.pc # "done" /\ "crash" \in Faults
    /\ faulted' = faulted \cup {"crash"}
    /\ daemon' = daemon \/ (Complete(active) /\ daemon' = View(active))
    /\ Return(FALSE)
    /\ UNCHANGED <<files, control>>

-----------------------------------------------------------------------------
(* The controller (Deployment) as far as this node sees it.                *)

Gone(from, to) == Res(from) \ Res(to)
Other == IF control.goal = control.next THEN control.base ELSE control.next

\* The resources a call for b names: all that change, or none when a session is
\* changed (its apply and its rollback are called without a bundle).
Naming(b, gone) == IF control.session THEN {} ELSE Res(b) \cup gone

SameResources(b, c) == \A p \in Resource : b[p] = c[p]

Change ==
    /\ control.phase = "idle" /\ control.changes < MaxChanges
    /\ \E b \in Bundle \ {control.base}, session \in BOOLEAN :
          /\ session => SameResources(b, control.base)
          /\ control' = [control EXCEPT !.phase = "stage", !.session = session,
                                        !.next = b, !.goal = b, !.changes = @ + 1]
          /\ Begin("stage", b, Res(b), {})
    /\ UNCHANGED <<files, daemon, faulted>>

\* An answer is in, or it was lost and counts as a failure.
Answered(phase, ok) == task.pc = "done" /\ control.phase = phase /\ (ok => task.ok)

Settle(b) ==
    control' = [control EXCEPT !.phase = "idle", !.session = FALSE,
                               !.base = b, !.next = b, !.goal = b]
    /\ task' = Idle

\* A recovery names every resource.
Restage(goal) ==
    /\ control' = [control EXCEPT !.phase = "restage", !.session = FALSE, !.goal = goal]
    /\ Begin("stage", goal, Res(goal), {})

CallFor(op, b, gone) == Begin(op, b, Naming(b, gone), gone)

Deploy ==
    /\ Answered("stage", TRUE)
    /\ control' = [control EXCEPT !.phase = "apply"]
    /\ CallFor("apply", control.next, Gone(control.base, control.next))

GiveUp == Answered("stage", FALSE) /\ Settle(control.base)

Commit == Answered("apply", TRUE) /\ Settle(control.next)

\* The apply failed, or another node or the commit did.  Nobody asks whether
\* the apply has come to make the copies a rollback goes to.
RollBack ==
    /\ Answered("apply", FALSE)
    /\ control' = [control EXCEPT !.phase = "rollback", !.goal = control.base]
    /\ CallFor("rollback", control.next, Gone(control.base, control.next))
    /\ faulted' = IF Untouched /\ rollback[Main] # None THEN faulted \cup {"stale"} ELSE faulted

RolledBack == Answered("rollback", TRUE) /\ Settle(control.base)

\* The rollback failed, or the controller died with the journal in either
\* direction: recover() stages and applies the journal's target again.
Recover ==
    \/ Answered("rollback", FALSE) /\ Restage(control.base)
    \/ Answered("apply", FALSE) /\ Restage(control.next)
    \/ (Answered("restage", FALSE) \/ Answered("reapply", FALSE)) /\ Restage(control.goal)

Reapply ==
    /\ Answered("restage", TRUE)
    /\ control' = [control EXCEPT !.phase = "reapply"]
    /\ CallFor("apply", control.goal, Gone(Other, control.goal))

Recovered == Answered("reapply", TRUE) /\ Settle(control.goal)

Controller ==
    /\ \/ RollBack
       \/ /\ Deploy \/ GiveUp \/ Commit \/ RolledBack \/ Recover \/ Reapply \/ Recovered
          /\ UNCHANGED faulted
    /\ UNCHANGED <<files, daemon>>

Agent ==
    \/ \E p \in Path : StagePath(p) \/ DropCopy(p) \/ SwitchBack(p)
    \/ NotStarted \/ StageCheck \/ StageError \/ Missing
    \/ SaveCopy \/ SwitchPath \/ DropMain \/ FileError
    \/ Configure \/ ConfigureFails \/ Undo \/ Reload \/ Crash

Next == Change \/ Controller \/ Agent

Spec == Init /\ [][Next]_vars

-----------------------------------------------------------------------------
(***************************************************************************)
(* Properties.                                                             *)
(***************************************************************************)

TypeOK ==
    /\ {active, candidate, rollback} \subseteq Links
    /\ stored \subseteq Path \X Text
    /\ faulted \subseteq Faults \cup {"stale"}
    /\ {control.base, control.next, control.goal} \subseteq Bundle
    /\ task.todo \subseteq Path
    /\ task.pc \in {"next", "save", "switch", "restore", "undo", "reload", "done"}

\* The collection of old versions never takes a file that a link still names,
\* whatever failed half-way: neither the running configuration nor the one to
\* go back to is lost.  The scripts take the copies of earlier changes, and
\* spare what BIRD includes.
Dangling(l) == {p \in Path : l[p] # None /\ <<p, l[p]>> \notin stored}
NothingDangles ==
    IF SSH THEN control.phase = "idle" /\ faulted = {} => Dangling(active) = {}
           ELSE Dangling(active) \cup Dangling(candidate) \cup Dangling(rollback) = {}

\* As long as no file operation fails, nothing dies in a call and no apply that
\* never started is followed by a rollback to the copies of an earlier change, a
\* node at rest has the configuration the inventory has: after stages, rollbacks
\* and replays that never start, first applies that never start, failed checks,
\* reloads that time out, lost answers, rollbacks and recoveries.
SettledInSync ==
    control.phase = "idle" /\ faulted = {} =>
        View(active) = control.base /\ daemon = control.base

\* README.md:11: a failed change leaves the nodes as they were.  (Refuted: the
\* .rollback links are those of an earlier change until the apply comes to them.)
FailedChangeRestoresNode ==
    control.phase = "idle" => View(active) = control.base

Working == task.op \in {"apply", "rollback"} /\ task.pc # "done"

AsNode ==
    INSTANCE AtomicNode WITH
        conf   <- IF Working THEN View(task.snapshot) ELSE View(active),
        saved  <- IF Working THEN task.saved ELSE Saved,
        broken <- faulted # {} \/ SSH

\* A call of the agent, which works link by link, is one step of AtomicNode,
\* taken when it returns, or none when it never starts; until a file operation
\* fails, something dies in it or an apply that never started is rolled back.
CallsAreAtomic == AsNode!Spec
=============================================================================
