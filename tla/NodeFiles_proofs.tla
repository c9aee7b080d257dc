--------------------------- MODULE NodeFiles_proofs ---------------------------
(* For any resources, texts and configurations.  Through every fault: no link  *)
(* loses what it names.  Until a file operation fails, something dies in a     *)
(* call or an apply that has not started is rolled back to old copies: a node  *)
(* at rest has the inventory's configuration, and the calls of the agent are   *)
(* those of AtomicNode.                                                        *)
EXTENDS NodeFiles, TLAPS

-----------------------------------------------------------------------------
(* The inductive invariant.                                                *)

Call == [op : {"none", "stage", "apply", "rollback"}, bundle : Bundle \cup {None},
         touched : SUBSET Resource, gone : SUBSET Resource, todo : SUBSET Path,
         at : Path \cup {None},
         pc : {"next", "save", "switch", "restore", "undo", "reload", "done"},
         snapshot : Links \cup {None}, saved : Links \cup {None}, ok : BOOLEAN]
Operation == [phase : {"idle", "stage", "apply", "rollback", "restage", "reapply"},
              transport : {"agent", "ssh"}, session : BOOLEAN,
              base : Bundle, next : Bundle, goal : Bundle, changes : Nat]

TypeInv ==
    /\ active \in Links /\ candidate \in Links /\ rollback \in Links
    /\ stored \subseteq Path \X Text
    /\ faulted \subseteq {"file", "crash", "stale"}
    /\ control \in Operation
    /\ task \in Call
    /\ task.op # "none" => task.snapshot \in Links /\ task.bundle \in Bundle

\* The call belongs to the controller's operation.
Calls(op, b, gone) == task.op = op /\ task.bundle = b /\ task.gone = gone

CallInv ==
    /\ control.goal \in {control.base, control.next}
    /\ control.phase = "idle" => task = Idle
    /\ control.phase = "stage" => Calls("stage", control.next, {})
    /\ control.phase \in {"apply", "rollback"} =>
          Calls(control.phase, control.next, Gone(control.base, control.next))
    /\ control.phase = "restage" => Calls("stage", control.goal, {})
    /\ control.phase = "reapply" => Calls("apply", control.goal, Gone(Other, control.goal))
    /\ control.session => /\ control.phase \in {"stage", "apply", "rollback"}
                          /\ SameResources(control.base, control.next)

Handled(p) == p \in (task.touched \cup {Main}) \ task.todo
Halfway(p) == task.pc \in {"save", "switch"} /\ p = task.at
Target(p) == IF p \in task.gone THEN None ELSE candidate[p]

\* What a stage has written.
StageInv ==
    task.op = "stage" =>
        /\ task.pc \in {"next", "done"}
        /\ task.todo \subseteq Res(task.bundle) \cup {Main}
        /\ \A p \in (Res(task.bundle) \cup {Main}) \ task.todo : candidate[p] = task.bundle[p]
        /\ task.ok => task.todo = {}

\* Which resources an apply or a rollback is about.
TouchedInv ==
    task.op \in {"apply", "rollback"} =>
        /\ task.touched = Concerned(Naming(task.bundle, task.gone))
        /\ \A p \in Res(task.bundle) : candidate[p] = task.bundle[p]
        /\ task.todo \subseteq task.touched \cup {Main}
        /\ task.pc \in {"undo", "reload"} => task.todo = {}

\* How far an apply has come.
ApplyInv ==
    task.op = "apply" /\ task.pc # "done" =>
        /\ candidate[Main] = task.bundle[Main]
        /\ task.pc \in {"save", "switch"} => Handled(task.at)
        /\ \A p \in Path : Handled(p) => (Halfway(p) /\ task.pc = "save") \/ rollback[p] = task.snapshot[p]
        /\ task.pc # "reload" =>
              \A p \in Path : active[p] = IF Handled(p) /\ ~Halfway(p) THEN Target(p) ELSE task.snapshot[p]
        /\ task.pc = "reload" /\ faulted = {} => active = task.snapshot
        /\ Untouched => task.saved = Saved

\* How far a rollback has come; without a copy of the main text, nowhere.
Back(p) == p = Main \/ (p \in task.touched /\ (rollback[p] # None \/ SSH))
RollbackInv ==
    task.op = "rollback" /\ task.pc # "done" =>
        /\ task.pc \in {"next", "restore", "undo", "reload"}
        /\ task.pc = "restore" => Main \in task.todo
        /\ \A p \in task.todo : Back(p)
        /\ task.pc # "reload" =>
              \A p \in Path : active[p] = IF Back(p) /\ p \notin task.todo THEN rollback[p]
                                          ELSE IF p = Main /\ task.pc = "restore" THEN None
                                          ELSE task.snapshot[p]
        /\ rollback[Main] = None => task.pc = "next" /\ \A p \in Path : Back(p) => p \in task.todo
        /\ ~SSH => task.saved = Saved
        /\ ~SSH /\ task.pc = "reload" /\ faulted = {} => active = task.snapshot

\* Through the links l BIRD reads the configuration b.
Shows(l, b) == \A p \in Res(b) \cup {Main} : l[p] = b[p]

\* A rollback that switches its links shows what the inventory has.
ComesBack ==
    \A p \in Res(control.base) \cup {Main} :
       control.base[p] = IF p \in task.touched \cup {Main} THEN rollback[p] ELSE task.snapshot[p]

\* What the node has, as long as no fault happens.
SyncInv ==
    faulted = {} =>
        /\ control.phase \in {"idle", "stage"} => Shows(active, control.base) /\ daemon = control.base
        /\ control.phase = "apply" => Shows(task.snapshot, control.base)
        /\ control.phase = "rollback" /\ task.pc # "done" /\ rollback[Main] # None => ComesBack
        /\ task.op = "apply" /\ task.pc = "done" =>
              /\ IF Untouched THEN ~task.ok
                 ELSE \A p \in task.touched \cup {Main} : rollback[p] = task.snapshot[p]
              /\ IF task.ok THEN Shows(active, task.bundle) /\ daemon = task.bundle
                            ELSE active = task.snapshot
        /\ control.phase = "rollback" /\ task.pc = "done" /\ task.ok =>
              Shows(active, control.base) /\ daemon = control.base
        /\ ~SSH => \E b \in {control.base, control.next} :
                      Shows(IF Working THEN task.snapshot ELSE active, b)

\* Versions the links name are there.
StoredInv ==
    /\ ~SSH \/ faulted = {} =>
          /\ Dangling(active) = {} /\ Dangling(candidate) = {}
          /\ Working => Dangling(task.snapshot) = {}
    /\ ~SSH => Dangling(rollback) = {}
    /\ faulted = {} /\ (\/ task.op = "apply" /\ task.pc = "done" /\ ~Untouched
                        \/ task.op = "rollback" /\ task.pc # "done" /\ rollback[Main] # None) =>
          Dangling(rollback) \cap (task.touched \cup {Main}) = {}

IInv == TypeInv /\ CallInv /\ StageInv /\ TouchedInv /\ ApplyInv /\ RollbackInv /\ SyncInv /\ StoredInv

-----------------------------------------------------------------------------
(* Configurations and what BIRD reads.                                     *)

LEMMA BundleFacts ==
    ASSUME NEW b \in Bundle
    PROVE  /\ b \in Links /\ b[Main] # None /\ b # None
           /\ Res(b) \subseteq Resource /\ \A p \in Path : p \in Res(b) \cup {Main} <=> b[p] # None
           /\ \A p \in Path : b[p] \in Text \cup {None}
BY BundleAssumption, PathAssumption DEF Links, Res, Path

LEMMA IncludesIs == ASSUME NEW b \in Bundle PROVE Includes(b[Main]) = Res(b)
<1>1. \A c \in Bundle : c[Main] = b[Main] => Res(c) = Res(b)
  BY BundleAssumption
<1>. QED
  BY <1>1 DEF Includes

LEMMA ViewIs ==
    ASSUME NEW l, NEW b \in Bundle
    PROVE  View(l) = b <=> Shows(l, b)
<1>1. Includes(b[Main]) = Res(b) /\ b \in Links /\ Res(b) \subseteq Resource /\ Main \notin Resource
  BY IncludesIs, BundleFacts, PathAssumption
<1>2. Main \in Path /\ \A r \in Resource : r \in Path
  BY DEF Path
<1>3. b = [p \in Path |-> b[p]] /\ \A p \in Path : p \notin Res(b) \cup {Main} => b[p] = None
  BY <1>1, BundleFacts DEF Links
<1>4. ASSUME View(l) = b PROVE Shows(l, b)
  <2>1. l[Main] = b[Main]
    BY <1>2, <1>4 DEF View
  <2>2. ASSUME NEW p \in Res(b) PROVE l[p] = b[p]
    <3>1. p \in Path /\ p \in Includes(l[Main])
      BY <1>1, <1>2, <2>1
    <3>2. View(l)[p] = l[p]
      BY <3>1 DEF View
    <3>. QED
      BY <1>4, <3>2
  <2>. QED
    BY <2>1, <2>2 DEF Shows
<1>5. ASSUME Shows(l, b) PROVE View(l) = b
  <2>1. Includes(l[Main]) = Res(b) /\ \A p \in Res(b) \cup {Main} : l[p] = b[p]
    BY <1>1, <1>5 DEF Shows
  <2>2. ASSUME NEW p \in Path
        PROVE  (IF p = Main \/ p \in Includes(l[Main]) THEN l[p] ELSE None) = b[p]
    BY <1>3, <2>1
  <2>3. View(l) = [p \in Path |-> b[p]]
    BY <2>2 DEF View
  <2>. QED
    BY <1>3, <2>3
<1>. QED
  BY <1>4, <1>5

LEMMA ViewType == ASSUME NEW l \in Links PROVE View(l) \in Links
BY DEF View, Links

LEMMA SavedType == ASSUME TypeInv PROVE Saved \in Links \cup {None}
BY ViewType DEF Saved, TypeInv

-----------------------------------------------------------------------------
(* How a call goes on.                                                     *)

LEMMA ReturnIs ==
    ASSUME task \in Call, NEW ok \in BOOLEAN, Return(ok)
    PROVE  /\ task' \in Call /\ task'.pc = "done" /\ task'.ok = ok
           /\ task'.op = task.op /\ task'.bundle = task.bundle /\ task'.gone = task.gone
           /\ task'.touched = task.touched /\ task'.todo = task.todo /\ task'.at = task.at
           /\ task'.snapshot = task.snapshot /\ task'.saved = task.saved
BY DEF Call, Return

LEMMA ToIs ==
    ASSUME task \in Call, NEW pc \in {"next", "switch", "restore", "undo", "reload"}, To(pc)
    PROVE  /\ task' \in Call /\ task'.pc = pc /\ task'.ok = task.ok
           /\ task'.op = task.op /\ task'.bundle = task.bundle /\ task'.gone = task.gone
           /\ task'.touched = task.touched /\ task'.todo = task.todo /\ task'.at = task.at
           /\ task'.snapshot = task.snapshot /\ task'.saved = task.saved
BY DEF Call, To

LEMMA TakenIs ==
    ASSUME task \in Call, NEW p, task' = [task EXCEPT !.todo = @ \ {p}]
    PROVE  /\ task' \in Call /\ task'.pc = task.pc /\ task'.ok = task.ok
           /\ task'.op = task.op /\ task'.bundle = task.bundle /\ task'.gone = task.gone
           /\ task'.touched = task.touched /\ task'.todo = task.todo \ {p} /\ task'.at = task.at
           /\ task'.snapshot = task.snapshot /\ task'.saved = task.saved
BY DEF Call

LEMMA BegunIs ==
    ASSUME TypeInv, NEW op \in {"stage", "apply", "rollback"}, NEW b \in Bundle,
           NEW named \in SUBSET Resource, NEW gone \in SUBSET Resource, Begin(op, b, named, gone)
    PROVE  /\ task' \in Call /\ task'.op = op /\ task'.bundle = b /\ task'.gone = gone
           /\ task'.touched = Concerned(named) /\ task'.todo = Todo(op, b, Concerned(named)) \cup {Main}
           /\ task'.pc = "next" /\ task'.snapshot = active /\ task'.saved = Saved /\ task'.ok = FALSE
           /\ named \subseteq Concerned(named) /\ Concerned(named) \subseteq Resource
<1>1. /\ named \subseteq Concerned(named) /\ Concerned(named) \subseteq Resource
      /\ Concerned(named) \in SUBSET Resource
  BY DEF Concerned
<1>2. Todo(op, b, Concerned(named)) \subseteq Resource
  BY <1>1, BundleFacts DEF Todo
<1> DEFINE touched == Concerned(named)
           todo == Todo(op, b, Concerned(named)) \cup {Main}
           saved == Saved
<1>3. todo \in SUBSET Path
  BY <1>2 DEF Path
<1>4. saved \in Links \cup {None} /\ active \in Links
  BY SavedType DEF TypeInv
<1>5. task' = [op |-> op, bundle |-> b, touched |-> touched, gone |-> gone, todo |-> todo,
               at |-> None, pc |-> "next", snapshot |-> active, saved |-> saved, ok |-> FALSE]
  BY DEF Begin
<1> HIDE DEF touched, todo, saved
<1>6. task' \in Call
  BY <1>1, <1>3, <1>4, <1>5 DEF Call, touched
<1>7. /\ task'.op = op /\ task'.bundle = b /\ task'.gone = gone /\ task'.touched = touched
      /\ task'.todo = todo /\ task'.pc = "next" /\ task'.snapshot = active /\ task'.saved = saved
      /\ task'.ok = FALSE
  BY <1>5
<1>. QED
  BY <1>1, <1>2, <1>6, <1>7 DEF touched, todo, saved

LEMMA CalledIs ==
    ASSUME TypeInv, NEW op \in {"stage", "apply", "rollback"}, NEW b \in Bundle,
           NEW gone \in SUBSET Resource, CallFor(op, b, gone)
    PROVE  /\ task' \in Call /\ task'.op = op /\ task'.bundle = b /\ task'.gone = gone
           /\ task'.touched = Concerned(Naming(b, gone))
           /\ task'.todo = Todo(op, b, Concerned(Naming(b, gone))) \cup {Main}
           /\ task'.pc = "next" /\ task'.snapshot = active /\ task'.saved = Saved /\ task'.ok = FALSE
<1> DEFINE named == Naming(b, gone)
<1>1. named \in SUBSET Resource
  BY BundleFacts DEF Naming
<1>2. Begin(op, b, named, gone)
  BY DEF CallFor
<1> HIDE DEF named
<1>3. task' \in Call
  BY <1>1, <1>2, BegunIs
<1>4. /\ task'.op = op /\ task'.bundle = b /\ task'.gone = gone
      /\ task'.touched = Concerned(named) /\ task'.todo = Todo(op, b, Concerned(named)) \cup {Main}
      /\ task'.pc = "next" /\ task'.snapshot = active /\ task'.saved = Saved /\ task'.ok = FALSE
  BY <1>2 DEF Begin
<1>. QED
  BY <1>3, <1>4 DEF named

\* A call goes on for the same operation.
SameCall ==
    /\ control' = control /\ task' \in Call
    /\ task'.op = task.op /\ task'.bundle = task.bundle /\ task'.gone = task.gone
    /\ task'.touched = task.touched /\ task'.snapshot = task.snapshot /\ task'.saved = task.saved

SameFiles == active' = active /\ candidate' = candidate /\ rollback' = rollback

LEMMA CallOf ==
    ASSUME IInv
    PROVE  /\ task.op = "stage" => control.phase \in {"stage", "restage"}
           /\ task.op = "apply" => control.phase \in {"apply", "reapply"}
           /\ task.op = "rollback" => control.phase = "rollback"
           /\ task.op = "none" => task = Idle
           /\ control.phase \in {"stage", "restage"} => task.op = "stage"
           /\ control.phase \in {"apply", "reapply"} => task.op = "apply"
           /\ control.phase = "rollback" => task.op = "rollback"
           /\ task.pc # "done" => task.op \in {"stage", "apply", "rollback"}
           /\ task.op # "none" => task.bundle \in {control.base, control.next}
           /\ control.phase = "idle" => task.pc = "done" /\ task.op = "none"
           /\ control \in Operation /\ task \in Call
           /\ task.op # "none" => task.snapshot \in Links /\ task.bundle \in Bundle
BY DEF IInv, TypeInv, CallInv, Calls, Idle, Operation, Call

LEMMA GoesOn ==
    ASSUME IInv, SameCall, task.op # "none"
    PROVE  CallInv'
<1>1. control.phase # "idle"
  BY CallOf
<1>. QED
  BY <1>1 DEF IInv, CallInv, Calls, SameCall, Gone, Other, SameResources

LEMMA StillTouched ==
    ASSUME IInv, SameCall, task'.todo \subseteq task.todo,
           task'.pc \in {"undo", "reload"} => task'.todo = {},
           \A p \in Resource : candidate'[p] = candidate[p]
    PROVE  TouchedInv'
<1>1. Res(task.bundle) \subseteq Resource
  BY DEF Res
<1>2. Naming(task.bundle, task.gone)' = Naming(task.bundle, task.gone) /\ Res(task.bundle)' = Res(task.bundle)
  BY DEF SameCall, Naming, Res
<1>3. Concerned(Naming(task.bundle, task.gone))' = Concerned(Naming(task.bundle, task.gone))
  BY <1>2 DEF Concerned, SameCall, SSH
<1>. QED
  BY <1>1, <1>2, <1>3 DEF IInv, TouchedInv, SameCall

LEMMA UntouchedIs ==
    ASSUME task.op = "apply"
    PROVE  Untouched <=> task.todo = task.touched \cup {Main}
BY DEF Untouched, Todo

\* A step of a stage, which touches neither what BIRD includes nor the copies.
LEMMA StageStep ==
    ASSUME IInv, task.op = "stage", SameCall, UNCHANGED <<active, rollback, daemon>>,
           candidate' \in Links, stored' \subseteq Path \X Text, faulted' = faulted,
           StageInv', ~SSH \/ faulted = {} => (Dangling(active) \cup Dangling(candidate))' = {},
           ~SSH => Dangling(rollback)' = {}
    PROVE  IInv'
<1>1. TypeInv'
  BY CallOf DEF IInv, TypeInv, SameCall
<1>2. CallInv'
  BY GoesOn
<1>3. TouchedInv' /\ ApplyInv' /\ RollbackInv'
  BY DEF TouchedInv, ApplyInv, RollbackInv, SameCall
<1>4. SyncInv'
  BY CallOf DEF IInv, SyncInv, SameCall, SSH, Working, Shows
<1>5. StoredInv'
  BY DEF StoredInv, SameCall, SSH, Working
<1>. QED
  BY <1>1, <1>2, <1>3, <1>4, <1>5 DEF IInv

\* A call that ends with a fault: nothing is promised any more but the versions
\* an agent keeps.
LEMMA FaultStep ==
    ASSUME IInv, task.pc # "done", SameCall, task'.pc = "done", task'.ok = FALSE, task'.todo = task.todo,
           faulted' # {}, faulted' \subseteq {"file", "crash", "stale"},
           active' \in Links, candidate' = candidate, rollback' = rollback, stored' \subseteq Path \X Text,
           ~SSH => (Dangling(active) \cup Dangling(candidate) \cup Dangling(rollback))' = {}
    PROVE  IInv'
<1>1. TypeInv'
  BY CallOf DEF IInv, TypeInv, SameCall
<1>2. CallInv'
  BY GoesOn, CallOf
<1>3. TouchedInv' /\ ApplyInv' /\ RollbackInv'
  BY StillTouched DEF ApplyInv, RollbackInv
<1>4. StageInv'
  BY DEF IInv, StageInv, SameCall
<1>5. SyncInv'
  BY DEF SyncInv
<1>6. StoredInv'
  BY DEF StoredInv, SameCall, SSH, Working
<1>. QED
  BY <1>1, <1>2, <1>3, <1>4, <1>5, <1>6 DEF IInv

\* A call that ends before it has touched anything.
LEMMA NothingDone ==
    ASSUME IInv, task.pc = "next", Return(FALSE), UNCHANGED <<files, daemon, control, faulted>>,
           task.op \in {"apply", "rollback"} => active = task.snapshot,
           task.op = "apply" => Untouched
    PROVE  IInv'
<1>1. /\ task \in Call /\ active' = active /\ candidate' = candidate /\ rollback' = rollback
      /\ stored' = stored /\ daemon' = daemon /\ control' = control /\ faulted' = faulted
      /\ task.op \in {"stage", "apply", "rollback"}
  BY CallOf DEF files
<1>2. /\ task' \in Call /\ task'.pc = "done" /\ task'.ok = FALSE
      /\ task'.op = task.op /\ task'.bundle = task.bundle /\ task'.gone = task.gone
      /\ task'.touched = task.touched /\ task'.todo = task.todo
      /\ task'.snapshot = task.snapshot /\ task'.saved = task.saved
  BY <1>1, ReturnIs
<1>3. SameCall
  BY <1>1, <1>2 DEF SameCall
<1>4. TypeInv'
  BY <1>1, <1>2, CallOf DEF IInv, TypeInv
<1>5. CallInv'
  BY <1>1, <1>3, GoesOn
<1>6. TouchedInv' /\ ApplyInv' /\ RollbackInv'
  BY <1>1, <1>2, <1>3, StillTouched DEF ApplyInv, RollbackInv
<1>7. StageInv'
  <2>1. Res(task.bundle)' = Res(task.bundle)
    BY <1>2 DEF Res
  <2>. QED
    BY <1>1, <1>2, <2>1 DEF IInv, StageInv
<1>8. task.op = "apply" => Untouched'
  BY <1>1, <1>2 DEF Untouched, Todo
<1>9. SyncInv'
  BY <1>1, <1>2, <1>8, CallOf DEF IInv, SyncInv, SSH, Working, Shows, Res
<1>10. StoredInv'
  BY <1>1, <1>2, <1>8 DEF IInv, StoredInv, SSH, Working, Dangling
<1>. QED
  BY <1>4, <1>5, <1>6, <1>7, <1>9, <1>10 DEF IInv

-----------------------------------------------------------------------------
(* A stage.                                                                *)

\* What is named stays.
LEMMA Collected ==
    ASSUME Collect(stored)
    PROVE  /\ stored' \subseteq stored
           /\ \A p, t : <<p, t>> \in stored /\ t \in {active'[p], candidate'[p], rollback'[p]} =>
                 <<p, t>> \in stored'
BY DEF Collect, Named

LEMMA NothingLost ==
    ASSUME NEW l, Dangling(l) = {}
    PROVE  \A q \in Path : l[q] # None => <<q, l[q]>> \in stored
BY DEF Dangling

LEMMA StagePathStep == ASSUME IInv, NEW p \in Path, StagePath(p) PROVE IInv'
<1> DEFINE t == task.bundle[p]
           kept == IF SSH THEN stored \ Overwritten(p) ELSE stored
<1>1. /\ task.op = "stage" /\ task.pc = "next" /\ p \in task.todo
      /\ task.bundle \in Bundle /\ candidate \in Links /\ stored \subseteq Path \X Text
      /\ task.todo \subseteq Res(task.bundle) \cup {Main} /\ task \in Call
  BY CallOf DEF StagePath, IInv, TypeInv, StageInv
<1>2. t \in Text
  BY <1>1, BundleFacts
<1>3. /\ task' \in Call /\ task'.pc = task.pc /\ task'.ok = task.ok
      /\ task'.op = task.op /\ task'.bundle = task.bundle /\ task'.gone = task.gone
      /\ task'.touched = task.touched /\ task'.todo = task.todo \ {p}
      /\ task'.snapshot = task.snapshot /\ task'.saved = task.saved
  BY <1>1, TakenIs DEF StagePath
<1>4. candidate' \in Links /\ candidate'[p] = t /\ \A q \in Path : q # p => candidate'[q] = candidate[q]
  BY <1>1, <1>2 DEF StagePath, Links
<1>5. stored' = kept \cup {<<p, t>>}
  BY DEF StagePath
<1>6. stored' \subseteq Path \X Text
  BY <1>1, <1>2, <1>5
<1>7. StageInv'
  <2>1. \A q \in Res(task.bundle) \cup {Main} : q \in Path
    BY DEF Res, Path
  <2>2. \A q \in (Res(task.bundle) \cup {Main}) \ (task.todo \ {p}) : candidate'[q] = task.bundle[q]
    BY <1>1, <1>4, <2>1 DEF IInv, StageInv
  <2>3. ~task.ok
    BY <1>1 DEF IInv, StageInv
  <2>4. Res(task.bundle)' = Res(task.bundle)
    BY <1>3 DEF Res
  <2>. QED
    BY <1>1, <1>3, <2>2, <2>3, <2>4 DEF StageInv
<1>8. /\ \A q \in Path : \A x : <<q, x>> \in stored /\ x \in {active[q], candidate'[q]} => <<q, x>> \in stored'
      /\ ~SSH => stored \subseteq stored'
  <2>1. \A q \in Path : \A x : <<q, x>> \in Overwritten(p) => q = p /\ x # active[p]
    BY DEF Overwritten
  <2>. QED
    BY <1>4, <1>5, <2>1
<1>9. <<p, t>> \in stored'
  BY <1>5
<1> HIDE DEF t, kept
<1>10. ~SSH \/ faulted = {} => (Dangling(active) \cup Dangling(candidate))' = {}
  <2>1. CASE ~SSH \/ faulted = {}
    <3>1. \A q \in Path : /\ active[q] # None => <<q, active[q]>> \in stored
                          /\ candidate[q] # None => <<q, candidate[q]>> \in stored
      BY <2>1, NothingLost DEF IInv, StoredInv
    <3>2. active' = active
      BY DEF StagePath
    <3>. QED
      BY <1>4, <1>8, <1>9, <3>1, <3>2 DEF Dangling
  <2>. QED
    BY <2>1
<1>11. ~SSH => Dangling(rollback)' = {}
  BY <1>8 DEF IInv, StoredInv, Dangling, StagePath
<1>. QED
  BY <1>1, <1>3, <1>4, <1>6, <1>7, <1>10, <1>11, StageStep DEF StagePath, SameCall

LEMMA StageCheckStep == ASSUME IInv, StageCheck PROVE IInv'
<1>1. PICK ok \in BOOLEAN : Return(ok)
  BY DEF StageCheck
<1>2. /\ task.op = "stage" /\ task.todo = {} /\ active' = active /\ candidate' = candidate
      /\ rollback' = rollback /\ daemon' = daemon /\ control' = control /\ faulted' = faulted
      /\ task \in Call /\ candidate \in Links /\ stored \subseteq Path \X Text
  BY DEF StageCheck, IInv, TypeInv
<1>3. /\ task' \in Call /\ task'.pc = "done"
      /\ task'.op = task.op /\ task'.bundle = task.bundle /\ task'.gone = task.gone
      /\ task'.touched = task.touched /\ task'.todo = task.todo
      /\ task'.snapshot = task.snapshot /\ task'.saved = task.saved
  BY <1>1, <1>2, ReturnIs
<1>4. StageInv'
  BY <1>2, <1>3 DEF IInv, StageInv
<1>5. /\ stored' \subseteq stored
      /\ \A p \in Path : \A t : <<p, t>> \in stored /\ (SSH \/ t \in {active[p], candidate[p], rollback[p]}) =>
            <<p, t>> \in stored'
  BY <1>2, Collected DEF StageCheck
<1>6. ~SSH \/ faulted = {} => (Dangling(active) \cup Dangling(candidate))' = {}
  BY <1>2, <1>5 DEF IInv, StoredInv, Dangling
<1>7. ~SSH => Dangling(rollback)' = {}
  BY <1>2, <1>5 DEF IInv, StoredInv, Dangling
<1>. QED
  BY <1>2, <1>3, <1>4, <1>5, <1>6, <1>7, StageStep DEF SameCall

LEMMA StageErrorStep == ASSUME IInv, StageError PROVE IInv'
<1>1. /\ task.op = "stage" /\ task.pc = "next" /\ Return(FALSE)
      /\ active' = active /\ candidate' = candidate
      /\ rollback' = rollback /\ control' = control /\ faulted' = faulted \cup {"file"}
      /\ task \in Call /\ active \in Links /\ stored \subseteq Path \X Text /\ faulted \subseteq {"file", "crash", "stale"}
  BY DEF StageError, IInv, TypeInv
<1>2. stored' \subseteq stored
  BY <1>1, Collected DEF StageError
<1>3. ~SSH => (Dangling(active) \cup Dangling(candidate) \cup Dangling(rollback))' = {}
  BY <1>1, Collected DEF StageError, IInv, StoredInv, Dangling
<1>. QED
  BY <1>1, <1>2, <1>3, ReturnIs, FaultStep DEF SameCall

-----------------------------------------------------------------------------
(* An apply and a rollback.                                                *)

\* A step in the middle of them: no version comes or goes.
LEMMA WorkStep ==
    ASSUME IInv, task.op \in {"apply", "rollback"}, SameCall, task.pc # "done", task'.pc # "done",
           candidate' = candidate, stored' = stored, active' \in Links, rollback' \in Links,
           faulted \subseteq faulted', faulted' \subseteq {"file", "crash", "stale"},
           task.op = "rollback" => rollback' = rollback,
           TouchedInv', ApplyInv', RollbackInv',
           ~SSH \/ faulted = {} => Dangling(active)' = {}, ~SSH => Dangling(rollback)' = {}
    PROVE  IInv'
<1>1. TypeInv'
  BY CallOf DEF IInv, TypeInv, SameCall
<1>2. CallInv'
  BY GoesOn
<1>3. StageInv'
  BY DEF StageInv, SameCall
<1>4. SyncInv'
  BY CallOf DEF IInv, SyncInv, SameCall, SSH, Working, Shows, Res, ComesBack
<1>5. StoredInv'
  BY DEF IInv, StoredInv, SameCall, SSH, Working, Dangling
<1>. QED
  BY <1>1, <1>2, <1>3, <1>4, <1>5 DEF IInv

LEMMA TouchedFacts ==
    ASSUME IInv, task.op \in {"apply", "rollback"}
    PROVE  /\ task.touched \cup {Main} \subseteq Path /\ Main \notin task.touched /\ Main \notin task.gone
           /\ task.touched \subseteq Resource
           /\ task.todo \subseteq task.touched \cup {Main} /\ Main \in Path /\ Main \notin Resource
           /\ task.bundle \in Bundle /\ task.snapshot \in Links
           /\ active \in Links /\ candidate \in Links /\ rollback \in Links
BY CallOf, PathAssumption DEF IInv, TypeInv, TouchedInv, Call, Path

\* A call is about the resources of the configurations, but not where a script
\* changes a session.
LEMMA NothingKeptGoes ==
    ASSUME IInv, task.op \in {"apply", "rollback"}
    PROVE  /\ task.gone \cap Res(task.bundle) = {}
           /\ ~(SSH /\ control.session) =>
                 \A b \in {control.base, control.next} : Res(b) \subseteq task.touched
           /\ control.session => Res(control.base) = Res(control.next)
           /\ SSH /\ control.session => task.touched = {}
<1>1. \/ task.bundle = control.next /\ task.gone = Res(control.base) \ Res(control.next)
      \/ task.bundle = control.base /\ task.gone = Res(control.next) \ Res(control.base)
      \/ control.base = control.next /\ task.bundle = control.base /\ task.gone = {}
  BY CallOf DEF IInv, CallInv, Calls, Gone, Other
<1>2. control.session => Res(control.base) = Res(control.next)
  BY DEF IInv, CallInv, SameResources, Res
<1>3. SSH /\ control.session => task.touched = {}
  BY DEF IInv, TouchedInv, Concerned, Naming
<1>4. ASSUME ~(SSH /\ control.session)
      PROVE  Res(task.bundle) \cup task.gone \subseteq task.touched
  <2>1. CASE ~control.session
    BY <2>1 DEF IInv, TouchedInv, Concerned, Naming
  <2>2. CASE control.session
    <3>1. task.gone = {}
      BY <1>1, <1>2, <2>2
    <3>2. task.touched = {p \in Resource : candidate[p] # None}
      BY <1>4, <2>2 DEF IInv, TouchedInv, Concerned, Naming
    <3>3. \A p \in Res(task.bundle) : p \in Resource /\ candidate[p] # None
      BY DEF IInv, TouchedInv, Res
    <3>. QED
      BY <3>1, <3>2, <3>3
  <2>. QED
    BY <2>1, <2>2
<1>. QED
  BY <1>1, <1>2, <1>3, <1>4

LEMMA DropCopyStep == ASSUME IInv, NEW p \in Path, DropCopy(p) PROVE IInv'
<1>1. /\ task.op = "apply" /\ task.pc = "next" /\ p \in task.todo /\ task \in Call
      /\ rollback \in Links /\ active' = active /\ faulted' = faulted
  BY CallOf DEF DropCopy, Turn, IInv, TypeInv
<1>2. /\ task' \in Call /\ task'.pc = "save" /\ task'.at = p /\ task'.todo = task.todo \ {p}
      /\ task'.op = task.op /\ task'.bundle = task.bundle /\ task'.gone = task.gone
      /\ task'.touched = task.touched /\ task'.snapshot = task.snapshot /\ task'.saved = task.saved
  BY <1>1 DEF DropCopy, Call
<1>3. rollback' \in Links /\ rollback'[p] = None /\ \A q \in Path : q # p => rollback'[q] = rollback[q]
  BY <1>1 DEF DropCopy, Links
<1>4. SameCall
  BY <1>2 DEF DropCopy, SameCall
<1>5. TouchedInv'
  BY <1>2, <1>4, StillTouched DEF DropCopy
<1>6. ApplyInv'
  <2>1. \A q \in Path : /\ Handled(q)' <=> Handled(q) \/ q = p
                        /\ Halfway(q)' <=> q = p
                        /\ ~Halfway(q) /\ ~Handled(p)
    BY <1>1, <1>2, TouchedFacts DEF Handled, Halfway
  <2>2. /\ candidate[Main] = task.bundle[Main]
        /\ \A q \in Path : Handled(q) => rollback[q] = task.snapshot[q]
        /\ \A q \in Path : active[q] = IF Handled(q) THEN Target(q) ELSE task.snapshot[q]
    BY <1>1, <2>1 DEF IInv, ApplyInv
  <2>3. candidate' = candidate /\ \A q : Target(q)' = Target(q)
    BY <1>2 DEF DropCopy, Target
  <2>4. Handled(task.at)' /\ ~Untouched'
    BY <1>1, <1>2, TouchedFacts DEF Handled, Untouched, Todo
  <2>. QED
    BY <1>1, <1>2, <1>3, <2>1, <2>2, <2>3, <2>4 DEF ApplyInv
<1>7. RollbackInv'
  BY <1>1, <1>2 DEF RollbackInv
<1>8. ~SSH => Dangling(rollback)' = {}
  BY <1>1, <1>3 DEF DropCopy, IInv, StoredInv, Dangling
<1>9. ~SSH \/ faulted = {} => Dangling(active)' = {}
  BY <1>1 DEF DropCopy, IInv, StoredInv, Dangling
<1>. QED
  BY <1>1, <1>2, <1>3, <1>4, <1>5, <1>6, <1>7, <1>8, <1>9, WorkStep, TouchedFacts
     DEF DropCopy, IInv, TypeInv

\* Only an apply saves and switches.
LEMMA Halves ==
    ASSUME IInv, task.pc \in {"save", "switch"}
    PROVE  task.op = "apply" /\ Handled(task.at) /\ task.at \in Path
BY CallOf, TouchedFacts DEF IInv, StageInv, RollbackInv, ApplyInv, Handled

LEMMA SaveCopyStep == ASSUME IInv, SaveCopy PROVE IInv'
<1> DEFINE p == task.at
<1>1. /\ task.op = "apply" /\ task.pc = "save" /\ Handled(p) /\ p \in Path /\ task \in Call
      /\ rollback \in Links /\ task.snapshot \in Links /\ active' = active /\ faulted' = faulted
  BY Halves, CallOf DEF SaveCopy, IInv, TypeInv
<1>2. /\ task' \in Call /\ task'.pc = "switch" /\ task'.at = task.at /\ task'.todo = task.todo
      /\ task'.op = task.op /\ task'.bundle = task.bundle /\ task'.gone = task.gone
      /\ task'.touched = task.touched /\ task'.snapshot = task.snapshot /\ task'.saved = task.saved
  BY <1>1, ToIs DEF SaveCopy
<1>3. /\ rollback' \in Links /\ rollback'[p] = task.snapshot[p]
      /\ \A q \in Path : q # p => rollback'[q] = rollback[q]
  BY <1>1 DEF SaveCopy, Links
<1>4. SameCall
  BY <1>2 DEF SaveCopy, SameCall
<1>5. TouchedInv'
  BY <1>2, <1>4, StillTouched DEF SaveCopy
<1>6. ApplyInv'
  <2>1. \A q : (Handled(q)' <=> Handled(q)) /\ (Halfway(q)' <=> q = p) /\ (Halfway(q) <=> q = p)
    BY <1>1, <1>2 DEF Handled, Halfway
  <2>2. /\ candidate[Main] = task.bundle[Main]
        /\ \A q \in Path : Handled(q) => q = p \/ rollback[q] = task.snapshot[q]
        /\ \A q \in Path : active[q] = IF Handled(q) /\ q # p THEN Target(q) ELSE task.snapshot[q]
    BY <1>1, <2>1 DEF IInv, ApplyInv
  <2>3. candidate' = candidate /\ \A q : Target(q)' = Target(q)
    BY <1>2 DEF SaveCopy, Target
  <2>4. Handled(task.at)' /\ ~Untouched'
    BY <1>1, <1>2 DEF Handled, Untouched, Todo
  <2>. QED
    BY <1>1, <1>2, <1>3, <2>1, <2>2, <2>3, <2>4 DEF ApplyInv
<1>7. RollbackInv'
  BY <1>1, <1>2 DEF RollbackInv
<1>8. ~SSH => Dangling(rollback)' = {}
  BY <1>1, <1>3 DEF SaveCopy, IInv, StoredInv, Dangling, Working
<1>9. ~SSH \/ faulted = {} => Dangling(active)' = {}
  BY <1>1 DEF SaveCopy, IInv, StoredInv, Dangling
<1>. QED
  BY <1>1, <1>2, <1>3, <1>4, <1>5, <1>6, <1>7, <1>8, <1>9, WorkStep, TouchedFacts
     DEF SaveCopy, IInv, TypeInv

LEMMA SwitchPathStep == ASSUME IInv, SwitchPath PROVE IInv'
<1> DEFINE p == task.at
           t == IF p \in task.gone THEN None ELSE candidate[p]
<1>1. /\ task.op = "apply" /\ task.pc = "switch" /\ Handled(p) /\ p \in Path /\ task \in Call
      /\ active \in Links /\ candidate \in Links /\ rollback' = rollback /\ faulted' = faulted
  BY Halves, CallOf DEF SwitchPath, IInv, TypeInv
<1>2. /\ task' \in Call /\ task'.pc = "next" /\ task'.todo = task.todo
      /\ task'.op = task.op /\ task'.bundle = task.bundle /\ task'.gone = task.gone
      /\ task'.touched = task.touched /\ task'.snapshot = task.snapshot /\ task'.saved = task.saved
  BY <1>1, ToIs DEF SwitchPath
<1>3. t \in Text \cup {None}
  BY <1>1 DEF Links
<1>4. active' = [active EXCEPT ![p] = t]
  BY DEF SwitchPath
<1>5. t = Target(p)
  BY DEF Target
<1> HIDE DEF t
<1>6. active' \in Links /\ active'[p] = t /\ \A q \in Path : q # p => active'[q] = active[q]
  BY <1>1, <1>3, <1>4 DEF Links
<1>7. SameCall
  BY <1>2 DEF SwitchPath, SameCall
<1>8. TouchedInv'
  BY <1>2, <1>7, StillTouched DEF SwitchPath
<1>9. ApplyInv'
  <2>1. \A q : (Handled(q)' <=> Handled(q)) /\ ~Halfway(q)' /\ (Halfway(q) <=> q = p)
    BY <1>1, <1>2 DEF Handled, Halfway
  <2>2. /\ candidate[Main] = task.bundle[Main]
        /\ \A q \in Path : Handled(q) => rollback[q] = task.snapshot[q]
        /\ \A q \in Path : active[q] = IF Handled(q) /\ q # p THEN Target(q) ELSE task.snapshot[q]
    BY <1>1, <2>1 DEF IInv, ApplyInv
  <2>3. candidate' = candidate /\ (\A q : Target(q)' = Target(q)) /\ ~Untouched'
    BY <1>1, <1>2 DEF SwitchPath, Target, Handled, Untouched, Todo
  <2>. QED
    BY <1>1, <1>2, <1>5, <1>6, <2>1, <2>2, <2>3 DEF ApplyInv
<1>10. RollbackInv'
  BY <1>1, <1>2 DEF RollbackInv
<1>11. ~SSH \/ faulted = {} => Dangling(active)' = {}
  BY <1>1, <1>6 DEF SwitchPath, IInv, StoredInv, Dangling, t
<1>12. ~SSH => Dangling(rollback)' = {}
  BY <1>1 DEF SwitchPath, IInv, StoredInv, Dangling
<1>. QED
  BY <1>1, <1>2, <1>6, <1>7, <1>8, <1>9, <1>10, <1>11, <1>12, WorkStep, TouchedFacts
     DEF SwitchPath, IInv, TypeInv

LEMMA DropMainStep == ASSUME IInv, DropMain PROVE IInv'
<1>1. /\ task.op = "rollback" /\ task.pc = "next" /\ Main \in task.todo /\ task \in Call
      /\ active \in Links /\ rollback \in Links /\ rollback' = rollback /\ candidate' = candidate
      /\ stored' = stored /\ control' = control /\ faulted' = faulted /\ rollback[Main] # None /\ Main \in Path
  BY CallOf, TouchedFacts DEF DropMain, Turn, IInv, TypeInv
<1>2. /\ task' \in Call /\ task'.pc = "restore" /\ task'.todo = task.todo
      /\ task'.op = task.op /\ task'.bundle = task.bundle /\ task'.gone = task.gone
      /\ task'.touched = task.touched /\ task'.snapshot = task.snapshot /\ task'.saved = task.saved
  BY <1>1, ToIs DEF DropMain
<1>3. /\ active' \in Links /\ active'[Main] = None
      /\ \A q \in Path : q # Main => active'[q] = active[q]
  BY <1>1 DEF DropMain, Links
<1>4. SameCall
  BY <1>1, <1>2 DEF SameCall
<1>5. TouchedInv' /\ ApplyInv'
  BY <1>1, <1>2, <1>4, StillTouched DEF ApplyInv
<1>6. RollbackInv'
  <2>1. (\A q : Back(q)' <=> Back(q)) /\ Saved' = Saved /\ SSH' = SSH
    BY <1>1, <1>2 DEF Back, Saved, View, SSH
  <2>2. \A q \in Path : active[q] = IF Back(q) /\ q \notin task.todo THEN rollback[q] ELSE task.snapshot[q]
    BY <1>1 DEF IInv, RollbackInv
  <2>3. (~SSH => task.saved = Saved) /\ \A q \in task.todo : Back(q)
    BY <1>1 DEF IInv, RollbackInv
  <2>. QED
    BY <1>1, <1>2, <1>3, <2>1, <2>2, <2>3 DEF RollbackInv
<1>7. (~SSH \/ faulted = {} => Dangling(active)' = {}) /\ (~SSH => Dangling(rollback)' = {})
  BY <1>1, <1>3 DEF IInv, StoredInv, Dangling
<1>. QED
  BY <1>1, <1>2, <1>3, <1>4, <1>5, <1>6, <1>7, WorkStep, TouchedFacts DEF IInv, TypeInv

LEMMA SwitchBackStep == ASSUME IInv, NEW p \in Path, SwitchBack(p) PROVE IInv'
<1>1. /\ task.op = "rollback" /\ task.pc \in {"next", "restore"} /\ p \in task.todo /\ task \in Call
      /\ active \in Links /\ rollback \in Links /\ rollback' = rollback /\ candidate' = candidate
      /\ stored' = stored /\ control' = control /\ faulted' = faulted /\ rollback[Main] # None
      /\ task.pc = "restore" => p = Main
  <2>1. task.op = "rollback" /\ task.pc # "done"
    BY DEF SwitchBack, Turn
  <2>2. CASE p = Main
    BY <2>1, <2>2, CallOf DEF SwitchBack, IInv, TypeInv, RollbackInv
  <2>3. CASE p # Main
    BY <2>1, <2>3, CallOf DEF SwitchBack, Turn, IInv, TypeInv
  <2>. QED
    BY <2>2, <2>3
<1>2. /\ task' \in Call /\ task'.pc = "next" /\ task'.todo = task.todo \ {p}
      /\ task'.op = task.op /\ task'.bundle = task.bundle /\ task'.gone = task.gone
      /\ task'.touched = task.touched /\ task'.snapshot = task.snapshot /\ task'.saved = task.saved
  BY <1>1 DEF SwitchBack, Call
<1>3. /\ active' \in Links /\ active'[p] = rollback[p]
      /\ \A q \in Path : q # p => active'[q] = active[q]
  BY <1>1 DEF SwitchBack, Links
<1>4. SameCall
  BY <1>1, <1>2 DEF SameCall
<1>5. TouchedInv' /\ ApplyInv'
  BY <1>1, <1>2, <1>4, StillTouched DEF ApplyInv
<1>6. \A q \in task.todo : Back(q)
  BY <1>1 DEF IInv, RollbackInv
<1>7. RollbackInv'
  <2>1. (\A q : Back(q)' <=> Back(q)) /\ Saved' = Saved /\ SSH' = SSH
    BY <1>1, <1>2 DEF Back, Saved, View, SSH
  <2>2. \A q \in Path : q # p =>
           active[q] = IF Back(q) /\ q \notin task.todo THEN rollback[q] ELSE task.snapshot[q]
    BY <1>1 DEF IInv, RollbackInv
  <2>3. ~SSH => task.saved = Saved
    BY <1>1 DEF IInv, RollbackInv
  <2>. QED
    BY <1>1, <1>2, <1>3, <1>6, <2>1, <2>2, <2>3 DEF RollbackInv
<1>8. ~SSH \/ faulted = {} => Dangling(active)' = {}
  <2>1. ~SSH \/ faulted = {} => p \notin Dangling(rollback)
    BY <1>1, TouchedFacts DEF IInv, StoredInv
  <2>. QED
    BY <1>1, <1>3, <2>1 DEF IInv, StoredInv, Dangling
<1>9. ~SSH => Dangling(rollback)' = {}
  BY <1>1 DEF IInv, StoredInv, Dangling
<1>. QED
  BY <1>1, <1>2, <1>3, <1>4, <1>5, <1>7, <1>8, <1>9, WorkStep, TouchedFacts DEF IInv, TypeInv

-----------------------------------------------------------------------------
(* How a call ends.                                                        *)

LEMMA RestoredIs ==
    ASSUME IInv, task.op \in {"apply", "rollback"}, task.pc # "done",
           NEW skipped, NEW lost, Restore(skipped, lost)
    PROVE  /\ active' \in Links
           /\ ~SSH => \A p \in Path : active'[p] \in {None, active[p], task.snapshot[p]}
           /\ ~SSH /\ skipped = {} /\ lost = {} => active' = task.snapshot
           /\ task.pc = "undo" => \A p \in Path : active'[p] \in {None, active[p], task.snapshot[p]}
           /\ task.pc = "undo" /\ task.op = "apply" /\ skipped = {} /\ lost = {} => active' = task.snapshot
<1>1. /\ active \in Links /\ rollback \in Links /\ task.snapshot \in Links
      /\ \A p \in Path : active'[p] = IF p \in lost THEN None
                                       ELSE IF p \in skipped THEN active[p] ELSE Previous(p)
      /\ active' = [p \in Path |-> active'[p]]
  BY TouchedFacts DEF Restore
<1>2. \A p \in Path : Previous(p) \in {active[p], rollback[p], task.snapshot[p]}
  BY DEF Previous
<1>3. ~SSH => \A p \in Path : Previous(p) = task.snapshot[p]
  BY DEF Previous
<1>4. ASSUME task.pc = "undo", NEW p \in Path
      PROVE  /\ Previous(p) \in {active[p], task.snapshot[p]}
             /\ task.op = "apply" => Previous(p) = task.snapshot[p]
  <2>1. CASE task.op = "apply"
    <3>1. task.todo = {} /\ ~Halfway(p)
      BY <1>4, <2>1 DEF IInv, TouchedInv, Halfway
    <3>2. Handled(p) <=> p \in task.touched \cup {Main}
      BY <3>1 DEF Handled
    <3>3. IF Handled(p) THEN rollback[p] = task.snapshot[p] ELSE active[p] = task.snapshot[p]
      BY <1>4, <2>1, <3>1 DEF IInv, ApplyInv
    <3>. QED
      BY <2>1, <3>2, <3>3 DEF Previous
  <2>2. CASE task.op = "rollback"
    BY <2>2 DEF Previous
  <2>. QED
    BY <2>1, <2>2
<1>5. active' \in Links
  <2>1. \A p \in Path : active'[p] \in Text \cup {None}
    BY <1>1, <1>2 DEF Links
  <2>. QED
    BY <1>1, <2>1 DEF Links
<1>6. (\A p \in Path : active'[p] = task.snapshot[p]) => active' = task.snapshot
  BY <1>1, <1>5 DEF Links
<1>. QED
  BY <1>1, <1>3, <1>4, <1>5, <1>6

LEMMA FileErrorStep == ASSUME IInv, FileError PROVE IInv'
<1>1. active' = active \/ \E skipped, lost : Restore(skipped, lost)
  BY DEF FileError
<1>2. /\ task.op \in {"apply", "rollback"} /\ task.pc # "done" /\ Return(FALSE) /\ task \in Call
      /\ candidate' = candidate /\ rollback' = rollback /\ stored' = stored /\ control' = control
      /\ faulted' = faulted \cup {"file"} /\ faulted \subseteq {"file", "crash", "stale"} /\ stored \subseteq Path \X Text
  BY DEF FileError, IInv, TypeInv
<1>3. active' \in Links /\ (~SSH => \A p \in Path : active'[p] \in {None, active[p], task.snapshot[p]})
  <2>1. CASE active' = active
    BY <1>2, <2>1, TouchedFacts
  <2>2. CASE \E skipped, lost : Restore(skipped, lost)
    <3>1. PICK skipped, lost : Restore(skipped, lost)
      BY <2>2
    <3>. QED
      BY <1>2, <3>1, RestoredIs
  <2>. QED
    BY <1>1, <2>1, <2>2
<1>4. ~SSH => (Dangling(active) \cup Dangling(candidate) \cup Dangling(rollback))' = {}
  BY <1>2, <1>3 DEF IInv, StoredInv, Dangling, Working
<1>. QED
  BY <1>2, <1>3, <1>4, ReturnIs, FaultStep DEF SameCall

LEMMA CrashStep == ASSUME IInv, Crash PROVE IInv'
<1>1. /\ task.pc # "done" /\ Return(FALSE) /\ task \in Call /\ control' = control
      /\ active' = active /\ candidate' = candidate /\ rollback' = rollback /\ stored' = stored
      /\ faulted' = faulted \cup {"crash"} /\ faulted \subseteq {"file", "crash", "stale"}
      /\ stored \subseteq Path \X Text /\ active \in Links
  BY DEF Crash, files, IInv, TypeInv
<1>2. ~SSH => (Dangling(active) \cup Dangling(candidate) \cup Dangling(rollback))' = {}
  BY <1>1 DEF IInv, StoredInv, Dangling
<1>. QED
  BY <1>1, <1>2, ReturnIs, FaultStep DEF SameCall

\* A call that has touched nothing leaves the links it saw.
LEMMA UntouchedSame ==
    ASSUME IInv, task.op \in {"apply", "rollback"}, task.pc = "next",
           Untouched \/ (task.op = "rollback" /\ rollback[Main] = None)
    PROVE  active = task.snapshot /\ (~SSH => task.saved = Saved)
<1>1. active \in Links /\ task.snapshot \in Links
  BY TouchedFacts
<1>2. \A p \in Path : active[p] = task.snapshot[p]
  <2>1. CASE task.op = "apply"
    <3>1. \A p : ~Handled(p)
      BY <2>1, UntouchedIs DEF Handled
    <3>. QED
      BY <2>1, <3>1 DEF IInv, ApplyInv
  <2>2. CASE task.op = "rollback"
    <3>1. \A p \in Path : Back(p) => p \in task.todo
      BY <2>2, TouchedFacts, CallOf DEF IInv, RollbackInv, Untouched, Todo, Back
    <3>. QED
      BY <2>2, <3>1 DEF IInv, RollbackInv
  <2>. QED
    BY <2>1, <2>2
<1>3. ~SSH => task.saved = Saved
  BY DEF IInv, ApplyInv, RollbackInv
<1>. QED
  BY <1>1, <1>2, <1>3 DEF Links

LEMMA NotStartedStep == ASSUME IInv, NotStarted PROVE IInv'
BY UntouchedSame, NothingDone DEF NotStarted

LEMMA MissingStep == ASSUME IInv, Missing PROVE IInv'
BY UntouchedSame, NothingDone DEF Missing

\* When all links are switched.
LEMMA SwitchedFacts ==
    ASSUME IInv, Switched
    PROVE  /\ task.op = "apply" =>
                \A p \in Path :
                   IF p \in task.touched \cup {Main}
                   THEN active[p] = Target(p) /\ rollback[p] = task.snapshot[p]
                   ELSE active[p] = task.snapshot[p]
           /\ task.op = "rollback" =>
                /\ rollback[Main] # None
                /\ \A p \in Path : active[p] = IF Back(p) THEN rollback[p] ELSE task.snapshot[p]
<1>1. \A p : (Handled(p) <=> p \in task.touched \cup {Main}) /\ ~Halfway(p)
  BY DEF Switched, Handled, Halfway
<1>2. CASE task.op = "apply"
  BY <1>1, <1>2 DEF IInv, ApplyInv, Switched
<1>3. CASE task.op = "rollback"
  <2>1. Back(Main) /\ Main \in Path /\ task.todo = {} /\ task.pc = "next"
    BY <1>3, TouchedFacts DEF Back, Switched
  <2>. QED
    BY <1>3, <2>1 DEF IInv, RollbackInv
<1>. QED
  BY <1>2, <1>3 DEF Switched

LEMMA ConfigureFailsStep == ASSUME IInv, ConfigureFails PROVE IInv'
<1>1. /\ task.op \in {"apply", "rollback"} /\ task.pc = "next" /\ task.todo = {} /\ task \in Call
      /\ active' = active /\ candidate' = candidate /\ rollback' = rollback /\ stored' = stored
      /\ control' = control /\ faulted' = faulted
  BY CallOf DEF ConfigureFails, Switched, files
<1>2. /\ task' \in Call /\ task'.pc = "undo" /\ task'.todo = task.todo
      /\ task'.op = task.op /\ task'.bundle = task.bundle /\ task'.gone = task.gone
      /\ task'.touched = task.touched /\ task'.snapshot = task.snapshot /\ task'.saved = task.saved
  BY <1>1, ToIs DEF ConfigureFails
<1>3. SameCall
  BY <1>1, <1>2 DEF SameCall
<1>4. TouchedInv'
  BY <1>1, <1>2, <1>3, StillTouched
<1>5. ApplyInv'
  <2>1. \A q : (Handled(q)' <=> Handled(q)) /\ ~Halfway(q)' /\ ~Halfway(q)
    BY <1>1, <1>2 DEF Handled, Halfway
  <2>2. (\A q : Target(q)' = Target(q)) /\ ~Untouched'
    BY <1>1, <1>2 DEF Target, Untouched
  <2>. QED
    BY <1>1, <1>2, <2>1, <2>2 DEF IInv, ApplyInv
<1>6. RollbackInv'
  <2>1. CASE task.op = "rollback"
    <3>1. (\A q : Back(q)' <=> Back(q)) /\ Saved' = Saved /\ SSH' = SSH
      BY <1>1, <1>2 DEF Back, Saved, View, SSH
    <3>2. /\ rollback[Main] # None
          /\ \A p \in Path : active[p] = IF Back(p) THEN rollback[p] ELSE task.snapshot[p]
      BY <2>1, SwitchedFacts DEF ConfigureFails
    <3>3. ~SSH => task.saved = Saved
      BY <1>1, <2>1 DEF IInv, RollbackInv
    <3>. QED
      BY <1>1, <1>2, <2>1, <3>1, <3>2, <3>3 DEF RollbackInv
  <2>. QED
    BY <1>1, <1>2, <2>1 DEF RollbackInv
<1>7. (~SSH \/ faulted = {} => Dangling(active)' = {}) /\ (~SSH => Dangling(rollback)' = {})
  BY <1>1 DEF IInv, StoredInv, Dangling
<1>. QED
  BY <1>1, <1>2, <1>3, <1>4, <1>5, <1>6, <1>7, WorkStep, TouchedFacts DEF IInv, TypeInv

LEMMA UndoStep == ASSUME IInv, Undo PROVE IInv'
<1>1. PICK skipped, lost :
         /\ Restore(skipped, lost) /\ lost \subseteq skipped
         /\ faulted' = (IF skipped = {} THEN faulted ELSE faulted \cup {"file"})
  BY DEF Undo
<1>2. /\ task.op \in {"apply", "rollback"} /\ task.pc = "undo" /\ task.todo = {} /\ task \in Call
      /\ candidate' = candidate /\ rollback' = rollback /\ stored' = stored /\ control' = control
  BY CallOf DEF Undo, IInv, StageInv, TouchedInv
<1>3. /\ task' \in Call /\ task'.pc = "reload" /\ task'.todo = task.todo
      /\ task'.op = task.op /\ task'.bundle = task.bundle /\ task'.gone = task.gone
      /\ task'.touched = task.touched /\ task'.snapshot = task.snapshot /\ task'.saved = task.saved
  BY <1>2, ToIs DEF Undo
<1>4. SameCall
  BY <1>2, <1>3 DEF SameCall
<1>5. TouchedInv'
  BY <1>2, <1>3, <1>4, StillTouched
<1>6. /\ active' \in Links /\ \A p \in Path : active'[p] \in {None, active[p], task.snapshot[p]}
      /\ (~SSH \/ task.op = "apply") /\ faulted' = {} => active' = task.snapshot
  BY <1>1, <1>2, RestoredIs
<1>7. ApplyInv'
  <2>1. \A q : (Handled(q)' <=> Handled(q)) /\ ~Halfway(q)' /\ ~Halfway(q)
    BY <1>2, <1>3 DEF Handled, Halfway
  <2>2. ~Untouched'
    BY <1>2, <1>3 DEF Untouched
  <2>. QED
    BY <1>2, <1>3, <1>6, <2>1, <2>2 DEF IInv, ApplyInv
<1>8. RollbackInv'
  <2>1. (\A q : Back(q)' <=> Back(q)) /\ Saved' = Saved /\ SSH' = SSH
    BY <1>2, <1>3 DEF Back, Saved, View, SSH
  <2>. QED
    BY <1>2, <1>3, <1>6, <2>1 DEF IInv, RollbackInv
<1>9. ~SSH \/ faulted = {} => Dangling(active)' = {}
  BY <1>2, <1>6 DEF IInv, StoredInv, Dangling, Working
<1>10. ~SSH => Dangling(rollback)' = {}
  BY <1>2 DEF IInv, StoredInv, Dangling
<1>. QED
  BY <1>1, <1>2, <1>3, <1>4, <1>5, <1>6, <1>7, <1>8, <1>9, <1>10, WorkStep, TouchedFacts DEF IInv, TypeInv

LEMMA CandidateDropped ==
    ASSUME IInv, DropCandidate
    PROVE  /\ candidate' \in Links /\ \A p \in Path : candidate'[p] \in {candidate[p], None}
           /\ \A p \in Resource : candidate'[p] = candidate[p]
BY PathAssumption DEF DropCandidate, IInv, TypeInv, Links, Path

\* A call that has ended without a fault.
LEMMA EndStep ==
    ASSUME IInv, task.op \in {"apply", "rollback"}, task.pc # "done", SameCall, task'.pc = "done",
           task'.todo = task.todo, active' = active, faulted' = faulted, DropCandidate,
           rollback' \in Links, stored' \subseteq stored, SyncInv', StoredInv'
    PROVE  IInv'
<1>1. TypeInv'
  BY CallOf, CandidateDropped DEF IInv, TypeInv, SameCall
<1>2. CallInv'
  BY GoesOn
<1>3. StageInv' /\ ApplyInv' /\ RollbackInv'
  BY DEF StageInv, ApplyInv, RollbackInv, SameCall
<1>4. TouchedInv'
  BY StillTouched, CandidateDropped
<1>. QED
  BY <1>1, <1>2, <1>3, <1>4 DEF IInv

LEMMA ReloadStep == ASSUME IInv, Reload PROVE IInv'
<1>1. /\ task.op \in {"apply", "rollback"} /\ task.pc = "reload" /\ task.todo = {} /\ task \in Call
      /\ active' = active /\ rollback' = rollback /\ stored' = stored /\ control' = control
      /\ faulted' = faulted /\ DropCandidate /\ rollback \in Links
  BY CallOf DEF Reload, IInv, TypeInv, StageInv, TouchedInv
<1>2. /\ task' \in Call /\ task'.pc = "done" /\ task'.ok = FALSE /\ task'.todo = task.todo
      /\ task'.op = task.op /\ task'.bundle = task.bundle /\ task'.gone = task.gone
      /\ task'.touched = task.touched /\ task'.snapshot = task.snapshot /\ task'.saved = task.saved
  BY <1>1, ReturnIs DEF Reload
<1>3. SameCall
  BY <1>1, <1>2 DEF SameCall
<1>4. task.op = "apply" => \A p \in task.touched \cup {Main} : rollback[p] = task.snapshot[p]
  BY <1>1, TouchedFacts DEF IInv, ApplyInv, Handled, Halfway
<1>5. faulted = {} /\ (~SSH \/ task.op = "apply") => active = task.snapshot
  BY <1>1 DEF IInv, ApplyInv, RollbackInv
<1>6. ~Untouched'
  BY <1>1, <1>2 DEF Untouched
<1>10. SyncInv'
  BY <1>1, <1>2, <1>3, <1>4, <1>5, <1>6, CallOf DEF IInv, SyncInv, SameCall, SSH, Working, Shows, Res
<1>7. \A p \in Path : candidate'[p] \in {candidate[p], None}
  BY <1>1, CandidateDropped
<1>8. StoredInv'
  <2>1. ~SSH \/ faulted = {} => Dangling(active)' = {} /\ Dangling(candidate)' = {}
    BY <1>1, <1>7 DEF IInv, StoredInv, Dangling
  <2>2. ~SSH => Dangling(rollback)' = {}
    BY <1>1 DEF IInv, StoredInv, Dangling
  <2>3. faulted = {} /\ task.op = "apply" => Dangling(rollback)' \cap (task.touched \cup {Main}) = {}
    BY <1>1, <1>4 DEF IInv, StoredInv, Dangling, Working
  <2>. QED
    BY <1>1, <1>2, <1>3, <2>1, <2>2, <2>3 DEF StoredInv, SameCall, SSH, Working
<1>. QED
  BY <1>1, <1>2, <1>3, <1>8, <1>10, EndStep

\* What BIRD reads when everything is switched.
LEMMA SwitchedShows ==
    ASSUME IInv, Switched, faulted = {}
    PROVE  /\ task.op = "apply" => Shows(active, task.bundle)
           /\ task.op = "rollback" => Shows(active, control.base)
<1>1. CASE task.op = "apply"
  <2>1. /\ \A p \in Res(task.bundle) \cup {Main} : candidate[p] = task.bundle[p]
        /\ \A p \in task.touched \cup {Main} : active[p] = Target(p)
        /\ \A p \in Path \ (task.touched \cup {Main}) : active[p] = task.snapshot[p]
        /\ Main \notin task.gone
    BY <1>1, SwitchedFacts, TouchedFacts DEF IInv, ApplyInv, TouchedInv, Switched
  <2>2. task.gone \cap Res(task.bundle) = {} /\ task.bundle \in {control.base, control.next}
    BY <1>1, CallOf, NothingKeptGoes
  <2>3. CASE ~(SSH /\ control.session)
    <3>1. Res(task.bundle) \subseteq task.touched
      BY <1>1, <2>2, <2>3, NothingKeptGoes
    <3>. QED
      BY <1>1, <2>1, <2>2, <3>1 DEF Shows, Target
  \* A script switches the main text of a session only: the resources stay.
  <2>4. CASE SSH /\ control.session
    <3>1. control.phase = "apply" /\ task.bundle = control.next /\ SameResources(control.base, control.next)
      BY <1>1, <2>4, CallOf DEF IInv, CallInv, Calls
    <3>2. Shows(task.snapshot, control.base) /\ task.touched = {} /\ Res(control.base) = Res(control.next)
      BY <1>1, <2>4, <3>1, NothingKeptGoes DEF IInv, SyncInv
    <3>3. \A p \in Res(task.bundle) : p \in Path \ (task.touched \cup {Main}) /\ p \in Resource
      BY <1>1, <3>2, TouchedFacts DEF Res, Path
    <3>4. \A p \in Res(task.bundle) : active[p] = task.bundle[p]
      BY <2>1, <3>1, <3>2, <3>3 DEF Shows, SameResources
    <3>5. active[Main] = task.bundle[Main]
      BY <2>1 DEF Target
    <3>. QED
      BY <1>1, <3>4, <3>5 DEF Shows
  <2>. QED
    BY <2>3, <2>4
<1>2. ASSUME task.op = "rollback"
      PROVE  Shows(active, control.base)
  <2>1. control.phase = "rollback" /\ control.base \in Bundle /\ task.pc # "done"
    BY <1>2, CallOf DEF Operation, Switched
  <2>2. rollback[Main] # None /\ \A p \in Path : active[p] = IF Back(p) THEN rollback[p] ELSE task.snapshot[p]
    BY <1>2, SwitchedFacts
  <2>3. ComesBack
    BY <2>1, <2>2 DEF IInv, SyncInv
  <2>4. \A p \in Res(control.base) \cup {Main} : p \in Path /\ control.base[p] # None
    BY <2>1, BundleFacts DEF Path
  <2>. QED
    BY <2>2, <2>3, <2>4 DEF Shows, ComesBack, Back
<1>. QED
  BY <1>1, <1>2 DEF Switched

LEMMA ConfigureStep == ASSUME IInv, Configure PROVE IInv'
<1>1. /\ task.op \in {"apply", "rollback"} /\ task.pc = "next" /\ task.todo = {} /\ task \in Call
      /\ active' = active /\ control' = control /\ faulted' = faulted /\ DropCandidate
      /\ daemon' = View(active) /\ rollback \in Links /\ task.snapshot \in Links /\ Main \in Path
      /\ Switched /\ control \in Operation /\ candidate \in Links
  BY CallOf, TouchedFacts DEF Configure, Switched, IInv, TypeInv
<1>2. /\ task' \in Call /\ task'.pc = "done" /\ task'.ok = TRUE /\ task'.todo = task.todo
      /\ task'.op = task.op /\ task'.bundle = task.bundle /\ task'.gone = task.gone
      /\ task'.touched = task.touched /\ task'.snapshot = task.snapshot /\ task'.saved = task.saved
  BY <1>1, ReturnIs DEF Configure
<1>3. SameCall
  BY <1>1, <1>2 DEF SameCall
<1>4. /\ rollback' \in Links
      /\ task.op = "apply" \/ ~SSH => rollback' = rollback
      /\ \A p \in Path : p # Main => rollback'[p] = rollback[p]
  BY <1>1 DEF Configure, Links
<1>5. faulted = {} => /\ task.op = "apply" => Shows(active, task.bundle)
                      /\ task.op = "rollback" => Shows(active, control.base)
  BY <1>1, SwitchedShows
<1>6. faulted = {} => /\ task.op = "apply" => daemon' = task.bundle
                      /\ task.op = "rollback" => daemon' = control.base
  BY <1>1, <1>5, ViewIs, CallOf DEF Operation
<1>7. task.op = "apply" => \A p \in task.touched \cup {Main} : rollback[p] = task.snapshot[p]
  BY <1>1, SwitchedFacts, TouchedFacts
<1>8. SyncInv'
  <2>1. ~Untouched'
    BY <1>1, <1>2 DEF Untouched
  <2>. QED
    BY <1>1, <1>2, <1>3, <1>4, <1>5, <1>6, <1>7, <2>1, CallOf DEF IInv, SyncInv, SameCall, SSH, Working, Shows, Res
<1>9. \A p \in Path : candidate'[p] \in {candidate[p], None}
  BY <1>1, CandidateDropped
<1>10. task.op = "apply" => candidate[Main] = active[Main]
  BY <1>1, SwitchedFacts, TouchedFacts DEF Target
<1>11. /\ stored' \subseteq stored
       /\ SSH => \A p \in Path : \A t :
                    <<p, t>> \in stored
                    /\ (p # Main \/ task.op = "rollback" \/ t \in {active[Main], task.snapshot[Main]})
                    => <<p, t>> \in stored'
       /\ ~SSH => \A p \in Path : \A t : <<p, t>> \in stored /\ t \in {active'[p], candidate'[p], rollback'[p]} =>
                    <<p, t>> \in stored'
  BY Collected DEF Configure, Cleanup
<1>12. StoredInv'
  <2>1. ~SSH => Dangling(active)' = {} /\ Dangling(candidate)' = {} /\ Dangling(rollback)' = {}
    BY <1>1, <1>4, <1>9, <1>11 DEF IInv, StoredInv, Dangling
  <2>2. SSH /\ faulted = {} => Dangling(active)' = {} /\ Dangling(candidate)' = {}
    BY <1>1, <1>9, <1>10, <1>11 DEF IInv, StoredInv, Dangling
  <2>3. faulted = {} /\ task.op = "apply" => Dangling(rollback)' \cap (task.touched \cup {Main}) = {}
    BY <1>1, <1>4, <1>7, <1>11, <2>1, TouchedFacts DEF IInv, StoredInv, Dangling, Working
  <2>. QED
    BY <1>1, <1>2, <1>3, <2>1, <2>2, <2>3 DEF StoredInv, SameCall, SSH, Working
<1>. QED
  BY <1>1, <1>2, <1>3, <1>4, <1>8, <1>11, <1>12, EndStep

LEMMA AgentStep == ASSUME IInv, Agent PROVE IInv'
BY StagePathStep, StageCheckStep, StageErrorStep, DropCopyStep, SaveCopyStep, SwitchPathStep,
   DropMainStep, SwitchBackStep, NotStartedStep, FileErrorStep, CrashStep, MissingStep, ConfigureStep, ConfigureFailsStep,
   UndoStep, ReloadStep DEF Agent

-----------------------------------------------------------------------------
(* The controller.                                                         *)

\* It touches nothing of the node.
Apart == UNCHANGED <<files, daemon>>

LEMMA ApartFacts ==
    ASSUME IInv, Apart, task.pc = "done"
    PROVE  /\ active' = active /\ candidate' = candidate /\ rollback' = rollback /\ stored' = stored
           /\ daemon' = daemon
           /\ ~SSH \/ faulted = {} => Dangling(active)' = {} /\ Dangling(candidate)' = {}
           /\ ~SSH => Dangling(rollback)' = {}
           /\ active \in Links /\ candidate \in Links /\ rollback \in Links
           /\ stored \subseteq Path \X Text /\ faulted \subseteq {"file", "crash", "stale"}
BY DEF Apart, files, IInv, TypeInv, StoredInv, Dangling

\* An operation is over.
LEMMA SettleStep ==
    ASSUME IInv, Apart, faulted' = faulted, task.pc = "done", NEW b \in Bundle, Settle(b),
           faulted = {} => Shows(active, b) /\ daemon = b
    PROVE  IInv'
<1>1. control' \in Operation /\ control'.phase = "idle" /\ control'.transport = control.transport
      /\ control'.session = FALSE /\ control'.base = b /\ control'.next = b /\ control'.goal = b
  BY CallOf DEF Settle, Operation
<1>2. task' = Idle
  BY DEF Settle
<1>3. task' \in Call /\ task'.op = "none" /\ task'.pc = "done"
  BY <1>2 DEF Idle, Call
<1>4. TypeInv'
  BY <1>1, <1>3, ApartFacts DEF TypeInv
<1>5. CallInv'
  BY <1>1, <1>2 DEF CallInv
<1>6. StageInv' /\ TouchedInv' /\ ApplyInv' /\ RollbackInv'
  BY <1>3 DEF StageInv, TouchedInv, ApplyInv, RollbackInv
<1>7. SyncInv'
  BY <1>1, <1>3, ApartFacts DEF SyncInv, Working, Shows, Res
<1>8. StoredInv'
  BY <1>1, <1>3, ApartFacts DEF StoredInv, Working, SSH, Dangling
<1>. QED
  BY <1>4, <1>5, <1>6, <1>7, <1>8 DEF IInv

\* A stage begins, of a change or of a recovery.
LEMMA StageBegins ==
    ASSUME IInv, Apart, faulted' = faulted, task.pc = "done",
           NEW b \in Bundle, Begin("stage", b, Res(b), {}),
           control' \in Operation, control'.transport = control.transport,
           \/ control.phase = "idle" /\ control'.phase = "stage" /\ control'.base = control.base
              /\ control'.next = b /\ control'.goal = b
              /\ (control'.session => SameResources(b, control.base))
           \/ control'.phase = "restage" /\ control'.goal = b
              /\ control'.base = control.base /\ control'.next = control.next
              /\ b \in {control.base, control.next} /\ control'.session = FALSE
    PROVE  IInv'
<1>1. /\ task' \in Call /\ task'.op = "stage" /\ task'.bundle = b /\ task'.gone = {}
      /\ task'.todo = Todo("stage", b, Concerned(Res(b))) \cup {Main}
      /\ task'.pc = "next" /\ task'.snapshot = active /\ task'.ok = FALSE
  <2>1. /\ TypeInv /\ {} \in SUBSET Resource /\ "stage" \in {"stage", "apply", "rollback"}
        /\ Res(b) \in SUBSET Resource
    BY BundleFacts DEF IInv
  <2>2. Begin("stage", b, Res(b), {})
    OBVIOUS
  <2>. QED
    BY ONLY <2>1, <2>2, BegunIs, b \in Bundle
<1>2. task'.todo = Res(task'.bundle) \cup {Main}
  BY <1>1 DEF Todo
<1>3. TypeInv'
  BY <1>1, ApartFacts DEF TypeInv
<1>4. CallInv'
  BY <1>1 DEF CallInv, Calls, SameResources
<1>5. StageInv' /\ TouchedInv' /\ ApplyInv' /\ RollbackInv'
  BY <1>1, <1>2 DEF StageInv, TouchedInv, ApplyInv, RollbackInv, Res
<1>6. ~Working /\ ~Working'
  BY <1>1 DEF Working
<1>7. SyncInv'
  <2>1. CASE control.phase = "idle"
    BY <1>1, <1>6, <2>1, ApartFacts DEF IInv, SyncInv, Shows, Res, SSH
  <2>2. CASE control'.phase = "restage" /\ control'.base = control.base /\ control'.next = control.next
    BY <1>1, <1>6, <2>2, ApartFacts DEF IInv, SyncInv, Shows, Res, SSH
  <2>. QED
    BY <2>1, <2>2
<1>8. StoredInv'
  BY <1>1, <1>6, ApartFacts DEF StoredInv, SSH
<1>. QED
  BY <1>3, <1>4, <1>5, <1>7, <1>8 DEF IInv

\* What was staged is applied.
LEMMA ApplyBegins ==
    ASSUME IInv, Apart, faulted' = faulted, task.pc = "done", task.ok, task.op = "stage",
           NEW b \in Bundle, b = task.bundle, NEW gone \in SUBSET Resource, CallFor("apply", b, gone),
           control' \in Operation, control'.transport = control.transport, control'.session = control.session,
           control'.base = control.base, control'.next = control.next, control'.goal = control.goal,
           \/ control.phase = "stage" /\ control'.phase = "apply" /\ b = control.next
              /\ gone = Gone(control.base, control.next)
           \/ control.phase = "restage" /\ control'.phase = "reapply" /\ b = control.goal
              /\ gone = Gone(Other, control.goal)
    PROVE  IInv'
<1>1. /\ task' \in Call /\ task'.op = "apply" /\ task'.bundle = b /\ task'.gone = gone
      /\ task'.touched = Concerned(Naming(b, gone))
      /\ task'.todo = Todo("apply", b, Concerned(Naming(b, gone))) \cup {Main}
      /\ task'.pc = "next" /\ task'.snapshot = active /\ task'.saved = Saved /\ task'.ok = FALSE
  BY CalledIs DEF IInv
<1>2. task'.todo = task'.touched \cup {Main}
  BY <1>1 DEF Todo
<1>3. TypeInv'
  BY <1>1, ApartFacts DEF TypeInv
<1>4. CallInv'
  BY <1>1 DEF IInv, CallInv, Calls, Gone, Other, SameResources
<1>5. StageInv' /\ RollbackInv'
  BY <1>1 DEF StageInv, RollbackInv
<1>6. TouchedInv'
  <2>1. (\A p \in Res(b) : candidate[p] = b[p]) /\ Res(task.bundle)' = Res(b)
    BY <1>1 DEF IInv, StageInv, Res
  <2>2. Concerned(Naming(task.bundle, task.gone))' = Concerned(Naming(b, gone))
    BY <1>1, ApartFacts DEF Concerned, Naming, SSH, Res
  <2>. QED
    BY <1>1, <1>2, <2>1, <2>2, ApartFacts DEF TouchedInv
<1>7. ApplyInv'
  <2>1. candidate[Main] = b[Main]
    BY DEF IInv, StageInv
  <2>2. \A p : ~Handled(p)' /\ ~Halfway(p)'
    BY <1>1, <1>2 DEF Handled, Halfway
  <2>3. Saved' = Saved
    BY ApartFacts DEF Saved, View
  <2>. QED
    BY <1>1, <2>1, <2>2, <2>3, ApartFacts DEF ApplyInv
<1>8. ~Working /\ Working'
  BY <1>1 DEF Working
<1>9. SyncInv'
  BY <1>1, <1>8, ApartFacts DEF IInv, SyncInv, Shows, Res, SSH
<1>10. StoredInv'
  BY <1>1, <1>8, ApartFacts DEF StoredInv, SSH, Dangling
<1>. QED
  BY <1>3, <1>4, <1>5, <1>6, <1>7, <1>9, <1>10 DEF IInv

\* What was applied is taken back.
LEMMA RollBackStep == ASSUME IInv, Apart, RollBack PROVE IInv'
<1> DEFINE b == control.next
           gone == Gone(control.base, control.next)
<1>1. /\ task.pc = "done" /\ control.phase = "apply" /\ task.op = "apply" /\ b \in Bundle
      /\ gone \in SUBSET Resource /\ task.bundle = b /\ task.gone = gone /\ CallFor("rollback", b, gone)
      /\ task \in Call
  BY CallOf, BundleFacts DEF RollBack, Answered, Operation, Gone, IInv, CallInv, Calls
<1>2. /\ control' \in Operation /\ control'.phase = "rollback" /\ control'.transport = control.transport
      /\ control'.session = control.session
      /\ control'.base = control.base /\ control'.next = control.next /\ control'.goal = control.base
  BY CallOf DEF RollBack, Operation
<1>3. /\ task' \in Call /\ task'.op = "rollback" /\ task'.bundle = b /\ task'.gone = gone
      /\ task'.touched = Concerned(Naming(b, gone))
      /\ task'.todo = Todo("rollback", b, Concerned(Naming(b, gone))) \cup {Main}
      /\ task'.pc = "next" /\ task'.snapshot = active /\ task'.saved = Saved /\ task'.ok = FALSE
  BY <1>1, CalledIs DEF IInv
\* The rollback is about the resources the apply was about.
<1>4. task'.touched = task.touched
  BY <1>1, <1>3 DEF IInv, TouchedInv
<1>5. task'.todo = {p \in task'.touched : rollback[p] # None \/ SSH} \cup {Main}
  BY <1>3 DEF Todo
<1>6. /\ faulted' \subseteq {"file", "crash", "stale"}
      /\ faulted' = {} => faulted = {} /\ (rollback[Main] # None => ~Untouched)
  BY DEF RollBack, IInv, TypeInv
<1>7. active' = active /\ candidate' = candidate /\ rollback' = rollback /\ stored' = stored
      /\ daemon' = daemon /\ SSH' = SSH
  BY <1>1, <1>2, ApartFacts DEF SSH
<1>8. TypeInv'
  BY <1>1, <1>2, <1>3, <1>6, ApartFacts DEF TypeInv
<1>9. CallInv'
  BY <1>2, <1>3 DEF IInv, CallInv, Calls, Gone, SameResources
<1>10. StageInv' /\ ApplyInv'
  BY <1>3 DEF StageInv, ApplyInv
<1>11. TouchedInv'
  <2>1. (\A p \in Res(b) : candidate[p] = b[p]) /\ Res(task.bundle)' = Res(b)
    BY <1>1, <1>3 DEF IInv, TouchedInv, Res
  <2>2. Concerned(Naming(task.bundle, task.gone))' = Concerned(Naming(b, gone))
    BY <1>2, <1>3, <1>7 DEF Concerned, Naming, Res
  <2>. QED
    BY <1>3, <1>5, <1>7, <2>1, <2>2 DEF TouchedInv
<1>12. RollbackInv'
  <2>1. Saved' = Saved /\ \A p : Back(p)' <=> p \in task'.todo
    BY <1>5, <1>7 DEF Back, Saved, View
  <2>. QED
    BY <1>3, <1>5, <1>7, <2>1 DEF RollbackInv
<1>13. ~Working /\ Working'
  BY <1>1, <1>3 DEF Working
<1>14. SyncInv'
  <2>1. ASSUME faulted' = {}, rollback[Main] # None PROVE ComesBack'
    <3>1. /\ \A p \in task.touched \cup {Main} : rollback[p] = task.snapshot[p]
          /\ Shows(task.snapshot, control.base)
          /\ IF task.ok THEN Shows(active, b) ELSE active = task.snapshot
      BY <1>1, <1>6, <2>1 DEF IInv, SyncInv
    <3>2. \A p \in Res(control.base) : p \notin task.touched => active[p] = control.base[p]
      <4>1. CASE ~(SSH /\ control.session)
        BY <1>1, <4>1, NothingKeptGoes
      <4>2. CASE SSH /\ control.session
        <5>1. SameResources(control.base, b) /\ Res(control.base) = Res(b)
          BY <1>1, <4>2, NothingKeptGoes DEF IInv, CallInv
        <5>. QED
          BY <3>1, <5>1 DEF Shows, SameResources, Res
      <4>. QED
        BY <4>1, <4>2
    <3>3. Res(control.base)' = Res(control.base)
      BY <1>2 DEF Res
    <3>. QED
      BY <1>2, <1>3, <1>4, <1>7, <3>1, <3>2, <3>3 DEF ComesBack, Shows
  <2>2. ASSUME faulted' = {}, ~SSH PROVE \E c \in {control.base, control.next} : Shows(active, c)
    BY <1>6, <1>13, <2>2 DEF IInv, SyncInv
  <2>. QED
    BY <1>1, <1>2, <1>3, <1>7, <1>13, <2>1, <2>2 DEF SyncInv, Shows, Res
<1>15. StoredInv'
  <2>1. faulted' = {} /\ rollback[Main] # None => Dangling(rollback) \cap (task.touched \cup {Main}) = {}
    BY <1>1, <1>6 DEF IInv, StoredInv
  <2>. QED
    BY <1>1, <1>2, <1>3, <1>4, <1>6, <1>7, <1>13, <2>1, ApartFacts DEF StoredInv, Dangling
<1>. QED
  BY <1>8, <1>9, <1>10, <1>11, <1>12, <1>14, <1>15 DEF IInv

LEMMA RestageStep ==
    ASSUME IInv, Apart, faulted' = faulted, task.pc = "done",
           NEW b \in {control.base, control.next}, Restage(b)
    PROVE  IInv'
<1>1. /\ control' \in Operation /\ control'.phase = "restage" /\ control'.transport = control.transport
      /\ control'.base = control.base /\ control'.next = control.next /\ control'.goal = b /\ b \in Bundle
      /\ control'.session = FALSE
  BY CallOf DEF Restage, Operation
<1>2. Begin("stage", b, Res(b), {})
  BY DEF Restage
<1>. QED
  BY <1>1, <1>2, StageBegins

LEMMA ChangeStep == ASSUME IInv, Change PROVE IInv'
<1>1. PICK b \in Bundle, session \in BOOLEAN :
        /\ session => SameResources(b, control.base)
        /\ control' = [control EXCEPT !.phase = "stage", !.session = session,
                                      !.next = b, !.goal = b, !.changes = @ + 1]
        /\ Begin("stage", b, Res(b), {})
  BY Zenon DEF Change
<1>2. /\ control' \in Operation /\ control'.phase = "stage" /\ control'.transport = control.transport
      /\ control'.base = control.base /\ control'.next = b /\ control'.goal = b
      /\ control'.session = session
  <2> DEFINE changes == control.changes + 1
  <2>1. control \in Operation /\ changes \in Nat
    BY CallOf DEF Operation
  <2>2. control' = [control EXCEPT !.phase = "stage", !.session = session,
                                   !.next = b, !.goal = b, !.changes = changes]
    BY <1>1
  <2> HIDE DEF changes
  <2>. QED
    BY <2>1, <2>2 DEF Operation
<1>3. Apart /\ faulted' = faulted /\ task.pc = "done" /\ control.phase = "idle"
  BY CallOf DEF Change, Apart
<1>. QED
  BY <1>1, <1>2, <1>3, StageBegins

LEMMA ControllerStep == ASSUME IInv, Controller PROVE IInv'
<1>1. Apart /\ control \in Operation /\ control.base \in Bundle /\ control.next \in Bundle
      /\ control.goal \in Bundle /\ control.goal \in {control.base, control.next}
  BY CallOf DEF Controller, Apart, IInv, CallInv, Operation
<1>2. CASE Deploy /\ faulted' = faulted
  <2>1. /\ control' \in Operation /\ control'.phase = "apply" /\ control'.transport = control.transport
        /\ control'.base = control.base /\ control'.next = control.next /\ control'.goal = control.goal
        /\ control'.session = control.session
    BY <1>1, <1>2 DEF Deploy, Operation
  <2>2. /\ task.pc = "done" /\ task.ok /\ control.phase = "stage" /\ task.op = "stage"
        /\ task.bundle = control.next /\ Gone(control.base, control.next) \in SUBSET Resource
    BY <1>1, <1>2, CallOf, BundleFacts DEF Deploy, Answered, Gone, IInv, CallInv, Calls
  <2>. QED
    BY <1>1, <1>2, <2>1, <2>2, ApplyBegins DEF Deploy
<1>3. CASE Reapply /\ faulted' = faulted
  <2>1. /\ control' \in Operation /\ control'.phase = "reapply" /\ control'.transport = control.transport
        /\ control'.base = control.base /\ control'.next = control.next /\ control'.goal = control.goal
        /\ control'.session = control.session
    BY <1>1, <1>3 DEF Reapply, Operation
  <2>2. /\ task.pc = "done" /\ task.ok /\ control.phase = "restage" /\ task.op = "stage"
        /\ task.bundle = control.goal /\ Gone(Other, control.goal) \in SUBSET Resource
    BY <1>1, <1>3, CallOf, BundleFacts DEF Reapply, Answered, Gone, Other, IInv, CallInv, Calls
  <2>. QED
    BY <1>1, <1>3, <2>1, <2>2, ApplyBegins DEF Reapply
<1>4. CASE GiveUp /\ faulted' = faulted
  BY <1>1, <1>4, SettleStep DEF GiveUp, Answered, IInv, SyncInv
<1>5. CASE Commit /\ faulted' = faulted
  <2>1. task.pc = "done" /\ task.ok /\ task.op = "apply" /\ task.bundle = control.next
    BY <1>5, CallOf DEF Commit, Answered, IInv, CallInv, Calls
  <2>. QED
    BY <1>1, <1>5, <2>1, SettleStep DEF Commit, IInv, SyncInv
<1>6. CASE RolledBack /\ faulted' = faulted
  BY <1>1, <1>6, SettleStep DEF RolledBack, Answered, IInv, SyncInv
<1>7. CASE Recovered /\ faulted' = faulted
  <2>1. task.pc = "done" /\ task.ok /\ task.op = "apply" /\ task.bundle = control.goal
    BY <1>7, CallOf DEF Recovered, Answered, IInv, CallInv, Calls
  <2>. QED
    BY <1>1, <1>7, <2>1, SettleStep DEF Recovered, IInv, SyncInv
<1>8. CASE RollBack
  BY <1>1, <1>8, RollBackStep
<1>9. CASE Recover /\ faulted' = faulted
  BY <1>1, <1>9, RestageStep DEF Recover, Answered
<1>. QED
  BY <1>2, <1>3, <1>4, <1>5, <1>6, <1>7, <1>8, <1>9 DEF Controller

-----------------------------------------------------------------------------
(* What holds always.                                                      *)

LEMMA Initially == ASSUME Init PROVE IInv
<1>1. PICK b \in Bundle, transport \in {"agent", "ssh"} :
        /\ active = b /\ daemon = b
        /\ control = [phase |-> "idle", transport |-> transport,
                      session |-> FALSE, base |-> b, next |-> b, goal |-> b, changes |-> 0]
  BY DEF Init
<1>2. control \in Operation /\ control.phase = "idle" /\ ~control.session /\ control.base = b /\ control.next = b /\ control.goal = b
  BY <1>1 DEF Operation
<1>3. task = Idle /\ task \in Call /\ task.op = "none" /\ task.pc = "done" /\ faulted = {}
  BY DEF Init, Idle, Call
<1>4. /\ active \in Links /\ candidate = [p \in Path |-> None] /\ rollback = candidate
      /\ candidate \in Links /\ stored = {<<p, active[p]>> : p \in {q \in Path : active[q] # None}}
  BY <1>1, BundleFacts DEF Init, Links
<1>5. stored \subseteq Path \X Text
  BY <1>4 DEF Links
<1>6. Dangling(active) = {} /\ Dangling(candidate) = {} /\ Dangling(rollback) = {}
  BY <1>4 DEF Dangling
<1>7. TypeInv
  BY <1>2, <1>3, <1>4, <1>5 DEF TypeInv
<1>8. CallInv /\ StageInv /\ TouchedInv /\ ApplyInv /\ RollbackInv
  BY <1>2, <1>3 DEF CallInv, StageInv, TouchedInv, ApplyInv, RollbackInv
<1>9. SyncInv
  BY <1>1, <1>2, <1>3 DEF SyncInv, Shows, Working
<1>10. StoredInv
  BY <1>3, <1>6 DEF StoredInv, Working
<1>. QED
  BY <1>7, <1>8, <1>9, <1>10 DEF IInv

LEMMA Inductive == ASSUME IInv, [Next]_vars PROVE IInv'
<1>1. CASE Next
  BY <1>1, AgentStep, ControllerStep, ChangeStep DEF Next
<1>2. CASE UNCHANGED vars
  BY <1>2 DEF vars, files, IInv, TypeInv, CallInv, Calls, Gone, Other, SameResources, StageInv, TouchedInv,
     Concerned, Naming, SSH, ApplyInv, Untouched, Todo, RollbackInv, Back, Handled, Halfway, Target,
     Saved, View, SyncInv, ComesBack, Shows, Working, StoredInv, Dangling, Res
<1>. QED
  BY <1>1, <1>2

LEMMA Invariant == Spec => []IInv
<1>1. Init => IInv
  BY Initially
<1>2. IInv /\ [Next]_vars => IInv'
  BY Inductive
<1>. QED
  BY <1>1, <1>2, PTL DEF Spec

\* No link loses the version it names, whatever fails or dies half-way.
THEOREM NothingNamedIsCollected == Spec => []NothingDangles
<1>1. IInv => NothingDangles
  BY DEF IInv, StoredInv, NothingDangles
<1>. QED
  BY <1>1, Invariant, PTL

\* Whatever calls never start, and until a file operation fails, something dies
\* in a call or an apply that has not started is rolled back to the copies of an
\* earlier change: a node at rest has, and has loaded, the configuration of the
\* inventory.
THEOREM RestsInSync == Spec => []SettledInSync
<1>1. ASSUME IInv, control.phase = "idle", faulted = {}
      PROVE  View(active) = control.base /\ daemon = control.base
  BY <1>1, ViewIs, CallOf DEF IInv, SyncInv, Operation
<1>2. IInv => SettledInSync
  BY <1>1 DEF SettledInSync
<1>. QED
  BY <1>2, Invariant, PTL

-----------------------------------------------------------------------------
(* The calls of an agent are atomic.                                       *)

Conf == IF Working THEN View(task.snapshot) ELSE View(active)
Kept == IF Working THEN task.saved ELSE Saved
Broken == faulted # {} \/ SSH

\* The steps an agent and its controller take without a fault.
Quiet == ~Working /\ ~Working' /\ active' = active /\ rollback' = rollback
Begins == ~Working /\ Working' /\ task'.snapshot = active /\ task'.saved = Saved
Works == Working /\ Working' /\ task'.snapshot = task.snapshot /\ task'.saved = task.saved
Drops == Working /\ task'.pc = "done" /\ active' = task.snapshot /\ Saved' = task.saved
Ends ==
    /\ Working /\ task'.pc = "done" /\ task.todo = {} /\ task'.todo = {} /\ task'.op = task.op /\ task'.bundle = task.bundle
    /\ task'.snapshot = task.snapshot /\ task'.touched = task.touched /\ control' = control
    /\ task.op = "rollback" => rollback' = rollback
    /\ task.op = "rollback" /\ ~task'.ok => active' = task.snapshot

LEMMA TransportStays ==
    ASSUME IInv, Change \/ Controller
    PROVE  control'.transport = control.transport
<1>1. control \in Operation
  BY CallOf
<1>2. CASE Change
  <2>1. PICK b, session :
          control' = [control EXCEPT !.phase = "stage", !.session = session,
                                     !.next = b, !.goal = b, !.changes = @ + 1]
    BY <1>2, Zenon DEF Change
  <2>. QED
    BY <1>1, <2>1 DEF Operation
<1>3. CASE Controller
  BY <1>1, <1>3 DEF Operation, Controller, Deploy, GiveUp, Commit, RollBack, RolledBack,
     Recover, Reapply, Recovered, Settle, Restage
<1>. QED
  BY <1>2, <1>3

LEMMA SettlesOrBegins ==
    ASSUME Change \/ Controller
    PROVE  \/ task' = Idle
           \/ \E op \in {"stage", "apply", "rollback"} : \E b, named, gone : Begin(op, b, named, gone)
<1>1. CASE Change
  BY <1>1, Zenon DEF Change
<1>2. CASE Controller
  BY <1>2 DEF Controller, Deploy, GiveUp, Commit, RollBack, RolledBack,
     Recover, Reapply, Recovered, Settle, Restage, CallFor
<1>. QED
  BY <1>1, <1>2

LEMMA ToldApart ==
    ASSUME IInv, Next, ~SSH, faulted' = {}
    PROVE  faulted = {} /\ ~SSH' /\ (Quiet \/ Begins \/ Works \/ Drops \/ Ends)
<1>1. task \in Call /\ control \in Operation /\ TypeInv /\ (task.op # "none" => task.bundle \in Bundle)
  BY CallOf DEF IInv
<1>2. CASE \E p \in Path : StagePath(p)
  BY <1>1, <1>2, TakenIs DEF StagePath, Quiet, Working, SSH
<1>3. CASE StageCheck
  BY <1>1, <1>3, ReturnIs DEF StageCheck, Quiet, Working, SSH
<1>4. CASE \E p \in Path : DropCopy(p)
  <2>1. PICK p \in Path : DropCopy(p)
    BY <1>4
  <2>2. task'.op = "apply" /\ task'.pc = "save" /\ task'.snapshot = task.snapshot /\ task'.saved = task.saved
    BY <1>1, <2>1 DEF DropCopy, Call
  <2>. QED
    BY <2>1, <2>2 DEF DropCopy, Turn, Works, Working, SSH
<1>5. CASE \E p \in Path : SwitchBack(p)
  <2>1. PICK p \in Path : SwitchBack(p)
    BY <1>5
  <2>2. task'.op = "rollback" /\ task'.pc = "next" /\ task'.snapshot = task.snapshot /\ task'.saved = task.saved
    BY <1>1, <2>1 DEF SwitchBack, Call
  <2>3. task.pc # "done" /\ control' = control /\ faulted' = faulted /\ task.op = "rollback"
    BY <2>1 DEF SwitchBack, Turn
  <2>. QED
    BY <2>2, <2>3 DEF Works, Working, SSH
<1>6. CASE SaveCopy \/ SwitchPath \/ DropMain \/ ConfigureFails
  BY <1>1, <1>6, ToIs, Halves
     DEF SaveCopy, SwitchPath, DropMain, Turn, ConfigureFails, Switched, Works, Working, SSH
<1>7. CASE Undo
  <2>1. task.op \in {"apply", "rollback"} /\ task.pc = "undo" /\ faulted \subseteq faulted'
    BY <1>7, CallOf DEF Undo, IInv, StageInv
  <2>. QED
    BY <1>1, <1>7, <2>1, ToIs DEF Undo, Works, Working, SSH
<1>8. CASE Configure
  BY <1>1, <1>8, ReturnIs DEF Configure, Switched, Ends, Working, SSH
<1>9. CASE Reload
  <2>1. task.op \in {"apply", "rollback"} /\ task.pc = "reload" /\ faulted' = faulted
    BY <1>9, CallOf DEF Reload, IInv, StageInv
  <2>2. (task.op = "rollback" => active = task.snapshot) /\ task.todo = {}
    BY <2>1 DEF IInv, RollbackInv, TouchedInv
  <2>. QED
    BY <1>1, <1>9, <2>1, <2>2, ReturnIs DEF Reload, Ends, Working, SSH
<1>10. CASE NotStarted \/ Missing
  <2>1. /\ task.pc = "next" /\ Return(FALSE) /\ control' = control /\ faulted' = faulted
        /\ active' = active /\ rollback' = rollback
    BY <1>10 DEF NotStarted, Missing, files
  <2>2. CASE task.op \in {"apply", "rollback"}
    <3>1. active = task.snapshot /\ task.saved = Saved
      BY <1>10, <2>2, UntouchedSame DEF NotStarted, Missing
    <3>2. Saved' = Saved
      BY <2>1 DEF Saved
    <3>. QED
      BY <1>1, <2>1, <2>2, <3>1, <3>2, ReturnIs DEF Drops, Working, SSH
  <2>3. CASE task.op \notin {"apply", "rollback"}
    BY <1>1, <2>1, <2>3, ReturnIs DEF Quiet, Working, SSH
  <2>. QED
    BY <2>2, <2>3
<1>11. CASE StageError \/ FileError \/ Crash
  BY <1>11 DEF StageError, FileError, Crash
<1>12. CASE Change \/ Controller
  <2>1. /\ active' = active /\ rollback' = rollback /\ task.pc = "done" /\ faulted \subseteq faulted'
    <3>1. CASE Change
      BY <3>1, CallOf DEF Change, files
    <3>2. CASE Controller
      BY <3>2 DEF Controller, files, Deploy, GiveUp, Commit, RollBack, RolledBack,
         Recover, Reapply, Recovered, Answered
    <3>. QED
      BY <1>12, <3>1, <3>2
  <2>2. control'.transport = control.transport
    BY <1>12, TransportStays
  <2>3. \/ task' = Idle
        \/ \E op \in {"stage", "apply", "rollback"} : \E b, named, gone : Begin(op, b, named, gone)
    BY <1>12, SettlesOrBegins
  <2>4. CASE task' = Idle
    BY <2>1, <2>2, <2>4 DEF Idle, Quiet, Working, SSH
  <2>5. ASSUME NEW op \in {"stage", "apply", "rollback"}, NEW b, NEW named, NEW gone,
               Begin(op, b, named, gone)
        PROVE  Quiet \/ Begins
    <3>1. task'.op = op /\ task'.pc = "next" /\ task'.snapshot = active /\ task'.saved = Saved
      BY <2>5 DEF Begin
    <3>. QED
      BY <2>1, <3>1 DEF Quiet, Begins, Working
  <2>. QED
    BY <2>1, <2>2, <2>3, <2>4, <2>5 DEF SSH
<1>. QED
  BY <1>2, <1>3, <1>4, <1>5, <1>6, <1>7, <1>8, <1>9, <1>10, <1>11, <1>12 DEF Next, Agent

\* What was saved is what the node had.
LEMMA CopiesShow ==
    ASSUME IInv, NEW b \in Bundle, Shows(rollback, b)
    PROVE  Saved = b
BY ViewIs, BundleFacts DEF Saved, Shows, Path

\* A rollback that has no links left to switch had a copy of the main text.
LEMMA EndsSwitched ==
    ASSUME IInv, task.op = "rollback", task.pc # "done", task.todo = {}
    PROVE  rollback[Main] # None
<1>1. Main \in Path /\ Back(Main)
  BY TouchedFacts DEF Back
<1>. QED
  BY <1>1 DEF IInv, RollbackInv

LEMMA EndsAtomically ==
    ASSUME IInv, IInv', ~SSH, ~SSH', faulted = {}, faulted' = {}, Ends
    PROVE  \/ Conf' \in Bundle /\ Kept' = Conf
           \/ Kept' = Conf /\ Conf' = Conf
           \/ Kept # None /\ Conf' = Kept /\ Kept' = Kept
           \/ Kept' = Kept /\ Conf' = Conf
<1>1. /\ Conf = View(task.snapshot) /\ Kept = task.saved /\ Conf' = View(active') /\ Kept' = Saved'
      /\ control \in Operation /\ control.base \in Bundle /\ control.next \in Bundle
      /\ task.op \in {"apply", "rollback"} /\ task.bundle \in Bundle
  BY CallOf DEF Ends, Conf, Kept, Working, Operation
<1>2. PICK b \in {control.base, control.next} : Shows(task.snapshot, b)
  BY DEF IInv, SyncInv, Ends
<1>3. Conf = b
  BY <1>1, <1>2, ViewIs
<1>4. CASE task.op = "apply"
  <2>1. Res(b) \subseteq task.touched
    BY <1>1, NothingKeptGoes
  <2>2. (\A p \in task.touched \cup {Main} : rollback[p] = task.snapshot[p])'
    <3>1. ~Untouched'
      BY DEF Ends, Untouched
    <3>. QED
      BY <1>4, <3>1 DEF IInv, SyncInv, Ends
  <2>3. Shows(rollback', b)
    BY <1>2, <2>1, <2>2 DEF Ends, Shows
  <2>4. Saved' = b
    BY <1>1, <2>3, ViewIs, BundleFacts DEF Saved, Shows, Path
  <2>5. CASE task'.ok
    <3>1. Shows(active', task.bundle)
      BY <1>4, <2>5 DEF IInv, SyncInv, Ends, Shows, Res
    <3>2. Conf' = task.bundle
      BY <1>1, <3>1, ViewIs
    <3>. QED
      BY <1>1, <1>3, <2>4, <3>2
  <2>6. CASE ~task'.ok
    <3>1. active' = task.snapshot
      BY <1>4, <2>6 DEF IInv, SyncInv, Ends
    <3>. QED
      BY <1>1, <1>3, <2>4, <3>1
  <2>. QED
    BY <2>5, <2>6
<1>5. CASE task.op = "rollback"
  <2>1. control.phase = "rollback" /\ task.pc # "done" /\ task.saved = Saved
    BY <1>5, CallOf DEF Ends, Working, IInv, RollbackInv
  <2>2. Shows(rollback, control.base)
    <3>1. rollback[Main] # None
      BY <1>5, <2>1, EndsSwitched DEF Ends
    <3>2. ComesBack /\ Res(control.base) \subseteq task.touched
      BY <1>1, <2>1, <3>1, NothingKeptGoes DEF IInv, SyncInv
    <3>. QED
      BY <3>2 DEF ComesBack, Shows
  <2>3. Saved = control.base /\ control.base # None
    BY <1>1, <2>2, CopiesShow, BundleFacts
  <2>4. Saved' = Saved
    BY <1>5 DEF Ends, Saved
  <2>5. CASE task'.ok
    <3>1. Shows(active', control.base)
      BY <2>1, <2>5 DEF IInv, SyncInv, Ends, Shows, Res
    <3>2. Conf' = control.base
      BY <1>1, <3>1, ViewIs
    <3>. QED
      BY <1>1, <2>1, <2>3, <2>4, <3>2
  <2>6. CASE ~task'.ok
    BY <1>1, <1>5, <2>1, <2>4, <2>6 DEF Ends
  <2>. QED
    BY <2>5, <2>6
<1>. QED
  BY <1>1, <1>4, <1>5

LEMMA AgentKeepsControl == ASSUME Agent PROVE control' = control
<1>1. CASE \E p \in Path : StagePath(p) \/ DropCopy(p) \/ SwitchBack(p)
  BY <1>1 DEF StagePath, DropCopy, SwitchBack
<1>2. CASE NotStarted \/ StageCheck \/ StageError \/ Missing
  BY <1>2 DEF NotStarted, StageCheck, StageError, Missing
<1>3. CASE SaveCopy \/ SwitchPath \/ DropMain \/ FileError
  BY <1>3 DEF SaveCopy, SwitchPath, DropMain, FileError
<1>4. CASE Configure \/ ConfigureFails \/ Undo \/ Reload \/ Crash
  BY <1>4 DEF Configure, ConfigureFails, Undo, Reload, Crash
<1>. QED
  BY <1>1, <1>2, <1>3, <1>4 DEF Agent

\* However its links are switched one by one: a call of the agent changes the node
\* as a whole or not at all, until a fault of the three kinds.
THEOREM AgentIsAtomic == Spec => CallsAreAtomic
<1>1. Init /\ IInv => AsNode!Init
  <2>1. ASSUME Init, IInv PROVE Conf \in Bundle /\ Kept = None /\ Broken \in BOOLEAN
    <3>1. ~Working /\ rollback[Main] = None
      BY <2>1 DEF Init, Idle, Working, Path
    <3>2. View(active) = control.base /\ control.base \in Bundle
      BY <2>1, ViewIs, CallOf DEF Init, IInv, SyncInv, Operation
    <3>. QED
      BY <3>1, <3>2 DEF Conf, Kept, Saved, Broken
  <2>. QED
    BY <2>1 DEF AsNode!Init, Conf, Kept, Broken
<1>2. IInv /\ IInv' /\ [Next]_vars => [AsNode!Next]_AsNode!vars
  <2>1. ASSUME IInv, IInv', Next, Broken' PROVE AsNode!Next
    BY <2>1 DEF AsNode!Next, Broken
  <2>2. ASSUME IInv, IInv', Next, ~SSH, ~Broken' PROVE [AsNode!Next]_AsNode!vars
    <3>1. faulted' = {} /\ faulted = {} /\ ~SSH' /\ (Quiet \/ Begins \/ Works \/ Drops \/ Ends)
      BY <2>2, ToldApart DEF Broken
    <3>2. Broken' = Broken
      BY <2>2, <3>1 DEF Broken
    <3>3. CASE Quiet \/ Begins \/ Works
      <4>1. Conf' = Conf /\ Kept' = Kept
        BY <3>3 DEF Quiet, Begins, Works, Conf, Kept, Saved
      <4>. QED
        BY <3>2, <4>1 DEF AsNode!vars, Conf, Kept, Broken
    <3>4. CASE Drops
      <4>1. Conf' = Conf /\ Kept' = Kept
        BY <3>4 DEF Drops, Working, Conf, Kept
      <4>. QED
        BY <3>2, <4>1 DEF AsNode!vars, Conf, Kept, Broken
    <3>5. CASE Ends
      BY <2>2, <3>1, <3>2, <3>5, EndsAtomically
         DEF AsNode!Next, AsNode!Apply, AsNode!ApplyRestored, AsNode!Rollback, AsNode!vars,
             Conf, Kept, Broken
    <3>. QED
      BY <3>1, <3>3, <3>4, <3>5
  <2>3. ASSUME IInv, Next, SSH PROVE SSH'
    <3>1. CASE Change \/ Controller
      BY <2>3, <3>1, TransportStays DEF SSH
    <3>2. CASE Agent
      <4>1. control' = control
        BY <3>2, AgentKeepsControl
      <4>. QED
        BY <2>3, <4>1 DEF SSH
    <3>. QED
      BY <2>3, <3>1, <3>2 DEF Next
  <2>4. CASE UNCHANGED vars
    BY <2>4 DEF vars, files, AsNode!vars, Working, Saved, View, SSH
  <2>. QED
    BY <2>1, <2>2, <2>3, <2>4 DEF Broken
<1>. QED
  BY <1>1, <1>2, Invariant, PTL DEF Spec, CallsAreAtomic, AsNode!Spec
=============================================================================
