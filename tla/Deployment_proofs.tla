-------------------------- MODULE Deployment_proofs --------------------------
(* Proofs about Deployment, for any set of nodes, configurations and       *)
(* layouts and any bounds.  For any faults: its types, who owns the        *)
(* journal and the staged candidates, and the layouts.  Then that nodes    *)
(* and inventory change together: whatever a deployment, a crash or a      *)
(* recovery has left half done is covered by the durable journal, and the  *)
(* transaction implements AtomicChange.  This is proved for failing and    *)
(* unanswered journal writes and commits, layout saves and restarts at any *)
(* time, with an intact rollback copy after every apply and a read, after  *)
(* an unanswered commit, that finds it when it has been made; the runs     *)
(* show how it fails without these two.                                    *)
EXTENDS Deployment, SequenceTheorems, FiniteSetTheorems, TLAPS

-----------------------------------------------------------------------------
(* Target lists.                                                           *)

\* A target list is a sequence of distinct nodes.
LEMMA TargetListIsSeq ==
    ASSUME NEW t \in TargetList
    PROVE  /\ t \in Seq(Node)
           /\ Len(t) \in Nat
           /\ DOMAIN t = 1 .. Len(t)
           /\ \A i \in 1 .. Len(t) : t[i] \in Node
           /\ \A i, j \in 1 .. Len(t) : t[i] = t[j] => i = j
           /\ t # << >> <=> Len(t) > 0
           /\ Targets(t) = {t[i] : i \in 1 .. Len(t)}
<1>1. Cardinality(Node) \in Nat
  BY NodeAssumption, FS_CardinalityType
<1>2. PICK k \in 0 .. Cardinality(Node) : t \in [1 .. k -> Node]
  BY DEF TargetList
<1>3. k \in Nat
  BY <1>1, <1>2
<1>4. t \in Seq(Node)
  BY <1>2, <1>3
<1>5. Len(t) \in Nat /\ DOMAIN t = 1 .. Len(t)
  BY <1>4, LenProperties
<1>6. \A i \in 1 .. Len(t) : t[i] \in Node
  BY <1>4, ElementOfSeq
<1>7. \A i, j \in DOMAIN t : t[i] = t[j] => i = j
  BY DEF TargetList
<1>8. t # << >> <=> Len(t) > 0
  BY <1>4, <1>5, EmptySeq
<1>9. Targets(t) = {t[i] : i \in 1 .. Len(t)}
  BY <1>5 DEF Targets
<1>. QED
  BY <1>4, <1>5, <1>6, <1>7, <1>8, <1>9

-----------------------------------------------------------------------------
(* Types.                                                                  *)

\* Where an operation that walks over its targets stands.
OpShape ==
    op # NoOp =>
        /\ op.phase \in {"stage", "apply", "mark", "rollback", "restage", "reapply"}
              => op.at \in 1 .. Len(op.targets)
        /\ op.phase \in {"begin", "clear"} \cup RecoveryPhase
              => op.targets # << >>
        /\ op.phase = "begin" => op.at = 1

JournalShape == journal # None => journal.targets # << >>

TypeInv == TypeOK /\ OpShape /\ JournalShape

LEMMA NoOpFacts ==
    /\ NoOp \notin Operation
    /\ NoOp.phase = "idle"
BY DEF NoOp, Operation, ChangePhase, RecoveryPhase

LEMMA InitTypeInv == Init => TypeInv
<1>. SUFFICES ASSUME Init PROVE TypeInv
  OBVIOUS
<1>1. TypeOK
  BY DEF Init, TypeOK, Inventory
<1>2. OpShape /\ JournalShape
  BY DEF Init, OpShape, JournalShape
<1>. QED
  BY <1>1, <1>2 DEF TypeInv

\* The draft of a change is an inventory.
LEMMA DraftType ==
    ASSUME inventory \in Inventory, NEW t \in TargetList,
           NEW conf \in [Node -> Config]
    PROVE  /\ Draft(t, conf) \in Inventory
           /\ Draft(t, conf).layout = inventory.layout
           /\ \A n \in Node : Draft(t, conf).conf[n] =
                IF n \in Targets(t) THEN conf[n] ELSE inventory.conf[n]
BY DEF Draft, Inventory

LEMMA AttemptType ==
    ASSUME TypeOK, NEW t \in TargetList, NEW conf \in [Node -> Config],
           NEW tries \in Nat, Attempt(t, conf, tries)
    PROVE  op' \in Operation /\ OpShape'
<1>1. Draft(t, conf) \in Inventory
  BY DraftType DEF TypeOK
<1>2. op' \in Operation
  BY <1>1 DEF Attempt, Operation, TypeOK, ChangePhase
<1>3. OpShape'
  BY TargetListIsSeq DEF Attempt, OpShape, RecoveryPhase
<1>. QED
  BY <1>2, <1>3

\* While an operation is under way its record has the type of one.
LEMMA BusyOp ==
    ASSUME TypeInv, op.phase # "idle"
    PROVE  /\ op \in Operation /\ op # NoOp
           /\ op.targets \in TargetList
           /\ op.before \in Inventory /\ op.after \in Inventory
           /\ op.after.conf \in [Node -> Config]
           /\ op.revision \in Nat /\ op.at \in Nat /\ op.tries \in Nat
           /\ Len(op.targets) \in Nat
           /\ op.targets # << >> <=> Len(op.targets) > 0
<1>1. op \in Operation /\ op # NoOp
  BY NoOpFacts DEF TypeInv, TypeOK
<1>2. /\ op.targets \in TargetList
      /\ op.before \in Inventory /\ op.after \in Inventory
      /\ op.revision \in Nat /\ op.at \in Nat /\ op.tries \in Nat
  BY <1>1 DEF Operation
<1>3. op.after.conf \in [Node -> Config]
  BY <1>2 DEF Inventory
<1>. QED
  BY <1>1, <1>2, <1>3, TargetListIsSeq

\* The node an operation is at.
LEMMA CurrentNode ==
    ASSUME TypeInv,
           op.phase \in {"stage", "apply", "rollback", "restage", "reapply"}
    PROVE  /\ Current = op.targets[op.at]
           /\ Current \in Node
           /\ op.at \in 1 .. Len(op.targets)
           /\ op.targets # << >>
<1>1. op # NoOp /\ op.targets \in TargetList /\ Len(op.targets) \in Nat
  BY BusyOp
<1>2. op.at \in 1 .. Len(op.targets)
  BY <1>1 DEF TypeInv, OpShape
<1>. QED
  BY <1>1, <1>2, TargetListIsSeq DEF Current

\* What is left of an operation that goes on to another phase.
SameChange ==
    /\ op' \in Operation /\ op' # NoOp
    /\ op'.before = op.before /\ op'.after = op.after
    /\ op'.revision = op.revision /\ op'.targets = op.targets
    /\ op'.tries = op.tries

LEMMA GoFacts ==
    ASSUME op \in Operation, NEW phase \in ChangePhase \cup RecoveryPhase,
           NEW at \in Nat, Go(phase, at)
    PROVE  /\ SameChange
           /\ op'.phase = phase /\ op'.at = at
           /\ op'.conflict = op.conflict /\ op'.marked = op.marked
           /\ op'.clean = op.clean
<1>1. op' \in Operation
  BY DEF Go, Operation
<1>. QED
  BY <1>1, NoOpFacts DEF Go, Operation, SameChange

LEMMA AbortFacts ==
    ASSUME op \in Operation, NEW attempted \in Nat,
           NEW conflict \in BOOLEAN, Abort(attempted, conflict)
    PROVE  /\ SameChange
           /\ op'.phase = IF op.targets = << >> THEN "settle" ELSE "mark"
           /\ op'.at = attempted
           /\ op'.conflict = conflict /\ op'.marked = op.marked
           /\ op'.clean = op.clean
<1>1. op' \in Operation
  BY DEF Abort, Operation, ChangePhase
<1>. QED
  BY <1>1, NoOpFacts DEF Abort, Operation, SameChange

LEMMA MarkFacts ==
    ASSUME op \in Operation, NEW m \in BOOLEAN,
           \/ m /\ op' = [op EXCEPT !.phase = "rollback", !.marked = TRUE]
           \/ ~m /\ op' = [op EXCEPT !.phase = "rollback"]
    PROVE  /\ SameChange
           /\ op'.phase = "rollback" /\ op'.at = op.at
           /\ op'.marked = (m \/ op.marked) /\ op'.clean = op.clean
<1>1. op' \in Operation
  BY DEF Operation, ChangePhase
<1>. QED
  BY <1>1, NoOpFacts DEF Operation, SameChange

LEMMA RollbackFacts ==
    ASSUME op \in Operation, op.at \in Nat \ {0}, NEW ok \in BOOLEAN,
           NodeDone(ok)
    PROVE  /\ SameChange
           /\ op'.phase = IF op.at = 1 THEN "settle" ELSE "rollback"
           /\ op'.at = op.at - 1 /\ op'.at \in Nat
           /\ op'.marked = op.marked /\ op'.clean = (op.clean /\ ok)
<1>1. op.at - 1 \in Nat
  OBVIOUS
<1>2. op' \in Operation
  BY <1>1 DEF NodeDone, Operation, ChangePhase
<1>. QED
  BY <1>1, <1>2, NoOpFacts DEF NodeDone, Operation, SameChange

LEMMA ConfirmingFacts ==
    ASSUME op \in Operation, NEW conflict \in BOOLEAN,
           \/ op' = [op EXCEPT !.phase = "confirm"]
           \/ op' = [op EXCEPT !.phase = "confirm", !.conflict = conflict]
    PROVE  /\ SameChange
           /\ op'.phase = "confirm" /\ op'.at = op.at
           /\ op'.marked = op.marked /\ op'.clean = op.clean
<1>1. op' \in Operation
  BY DEF Operation, ChangePhase
<1>. QED
  BY <1>1, NoOpFacts DEF Operation, SameChange

LEMMA AttemptFacts ==
    ASSUME TypeOK, NEW t \in TargetList, NEW conf \in [Node -> Config],
           NEW tries \in Nat, Attempt(t, conf, tries)
    PROVE  /\ op' \in Operation /\ op' # NoOp
           /\ op'.phase = IF t = << >> THEN "commit" ELSE "stage"
           /\ op'.before = inventory /\ op'.revision = revision
           /\ op'.after = Draft(t, conf) /\ op'.targets = t /\ op'.at = 1
           /\ op'.marked = FALSE /\ op'.clean = TRUE
<1>1. op' \in Operation
  BY AttemptType
<1>. QED
  BY <1>1, NoOpFacts DEF Attempt

LEMMA RecoveryOpFacts ==
    ASSUME TypeInv, journal # None, NEW phase \in RecoveryPhase,
           op' = RecoveryOp(phase)
    PROVE  /\ op' \in Operation /\ op' # NoOp
           /\ op'.phase = phase /\ op'.before = inventory
           /\ op'.revision = revision /\ op'.after = Desired
           /\ op'.targets = journal.targets /\ op'.at = 1
           /\ op'.marked = FALSE
<1>1. journal \in Journal
  BY DEF TypeInv, TypeOK
<1>2. Desired \in Inventory /\ journal.targets \in TargetList
  BY <1>1 DEF Desired, Journal
<1>3. op' \in Operation
  BY <1>2 DEF RecoveryOp, Operation, TypeInv, TypeOK
<1>. QED
  BY <1>3, NoOpFacts DEF RecoveryOp

LEMMA NodeStepTypes ==
    ASSUME TypeInv, op.phase # "idle", NEW n \in Node
    PROVE  /\ StageOk(n) => staged' \in [Node -> Config \cup {None}]
           /\ StageFails(n) => staged' \in [Node -> Config \cup {None}]
           /\ ApplyTakesEffect(n) \/ ApplyRestored(n) \/ ApplyRefused(n)
                \/ RollbackTakesEffect(n) =>
                /\ running' \in [Node -> Config]
                /\ staged' \in [Node -> Config \cup {None}]
                /\ saved' \in [Node -> Config \cup {None}]
<1>1. op.after.conf[n] \in Config
  BY BusyOp
<1>. QED
  BY <1>1 DEF TypeInv, TypeOK, StageOk, StageFails, ApplyTakesEffect,
              ApplyRestored, ApplyRefused, RollbackTakesEffect

OpType == op \in Operation \cup {NoOp} /\ OpShape

\* An operation that ends has nothing left to be well-typed.
LEMMA NoOpType == op' = NoOp => OpType'
BY DEF OpType, OpShape

LEMMA PhaseFacts ==
    ChangePhase \cup RecoveryPhase =
        {"stage", "begin", "apply", "commit", "confirm", "clear", "mark",
         "rollback", "settle",
         "restage", "reapply", "recommit", "reconfirm", "reclear"}
BY DEF ChangePhase, RecoveryPhase

LEMMA StageType == TypeInv /\ Stage => TypeInv'
<1>. SUFFICES ASSUME TypeInv, Stage PROVE TypeInv'
  OBVIOUS
<1>1. op.phase = "stage"
  BY DEF Stage
<1>2. /\ op \in Operation /\ op.targets # << >> /\ Current \in Node
      /\ op.at \in 1 .. Len(op.targets) /\ Len(op.targets) \in Nat
  BY <1>1, BusyOp, CurrentNode
<1>3. staged' \in [Node -> Config \cup {None}]
  BY <1>1, <1>2, NodeStepTypes DEF Stage
<1>4. OpType' /\ told' \in {"none", "applied", "failed"}
  <2>1. CASE Go("stage", op.at + 1) /\ op.at < Len(op.targets) /\ UNCHANGED told
    <3>0. op.at + 1 \in Nat /\ "stage" \in ChangePhase \cup RecoveryPhase
      BY <1>2 DEF ChangePhase
    <3>a. Go("stage", op.at + 1)
      BY <2>1
    <3>1. SameChange /\ op'.phase = "stage" /\ op'.at = op.at + 1
      BY <1>2, <3>a, <3>0, GoFacts, Zenon
    <3>. QED
      BY <1>2, <2>1, <3>1 DEF OpType, OpShape, SameChange, RecoveryPhase, TypeInv, TypeOK
  <2>2. CASE Go("begin", 1) /\ UNCHANGED told
    <3>1. SameChange /\ op'.phase = "begin" /\ op'.at = 1
      BY <1>2, <2>2, GoFacts, PhaseFacts
    <3>. QED
      BY <1>2, <2>2, <3>1 DEF OpType, OpShape, SameChange, RecoveryPhase, TypeInv, TypeOK
  <2>3. CASE Finish("failed")
    BY <2>3, NoOpType DEF Finish
  <2>. QED
    BY <2>1, <2>2, <2>3 DEF Stage
<1>. QED
  BY <1>3, <1>4 DEF Stage, TypeInv, TypeOK, OpType, JournalShape, store

LEMMA BeginJournalType == TypeInv /\ BeginJournal => TypeInv'
<1>. SUFFICES ASSUME TypeInv, BeginJournal PROVE TypeInv'
  OBVIOUS
<1>1. op.phase = "begin"
  BY DEF BeginJournal
<1>2. /\ op \in Operation /\ op.targets # << >>
      /\ op.before \in Inventory /\ op.after \in Inventory
      /\ op.targets \in TargetList /\ Len(op.targets) > 0 /\ Len(op.targets) \in Nat
  BY <1>1, BusyOp DEF TypeInv, OpShape
<1>3. Entry \in Journal /\ Entry # None /\ Entry.targets = op.targets
  BY <1>2, NoneAssumption DEF Entry, Journal
<1>4. journal' \in Journal \cup {None} /\ JournalShape'
  BY <1>2, <1>3 DEF BeginJournal, JournalWrite, JournalShape, TypeInv, TypeOK
<1>5. OpType' /\ told' \in {"none", "applied", "failed"}
  <2>1. CASE Go("apply", 1) /\ UNCHANGED told
    <3>1. SameChange /\ op'.phase = "apply" /\ op'.at = 1
      BY <1>2, <2>1, GoFacts, PhaseFacts
    <3>. QED
      BY <1>2, <2>1, <3>1 DEF OpType, OpShape, SameChange, RecoveryPhase, TypeInv, TypeOK
  <2>2. CASE Finish("failed")
    BY <2>2, NoOpType DEF Finish
  <2>. QED
    BY <2>1, <2>2 DEF BeginJournal, JournalWrite
<1>. QED
  BY <1>4, <1>5 DEF BeginJournal, TypeInv, TypeOK, OpType, store, nodes

\* The operation goes on to a phase in which only the targets matter.
LEMMA LateType ==
    ASSUME TypeInv, op \in Operation, SameChange,
           op'.phase \in {"commit", "confirm", "settle"}
    PROVE  OpType'
BY DEF OpType, OpShape, SameChange, RecoveryPhase

LEMMA AbortType ==
    ASSUME TypeInv, op.phase # "idle", NEW attempted \in Nat,
           NEW conflict \in BOOLEAN, Abort(attempted, conflict),
           op.targets # << >> => attempted \in 1 .. Len(op.targets)
    PROVE  OpType'
<1>1. op \in Operation
  BY BusyOp
<1>2. /\ SameChange /\ op'.at = attempted
      /\ op'.phase = IF op.targets = << >> THEN "settle" ELSE "mark"
  BY <1>1, AbortFacts
<1>. QED
  BY <1>1, <1>2 DEF OpType, OpShape, SameChange, RecoveryPhase

LEMMA ApplyType == TypeInv /\ Apply => TypeInv'
<1>. SUFFICES ASSUME TypeInv, Apply PROVE TypeInv'
  OBVIOUS
<1>1. op.phase = "apply"
  BY DEF Apply
<1>2. /\ op \in Operation /\ op.targets # << >> /\ Current \in Node
      /\ op.at \in 1 .. Len(op.targets) /\ Len(op.targets) \in Nat
  BY <1>1, BusyOp, CurrentNode
<1>3. /\ running' \in [Node -> Config]
      /\ staged' \in [Node -> Config \cup {None}]
      /\ saved' \in [Node -> Config \cup {None}]
  BY <1>1, <1>2, NodeStepTypes DEF Apply, TypeInv, TypeOK, nodes
<1>4. OpType'
  <2>1. CASE Go("apply", op.at + 1) /\ op.at < Len(op.targets)
    <3>1. op.at + 1 \in Nat /\ "apply" \in ChangePhase \cup RecoveryPhase
      BY <1>2 DEF ChangePhase
    <3>2. Go("apply", op.at + 1)
      BY <2>1
    <3>3. SameChange /\ op'.phase = "apply" /\ op'.at = op.at + 1
      BY <1>2, <3>1, <3>2, GoFacts, Zenon
    <3>. QED
      BY <1>2, <2>1, <3>3 DEF OpType, OpShape, SameChange, RecoveryPhase
  <2>2. CASE Go("commit", 1)
    <3>1. SameChange /\ op'.phase = "commit"
      BY <1>2, <2>2, GoFacts, PhaseFacts
    <3>. QED
      BY <1>2, <3>1, LateType
  <2>3. CASE Abort(op.at, FALSE)
    <3>1. op.phase # "idle" /\ op.at \in Nat /\ FALSE \in BOOLEAN
      BY <1>1, <1>2
    <3>. QED
      BY <1>2, <2>3, <3>1, AbortType, Zenon
  <2>. QED
    BY <2>1, <2>2, <2>3 DEF Apply
<1>. QED
  BY <1>3, <1>4 DEF Apply, TypeInv, TypeOK, OpType, JournalShape, store

LEMMA CommittedType ==
    ASSUME TypeInv, op.phase # "idle", Committed
    PROVE  OpType' /\ told' \in {"none", "applied", "failed"}
<1>1. op \in Operation
  BY BusyOp
<1>2. CASE Finish("applied")
  BY <1>2, NoOpType DEF Finish
<1>3. CASE op.targets # << >> /\ Go("clear", 1) /\ UNCHANGED told
  <2>1. SameChange /\ op'.phase = "clear"
    BY <1>1, <1>3, GoFacts, PhaseFacts
  <2>. QED
    BY <1>1, <1>3, <2>1 DEF OpType, OpShape, SameChange, RecoveryPhase, TypeInv, TypeOK
<1>. QED
  BY <1>2, <1>3 DEF Committed

LEMMA SwapType ==
    ASSUME TypeInv, op.phase # "idle", CompareAndSwap
    PROVE  inventory' \in Inventory /\ revision' \in Nat
BY BusyOp DEF CompareAndSwap, TypeInv, TypeOK

LEMMA CommitType == TypeInv /\ Commit => TypeInv'
<1>. SUFFICES ASSUME TypeInv, Commit PROVE TypeInv'
  OBVIOUS
<1>1. op.phase = "commit" /\ op \in Operation
  BY BusyOp DEF Commit
<1>2. inventory' \in Inventory /\ revision' \in Nat
  BY <1>1, SwapType DEF Commit, store, TypeInv, TypeOK
<1>3. OpType' /\ told' \in {"none", "applied", "failed"}
  <2>1. CASE Committed
    BY <1>1, <2>1, CommittedType
  <2>2. CASE op' = [op EXCEPT !.phase = "confirm"] /\ UNCHANGED told
    <3>1. SameChange /\ op'.phase = "confirm"
      BY <1>1, <2>2, ConfirmingFacts
    <3>. QED
      BY <1>1, <2>2, <3>1, LateType DEF TypeInv, TypeOK
  <2>3. ASSUME NEW conflict \in BOOLEAN, UNCHANGED told,
               op' = [op EXCEPT !.phase = "confirm", !.conflict = conflict]
        PROVE  OpType' /\ told' \in {"none", "applied", "failed"}
    <3>1. SameChange /\ op'.phase = "confirm"
      BY <1>1, <2>3, ConfirmingFacts
    <3>. QED
      BY <1>1, <2>3, <3>1, LateType DEF TypeInv, TypeOK
  <2>4. {FALSE, revision # op.revision} \subseteq BOOLEAN
    OBVIOUS
  <2>. QED
    BY <2>1, <2>2, <2>3, <2>4 DEF Commit
<1>. QED
  BY <1>2, <1>3 DEF Commit, TypeInv, TypeOK, OpType, JournalShape, nodes

LEMMA ConfirmType == TypeInv /\ Confirm => TypeInv'
<1>. SUFFICES ASSUME TypeInv, Confirm PROVE TypeInv'
  OBVIOUS
<1>1. /\ op.phase = "confirm" /\ op \in Operation /\ Len(op.targets) \in Nat
      /\ op.targets # << >> <=> Len(op.targets) > 0
  BY BusyOp DEF Confirm
<1>2. OpType' /\ told' \in {"none", "applied", "failed"}
  <2>1. CASE Committed
    BY <1>1, <2>1, CommittedType
  <2>2. CASE Abort(Len(op.targets), op.conflict) /\ UNCHANGED told
    <3>1. op.conflict \in BOOLEAN
      BY <1>1 DEF Operation
    <3>. QED
      BY <1>1, <2>2, <3>1, AbortType DEF TypeInv, TypeOK
  <2>. QED
    BY <2>1, <2>2 DEF Confirm
<1>. QED
  BY <1>2 DEF Confirm, TypeInv, TypeOK, OpType, JournalShape, nodes, store

LEMMA ClearType == TypeInv /\ Clear => TypeInv'
<1>. SUFFICES ASSUME TypeInv, Clear PROVE TypeInv'
  OBVIOUS
<1>1. Finish("applied") /\ journal' \in {journal, None}
  BY DEF Clear, JournalWrite
<1>2. OpType' /\ told' \in {"none", "applied", "failed"}
  BY <1>1, NoOpType DEF Finish
<1>. QED
  BY <1>1, <1>2 DEF Clear, TypeInv, TypeOK, OpType, JournalShape, nodes, store

LEMMA MarkType == TypeInv /\ MarkRollback => TypeInv'
<1>. SUFFICES ASSUME TypeInv, MarkRollback PROVE TypeInv'
  OBVIOUS
<1>1. /\ op.phase = "mark" /\ op \in Operation /\ op # NoOp
      /\ op.at \in 1 .. Len(op.targets)
  BY BusyOp DEF MarkRollback, TypeInv, OpShape
<1>2. journal \in Journal
  BY DEF MarkRollback, TypeInv, TypeOK
<1>3. [journal EXCEPT !.direction = "rollback"] \in Journal
  BY <1>2 DEF Journal
<1>4. [journal EXCEPT !.direction = "rollback"].targets = journal.targets
  BY <1>2 DEF Journal
<1>5. journal' \in Journal /\ journal'.targets = journal.targets
  BY <1>2, <1>3, <1>4 DEF MarkRollback, JournalWrite
<1>6. PICK m \in BOOLEAN :
         \/ m /\ op' = [op EXCEPT !.phase = "rollback", !.marked = TRUE]
         \/ ~m /\ op' = [op EXCEPT !.phase = "rollback"]
  BY DEF MarkRollback, JournalWrite
<1>7. SameChange /\ op'.phase = "rollback" /\ op'.at = op.at
  BY <1>1, <1>6, MarkFacts
<1>8. OpType'
  BY <1>1, <1>7 DEF OpType, OpShape, SameChange, RecoveryPhase
<1>. QED
  BY <1>5, <1>8 DEF MarkRollback, TypeInv, TypeOK, OpType, JournalShape, nodes, store

LEMMA RollbackType == TypeInv /\ Rollback => TypeInv'
<1>. SUFFICES ASSUME TypeInv, Rollback PROVE TypeInv'
  OBVIOUS
<1>1. op.phase = "rollback"
  BY DEF Rollback
<1>2. /\ op \in Operation /\ op.targets # << >> /\ Current \in Node
      /\ op.at \in 1 .. Len(op.targets) /\ Len(op.targets) \in Nat
  BY <1>1, BusyOp, CurrentNode
<1>3. /\ running' \in [Node -> Config]
      /\ staged' \in [Node -> Config \cup {None}]
      /\ saved' \in [Node -> Config \cup {None}]
  BY <1>1, <1>2, NodeStepTypes DEF Rollback, TypeInv, TypeOK, nodes
<1>4. PICK ok \in BOOLEAN : NodeDone(ok)
  BY DEF Rollback
<1>5. /\ SameChange /\ op'.at = op.at - 1
      /\ op'.phase = IF op.at = 1 THEN "settle" ELSE "rollback"
  BY <1>2, <1>4, RollbackFacts
<1>6. OpType'
  BY <1>2, <1>5 DEF OpType, OpShape, SameChange, RecoveryPhase
<1>. QED
  BY <1>3, <1>6 DEF Rollback, TypeInv, TypeOK, OpType, JournalShape, store

LEMMA AttemptOpType ==
    ASSUME TypeInv, NEW t \in TargetList, NEW conf \in [Node -> Config],
           NEW tries \in Nat, Attempt(t, conf, tries)
    PROVE  OpType'
BY AttemptType DEF OpType, TypeInv

LEMMA RetryType ==
    ASSUME TypeInv, op.phase # "idle", RetryOrThrow
    PROVE  OpType' /\ told' \in {"none", "applied", "failed"}
<1>1. CASE Finish("failed")
  BY <1>1, NoOpType DEF Finish
<1>2. CASE /\ op.tries > 1 /\ UNCHANGED told
           /\ Attempt(op.targets, op.after.conf, op.tries - 1)
  <2>1. /\ op.targets \in TargetList /\ op.after.conf \in [Node -> Config]
        /\ op.tries - 1 \in Nat
    BY <1>2, BusyOp
  <2>2. Attempt(op.targets, op.after.conf, op.tries - 1)
    BY <1>2
  <2>3. OpType'
    BY <2>1, <2>2, AttemptOpType, Zenon
  <2>. QED
    BY <1>2, <2>3 DEF TypeInv, TypeOK
<1>. QED
  BY <1>1, <1>2 DEF RetryOrThrow

LEMMA SettleType == TypeInv /\ Settle => TypeInv'
<1>. SUFFICES ASSUME TypeInv, Settle PROVE TypeInv'
  OBVIOUS
<1>1. op.phase # "idle" /\ (RetryOrThrow \/ Finish("failed"))
  BY DEF Settle, JournalWrite
<1>2. OpType' /\ told' \in {"none", "applied", "failed"}
  BY <1>1, RetryType, NoOpType DEF Finish
<1>3. journal' \in {journal, None}
  BY DEF Settle, JournalWrite
<1>. QED
  BY <1>2, <1>3 DEF Settle, TypeInv, TypeOK, OpType, JournalShape, nodes, store

LEMMA BeginChangeType ==
    ASSUME TypeInv, NEW t \in TargetList, NEW conf \in [Node -> Config],
           NEW tries \in {1, MaxAttempts}, BeginChange(t, conf, tries)
    PROVE  TypeInv'
<1>1. OpType'
  BY AttemptOpType, BoundAssumption DEF BeginChange
<1>. QED
  BY <1>1 DEF BeginChange, TypeInv, TypeOK, OpType, JournalShape, nodes, store

LEMMA RecoverThrowType ==
    RecoverThrow => OpType' /\ recovery' \in {"idle", "pending", "failed"}
BY NoOpType DEF RecoverThrow

LEMMA StartRecoveryType == TypeInv /\ StartRecovery => TypeInv'
<1>. SUFFICES ASSUME TypeInv, StartRecovery PROVE TypeInv'
  OBVIOUS
<1>1. OpType' /\ recovery' \in {"idle", "pending", "failed"}
  <2>1. CASE recovery' = "idle" /\ UNCHANGED op
    BY <2>1 DEF OpType, OpShape, TypeInv, TypeOK
  <2>2. CASE RecoverThrow
    BY <2>2, RecoverThrowType
  <2>3. CASE journal # None /\ op' = RecoveryOp(ResumePhase) /\ UNCHANGED recovery
    <3>1. ResumePhase \in {"restage", "reclear"} /\ ResumePhase \in RecoveryPhase
      BY DEF ResumePhase, RecoveryPhase
    <3>2. /\ op' \in Operation /\ op'.phase = ResumePhase
          /\ op'.targets = journal.targets /\ op'.at = 1
      BY <2>3, <3>1, RecoveryOpFacts
    <3>3. /\ journal.targets \in TargetList /\ journal.targets # << >>
      BY <2>3 DEF TypeInv, TypeOK, JournalShape, Journal
    <3>4. 1 \in 1 .. Len(journal.targets)
      BY <3>3, TargetListIsSeq
    <3>. QED
      BY <2>3, <3>1, <3>2, <3>3, <3>4 DEF OpType, OpShape, TypeInv, TypeOK
  <2>. QED
    BY <2>1, <2>2, <2>3 DEF StartRecovery
<1>. QED
  BY <1>1 DEF StartRecovery, TypeInv, TypeOK, OpType, JournalShape, nodes, store

LEMMA RestageType == TypeInv /\ Restage => TypeInv'
<1>. SUFFICES ASSUME TypeInv, Restage PROVE TypeInv'
  OBVIOUS
<1>1. op.phase = "restage"
  BY DEF Restage
<1>2. /\ op \in Operation /\ op.targets # << >> /\ Current \in Node
      /\ op.at \in 1 .. Len(op.targets) /\ Len(op.targets) \in Nat
  BY <1>1, BusyOp, CurrentNode
<1>3. staged' \in [Node -> Config \cup {None}]
  BY <1>1, <1>2, NodeStepTypes DEF Restage
<1>4. OpType' /\ recovery' \in {"idle", "pending", "failed"}
  <2>1. CASE Go("restage", op.at + 1) /\ op.at < Len(op.targets) /\ UNCHANGED recovery
    <3>1. op.at + 1 \in Nat /\ "restage" \in ChangePhase \cup RecoveryPhase
      BY <1>2 DEF RecoveryPhase
    <3>2. Go("restage", op.at + 1)
      BY <2>1
    <3>3. SameChange /\ op'.phase = "restage" /\ op'.at = op.at + 1
      BY <1>2, <3>1, <3>2, GoFacts, Zenon
    <3>. QED
      BY <1>2, <2>1, <3>3 DEF OpType, OpShape, SameChange, RecoveryPhase, TypeInv, TypeOK
  <2>2. CASE Go("reapply", 1) /\ UNCHANGED recovery
    <3>1. SameChange /\ op'.phase = "reapply" /\ op'.at = 1
      BY <1>2, <2>2, GoFacts, PhaseFacts
    <3>. QED
      BY <1>2, <2>2, <3>1 DEF OpType, OpShape, SameChange, RecoveryPhase, TypeInv, TypeOK
  <2>3. CASE RecoverThrow
    BY <2>3, RecoverThrowType
  <2>. QED
    BY <2>1, <2>2, <2>3 DEF Restage
<1>. QED
  BY <1>3, <1>4 DEF Restage, TypeInv, TypeOK, OpType, JournalShape, store

\* Recovery goes on to a phase in which only the targets matter.
LEMMA LateRecoveryType ==
    ASSUME TypeInv, op \in Operation, op.targets # << >>, NEW phase, NEW at \in Nat,
           phase \in {"recommit", "reconfirm", "reclear"}, Go(phase, at)
    PROVE  OpType'
<1>1. phase \in ChangePhase \cup RecoveryPhase
  BY PhaseFacts
<1>2. SameChange /\ op'.phase = phase
  BY <1>1, GoFacts
<1>. QED
  BY <1>2 DEF OpType, OpShape, SameChange

LEMMA ReapplyType == TypeInv /\ Reapply => TypeInv'
<1>. SUFFICES ASSUME TypeInv, Reapply PROVE TypeInv'
  OBVIOUS
<1>1. op.phase = "reapply"
  BY DEF Reapply
<1>2. /\ op \in Operation /\ op.targets # << >> /\ Current \in Node
      /\ op.at \in 1 .. Len(op.targets) /\ Len(op.targets) \in Nat
  BY <1>1, BusyOp, CurrentNode
<1>3. /\ running' \in [Node -> Config]
      /\ staged' \in [Node -> Config \cup {None}]
      /\ saved' \in [Node -> Config \cup {None}]
  BY <1>1, <1>2, NodeStepTypes DEF Reapply, TypeInv, TypeOK, nodes
<1>4. OpType' /\ recovery' \in {"idle", "pending", "failed"}
  <2>1. CASE Go("reapply", op.at + 1) /\ op.at < Len(op.targets) /\ UNCHANGED recovery
    <3>1. op.at + 1 \in Nat /\ "reapply" \in ChangePhase \cup RecoveryPhase
      BY <1>2 DEF RecoveryPhase
    <3>2. Go("reapply", op.at + 1)
      BY <2>1
    <3>3. SameChange /\ op'.phase = "reapply" /\ op'.at = op.at + 1
      BY <1>2, <3>1, <3>2, GoFacts, Zenon
    <3>. QED
      BY <1>2, <2>1, <3>3 DEF OpType, OpShape, SameChange, RecoveryPhase, TypeInv, TypeOK
  <2>2. CASE (Go("reclear", 1) \/ Go("recommit", 1)) /\ UNCHANGED recovery
    BY <1>2, <2>2, LateRecoveryType DEF TypeInv, TypeOK
  <2>3. CASE RecoverThrow
    BY <2>3, RecoverThrowType
  <2>. QED
    BY <2>1, <2>2, <2>3 DEF Reapply
<1>. QED
  BY <1>3, <1>4 DEF Reapply, TypeInv, TypeOK, OpType, JournalShape, store

LEMMA RecommitType == TypeInv /\ Recommit => TypeInv'
<1>. SUFFICES ASSUME TypeInv, Recommit PROVE TypeInv'
  OBVIOUS
<1>1. op.phase = "recommit" /\ op \in Operation /\ op.targets # << >>
  BY BusyOp DEF Recommit, TypeInv, OpShape, RecoveryPhase
<1>2. inventory' \in Inventory /\ revision' \in Nat
  BY <1>1, SwapType DEF Recommit, store, TypeInv, TypeOK
<1>3. OpType'
  BY <1>1, LateRecoveryType DEF Recommit
<1>. QED
  BY <1>2, <1>3 DEF Recommit, TypeInv, TypeOK, OpType, JournalShape, nodes

LEMMA ReconfirmType == TypeInv /\ Reconfirm => TypeInv'
<1>. SUFFICES ASSUME TypeInv, Reconfirm PROVE TypeInv'
  OBVIOUS
<1>1. op.phase = "reconfirm" /\ op \in Operation /\ op.targets # << >>
  BY BusyOp DEF Reconfirm, TypeInv, OpShape, RecoveryPhase
<1>2. OpType' /\ recovery' \in {"idle", "pending", "failed"}
  BY <1>1, LateRecoveryType, RecoverThrowType DEF Reconfirm, TypeInv, TypeOK
<1>. QED
  BY <1>2 DEF Reconfirm, TypeInv, TypeOK, OpType, JournalShape, nodes, store

LEMMA ReclearType == TypeInv /\ Reclear => TypeInv'
<1>. SUFFICES ASSUME TypeInv, Reclear PROVE TypeInv'
  OBVIOUS
<1>1. OpType' /\ recovery' \in {"idle", "pending", "failed"}
  BY NoOpType, RecoverThrowType DEF Reclear, JournalWrite
<1>2. journal' \in {journal, None}
  BY DEF Reclear, JournalWrite
<1>. QED
  BY <1>1, <1>2 DEF Reclear, TypeInv, TypeOK, OpType, JournalShape, nodes, store

LEMMA WorldType ==
    ASSUME TypeInv,
           \/ \E n \in Node, config \in Config : Preview(n, config)
           \/ \E layout \in Layout : EditLayout(layout)
           \/ Restart
    PROVE  TypeInv'
<1>1. ASSUME NEW n \in Node, NEW config \in Config, Preview(n, config)
      PROVE  TypeInv'
  BY <1>1 DEF Preview, TypeInv, TypeOK, OpShape, JournalShape, store
<1>2. ASSUME NEW layout \in Layout, EditLayout(layout)
      PROVE  TypeInv'
  <2>1. [inventory EXCEPT !.layout = layout] \in Inventory /\ revision + 1 \in Nat
    BY DEF TypeInv, TypeOK, Inventory
  <2>. QED
    BY <1>2, <2>1 DEF EditLayout, TypeInv, TypeOK, OpShape, JournalShape, nodes
<1>3. ASSUME Restart PROVE TypeInv'
  <2>1. OpType'
    BY <1>3, NoOpType DEF Restart
  <2>2. restarts' \in Nat /\ recovery' \in {"idle", "pending", "failed"}
    BY <1>3 DEF Restart, TypeInv, TypeOK
  <2>. QED
    BY <1>3, <2>1, <2>2 DEF Restart, TypeInv, TypeOK, OpType, JournalShape, nodes, store
<1>. QED
  BY <1>1, <1>2, <1>3

LEMMA StepTypeInv == TypeInv /\ [Next]_vars => TypeInv'
<1>. SUFFICES ASSUME TypeInv, [Next]_vars PROVE TypeInv'
  OBVIOUS
<1>1. CASE Change
  BY <1>1, StageType, BeginJournalType, ApplyType, CommitType, ConfirmType,
     ClearType, MarkType, RollbackType, SettleType DEF Change
<1>2. CASE Recovery
  BY <1>2, StartRecoveryType, RestageType, ReapplyType, RecommitType,
     ReconfirmType, ReclearType DEF Recovery
<1>3. CASE \E targets \in TargetList, conf \in [Node -> Config],
              tries \in {1, MaxAttempts} : BeginChange(targets, conf, tries)
  BY <1>3, BeginChangeType
<1>4. CASE UNCHANGED vars
  BY <1>4 DEF vars, TypeInv, TypeOK, OpShape, JournalShape
<1>. QED
  BY <1>1, <1>2, <1>3, <1>4, WorldType DEF Next

\* Every variable keeps its type, whatever the deployment does and whatever
\* fails: in particular a rollback never activates a missing .rollback and an
\* operation never walks past its last target.
THEOREM TypeCorrect == Spec => []TypeOK
<1>1. TypeInv => TypeOK
  BY DEF TypeInv
<1>. QED
  BY <1>1, InitTypeInv, StepTypeInv, PTL DEF Spec

-----------------------------------------------------------------------------
(* OWNERSHIP.  The operation that holds the lock owns the durable journal  *)
(* and the staged candidates, whatever fails.                              *)

(* How the operation goes on in each step.                                 *)

\* The operation goes on at phase `phase` and position `at`.
MovesTo(phase, at) ==
    /\ SameChange
    /\ op'.phase = phase /\ op'.at = at
    /\ op'.marked = op.marked /\ op'.clean = op.clean

LEMMA GoMoves ==
    ASSUME TypeInv, op.phase # "idle",
           NEW phase \in ChangePhase \cup RecoveryPhase, NEW at \in Nat,
           Go(phase, at)
    PROVE  MovesTo(phase, at)
<1>1. op \in Operation
  BY BusyOp
<1>. QED
  BY <1>1, GoFacts DEF MovesTo

LEMMA AbortMoves ==
    ASSUME TypeInv, op.phase # "idle", NEW attempted \in Nat,
           NEW conflict \in BOOLEAN, Abort(attempted, conflict)
    PROVE  MovesTo(IF op.targets = << >> THEN "settle" ELSE "mark", attempted)
<1>1. op \in Operation
  BY BusyOp
<1>. QED
  BY <1>1, AbortFacts DEF MovesTo

LEMMA StageMoves ==
    ASSUME TypeInv, Stage
    PROVE  \/ op' = NoOp
           \/ StageOk(Current) /\ op.at < Len(op.targets) /\ MovesTo("stage", op.at + 1)
           \/ StageOk(Current) /\ op.at = Len(op.targets) /\ MovesTo("begin", 1)
<1>1. op.phase = "stage" /\ op.at \in 1 .. Len(op.targets) /\ Len(op.targets) \in Nat
  BY BusyOp, CurrentNode DEF Stage
<1>2. CASE Finish("failed")
  BY <1>2 DEF Finish
<1>3. CASE StageOk(Current) /\ op.at < Len(op.targets) /\ Go("stage", op.at + 1)
  <2>1. /\ op.at + 1 \in Nat /\ "stage" \in ChangePhase \cup RecoveryPhase
        /\ op.phase # "idle"
    BY <1>1 DEF ChangePhase
  <2>2. Go("stage", op.at + 1)
    BY <1>3
  <2>3. MovesTo("stage", op.at + 1)
    BY <2>1, <2>2, GoMoves, Zenon
  <2>. QED
    BY <1>3, <2>3
<1>4. CASE StageOk(Current) /\ op.at = Len(op.targets) /\ Go("begin", 1)
  BY <1>1, <1>4, GoMoves, PhaseFacts
<1>. QED
  BY <1>1, <1>2, <1>3, <1>4 DEF Stage

LEMMA BeginJournalMoves ==
    ASSUME TypeInv, BeginJournal
    PROVE  op' = NoOp \/ (journal' = Entry /\ MovesTo("apply", 1))
<1>1. op.phase # "idle"
  BY DEF BeginJournal
<1>. QED
  BY <1>1, GoMoves, PhaseFacts DEF BeginJournal, JournalWrite, Finish

LEMMA ApplyMoves ==
    ASSUME TypeInv, Apply
    PROVE  \/ ApplyTakesEffect(Current) /\ op.at < Len(op.targets) /\ MovesTo("apply", op.at + 1)
           \/ ApplyTakesEffect(Current) /\ op.at = Len(op.targets) /\ MovesTo("commit", 1)
           \/ MovesTo("mark", op.at)
<1>1. /\ op.phase = "apply" /\ op.at \in 1 .. Len(op.targets)
      /\ Len(op.targets) \in Nat /\ op.targets # << >>
  BY BusyOp, CurrentNode DEF Apply
<1>2. CASE Abort(op.at, FALSE)
  <2>1. op.phase # "idle" /\ op.at \in Nat /\ FALSE \in BOOLEAN
    BY <1>1
  <2>2. MovesTo(IF op.targets = << >> THEN "settle" ELSE "mark", op.at)
    BY <1>2, <2>1, AbortMoves, Zenon
  <2>. QED
    BY <1>1, <2>2
<1>3. CASE ApplyTakesEffect(Current) /\ op.at < Len(op.targets) /\ Go("apply", op.at + 1)
  <2>1. /\ op.at + 1 \in Nat /\ "apply" \in ChangePhase \cup RecoveryPhase
        /\ op.phase # "idle"
    BY <1>1 DEF ChangePhase
  <2>2. Go("apply", op.at + 1)
    BY <1>3
  <2>3. MovesTo("apply", op.at + 1)
    BY <2>1, <2>2, GoMoves, Zenon
  <2>. QED
    BY <1>3, <2>3
<1>4. CASE ApplyTakesEffect(Current) /\ ~(op.at < Len(op.targets)) /\ Go("commit", 1)
  <2>1. MovesTo("commit", 1)
    BY <1>1, <1>4, GoMoves, PhaseFacts
  <2>. QED
    BY <1>1, <1>4, <2>1
<1>5. \/ Abort(op.at, FALSE)
      \/ ApplyTakesEffect(Current) /\ op.at < Len(op.targets) /\ Go("apply", op.at + 1)
      \/ ApplyTakesEffect(Current) /\ ~(op.at < Len(op.targets)) /\ Go("commit", 1)
  BY Zenon DEF Apply
<1>. QED
  BY <1>2, <1>3, <1>4, <1>5, Zenon

LEMMA CommittedMoves ==
    ASSUME TypeInv, op.phase # "idle", Committed
    PROVE  \/ op' = NoOp /\ op.targets = << >>
           \/ MovesTo("clear", 1) /\ op.targets # << >>
BY GoMoves, PhaseFacts DEF Committed, Finish

LEMMA CommitMoves ==
    ASSUME TypeInv, Commit
    PROVE  \/ CompareAndSwap /\ Committed
           \/ /\ CompareAndSwap /\ "commit_reply_lost" \in Faults
              /\ MovesTo("confirm", op.at)
           \/ UNCHANGED store /\ MovesTo("confirm", op.at)
<1>1. op \in Operation
  BY BusyOp DEF Commit
<1>2. CASE op' = [op EXCEPT !.phase = "confirm"]
  BY <1>1, <1>2, ConfirmingFacts DEF Commit, MovesTo
<1>3. ASSUME NEW conflict \in BOOLEAN,
             op' = [op EXCEPT !.phase = "confirm", !.conflict = conflict]
      PROVE  MovesTo("confirm", op.at)
  BY <1>1, <1>3, ConfirmingFacts DEF MovesTo
<1>4. {FALSE, revision # op.revision} \subseteq BOOLEAN
  OBVIOUS
<1>. QED
  BY <1>2, <1>3, <1>4 DEF Commit, MovesTo

LEMMA ConfirmMoves ==
    ASSUME TypeInv, Confirm
    PROVE  \/ inventory = op.after /\ Committed
           \/ /\ inventory # op.after \/ "confirm_missed" \in Faults
              /\ MovesTo(IF op.targets = << >> THEN "settle" ELSE "mark", Len(op.targets))
<1>1. op.phase # "idle" /\ Len(op.targets) \in Nat /\ op.conflict \in BOOLEAN
  BY BusyOp DEF Confirm, Operation
<1>2. Abort(Len(op.targets), op.conflict) =>
        MovesTo(IF op.targets = << >> THEN "settle" ELSE "mark", Len(op.targets))
  BY <1>1, AbortMoves, Zenon
<1>. QED
  BY <1>2 DEF Confirm

LEMMA MarkMoves ==
    ASSUME TypeInv, MarkRollback
    PROVE  /\ SameChange
           /\ op'.phase = "rollback" /\ op'.at = op.at /\ op'.clean = op.clean
           /\ \/ journal' = [journal EXCEPT !.direction = "rollback"]
              \/ journal' = journal /\ op'.marked = op.marked
<1>1. op \in Operation
  BY BusyOp DEF MarkRollback
<1>2. CASE /\ journal' = [journal EXCEPT !.direction = "rollback"]
           /\ op' = [op EXCEPT !.phase = "rollback", !.marked = TRUE]
  <2>1. \E m \in BOOLEAN : m /\ op' = [op EXCEPT !.phase = "rollback", !.marked = TRUE]
    BY <1>2
  <2>. QED
    BY <1>1, <1>2, <2>1, MarkFacts
<1>3. CASE /\ journal' \in {journal, [journal EXCEPT !.direction = "rollback"]}
           /\ op' = [op EXCEPT !.phase = "rollback"]
  <2>1. op.marked \in BOOLEAN
    BY <1>1 DEF Operation
  <2>2. \E m \in BOOLEAN : ~m /\ op' = [op EXCEPT !.phase = "rollback"]
    BY <1>3
  <2>3. /\ SameChange /\ op'.phase = "rollback" /\ op'.at = op.at
        /\ op'.clean = op.clean /\ op'.marked = op.marked
    BY <1>1, <2>1, <2>2, MarkFacts
  <2>. QED
    BY <1>3, <2>3
<1>. QED
  BY <1>2, <1>3 DEF MarkRollback, JournalWrite

LEMMA RollbackMoves ==
    ASSUME TypeInv, Rollback
    PROVE  \E ok \in BOOLEAN :
             /\ RollbackTakesEffect(Current) \/ (~ok /\ UNCHANGED nodes)
             /\ SameChange
             /\ op'.phase = IF op.at = 1 THEN "settle" ELSE "rollback"
             /\ op'.at = op.at - 1
             /\ op'.marked = op.marked /\ op'.clean = (op.clean /\ ok)
<1>1. op \in Operation /\ op.at \in Nat \ {0}
  BY BusyOp, CurrentNode DEF Rollback
<1>2. PICK ok \in BOOLEAN : /\ RollbackTakesEffect(Current) \/ (~ok /\ UNCHANGED nodes)
                            /\ NodeDone(ok)
  BY DEF Rollback
<1>3. /\ SameChange
      /\ op'.phase = IF op.at = 1 THEN "settle" ELSE "rollback"
      /\ op'.at = op.at - 1
      /\ op'.marked = op.marked /\ op'.clean = (op.clean /\ ok)
  BY <1>1, <1>2, RollbackFacts
<1>. QED
  BY <1>2, <1>3

\* The change starts over on the inventory as it is now.
StartsOver(targets, conf) ==
    /\ op' \in Operation /\ op' # NoOp
    /\ op'.phase = IF targets = << >> THEN "commit" ELSE "stage"
    /\ op'.before = inventory /\ op'.revision = revision
    /\ op'.after = Draft(targets, conf)
    /\ op'.targets = targets /\ op'.at = 1
    /\ op'.marked = FALSE /\ op'.clean = TRUE

LEMMA RetryMoves ==
    ASSUME TypeInv, op.phase # "idle", RetryOrThrow
    PROVE  op' = NoOp \/ StartsOver(op.targets, op.after.conf)
<1>1. CASE Finish("failed")
  BY <1>1 DEF Finish
<1>2. CASE op.tries > 1 /\ Attempt(op.targets, op.after.conf, op.tries - 1)
  <2>1. /\ op.targets \in TargetList /\ op.after.conf \in [Node -> Config]
        /\ op.tries - 1 \in Nat /\ TypeOK
    BY <1>2, BusyOp DEF TypeInv
  <2>2. Attempt(op.targets, op.after.conf, op.tries - 1)
    BY <1>2
  <2>. QED
    BY <2>1, <2>2, AttemptFacts, Zenon DEF StartsOver
<1>. QED
  BY <1>1, <1>2 DEF RetryOrThrow

LEMMA BeginChangeMoves ==
    ASSUME TypeInv, NEW t \in TargetList, NEW conf \in [Node -> Config],
           NEW tries \in {1, MaxAttempts}, BeginChange(t, conf, tries)
    PROVE  StartsOver(t, conf)
<1>1. tries \in Nat /\ TypeOK /\ Attempt(t, conf, tries)
  BY BoundAssumption DEF TypeInv, BeginChange
<1>. QED
  BY <1>1, AttemptFacts DEF StartsOver

\* The journal is cleared, or the operation leaves it where it is.
LEMMA SettleMoves ==
    ASSUME TypeInv, Settle
    PROVE  \/ op' = NoOp /\ journal' = journal
           \/ op' = NoOp /\ journal' = None /\ op.marked /\ op.clean /\ op.targets # << >>
           \/ /\ StartsOver(op.targets, op.after.conf)
              /\ \/ op.targets = << >> /\ journal' = journal
                 \/ op.targets # << >> /\ journal' = None /\ op.marked /\ op.clean
<1>1. op.phase # "idle"
  BY DEF Settle
<1>2. RetryOrThrow => op' = NoOp \/ StartsOver(op.targets, op.after.conf)
  BY <1>1, RetryMoves
<1>. QED
  BY <1>2 DEF Settle, JournalWrite, Finish

LEMMA StartRecoveryMoves ==
    ASSUME TypeInv, StartRecovery
    PROVE  \/ op' = NoOp
           \/ /\ journal # None
              /\ inventory \in {Desired, Opposite}
              /\ op' \in Operation /\ op' # NoOp
              /\ op'.phase = IF ReplayNeeded THEN "restage" ELSE "reclear"
              /\ op'.before = inventory /\ op'.revision = revision
              /\ op'.after = Desired
              /\ op'.targets = journal.targets /\ op'.at = 1 /\ op'.marked = FALSE
<1>1. ResumePhase \in RecoveryPhase
  BY DEF ResumePhase, RecoveryPhase
<1>2. CASE journal # None /\ inventory \in {Desired, Opposite} /\ op' = RecoveryOp(ResumePhase)
  BY <1>1, <1>2, RecoveryOpFacts DEF ResumePhase
<1>. QED
  BY <1>2 DEF StartRecovery, RecoverThrow

LEMMA RestageMoves ==
    ASSUME TypeInv, Restage
    PROVE  \/ op' = NoOp
           \/ StageOk(Current) /\ op.at < Len(op.targets) /\ MovesTo("restage", op.at + 1)
           \/ StageOk(Current) /\ op.at = Len(op.targets) /\ MovesTo("reapply", 1)
<1>1. op.phase = "restage" /\ op.at \in 1 .. Len(op.targets) /\ Len(op.targets) \in Nat
  BY BusyOp, CurrentNode DEF Restage
<1>2. CASE StageOk(Current) /\ op.at < Len(op.targets) /\ Go("restage", op.at + 1)
  <2>1. /\ op.at + 1 \in Nat /\ "restage" \in ChangePhase \cup RecoveryPhase
        /\ op.phase # "idle"
    BY <1>1 DEF RecoveryPhase
  <2>2. Go("restage", op.at + 1)
    BY <1>2
  <2>3. MovesTo("restage", op.at + 1)
    BY <2>1, <2>2, GoMoves, Zenon
  <2>. QED
    BY <1>2, <2>3
<1>3. CASE StageOk(Current) /\ op.at = Len(op.targets) /\ Go("reapply", 1)
  BY <1>1, <1>3, GoMoves, PhaseFacts
<1>. QED
  BY <1>1, <1>2, <1>3 DEF Restage, RecoverThrow

LEMMA ReapplyMoves ==
    ASSUME TypeInv, Reapply
    PROVE  \/ op' = NoOp /\ (ApplyTakesEffect(Current) \/ UNCHANGED running)
           \/ /\ ApplyTakesEffect(Current)
              /\ \/ op.at < Len(op.targets) /\ MovesTo("reapply", op.at + 1)
                 \/ /\ op.at = Len(op.targets)
                    /\ \/ op.before = op.after /\ MovesTo("reclear", 1)
                       \/ MovesTo("recommit", 1)
<1>1. op.phase = "reapply" /\ op.at \in 1 .. Len(op.targets) /\ Len(op.targets) \in Nat
  BY BusyOp, CurrentNode DEF Reapply
<1>2. CASE ApplyTakesEffect(Current) /\ op.at < Len(op.targets) /\ Go("reapply", op.at + 1)
  <2>1. /\ op.at + 1 \in Nat /\ "reapply" \in ChangePhase \cup RecoveryPhase
        /\ op.phase # "idle"
    BY <1>1 DEF RecoveryPhase
  <2>2. Go("reapply", op.at + 1)
    BY <1>2
  <2>3. MovesTo("reapply", op.at + 1)
    BY <2>1, <2>2, GoMoves, Zenon
  <2>. QED
    BY <1>2, <2>3
<1>3. Go("reclear", 1) => MovesTo("reclear", 1)
  BY <1>1, GoMoves, PhaseFacts
<1>4. Go("recommit", 1) => MovesTo("recommit", 1)
  BY <1>1, GoMoves, PhaseFacts
<1>. QED
  BY <1>1, <1>2, <1>3, <1>4 DEF Reapply, RecoverThrow, ApplyRestored, nodes

LEMMA RecommitMoves ==
    ASSUME TypeInv, Recommit
    PROVE  \/ CompareAndSwap /\ MovesTo("reclear", 1)
           \/ CompareAndSwap /\ MovesTo("reconfirm", 1)
           \/ UNCHANGED store /\ MovesTo("reconfirm", 1)
<1>1. op.phase # "idle"
  BY DEF Recommit
<1>2. Go("reclear", 1) => MovesTo("reclear", 1)
  BY <1>1, GoMoves, PhaseFacts
<1>3. Go("reconfirm", 1) => MovesTo("reconfirm", 1)
  BY <1>1, GoMoves, PhaseFacts
<1>. QED
  BY <1>2, <1>3 DEF Recommit

LEMMA ReconfirmMoves ==
    ASSUME TypeInv, Reconfirm
    PROVE  op' = NoOp \/ (inventory = op.after /\ MovesTo("reclear", 1))
<1>1. op.phase # "idle"
  BY DEF Reconfirm
<1>. QED
  BY <1>1, GoMoves, PhaseFacts DEF Reconfirm, RecoverThrow

LEMMA ReclearMoves ==
    ASSUME TypeInv, Reclear
    PROVE  op' = NoOp
BY DEF Reclear, JournalWrite, RecoverThrow

-----------------------------------------------------------------------------
(* The durable journal.                                                    *)

Attempting == {"stage", "begin"}
Journaled == ChangePhase \ {"stage", "begin"}

\* An attempt that has not reached the journal has marked nothing.
Fresh == op # NoOp /\ op.phase \in Attempting => ~op.marked

\* An operation that ends leaves nothing to say about.
LEMMA JournalAtEnd == op' = NoOp => OwnJournal'
BY DEF OwnJournal

\* The journal stays as it is while the operation goes on.
LEMMA JournalKept ==
    ASSUME TypeInv, OwnJournal, op # NoOp, SameChange, op'.marked = op.marked,
           journal' = journal,
           \/ op.phase \in Attempting /\ op'.phase \in Attempting
           \/ op.phase \in Journaled /\ op'.phase \in Journaled
           \/ op.phase \in RecoveryPhase /\ op'.phase \in RecoveryPhase
    PROVE  OwnJournal'
<1>1. Desired' = Desired
  BY DEF Desired
<1>2. CASE op.phase \in Attempting /\ op'.phase \in Attempting
  BY <1>2 DEF OwnJournal, SameChange, Attempting
<1>3. CASE op.phase \in Journaled /\ op'.phase \in Journaled
  BY <1>3, PhaseFacts DEF OwnJournal, SameChange, Journaled, ChangePhase
<1>4. CASE op.phase \in RecoveryPhase /\ op'.phase \in RecoveryPhase
  BY <1>1, <1>4 DEF OwnJournal, SameChange, RecoveryPhase, ChangePhase
<1>. QED
  BY <1>2, <1>3, <1>4

\* A new attempt starts without a journal.
LEMMA JournalAtStart ==
    ASSUME NEW t, NEW conf, StartsOver(t, conf), t # << >> => journal' = None
    PROVE  OwnJournal'
BY DEF StartsOver, OwnJournal

\* The phases of the steps that keep the journal.
LEMMA CommittingJournal ==
    ASSUME TypeInv, OwnJournal, op.phase \in {"commit", "confirm"}, Committed,
           journal' = journal
    PROVE  OwnJournal'
<1>1. op # NoOp /\ op.phase # "idle"
  BY NoOpFacts
<1>2. CASE MovesTo("clear", 1)
  BY <1>1, <1>2, JournalKept DEF MovesTo, Journaled, ChangePhase
<1>. QED
  BY <1>1, <1>2, CommittedMoves, JournalAtEnd

LEMMA ChangeJournal == TypeInv /\ Fresh /\ OwnJournal /\ Change => OwnJournal'
<1>. SUFFICES ASSUME TypeInv, Fresh, OwnJournal, Change PROVE OwnJournal'
  OBVIOUS
<1>0. op # NoOp
  BY NoOpFacts DEF Change, Stage, BeginJournal, Apply, Commit, Confirm, Clear,
                   MarkRollback, Rollback, Settle
<1>1. CASE Stage
  <2>1. journal' = journal /\ op.phase = "stage"
    BY <1>1 DEF Stage
  <2>2. CASE MovesTo("stage", op.at + 1) \/ MovesTo("begin", 1)
    BY <1>0, <2>1, <2>2, JournalKept DEF MovesTo, Attempting
  <2>. QED
    BY <1>1, <2>2, StageMoves, JournalAtEnd
<1>2. CASE BeginJournal
  <2>1. op.phase = "begin" /\ op \in Operation
    BY <1>2, BusyOp DEF BeginJournal
  <2>2. CASE journal' = Entry /\ MovesTo("apply", 1)
    <3>1. Entry # None
      BY <2>1, NoneAssumption DEF Entry, Journal, Operation
    <3>2. ~op.marked
      BY <1>0, <2>1 DEF Fresh, Attempting
    <3>. QED
      BY <2>1, <2>2, <3>1, <3>2 DEF OwnJournal, MovesTo, SameChange, Entry, ChangePhase
  <2>. QED
    BY <1>2, <2>2, BeginJournalMoves, JournalAtEnd
<1>3. CASE Apply
  <2>1. journal' = journal /\ op.phase = "apply"
    BY <1>3 DEF Apply
  <2>2. \/ MovesTo("apply", op.at + 1) \/ MovesTo("commit", 1) \/ MovesTo("mark", op.at)
    BY <1>3, ApplyMoves
  <2>. QED
    BY <1>0, <2>1, <2>2, JournalKept DEF MovesTo, Journaled, ChangePhase
<1>4. CASE Commit
  <2>1. journal' = journal /\ op.phase = "commit"
    BY <1>4 DEF Commit
  <2>2. CASE MovesTo("confirm", op.at)
    BY <1>0, <2>1, <2>2, JournalKept DEF MovesTo, Journaled, ChangePhase
  <2>3. CASE Committed
    BY <2>1, <2>3, CommittingJournal
  <2>. QED
    BY <1>4, <2>2, <2>3, CommitMoves
<1>5. CASE Confirm
  <2>1. journal' = journal /\ op.phase = "confirm"
    BY <1>5 DEF Confirm
  <2>2. CASE MovesTo(IF op.targets = << >> THEN "settle" ELSE "mark", Len(op.targets))
    BY <1>0, <2>1, <2>2, JournalKept DEF MovesTo, Journaled, ChangePhase
  <2>3. CASE Committed
    BY <2>1, <2>3, CommittingJournal
  <2>. QED
    BY <1>5, <2>2, <2>3, ConfirmMoves
<1>6. CASE Clear
  BY <1>6, JournalAtEnd DEF Clear, JournalWrite, Finish
<1>7. CASE MarkRollback
  <2>1. op.phase = "mark" /\ journal # None /\ journal \in Journal
    BY <1>7 DEF MarkRollback, TypeInv, TypeOK
  <2>2. /\ SameChange /\ op'.phase = "rollback"
        /\ \/ journal' = [journal EXCEPT !.direction = "rollback"]
           \/ journal' = journal /\ op'.marked = op.marked
    BY <1>7, MarkMoves
  <2>3. CASE journal' = [journal EXCEPT !.direction = "rollback"]
    <3>1. /\ journal' \in Journal /\ journal'.direction = "rollback"
          /\ journal'.before = journal.before /\ journal'.after = journal.after
          /\ journal'.targets = journal.targets
      BY <2>1, <2>3 DEF Journal
    <3>2. journal' # None
      BY <3>1, NoneAssumption
    <3>. QED
      BY <1>0, <2>1, <2>2, <3>1, <3>2 DEF OwnJournal, SameChange, ChangePhase
  <2>4. CASE journal' = journal /\ op'.marked = op.marked
    BY <1>0, <2>1, <2>2, <2>4, JournalKept DEF Journaled, ChangePhase
  <2>. QED
    BY <2>2, <2>3, <2>4
<1>8. CASE Rollback
  <2>1. journal' = journal /\ op.phase = "rollback"
    BY <1>8 DEF Rollback
  <2>2. /\ SameChange /\ op'.marked = op.marked
        /\ op'.phase = IF op.at = 1 THEN "settle" ELSE "rollback"
    BY <1>8, RollbackMoves
  <2>. QED
    BY <1>0, <2>1, <2>2, JournalKept DEF Journaled, ChangePhase
<1>9. CASE Settle
  BY <1>9, SettleMoves, JournalAtEnd, JournalAtStart
<1>. QED
  BY <1>1, <1>2, <1>3, <1>4, <1>5, <1>6, <1>7, <1>8, <1>9 DEF Change

LEMMA RecoveryJournal == TypeInv /\ OwnJournal /\ Recovery => OwnJournal'
<1>. SUFFICES ASSUME TypeInv, OwnJournal, Recovery PROVE OwnJournal'
  OBVIOUS
<1>1. CASE StartRecovery
  <2>1. journal' = journal /\ Desired' = Desired
    BY <1>1 DEF StartRecovery, Desired
  <2>2. CASE /\ journal # None
             /\ op'.phase = IF ReplayNeeded THEN "restage" ELSE "reclear"
             /\ op'.after = Desired
    BY <2>1, <2>2 DEF OwnJournal, ChangePhase
  <2>. QED
    BY <1>1, <2>2, StartRecoveryMoves, JournalAtEnd
<1>2. CASE Restage \/ Reapply \/ Recommit \/ Reconfirm
  <2>1. journal' = journal /\ op.phase \in RecoveryPhase /\ op # NoOp
    BY <1>2, NoOpFacts DEF Restage, Reapply, Recommit, Reconfirm, RecoveryPhase
  <2>2. op' = NoOp \/ \E phase \in RecoveryPhase, at \in {1, op.at + 1} : MovesTo(phase, at)
    BY <1>2, RestageMoves, ReapplyMoves, RecommitMoves, ReconfirmMoves DEF RecoveryPhase
  <2>. QED
    BY <2>1, <2>2, JournalKept, JournalAtEnd DEF MovesTo
<1>3. CASE Reclear
  BY <1>3, ReclearMoves, JournalAtEnd
<1>. QED
  BY <1>1, <1>2, <1>3 DEF Recovery

LEMMA StepFresh == TypeInv /\ Fresh /\ [Next]_vars => Fresh'
<1>. SUFFICES ASSUME TypeInv, Fresh, [Next]_vars PROVE Fresh'
  OBVIOUS
<1>0. op' = NoOp => Fresh'
  BY DEF Fresh
<1>1. CASE op' = op
  BY <1>1 DEF Fresh
<1>2. CASE Stage
  <2>1. op # NoOp /\ op.phase = "stage"
    BY <1>2, NoOpFacts DEF Stage
  <2>. QED
    BY <1>0, <1>2, <2>1, StageMoves DEF MovesTo, Fresh, Attempting
<1>3. CASE \/ BeginJournal \/ Apply \/ Commit \/ Confirm \/ Clear \/ MarkRollback \/ Rollback
  <2>1. op' = NoOp \/ op'.phase \notin Attempting
    <3>1. BeginJournal => op' = NoOp \/ op'.phase = "apply"
      BY BeginJournalMoves DEF MovesTo
    <3>2. Apply => op'.phase \in {"apply", "commit", "mark"}
      BY ApplyMoves DEF MovesTo
    <3>3. op.phase # "idle" /\ Committed => op' = NoOp \/ op'.phase = "clear"
      BY CommittedMoves DEF MovesTo
    <3>4. Commit => op' = NoOp \/ op'.phase \in {"clear", "confirm"}
      BY <3>3, CommitMoves DEF MovesTo, Commit
    <3>5. Confirm => op' = NoOp \/ op'.phase \in {"clear", "settle", "mark"}
      BY <3>3, ConfirmMoves DEF MovesTo, Confirm
    <3>6. Clear => op' = NoOp
      BY DEF Clear, JournalWrite, Finish
    <3>7. MarkRollback \/ Rollback => op'.phase \in {"rollback", "settle"}
      BY MarkMoves, RollbackMoves
    <3>. QED
      BY <1>3, <3>1, <3>2, <3>4, <3>5, <3>6, <3>7 DEF Attempting
  <2>. QED
    BY <2>1 DEF Fresh
<1>4. CASE Settle
  BY <1>0, <1>4, SettleMoves DEF StartsOver, Fresh
<1>5. CASE Recovery
  <2>1. op' = NoOp \/ op' = op \/ op'.phase \in RecoveryPhase
    BY <1>5, StartRecoveryMoves, RestageMoves, ReapplyMoves, RecommitMoves,
       ReconfirmMoves, ReclearMoves DEF Recovery, MovesTo, RecoveryPhase
  <2>. QED
    BY <1>0, <1>1, <2>1 DEF Fresh, Attempting, RecoveryPhase
<1>6. ASSUME NEW t \in TargetList, NEW conf \in [Node -> Config],
             NEW tries \in {1, MaxAttempts}, BeginChange(t, conf, tries)
      PROVE  Fresh'
  BY <1>6, BeginChangeMoves DEF StartsOver, Fresh
<1>. QED
  BY <1>0, <1>1, <1>2, <1>3, <1>4, <1>5, <1>6
     DEF Next, Change, Preview, EditLayout, Restart, vars

OwnInv == TypeInv /\ Fresh /\ OwnJournal

LEMMA StepOwnInv == OwnInv /\ [Next]_vars => OwnInv'
<1>. SUFFICES ASSUME OwnInv, [Next]_vars PROVE OwnInv'
  OBVIOUS
<1>1. TypeInv /\ Fresh /\ OwnJournal
  BY DEF OwnInv
<1>2. OwnJournal'
  <2>1. CASE Change \/ Recovery
    BY <1>1, <2>1, ChangeJournal, RecoveryJournal
  <2>2. ASSUME NEW t \in TargetList, NEW conf \in [Node -> Config],
               NEW tries \in {1, MaxAttempts}, BeginChange(t, conf, tries)
        PROVE  OwnJournal'
    BY <1>1, <2>2, BeginChangeMoves, JournalAtStart DEF BeginChange, LockFree
  <2>3. CASE op' = op /\ journal' = journal
    BY <1>1, <2>3 DEF OwnJournal, Desired
  <2>4. CASE Restart
    BY <2>4, JournalAtEnd DEF Restart
  <2>. QED
    BY <2>1, <2>2, <2>3, <2>4 DEF Next, Preview, EditLayout, vars
<1>. QED
  BY <1>1, <1>2, StepTypeInv, StepFresh DEF OwnInv

\* From beginJournal to clearJournal the durable journal is the one of the
\* operation in memory, for all faults: a lost reply of a journal write, a crash
\* or a conflict never leaves an operation working under another's journal.
THEOREM JournalOwned == Spec => []OwnJournal
<1>1. Init => OwnInv
  BY InitTypeInv DEF OwnInv, Init, Fresh, OwnJournal
<1>2. OwnInv => OwnJournal
  BY DEF OwnInv
<1>. QED
  BY <1>1, <1>2, StepOwnInv, PTL DEF Spec

-----------------------------------------------------------------------------
(* The staged candidates.                                                  *)

\* While an operation stages, the targets it has passed hold its candidates.
StagedSoFar ==
    op # NoOp /\ op.phase \in {"stage", "restage"} =>
        \A i \in 1 .. op.at - 1 :
            staged[op.targets[i]] = op.after.conf[op.targets[i]]

CandidateInv == OwnCandidate /\ StagedSoFar

LEMMA CandidateElsewhere ==
    op' = NoOp \/ op'.phase \notin {"stage", "restage", "begin", "apply", "reapply"}
        => CandidateInv'
BY DEF CandidateInv, OwnCandidate, StagedSoFar

\* Staging the next target.
LEMMA StagingOn ==
    ASSUME TypeInv, CandidateInv, StageOk(Current),
           \/ op.phase = "stage" /\ MovesTo("stage", op.at + 1)
           \/ op.phase = "restage" /\ MovesTo("restage", op.at + 1)
    PROVE  CandidateInv'
<1>1. /\ op # NoOp /\ op.phase # "idle" /\ Current \in Node
      /\ Current = op.targets[op.at]
      /\ op.at \in 1 .. Len(op.targets) /\ Len(op.targets) \in Nat
      /\ staged \in [Node -> Config \cup {None}]
      /\ op.targets \in TargetList
  BY NoOpFacts, CurrentNode, BusyOp DEF TypeInv, TypeOK
<1>2. \A i \in 1 .. Len(op.targets) : op.targets[i] \in Node
  BY <1>1, TargetListIsSeq
<1>3. ASSUME NEW i \in 1 .. op.at
      PROVE  staged'[op.targets[i]] = op.after.conf[op.targets[i]]
  <2>1. i \in 1 .. Len(op.targets) /\ (i = op.at \/ i \in 1 .. op.at - 1)
    BY <1>1
  <2>2. i # op.at => staged[op.targets[i]] = op.after.conf[op.targets[i]]
    BY <1>1, <2>1 DEF CandidateInv, StagedSoFar
  <2>. QED
    BY <1>1, <1>2, <2>1, <2>2 DEF StageOk
<1>4. op'.at - 1 = op.at
  BY <1>1 DEF MovesTo
<1>. QED
  BY <1>3, <1>4 DEF MovesTo, SameChange, CandidateInv, StagedSoFar, OwnCandidate

\* Staging the last target.
LEMMA StagingEnds ==
    ASSUME TypeInv, CandidateInv, StageOk(Current), op.at = Len(op.targets),
           \/ op.phase = "stage" /\ MovesTo("begin", 1)
           \/ op.phase = "restage" /\ MovesTo("reapply", 1)
    PROVE  CandidateInv'
<1>1. /\ op # NoOp /\ op.phase # "idle" /\ Current \in Node
      /\ Current = op.targets[op.at]
      /\ op.at \in 1 .. Len(op.targets) /\ Len(op.targets) \in Nat
      /\ staged \in [Node -> Config \cup {None}]
      /\ op.targets \in TargetList
  BY NoOpFacts, CurrentNode, BusyOp DEF TypeInv, TypeOK
<1>2. \A i \in 1 .. Len(op.targets) : op.targets[i] \in Node
  BY <1>1, TargetListIsSeq
<1>3. ASSUME NEW i \in 1 .. Len(op.targets)
      PROVE  staged'[op.targets[i]] = op.after.conf[op.targets[i]]
  <2>1. i = op.at \/ i \in 1 .. op.at - 1
    BY <1>1
  <2>2. i # op.at => staged[op.targets[i]] = op.after.conf[op.targets[i]]
    BY <1>1, <2>1 DEF CandidateInv, StagedSoFar
  <2>. QED
    BY <1>1, <1>2, <2>2 DEF StageOk
<1>. QED
  BY <1>3 DEF MovesTo, SameChange, CandidateInv, StagedSoFar, OwnCandidate

\* Applying a target consumes its candidate and leaves the later ones.
LEMMA ApplyingOn ==
    ASSUME TypeInv, CandidateInv, ApplyTakesEffect(Current),
           \/ op.phase = "apply" /\ MovesTo("apply", op.at + 1)
           \/ op.phase = "reapply" /\ MovesTo("reapply", op.at + 1)
    PROVE  CandidateInv'
<1>1. /\ op # NoOp /\ op.phase # "idle" /\ Current \in Node
      /\ Current = op.targets[op.at]
      /\ op.at \in 1 .. Len(op.targets) /\ Len(op.targets) \in Nat
      /\ staged \in [Node -> Config \cup {None}]
      /\ op.targets \in TargetList
  BY NoOpFacts, CurrentNode, BusyOp DEF TypeInv, TypeOK
<1>2. /\ \A i \in 1 .. Len(op.targets) : op.targets[i] \in Node
      /\ \A i, j \in 1 .. Len(op.targets) : op.targets[i] = op.targets[j] => i = j
  BY <1>1, TargetListIsSeq
<1>3. ASSUME NEW i \in op.at + 1 .. Len(op.targets)
      PROVE  staged'[op.targets[i]] = op.after.conf[op.targets[i]]
  <2>1. i \in op.at .. Len(op.targets) /\ i \in 1 .. Len(op.targets) /\ i # op.at
    BY <1>1
  <2>2. staged[op.targets[i]] = op.after.conf[op.targets[i]]
    BY <1>1, <2>1 DEF CandidateInv, OwnCandidate
  <2>3. op.targets[i] # Current
    BY <1>1, <1>2, <2>1
  <2>. QED
    BY <1>1, <1>2, <2>1, <2>2, <2>3 DEF ApplyTakesEffect
<1>. QED
  BY <1>3 DEF MovesTo, SameChange, CandidateInv, StagedSoFar, OwnCandidate

LEMMA ChangeCandidate == TypeInv /\ CandidateInv /\ Change => CandidateInv'
<1>. SUFFICES ASSUME TypeInv, CandidateInv, Change PROVE CandidateInv'
  OBVIOUS
<1>1. CASE Stage
  BY <1>1, StageMoves, StagingOn, StagingEnds, CandidateElsewhere DEF Stage
<1>2. CASE BeginJournal
  <2>1. op # NoOp /\ op.phase = "begin" /\ op.at = 1 /\ staged' = staged
    BY <1>2, NoOpFacts, BusyOp DEF BeginJournal, TypeInv, OpShape, nodes
  <2>2. CASE MovesTo("apply", 1)
    BY <2>1, <2>2 DEF MovesTo, SameChange, CandidateInv, OwnCandidate, StagedSoFar
  <2>. QED
    BY <1>2, <2>2, BeginJournalMoves, CandidateElsewhere
<1>3. CASE Apply
  <2>1. op.phase = "apply"
    BY <1>3 DEF Apply
  <2>2. CASE ApplyTakesEffect(Current) /\ MovesTo("apply", op.at + 1)
    BY <2>1, <2>2, ApplyingOn
  <2>3. CASE MovesTo("commit", 1) \/ MovesTo("mark", op.at)
    BY <2>3, CandidateElsewhere DEF MovesTo
  <2>. QED
    BY <1>3, <2>2, <2>3, ApplyMoves
<1>4. CASE Commit \/ Confirm
  <2>1. op.phase # "idle" /\ Committed => op' = NoOp \/ op'.phase = "clear"
    BY CommittedMoves DEF MovesTo
  <2>2. op' = NoOp \/ op'.phase \in {"clear", "confirm", "settle", "mark"}
    BY <1>4, <2>1, CommitMoves, ConfirmMoves DEF Commit, Confirm, MovesTo
  <2>. QED
    BY <2>2, CandidateElsewhere
<1>5. CASE Clear
  BY <1>5, CandidateElsewhere DEF Clear, JournalWrite, Finish
<1>6. CASE MarkRollback \/ Rollback
  <2>1. op'.phase \in {"rollback", "settle"}
    BY <1>6, MarkMoves, RollbackMoves
  <2>. QED
    BY <2>1, CandidateElsewhere
<1>7. CASE Settle
  <2>1. op' = NoOp \/ StartsOver(op.targets, op.after.conf)
    BY <1>7, SettleMoves
  <2>2. CASE StartsOver(op.targets, op.after.conf)
    BY <2>2 DEF StartsOver, CandidateInv, OwnCandidate, StagedSoFar
  <2>. QED
    BY <2>1, <2>2, CandidateElsewhere
<1>. QED
  BY <1>1, <1>2, <1>3, <1>4, <1>5, <1>6, <1>7 DEF Change

LEMMA RecoveryCandidate == TypeInv /\ CandidateInv /\ Recovery => CandidateInv'
<1>. SUFFICES ASSUME TypeInv, CandidateInv, Recovery PROVE CandidateInv'
  OBVIOUS
<1>1. CASE StartRecovery
  <2>1. CASE /\ op'.phase = IF ReplayNeeded THEN "restage" ELSE "reclear"
             /\ op'.at = 1
    BY <2>1 DEF CandidateInv, OwnCandidate, StagedSoFar
  <2>. QED
    BY <1>1, <2>1, StartRecoveryMoves, CandidateElsewhere
<1>2. CASE Restage
  BY <1>2, RestageMoves, StagingOn, StagingEnds, CandidateElsewhere DEF Restage
<1>3. CASE Reapply
  <2>1. op.phase = "reapply"
    BY <1>3 DEF Reapply
  <2>2. CASE ApplyTakesEffect(Current) /\ MovesTo("reapply", op.at + 1)
    BY <2>1, <2>2, ApplyingOn
  <2>3. CASE MovesTo("reclear", 1) \/ MovesTo("recommit", 1) \/ op' = NoOp
    BY <2>3, CandidateElsewhere DEF MovesTo
  <2>. QED
    BY <1>3, <2>2, <2>3, ReapplyMoves
<1>4. CASE Recommit \/ Reconfirm \/ Reclear
  BY <1>4, RecommitMoves, ReconfirmMoves, ReclearMoves, CandidateElsewhere DEF MovesTo
<1>. QED
  BY <1>1, <1>2, <1>3, <1>4 DEF Recovery

LEMMA StepCandidate == TypeInv /\ CandidateInv /\ [Next]_vars => CandidateInv'
<1>. SUFFICES ASSUME TypeInv, CandidateInv, [Next]_vars PROVE CandidateInv'
  OBVIOUS
<1>1. CASE op' = op /\ staged' = staged
  BY <1>1 DEF CandidateInv, OwnCandidate, StagedSoFar
<1>2. ASSUME NEW t \in TargetList, NEW conf \in [Node -> Config],
             NEW tries \in {1, MaxAttempts}, BeginChange(t, conf, tries)
      PROVE  CandidateInv'
  <2>1. StartsOver(t, conf)
    BY <1>2, BeginChangeMoves
  <2>. QED
    BY <2>1 DEF StartsOver, CandidateInv, OwnCandidate, StagedSoFar
<1>3. ASSUME NEW n \in Node, NEW config \in Config, Preview(n, config)
      PROVE  CandidateInv'
  BY <1>3, CandidateElsewhere DEF Preview, LockFree
<1>. QED
  BY <1>1, <1>2, <1>3, ChangeCandidate, RecoveryCandidate, CandidateElsewhere
     DEF Next, EditLayout, Restart, nodes, vars

\* Every candidate an apply is still to promote is the one this operation
\* staged: neither a preview nor another operation can slip one in.
THEOREM CandidatesOwned == Spec => []OwnCandidate
<1>1. Init => CandidateInv
  BY DEF Init, CandidateInv, OwnCandidate, StagedSoFar
<1>2. CandidateInv => OwnCandidate
  BY DEF CandidateInv
<1>. QED
  BY <1>1, <1>2, InitTypeInv, StepTypeInv, StepCandidate, PTL DEF Spec

-----------------------------------------------------------------------------
(* LAYOUT.  A saved layout survives every deployment and every recovery,   *)
(* although both write the whole inventory and layouts are saved without   *)
(* the lock.                                                               *)

(* The inductive invariant.                                                *)

\* The two sides of a recorded change have the same layout.
JournalLayout == journal # None => journal.before.layout = journal.after.layout

\* An operation keeps the layout it read, and the revision tells whether it is
\* still the saved one: a save since then has made the revision larger.
ReadLayout ==
    op # NoOp =>
        /\ op.after.layout = op.before.layout
        /\ op.revision <= revision
        /\ op.revision = revision => inventory.layout = op.before.layout

LayoutInv == TypeInv /\ JournalLayout /\ ReadLayout

\* What LayoutIsKept allows a step to do.
KeepsLayout ==
    inventory'.layout # inventory.layout =>
        revision' = revision + 1 /\ UNCHANGED <<op, journal>>

Kept == JournalLayout' /\ ReadLayout' /\ KeepsLayout

-----------------------------------------------------------------------------
(* Three kinds of steps.                                                   *)

\* The operation ends, or goes on with what it read, and writes no inventory.
LEMMA GoesOn ==
    ASSUME LayoutInv, store' = store, journal' \in {journal, None},
           op' = NoOp \/ op' = op \/ (op # NoOp /\ SameChange)
    PROVE  Kept
<1>1. inventory' = inventory /\ revision' = revision
  BY DEF store
<1>. QED
  BY <1>1 DEF LayoutInv, Kept, JournalLayout, ReadLayout, KeepsLayout, SameChange

\* An operation reads the inventory.
LEMMA Reads ==
    ASSUME LayoutInv, store' = store, journal' \in {journal, None},
           op'.before = inventory, op'.revision = revision,
           op'.after.layout = inventory.layout
    PROVE  Kept
<1>1. inventory' = inventory /\ revision' = revision /\ revision \in Nat
  BY DEF store, LayoutInv, TypeInv, TypeOK
<1>. QED
  BY <1>1 DEF LayoutInv, Kept, JournalLayout, ReadLayout, KeepsLayout

\* The compare-and-swap writes the layout that is there.
LEMMA Swaps ==
    ASSUME LayoutInv, op # NoOp, CompareAndSwap, journal' = journal,
           op' = NoOp \/ SameChange
    PROVE  Kept
<1>1. /\ op \in Operation /\ revision \in Nat /\ op.revision = revision
      /\ inventory' = op.after /\ revision' = revision + 1
  BY DEF CompareAndSwap, LayoutInv, TypeInv, TypeOK
<1>2. inventory'.layout = inventory.layout
  BY <1>1 DEF LayoutInv, ReadLayout
<1>3. ReadLayout'
  BY <1>1 DEF LayoutInv, ReadLayout, SameChange
<1>. QED
  BY <1>2, <1>3 DEF LayoutInv, Kept, JournalLayout, KeepsLayout

\* A new attempt keeps the layout it reads.
LEMMA Restarts ==
    ASSUME LayoutInv, NEW t \in TargetList, NEW conf \in [Node -> Config],
           StartsOver(t, conf), store' = store, journal' \in {journal, None}
    PROVE  Kept
<1>1. Draft(t, conf).layout = inventory.layout
  BY DEF Draft, LayoutInv, TypeInv, TypeOK, Inventory
<1>. QED
  BY <1>1, Reads DEF StartsOver

-----------------------------------------------------------------------------
(* Every step.                                                             *)

LEMMA ChangeLayout == LayoutInv /\ Change => Kept
<1>. SUFFICES ASSUME LayoutInv, Change PROVE Kept
  OBVIOUS
<1>0. /\ op # NoOp /\ op.phase # "idle" /\ TypeInv /\ op \in Operation
      /\ op.targets \in TargetList /\ op.after.conf \in [Node -> Config]
  BY NoOpFacts, BusyOp DEF LayoutInv, Change, Stage, BeginJournal, Apply, Commit,
     Confirm, Clear, MarkRollback, Rollback, Settle
<1>1. CASE Stage
  BY <1>0, <1>1, StageMoves, GoesOn DEF Stage, MovesTo
<1>2. CASE BeginJournal
  <2>1. store' = store /\ journal' \in {journal, Entry}
    BY <1>2 DEF BeginJournal, JournalWrite
  <2>2. CASE journal' = journal
    <3>1. op' = NoOp \/ SameChange
      BY <1>0, <1>2, BeginJournalMoves DEF MovesTo
    <3>. QED
      BY <1>0, <2>1, <2>2, <3>1, GoesOn
  <2>3. CASE journal' = Entry
    <3>1. JournalLayout'
      BY <1>0, <2>3 DEF JournalLayout, Entry, LayoutInv, ReadLayout
    <3>2. op' = NoOp \/ SameChange
      BY <1>0, <1>2, BeginJournalMoves DEF MovesTo
    <3>. QED
      BY <1>0, <2>1, <3>1, <3>2
         DEF store, LayoutInv, Kept, ReadLayout, KeepsLayout, SameChange
  <2>. QED
    BY <2>1, <2>2, <2>3
<1>3. CASE Apply
  BY <1>0, <1>3, ApplyMoves, GoesOn DEF Apply, MovesTo
<1>4. CASE Commit
  <2>1. journal' = journal
    BY <1>4 DEF Commit
  <2>2. Committed => op' = NoOp \/ SameChange
    BY <1>0, CommittedMoves DEF MovesTo
  <2>3. CASE CompareAndSwap /\ (op' = NoOp \/ SameChange)
    BY <1>0, <2>1, <2>3, Swaps
  <2>4. CASE UNCHANGED store /\ SameChange
    BY <1>0, <2>1, <2>4, GoesOn
  <2>. QED
    BY <1>0, <1>4, <2>2, <2>3, <2>4, CommitMoves DEF MovesTo
<1>5. CASE Confirm
  <2>1. op' = NoOp \/ SameChange
    BY <1>0, <1>5, ConfirmMoves, CommittedMoves DEF MovesTo
  <2>. QED
    BY <1>0, <1>5, <2>1, GoesOn DEF Confirm
<1>6. CASE Clear
  BY <1>6, GoesOn DEF Clear, JournalWrite, Finish
<1>7. CASE MarkRollback
  <2>1. /\ journal \in Journal /\ journal # None /\ store' = store
        /\ journal' \in {journal, [journal EXCEPT !.direction = "rollback"]}
    BY <1>0, <1>7 DEF MarkRollback, JournalWrite, TypeInv, TypeOK
  <2>2. JournalLayout'
    BY <2>1 DEF LayoutInv, JournalLayout, Journal
  <2>3. SameChange
    BY <1>0, <1>7, MarkMoves
  <2>. QED
    BY <1>0, <2>1, <2>2, <2>3
       DEF store, LayoutInv, Kept, ReadLayout, KeepsLayout, SameChange
<1>8. CASE Rollback
  BY <1>0, <1>8, RollbackMoves, GoesOn DEF Rollback
<1>9. CASE Settle
  <2>1. store' = store /\ journal' \in {journal, None}
    BY <1>0, <1>9, SettleMoves DEF Settle
  <2>2. op' = NoOp \/ StartsOver(op.targets, op.after.conf)
    BY <1>0, <1>9, SettleMoves
  <2>. QED
    BY <1>0, <2>1, <2>2, GoesOn, Restarts
<1>. QED
  BY <1>1, <1>2, <1>3, <1>4, <1>5, <1>6, <1>7, <1>8, <1>9 DEF Change

LEMMA RecoveryLayout == LayoutInv /\ Recovery => Kept
<1>. SUFFICES ASSUME LayoutInv, Recovery PROVE Kept
  OBVIOUS
<1>0. TypeInv
  BY DEF LayoutInv
<1>1. CASE StartRecovery
  <2>1. store' = store /\ journal' = journal
    BY <1>1 DEF StartRecovery
  <2>2. CASE /\ journal # None /\ inventory \in {Desired, Opposite}
             /\ op'.before = inventory /\ op'.revision = revision
             /\ op'.after = Desired
    <3>1. Desired.layout = inventory.layout
      BY <2>2 DEF Desired, Opposite, LayoutInv, JournalLayout
    <3>. QED
      BY <2>1, <2>2, <3>1, Reads
  <2>. QED
    BY <1>0, <1>1, <2>1, <2>2, StartRecoveryMoves, GoesOn
<1>2. CASE Restage \/ Reapply \/ Reconfirm
  <2>1. op # NoOp /\ store' = store /\ journal' = journal
    BY <1>2, NoOpFacts DEF Restage, Reapply, Reconfirm
  <2>2. op' = NoOp \/ SameChange
    BY <1>0, <1>2, RestageMoves, ReapplyMoves, ReconfirmMoves DEF MovesTo
  <2>. QED
    BY <2>1, <2>2, GoesOn
<1>3. CASE Recommit
  <2>1. op # NoOp /\ journal' = journal /\ (CompareAndSwap \/ UNCHANGED store)
    BY <1>3, NoOpFacts DEF Recommit
  <2>2. SameChange
    BY <1>0, <1>3, RecommitMoves DEF MovesTo
  <2>. QED
    BY <2>1, <2>2, Swaps, GoesOn
<1>4. CASE Reclear
  BY <1>0, <1>4, ReclearMoves, GoesOn DEF Reclear, JournalWrite
<1>. QED
  BY <1>1, <1>2, <1>3, <1>4 DEF Recovery

LEMMA EditKeeps == LayoutInv /\ (\E layout \in Layout : EditLayout(layout)) => Kept
<1>. SUFFICES ASSUME LayoutInv, NEW layout \in Layout, EditLayout(layout) PROVE Kept
  OBVIOUS
<1>1. /\ revision \in Nat /\ revision' = revision + 1
      /\ op' = op /\ journal' = journal /\ op \in Operation \cup {NoOp}
  BY DEF EditLayout, LayoutInv, TypeInv, TypeOK
<1>2. op # NoOp => op.revision \in Nat
  BY <1>1 DEF Operation
<1>. QED
  BY <1>1, <1>2 DEF LayoutInv, Kept, JournalLayout, ReadLayout, KeepsLayout

LEMMA StepLayout == LayoutInv /\ [Next]_vars => LayoutInv' /\ KeepsLayout
<1>. SUFFICES ASSUME LayoutInv, [Next]_vars PROVE LayoutInv' /\ KeepsLayout
  OBVIOUS
<1>1. TypeInv'
  BY StepTypeInv DEF LayoutInv
<1>2. Kept
  <2>1. ASSUME NEW t \in TargetList, NEW conf \in [Node -> Config],
               NEW tries \in {1, MaxAttempts}, BeginChange(t, conf, tries)
        PROVE  Kept
    <3>1. StartsOver(t, conf) /\ store' = store /\ journal' = journal
      BY <2>1, BeginChangeMoves DEF LayoutInv, BeginChange
    <3>. QED
      BY <3>1, Restarts
  <2>2. CASE \/ \E n \in Node, config \in Config : Preview(n, config)
             \/ Restart
             \/ UNCHANGED vars
    <3>1. store' = store /\ journal' = journal /\ (op' = op \/ op' = NoOp)
      BY <2>2 DEF Preview, Restart, vars, store
    <3>. QED
      BY <3>1, GoesOn
  <2>. QED
    BY <2>1, <2>2, ChangeLayout, RecoveryLayout, EditKeeps DEF Next
<1>. QED
  BY <1>1, <1>2 DEF LayoutInv, Kept

\* Whatever fails, a deployment or a recovery never writes back a layout it read
\* before a save: the compare-and-swap on the revision, which every save raises,
\* and the layout the two sides of the journal share, see to it.
THEOREM LayoutKept == Spec => LayoutIsKept
<1>1. Init => LayoutInv
  BY InitTypeInv DEF Init, LayoutInv, JournalLayout, ReadLayout
<1>2. LayoutInv /\ [Next]_vars =>
        [inventory'.layout # inventory.layout =>
            revision' = revision + 1 /\ UNCHANGED <<op, journal>>]_vars
  BY StepLayout DEF KeepsLayout
<1>3. LayoutInv /\ [Next]_vars => LayoutInv'
  BY StepLayout
<1>. QED
  BY <1>1, <1>2, <1>3, PTL DEF Spec, LayoutIsKept

-----------------------------------------------------------------------------
(* REPORTED.  A change that was reported as failed stays failed, through   *)
(* crashes, refused applies, commits whose reply is lost and layout saves. *)

(* The inductive invariant.                                                *)

\* The fault the proof leaves out: a write of the journal whose caller sees an
\* error.  With it a failed change can leave a journal that says "forward".
JournalAnswered == "journal_write" \notin Faults

\* As long as a change is under way nobody was told how it ends.
NotYetTold == op # NoOp /\ op.phase \in ChangePhase => told = "none"

\* What a failed change left in the journal is there to be taken back.
TakenBack == told = "failed" /\ journal # None => journal.direction = "rollback"

\* The nodes are undone under a journal that says so.
Marked ==
    op # NoOp /\ op.phase \in {"rollback", "settle"} /\ op.targets # << >> =>
        op.marked

\* A change without targets meets no journal and writes none.
WithoutJournal ==
    op # NoOp /\ op.phase \in ChangePhase /\ op.targets = << >> => journal = None

Reported == NotYetTold /\ TakenBack /\ Marked /\ WithoutJournal

ReportedInv == OwnInv /\ Reported

\* What FailedChangeStaysFailed allows a step to do.
StaysFailed ==
    told = "failed" /\ inventory'.conf # inventory.conf =>
        /\ journal # None
        /\ journal.direction = "rollback"
        /\ inventory'.conf = journal.before.conf

-----------------------------------------------------------------------------
(* The kinds of steps.                                                     *)

\* The change goes on; nothing is reported.
LEMMA GoesOnUnreported ==
    ASSUME ReportedInv, op # NoOp, op.phase \in ChangePhase, SameChange,
           told' = told, op'.targets # << >> \/ journal' = journal,
           op'.phase \in ChangePhase,
           op'.phase \in {"rollback", "settle"} /\ op'.targets # << >> => op'.marked
    PROVE  Reported'
<1>1. told' = "none"
  BY DEF ReportedInv, Reported, NotYetTold
<1>2. WithoutJournal'
  BY DEF ReportedInv, Reported, WithoutJournal, SameChange
<1>. QED
  BY <1>1, <1>2 DEF Reported, NotYetTold, TakenBack, Marked

\* The change ends, with no journal or with one to be taken back.
LEMMA EndsReported ==
    ASSUME op' = NoOp, journal' # None /\ told' = "failed" => journal'.direction = "rollback"
    PROVE  Reported'
BY DEF Reported, NotYetTold, TakenBack, Marked, WithoutJournal

\* A new attempt starts, with nothing told and no journal.
LEMMA StartsUnreported ==
    ASSUME NEW t, NEW conf, StartsOver(t, conf), told' = "none", journal' = None
    PROVE  Reported'
BY DEF StartsOver, Reported, NotYetTold, TakenBack, Marked, WithoutJournal

\* A recovery goes on; it tells nobody and writes no entry.
LEMMA RecoversUnreported ==
    ASSUME ReportedInv, told' = told, journal' \in {journal, None},
           op' = NoOp \/ op'.phase \in RecoveryPhase
    PROVE  Reported'
<1>1. op' # NoOp => op'.phase \notin ChangePhase /\ op'.phase \notin {"rollback", "settle"}
  BY DEF RecoveryPhase, ChangePhase
<1>. QED
  BY <1>1 DEF ReportedInv, Reported, NotYetTold, TakenBack, Marked, WithoutJournal

-----------------------------------------------------------------------------
(* Every step.                                                             *)

\* The end of the catch block.
LEMMA SettleReported ==
    JournalAnswered /\ ReportedInv /\ Settle => Reported'
<1>. SUFFICES ASSUME JournalAnswered, ReportedInv, Settle PROVE Reported'
  OBVIOUS
<1>0. /\ op # NoOp /\ op.phase = "settle" /\ op.phase \in ChangePhase /\ TypeInv
      /\ op.targets \in TargetList /\ op.after.conf \in [Node -> Config]
  BY NoOpFacts, BusyOp DEF Settle, ChangePhase, ReportedInv, OwnInv
<1>1. told = "none"
  BY <1>0 DEF ReportedInv, Reported, NotYetTold
<1>2. RetryOrThrow => op' = NoOp \/ (StartsOver(op.targets, op.after.conf) /\ told' = told)
  <2>1. CASE Finish("failed")
    BY <2>1 DEF Finish
  <2>2. CASE op.tries > 1 /\ Attempt(op.targets, op.after.conf, op.tries - 1)
    <3>1. op.tries - 1 \in Nat /\ TypeOK
      BY <1>0, <2>2, BusyOp DEF TypeInv
    <3>2. Attempt(op.targets, op.after.conf, op.tries - 1)
      BY <2>2
    <3>3. StartsOver(op.targets, op.after.conf)
      BY <1>0, <3>1, <3>2, AttemptFacts, Zenon DEF StartsOver
    <3>. QED
      BY <3>3 DEF RetryOrThrow, Finish
  <2>. QED
    BY <2>1, <2>2 DEF RetryOrThrow
<1>3. CASE op.targets = << >>
  <2>1. RetryOrThrow /\ journal' = None
    BY <1>0, <1>3 DEF Settle, ReportedInv, Reported, WithoutJournal
  <2>. QED
    BY <1>1, <1>2, <2>1, EndsReported, StartsUnreported
<1>4. CASE op.targets # << >> /\ RetryOrThrow /\ journal' = None
  BY <1>1, <1>2, <1>4, EndsReported, StartsUnreported
<1>5. CASE op.targets # << >> /\ Finish("failed") /\ journal' = journal
  <2>1. op.marked
    BY <1>0, <1>5 DEF ReportedInv, Reported, Marked
  <2>2. journal.direction = "rollback"
    BY <1>0, <1>5, <2>1 DEF ReportedInv, OwnInv, OwnJournal, ChangePhase
  <2>. QED
    BY <1>5, <2>2, EndsReported DEF Finish
<1>. QED
  BY <1>3, <1>4, <1>5 DEF Settle, JournalWrite, JournalAnswered

LEMMA ChangeReported == JournalAnswered /\ ReportedInv /\ Change => Reported'
<1>. SUFFICES ASSUME JournalAnswered, ReportedInv, Change PROVE Reported'
  OBVIOUS
<1>0. /\ op # NoOp /\ op.phase # "idle" /\ op.phase \in ChangePhase
      /\ TypeInv /\ OwnJournal
  BY NoOpFacts DEF ReportedInv, OwnInv, Change, Stage, BeginJournal, Apply, Commit,
     Confirm, Clear, MarkRollback, Rollback, Settle, ChangePhase
<1>1. CASE Stage
  <2>1. journal' = journal /\ (op' = NoOp \/ told' = told)
    BY <1>1, NoOpFacts DEF Stage, Finish
  <2>2. op.targets # << >> /\ op.phase = "stage"
    BY <1>0, <1>1, CurrentNode DEF Stage
  <2>3. journal = None
    BY <1>0, <2>2 DEF OwnJournal
  <2>4. CASE op' = NoOp
    BY <2>1, <2>3, <2>4, EndsReported
  <2>5. CASE MovesTo("stage", op.at + 1) \/ MovesTo("begin", 1)
    <3>1. op' # NoOp
      BY <2>5 DEF MovesTo, SameChange
    <3>. QED
      BY <1>0, <2>1, <2>5, <3>1, GoesOnUnreported DEF MovesTo, ChangePhase
  <2>. QED
    BY <1>0, <1>1, <2>4, <2>5, StageMoves
<1>2. CASE BeginJournal
  <2>1. told' = told /\ op.phase = "begin" /\ Go("apply", 1)
    BY <1>2 DEF BeginJournal, JournalWrite, JournalAnswered
  <2>2. MovesTo("apply", 1)
    BY <1>0, <2>1, GoMoves, PhaseFacts
  <2>3. op.targets # << >>
    BY <1>0, <2>1 DEF TypeInv, OpShape
  <2>. QED
    BY <1>0, <2>1, <2>2, <2>3, GoesOnUnreported DEF MovesTo, SameChange, ChangePhase
<1>3. CASE Apply
  <2>1. journal' = journal /\ told' = told
    BY <1>3 DEF Apply
  <2>2. MovesTo("apply", op.at + 1) \/ MovesTo("commit", 1) \/ MovesTo("mark", op.at)
    BY <1>0, <1>3, ApplyMoves
  <2>. QED
    BY <1>0, <2>1, <2>2, GoesOnUnreported DEF MovesTo, ChangePhase
<1>4. CASE Committed /\ journal' = journal
  <2>1. CASE op.targets = << >>
    <3>1. journal' = None /\ op' = NoOp
      BY <1>0, <1>4, <2>1 DEF ReportedInv, Reported, WithoutJournal, Committed, Finish
    <3>. QED
      BY <3>1, EndsReported
  <2>2. CASE op.targets # << >>
    <3>1. Go("clear", 1) /\ told' = told
      BY <1>4, <2>2 DEF Committed
    <3>2. MovesTo("clear", 1)
      BY <1>0, <3>1, GoMoves, PhaseFacts
    <3>. QED
      BY <1>0, <1>4, <3>1, <3>2, GoesOnUnreported DEF MovesTo, ChangePhase
  <2>. QED
    BY <2>1, <2>2
<1>5. CASE Commit
  <2>1. journal' = journal /\ (Committed \/ told' = told)
    BY <1>5 DEF Commit
  <2>2. CASE ~Committed
    <3>1. MovesTo("confirm", op.at)
      BY <1>0, <1>5, <2>2, CommitMoves
    <3>. QED
      BY <1>0, <2>1, <2>2, <3>1, GoesOnUnreported DEF MovesTo, ChangePhase
  <2>. QED
    BY <1>4, <2>1, <2>2
<1>6. CASE Confirm
  <2>1. journal' = journal /\ (Committed \/ told' = told)
    BY <1>6 DEF Confirm
  <2>2. CASE ~Committed
    <3>1. MovesTo(IF op.targets = << >> THEN "settle" ELSE "mark", Len(op.targets))
      BY <1>0, <1>6, <2>2, ConfirmMoves
    <3>. QED
      BY <1>0, <2>1, <2>2, <3>1, GoesOnUnreported DEF MovesTo, SameChange, ChangePhase
  <2>. QED
    BY <1>4, <2>1, <2>2
<1>7. CASE Clear
  BY <1>7, EndsReported DEF Clear, JournalWrite, JournalAnswered, Finish
<1>8. CASE MarkRollback
  <2>1. /\ told' = told /\ op.phase = "mark" /\ op \in Operation
        /\ op' = [op EXCEPT !.phase = "rollback", !.marked = TRUE]
    BY <1>0, <1>8, BusyOp DEF MarkRollback, JournalWrite, JournalAnswered
  <2>2. op.targets # << >>
    BY <1>0, <2>1, BusyOp DEF TypeInv, OpShape
  <2>3. op'.marked /\ SameChange /\ op'.phase = "rollback"
    BY <1>0, <1>8, <2>1, MarkMoves DEF Operation
  <2>. QED
    BY <1>0, <2>1, <2>2, <2>3, GoesOnUnreported DEF SameChange, ChangePhase
<1>9. CASE Rollback
  <2>1. journal' = journal /\ told' = told /\ op.phase = "rollback"
    BY <1>9 DEF Rollback
  <2>2. /\ SameChange /\ op'.marked = op.marked
        /\ op'.phase = IF op.at = 1 THEN "settle" ELSE "rollback"
    BY <1>0, <1>9, RollbackMoves
  <2>3. op.targets # << >> => op.marked
    BY <1>0, <2>1 DEF ReportedInv, Reported, Marked
  <2>. QED
    BY <1>0, <2>1, <2>2, <2>3, GoesOnUnreported DEF SameChange, ChangePhase
<1>. QED
  BY <1>1, <1>2, <1>3, <1>5, <1>6, <1>7, <1>8, <1>9, SettleReported DEF Change

LEMMA RecoveryReported == JournalAnswered /\ ReportedInv /\ Recovery => Reported'
<1>. SUFFICES ASSUME JournalAnswered, ReportedInv, Recovery PROVE Reported'
  OBVIOUS
<1>0. TypeInv
  BY DEF ReportedInv, OwnInv
<1>1. told' = told /\ journal' \in {journal, None}
  BY DEF Recovery, StartRecovery, Restage, Reapply, Recommit, Reconfirm, Reclear,
     JournalWrite
<1>2. op' = op \/ op' = NoOp \/ op'.phase \in RecoveryPhase
  BY <1>0, StartRecoveryMoves, RestageMoves, ReapplyMoves, RecommitMoves,
     ReconfirmMoves, ReclearMoves DEF Recovery, MovesTo, RecoveryPhase
<1>3. CASE op' = op
  <2>1. op = NoOp \/ op.phase \in RecoveryPhase
    BY DEF Recovery, StartRecovery, Restage, Reapply, Recommit, Reconfirm, Reclear,
       RecoveryPhase
  <2>. QED
    BY <1>1, <1>3, <2>1, RecoversUnreported
<1>. QED
  BY <1>1, <1>2, <1>3, RecoversUnreported

LEMMA StepReported ==
    JournalAnswered /\ ReportedInv /\ [Next]_vars => ReportedInv'
<1>. SUFFICES ASSUME JournalAnswered, ReportedInv, [Next]_vars PROVE ReportedInv'
  OBVIOUS
<1>1. OwnInv'
  BY StepOwnInv DEF ReportedInv
<1>2. ASSUME NEW t \in TargetList, NEW conf \in [Node -> Config],
             NEW tries \in {1, MaxAttempts}, BeginChange(t, conf, tries)
      PROVE  Reported'
  <2>1. StartsOver(t, conf) /\ told' = "none" /\ journal' = None
    BY <1>2, BeginChangeMoves DEF ReportedInv, OwnInv, BeginChange, LockFree
  <2>. QED
    BY <2>1, StartsUnreported
<1>3. ASSUME told' = told, journal' = journal, op' = op \/ op' = NoOp
      PROVE  Reported'
  BY <1>3 DEF ReportedInv, Reported, NotYetTold, TakenBack, Marked, WithoutJournal
<1>4. Reported'
  BY <1>2, <1>3, ChangeReported, RecoveryReported
     DEF Next, Preview, EditLayout, Restart, vars
<1>. QED
  BY <1>1, <1>4 DEF ReportedInv

\* Only the recovery of a journal that says "rollback" commits after a failure.
LEMMA StepStaysFailed == ReportedInv /\ [Next]_vars => StaysFailed
<1>. SUFFICES ASSUME ReportedInv, [Next]_vars, told = "failed",
                     inventory'.conf # inventory.conf
              PROVE  /\ journal # None
                     /\ journal.direction = "rollback"
                     /\ inventory'.conf = journal.before.conf
  BY DEF StaysFailed
<1>1. inventory \in Inventory
  BY DEF ReportedInv, OwnInv, TypeInv, TypeOK
<1>2. ~Commit
  <2>1. Commit => op # NoOp /\ op.phase \in ChangePhase
    BY NoOpFacts DEF Commit, ChangePhase
  <2>. QED
    BY <2>1 DEF ReportedInv, Reported, NotYetTold
<1>3. CASE Recommit
  <2>1. op # NoOp /\ op.phase = "recommit" /\ op.targets # << >>
    BY <1>3, NoOpFacts DEF Recommit, ReportedInv, OwnInv, TypeInv, OpShape, RecoveryPhase
  <2>2. journal # None /\ op.after = Desired
    BY <2>1 DEF ReportedInv, OwnInv, OwnJournal, ChangePhase
  <2>3. journal.direction = "rollback"
    BY <2>2 DEF ReportedInv, Reported, TakenBack
  <2>4. inventory' = op.after
    BY <1>3 DEF Recommit, CompareAndSwap, store
  <2>. QED
    BY <2>2, <2>3, <2>4 DEF Desired
<1>4. CASE \E layout \in Layout : EditLayout(layout)
  BY <1>1, <1>4 DEF EditLayout, Inventory
<1>5. CASE \/ \E t \in TargetList, conf \in [Node -> Config], tries \in {1, MaxAttempts} :
                 BeginChange(t, conf, tries)
           \/ \E n \in Node, config \in Config : Preview(n, config)
           \/ Restart
           \/ UNCHANGED vars
  BY <1>5 DEF BeginChange, Preview, Restart, vars, store
<1>6. CASE Change
  BY <1>2, <1>6 DEF Change, Stage, BeginJournal, Apply, Confirm, Clear, MarkRollback,
     Rollback, Settle, store
<1>7. CASE Recovery
  BY <1>3, <1>7 DEF Recovery, StartRecovery, Restage, Reapply, Reconfirm, Reclear, store
<1>. QED
  BY <1>4, <1>5, <1>6, <1>7 DEF Next

\* Unless a journal write was answered with an error, a change that was reported
\* as failed is never committed behind the requester's back: the only write of
\* configurations that follows is the recovery of a recorded rollback.  Lost
\* commit replies, refused applies, crashes and layout saves are all allowed.
THEOREM FailedStaysFailed == JournalAnswered => (Spec => FailedChangeStaysFailed)
<1>. SUFFICES ASSUME JournalAnswered PROVE Spec => FailedChangeStaysFailed
  OBVIOUS
<1>1. Init => ReportedInv
  BY InitTypeInv DEF Init, ReportedInv, OwnInv, Fresh, OwnJournal, Reported,
     NotYetTold, TakenBack, Marked, WithoutJournal
<1>2. ReportedInv /\ [Next]_vars =>
        [told = "failed" /\ inventory'.conf # inventory.conf =>
            /\ journal # None
            /\ journal.direction = "rollback"
            /\ inventory'.conf = journal.before.conf]_vars
  BY StepStaysFailed DEF StaysFailed
<1>. QED
  BY <1>1, <1>2, StepReported, PTL DEF Spec, FailedChangeStaysFailed

-----------------------------------------------------------------------------
(* What the inventory has committed stays on the nodes.                    *)

\* The read that looks for a commit after its error is not missed.
ReadBack == "confirm_missed" \notin Faults

\* Until the commit the inventory's configurations are those the change read; an
\* error of the CAS leaves only these or the very value the change wanted.
Uncommitted ==
    op # NoOp /\ op.phase \in ChangePhase =>
        /\ op.phase \notin {"confirm", "clear"} => inventory.conf = op.before.conf
        /\ op.phase = "confirm" => inventory.conf = op.before.conf \/ inventory = op.after

LEMMA UncommittedKept ==
    ASSUME Uncommitted, op # NoOp, op.phase \in ChangePhase \ {"commit", "confirm"},
           inventory' = inventory,
           \/ op' = NoOp
           \/ op'.phase = "clear"
           \/ /\ op.phase # "clear" /\ op'.before = op.before
              /\ op'.phase # "confirm"
    PROVE  Uncommitted'
BY DEF Uncommitted

LEMMA ChangeUncommitted ==
    TypeInv /\ ReadBack /\ Uncommitted /\ Change => Uncommitted'
<1>. SUFFICES ASSUME TypeInv, ReadBack, Uncommitted, Change PROVE Uncommitted'
  OBVIOUS
<1>1. ASSUME op.phase \in {"commit", "confirm"}, op # NoOp, Committed PROVE Uncommitted'
  BY <1>1, CommittedMoves DEF Uncommitted, MovesTo
<1>2. CASE Commit
  <2>1. op.phase = "commit" /\ op # NoOp /\ inventory.conf = op.before.conf
    BY <1>2, NoOpFacts DEF Commit, Uncommitted, ChangePhase
  <2>2. CASE CompareAndSwap /\ MovesTo("confirm", op.at)
    BY <2>2 DEF CompareAndSwap, MovesTo, SameChange, Uncommitted
  <2>3. CASE UNCHANGED store /\ MovesTo("confirm", op.at)
    BY <2>1, <2>3 DEF store, MovesTo, SameChange, Uncommitted
  <2>. QED
    BY <1>1, <1>2, <2>1, <2>2, <2>3, CommitMoves
<1>3. CASE Confirm
  <2>1. op.phase = "confirm" /\ op # NoOp /\ inventory' = inventory
    BY <1>3, NoOpFacts DEF Confirm, store
  <2>2. CASE /\ inventory # op.after
             /\ MovesTo(IF op.targets = << >> THEN "settle" ELSE "mark", Len(op.targets))
    BY <2>1, <2>2 DEF MovesTo, SameChange, Uncommitted, ChangePhase
  <2>. QED
    BY <1>1, <1>3, <2>1, <2>2, ConfirmMoves DEF ReadBack
<1>4. CASE Settle
  <2>1. inventory' = inventory
    BY <1>4 DEF Settle, store
  <2>. QED
    BY <1>4, <2>1, SettleMoves DEF StartsOver, Uncommitted
<1>5. CASE Stage
  <2>1. op.phase = "stage" /\ op # NoOp /\ inventory' = inventory
    BY <1>5, NoOpFacts DEF Stage, store
  <2>. QED
    BY <1>5, <2>1, StageMoves, UncommittedKept DEF MovesTo, SameChange, ChangePhase
<1>6. CASE BeginJournal
  <2>1. op.phase = "begin" /\ op # NoOp /\ inventory' = inventory
    BY <1>6, NoOpFacts DEF BeginJournal, store
  <2>. QED
    BY <1>6, <2>1, BeginJournalMoves, UncommittedKept DEF MovesTo, SameChange, ChangePhase
<1>7. CASE Apply
  <2>1. op.phase = "apply" /\ op # NoOp /\ inventory' = inventory
    BY <1>7, NoOpFacts DEF Apply, store
  <2>. QED
    BY <1>7, <2>1, ApplyMoves, UncommittedKept DEF MovesTo, SameChange, ChangePhase
<1>8. CASE Clear
  BY <1>8 DEF Clear, JournalWrite, Finish, Uncommitted
<1>9. CASE MarkRollback
  <2>1. op.phase = "mark" /\ op # NoOp /\ inventory' = inventory
    BY <1>9, NoOpFacts DEF MarkRollback, store
  <2>. QED
    BY <1>9, <2>1, MarkMoves, UncommittedKept DEF SameChange, ChangePhase
<1>10. CASE Rollback
  <2>1. op.phase = "rollback" /\ op # NoOp /\ inventory' = inventory
    BY <1>10, NoOpFacts DEF Rollback, store
  <2>. QED
    BY <1>10, <2>1, RollbackMoves, UncommittedKept DEF SameChange, ChangePhase
<1>. QED
  BY <1>2, <1>3, <1>4, <1>5, <1>6, <1>7, <1>8, <1>9, <1>10 DEF Change

LEMMA StepUncommitted ==
    TypeInv /\ ReadBack /\ Uncommitted /\ [Next]_vars => Uncommitted'
<1>. SUFFICES ASSUME TypeInv, ReadBack, Uncommitted, [Next]_vars PROVE Uncommitted'
  OBVIOUS
<1>1. CASE op' = NoOp \/ op'.phase \in RecoveryPhase
  BY <1>1 DEF Uncommitted, ChangePhase, RecoveryPhase
<1>2. CASE Recovery
  <2>1. op' = NoOp \/ op' = op \/ op'.phase \in RecoveryPhase
    BY <1>2, StartRecoveryMoves, RestageMoves, ReapplyMoves, RecommitMoves,
       ReconfirmMoves, ReclearMoves DEF Recovery, MovesTo, RecoveryPhase
  <2>2. op.phase \notin ChangePhase
    BY <1>2, NoOpFacts DEF Recovery, StartRecovery, Restage, Reapply, Recommit,
       Reconfirm, Reclear, ChangePhase
  <2>. QED
    BY <1>1, <2>1, <2>2 DEF Uncommitted
<1>3. ASSUME NEW t \in TargetList, NEW conf \in [Node -> Config],
             NEW tries \in {1, MaxAttempts}, BeginChange(t, conf, tries)
      PROVE  Uncommitted'
  <2>1. inventory' = inventory
    BY <1>3 DEF BeginChange, store
  <2>. QED
    BY <1>3, <2>1, BeginChangeMoves DEF StartsOver, Uncommitted
<1>4. ASSUME NEW layout \in Layout, EditLayout(layout) PROVE Uncommitted'
  <2>1. /\ op' = op /\ inventory'.conf = inventory.conf
        /\ op.phase = "confirm" => inventory # op.after
    BY <1>4 DEF EditLayout, ReadBack, TypeInv, TypeOK, Inventory
  <2>. QED
    BY <2>1 DEF Uncommitted
<1>5. CASE op' = op /\ inventory' = inventory
  BY <1>5 DEF Uncommitted
<1>. QED
  BY <1>1, <1>2, <1>3, <1>4, <1>5, ChangeUncommitted
     DEF Next, Preview, Restart, vars, store

\* A change undoes its nodes only while the inventory has not committed what they
\* run.  Lost replies of the CAS, refused applies, failed journal writes, layout
\* saves and crashes are all allowed: the read after an error of the CAS finds
\* what was committed.  Only that read itself must not be missed.
THEOREM CommittedStays == ReadBack => (Spec => []CommittedIsNotRolledBack)
<1>. SUFFICES ASSUME ReadBack PROVE Spec => []CommittedIsNotRolledBack
  OBVIOUS
<1>1. Init => TypeInv /\ Uncommitted
  BY InitTypeInv DEF Init, Uncommitted
<1>2. TypeInv /\ Uncommitted /\ [Next]_vars => TypeInv' /\ Uncommitted'
  BY StepTypeInv, StepUncommitted
<1>3. TypeInv /\ Uncommitted => CommittedIsNotRolledBack
  BY DEF Uncommitted, CommittedIsNotRolledBack, ChangePhase
<1>. QED
  BY <1>1, <1>2, <1>3, PTL DEF Spec

-----------------------------------------------------------------------------
(* Atomicity: the inductive invariant.                                     *)

\* The faults the proof leaves out.
Benign ==
    /\ "apply_refused" \notin Faults
    /\ ReadBack

\* The first k targets of the operation.
Done(k) == {op.targets[i] : i \in 1 .. k}

\* What the durable state says: without a journal the nodes run what the
\* inventory gives them; with one, inventory and nodes are on its two sides, and
\* an inventory past the commit has all nodes with it.
Covered ==
    /\ journal = None => \A n \in Node : running[n] = inventory.conf[n]
    /\ journal # None =>
        /\ inventory.conf \in {journal.before.conf, journal.after.conf}
        /\ journal.direction = "rollback" => inventory.conf = journal.before.conf
        /\ \A n \in Node : n \notin Targets(journal.targets) =>
                journal.after.conf[n] = journal.before.conf[n]
        /\ \A n \in Node :
                running[n] \in {journal.before.conf[n], journal.after.conf[n]}
        /\ inventory.conf # journal.before.conf =>
                \A n \in Node : running[n] = journal.after.conf[n]

\* A change touches its targets only, and it writes "rollback" only when it is
\* about to undo.
Pending ==
    op # NoOp /\ op.phase \in ChangePhase =>
        /\ \A n \in Node : n \notin Targets(op.targets) =>
                op.after.conf[n] = op.before.conf[n]
        /\ op.targets = << >> => journal = None
        /\ op.phase \notin {"rollback", "settle"} => op.clean
        /\ op.phase \in {"apply", "commit", "confirm", "clear"} /\ op.targets # << >>
                => journal.direction = "forward"

\* Where the nodes are while a change goes forward: the first ones switched, with
\* a copy to go back to, the others untouched.
Forward ==
    op # NoOp =>
        /\ op.phase = "apply" => \A n \in Node :
              IF n \in Done(op.at - 1)
              THEN running[n] = op.after.conf[n] /\ saved[n] = op.before.conf[n]
              ELSE running[n] = op.before.conf[n]
        /\ op.phase \in {"commit", "confirm"} /\ op.targets # << >> => \A n \in Node :
              /\ running[n] = op.after.conf[n]
              /\ n \in Targets(op.targets) => saved[n] = op.before.conf[n]
        /\ op.phase = "clear" =>
              /\ inventory.conf = op.after.conf
              /\ \A n \in Node : running[n] = op.after.conf[n]

\* Where they are while it is undone: the nodes still to be rolled back have
\* their copy, the others are back, if no rollback has failed.
Backward ==
    op # NoOp =>
        /\ op.phase \in {"mark", "rollback"} =>
              /\ \A n \in Done(op.at) : saved[n] = op.before.conf[n]
              /\ op.clean => \A n \in Node \ Done(op.at) : running[n] = op.before.conf[n]
        /\ op.phase = "settle" /\ op.targets # << >> /\ op.clean =>
              \A n \in Node : running[n] = op.before.conf[n]

\* A recovery replays on an inventory that is not committed, until its own CAS,
\* and everything agrees when it clears the journal.
Replay ==
    op # NoOp =>
        /\ op.phase \in RecoveryPhase => journal.targets = op.targets
        /\ op.phase \in {"restage", "reapply", "recommit"} =>
              /\ inventory.conf = op.before.conf
              /\ inventory.conf = journal.before.conf
        /\ op.phase = "reapply" => \A n \in Done(op.at - 1) : running[n] = op.after.conf[n]
        /\ op.phase \in {"recommit", "reconfirm", "reclear"} =>
              \A n \in Node : running[n] = op.after.conf[n]
        /\ op.phase = "reclear" => inventory.conf = op.after.conf

AtomicInv ==
    /\ OwnInv /\ CandidateInv
    /\ Covered /\ Uncommitted /\ Pending /\ Forward /\ Backward /\ Replay

\* The part of it that is about the operation.
Position == Pending /\ Forward /\ Backward /\ Replay

-----------------------------------------------------------------------------
(* What the steps have in common.                                          *)

\* An operation that ends has no position.
LEMMA PositionAtEnd == op' = NoOp => Position'
BY DEF Position, Pending, Forward, Backward, Replay

\* Saving a layout, and everything that writes no inventory, keeps its conf.
LEMMA CoveredKept ==
    ASSUME Covered, journal' = journal, running' = running,
           inventory'.conf = inventory.conf
    PROVE  Covered'
BY DEF Covered

LEMMA PositionKept ==
    ASSUME Position, op' = op, journal' = journal, running' = running,
           saved' = saved, inventory'.conf = inventory.conf
    PROVE  Position'
BY DEF Position, Pending, Forward, Backward, Replay, Done

\* The first targets, by position.
LEMMA DoneFacts ==
    ASSUME TypeInv, op.phase # "idle"
    PROVE  /\ Done(0) = {}
           /\ Done(Len(op.targets)) = Targets(op.targets)
           /\ op.at \in 1 .. Len(op.targets) =>
                /\ Done(op.at) = Done(op.at - 1) \cup {op.targets[op.at]}
                /\ op.targets[op.at] \notin Done(op.at - 1)
                /\ op.targets[op.at] \in Targets(op.targets)
                /\ op.targets[op.at] \in Node
<1>1. /\ op.targets \in TargetList /\ Len(op.targets) \in Nat
      /\ \A i \in 1 .. Len(op.targets) : op.targets[i] \in Node
      /\ \A i, j \in 1 .. Len(op.targets) : op.targets[i] = op.targets[j] => i = j
      /\ Targets(op.targets) = {op.targets[i] : i \in 1 .. Len(op.targets)}
  BY BusyOp, TargetListIsSeq
<1>2. Done(0) = {}
  BY DEF Done
<1>3. Done(Len(op.targets)) = Targets(op.targets)
  BY <1>1 DEF Done
<1>4. ASSUME op.at \in 1 .. Len(op.targets)
      PROVE  /\ Done(op.at) = Done(op.at - 1) \cup {op.targets[op.at]}
             /\ op.targets[op.at] \notin Done(op.at - 1)
  <2>1. 1 .. op.at = 1 .. (op.at - 1) \cup {op.at}
    BY <1>1, <1>4
  <2>2. \A i \in 1 .. (op.at - 1) : i \in 1 .. Len(op.targets) /\ i # op.at
    BY <1>1, <1>4
  <2>3. Done(op.at) = Done(op.at - 1) \cup {op.targets[op.at]}
    BY <2>1 DEF Done
  <2>4. op.targets[op.at] \notin Done(op.at - 1)
    BY <1>1, <1>4, <2>2 DEF Done
  <2>. QED
    BY <2>3, <2>4
<1>. QED
  BY <1>1, <1>2, <1>3, <1>4

\* What is known of an operation with targets between journal and clear.
LEMMA OwnFacts ==
    ASSUME AtomicInv, op.phase \in Journaled, op.targets # << >>
    PROVE  /\ op # NoOp /\ op.phase # "idle" /\ op \in Operation
           /\ journal \in Journal /\ journal # None
           /\ journal.targets = op.targets
           /\ journal.before.conf = op.before.conf
           /\ journal.after = op.after
           /\ \A n \in Node : n \notin Targets(op.targets) =>
                op.after.conf[n] = op.before.conf[n]
<1>1. op.phase # "idle" /\ op.phase \in ChangePhase /\ TypeInv
  BY DEF Journaled, ChangePhase, AtomicInv, OwnInv
<1>2. op # NoOp /\ op \in Operation
  BY <1>1, BusyOp
<1>3. /\ journal # None
      /\ journal.targets = op.targets
      /\ journal.before.conf = op.before.conf
      /\ journal.after = op.after
  BY <1>1, <1>2 DEF AtomicInv, OwnInv, OwnJournal, Journaled, ChangePhase
<1>4. journal \in Journal
  BY <1>1, <1>3 DEF TypeInv, TypeOK
<1>. QED
  BY <1>1, <1>2, <1>3, <1>4 DEF AtomicInv, Pending

\* An operation in a phase of the recovery works on the journal.
LEMMA RecoveryFacts ==
    ASSUME AtomicInv, op.phase \in RecoveryPhase
    PROVE  /\ op # NoOp /\ op.phase # "idle" /\ op \in Operation
           /\ op.targets # << >> /\ journal.targets = op.targets
           /\ journal \in Journal /\ journal # None
           /\ op.after = Desired
           /\ op.after.conf \in {journal.before.conf, journal.after.conf}
<1>1. op.phase # "idle" /\ op.phase \notin ChangePhase /\ TypeInv
  BY DEF RecoveryPhase, ChangePhase, AtomicInv, OwnInv
<1>2. op # NoOp /\ op \in Operation
  BY <1>1, BusyOp
<1>3. op.targets # << >>
  BY <1>1, <1>2 DEF TypeInv, OpShape
<1>4. journal # None /\ op.after = Desired
  BY <1>1, <1>2, <1>3 DEF AtomicInv, OwnInv, OwnJournal, ChangePhase
<1>5. journal \in Journal
  BY <1>1, <1>4 DEF TypeInv, TypeOK
<1>. QED
  BY <1>1, <1>2, <1>3, <1>4, <1>5 DEF Desired, AtomicInv, Replay

-----------------------------------------------------------------------------
(* The steps of a change.                                                  *)

LEMMA StageAtomic == AtomicInv /\ Stage => Covered' /\ Position'
<1>. SUFFICES ASSUME AtomicInv, Stage PROVE Covered' /\ Position'
  OBVIOUS
<1>1. /\ op.phase = "stage" /\ op # NoOp /\ TypeInv
      /\ journal' = journal /\ running' = running /\ inventory' = inventory
  BY NoOpFacts DEF Stage, store, AtomicInv, OwnInv
<1>2. Covered'
  BY <1>1, CoveredKept DEF AtomicInv
<1>3. CASE MovesTo("stage", op.at + 1) \/ MovesTo("begin", 1)
  <2>1. Pending'
    BY <1>1, <1>3 DEF AtomicInv, Pending, MovesTo, SameChange, ChangePhase
  <2>. QED
    BY <1>2, <1>3, <2>1 DEF MovesTo, Position, Forward, Backward, Replay, RecoveryPhase
<1>. QED
  BY <1>1, <1>2, <1>3, StageMoves, PositionAtEnd

LEMMA BeginJournalAtomic == AtomicInv /\ BeginJournal => Covered' /\ Position'
<1>. SUFFICES ASSUME AtomicInv, BeginJournal PROVE Covered' /\ Position'
  OBVIOUS
<1>1. /\ op.phase = "begin" /\ op # NoOp /\ op.phase # "idle" /\ TypeInv
      /\ op \in Operation /\ journal = None
      /\ running' = running /\ saved' = saved /\ inventory' = inventory
  BY NoOpFacts, BusyOp DEF BeginJournal, store, nodes, AtomicInv, OwnInv
<1>2. /\ inventory.conf = op.before.conf /\ op.clean
      /\ \A n \in Node : n \notin Targets(op.targets) =>
            op.after.conf[n] = op.before.conf[n]
      /\ \A n \in Node : running[n] = op.before.conf[n]
  BY <1>1 DEF AtomicInv, Uncommitted, Pending, Covered, ChangePhase
<1>3. CASE journal' = Entry
  <2>1. /\ journal'.direction = "forward" /\ journal'.before = op.before
        /\ journal'.after = op.after /\ journal'.targets = op.targets
    BY <1>3 DEF Entry
  <2>2. journal' # None
    BY <1>1, <1>3, NoneAssumption DEF Entry, Journal, Operation
  <2>. QED
    <3>1. Covered'
      BY <1>1, <1>2, <2>1, <2>2 DEF Covered
    <3>2. CASE MovesTo("apply", 1)
      <4>1. Pending'
        BY <1>1, <1>2, <2>1, <3>2 DEF Pending, MovesTo, SameChange,
           ChangePhase, TypeInv, OpShape, RecoveryPhase
      <4>2. Forward'
        <5>1. {op'.targets[i] : i \in 1 .. (op'.at - 1)} = {}
          BY <3>2 DEF MovesTo
        <5>. QED
          BY <1>1, <1>2, <3>2, <5>1 DEF Forward, Done, MovesTo, SameChange
      <4>. QED
        BY <3>1, <3>2, <4>1, <4>2 DEF MovesTo, Position, Backward, Replay, RecoveryPhase
    <3>. QED
      BY <1>1, <3>1, <3>2, BeginJournalMoves, PositionAtEnd
<1>4. CASE journal' = journal /\ op' = NoOp
  BY <1>1, <1>4, CoveredKept, PositionAtEnd DEF AtomicInv
<1>. QED
  BY <1>3, <1>4 DEF BeginJournal, JournalWrite, Finish

\* What an apply of the next node does to it, and that it does nothing else.
LEMMA ApplyEffect ==
    ASSUME AtomicInv, Benign, Apply
    PROVE  /\ Current \in Node
           /\ saved'[Current] = op.before.conf[Current]
           /\ running'[Current] \in {op.before.conf[Current], op.after.conf[Current]}
           /\ ApplyTakesEffect(Current) => running'[Current] = op.after.conf[Current]
           /\ \A n \in Node \ {Current} :
                running'[n] = running[n] /\ saved'[n] = saved[n]
<1>1. /\ TypeInv /\ op.phase = "apply" /\ op # NoOp /\ op.phase # "idle"
      /\ Current = op.targets[op.at] /\ Current \in Node
      /\ op.at \in 1 .. Len(op.targets) /\ Len(op.targets) \in Nat
  BY NoOpFacts, CurrentNode, BusyOp DEF Apply, AtomicInv, OwnInv
<1>2. /\ running \in [Node -> Config] /\ saved \in [Node -> Config \cup {None}]
  BY <1>1 DEF TypeInv, TypeOK
<1>3. Current \notin Done(op.at - 1)
  BY <1>1, DoneFacts
<1>4. running[Current] = op.before.conf[Current]
  BY <1>1, <1>3 DEF AtomicInv, Forward
<1>5. staged[Current] = op.after.conf[Current]
  BY <1>1 DEF AtomicInv, CandidateInv, OwnCandidate
<1>6. ApplyTakesEffect(Current) \/ ApplyRestored(Current)
  BY Zenon DEF Benign, Apply
<1>. QED
  BY <1>1, <1>2, <1>4, <1>5, <1>6 DEF ApplyTakesEffect, ApplyRestored

LEMMA ApplyAtomic == AtomicInv /\ Benign /\ Apply => Covered' /\ Position'
<1>. SUFFICES ASSUME AtomicInv, Benign, Apply PROVE Covered' /\ Position'
  OBVIOUS
<1>1. /\ TypeInv /\ op.phase = "apply" /\ op # NoOp /\ op.phase # "idle"
      /\ Current = op.targets[op.at] /\ Current \in Node
      /\ op.at \in 1 .. Len(op.targets) /\ Len(op.targets) \in Nat
      /\ op.targets # << >>
      /\ journal' = journal /\ inventory' = inventory
  BY NoOpFacts, CurrentNode, BusyOp DEF Apply, store, AtomicInv, OwnInv
<1>2. /\ journal # None /\ journal.targets = op.targets
      /\ journal.before.conf = op.before.conf /\ journal.after = op.after
      /\ \A n \in Node : n \notin Targets(op.targets) =>
            op.after.conf[n] = op.before.conf[n]
  BY <1>1, OwnFacts DEF Journaled, ChangePhase
<1>3. /\ inventory.conf = op.before.conf /\ op.clean /\ journal.direction = "forward"
  BY <1>1 DEF AtomicInv, Uncommitted, Pending, ChangePhase
<1>4. /\ saved'[Current] = op.before.conf[Current]
      /\ running'[Current] \in {op.before.conf[Current], op.after.conf[Current]}
      /\ ApplyTakesEffect(Current) => running'[Current] = op.after.conf[Current]
      /\ \A n \in Node \ {Current} : running'[n] = running[n] /\ saved'[n] = saved[n]
  BY ApplyEffect
<1>5. /\ Done(op.at) = Done(op.at - 1) \cup {Current}
      /\ Current \notin Done(op.at - 1)
      /\ Done(Len(op.targets)) = Targets(op.targets)
  BY <1>1, DoneFacts
<1>6. \A n \in Node :
         IF n \in Done(op.at - 1)
         THEN running[n] = op.after.conf[n] /\ saved[n] = op.before.conf[n]
         ELSE running[n] = op.before.conf[n]
  BY <1>1 DEF AtomicInv, Forward
<1>7. Covered'
  <2>1. \A n \in Node : running'[n] \in {op.before.conf[n], op.after.conf[n]}
    BY <1>4, <1>6
  <2>. QED
    BY <1>1, <1>2, <1>3, <2>1 DEF Covered
<1>8. \A n \in Done(op.at) : saved'[n] = op.before.conf[n]
  <2>1. Done(op.at) \subseteq Node
    BY <1>1, BusyOp, TargetListIsSeq DEF Done
  <2>. QED
    BY <1>4, <1>5, <1>6, <2>1
<1>9. \A n \in Node \ Done(op.at) : running'[n] = op.before.conf[n]
  BY <1>4, <1>5, <1>6
<1>10. ASSUME ApplyTakesEffect(Current), NEW n \in Done(op.at), n \in Node
       PROVE  running'[n] = op.after.conf[n]
  BY <1>4, <1>5, <1>6, <1>10
<1>11. CASE ApplyTakesEffect(Current) /\ MovesTo("apply", op.at + 1)
  <2>1. Done(op.at - 1)' = Done(op.at)
    BY <1>1, <1>11 DEF MovesTo, SameChange, Done
  <2>2. Forward'
    BY <1>8, <1>9, <1>10, <1>11, <2>1 DEF Forward, MovesTo, SameChange
  <2>3. Pending'
    BY <1>1, <1>2, <1>3, <1>11 DEF Pending, MovesTo, SameChange
  <2>. QED
    BY <1>7, <1>11, <2>2, <2>3 DEF MovesTo, Position, Backward, Replay, RecoveryPhase
<1>12. CASE ApplyTakesEffect(Current) /\ op.at = Len(op.targets) /\ MovesTo("commit", 1)
  <2>1. \A n \in Node : running'[n] = op.after.conf[n]
    BY <1>2, <1>5, <1>9, <1>10, <1>12
  <2>2. Forward'
    BY <1>5, <1>8, <1>12, <2>1 DEF Forward, MovesTo, SameChange
  <2>3. Pending'
    BY <1>1, <1>2, <1>3, <1>12 DEF Pending, MovesTo, SameChange
  <2>. QED
    BY <1>7, <1>12, <2>2, <2>3 DEF MovesTo, Position, Backward, Replay, RecoveryPhase
<1>13. CASE MovesTo("mark", op.at)
  <2>1. Done(op.at)' = Done(op.at)
    BY <1>13 DEF MovesTo, SameChange, Done
  <2>2. Backward'
    BY <1>8, <1>9, <1>13, <2>1 DEF Backward, MovesTo, SameChange
  <2>3. Pending'
    BY <1>1, <1>2, <1>3, <1>13 DEF Pending, MovesTo, SameChange
  <2>. QED
    BY <1>7, <1>13, <2>2, <2>3 DEF MovesTo, Position, Forward, Replay, RecoveryPhase
<1>. QED
  BY <1>1, <1>11, <1>12, <1>13, ApplyMoves

\* The inventory commits, with every node on the new configuration.
LEMMA CommittedCovered ==
    ASSUME AtomicInv, op.phase \in {"commit", "confirm"},
           inventory' = op.after, journal' = journal, running' = running
    PROVE  Covered'
<1>1. /\ TypeInv /\ op # NoOp /\ op.phase # "idle" /\ op \in Operation
  BY NoOpFacts, BusyOp DEF AtomicInv, OwnInv
<1>2. /\ inventory.conf = op.before.conf \/ inventory = op.after
      /\ \A n \in Node : n \notin Targets(op.targets) =>
            op.after.conf[n] = op.before.conf[n]
      /\ op.targets = << >> => journal = None
      /\ op.targets # << >> => journal.direction = "forward"
  BY <1>1 DEF AtomicInv, Uncommitted, Pending, ChangePhase
<1>3. CASE op.targets = << >>
  <2>1. Targets(op.targets) = {}
    BY <1>3 DEF Targets
  <2>2. \A n \in Node : running[n] = inventory.conf[n]
    BY <1>2, <1>3 DEF AtomicInv, Covered
  <2>3. \A n \in Node : inventory.conf[n] = op.after.conf[n]
    BY <1>2, <2>1
  <2>. QED
    BY <1>2, <1>3, <2>2, <2>3 DEF Covered
<1>4. CASE op.targets # << >>
  <2>1. /\ journal # None /\ journal.targets = op.targets
        /\ journal.before.conf = op.before.conf /\ journal.after = op.after
    BY <1>4, OwnFacts DEF Journaled, ChangePhase
  <2>2. \A n \in Node : running[n] = op.after.conf[n]
    BY <1>1, <1>4 DEF AtomicInv, Forward
  <2>. QED
    BY <1>2, <1>4, <2>1, <2>2 DEF Covered
<1>. QED
  BY <1>3, <1>4

\* The commit has been confirmed, or its reply arrived.
LEMMA CommittedAtomic ==
    ASSUME AtomicInv, op.phase \in {"commit", "confirm"}, Committed,
           inventory' = op.after, journal' = journal, running' = running
    PROVE  Covered' /\ Position'
<1>1. /\ TypeInv /\ op # NoOp /\ op.phase # "idle"
  BY NoOpFacts DEF AtomicInv, OwnInv
<1>2. Covered'
  BY CommittedCovered
<1>3. CASE op' = NoOp
  BY <1>2, <1>3, PositionAtEnd
<1>4. CASE op.targets # << >> /\ MovesTo("clear", 1)
  <2>1. /\ op.clean /\ journal.direction = "forward"
        /\ \A n \in Node : n \notin Targets(op.targets) =>
              op.after.conf[n] = op.before.conf[n]
        /\ \A n \in Node : running[n] = op.after.conf[n]
    BY <1>1, <1>4 DEF AtomicInv, Pending, Forward, ChangePhase
  <2>2. Pending'
    BY <1>4, <2>1 DEF Pending, MovesTo, SameChange
  <2>3. Forward'
    BY <1>4, <2>1 DEF Forward, MovesTo, SameChange
  <2>. QED
    BY <1>2, <1>4, <2>2, <2>3 DEF MovesTo, Position, Backward, Replay, RecoveryPhase
<1>. QED
  BY <1>1, <1>3, <1>4, CommittedMoves

LEMMA CommitAtomic == AtomicInv /\ Commit => Covered' /\ Position'
<1>. SUFFICES ASSUME AtomicInv, Commit PROVE Covered' /\ Position'
  OBVIOUS
<1>1. /\ TypeInv /\ op.phase = "commit" /\ op # NoOp
      /\ journal' = journal /\ running' = running /\ saved' = saved
  BY NoOpFacts DEF Commit, nodes, AtomicInv, OwnInv
<1>2. CASE CompareAndSwap /\ Committed
  BY <1>1, <1>2, CommittedAtomic DEF CompareAndSwap
<1>3. CASE (CompareAndSwap \/ UNCHANGED store) /\ MovesTo("confirm", op.at)
  <2>1. Covered'
    BY <1>1, <1>3, CommittedCovered, CoveredKept DEF AtomicInv, CompareAndSwap, store
  <2>2. Pending'
    BY <1>1, <1>3 DEF AtomicInv, Pending, MovesTo, SameChange, ChangePhase
  <2>3. Forward'
    BY <1>1, <1>3 DEF AtomicInv, Forward, MovesTo, SameChange
  <2>. QED
    BY <1>3, <2>1, <2>2, <2>3 DEF MovesTo, Position, Backward, Replay, RecoveryPhase
<1>. QED
  BY <1>1, <1>2, <1>3, CommitMoves

LEMMA ConfirmAtomic == AtomicInv /\ Confirm => Covered' /\ Position'
<1>. SUFFICES ASSUME AtomicInv, Confirm PROVE Covered' /\ Position'
  OBVIOUS
<1>1. /\ TypeInv /\ op.phase = "confirm" /\ op # NoOp /\ op.phase # "idle"
      /\ journal' = journal /\ running' = running /\ saved' = saved
      /\ inventory' = inventory
  BY NoOpFacts DEF Confirm, nodes, store, AtomicInv, OwnInv
<1>2. CASE inventory = op.after /\ Committed
  BY <1>1, <1>2, CommittedAtomic
<1>3. CASE MovesTo(IF op.targets = << >> THEN "settle" ELSE "mark", Len(op.targets))
  <2>1. Covered'
    BY <1>1, CoveredKept DEF AtomicInv
  <2>2. Pending'
    BY <1>1, <1>3 DEF AtomicInv, Pending, MovesTo, SameChange, ChangePhase
  <2>3. Backward'
    <3>1. CASE op.targets = << >>
      BY <1>3, <3>1 DEF Backward, MovesTo, SameChange
    <3>2. CASE op.targets # << >>
      <4>1. Done(op.at)' = Targets(op.targets)
        <5>1. Done(op.at)' = Done(Len(op.targets))
          BY <1>3, <3>2 DEF MovesTo, SameChange, Done
        <5>. QED
          BY <1>1, <5>1, DoneFacts
      <4>2. \A n \in Node :
              /\ running[n] = op.after.conf[n]
              /\ n \in Targets(op.targets) => saved[n] = op.before.conf[n]
        BY <1>1, <3>2 DEF AtomicInv, Forward
      <4>3. \A n \in Node : n \notin Targets(op.targets) =>
              op.after.conf[n] = op.before.conf[n]
        BY <1>1 DEF AtomicInv, Pending, ChangePhase
      <4>4. Targets(op.targets) \subseteq Node
        BY <1>1, BusyOp, TargetListIsSeq
      <4>. QED
        BY <1>1, <1>3, <3>2, <4>1, <4>2, <4>3, <4>4 DEF Backward, MovesTo, SameChange
    <3>. QED
      BY <3>1, <3>2
  <2>. QED
    BY <1>3, <2>1, <2>2, <2>3 DEF MovesTo, Position, Forward, Replay, RecoveryPhase
<1>. QED
  BY <1>1, <1>2, <1>3, ConfirmMoves

LEMMA ClearAtomic == AtomicInv /\ Clear => Covered' /\ Position'
<1>. SUFFICES ASSUME AtomicInv, Clear PROVE Covered' /\ Position'
  OBVIOUS
<1>1. /\ op.phase = "clear" /\ op # NoOp /\ op' = NoOp
      /\ running' = running /\ inventory' = inventory
      /\ journal' \in {journal, None}
  BY NoOpFacts DEF Clear, JournalWrite, Finish, store, nodes
<1>2. inventory.conf = op.after.conf /\ \A n \in Node : running[n] = op.after.conf[n]
  BY <1>1 DEF AtomicInv, Forward
<1>3. Covered'
  BY <1>1, <1>2 DEF AtomicInv, Covered
<1>. QED
  BY <1>1, <1>3, PositionAtEnd

LEMMA MarkAtomic == AtomicInv /\ MarkRollback => Covered' /\ Position'
<1>. SUFFICES ASSUME AtomicInv, MarkRollback PROVE Covered' /\ Position'
  OBVIOUS
<1>1. /\ TypeInv /\ op.phase = "mark" /\ op # NoOp /\ op.phase # "idle"
      /\ journal # None /\ op.targets # << >>
      /\ running' = running /\ saved' = saved /\ inventory' = inventory
  BY NoOpFacts, BusyOp DEF MarkRollback, nodes, store, AtomicInv, OwnInv, TypeInv, OpShape
<1>2. /\ journal \in Journal /\ journal.before.conf = op.before.conf
  BY <1>1, OwnFacts DEF Journaled, ChangePhase
<1>3. inventory.conf = op.before.conf
  BY <1>1 DEF AtomicInv, Uncommitted, ChangePhase
<1>4. /\ SameChange
      /\ op'.phase = "rollback" /\ op'.at = op.at /\ op'.clean = op.clean
      /\ journal' \in {journal, [journal EXCEPT !.direction = "rollback"]}
  BY <1>1, MarkMoves
<1>5. /\ journal' \in Journal /\ journal' # None
      /\ journal'.before = journal.before /\ journal'.after = journal.after
      /\ journal'.targets = journal.targets
  BY <1>2, <1>4, NoneAssumption DEF Journal
<1>6. Covered'
  BY <1>1, <1>2, <1>3, <1>5 DEF AtomicInv, Covered
<1>7. Pending'
  BY <1>1, <1>3, <1>4 DEF AtomicInv, Pending, SameChange, ChangePhase
<1>8. Backward'
  BY <1>1, <1>4 DEF AtomicInv, Backward, SameChange, Done
<1>. QED
  BY <1>4, <1>6, <1>7, <1>8 DEF Position, Forward, Replay, RecoveryPhase

LEMMA RollbackAtomic == AtomicInv /\ Rollback => Covered' /\ Position'
<1>. SUFFICES ASSUME AtomicInv, Rollback PROVE Covered' /\ Position'
  OBVIOUS
<1>1. /\ TypeInv /\ op.phase = "rollback" /\ op # NoOp /\ op.phase # "idle"
      /\ Current = op.targets[op.at] /\ Current \in Node
      /\ op.at \in 1 .. Len(op.targets) /\ Len(op.targets) \in Nat
      /\ op.targets # << >>
      /\ journal' = journal /\ inventory' = inventory
      /\ running \in [Node -> Config]
  BY NoOpFacts, CurrentNode, BusyOp DEF Rollback, store, AtomicInv, OwnInv, TypeInv, TypeOK
<1>2. /\ journal # None /\ journal.before.conf = op.before.conf
  BY <1>1, OwnFacts DEF Journaled, ChangePhase
<1>3. inventory.conf = op.before.conf
  BY <1>1 DEF AtomicInv, Uncommitted, ChangePhase
<1>4. /\ Done(op.at) = Done(op.at - 1) \cup {Current}
      /\ Current \notin Done(op.at - 1) /\ Done(0) = {}
  BY <1>1, DoneFacts
<1>5. /\ \A n \in Done(op.at) : saved[n] = op.before.conf[n]
      /\ op.clean => \A n \in Node \ Done(op.at) : running[n] = op.before.conf[n]
  BY <1>1 DEF AtomicInv, Backward
<1>6. PICK ok \in BOOLEAN :
        /\ RollbackTakesEffect(Current) \/ (~ok /\ UNCHANGED nodes)
        /\ SameChange
        /\ op'.phase = IF op.at = 1 THEN "settle" ELSE "rollback"
        /\ op'.at = op.at - 1
        /\ op'.marked = op.marked /\ op'.clean = (op.clean /\ ok)
  BY <1>1, RollbackMoves
<1>7. /\ saved' = saved
      /\ \A n \in Node : running'[n] \in {running[n], op.before.conf[n]}
      /\ \A n \in Node : running[n] = op.before.conf[n] => running'[n] = op.before.conf[n]
      /\ ok => running'[Current] = op.before.conf[Current]
  <2>1. saved[Current] = op.before.conf[Current]
    BY <1>4, <1>5
  <2>. QED
    BY <1>1, <1>6, <2>1 DEF RollbackTakesEffect, nodes
<1>8. Covered'
  BY <1>1, <1>2, <1>3, <1>7 DEF AtomicInv, Covered
<1>9. Pending'
  BY <1>1, <1>3, <1>6 DEF AtomicInv, Pending, SameChange, ChangePhase
<1>10. op'.clean => \A n \in Node \ Done(op.at - 1) : running'[n] = op.before.conf[n]
  BY <1>4, <1>5, <1>6, <1>7
<1>11. Backward'
  <2>1. CASE op.at = 1
    <3>1. Done(op.at - 1) = {}
      BY <1>4, <2>1
    <3>. QED
      BY <1>6, <1>10, <2>1, <3>1 DEF Backward, SameChange
  <2>2. CASE op.at # 1
    <3>1. Done(op.at)' = Done(op.at - 1)
      BY <1>6 DEF SameChange, Done
    <3>. QED
      BY <1>4, <1>5, <1>6, <1>7, <1>10, <2>2, <3>1 DEF Backward, SameChange
  <2>. QED
    BY <2>1, <2>2
<1>. QED
  BY <1>6, <1>8, <1>9, <1>11 DEF Position, Forward, Replay, RecoveryPhase

\* A new attempt reads the inventory; without a journal the nodes agree with it.
LEMMA StartAtomic ==
    ASSUME AtomicInv, NEW t \in TargetList, NEW conf \in [Node -> Config],
           StartsOver(t, conf), inventory' = inventory, journal' = None
    PROVE  Position'
<1>1. \A n \in Node : Draft(t, conf).conf[n] =
         IF n \in Targets(t) THEN conf[n] ELSE inventory.conf[n]
  BY DraftType DEF AtomicInv, OwnInv, TypeInv, TypeOK
<1>2. Pending'
  BY <1>1 DEF Pending, StartsOver
<1>3. Forward'
  BY DEF Forward, StartsOver
<1>. QED
  BY <1>2, <1>3 DEF StartsOver, Position, Backward, Replay, RecoveryPhase

LEMMA SettleAtomic == AtomicInv /\ Settle => Covered' /\ Position'
<1>. SUFFICES ASSUME AtomicInv, Settle PROVE Covered' /\ Position'
  OBVIOUS
<1>1. /\ TypeInv /\ op.phase = "settle" /\ op # NoOp
      /\ op.targets \in TargetList /\ op.after.conf \in [Node -> Config]
      /\ running' = running /\ inventory' = inventory
  BY NoOpFacts, BusyOp DEF Settle, nodes, store, AtomicInv, OwnInv
<1>2. /\ inventory.conf = op.before.conf
      /\ op.targets = << >> => journal = None
      /\ op.targets # << >> /\ op.clean => \A n \in Node : running[n] = op.before.conf[n]
  BY <1>1 DEF AtomicInv, Uncommitted, Pending, Backward, ChangePhase
<1>3. /\ journal' = journal \/ (journal' = None /\ op.clean /\ op.targets # << >>)
      /\ op' = NoOp \/ (journal' = None /\ StartsOver(op.targets, op.after.conf))
  BY <1>1, <1>2, SettleMoves
<1>4. Covered'
  BY <1>1, <1>2, <1>3, CoveredKept DEF AtomicInv, Covered
<1>. QED
  BY <1>1, <1>3, <1>4, StartAtomic, PositionAtEnd

-----------------------------------------------------------------------------
(* The steps of a recovery.                                                *)

LEMMA StartRecoveryAtomic == AtomicInv /\ StartRecovery => Covered' /\ Position'
<1>. SUFFICES ASSUME AtomicInv, StartRecovery PROVE Covered' /\ Position'
  OBVIOUS
<1>1. /\ TypeInv /\ journal' = journal
      /\ running' = running /\ inventory' = inventory
  BY DEF StartRecovery, store, nodes, AtomicInv, OwnInv
<1>2. Covered'
  BY <1>1, CoveredKept DEF AtomicInv
<1>3. ASSUME journal # None, inventory \in {Desired, Opposite}, op' # NoOp,
             op'.phase = IF ReplayNeeded THEN "restage" ELSE "reclear",
             op'.before = inventory, op'.after = Desired,
             op'.targets = journal.targets
      PROVE  Position'
  <2>1. CASE ReplayNeeded
    <3>1. inventory.conf = journal.before.conf
      BY <1>1, <1>3, <2>1 DEF ReplayNeeded, Desired, Opposite, AtomicInv, Covered,
         TypeInv, TypeOK, Journal
    <3>. QED
      BY <1>1, <1>3, <2>1, <3>1
         DEF Position, Pending, Forward, Backward, Replay, ChangePhase, RecoveryPhase
  <2>2. CASE ~ReplayNeeded
    <3>1. journal.direction = "forward" /\ inventory = Desired /\ Desired = journal.after
      BY <2>2, <1>1, <1>3 DEF ReplayNeeded, Desired, TypeInv, TypeOK, Journal
    <3>2. \A n \in Node : running[n] = journal.after.conf[n]
      BY <1>3, <3>1 DEF AtomicInv, Covered
    <3>. QED
      BY <1>1, <1>3, <2>2, <3>1, <3>2
         DEF Position, Pending, Forward, Backward, Replay, ChangePhase, RecoveryPhase
  <2>. QED
    BY <2>1, <2>2
<1>. QED
  BY <1>1, <1>2, <1>3, StartRecoveryMoves, PositionAtEnd

LEMMA RestageAtomic == AtomicInv /\ Restage => Covered' /\ Position'
<1>. SUFFICES ASSUME AtomicInv, Restage PROVE Covered' /\ Position'
  OBVIOUS
<1>1. /\ op.phase = "restage" /\ op # NoOp /\ TypeInv
      /\ journal' = journal /\ running' = running /\ inventory' = inventory
  BY NoOpFacts DEF Restage, store, AtomicInv, OwnInv
<1>2. Covered'
  BY <1>1, CoveredKept DEF AtomicInv
<1>3. /\ journal.targets = op.targets
      /\ inventory.conf = op.before.conf /\ inventory.conf = journal.before.conf
  BY <1>1 DEF AtomicInv, Replay, RecoveryPhase
<1>4. CASE MovesTo("restage", op.at + 1)
  BY <1>1, <1>2, <1>3, <1>4 DEF MovesTo, SameChange, Position, Pending, Forward,
     Backward, Replay, ChangePhase, RecoveryPhase
<1>5. CASE MovesTo("reapply", 1)
  <2>1. {op'.targets[i] : i \in 1 .. (op'.at - 1)} = {}
    BY <1>5 DEF MovesTo
  <2>. QED
    BY <1>1, <1>2, <1>3, <1>5, <2>1 DEF MovesTo, SameChange, Position, Pending,
       Forward, Backward, Replay, Done, ChangePhase, RecoveryPhase
<1>. QED
  BY <1>1, <1>2, <1>4, <1>5, RestageMoves, PositionAtEnd

LEMMA ReapplyAtomic == AtomicInv /\ Reapply => Covered' /\ Position'
<1>. SUFFICES ASSUME AtomicInv, Reapply PROVE Covered' /\ Position'
  OBVIOUS
<1>1. /\ TypeInv /\ op.phase = "reapply" /\ op # NoOp /\ op.phase # "idle"
      /\ Current = op.targets[op.at] /\ Current \in Node
      /\ op.at \in 1 .. Len(op.targets) /\ Len(op.targets) \in Nat
      /\ running \in [Node -> Config]
      /\ journal' = journal /\ inventory' = inventory
  BY NoOpFacts, CurrentNode, BusyOp DEF Reapply, store, AtomicInv, OwnInv, TypeInv, TypeOK
<1>2. /\ journal # None /\ journal.targets = op.targets
      /\ op.after = Desired
      /\ op.after.conf \in {journal.before.conf, journal.after.conf}
  BY <1>1, RecoveryFacts DEF RecoveryPhase
<1>3. /\ inventory.conf = op.before.conf /\ inventory.conf = journal.before.conf
      /\ \A n \in Done(op.at - 1) : running[n] = op.after.conf[n]
  BY <1>1 DEF AtomicInv, Replay, RecoveryPhase
<1>4. staged[Current] = op.after.conf[Current]
  BY <1>1 DEF AtomicInv, CandidateInv, OwnCandidate
<1>5. ApplyTakesEffect(Current) =>
        /\ running'[Current] = op.after.conf[Current]
        /\ \A n \in Node \ {Current} : running'[n] = running[n]
  BY <1>1, <1>4 DEF ApplyTakesEffect
<1>6. ApplyTakesEffect(Current) \/ running' = running
  BY ReapplyMoves, <1>1
<1>7. /\ Done(op.at) = Done(op.at - 1) \cup {Current}
      /\ Current \notin Done(op.at - 1)
      /\ Done(Len(op.targets)) = Targets(op.targets)
  BY <1>1, DoneFacts
<1>8. Covered'
  <2>1. \A n \in Node : running'[n] \in {running[n], op.after.conf[n]}
    BY <1>5, <1>6
  <2>2. \A n \in Node : running'[n] \in {journal.before.conf[n], journal.after.conf[n]}
    BY <1>2, <2>1 DEF AtomicInv, Covered
  <2>. QED
    BY <1>1, <1>2, <1>3, <2>2 DEF AtomicInv, Covered
<1>9. ASSUME ApplyTakesEffect(Current), NEW n \in Done(op.at)
      PROVE  running'[n] = op.after.conf[n]
  <2>1. n \in Node
    BY <1>1, BusyOp, TargetListIsSeq DEF Done
  <2>. QED
    BY <1>3, <1>5, <1>7, <1>9, <2>1
<1>10. CASE ApplyTakesEffect(Current) /\ MovesTo("reapply", op.at + 1)
  <2>1. Done(op.at - 1)' = Done(op.at)
    BY <1>1, <1>10 DEF MovesTo, SameChange, Done
  <2>. QED
    BY <1>1, <1>2, <1>3, <1>8, <1>9, <1>10, <2>1 DEF MovesTo, SameChange, Position,
       Pending, Forward, Backward, Replay, ChangePhase, RecoveryPhase
<1>11. CASE /\ ApplyTakesEffect(Current) /\ op.at = Len(op.targets)
            /\ \/ op.before = op.after /\ MovesTo("reclear", 1)
               \/ MovesTo("recommit", 1)
  <2>1. \A n \in Node : running'[n] = op.after.conf[n]
    <3>1. \A n \in Targets(op.targets) : running'[n] = op.after.conf[n]
      BY <1>7, <1>9, <1>11
    <3>2. ASSUME NEW n \in Node, n \notin Targets(op.targets)
          PROVE  running'[n] = op.after.conf[n]
      <4>1. /\ journal.after.conf[n] = journal.before.conf[n]
            /\ running[n] \in {journal.before.conf[n], journal.after.conf[n]}
        BY <1>2, <3>2 DEF AtomicInv, Covered
      <4>2. n # Current
        BY <1>7, <1>11, <3>2
      <4>. QED
        BY <1>2, <1>5, <1>11, <4>1, <4>2
    <3>. QED
      BY <3>1, <3>2
  <2>. QED
    BY <1>1, <1>2, <1>3, <1>8, <1>11, <2>1 DEF MovesTo, SameChange, Position,
       Pending, Forward, Backward, Replay, ChangePhase, RecoveryPhase
<1>. QED
  BY <1>1, <1>8, <1>10, <1>11, ReapplyMoves, PositionAtEnd

LEMMA RecommitAtomic == AtomicInv /\ Recommit => Covered' /\ Position'
<1>. SUFFICES ASSUME AtomicInv, Recommit PROVE Covered' /\ Position'
  OBVIOUS
<1>1. /\ TypeInv /\ op.phase = "recommit" /\ op # NoOp
      /\ journal' = journal /\ running' = running
  BY NoOpFacts DEF Recommit, nodes, AtomicInv, OwnInv
<1>2. /\ journal \in Journal /\ journal # None /\ journal.targets = op.targets
      /\ op.after = Desired
  BY <1>1, RecoveryFacts DEF RecoveryPhase
<1>3. /\ inventory.conf = op.before.conf /\ inventory.conf = journal.before.conf
      /\ \A n \in Node : running[n] = op.after.conf[n]
  BY <1>1 DEF AtomicInv, Replay, RecoveryPhase
<1>4. CASE CompareAndSwap /\ (MovesTo("reclear", 1) \/ MovesTo("reconfirm", 1))
  <2>1. inventory' = op.after
    BY <1>4 DEF CompareAndSwap
  <2>2. Covered'
    BY <1>1, <1>2, <1>3, <2>1 DEF AtomicInv, Covered, Desired
  <2>. QED
    BY <1>1, <1>2, <1>3, <1>4, <2>1, <2>2 DEF MovesTo, SameChange, Position,
       Pending, Forward, Backward, Replay, ChangePhase, RecoveryPhase
<1>5. CASE UNCHANGED store /\ MovesTo("reconfirm", 1)
  <2>1. inventory' = inventory
    BY <1>5 DEF store
  <2>2. Covered'
    BY <1>1, <2>1, CoveredKept DEF AtomicInv
  <2>. QED
    BY <1>1, <1>2, <1>3, <1>5, <2>1, <2>2 DEF MovesTo, SameChange, Position,
       Pending, Forward, Backward, Replay, ChangePhase, RecoveryPhase
<1>. QED
  BY <1>1, <1>4, <1>5, RecommitMoves

LEMMA ReconfirmAtomic == AtomicInv /\ Reconfirm => Covered' /\ Position'
<1>. SUFFICES ASSUME AtomicInv, Reconfirm PROVE Covered' /\ Position'
  OBVIOUS
<1>1. /\ TypeInv /\ op.phase = "reconfirm" /\ op # NoOp
      /\ journal' = journal /\ running' = running /\ inventory' = inventory
  BY NoOpFacts DEF Reconfirm, nodes, store, AtomicInv, OwnInv
<1>2. Covered'
  BY <1>1, CoveredKept DEF AtomicInv
<1>3. /\ journal.targets = op.targets
      /\ \A n \in Node : running[n] = op.after.conf[n]
  BY <1>1 DEF AtomicInv, Replay, RecoveryPhase
<1>4. CASE inventory = op.after /\ MovesTo("reclear", 1)
  BY <1>1, <1>2, <1>3, <1>4 DEF MovesTo, SameChange, Position,
     Pending, Forward, Backward, Replay, ChangePhase, RecoveryPhase
<1>. QED
  BY <1>1, <1>2, <1>4, ReconfirmMoves, PositionAtEnd

LEMMA ReclearAtomic == AtomicInv /\ Reclear => Covered' /\ Position'
<1>. SUFFICES ASSUME AtomicInv, Reclear PROVE Covered' /\ Position'
  OBVIOUS
<1>1. /\ TypeInv /\ op.phase = "reclear" /\ op # NoOp /\ op' = NoOp
      /\ running' = running /\ inventory' = inventory
      /\ journal' \in {journal, None}
  BY NoOpFacts, ReclearMoves DEF Reclear, JournalWrite, store, nodes, AtomicInv, OwnInv
<1>2. inventory.conf = op.after.conf /\ \A n \in Node : running[n] = op.after.conf[n]
  BY <1>1 DEF AtomicInv, Replay
<1>3. Covered'
  BY <1>1, <1>2 DEF AtomicInv, Covered
<1>. QED
  BY <1>1, <1>3, PositionAtEnd

-----------------------------------------------------------------------------
(* Every step.                                                             *)

LEMMA WorldAtomic ==
    ASSUME AtomicInv,
           \/ \E t \in TargetList, conf \in [Node -> Config], tries \in {1, MaxAttempts} :
                BeginChange(t, conf, tries)
           \/ \E n \in Node, config \in Config : Preview(n, config)
           \/ \E layout \in Layout : EditLayout(layout)
           \/ Restart
           \/ UNCHANGED vars
    PROVE  Covered' /\ Position'
<1>1. inventory \in Inventory
  BY DEF AtomicInv, OwnInv, TypeInv, TypeOK
<1>2. journal' = journal /\ running' = running /\ inventory'.conf = inventory.conf
  BY <1>1 DEF BeginChange, Preview, EditLayout, Restart, Inventory, vars, store, nodes
<1>3. Covered'
  BY <1>2, CoveredKept DEF AtomicInv
<1>4. ASSUME NEW t \in TargetList, NEW conf \in [Node -> Config],
             NEW tries \in {1, MaxAttempts}, BeginChange(t, conf, tries)
      PROVE  Position'
  <2>1. TypeInv /\ inventory' = inventory /\ journal' = None
    BY <1>4 DEF BeginChange, LockFree, store, AtomicInv, OwnInv
  <2>. QED
    BY <1>4, <2>1, BeginChangeMoves, StartAtomic
<1>5. CASE op' = NoOp
  BY <1>3, <1>5, PositionAtEnd
<1>6. CASE op' = op /\ saved' = saved
  <2>1. Position
    BY DEF AtomicInv, Position
  <2>. QED
    BY <1>2, <1>3, <1>6, <2>1, PositionKept
<1>. QED
  BY <1>3, <1>4, <1>5, <1>6
     DEF Preview, LockFree, EditLayout, Restart, nodes, vars

LEMMA InitAtomicInv == Init => AtomicInv
<1>. SUFFICES ASSUME Init PROVE AtomicInv
  OBVIOUS
<1>1. OwnInv /\ CandidateInv
  BY InitTypeInv DEF OwnInv, Init, Fresh, OwnJournal, CandidateInv, OwnCandidate,
                     StagedSoFar
<1>2. Covered /\ Pending /\ Forward /\ Backward /\ Replay
  BY DEF Init, Covered, Pending, Forward, Backward, Replay
<1>3. Uncommitted
  BY DEF Init, Uncommitted
<1>. QED
  BY <1>1, <1>2, <1>3 DEF AtomicInv

LEMMA StepAtomicInv == AtomicInv /\ Benign /\ [Next]_vars => AtomicInv'
<1>. SUFFICES ASSUME AtomicInv, Benign, [Next]_vars PROVE AtomicInv'
  OBVIOUS
<1>1. OwnInv' /\ CandidateInv'
  BY StepOwnInv, StepCandidate DEF AtomicInv, OwnInv
<1>2. Covered' /\ Position'
  <2>1. CASE Change
    BY <2>1, StageAtomic, BeginJournalAtomic, ApplyAtomic, CommitAtomic, ConfirmAtomic,
       ClearAtomic, MarkAtomic, RollbackAtomic, SettleAtomic DEF Change
  <2>2. CASE Recovery
    BY <2>2, StartRecoveryAtomic, RestageAtomic, ReapplyAtomic, RecommitAtomic,
       ReconfirmAtomic, ReclearAtomic DEF Recovery
  <2>. QED
    BY <2>1, <2>2, WorldAtomic DEF Next
<1>3. Uncommitted'
  BY StepUncommitted DEF AtomicInv, OwnInv, Benign
<1>. QED
  BY <1>1, <1>2, <1>3 DEF AtomicInv, Position

\* At every moment, whatever has failed and wherever a crash interrupted it, a
\* node that does not run what the inventory gives it is covered by the durable
\* journal: beginJournal comes before the first apply and clearJournal only when
\* commit or rollback is complete.  The reply of the commit may be lost, but not
\* the read that looks for it: that would roll back what is committed.
THEOREM WriteAheadHolds == Benign => (Spec => []WriteAhead)
<1>. SUFFICES ASSUME Benign PROVE Spec => []WriteAhead
  OBVIOUS
<1>1. AtomicInv => WriteAhead
  <2>. SUFFICES ASSUME AtomicInv, NEW n \in Node, running[n] # inventory.conf[n]
                PROVE  /\ journal # None
                       /\ n \in Targets(journal.targets)
                       /\ running[n] \in {journal.before.conf[n], journal.after.conf[n]}
    BY DEF WriteAhead
  <2>1. journal # None
    BY DEF AtomicInv, Covered
  <2>. QED
    BY <2>1 DEF AtomicInv, Covered
<1>. QED
  BY <1>1, InitAtomicInv, StepAtomicInv, PTL DEF Spec

-----------------------------------------------------------------------------
(* REFINEMENT.  The transaction of src/deployment-service.ts, with its     *)
(* crashes and its recovery, implements AtomicChange: an atomic change of  *)
(* the inventory and the nodes.  An open change is a durable journal entry.*)

(* How the steps look from outside.                                        *)

AbstractStep == [Abstract!Next]_(Abstract!vars)

\* The recorded change, its nodes and the inventory's configurations stay.
LEMMA Stutters ==
    ASSUME running' = running, inventory'.conf = inventory.conf,
           \/ journal' = journal
           \/ /\ journal # None /\ journal' # None
              /\ journal'.before = journal.before /\ journal'.after = journal.after
    PROVE  AbstractStep
BY DEF AbstractStep, Abstract!vars

LEMMA Opens ==
    ASSUME TypeInv, journal = None, journal' = Entry, op \in Operation,
           running' = running, inventory'.conf = inventory.conf,
           op.before.conf = inventory.conf
    PROVE  AbstractStep
<1>1. /\ op.after.conf \in [Node -> Config]
      /\ Entry # None /\ Entry.before = op.before /\ Entry.after = op.after
  BY NoneAssumption DEF Operation, Inventory, Entry, Journal
<1>2. Abstract!Open(op.after.conf)
  BY <1>1 DEF Abstract!Open
<1>. QED
  BY <1>1, <1>2 DEF AbstractStep, Abstract!Next

LEMMA Switches ==
    ASSUME TypeInv, journal # None, journal' = journal,
           inventory'.conf = inventory.conf, NEW n \in Node, NEW config,
           running' = [running EXCEPT ![n] = config],
           config \in {journal.before.conf[n], journal.after.conf[n]}
    PROVE  AbstractStep
<1>1. /\ journal.before.conf \in [Node -> Config]
      /\ journal.after.conf \in [Node -> Config]
  BY DEF TypeInv, TypeOK, Journal, Inventory
<1>2. [from |-> journal.before.conf, to |-> journal.after.conf] # None
  BY <1>1, NoneAssumption
<1>3. Abstract!Switch(n)
  BY <1>2 DEF Abstract!Switch
<1>. QED
  BY <1>3 DEF AbstractStep, Abstract!Next

LEMMA Commits ==
    ASSUME TypeInv, journal # None, journal' = journal, running' = running,
           \A n \in Node : running[n] = journal.after.conf[n],
           inventory'.conf = journal.after.conf
    PROVE  AbstractStep
<1>1. /\ journal.before.conf \in [Node -> Config]
      /\ journal.after.conf \in [Node -> Config]
      /\ running \in [Node -> Config]
  BY DEF TypeInv, TypeOK, Journal, Inventory
<1>2. [from |-> journal.before.conf, to |-> journal.after.conf] # None
  BY <1>1, NoneAssumption
<1>3. running = journal.after.conf
  BY <1>1
<1>4. Abstract!Commit
  BY <1>2, <1>3 DEF Abstract!Commit
<1>. QED
  BY <1>4 DEF AbstractStep, Abstract!Next

LEMMA Closes ==
    ASSUME TypeInv, journal # None, journal' = None, running' = running,
           inventory'.conf = inventory.conf,
           \A n \in Node : running[n] = inventory.conf[n]
    PROVE  AbstractStep
<1>1. /\ journal.before.conf \in [Node -> Config]
      /\ journal.after.conf \in [Node -> Config]
      /\ running \in [Node -> Config] /\ inventory.conf \in [Node -> Config]
  BY DEF TypeInv, TypeOK, Journal, Inventory
<1>2. [from |-> journal.before.conf, to |-> journal.after.conf] # None
  BY <1>1, NoneAssumption
<1>3. running = inventory.conf
  BY <1>1
<1>4. Abstract!Close
  BY <1>2, <1>3 DEF Abstract!Close
<1>. QED
  BY <1>4 DEF AbstractStep, Abstract!Next

-----------------------------------------------------------------------------
(* The steps of a change.                                                  *)

LEMMA BeginJournalMaps == AtomicInv /\ BeginJournal => AbstractStep
<1>. SUFFICES ASSUME AtomicInv, BeginJournal PROVE AbstractStep
  OBVIOUS
<1>1. /\ TypeInv /\ op.phase = "begin" /\ op # NoOp /\ op \in Operation
      /\ journal = None /\ journal' \in {journal, Entry}
      /\ running' = running /\ inventory' = inventory
  BY NoOpFacts, BusyOp DEF BeginJournal, JournalWrite, store, nodes, AtomicInv, OwnInv
<1>2. inventory.conf = op.before.conf
  BY <1>1 DEF AtomicInv, Uncommitted, ChangePhase
<1>. QED
  BY <1>1, <1>2, Opens, Stutters

LEMMA ApplyMaps == AtomicInv /\ Benign /\ Apply => AbstractStep
<1>. SUFFICES ASSUME AtomicInv, Benign, Apply PROVE AbstractStep
  OBVIOUS
<1>1. /\ TypeInv /\ op.phase = "apply" /\ op # NoOp /\ op.targets # << >>
      /\ Current \in Node /\ op.at \in 1 .. Len(op.targets)
      /\ journal' = journal /\ inventory' = inventory
      /\ Current = op.targets[op.at] /\ Len(op.targets) \in Nat
  BY NoOpFacts, CurrentNode, BusyOp DEF Apply, store, AtomicInv, OwnInv
<1>2. journal # None /\ journal.after = op.after
  BY <1>1, OwnFacts DEF Journaled, ChangePhase
<1>3. staged[Current] = op.after.conf[Current]
  BY <1>1 DEF AtomicInv, CandidateInv, OwnCandidate
<1>4. ApplyTakesEffect(Current) \/ ApplyRestored(Current)
  BY Zenon DEF Benign, Apply
<1>5. CASE ApplyTakesEffect(Current)
  <2>1. running' = [running EXCEPT ![Current] = journal.after.conf[Current]]
    BY <1>2, <1>3, <1>5 DEF ApplyTakesEffect
  <2>. QED
    BY <1>1, <1>2, <2>1, Switches
<1>6. CASE ApplyRestored(Current)
  BY <1>1, <1>6, Stutters DEF ApplyRestored
<1>. QED
  BY <1>4, <1>5, <1>6

LEMMA CommitMaps == AtomicInv /\ Commit => AbstractStep
<1>. SUFFICES ASSUME AtomicInv, Commit PROVE AbstractStep
  OBVIOUS
<1>1. /\ TypeInv /\ op.phase = "commit" /\ op # NoOp
      /\ op \in Operation /\ journal' = journal /\ running' = running
  BY NoOpFacts, BusyOp DEF Commit, nodes, AtomicInv, OwnInv
<1>2. CASE UNCHANGED store
  BY <1>1, <1>2, Stutters DEF store
<1>3. CASE inventory' = op.after /\ op.targets = << >>
  <2>1. /\ inventory.conf = op.before.conf
        /\ \A n \in Node : n \notin Targets(op.targets) =>
              op.after.conf[n] = op.before.conf[n]
    BY <1>1 DEF AtomicInv, Uncommitted, Pending, ChangePhase
  <2>2. Targets(op.targets) = {}
    BY <1>3 DEF Targets
  <2>3. op.after.conf = op.before.conf
    BY <1>1, <2>1, <2>2 DEF Operation, Inventory
  <2>. QED
    BY <1>1, <1>3, <2>1, <2>3, Stutters
<1>4. CASE inventory' = op.after /\ op.targets # << >>
  <2>1. journal # None /\ journal.after = op.after
    BY <1>1, <1>4, OwnFacts DEF Journaled, ChangePhase
  <2>2. \A n \in Node : running[n] = op.after.conf[n]
    BY <1>1, <1>4 DEF AtomicInv, Forward
  <2>. QED
    BY <1>1, <1>4, <2>1, <2>2, Commits
<1>. QED
  BY <1>2, <1>3, <1>4 DEF Commit, CompareAndSwap

LEMMA ClearMaps == AtomicInv /\ Clear => AbstractStep
<1>. SUFFICES ASSUME AtomicInv, Clear PROVE AbstractStep
  OBVIOUS
<1>1. /\ TypeInv /\ op.phase = "clear" /\ op # NoOp /\ journal # None
      /\ running' = running /\ inventory' = inventory
      /\ journal' \in {journal, None}
  BY NoOpFacts DEF Clear, JournalWrite, store, nodes, AtomicInv, OwnInv
<1>2. \A n \in Node : running[n] = inventory.conf[n]
  BY <1>1 DEF AtomicInv, Forward
<1>. QED
  BY <1>1, <1>2, Stutters, Closes

LEMMA MarkMaps == AtomicInv /\ MarkRollback => AbstractStep
<1>. SUFFICES ASSUME AtomicInv, MarkRollback PROVE AbstractStep
  OBVIOUS
<1>1. /\ TypeInv /\ journal # None /\ journal \in Journal
      /\ running' = running /\ inventory' = inventory
      /\ journal' \in {journal, [journal EXCEPT !.direction = "rollback"]}
  BY DEF MarkRollback, JournalWrite, nodes, store, AtomicInv, OwnInv, TypeInv, TypeOK
<1>2. /\ journal' \in Journal
      /\ journal'.before = journal.before /\ journal'.after = journal.after
  BY <1>1 DEF Journal
<1>. QED
  BY <1>1, <1>2, Stutters, NoneAssumption

LEMMA RollbackMaps == AtomicInv /\ Rollback => AbstractStep
<1>. SUFFICES ASSUME AtomicInv, Rollback PROVE AbstractStep
  OBVIOUS
<1>1. /\ TypeInv /\ op.phase = "rollback" /\ op # NoOp /\ op.phase # "idle"
      /\ Current \in Node /\ Current = op.targets[op.at]
      /\ op.at \in 1 .. Len(op.targets) /\ op.targets # << >>
      /\ journal' = journal /\ inventory' = inventory
  BY NoOpFacts, CurrentNode, BusyOp DEF Rollback, store, AtomicInv, OwnInv
<1>2. journal # None /\ journal.before.conf = op.before.conf
  BY <1>1, OwnFacts DEF Journaled, ChangePhase
<1>3. saved[Current] = op.before.conf[Current]
  BY <1>1, DoneFacts DEF AtomicInv, Backward
<1>4. CASE RollbackTakesEffect(Current)
  BY <1>1, <1>2, <1>3, <1>4, Switches DEF RollbackTakesEffect
<1>5. CASE UNCHANGED nodes
  BY <1>1, <1>5, Stutters DEF nodes
<1>. QED
  BY <1>4, <1>5 DEF Rollback

LEMMA SettleMaps == AtomicInv /\ Settle => AbstractStep
<1>. SUFFICES ASSUME AtomicInv, Settle PROVE AbstractStep
  OBVIOUS
<1>1. /\ TypeInv /\ op.phase = "settle" /\ op # NoOp
      /\ running' = running /\ inventory' = inventory
  BY NoOpFacts DEF Settle, store, nodes, AtomicInv, OwnInv
<1>2. CASE journal' = journal
  BY <1>1, <1>2, Stutters
<1>3. CASE journal # None /\ journal' = None /\ op.clean /\ op.targets # << >>
  <2>1. \A n \in Node : running[n] = op.before.conf[n]
    BY <1>1, <1>3 DEF AtomicInv, Backward
  <2>2. inventory.conf = op.before.conf
    BY <1>1 DEF AtomicInv, Uncommitted, ChangePhase
  <2>. QED
    BY <1>1, <1>3, <2>1, <2>2, Closes
<1>. QED
  BY <1>1, <1>2, <1>3, SettleMoves

LEMMA ChangeMaps == AtomicInv /\ Benign /\ Change => AbstractStep
<1>. SUFFICES ASSUME AtomicInv, Benign, Change PROVE AbstractStep
  OBVIOUS
<1>1. CASE Stage
  BY <1>1, Stutters DEF Stage, store
<1>2. CASE Confirm
  BY <1>2, Stutters DEF Confirm, store, nodes
<1>. QED
  BY <1>1, <1>2, BeginJournalMaps, ApplyMaps, CommitMaps, ClearMaps, MarkMaps,
     RollbackMaps, SettleMaps DEF Change

-----------------------------------------------------------------------------
(* The steps of a recovery.                                                *)

LEMMA ReapplyMaps == AtomicInv /\ Reapply => AbstractStep
<1>. SUFFICES ASSUME AtomicInv, Reapply PROVE AbstractStep
  OBVIOUS
<1>1. /\ TypeInv /\ op.phase = "reapply" /\ op # NoOp
      /\ Current \in Node /\ Current = op.targets[op.at]
      /\ op.at \in 1 .. Len(op.targets) /\ Len(op.targets) \in Nat
      /\ journal' = journal /\ inventory' = inventory
  BY NoOpFacts, CurrentNode, BusyOp DEF Reapply, store, AtomicInv, OwnInv
<1>2. /\ journal # None
      /\ op.after.conf \in {journal.before.conf, journal.after.conf}
  BY <1>1, RecoveryFacts DEF RecoveryPhase
<1>3. staged[Current] = op.after.conf[Current]
  BY <1>1 DEF AtomicInv, CandidateInv, OwnCandidate
<1>4. CASE ApplyTakesEffect(Current)
  <2>1. running' = [running EXCEPT ![Current] = op.after.conf[Current]]
    BY <1>3, <1>4 DEF ApplyTakesEffect
  <2>. QED
    BY <1>1, <1>2, <2>1, Switches
<1>5. CASE running' = running
  BY <1>1, <1>5, Stutters
<1>. QED
  BY <1>1, <1>4, <1>5, ReapplyMoves

LEMMA RecommitMaps == AtomicInv /\ Recommit => AbstractStep
<1>. SUFFICES ASSUME AtomicInv, Recommit PROVE AbstractStep
  OBVIOUS
<1>1. /\ TypeInv /\ op.phase = "recommit" /\ op # NoOp
      /\ journal' = journal /\ running' = running
  BY NoOpFacts DEF Recommit, nodes, AtomicInv, OwnInv
<1>2. /\ journal # None /\ op.after = Desired
      /\ op.after.conf \in {journal.before.conf, journal.after.conf}
  BY <1>1, RecoveryFacts DEF RecoveryPhase
<1>3. /\ inventory.conf = journal.before.conf
      /\ \A n \in Node : running[n] = op.after.conf[n]
  BY <1>1 DEF AtomicInv, Replay, RecoveryPhase
<1>4. CASE UNCHANGED store
  BY <1>1, <1>4, Stutters DEF store
<1>5. CASE inventory' = op.after /\ op.after.conf = journal.before.conf
  BY <1>1, <1>3, <1>5, Stutters
<1>6. CASE inventory' = op.after /\ op.after.conf = journal.after.conf
  BY <1>1, <1>2, <1>3, <1>6, Commits
<1>. QED
  BY <1>2, <1>4, <1>5, <1>6 DEF Recommit, CompareAndSwap

LEMMA ReclearMaps == AtomicInv /\ Reclear => AbstractStep
<1>. SUFFICES ASSUME AtomicInv, Reclear PROVE AbstractStep
  OBVIOUS
<1>1. /\ TypeInv /\ op.phase = "reclear" /\ op # NoOp /\ journal # None
      /\ running' = running /\ inventory' = inventory
      /\ journal' \in {journal, None}
  BY NoOpFacts DEF Reclear, JournalWrite, store, nodes, AtomicInv, OwnInv
<1>2. \A n \in Node : running[n] = inventory.conf[n]
  BY <1>1 DEF AtomicInv, Replay
<1>. QED
  BY <1>1, <1>2, Stutters, Closes

LEMMA RecoveryMaps == AtomicInv /\ Recovery => AbstractStep
<1>. SUFFICES ASSUME AtomicInv, Recovery PROVE AbstractStep
  OBVIOUS
<1>1. CASE StartRecovery \/ Restage \/ Reconfirm
  BY <1>1, Stutters DEF StartRecovery, Restage, Reconfirm, store, nodes
<1>. QED
  BY <1>1, ReapplyMaps, RecommitMaps, ReclearMaps DEF Recovery

-----------------------------------------------------------------------------

LEMMA StepMaps == AtomicInv /\ Benign /\ [Next]_vars => AbstractStep
<1>. SUFFICES ASSUME AtomicInv, Benign, [Next]_vars PROVE AbstractStep
  OBVIOUS
<1>1. inventory \in Inventory
  BY DEF AtomicInv, OwnInv, TypeInv, TypeOK
<1>2. CASE \/ \E t \in TargetList, conf \in [Node -> Config], tries \in {1, MaxAttempts} :
                 BeginChange(t, conf, tries)
           \/ \E n \in Node, config \in Config : Preview(n, config)
           \/ \E layout \in Layout : EditLayout(layout)
           \/ Restart
           \/ UNCHANGED vars
  <2>1. journal' = journal /\ running' = running /\ inventory'.conf = inventory.conf
    BY <1>1, <1>2
       DEF BeginChange, Preview, EditLayout, Restart, Inventory, vars, store, nodes
  <2>. QED
    BY <2>1, Stutters
<1>. QED
  BY <1>2, ChangeMaps, RecoveryMaps DEF Next

LEMMA InitMaps == Init => Abstract!Init
BY DEF Init, Inventory, Abstract!Init

\* A deployment is atomic: seen through the journal, inventory and nodes only
\* ever move as AtomicChange allows.  No crash, failed node, lost reply of a
\* commit or of a journal write, or concurrent layout save makes the inventory
\* commit what some node does not run, or closes a change that is half on one side
\* and half on the other.
THEOREM DeploymentIsAtomic == Benign => (Spec => ChangesAreAtomic)
<1>. SUFFICES ASSUME Benign PROVE Spec => ChangesAreAtomic
  OBVIOUS
<1>1. AtomicInv /\ [Next]_vars => [Abstract!Next]_(Abstract!vars)
  BY StepMaps DEF AbstractStep
<1>. QED
  BY <1>1, InitMaps, InitAtomicInv, StepAtomicInv, PTL
     DEF Spec, ChangesAreAtomic, Abstract!Spec

=============================================================================
