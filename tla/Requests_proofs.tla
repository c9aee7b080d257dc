---------------------------- MODULE Requests_proofs ----------------------------
(* For any requests, token maps and bounds: what is applied is what was        *)
(* looked at, and shutdown waits for what was running.                         *)
EXTENDS Requests, SequenceTheorems, TLAPS

-----------------------------------------------------------------------------
(* The inductive invariant.                                                *)

Ended == {"idle", "done"}
Locked == {"locked", "read", "checked", "switched"}

Kind == {"none", "preview", "change", "removal", "sync"}
RequestState ==
    [kind : Kind, family : Family \cup {None}, token : (Nat \ {0}) \cup {None}, phase : Phase,
     seen : Nat \cup {None}, base : Nat \cup {None}, tries : Nat, here : BOOLEAN]

\* The types the proofs need: all but those of the token maps.
TypeInv ==
    /\ revision \in 1 .. MaxRevision
    /\ issued \in Seq([family : Family, revision : 1 .. MaxRevision])
    /\ req \in [Request -> RequestState]
    /\ lock \in Request \cup {None}
    /\ waiters \in Seq(Request)
    /\ stopping \in {"no", "deployment", "schedule", "server", "exited"}
    /\ captured \in Request \cup {None}

\* One request is inside the lock, and only removals wait for it, each once.
LockInv ==
    /\ \A r \in Request : InLock(r) <=> lock = r
    /\ \A i \in DOMAIN waiters : req[waiters[i]].phase = "waiting"
    /\ \A i, j \in DOMAIN waiters : waiters[i] = waiters[j] => i = j
    /\ \A r \in Request : req[r].phase = "waiting" => req[r].kind = "removal"

\* What a request has seen of the inventory is what it was previewed on, and
\* what it read inside the lock is no older.
BasisOK(r) ==
    LET q == req[r] IN
    /\ q.phase \in Ended => q = At(q.phase)
    /\ q.token # None => q.token \in DOMAIN issued /\ q.family # None
    /\ q.seen # None => q.family = "policy" /\ q.seen \in 1 .. revision
    /\ q.phase = "sent" => q.family = "policy"
    /\ q.phase = "storing" => q.family = "session"
    /\ q.kind = "preview" => q.family # None
    /\ q.family = "policy" /\ q.phase # "sent" => q.seen # None
    /\ q.seen # None /\ q.token # None => issued[q.token].revision = q.seen
    /\ q.base # None => q.base \in 1 .. revision /\ (Basis(r) # None => Basis(r) <= q.base)
    /\ q.base # None <=> q.phase \in {"read", "checked", "switched", "storing"}
    /\ q.phase \in {"checked", "switched"} /\ Basis(r) # None => q.base = Basis(r)

BasisInv ==
    /\ \A t \in DOMAIN issued : issued[t].revision <= revision
    /\ \A r \in Request : BasisOK(r)

\* What runs when shutdown begins is captured and stays so; what enters the
\* lock afterwards is a removal that waited.
StopInv ==
    /\ stopping # "no" =>
          /\ \A r \in Request : InLock(r) => r = captured \/ req[r].kind = "removal"
          /\ captured # None => req[captured].phase \in Locked \cup {"storing", "done"}
    /\ stopping \in {"schedule", "server", "exited"} /\ captured # None => ~InLock(captured)
    /\ stopping = "exited" => \A r \in Request : ~req[r].here

IInv == TypeInv /\ LockInv /\ BasisInv /\ StopInv

-----------------------------------------------------------------------------
(* Steps of one request.                                                   *)

\* A request that has not been sent yet, or that has ended, is a request state.
LEMMA AtTyped ==
    ASSUME NEW p \in Phase
    PROVE  At(p) \in RequestState /\ At(p).phase = p
BY DEF At, RequestState, Kind

\* A preview's token comes last; the earlier ones stay what they are.
LEMMA TokenStored ==
    ASSUME TypeInv, NEW f \in Family, NEW valid \in BOOLEAN, NEW rev \in 1 .. MaxRevision,
           Stored(f, valid, rev)
    PROVE  /\ issued' \in Seq([family : Family, revision : 1 .. MaxRevision])
           /\ DOMAIN issued \subseteq DOMAIN issued'
           /\ \A t \in DOMAIN issued : issued'[t] = issued[t]
           /\ \A t \in DOMAIN issued' \ DOMAIN issued : issued'[t].revision = rev
<1> DEFINE new == [family |-> f, revision |-> rev]
<1>1. CASE valid
  <2>1. issued' = Append(issued, new) /\ new \in [family : Family, revision : 1 .. MaxRevision]
    BY <1>1 DEF Stored
  <2>. QED
    BY <2>1 DEF TypeInv
<1>2. CASE ~valid
  BY <1>2 DEF Stored, TypeInv
<1>. QED
  BY <1>1, <1>2

-----------------------------------------------------------------------------
(* What each step does to the request that takes it.                       *)

\* The request goes on, its kind, family and token unchanged.
GoesOn(r, p) ==
    /\ req' \in [Request -> RequestState]
    /\ \A s \in Request \ {r} : req'[s] = req[s]
    /\ req'[r].phase = p
    /\ req'[r].kind = req[r].kind /\ req'[r].family = req[r].family
    /\ req'[r].token = req[r].token /\ req'[r].here = req[r].here

Ends(r) ==
    /\ req' \in [Request -> RequestState]
    /\ \A s \in Request \ {r} : req'[s] = req[s]
    /\ req'[r] = At("done")

LEMMA EndEnds ==
    ASSUME TypeInv, NEW r \in Request, End(r)
    PROVE  Ends(r)
BY AtTyped DEF TypeInv, End, Ends, Phase

LEMMA MoveGoesOn ==
    ASSUME TypeInv, NEW r \in Request, NEW p \in Phase, Move(r, p)
    PROVE  GoesOn(r, p) /\ req'[r].seen = req[r].seen /\ req'[r].base = req[r].base
<1>1. [req[r] EXCEPT !.phase = p] \in RequestState
  BY DEF TypeInv, RequestState
<1>. QED
  BY <1>1 DEF TypeInv, Move, GoesOn, RequestState

LEMMA ReadGoesOn ==
    ASSUME TypeInv, NEW r \in Request, NEW n \in Nat,
           \/ req' = [req EXCEPT ![r].phase = "read", ![r].base = revision, ![r].tries = n]
           \/ req' = [req EXCEPT ![r].phase = "read", ![r].base = revision]
    PROVE  GoesOn(r, "read") /\ req'[r].seen = req[r].seen /\ req'[r].base = revision
<1>1. revision \in Nat
  BY DEF TypeInv
<1>2. PICK q \in RequestState : /\ q \in {[req[r] EXCEPT !.phase = "read", !.base = revision, !.tries = n],
                                          [req[r] EXCEPT !.phase = "read", !.base = revision]}
                                /\ req' = [req EXCEPT ![r] = q]
  <2>1. req[r] \in RequestState /\ "read" \in Phase
    BY DEF TypeInv, Phase
  <2>2. /\ [req[r] EXCEPT !.phase = "read", !.base = revision] \in RequestState
        /\ [req[r] EXCEPT !.phase = "read", !.base = revision, !.tries = n] \in RequestState
    BY <1>1, <2>1 DEF RequestState
  <2>3. \/ req' = [req EXCEPT ![r] = [req[r] EXCEPT !.phase = "read", !.base = revision, !.tries = n]]
        \/ req' = [req EXCEPT ![r] = [req[r] EXCEPT !.phase = "read", !.base = revision]]
    BY DEF TypeInv
  <2>. QED
    BY <2>2, <2>3
<1>3. /\ q.phase = "read" /\ q.base = revision /\ q.seen = req[r].seen
      /\ q.kind = req[r].kind /\ q.family = req[r].family
      /\ q.token = req[r].token /\ q.here = req[r].here
  BY <1>2 DEF TypeInv, RequestState
<1>. QED
  BY <1>2, <1>3 DEF TypeInv, GoesOn

LEMMA PrepareGoesOn ==
    ASSUME TypeInv, NEW r \in Request, 
           req' = [req EXCEPT ![r].phase = "prepared", ![r].seen = revision]
    PROVE  GoesOn(r, "prepared") /\ req'[r].seen = revision /\ req'[r].base = req[r].base
<1>1. revision \in Nat
  BY DEF TypeInv
<1>2. [req[r] EXCEPT !.phase = "prepared", !.seen = revision] \in RequestState
  BY <1>1 DEF TypeInv, RequestState, Phase
<1>. QED
  BY <1>1, <1>2 DEF TypeInv, GoesOn, RequestState

-----------------------------------------------------------------------------
(* The parts of the invariant, when one request moves.                     *)

\* Only the request r moves, and the inventory and the tokens only grow.
OnlyMoves(r) ==
    /\ req' \in [Request -> RequestState]
    /\ \A s \in Request \ {r} : req'[s] = req[s]

Grows ==
    /\ revision' \in revision .. MaxRevision
    /\ issued' \in Seq([family : Family, revision : 1 .. MaxRevision])
    /\ DOMAIN issued \subseteq DOMAIN issued'
    /\ \A t \in DOMAIN issued : issued'[t] = issued[t]
    /\ \A t \in DOMAIN issued' \ DOMAIN issued : issued'[t].revision <= revision'

LEMMA Unmoved ==
    ASSUME TypeInv, BasisInv, UNCHANGED <<revision, issued>>
    PROVE  Grows
BY DEF TypeInv, BasisInv, Grows

\* A request that does not move keeps its basis.
LEMMA BasisStays ==
    ASSUME TypeInv, Grows, NEW s \in Request, BasisOK(s), req'[s] = req[s]
    PROVE  BasisOK(s)'
<1>1. Basis(s)' = Basis(s)
  BY DEF Basis, BasisOK, Grows
<1>2. revision \in Nat /\ revision' \in Nat /\ revision <= revision'
  BY DEF TypeInv, Grows
<1>3. req[s].token # None => req[s].token \in DOMAIN issued' /\ issued'[req[s].token] = issued[req[s].token]
  BY DEF BasisOK, Grows
<1>4. (req[s].seen # None => req[s].seen \in 1 .. revision') /\ (req[s].base # None => req[s].base \in 1 .. revision')
  BY <1>2 DEF BasisOK
<1>. QED
  BY <1>1, <1>3, <1>4 DEF BasisOK

LEMMA BasisStep ==
    ASSUME TypeInv, BasisInv, Grows, NEW r \in Request, OnlyMoves(r), BasisOK(r)'
    PROVE  BasisInv'
<1>1. \A s \in Request : BasisOK(s)'
  BY BasisStays DEF BasisInv, OnlyMoves
<1>2. ASSUME NEW t \in DOMAIN issued' PROVE issued'[t].revision <= revision'
  <2>1. CASE t \in DOMAIN issued
    <3>1. issued[t].revision \in Nat /\ revision \in Nat /\ revision' \in Nat /\ revision <= revision'
      <4>1. issued[t] \in [family : Family, revision : 1 .. MaxRevision]
        BY <2>1, ElementOfSeq, LenProperties DEF TypeInv
      <4>. QED
        BY <4>1 DEF TypeInv, Grows
    <3>. QED
      BY <2>1, <3>1 DEF BasisInv, Grows
  <2>2. CASE t \notin DOMAIN issued
    BY <2>2 DEF Grows
  <2>. QED
    BY <2>1, <2>2
<1>. QED
  BY <1>1, <1>2 DEF BasisInv

\* An ended request has no basis.
LEMMA EndedBasis ==
    ASSUME NEW r \in Request, Ends(r)
    PROVE  BasisOK(r)'
BY NoneAssumption DEF Ends, BasisOK, Basis, At, Ended

\* A step that keeps the lock, or gives it up, with its request.
LEMMA LockStep ==
    ASSUME TypeInv, LockInv, NEW r \in Request, OnlyMoves(r), UNCHANGED waiters,
           req[r].phase # "waiting", req'[r].phase # "waiting",
           InLock(r)' <=> lock' = r,
           lock' # lock => (lock = r /\ lock' = None) \/ (lock = None /\ lock' = r)
    PROVE  LockInv'
<1>1. \A s \in Request : InLock(s)' <=> lock' = s
  BY NoneAssumption DEF LockInv, InLock, OnlyMoves
<1>2. \A i \in DOMAIN waiters : waiters[i] \in Request /\ waiters[i] # r
  BY DEF LockInv, TypeInv
<1>. QED
  BY <1>1, <1>2 DEF LockInv, OnlyMoves

\* What may move while shutdown is under way.
LEMMA StopStep ==
    ASSUME TypeInv, StopInv, NEW r \in Request, OnlyMoves(r), UNCHANGED shutdown,
           stopping # "no" =>
              /\ InLock(r)' => (InLock(r) /\ req'[r].kind = req[r].kind) \/ req'[r].kind = "removal"
              /\ r = captured => req'[r].phase \in Locked \cup {"storing", "done"}
              /\ r = captured => (InLock(r)' => InLock(r))
              /\ req'[r].here => req[r].here
    PROVE  StopInv'
<1>1. stopping' = stopping /\ captured' = captured
  BY DEF shutdown
<1>2. CASE stopping = "no"
  BY <1>1, <1>2 DEF StopInv
<1>3. CASE stopping # "no"
  <2>1. \A s \in Request : InLock(s)' => s = captured \/ req'[s].kind = "removal"
    BY <1>3 DEF StopInv, OnlyMoves, InLock
  <2>2. captured # None => req'[captured].phase \in Locked \cup {"storing", "done"} /\ (InLock(captured)' => InLock(captured))
    <3>1. CASE captured = r
      BY <1>1, <1>3, <3>1 DEF InLock
    <3>2. CASE captured # r /\ captured # None
      <4>1. captured \in Request \ {r}
        BY <3>2 DEF TypeInv
      <4>2. req'[captured] = req[captured]
        BY <4>1 DEF OnlyMoves
      <4>. QED
        BY <1>1, <1>3, <3>2, <4>2 DEF StopInv, InLock
    <3>. QED
      BY <3>1, <3>2
  <2>3. \A s \in Request : req'[s].here => req[s].here
    BY <1>3 DEF OnlyMoves
  <2>. QED
    BY <1>1, <2>1, <2>2, <2>3 DEF StopInv, InLock
<1>. QED
  BY <1>2, <1>3

LEMMA TypeStep ==
    ASSUME TypeInv, Grows, NEW r \in Request, OnlyMoves(r), UNCHANGED <<waiters, shutdown>>,
           lock' \in {lock, r, None}
    PROVE  TypeInv'
BY DEF TypeInv, Grows, OnlyMoves, shutdown

\* A request that ends, and leaves the lock if it is inside.
LEMMA EndStep ==
    ASSUME IInv, Grows, NEW r \in Request, End(r), UNCHANGED <<waiters, shutdown>>,
           req[r].phase # "waiting",
           lock' = IF lock = r THEN None ELSE lock
    PROVE  IInv'
<1>1. Ends(r) /\ OnlyMoves(r)
  BY EndEnds DEF IInv, Ends, OnlyMoves
<1>2. req'[r].phase = "done" /\ req'[r].here = FALSE /\ req'[r].kind = "none"
  BY <1>1 DEF Ends, At
<1>3. TypeInv'
  BY <1>1, TypeStep DEF IInv
<1>4. LockInv'
  <2>1. ~InLock(r)' /\ lock' # r
    BY <1>2, NoneAssumption DEF InLock
  <2>. QED
    BY <1>1, <1>2, <2>1, LockStep DEF IInv
<1>5. BasisInv'
  BY <1>1, EndedBasis, BasisStep DEF IInv
<1>6. StopInv'
  BY <1>1, <1>2, StopStep DEF IInv, InLock
<1>. QED
  BY <1>3, <1>4, <1>5, <1>6 DEF IInv

-----------------------------------------------------------------------------
(* The steps.                                                              *)

\* A request inside the lock goes on there, on the basis it had.
LEMMA InsideStep ==
    ASSUME IInv, Grows, NEW r \in Request, NEW p \in Locked, GoesOn(r, p), InLock(r),
           BasisOK(r)', UNCHANGED <<locking, shutdown>>
    PROVE  IInv'
<1>1. OnlyMoves(r) /\ InLock(r)' /\ req[r].phase # "waiting" /\ req'[r].phase # "waiting"
  BY DEF GoesOn, OnlyMoves, Locked, InLock
<1>2. lock = r /\ lock' = lock /\ waiters' = waiters
  BY DEF IInv, LockInv, locking
<1>3. TypeInv'
  BY <1>1, <1>2, TypeStep DEF IInv
<1>4. LockInv'
  BY <1>1, <1>2, LockStep DEF IInv
<1>5. BasisInv'
  BY <1>1, BasisStep DEF IInv
<1>6. StopInv'
  BY <1>1, StopStep DEF IInv, GoesOn
<1>. QED
  BY <1>3, <1>4, <1>5, <1>6 DEF IInv

\* A request that is not inside the lock stays outside.
LEMMA OutsideStep ==
    ASSUME IInv, Grows, NEW r \in Request, OnlyMoves(r), ~InLock(r), req[r].phase # "waiting",
           req'[r].phase \in {"sent", "prepared", "done"}, BasisOK(r)', UNCHANGED <<locking, shutdown>>,
           stopping # "no" => r # captured /\ (req'[r].here => req[r].here)
    PROVE  IInv'
<1>1. ~InLock(r)' /\ req'[r].phase # "waiting" /\ lock # r
  BY DEF IInv, LockInv, InLock
<1>2. lock' = lock /\ waiters' = waiters
  BY DEF locking
<1>3. TypeInv'
  BY <1>2, TypeStep DEF IInv
<1>4. LockInv'
  BY <1>1, <1>2, LockStep DEF IInv
<1>5. BasisInv'
  BY BasisStep DEF IInv
<1>6. StopInv'
  BY <1>1, StopStep DEF IInv
<1>. QED
  BY <1>3, <1>4, <1>5, <1>6 DEF IInv

LEMMA SendStep ==
    ASSUME IInv, NEW r \in Request, Send(r)
    PROVE  IInv'
<1>1. Grows
  BY Unmoved DEF IInv, Send, store, previews
<1>2. PICK q \in RequestState :
          /\ req' = [req EXCEPT ![r] = q]
          /\ q.phase \in {"sent", "prepared"}
          /\ q.seen = None /\ q.base = None
          /\ q.token # None => q.token \in DOMAIN issued /\ q.family # None
          /\ q.kind = "preview" => q.family # None
          /\ q.family = "policy" <=> q.phase = "sent"
  <2> DEFINE Asks == \E kind \in {"preview", "change"}, f \in Family, t \in DOMAIN issued \cup {None} :
                        /\ t # None => kind = "change" /\ issued[t].family = f
                        /\ req' = [req EXCEPT ![r] =
                              [At(IF f = "policy" THEN "sent" ELSE "prepared") EXCEPT
                                  !.kind = kind, !.family = f, !.token = t, !.here = TRUE]]
             Removes == req' = [req EXCEPT ![r] = [At("prepared") EXCEPT !.kind = "removal", !.here = TRUE]]
  <2>1. CASE Asks
    <3>1. PICK kind \in {"preview", "change"}, f \in Family, t \in DOMAIN issued \cup {None} :
                req' = [req EXCEPT ![r] =
                   [At(IF f = "policy" THEN "sent" ELSE "prepared") EXCEPT
                       !.kind = kind, !.family = f, !.token = t, !.here = TRUE]]
      BY <2>1
    <3> DEFINE q == [At(IF f = "policy" THEN "sent" ELSE "prepared") EXCEPT
                       !.kind = kind, !.family = f, !.token = t, !.here = TRUE]
    <3>2. t \in (Nat \ {0}) \cup {None} /\ (t # None => t \in DOMAIN issued)
      BY LenProperties DEF IInv, TypeInv
    <3>3. f \in {"policy", "system", "session"} /\ f # None
      BY FamilyAssumption, NoneAssumption
    <3>4. q \in RequestState
      BY <3>2 DEF At, RequestState, Kind, Phase
    <3>5. /\ q.phase = (IF f = "policy" THEN "sent" ELSE "prepared")
          /\ q.seen = None /\ q.base = None /\ q.token = t /\ q.family = f
      BY DEF At
    <3>6. q.phase \in {"sent", "prepared"} /\ (q.family = "policy" <=> q.phase = "sent")
      BY <3>5
    <3>7. req' = [req EXCEPT ![r] = q]
      BY <3>1
    <3> HIDE DEF q
    <3>. QED
      BY <3>2, <3>3, <3>4, <3>5, <3>6, <3>7
  <2>2. CASE Removes
    <3> DEFINE q == [At("prepared") EXCEPT !.kind = "removal", !.here = TRUE]
    <3>1. q \in RequestState
      BY DEF At, RequestState, Kind, Phase
    <3>2. q.phase = "prepared" /\ q.seen = None /\ q.base = None /\ q.token = None
          /\ q.family = None /\ q.kind = "removal"
      BY DEF At
    <3>. QED
      BY <2>2, <3>1, <3>2, NoneAssumption
  <2>3. Asks \/ Removes
    BY Zenon DEF Send
  <2>. QED
    BY <2>1, <2>2, <2>3
<1>3. OnlyMoves(r) /\ req'[r] = q
  BY <1>2 DEF OnlyMoves, IInv, TypeInv
<1>4. BasisOK(r)'
  <2>1. UNCHANGED issued
    BY DEF Send, previews
  <2>. QED
    BY <1>2, <1>3, <2>1, NoneAssumption DEF BasisOK, Basis, Ended
<1>5. ~InLock(r) /\ req[r].phase # "waiting" /\ stopping = "no"
  BY DEF Send, InLock
<1>. QED
  BY <1>1, <1>2, <1>3, <1>4, <1>5, OutsideStep DEF Send

LEMMA StartSyncStep ==
    ASSUME IInv, NEW r \in Request, StartSync(r)
    PROVE  IInv'
<1> DEFINE q == [At("prepared") EXCEPT !.kind = "sync"]
<1>1. Grows
  BY Unmoved DEF IInv, StartSync, store, previews
<1>2. q \in RequestState
  BY DEF At, RequestState, Kind, Phase
<1>3. /\ q.phase = "prepared" /\ q.seen = None /\ q.base = None
      /\ q.token = None /\ q.family = None /\ q.kind = "sync"
  BY DEF At
<1>4. OnlyMoves(r) /\ req'[r] = q
  BY <1>2 DEF OnlyMoves, IInv, TypeInv, StartSync
<1>5. BasisOK(r)'
  BY <1>3, <1>4, NoneAssumption DEF BasisOK, Basis, Ended
<1>6. ~InLock(r) /\ req[r].phase # "waiting" /\ stopping = "no"
  BY DEF StartSync, InLock
<1>. QED
  BY <1>1, <1>3, <1>4, <1>5, <1>6, OutsideStep DEF StartSync

LEMMA PrepareStep ==
    ASSUME IInv, NEW r \in Request, Prepare(r)
    PROVE  IInv'
<1> DEFINE t == req[r].token
<1>1. Grows /\ UNCHANGED <<revision, issued, locking, shutdown>> /\ req[r].phase = "sent"
  BY Unmoved DEF IInv, Prepare, store, previews
<1>2. CASE req' = [req EXCEPT ![r].phase = "prepared", ![r].seen = revision]
           /\ (t = None \/ issued[t].revision = revision)
  <2>1. GoesOn(r, "prepared") /\ req'[r].seen = revision /\ req'[r].base = req[r].base
    BY <1>2, PrepareGoesOn DEF IInv
  <2>2. OnlyMoves(r) /\ req'[r].phase = "prepared"
    BY <2>1 DEF GoesOn, OnlyMoves
  <2>3. revision \in 1 .. revision /\ revision # None
    BY NoneAssumption DEF IInv, TypeInv
  <2>4. BasisOK(r) /\ req[r].base = None /\ req[r].family = "policy"
    BY <1>1 DEF IInv, BasisInv, BasisOK
  <2>5. BasisOK(r)'
    BY <1>1, <1>2, <2>1, <2>3, <2>4 DEF BasisOK, Basis, GoesOn, Ended
  <2>6. stopping # "no" => r # captured
    BY <1>1, NoneAssumption DEF IInv, StopInv, Locked, TypeInv
  <2>. QED
    BY <1>1, <2>1, <2>2, <2>5, <2>6, OutsideStep DEF GoesOn, InLock
<1>3. CASE End(r)
  BY <1>1, <1>3, EndStep DEF IInv, LockInv, InLock, locking
<1>. QED
  BY <1>2, <1>3 DEF Prepare, Valid

\* The first waiting removal is not among the others.
LEMMA FirstWaiter ==
    ASSUME TypeInv, LockInv, waiters # << >>
    PROVE  /\ Tail(waiters) \in Seq(Request)
           /\ Head(waiters) = waiters[1] /\ 1 \in DOMAIN waiters
           /\ \A i \in DOMAIN Tail(waiters) :
                 i + 1 \in DOMAIN waiters /\ i + 1 # 1 /\ Tail(waiters)[i] = waiters[i + 1]
BY HeadTailProperties, EmptySeq DEF TypeInv

LEMMA EnterStep ==
    ASSUME IInv, NEW r \in Request, Enter(r)
    PROVE  IInv'
<1>1. Grows /\ UNCHANGED <<revision, issued, shutdown>> /\ req[r].phase = "prepared"
  BY Unmoved DEF IInv, Enter, store, previews
<1>2. ~InLock(r) /\ lock # r /\ req[r].base = None /\ BasisOK(r) /\ (stopping # "no" => r # captured)
  BY <1>1, NoneAssumption DEF IInv, LockInv, InLock, BasisInv, BasisOK, StopInv, Locked
<1>3. CASE End(r) /\ UNCHANGED locking
  BY <1>1, <1>2, <1>3, EndStep DEF locking
<1>4. CASE stopping = "no" /\ lock = None /\ Move(r, "locked") /\ lock' = r /\ UNCHANGED waiters
  <2>1. GoesOn(r, "locked") /\ req'[r].seen = req[r].seen /\ req'[r].base = req[r].base
    BY <1>4, MoveGoesOn DEF IInv, Phase
  <2>2. OnlyMoves(r) /\ InLock(r)' /\ req'[r].phase # "waiting"
    BY <2>1 DEF GoesOn, OnlyMoves, InLock
  <2>3. BasisOK(r)'
    BY <1>1, <1>2, <2>1, NoneAssumption DEF BasisOK, Basis, GoesOn, Ended
  <2>4. TypeInv'
    BY <1>1, <1>4, <2>2, TypeStep DEF IInv
  <2>5. LockInv'
    BY <1>1, <1>4, <2>2, LockStep DEF IInv
  <2>6. BasisInv'
    BY <1>1, <2>2, <2>3, BasisStep DEF IInv
  <2>7. StopInv'
    BY <1>1, <1>4, <2>2, StopStep DEF IInv
  <2>. QED
    BY <2>4, <2>5, <2>6, <2>7 DEF IInv
<1>5. CASE /\ stopping = "no" /\ req[r].kind = "removal"
           /\ Move(r, "waiting") /\ waiters' = Append(waiters, r) /\ UNCHANGED lock
  <2>1. GoesOn(r, "waiting") /\ req'[r].seen = req[r].seen /\ req'[r].base = req[r].base
    BY <1>5, MoveGoesOn DEF IInv, Phase
  <2>2. OnlyMoves(r) /\ ~InLock(r)'
    BY <2>1 DEF GoesOn, OnlyMoves, InLock
  <2>3. BasisOK(r)'
    BY <1>1, <1>2, <2>1, NoneAssumption DEF BasisOK, Basis, GoesOn, Ended
  <2>4. TypeInv'
    <3>1. waiters' \in Seq(Request)
      BY <1>5, AppendProperties DEF IInv, TypeInv
    <3>. QED
      BY <1>1, <1>5, <2>2, <3>1 DEF IInv, TypeInv, Grows, OnlyMoves, shutdown
  <2>5. LockInv'
    <3>1. \A s \in Request : InLock(s)' <=> lock' = s
      BY <1>2, <1>5, <2>2 DEF IInv, LockInv, InLock, OnlyMoves
    <3>2. /\ DOMAIN waiters' = DOMAIN waiters \cup {Len(waiters) + 1}
          /\ \A i \in DOMAIN waiters : waiters'[i] = waiters[i]
          /\ waiters'[Len(waiters) + 1] = r
      BY <1>5, AppendProperties, LenProperties DEF IInv, TypeInv
    <3>3. \A i \in DOMAIN waiters : waiters[i] \in Request /\ waiters[i] # r
      BY <1>1 DEF IInv, LockInv, TypeInv
    <3>4. \A i \in DOMAIN waiters' : req'[waiters'[i]].phase = "waiting"
      BY <2>1, <3>2, <3>3 DEF IInv, LockInv, GoesOn
    <3>5. \A i, j \in DOMAIN waiters' : waiters'[i] = waiters'[j] => i = j
      BY <3>2, <3>3 DEF IInv, LockInv
    <3>6. \A s \in Request : req'[s].phase = "waiting" => req'[s].kind = "removal"
      BY <1>5, <2>1 DEF IInv, LockInv, GoesOn
    <3>. QED
      BY <3>1, <3>4, <3>5, <3>6 DEF LockInv
  <2>6. BasisInv'
    BY <1>1, <2>2, <2>3, BasisStep DEF IInv
  <2>7. StopInv'
    BY <1>1, <1>5, <2>2, StopStep DEF IInv
  <2>. QED
    BY <2>4, <2>5, <2>6, <2>7 DEF IInv
<1>. QED
  BY <1>3, <1>4, <1>5 DEF Enter

LEMMA WakeStep ==
    ASSUME IInv, NEW r \in Request, Wake(r)
    PROVE  IInv'
<1>1. Grows /\ UNCHANGED <<revision, issued, shutdown>> /\ lock = None /\ lock' = r
  BY Unmoved DEF IInv, Wake, store, previews
<1>2. /\ waiters' = Tail(waiters) /\ waiters' \in Seq(Request)
      /\ r = waiters[1] /\ 1 \in DOMAIN waiters
      /\ \A i \in DOMAIN waiters' : i + 1 \in DOMAIN waiters /\ i + 1 # 1 /\ waiters'[i] = waiters[i + 1]
  BY FirstWaiter DEF IInv, Wake
<1>3. /\ req[r].phase = "waiting" /\ req[r].kind = "removal" /\ req[r].base = None /\ BasisOK(r)
      /\ stopping # "no" => r # captured
  BY <1>2, NoneAssumption DEF IInv, LockInv, BasisInv, BasisOK, StopInv, Locked
<1>4. GoesOn(r, "locked") /\ req'[r].seen = req[r].seen /\ req'[r].base = req[r].base
  BY MoveGoesOn DEF IInv, Phase, Wake
<1>5. OnlyMoves(r) /\ InLock(r)' /\ req'[r].kind = "removal"
  BY <1>3, <1>4 DEF GoesOn, OnlyMoves, InLock
<1>6. BasisOK(r)'
  BY <1>1, <1>3, <1>4, NoneAssumption DEF BasisOK, Basis, GoesOn, Ended
<1>7. TypeInv'
  BY <1>1, <1>2, <1>5 DEF IInv, TypeInv, Grows, OnlyMoves, shutdown
<1>8. LockInv'
  <2>1. \A s \in Request : InLock(s)' <=> lock' = s
    BY <1>1, <1>5, NoneAssumption DEF IInv, LockInv, InLock, OnlyMoves
  <2>2. \A i \in DOMAIN waiters' : waiters'[i] \in Request \ {r} /\ req[waiters'[i]].phase = "waiting"
    BY <1>2 DEF IInv, LockInv, TypeInv
  <2>3. \A i, j \in DOMAIN waiters' : waiters'[i] = waiters'[j] => i = j
    BY <1>2, LenProperties DEF IInv, LockInv, TypeInv
  <2>4. \A s \in Request : req'[s].phase = "waiting" => req'[s].kind = "removal"
    BY <1>4 DEF IInv, LockInv, GoesOn
  <2>. QED
    BY <1>5, <2>1, <2>2, <2>3, <2>4 DEF LockInv, OnlyMoves
<1>9. BasisInv'
  BY <1>1, <1>5, <1>6, BasisStep DEF IInv
<1>10. StopInv'
  BY <1>1, <1>3, <1>4, <1>5, StopStep DEF IInv, GoesOn, Locked
<1>. QED
  BY <1>7, <1>8, <1>9, <1>10 DEF IInv

\* A request inside the lock ends and releases it.
LEMMA LeaveStep ==
    ASSUME IInv, Grows, NEW r \in Request, InLock(r), End(r), Release, UNCHANGED shutdown
    PROVE  IInv'
<1>1. lock = r /\ req[r].phase # "waiting"
  BY DEF IInv, LockInv, InLock
<1>. QED
  BY <1>1, EndStep DEF Release

LEMMA BeginStep ==
    ASSUME IInv, NEW r \in Request, Begin(r)
    PROVE  IInv'
<1>1. Grows /\ UNCHANGED <<revision, issued, shutdown>> /\ InLock(r) /\ req[r].phase = "locked"
  BY Unmoved DEF IInv, Begin, store, previews, InLock
<1>2. CASE End(r) /\ Release
  BY <1>1, <1>2, LeaveStep
<1>3. CASE req' = [req EXCEPT ![r].phase = "read", ![r].base = revision] /\ UNCHANGED locking
  <2>1. GoesOn(r, "read") /\ req'[r].seen = req[r].seen /\ req'[r].base = revision
    BY <1>3, ReadGoesOn DEF IInv
  <2>2. BasisOK(r) /\ revision \in 1 .. revision /\ revision # None
    BY NoneAssumption DEF IInv, BasisInv, TypeInv
  <2>3. Basis(r) # None => Basis(r) <= revision
    BY <2>2 DEF IInv, BasisInv, BasisOK, Basis
  <2>4. BasisOK(r)'
    BY <1>1, <2>1, <2>2, <2>3 DEF BasisOK, Basis, GoesOn, Ended
  <2>. QED
    BY <1>1, <1>3, <2>1, <2>4, InsideStep DEF Locked
<1>. QED
  BY <1>2, <1>3 DEF Begin

\* What has not moved on since it was read is what was looked at.
LEMMA CurrentBasis ==
    ASSUME IInv, NEW r \in Request, req[r].phase = "read", Current(r), Basis(r) # None
    PROVE  req[r].base = Basis(r)
<1>1. BasisOK(r) /\ req[r].base # None
  BY DEF IInv, BasisInv, BasisOK
<1>2. req[r].base \in 1 .. revision /\ Basis(r) <= req[r].base /\ revision \in Nat
  BY <1>1 DEF BasisOK, IInv, TypeInv
<1>3. req[r].family \in {"policy", "system", "session", None}
  BY FamilyAssumption DEF IInv, TypeInv, RequestState
<1>4. CASE req[r].family = "policy"
  <2>1. Basis(r) = req[r].seen /\ req[r].seen = revision
    BY <1>1, <1>4 DEF BasisOK, Basis, Current
  <2>. QED
    BY <1>2, <2>1
<1>5. CASE req[r].family = "system"
  <2>1. req[r].token # None /\ Basis(r) = issued[req[r].token].revision /\ Basis(r) = revision
    BY <1>1, <1>5 DEF BasisOK, Basis, Current
  <2>. QED
    BY <1>2, <2>1
<1>6. CASE req[r].family = "session"
  BY <1>1, <1>6 DEF BasisOK, Basis, Current
<1>7. CASE req[r].family = None
  BY <1>1, <1>7, NoneAssumption DEF BasisOK, Basis
<1>. QED
  BY <1>3, <1>4, <1>5, <1>6, <1>7

LEMMA CheckStep ==
    ASSUME IInv, NEW r \in Request, Check(r)
    PROVE  IInv'
<1>1. Grows /\ UNCHANGED <<revision, issued, shutdown>> /\ InLock(r) /\ req[r].phase = "read"
  BY Unmoved DEF IInv, Check, store, previews, InLock
<1>2. CASE End(r) /\ Release
  BY <1>1, <1>2, LeaveStep
<1>3. CASE Current(r) /\ Move(r, "checked") /\ UNCHANGED locking
  <2>1. GoesOn(r, "checked") /\ req'[r].seen = req[r].seen /\ req'[r].base = req[r].base
    BY <1>3, MoveGoesOn DEF IInv, Phase
  <2>2. BasisOK(r) /\ (Basis(r) # None => req[r].base = Basis(r))
    BY <1>1, <1>3, CurrentBasis DEF IInv, BasisInv
  <2>3. Basis(r)' = Basis(r)
    BY <1>1, <2>1 DEF Basis, GoesOn
  <2>4. BasisOK(r)'
    BY <1>1, <2>1, <2>2, <2>3 DEF BasisOK, GoesOn, Ended
  <2>. QED
    BY <1>1, <1>3, <2>1, <2>4, InsideStep DEF Locked
<1>. QED
  BY <1>2, <1>3 DEF Check

LEMMA SwitchStep ==
    ASSUME IInv, NEW r \in Request, Switch(r)
    PROVE  IInv'
<1>1. Grows /\ UNCHANGED <<revision, issued, shutdown, locking>> /\ InLock(r) /\ req[r].phase = "checked"
  BY Unmoved DEF IInv, Switch, store, previews, InLock
<1>2. GoesOn(r, "switched") /\ req'[r].seen = req[r].seen /\ req'[r].base = req[r].base
  BY MoveGoesOn DEF IInv, Phase, Switch
<1>3. BasisOK(r) /\ Basis(r)' = Basis(r)
  BY <1>1, <1>2 DEF IInv, BasisInv, Basis, GoesOn
<1>4. BasisOK(r)'
  BY <1>1, <1>2, <1>3 DEF BasisOK, GoesOn, Ended
<1>. QED
  BY <1>1, <1>2, <1>4, InsideStep DEF Locked

LEMMA RetryStep ==
    ASSUME IInv, NEW r \in Request, Retry(r)
    PROVE  IInv'
<1>1. Grows /\ UNCHANGED <<revision, issued, shutdown, locking>> /\ InLock(r) /\ req[r].phase = "switched"
  BY Unmoved DEF IInv, Retry, store, previews, InLock
<1>2. GoesOn(r, "read") /\ req'[r].seen = req[r].seen /\ req'[r].base = revision
  <2>1. req[r].tries + 1 \in Nat /\ r \in DOMAIN req
    BY DEF IInv, TypeInv, RequestState
  <2>2. req' = [req EXCEPT ![r].phase = "read", ![r].base = revision, ![r].tries = req[r].tries + 1]
    BY <2>1 DEF Retry
  <2>. QED
    BY <2>1, <2>2, ReadGoesOn DEF IInv
<1>3. BasisOK(r) /\ revision \in 1 .. revision /\ revision # None
  BY NoneAssumption DEF IInv, BasisInv, TypeInv
<1>4. Basis(r)' = Basis(r) /\ (Basis(r) # None => Basis(r) <= revision)
  BY <1>1, <1>2, <1>3 DEF IInv, BasisInv, BasisOK, Basis, GoesOn
<1>5. BasisOK(r)'
  BY <1>1, <1>2, <1>3, <1>4 DEF BasisOK, GoesOn, Ended
<1>. QED
  BY <1>1, <1>2, <1>5, InsideStep DEF Locked

\* A preview that has its answers, with its token or without.
LEMMA StoredGrows ==
    ASSUME IInv, NEW f \in Family, NEW valid \in BOOLEAN, NEW rev \in 1 .. revision,
           Stored(f, valid, rev), UNCHANGED revision
    PROVE  Grows
<1>1. rev \in 1 .. MaxRevision /\ revision \in Nat /\ MaxRevision \in Nat /\ revision <= MaxRevision
  BY BoundAssumption DEF IInv, TypeInv
<1>2. /\ issued' \in Seq([family : Family, revision : 1 .. MaxRevision])
      /\ DOMAIN issued \subseteq DOMAIN issued'
      /\ \A t \in DOMAIN issued : issued'[t] = issued[t]
      /\ \A t \in DOMAIN issued' \ DOMAIN issued : issued'[t].revision = rev
  BY <1>1, TokenStored DEF IInv
<1>. QED
  BY <1>1, <1>2 DEF Grows

LEMMA EndPreviewStep ==
    ASSUME IInv, NEW r \in Request, EndPreview(r)
    PROVE  IInv'
<1>1. UNCHANGED <<revision, shutdown>> /\ InLock(r) /\ req[r].phase = "checked" /\ Release
  BY DEF EndPreview, store, InLock
<1>2. CASE UNCHANGED previews /\ End(r)
  BY <1>1, <1>2, Unmoved, LeaveStep DEF IInv, previews
<1>3. CASE UNCHANGED previews /\ Move(r, "storing") /\ req[r].family = "session"
  <2>1. GoesOn(r, "storing") /\ req'[r].seen = req[r].seen /\ req'[r].base = req[r].base
    BY <1>3, MoveGoesOn DEF IInv, Phase
  <2>2. Grows /\ UNCHANGED <<issued, waiters>> /\ lock = r /\ lock' = None /\ OnlyMoves(r)
    BY <1>1, <1>3, <2>1, Unmoved DEF IInv, LockInv, previews, Release, GoesOn, OnlyMoves
  <2>3. BasisOK(r) /\ Basis(r)' = Basis(r)
    BY <1>1, <2>1, <2>2 DEF IInv, BasisInv, Basis, GoesOn
  <2>4. BasisOK(r)'
    BY <1>1, <1>3, <2>1, <2>2, <2>3 DEF BasisOK, GoesOn, Ended
  <2>5. ~InLock(r)' /\ req[r].phase # "waiting" /\ req'[r].phase # "waiting" /\ lock' # r
    BY <1>1, <2>1, <2>2, NoneAssumption DEF GoesOn, InLock
  <2>6. TypeInv'
    BY <1>1, <2>2, TypeStep DEF IInv
  <2>7. LockInv'
    BY <2>2, <2>5, LockStep DEF IInv
  <2>8. BasisInv'
    BY <2>2, <2>4, BasisStep DEF IInv
  <2>9. StopInv'
    BY <1>1, <2>1, <2>2, <2>5, StopStep DEF IInv, GoesOn
  <2>. QED
    BY <2>6, <2>7, <2>8, <2>9 DEF IInv
<1>4. CASE /\ \E valid \in BOOLEAN :
                 Stored(req[r].family, valid, IF req[r].family = "policy" THEN req[r].seen ELSE req[r].base)
           /\ End(r)
  <2> DEFINE rev == IF req[r].family = "policy" THEN req[r].seen ELSE req[r].base
  <2>1. rev \in 1 .. revision
    BY <1>1 DEF IInv, BasisInv, BasisOK
  <2>2. PICK valid \in BOOLEAN : Stored(req[r].family, valid, rev)
    BY <1>4
  <2> HIDE DEF rev
  <2>3. CASE req[r].family \in Family
    <3>1. Grows
      BY <1>1, <2>1, <2>2, <2>3, StoredGrows
    <3>. QED
      BY <1>1, <1>4, <3>1, LeaveStep
  <2>4. CASE req[r].family \notin Family
    <3>1. req[r].family = None
      BY <2>4 DEF IInv, TypeInv, RequestState
    <3>2. BasisOK(r) /\ req[r].kind = "preview"
      BY DEF IInv, BasisInv, EndPreview
    <3>. QED
      BY <3>1, <3>2 DEF BasisOK
  <2>. QED
    BY <2>3, <2>4
<1>. QED
  BY <1>2, <1>3, <1>4 DEF EndPreview

LEMMA StorePreviewStep ==
    ASSUME IInv, NEW r \in Request, StorePreview(r)
    PROVE  IInv'
<1>1. /\ UNCHANGED <<revision, locking, shutdown>> /\ req[r].phase = "storing" /\ End(r)
      /\ \E valid \in BOOLEAN : Stored("session", valid, req[r].base)
  BY DEF StorePreview, store
<1>2. req[r].base \in 1 .. revision /\ req[r].family = "session" /\ "session" \in Family
  BY <1>1, NoneAssumption DEF IInv, BasisInv, BasisOK, TypeInv, RequestState
<1>3. Grows
  BY <1>1, <1>2, StoredGrows
<1>4. lock # r
  BY <1>1 DEF IInv, LockInv, InLock
<1>. QED
  BY <1>1, <1>3, <1>4, EndStep DEF locking

LEMMA CommitStep ==
    ASSUME IInv, NEW r \in Request, Commit(r)
    PROVE  IInv'
<1>1. Grows
  BY BoundAssumption DEF IInv, TypeInv, Grows, Commit, previews
<1>. QED
  BY <1>1, LeaveStep DEF Commit, InLock

LEMMA EndSteps ==
    ASSUME IInv, NEW r \in Request, Refuse(r) \/ Undo(r) \/ LoseAgents(r)
    PROVE  IInv'
<1>1. Grows
  BY Unmoved DEF IInv, Refuse, Undo, LoseAgents, store, previews
<1>. QED
  BY <1>1, LeaveStep DEF Refuse, Undo, LoseAgents, InLock

LEMMA HangUpStep ==
    ASSUME IInv, NEW r \in Request, HangUp(r)
    PROVE  IInv'
<1>1. Grows /\ UNCHANGED <<revision, issued, locking, shutdown>>
  BY Unmoved DEF IInv, HangUp, store, previews
<1> DEFINE q == [req[r] EXCEPT !.here = FALSE]
<1>2. q \in RequestState /\ req[r] \in RequestState
  BY DEF IInv, TypeInv, RequestState
<1>3. OnlyMoves(r) /\ req'[r] = q
  BY <1>2 DEF HangUp, OnlyMoves, IInv, TypeInv
<1>4. /\ q.kind = req[r].kind /\ q.family = req[r].family /\ q.token = req[r].token
      /\ q.phase = req[r].phase /\ q.seen = req[r].seen /\ q.base = req[r].base
      /\ q.here = FALSE
  BY <1>2 DEF RequestState
<1> HIDE DEF q
<1>5. BasisOK(r)'
  <2>1. req[r].phase \notin Ended
    <3>1. req[r].phase \in Ended => req[r] = At(req[r].phase)
      BY DEF IInv, BasisInv, BasisOK
    <3>2. req[r].here # FALSE
      BY DEF HangUp
    <3>3. At(req[r].phase).here = FALSE
      BY DEF At
    <3>. QED
      BY <3>1, <3>2, <3>3
  <2>2. BasisOK(r) /\ Basis(r)' = Basis(r)
    BY <1>1, <1>3, <1>4 DEF IInv, BasisInv, Basis
  <2>. QED
    BY <1>1, <1>3, <1>4, <2>1, <2>2 DEF BasisOK
<1>6. TypeInv'
  BY <1>1, <1>3, TypeStep DEF IInv, locking
<1>7. LockInv'
  <2>1. \A s \in Request : req'[s].phase = req[s].phase /\ req'[s].kind = req[s].kind
    BY <1>3, <1>4 DEF OnlyMoves
  <2>2. lock' = lock /\ waiters' = waiters /\ \A i \in DOMAIN waiters : waiters[i] \in Request
    BY <1>1 DEF IInv, TypeInv, locking
  <2>. QED
    BY <2>1, <2>2 DEF IInv, LockInv, InLock
<1>8. BasisInv'
  BY <1>1, <1>3, <1>5, BasisStep DEF IInv
<1>9. StopInv'
  <2>1. InLock(r)' <=> InLock(r)
    BY <1>3, <1>4 DEF InLock
  <2>2. stopping # "no" /\ r = captured => req'[r].phase \in Locked \cup {"storing", "done"}
    BY <1>3, <1>4, NoneAssumption DEF IInv, StopInv
  <2>. QED
    BY <1>1, <1>3, <1>4, <2>1, <2>2, StopStep DEF IInv
<1>. QED
  BY <1>6, <1>7, <1>8, <1>9 DEF IInv

-----------------------------------------------------------------------------
(* The steps of no request.                                                *)

\* The requests and the lock stay, the inventory may have moved on.
LEMMA RequestsStay ==
    ASSUME IInv, UNCHANGED <<req, issued, locking>>, revision' \in revision .. MaxRevision
    PROVE  LockInv' /\ BasisInv'
<1>1. Grows
  BY DEF IInv, TypeInv, Grows
<1>2. LockInv'
  BY DEF IInv, LockInv, InLock, locking
<1>3. \A s \in Request : BasisOK(s)'
  BY <1>1, BasisStays DEF IInv, BasisInv
<1>4. \A t \in DOMAIN issued' : issued'[t].revision <= revision'
  <2> SUFFICES ASSUME NEW t \in DOMAIN issued PROVE issued[t].revision <= revision'
    OBVIOUS
  <2>1. issued[t].revision \in Nat
    <3>1. issued[t] \in [family : Family, revision : 1 .. MaxRevision]
      BY ElementOfSeq, LenProperties DEF IInv, TypeInv
    <3>. QED
      BY <3>1
  <2>. QED
    BY <2>1 DEF IInv, TypeInv, BasisInv
<1>. QED
  BY <1>2, <1>3, <1>4 DEF BasisInv

LEMMA TimeStep ==
    ASSUME IInv, Expire \/ EditLayout
    PROVE  IInv'
<1>1. revision' \in revision .. MaxRevision /\ UNCHANGED <<req, issued, locking, shutdown>>
  BY BoundAssumption DEF IInv, TypeInv, Expire, EditLayout, store, previews
<1>2. TypeInv' /\ StopInv'
  BY <1>1 DEF IInv, TypeInv, StopInv, InLock, locking, shutdown
<1>. QED
  BY <1>1, <1>2, RequestsStay DEF IInv

LEMMA ShutdownStep ==
    ASSUME IInv, Stop \/ Closing
    PROVE  IInv'
<1>1. UNCHANGED <<revision, req, issued, locking, lock, waiters>>
  BY DEF Stop, Closing, AwaitDeployment, AwaitSchedule, Exit, store, previews, locking
<1>2. \A s \in Request : InLock(s)' <=> InLock(s)
  BY <1>1 DEF InLock
<1>3. revision' \in revision .. MaxRevision
  BY <1>1 DEF IInv, TypeInv
<1>4. TypeInv'
  BY <1>1 DEF IInv, TypeInv, Stop, Closing, AwaitDeployment, AwaitSchedule, Exit
<1>5. StopInv'
  <2>1. CASE Stop
    <3>1. stopping' = "deployment" /\ captured' = lock
      BY <2>1 DEF Stop
    <3>2. \A s \in Request : InLock(s) => s = lock
      BY DEF IInv, LockInv
    <3>3. lock # None => req[lock].phase \in Locked
      BY DEF IInv, LockInv, TypeInv, InLock, Locked
    <3>. QED
      BY <1>1, <1>2, <3>1, <3>2, <3>3 DEF StopInv
  <2>2. CASE AwaitDeployment
    BY <1>1, <2>2 DEF IInv, StopInv, InLock, AwaitDeployment
  <2>3. CASE AwaitSchedule
    BY <1>1, <2>3 DEF IInv, StopInv, InLock, AwaitSchedule
  <2>4. CASE Exit
    BY <1>1, <2>4 DEF IInv, StopInv, InLock, Exit
  <2>. QED
    BY <2>1, <2>2, <2>3, <2>4 DEF Closing
<1>. QED
  BY <1>1, <1>3, <1>4, <1>5, RequestsStay DEF IInv

-----------------------------------------------------------------------------
(* The theorems.                                                           *)

LEMMA Initially == Init => IInv
<1> SUFFICES ASSUME Init PROVE IInv
  OBVIOUS
<1>1. issued = << >> /\ waiters = << >> /\ lock = None /\ stopping = "no" /\ captured = None
  BY DEF Init
<1>2. \A r \in Request : req[r] = At("idle") /\ At("idle") \in RequestState
  BY AtTyped DEF Init, Phase
<1>3. TypeInv
  BY <1>1, <1>2, BoundAssumption DEF Init, TypeInv
<1>4. LockInv
  BY <1>1, <1>2, NoneAssumption DEF LockInv, InLock, At
<1>5. BasisInv
  <2>1. ASSUME NEW r \in Request PROVE BasisOK(r)
    <3> DEFINE q == req[r]
    <3>0. req[r] = At("idle")
      BY <1>2
    <3>1. /\ q = At("idle") /\ q.phase = "idle" /\ q.kind = "none" /\ q.family = None
          /\ q.token = None /\ q.seen = None /\ q.base = None
      BY <3>0 DEF At
    <3>2. Basis(r) = None /\ q = At(q.phase)
      BY <3>1 DEF Basis
    <3> HIDE DEF q
    <3>. QED
      BY <3>1, <3>2, NoneAssumption DEF BasisOK, q
  <2>2. DOMAIN issued = {}
    BY <1>1
  <2>. QED
    BY <2>1, <2>2 DEF BasisInv
<1>6. StopInv
  BY <1>1 DEF StopInv
<1>. QED
  BY <1>3, <1>4, <1>5, <1>6 DEF IInv

LEMMA Inductive == IInv /\ [Next]_vars => IInv'
<1> SUFFICES ASSUME IInv, [Next]_vars PROVE IInv'
  OBVIOUS
<1>1. ASSUME NEW r \in Request, Step(r) PROVE IInv'
  BY <1>1, PrepareStep, EnterStep, WakeStep, BeginStep, CheckStep, EndPreviewStep, StorePreviewStep,
     SwitchStep, CommitStep, RetryStep, EndSteps DEF Step
<1>2. ASSUME NEW r \in Request, Send(r) \/ StartSync(r) \/ HangUp(r) PROVE IInv'
  BY <1>2, SendStep, StartSyncStep, HangUpStep
<1>3. CASE UNCHANGED vars
  BY <1>3 DEF vars, store, previews, locking, shutdown, IInv, TypeInv, LockInv, BasisInv, BasisOK, Basis,
              StopInv, InLock
<1>. QED
  BY <1>1, <1>2, <1>3, TimeStep, ShutdownStep DEF Next

LEMMA Invariant == Spec => []IInv
BY Initially, Inductive, PTL DEF Spec

\* What is committed is what was looked at: the look at the token before the
\* lock, the second look inside and the conditional commit leave no room for a
\* change in between, in whatever order requests, layout edits, expiry,
\* eviction and retries come.
THEOREM AppliedIsPreviewed == Spec => AppliedAsPreviewed
<1>1. IInv => \A r \in Request : Commit(r) /\ Basis(r) # None => revision = Basis(r)
  BY DEF IInv, BasisInv, BasisOK, Commit
<1>2. IInv /\ [Next]_vars =>
          [\A r \in Request : Commit(r) /\ Basis(r) # None => revision = Basis(r)]_vars
  BY <1>1
<1>. QED
  BY <1>2, Invariant, PTL DEF Spec, AppliedAsPreviewed

\* Shutdown waits for the operation it captured, for the schedule and for the
\* open connections: it cuts off only a removal whose client is gone.
THEOREM ExitSpares == Spec => []ExitSparesActive
<1>1. IInv => ExitSparesActive
  <2> SUFFICES ASSUME IInv, stopping = "exited", NEW r \in Request, InLock(r)
               PROVE  r # captured /\ req[r].kind = "removal" /\ ~req[r].here
    BY DEF ExitSparesActive
  <2>1. r # captured
    BY NoneAssumption DEF IInv, StopInv
  <2>. QED
    BY <2>1 DEF IInv, StopInv
<1>. QED
  BY <1>1, Invariant, PTL
=============================================================================
