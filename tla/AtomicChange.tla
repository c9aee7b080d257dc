---------------------------- MODULE AtomicChange ----------------------------
(* What a deployment promises, whatever steps it takes: the configurations *)
(* in the inventory and those on the nodes change together.  While a       *)
(* change is open a node may run its old or its new configuration; the     *)
(* inventory moves to the new ones only when every node runs them, and a   *)
(* change is over only when every node runs what the inventory says.       *)
CONSTANTS Node, Config, None

VARIABLES committed,  \* per node: its configuration in the inventory
          running,    \* per node: the configuration it runs
          change      \* the open change, or None

vars == <<committed, running, change>>

OpenChange == [from : [Node -> Config], to : [Node -> Config]]

TypeOK ==
    /\ committed \in [Node -> Config]
    /\ running \in [Node -> Config]
    /\ change \in OpenChange \cup {None}

Init ==
    /\ committed \in [Node -> Config]
    /\ running = committed
    /\ change = None

Open(to) ==
    /\ change = None
    /\ change' = [from |-> committed, to |-> to]
    /\ UNCHANGED <<committed, running>>

Switch(n) ==
    /\ change # None
    /\ running' \in {[running EXCEPT ![n] = change.from[n]],
                     [running EXCEPT ![n] = change.to[n]]}
    /\ UNCHANGED <<committed, change>>

Commit ==
    /\ change # None
    /\ running = change.to
    /\ committed' = change.to
    /\ UNCHANGED <<running, change>>

Close ==
    /\ change # None
    /\ running = committed
    /\ change' = None
    /\ UNCHANGED <<committed, running>>

Next ==
    \/ \E to \in [Node -> Config] : Open(to)
    \/ \E n \in Node : Switch(n)
    \/ Commit
    \/ Close

Spec == Init /\ [][Next]_vars

=============================================================================
