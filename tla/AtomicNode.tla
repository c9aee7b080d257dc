------------------------------ MODULE AtomicNode ------------------------------
(***************************************************************************)
(* What one remote call promises the controller: bird.apply and            *)
(* bird.rollback change a node as a whole or not at all.  This is how      *)
(* Deployment sees a node (ApplyTakesEffect, ApplyRestored,                *)
(* RollbackTakesEffect); NodeFiles shows how far the agent keeps to it.    *)
(***************************************************************************)
CONSTANTS
    Bundle,     \* the configurations a node may be given
    None

VARIABLES
    conf,       \* the configuration the node has
    saved,      \* the one it would go back to, if any
    broken      \* a file operation failed, the agent died in a call or a call that
                \* never started was rolled back; always without an agent

vars == <<conf, saved, broken>>

Init == conf \in Bundle /\ saved = None /\ broken \in BOOLEAN

\* A call that takes effect keeps what it replaces.
Apply == conf' \in Bundle /\ saved' = conf

\* A call that fails restores what was there, with the copy already made.
ApplyRestored == saved' = conf /\ UNCHANGED conf

Rollback == saved # None /\ conf' = saved /\ UNCHANGED saved

\* Nothing is promised of a node that has once been broken.
Next ==
    \/ broken' = TRUE
    \/ broken' = broken /\ (Apply \/ ApplyRestored \/ Rollback)

Spec == Init /\ [][Next]_vars
=============================================================================
