---------------------------- MODULE MCAgentBroker ----------------------------
(* Small instances of AgentBroker for TLC.                                 *)
EXTENDS AgentBroker, TLC

\* Tasks of the same kind differ in nothing, nor do connections.
Symmetry ==
    Permutations(Background) \cup Permutations(Task \ Background) \cup Permutations(Poll)

=============================================================================
