---------------------------- MODULE MCDeployment ----------------------------
(* Small instances of Deployment for TLC.                                  *)
EXTENDS Deployment, TLC

Symmetry == Permutations(Node) \cup Permutations(Config)

=============================================================================
