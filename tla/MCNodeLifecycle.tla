--------------------------- MODULE MCNodeLifecycle ---------------------------
(* A small instance of NodeLifecycle for TLC.                              *)
EXTENDS NodeLifecycle, TLC
Symmetric == Permutations(Request)
=============================================================================
