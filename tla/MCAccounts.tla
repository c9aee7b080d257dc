------------------------------ MODULE MCAccounts ------------------------------
(* A small instance of Accounts for TLC.                                   *)
EXTENDS Accounts, TLC

\* Calls differ in nothing before they are made, nor do passwords.
Symmetry == Permutations(Call) \cup Permutations(Password)
=============================================================================
