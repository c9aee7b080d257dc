------------------------------ MODULE MCRequests ------------------------------
(* A small instance of Requests for TLC.                                   *)
EXTENDS Requests
=============================================================================
