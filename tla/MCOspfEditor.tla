----------------------------- MODULE MCOspfEditor -----------------------------
(* A small instance of OspfEditor for TLC.                                 *)
EXTENDS OspfEditor
=============================================================================
