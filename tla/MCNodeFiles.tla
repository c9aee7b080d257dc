----------------------------- MODULE MCNodeFiles -----------------------------
(* A small instance of NodeFiles for TLC.                                  *)
EXTENDS NodeFiles
CONSTANTS r, s, t1, t2, t3

\* One resource; another main text with it (a session); a new main text with a
\* new text for it and a second resource.
Config(m, x, y) == [p \in {Main, r, s} |-> CASE p = Main -> m [] p = r -> x [] p = s -> y]
MCBundle == {Config(t1, t1, None), Config(t2, t1, None), Config(t3, t2, t1)}
=============================================================================
