------------------------------ MODULE RemoteCall ------------------------------
(* What a caller of a node relies on: a call takes effect at most once and *)
(* only while its caller waits, it is answered once, and the answer is     *)
(* honest - "done" only if it took effect, "refused" only if it did not.   *)
EXTENDS Naturals

CONSTANT Task

VARIABLES state,  \* per call: "new", "open", or how it was answered
          ran     \* per call: how often it was started

vars == <<state, ran>>

Init ==
    /\ state = [t \in Task |-> "new"]
    /\ ran = [t \in Task |-> 0]

Start(t) ==
    /\ state[t] = "open" /\ ran[t] = 0
    /\ ran' = [ran EXCEPT ![t] = 1]
    /\ UNCHANGED state

\* How a call may go on: it is made or turned away, and answered.
MayBecome(t) ==
    CASE state[t] = "new" -> {"new", "open", "refused"}
      [] state[t] = "open" ->
            {"open", "unknown"} \cup (IF ran[t] = 0 THEN {"refused"} ELSE {"done"})
      [] OTHER -> {state[t]}

\* One step may answer several calls.
Progress ==
    /\ \A t \in Task : state'[t] \in MayBecome(t)
    /\ UNCHANGED ran

Next == Progress \/ \E t \in Task : Start(t)

Spec == Init /\ [][Next]_vars

=============================================================================
