-------------------------- MODULE MCLeasedCommand --------------------------
(***************************************************************************)
(* A command whose operation makes two calls that run side by side; one of *)
(* them runs the child and makes a call of its own, as a release approval  *)
(* runs the gate and the gate the trace.  A second command contends for    *)
(* the lock.                                                               *)
(***************************************************************************)
EXTENDS LeasedCommand

CONSTANTS outer, left, right, inner, rival

MCParent == [t \in Task |-> CASE t \in {left, right} -> outer
                              [] t = inner -> left
                              [] OTHER -> None]
MCContext == [t \in Task |-> IF t = rival THEN rival ELSE outer]

\* Bounds: a behaviour has the second call of the command or the third level,
\* not both, and only the nested calls write.
MCNext ==
    /\ Next
    /\ pc'[right] = "idle" \/ pc'[inner] = "idle"
    /\ writing' \subseteq {left, right, inner}

MCSpec == Init /\ [][MCNext]_vars /\ Fairness
=============================================================================
