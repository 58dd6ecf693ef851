--------------------------- MODULE ExclusiveLock ---------------------------
(***************************************************************************)
(* What the evidence-writer lock promises when recoveries do not overlap:  *)
(* one holder at a time, work only while holding, and a holder that is     *)
(* replaced only by giving the lock up or by being dead.                   *)
(***************************************************************************)
CONSTANTS Command, None

VARIABLES
    holder,   \* the command that owns the project, or None
    working,  \* commands inside their operation
    alive     \* alive[c]: the process of c exists

vars == <<holder, working, alive>>

Init ==
    /\ working = {}
    /\ alive \in [Command -> BOOLEAN]
    /\ holder \in {c \in Command : ~alive[c]} \cup {None}

Take(c) ==
    /\ alive[c]
    /\ holder = None
    /\ holder' = c
    /\ UNCHANGED <<working, alive>>

Enter(c) ==
    /\ alive[c]
    /\ holder = c
    /\ working' = working \cup {c}
    /\ UNCHANGED <<holder, alive>>

Leave(c) ==
    /\ c \in working
    /\ working' = working \ {c}
    /\ UNCHANGED <<holder, alive>>

Give(c) ==
    /\ alive[c]
    /\ holder = c
    /\ c \notin working
    /\ holder' = None
    /\ UNCHANGED <<working, alive>>

\* Recovery: only the lock of a dead holder.
Reclaim ==
    /\ holder # None
    /\ ~alive[holder]
    /\ holder' = None
    /\ UNCHANGED <<working, alive>>

Die(c) ==
    /\ alive[c]
    /\ alive' = [alive EXCEPT ![c] = FALSE]
    /\ working' = working \ {c}
    /\ UNCHANGED holder

Next ==
    \/ Reclaim
    \/ \E c \in Command : Take(c) \/ Enter(c) \/ Leave(c) \/ Give(c) \/ Die(c)

Spec == Init /\ [][Next]_vars
=============================================================================
