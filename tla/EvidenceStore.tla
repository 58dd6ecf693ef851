--------------------------- MODULE EvidenceStore ---------------------------
(***************************************************************************)
(* What evidence commands promise their readers: single files change one   *)
(* at a time, and a merge or a refresh changes all its files in one step,  *)
(* whoever is killed and whenever.  A power loss leaves each file or takes *)
(* it back to what was durable of it; a file that an ordinary writer wrote *)
(* last may be torn by it, one that a merge or a refresh wrote may not.    *)
(***************************************************************************)
EXTENDS Naturals

CONSTANTS Target, Optional, MaxOps, Absent, Torn, PowerLoss

VARIABLES
    view,    \* the evidence, as a reader let in would find it
    durable, \* the same, as of the last fsync
    loose    \* the files a power loss may tear

vars == <<view, durable, loose>>

Init ==
    /\ \E present \in SUBSET Optional :
          view = [t \in Target |-> IF t \in Optional \ present THEN Absent ELSE 0]
    /\ durable = view
    /\ loose = {}

\* The content is not fsynced.
Record(t, v) ==
    /\ view' = [view EXCEPT ![t] = v]
    /\ loose' = loose \cup {t}
    /\ UNCHANGED durable

ReplaceAll(files, v) ==
    /\ view' = [t \in Target |-> IF t \in files THEN v ELSE view[t]]
    /\ UNCHANGED <<durable, loose>>

\* The present contents, or of single files only, become durable.
Sync ==
    /\ durable' \in {durable, view}
    /\ loose' \in SUBSET loose
    /\ UNCHANGED view

LosePower ==
    /\ PowerLoss
    /\ \E kept \in SUBSET Target, torn \in SUBSET loose :
          view' = [t \in Target |-> IF t \in torn THEN Torn
                                    ELSE IF t \in kept THEN view[t] ELSE durable[t]]
    /\ durable' = view'
    /\ loose' = {}

Next ==
    \/ Sync \/ LosePower
    \/ \E v \in 1..MaxOps :
          \/ \E t \in Target : Record(t, v)
          \/ \E files \in SUBSET Target : ReplaceAll(files, v)

Spec == Init /\ [][Next]_vars
=============================================================================
