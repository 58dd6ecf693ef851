------------------------ MODULE MCWorkflowEvidence ------------------------
(***************************************************************************)
(* Instances of WorkflowEvidence for TLC: two sessions.                    *)
(***************************************************************************)
EXTENDS WorkflowEvidence, TLC

CONSTANTS s1, s2

MCSessions == <<s1, s2>>
MCFileSets == {{s1}, {s1, s2}}
Symmetry == Permutations(Skill)
=============================================================================
