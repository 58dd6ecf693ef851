-------------------------- MODULE MCChangeRecord --------------------------
(***************************************************************************)
(* Instances of ChangeRecord for TLC: two requirements, hence three        *)
(* batches, two of which overlap the third.                                *)
(***************************************************************************)
EXTENDS ChangeRecord, TLC

Symmetry == Permutations(Req)
=============================================================================
