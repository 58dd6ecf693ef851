-------------------------- MODULE MCChangeWaiver --------------------------
(***************************************************************************)
(* Instances of ChangeWaiver for TLC: a change of one requirement.         *)
(***************************************************************************)
EXTENDS ChangeWaiver, TLC

FewScopes == {<<"RECORD_MISSING">>, <<"PHASE_MISSING", "green">>} \cup ({"RED_UNPROVEN"} \X Req)
=============================================================================
