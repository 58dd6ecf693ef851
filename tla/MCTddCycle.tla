---------------------------- MODULE MCTddCycle ----------------------------
(***************************************************************************)
(* Instances of TddCycle for TLC: every test verifies every requirement,   *)
(* and the first test is the one declared before any rename.               *)
(***************************************************************************)
EXTENDS TddCycle, TLC

CONSTANTS t1, t2

AllVerify == Test \X Req
Declared == {t1}
OneRename == {<<t1, t2>>}
Symmetry == Permutations(Req)
=============================================================================
