--------------------------- MODULE MCWriterLock ---------------------------
(***************************************************************************)
(* Instances of WriterLock for TLC.                                        *)
(***************************************************************************)
EXTENDS WriterLock, TLC

Symmetry == Permutations(Command \ Former) \cup Permutations(Recoverer)
=============================================================================
