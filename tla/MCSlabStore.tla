---------------------------- MODULE MCSlabStore -----------------------------
(***************************************************************************)
(* Instances of SlabStore for TLC.                                         *)
(***************************************************************************)
EXTENDS SlabStore, TLC

\* Neither objects nor threads are told apart.
Symmetry == Permutations(Objs) \cup Permutations(Threads)
=============================================================================
