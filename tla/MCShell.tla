------------------------------ MODULE MCShell ------------------------------
(* Instances of Shell for TLC.                                              *)
EXTENDS Shell, TLC

MCSymmetry == Permutations(Records) \cup Permutations(Flushes)
=============================================================================
