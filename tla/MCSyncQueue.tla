---------------------------- MODULE MCSyncQueue ----------------------------
(* Instances of SyncQueue for TLC: one completion endpoint and one          *)
(* submission endpoint are enough, records of different endpoints meet only *)
(* in the order a flush takes them.                                         *)
EXTENDS SyncQueue, TLC

CONSTANTS c1, c2, f1, f2, ann, bob, worse, better

\* The two bodies differ in accuracy; for a submission they are two drafts.
MCAccuracy == [b \in Bodies |-> IF b = better THEN 2 ELSE 1]

MCNoImports == {}
MCImports == [ep : Completions \cup Credentials, body : {better}, auth : Users]

MCSymmetry == Permutations(Callers) \cup Permutations(Flushers)
=============================================================================
