---------------------------- MODULE MCClassroom ----------------------------
(* Instances of Classroom for TLC: two classes, one assignment each.        *)
EXTENDS Classroom, TLC

CONSTANTS w1, w2, g1, g2

MCClassOf == w1 :> g1 @@ w2 :> g2
MCSymmetry == Permutations(Calls)
=============================================================================
