------------------------- MODULE MCCompletionEngine -------------------------
(* An instance of CompletionEngine for TLC.  A day is two units long, so    *)
(* that a zone offset of one moves midnight; the client clock is believed   *)
(* one unit back and one ahead.                                             *)
EXTENDS CompletionEngine, TLC

\* A new learner: no rows yet.
MCFresh == {Blank}

\* Clients report when the work was done: at the start, or a day before.
MCStamps == {0, -1}

MCSymmetry == Permutations(Activities)
=============================================================================
