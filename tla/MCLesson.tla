------------------------------ MODULE MCLesson ------------------------------
(* Instances of Lesson for TLC: a text with a knowledge check, and a check   *)
(* whose content names no answer.                                           *)
EXTENDS Lesson, TLC

CONSTANTS a1, a2, c1, c2

MCCourse == a1 :> <<"text", "quiz">> @@ a2 :> <<"keyless">>

\* The two presses of a button are alike.
MCSymmetry == Permutations({c1, c2})

\* Posters are scanned by learners who have sent no completion: neither page
\* reads what the other writes.
MCApart ==
  \/ \A v \in 1 .. Visits : visits[v] = "none"
  \/ accepted = {} /\ \A c \in Calls : calls[c] = Idle

\* At most two kinds of completion are taken, and two calls overlap only after
\* a straight attempt.  Of the journey it matters that it is loaded.
MCFew ==
  /\ Cardinality(accepted) <= 2
  /\ (\A c \in Calls : calls[c] # Idle) => \A c \in Calls : ~calls[c].back
  /\ journey \in {Unset, [a \in Activities |-> "not-started"]}
=============================================================================
