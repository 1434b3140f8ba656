---------------------------- MODULE ScoreLedger ----------------------------
(***************************************************************************)
(* What the completion engine promises a learner, without rows, progress,  *)
(* transactions or clocks: a best score per activity, that a batch of      *)
(* attempts of one learner may raise and nothing ever lowers               *)
(* (applyCompletion: "best-score semantics").                              *)
(***************************************************************************)
EXTENDS Integers

CONSTANTS Learners, Activities,
          Scores       \* what an attempt can score, naturals

Unscored == -1

VARIABLE best   \* Learners -> Activities -> the best score, or Unscored

Init == best = [l \in Learners |-> [a \in Activities |-> Unscored]]

\* A batch holds at most the best of its attempts at each activity.
Batches == [Activities -> Scores \cup {Unscored}]

Record(l, batch) ==
  best' = [best EXCEPT ![l] =
    [a \in Activities |-> IF batch[a] > best[l][a] THEN batch[a] ELSE best[l][a]]]

Next == \E l \in Learners, batch \in Batches : Record(l, batch)

Spec == Init /\ [][Next]_best
=============================================================================
