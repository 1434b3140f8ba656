--------------------------- MODULE MCResponseCache -------------------------
(* Instances of ResponseCache for TLC: each mutation beside each read it    *)
(* changes, and two at once, of which one comes from elsewhere, where its   *)
(* page loads the read again and where it edits it in place.                *)
EXTENDS ResponseCache, TLC

CONSTANTS m1, m2

MCExplored ==
  {[read |-> r, kind |-> [m \in {m1} |-> k]] : <<r, k>> \in
     {p \in Reads \X Kinds : p[1] \in Changes(p[2])}}
  \cup {[read |-> "/assignments", kind |-> m1 :> "submit" @@ m2 :> "join"],
        [read |-> "/support/inbox", kind |-> m1 :> "resolve" @@ m2 :> "issue"]}

MCSymmetry == Permutations(Gets)
=============================================================================
