----------------------------- MODULE MCSession -----------------------------
(* Instances of Session for TLC: two students share a device.               *)
EXTENDS Session

MCRole == [u \in Users |-> "STUDENT"]
=============================================================================
