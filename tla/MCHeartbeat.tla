---------------------------- MODULE MCHeartbeat ----------------------------
(* Heartbeat for TLC.  Two callers of Live are alike.                      *)
EXTENDS Heartbeat, TLC

Symmetric == Permutations(Callers)

=============================================================================
