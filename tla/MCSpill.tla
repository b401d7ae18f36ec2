------------------------------- MODULE MCSpill -------------------------------
(* A result, a fork that inherits it, a parent that is deleted and created *)
(* again, and one read.                                                    *)
EXTENDS SpilledResults

MCSpillLoads ==
  {[results |-> 1, segments |-> 1, forks |-> 1, prunes |-> 0, deletes |-> 1, reads |-> 1, loads |-> 0]}
=============================================================================
