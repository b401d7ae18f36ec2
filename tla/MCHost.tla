------------------------------- MODULE MCHost -------------------------------
(***************************************************************************)
(* HostRuns for TLC, on loads of a few calls at a time.                    *)
(***************************************************************************)
EXTENDS HostRuns

CONSTANTS r1, r2, m1, m2, i1, e1

Load(wait, queue, calls, stops, cancels, fails, drains) ==
  [wait |-> wait, queue |-> queue, calls |-> calls, stops |-> stops,
   cancels |-> cancels, fails |-> fails, drains |-> drains]

MCLoads ==
  { Load(TRUE,  2, {r1, m1, m2}, 0, 0, 0, 0),
    Load(FALSE, 1, {r1, i1, m1}, 0, 0, 0, 0),
    Load(TRUE,  2, {r1, r2, m1}, 0, 0, 0, 0),
    Load(TRUE,  2, {r1, m1},     1, 0, 0, 0),
    Load(FALSE, 2, {r1, m1},     0, 1, 0, 0),
    Load(TRUE,  2, {r1, i1},     0, 1, 1, 0),
    Load(TRUE,  2, {r1, m1},     0, 0, 0, 1),
    Load(TRUE,  2, {r1, r2},     0, 0, 0, 1),
    Load(TRUE,  2, {r1, e1},     0, 1, 0, 1),
    Load(TRUE,  2, {r1, r2, e1}, 0, 1, 0, 0),
    Load(FALSE, 2, {r1, r2, e1}, 0, 0, 0, 0) }
=============================================================================
