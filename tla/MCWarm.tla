------------------------------- MODULE MCWarm -------------------------------
(***************************************************************************)
(* WarmSessions for TLC: Runs of two Sessions, one warm copy allowed.      *)
(***************************************************************************)
EXTENDS WarmSessions, TLC

CONSTANTS r1, r2, i1, e1, A, B

WarmLoad(active, calls, fails, foreign, drains) ==
  [active |-> active, calls |-> calls, fails |-> fails, foreign |-> foreign,
   drains |-> drains]

\* r1 and r2 are Runs of A, i1 is a Run of B, and e1 compacts A.
MCLoads ==
  { WarmLoad(0, {r1, i1}, 0, 0, 0),
    WarmLoad(1, {r1, i1}, 0, 0, 1),
    WarmLoad(1, {r1, r2}, 1, 0, 0),
    WarmLoad(0, {r1, e1}, 0, 1, 0) }

MCSessionOf == r1 :> A @@ r2 :> A @@ i1 :> B @@ e1 :> A

ASSUME WarmAssumption
=============================================================================
