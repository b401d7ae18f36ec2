------------------------------ MODULE MCClaims ------------------------------
(* SessionClaims for TLC: interchangeable names.                           *)
EXTENDS SessionClaims, TLC

Symmetric == Permutations(Name)

=============================================================================
