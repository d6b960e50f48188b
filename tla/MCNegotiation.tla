---------------------------- MODULE MCNegotiation ----------------------------
(***************************************************************************)
(* Negotiation for TLC.  100 and 102 have converged, 150 has not.          *)
(***************************************************************************)
EXTENDS Negotiation, TLC

RequestSymmetry == Permutations(Requests)
=============================================================================
