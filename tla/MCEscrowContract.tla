-------------------------- MODULE MCEscrowContract ---------------------------
(***************************************************************************)
(* A small instance of EscrowContract: payments of none to three units, to *)
(* the application or elsewhere, against an escrow of two.                 *)
(***************************************************************************)
EXTENDS EscrowContract

SmallPayments == [receiver : {"app", "other"}, amount : 0..3]
==============================================================================
