----------------------------- MODULE MCOdosSwap -----------------------------
(***************************************************************************)
(* Three swaps of up to two units, of two tokens, and one fault.           *)
(***************************************************************************)
EXTENDS OdosSwap

CONSTANTS p1, p2, p3
=============================================================================
