---------------------------- MODULE MCTxScripts ----------------------------
(***************************************************************************)
(* The two scripts, each run up to three times.                            *)
(***************************************************************************)
EXTENDS TxScripts

CONSTANTS u1, u2, u3
=============================================================================
