--------------------------- MODULE MCWalletScript ---------------------------
(***************************************************************************)
(* Four signers, two of whom must confirm; the script has two of the keys. *)
(***************************************************************************)
EXTENDS WalletScript

CONSTANTS s1, s2, s3, s4
=============================================================================
