----------------------------- MODULE MCEthPool -----------------------------
(***************************************************************************)
(* An instance of the ETH pool for TLC: two stakers, one policy, and       *)
(* payouts one inside the other.                                           *)
(***************************************************************************)
EXTENDS EthPool, TLC

CONSTANTS u1, u2, holder, nobody, ssip, eth

OneQuote == {[sender |-> holder, signedTime |-> 1,
              covers |-> <<[amount |-> 2, duration |-> 2]>>]}

StakerSymmetry == Permutations(Users)
=============================================================================
