-------------------------- MODULE MCCapitalSystem --------------------------
(***************************************************************************)
(* Instances of the capital agent for TLC, and a quote that sells a bundle *)
(* of two policies.                                                        *)
(***************************************************************************)
EXTENDS CapitalProperties, TLC

CONSTANTS p1, p2, holder, other, nobody, usd

Line(amount, duration) == [amount |-> amount, duration |-> duration]

OneBundle == {[sender |-> holder, signedTime |-> 1, covers |-> <<Line(1, 1), Line(2, 2)>>]}

PoolSymmetry == Permutations(Pools)
=============================================================================
