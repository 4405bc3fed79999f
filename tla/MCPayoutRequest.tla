--------------------------- MODULE MCPayoutRequest ---------------------------
(***************************************************************************)
(* Claims for TLC: one staker, one policy of 2 that can expire, and two    *)
(* accounts that are the guardian council and the claims DAO in turn.      *)
(***************************************************************************)
EXTENDS PayoutRequest, TLC

CONSTANTS u1, holder, nobody, ssip, uno1, x, y

OneQuote == {[sender |-> holder, signedTime |-> 1,
              covers |-> <<[amount |-> 2, duration |-> 1]>>]}

MemberSymmetry == Permutations(Members)

\* the pool takes stakes and sells cover, and may be paused; nothing else
\* touches what a claim depends on
ClaimsNext ==
    \/ RequestNext
    \/ CouncilNext
    \/ /\ \/ BelowBound /\ \E amount \in Amounts : EnterInPool(u1, amount)
          \/ \E q \in Quotes : BuyPolicy(q)
          \/ \E id \in PolicyIds : ExpirePolicy(id)
          \/ \E isPaused \in BOOLEAN : SetPaused(isPaused)
          \/ Time
       /\ UNCHANGED <<councilVars, assertionVars>>

ClaimsSpec == PRInit /\ [][ClaimsNext]_allVars
=============================================================================
