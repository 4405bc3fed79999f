------------------------------ MODULE EthPool ------------------------------
(***************************************************************************)
(* The settlement of a claim by a pool whose currency is ETH.  settlePayout *)
(* carries no nonReentrant, and policyClaim pays before it sets the price  *)
(* of the LP token: the code of the payee runs in between, and may use the *)
(* pool, the policies and the claims as anyone may.  So a settlement is    *)
(* two steps here, and `payouts` are those whose payee's code is running.  *)
(*                                                                         *)
(* A behaviour in which the innermost payout cannot end stands for a       *)
(* transaction that is reverted, and says nothing of the pool; the state   *)
(* it began in was there before.  Rewards are not in this model: the       *)
(* reward currency of such a pool is another one than what is staked.      *)
(* Nor are migration and emergency withdrawal, see SSIP: the admin allows  *)
(* them, and the second is not reported to the agent.                      *)
(***************************************************************************)
EXTENDS SSIPProperties, SequencesExt

CONSTANT MaxNested  \* bound: payouts running at once

ASSUME NestedAssumption == MaxNested \in Nat

VARIABLE payouts
    \* calls of policyClaim, the innermost last: the policy, the local variable
    \* cryptoBalance as it was before the payment, and what was paid

Payout == [id : PolicyIds, before : Nat, paid : Nat]

ethVars == <<vars, payouts>>

EthTypeOK == TypeOK /\ payouts \in Seq(Payout)

EthInit == Init /\ payouts = <<>>

-----------------------------------------------------------------------------
\* settlePayout, and policyClaim until the payment
BeginPayout(id, amount) ==
    /\ Len(payouts) < MaxNested
    /\ WhenNotPaused /\ IsAlive
    /\ totalSupply > 0
    /\ cryptoBalance > MIN_LP_CAPITAL
    /\ cryptoBalance' = cryptoBalance - RealClaimAmount(amount)
    /\ payouts' = Append(payouts, [id |-> id, before |-> cryptoBalance,
                                   paid |-> RealClaimAmount(amount)])
    /\ UNCHANGED <<now, spVars, caVars, stakerVars, balances, totalSupply, lpPriceUno,
                   withdrawRequestPerUser, totalWithdrawPending, MIN_LP_CAPITAL>>

\* the rest of policyClaim, which reads the vault again, and of settlePayout
\* (deviations first: the vault is not read again; what the vault lost is
\* reported instead of what was paid)
EndPayoutAtReadBalance ==
    /\ payouts # <<>>
    /\ totalSupply > 0
    /\ lpPriceUno' = ((Last(payouts).before - Last(payouts).paid) * ONE) \div totalSupply
    /\ SSIPPolicyClaim(ThisPool, Last(payouts).paid, Last(payouts).id)
    /\ payouts' = Front(payouts)
    /\ UNCHANGED <<now, stakerVars, balances, totalSupply, cryptoBalance,
                   withdrawRequestPerUser, totalWithdrawPending, MIN_LP_CAPITAL>>

EndPayoutReportingLoss ==
    /\ payouts # <<>>
    /\ totalSupply > 0
    /\ lpPriceUno' = (cryptoBalance * ONE) \div totalSupply
    /\ Last(payouts).before >= cryptoBalance
    /\ SSIPPolicyClaim(ThisPool, Last(payouts).before - cryptoBalance, Last(payouts).id)
    /\ payouts' = Front(payouts)
    /\ UNCHANGED <<now, stakerVars, balances, totalSupply, cryptoBalance,
                   withdrawRequestPerUser, totalWithdrawPending, MIN_LP_CAPITAL>>

EndPayout ==
    /\ payouts # <<>>
    /\ totalSupply > 0
    /\ lpPriceUno' = (cryptoBalance * ONE) \div totalSupply
    /\ SSIPPolicyClaim(ThisPool, Last(payouts).paid, Last(payouts).id)
    /\ payouts' = Front(payouts)
    /\ UNCHANGED <<now, stakerVars, balances, totalSupply, cryptoBalance,
                   withdrawRequestPerUser, totalWithdrawPending, MIN_LP_CAPITAL>>

\* what anyone may call, the payee's code included
PublicNext ==
    /\ \/ StakerNext
       \/ \E q \in Quotes : BuyPolicy(q)
       \/ \E id \in PolicyIds : ExpirePolicy(id)
    /\ UNCHANGED payouts

\* what happens only between transactions
BetweenNext ==
    /\ payouts = <<>>
    /\ Time \/ \E id \in PolicyIds : AdminClaim(id)
    /\ UNCHANGED payouts

EthNext ==
    \/ PublicNext
    \/ BetweenNext
    \/ \E id \in PolicyIds, amount \in Amounts : BeginPayout(id, amount)
    \/ EndPayout

EthSpec == EthInit /\ [][EthNext]_ethVars

-----------------------------------------------------------------------------
\* What the agent's book has on top of the vault is what the payouts under way
\* have paid and not reported (SingleSidedInsurancePool.sol:493-494), however
\* stakes, withdrawals and further payouts are nested in them: when the last one
\* ends the book is the vault.
BookIsVaultAndPayouts ==
    poolInfo[ThisPool].totalCapital
      = cryptoBalance + SumFunction([i \in DOMAIN payouts |-> payouts[i].paid])

\* A payout ends with a price the vault can honour, for all LP tokens there are
\* by then (RiskPool.sol:135-136), also those the payee's code made or burned at
\* the old price.
PayoutLeavesNoShortfall ==
    [][Len(payouts') < Len(payouts) => Shortfall' <= 0]_ethVars
=============================================================================
