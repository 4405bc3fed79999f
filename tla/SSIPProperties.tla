--------------------------- MODULE SSIPProperties ---------------------------
(***************************************************************************)
(* What the pool promises to its stakers and to the policy holders.  The   *)
(* accounts of a stake are kept four times: the pool's userInfo, the       *)
(* RiskPool's LP tokens, its currency, and the CapitalAgent's book.  Most  *)
(* of what follows relates them.                                           *)
(***************************************************************************)
EXTENDS SSIP, CoverProperties, VaultProperties

-----------------------------------------------------------------------------
(* The accounts agree.                                                     *)

\* The stake the pool records for a user is the user's balance of LP tokens,
\* although the pool computes it from prices it reads and the RiskPool mints,
\* burns and transfers on its own.
StakeIsLp == \A u \in Users : userInfo[u].amount = balances[u]

\* The capital the CapitalAgent has on its book for the pool is what the vault
\* holds: every payment in or out of the RiskPool is reported in full.
CapitalIsVault == poolInfo[ThisPool].totalCapital = cryptoBalance

-----------------------------------------------------------------------------
(* The vault can honour what it owes.                                      *)

\* The LP tokens come to be worth more than the vault holds, or worth more beyond
\* it, only when a withdrawal takes all that is available (RiskPool.sol:89-96), and
\* then by less than the price of one token; such rests may add up until the next
\* payout sets the price.  Stakes, transfers, other withdrawals, migrations (which
\* pay twice) and payouts all divide in the vault's favour.  Excepted are
\* emergencyWithdraw, which pays a stake and leaves its tokens (RiskPool.sol:142-152),
\* and the admin functions that overwrite an account.
ShortfallOnlyWhenEmptied ==
    [][\/ Shortfall' <= 0
       \/ Shortfall' <= Shortfall
       \/ /\ cryptoBalance' < cryptoBalance
          /\ cryptoBalance' = MIN_LP_CAPITAL
          /\ Shortfall' < Shortfall + lpPriceUno'
       \/ \E u \in Users : EmergencyWithdraw(u)
       \/ OverrideNext]_vars

\* No withdrawal, claim or migration takes the vault below MIN_LP_CAPITAL, also
\* when the amount asked for is above what is available: of a migration, which
\* pays the request and moves the rest, the two together.  emergencyWithdraw alone
\* does not look at the reserve.
ReserveKept ==
    [][\/ cryptoBalance' >= cryptoBalance
       \/ cryptoBalance' >= MIN_LP_CAPITAL
       \/ \E u \in Users : EmergencyWithdraw(u)]_vars

\* While the pool is paused no tokens, no request and no currency of the vault move,
\* by whichever of the contract's functions, but for what the admin overwrites.
PausedPoolHolds ==
    [][paused => \/ UNCHANGED <<balances, withdrawRequestPerUser, cryptoBalance>>
                 \/ OverrideNext]_vars

\* What leaves the vault of a killed pool goes to the staker who withdraws it: stakers
\* may leave (leaveFromPending and emergencyWithdraw carry no isAlive), but the vault
\* pays no claim, moves no stake to another pool and takes no new one.
KilledPoolPaysStakers ==
    [][killed /\ cryptoBalance' # cryptoBalance
         => \E u \in Users : /\ cryptoBalance' < cryptoBalance
                            /\ uno'[u] - uno[u] >= cryptoBalance - cryptoBalance']_vars

\* A withdraw request is paid only when lockTime has passed since the user's
\* last request of all: adding to a request restarts the wait, and no transfer,
\* cancellation or second request gets round it.
WithdrawalWaits ==
    [][totalWithdrawPending' < totalWithdrawPending /\ cryptoBalance' < cryptoBalance
         => \E u \in Users :
              /\ pendingAmount(u) > 0
              /\ withdrawRequestPerUser'[u] = NoRequest
              /\ now - withdrawRequestPerUser[u].requestTime >= lockTime]_vars

-----------------------------------------------------------------------------
(* Rewards.                                                                *)

\* What a user's stake has earned beyond the reward debt, times ACC_UNO_PRECISION:
\* nothing as long as the debt is the larger.
Earned(u) == userInfo[u].amount * accUnoPerShare - userInfo[u].rewardDebt * ACC_UNO_PRECISION
Owed(u) == IF Earned(u) > 0 THEN Earned(u) ELSE 0

\* What all stakers together may still harvest.
Entitled == SumFunction([u \in Users |-> Owed(u)])

\* Staking, transferring, requesting, withdrawing and the payout of claims create
\* no reward: in any step but the Rewarder's own, what is paid and what is still
\* owed grow by the emission of the blocks that passed at most, up to one unit of
\* rounding per user.
RewardsOnlyFromEmission ==
    [][\/ RewarderNext
       \/ Entitled' + (rewarderBalance - rewarderBalance') * ACC_UNO_PRECISION
            <= Entitled
                 + (lastRewardBlock' - lastRewardBlock) * unoMultiplierPerBlock * ACC_UNO_PRECISION
                 + Cardinality(Users) * ACC_UNO_PRECISION]_vars

-----------------------------------------------------------------------------
(* What the comments of the code promise.                                  *)

\* "user can cancel its pending withdraw request" (SingleSidedInsurancePool.sol:446)
\* as long as the pool is neither paused nor killed.
CancelAlwaysPossible ==
    \A u \in Users :
       pendingAmount(u) > 0 /\ WhenNotPaused /\ IsAlive => ENABLED CancelWithdrawRequest(u)
=============================================================================
