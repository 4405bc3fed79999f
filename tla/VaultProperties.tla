-------------------------- MODULE VaultProperties --------------------------
(***************************************************************************)
(* What holds of the accounts of a RiskPool.                               *)
(***************************************************************************)
EXTENDS RiskPool, Functions

\* A withdraw request never covers more LP tokens than its user holds, however
\* requests, transfers, partial withdrawals, cancellations and migrations
\* follow one another: the burn of a withdrawal (RiskPoolERC20._withdrawImplement)
\* and the subtraction in RiskPool.transfer depend on it.
PendingWithinStake == \A u \in Users : pendingAmount(u) <= balances[u]

\* The two totals of the RiskPool are the sums of the accounts they stand for;
\* a payout divides by the first, getTotalWithdrawRequestAmount answers the other.
LedgerSums ==
    /\ totalSupply = SumFunction(balances)
    /\ totalWithdrawPending = SumFunction([u \in Users |-> pendingAmount(u)])

\* By how much the LP tokens at their price exceed the vault, times ONE.
Shortfall == totalSupply * lpPriceUno - cryptoBalance * ONE
=============================================================================
