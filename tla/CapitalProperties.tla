-------------------------- MODULE CapitalProperties --------------------------
(***************************************************************************)
(* What the CapitalAgent guarantees about its book, whatever the pools     *)
(* report to it.                                                           *)
(***************************************************************************)
EXTENDS CapitalSystem, CoverProperties

\* The capital of a currency is the sum over the pools that stake it, through
\* stakes, withdrawals, payouts and the removal and addition of pools: the
\* capital rules compare the one with the other.
CapitalIsSumOfPools ==
    \A c \in Currencies :
       totalCapitalStakedByCurrency[c] =
         SumFunction([p \in {q \in Pools : poolInfo[q].currency = c} |->
                        poolInfo[p].totalCapital])

\* The utilised coverage, against which sales are limited, is the coverage of
\* the policies that are neither claimed nor expired: each is counted once, and
\* released once, whether it is paid out, closed by the admin or expires.
UtilizedIsActiveCover ==
    /\ totalUtilizedAmount = policyInfo.utilizedAmount
    /\ totalUtilizedAmount =
         SumFunction([id \in {i \in PolicyIds : Active(i)} |-> coverage(id)])
=============================================================================
