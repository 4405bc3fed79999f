---------------------------- MODULE CapitalSystem ----------------------------
(***************************************************************************)
(* The CapitalAgent with its SalesPolicy and several pools.  A pool here   *)
(* is any contract registered as one: it may report any stake, withdrawal, *)
(* payout or migration at any time, as far as the agent accepts it.  What  *)
(* holds here holds whatever the pools do.                                 *)
(***************************************************************************)
EXTENDS CapitalAgent

CONSTANTS
    Amounts,      \* bound: the amounts pools report, and SCR values
    Ratios,       \* bound: the values of MCR and MLR
    MaxCapital    \* bound: the capital and the pending capital of a pool

ASSUME SystemAssumption ==
    /\ Amounts \subseteq Nat
    /\ Ratios \subseteq Nat

vars == <<now, spVars, caVars>>

TypeOK == now \in Nat /\ SPTypeOK /\ CATypeOK

Init ==
    /\ now = 1
    /\ SPInit
    /\ \E c \in Currencies : poolInfo = [p \in Pools |-> NoPool(c, 0, FALSE)]
    /\ existedCurrencies = {}
    /\ totalCapitalStakedByCurrency = [c \in Currencies |-> 0]
    /\ policyInfo = [utilizedAmount |-> 0, exist |-> FALSE]
    /\ totalUtilizedAmount = 0
    /\ MCR = 0 /\ MLR = 0
    /\ poolWhiteList = {}
    /\ claimedAmount = [id \in PolicyIds |-> 0]
    /\ usdcRate \in [Currencies -> Rates]

-----------------------------------------------------------------------------
chainOnly == <<now, spVars>>

Stake(p, amount) ==
    /\ poolInfo[p].totalCapital + amount <= MaxCapital
    /\ SSIPStaking(p, amount)
    /\ UNCHANGED chainOnly

Withdraw(p, amount) == SSIPWithdraw(p, amount) /\ UNCHANGED chainOnly

\* any registered pool `caller` may name any pool
Pending(caller, p, amount, isAdd) ==
    /\ isAdd => poolInfo[p].totalWithdrawPendingCapital + amount <= MaxCapital
    /\ UpdatePoolWithdrawPendingCapital(caller, p, amount, isAdd)
    /\ UNCHANGED chainOnly

Claim(p, amount, id) == SSIPPolicyClaim(p, amount, id) /\ UNCHANGED now

Migrated(p, amount) == SSIPMigrated(p, amount) /\ UNCHANGED chainOnly

PoolNext ==
    \E p \in Pools, amount \in Amounts :
        \/ Stake(p, amount)
        \/ Withdraw(p, amount)
        \/ \E caller \in Pools, isAdd \in BOOLEAN : Pending(caller, p, amount, isAdd)
        \/ \E id \in PolicyIds : Claim(p, amount, id)
        \/ Migrated(p, amount)

BuyPolicy(q) == SPBuyPolicy(q) /\ PolicySale(CoverTotal(q)) /\ UNCHANGED now

UpdateStatus(id) == UpdatePolicyStatus(id) /\ UNCHANGED now

TransferPolicy(id, to) == SPTransferPolicy(id, to) /\ UNCHANGED <<now, caVars>>

PolicyNext ==
    \/ \E q \in Quotes : BuyPolicy(q)
    \/ \E id \in PolicyIds : UpdateStatus(id)
    \/ \E id \in PolicyIds, to \in Holders : TransferPolicy(id, to)

\* Administration that keeps the books: nothing here overwrites an account.
AdminNext ==
    /\ \/ \E p \in Pools, isListed \in BOOLEAN : SetPoolWhiteList(p, isListed)
       \/ \E p \in Pools, c \in Currencies, scr \in Amounts :
             AddPool(p, c, scr) \/ AddPoolByAdmin(p, c, scr)
       \/ \E p \in Pools : RemovePool(p)
       \/ \E p \in Pools, scr \in Amounts : SetSCR(p, scr)
       \/ \E ratio \in Ratios : SetMCR(ratio) \/ SetMLR(ratio)
       \/ \E c \in Currencies, rate \in Rates : RateMoves(c, rate)
    /\ UNCHANGED chainOnly

NewSalesPolicy == SetPolicy /\ UNCHANGED now

AdminClaim(id) == AdminMarkToClaimPolicy(id) /\ UNCHANGED now

SetSalesPaused(isPaused) == SPSetPaused(isPaused) /\ UNCHANGED <<now, caVars>>

Clock == Tick /\ UNCHANGED <<spVars, caVars>>

\* The functions by which the admin replaces a figure of the book.
OverrideNext ==
    /\ \/ \E p \in Pools, capital \in Amounts : SetPoolCapital(p, capital)
       \/ RemovePolicy
    /\ UNCHANGED chainOnly

ReplacePolicy == SetPolicyByAdmin /\ UNCHANGED now

OrdinaryNext ==
    \/ PoolNext
    \/ PolicyNext
    \/ AdminNext
    \/ NewSalesPolicy
    \/ \E id \in PolicyIds : AdminClaim(id)
    \/ \E isPaused \in BOOLEAN : SetSalesPaused(isPaused)
    \/ Clock

Next == OrdinaryNext \/ OverrideNext \/ ReplacePolicy

Spec == Init /\ [][Next]_vars

\* The agent while no figure of its book is overwritten.
OrdinarySpec == Init /\ [][OrdinaryNext]_vars
=============================================================================
