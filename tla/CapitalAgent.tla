---------------------------- MODULE CapitalAgent ----------------------------
(***************************************************************************)
(* The CapitalAgent contract: the book of the capital staked in every      *)
(* pool and of the coverage sold against it.  A pool reports each stake,   *)
(* withdrawal and payout; the SalesPolicy reports each sale.  The agent    *)
(* refuses a withdrawal that would leave too little capital (MCR, SCR), a  *)
(* sale beyond the leverage limit (MLR), and a payout beyond the coverage. *)
(*                                                                         *)
(* One operator per function: SSIP composes them with a pool, and          *)
(* CapitalSystem makes the agent a system of its own.                      *)
(***************************************************************************)
EXTENDS SalesPolicy, FiniteSets

CONSTANTS
    Pools,             \* addresses of insurance pools
    Currencies,        \* staking currencies
    CALC_PRECISION,    \* the unit of MCR and MLR, 1e18 in the code
    RATE,              \* the unit of an exchange rate to USDC
    Rates              \* bound of the model: the rates the price feed may give

ASSUME CapitalAssumption ==
    /\ CALC_PRECISION \in Nat \ {0}
    /\ RATE \in Nat \ {0}
    /\ Rates \subseteq Nat

ASSUME PoolsAssumption == IsFiniteSet(Pools)

VARIABLES
    poolInfo,                      \* [Pools -> PoolInfo]
    existedCurrencies,             \* the currencies of currencyList
    totalCapitalStakedByCurrency,  \* [Currencies -> Nat]
    policyInfo,                    \* the sales policy: set or not, and its coverage
    totalUtilizedAmount,           \* coverage sold and not yet closed
    MCR, MLR,                      \* minimum capital and maximum leverage ratios
    poolWhiteList,                 \* the pools that may add themselves
    claimedAmount,                 \* [PolicyIds -> Nat], paid out so far, in USDC
    usdcRate                       \* [Currencies -> Rates], the price feed

caBook == <<poolInfo, existedCurrencies, totalCapitalStakedByCurrency>>
caParams == <<MCR, MLR, poolWhiteList, usdcRate>>
caCover == <<policyInfo, totalUtilizedAmount, claimedAmount>>
caVars == <<caBook, caParams, caCover>>

CATypeOK ==
    /\ poolInfo \in [Pools -> [totalCapital : Nat, SCR : Nat, currency : Currencies,
                               exist : BOOLEAN, totalWithdrawPendingCapital : Nat]]
    /\ existedCurrencies \subseteq Currencies
    /\ totalCapitalStakedByCurrency \in [Currencies -> Nat]
    /\ policyInfo \in [utilizedAmount : Nat, exist : BOOLEAN]
    /\ totalUtilizedAmount \in Nat
    /\ MCR \in Nat /\ MLR \in Nat
    /\ poolWhiteList \subseteq Pools
    /\ claimedAmount \in [PolicyIds -> Nat]
    /\ usdcRate \in [Currencies -> Nat]

-----------------------------------------------------------------------------
(* Conversion and the three capital rules.                                 *)

\* _convertTokenToUSDC: what the price feed answers, rounded down
ToUSDC(currency, amount) == (amount * usdcRate[currency]) \div RATE

\* _getTotalCapitalStakedInUSDC
TotalCapitalStakedInUSDC ==
    SumFunction([c \in existedCurrencies |-> ToUSDC(c, totalCapitalStakedByCurrency[c])])

\* _checkCapitalByMCRAndSCR, whose subtractions are checked
CheckCapitalByMCR(pool, amount) ==
    LET c       == poolInfo[pool].currency
        staked  == totalCapitalStakedByCurrency[c]
        pending == poolInfo[pool].totalWithdrawPendingCapital
    IN  /\ staked >= amount
        /\ poolInfo[pool].totalCapital >= amount
        /\ ToUSDC(c, staked) >= ToUSDC(c, pending)
        /\ ToUSDC(c, staked - amount) >=
             ((ToUSDC(c, staked) - ToUSDC(c, pending)) * MCR) \div CALC_PRECISION
        /\ ToUSDC(c, poolInfo[pool].totalCapital - amount) >= poolInfo[pool].SCR

CheckCoverageByMLR(amount) ==
    totalUtilizedAmount + amount <=
      (TotalCapitalStakedInUSDC * MLR) \div CALC_PRECISION

-----------------------------------------------------------------------------
(* What a pool reports.  `pool` is msg.sender.                             *)

IncreaseCapital(pool, amount) ==
    /\ poolInfo' = [poolInfo EXCEPT ![pool].totalCapital = @ + amount]
    /\ totalCapitalStakedByCurrency' =
         [totalCapitalStakedByCurrency EXCEPT ![poolInfo[pool].currency] = @ + amount]

\* a decrease also releases `released` of the pending capital
DecreaseCapital(pool, amount, released) ==
    /\ poolInfo[pool].totalCapital >= amount
    /\ totalCapitalStakedByCurrency[poolInfo[pool].currency] >= amount
    /\ poolInfo' = [poolInfo EXCEPT ![pool] =
                      [poolInfo[pool] EXCEPT !.totalCapital = @ - amount,
                                             !.totalWithdrawPendingCapital = @ - released]]
    /\ totalCapitalStakedByCurrency' =
         [totalCapitalStakedByCurrency EXCEPT ![poolInfo[pool].currency] = @ - amount]

SSIPStaking(pool, amount) ==
    /\ poolInfo[pool].exist
    /\ IncreaseCapital(pool, amount)
    /\ UNCHANGED <<existedCurrencies, caParams, caCover>>

SSIPWithdraw(pool, amount) ==
    /\ poolInfo[pool].exist
    /\ CheckCapitalByMCR(pool, amount)
    /\ poolInfo[pool].totalWithdrawPendingCapital >= amount
    /\ DecreaseCapital(pool, amount, amount)
    /\ UNCHANGED <<existedCurrencies, caParams, caCover>>

\* deviation: the subtraction is not checked
UncheckedPendingCapital(caller, pool, amount, isAdd) ==
    /\ poolInfo[caller].exist
    /\ poolInfo' = [poolInfo EXCEPT ![pool].totalWithdrawPendingCapital =
                                      IF isAdd THEN @ + amount ELSE @ - amount]
    /\ UNCHANGED <<existedCurrencies, totalCapitalStakedByCurrency, caParams, caCover>>

\* `caller` is msg.sender; the pool whose figure changes need not be listed
UpdatePoolWithdrawPendingCapital(caller, pool, amount, isAdd) ==
    /\ poolInfo[caller].exist
    /\ ~ isAdd => poolInfo[pool].totalWithdrawPendingCapital >= amount
    /\ poolInfo' = [poolInfo EXCEPT ![pool].totalWithdrawPendingCapital =
                                      IF isAdd THEN @ + amount ELSE @ - amount]
    /\ UNCHANGED <<existedCurrencies, totalCapitalStakedByCurrency, caParams, caCover>>

-----------------------------------------------------------------------------
(* The coverage sold: sales, expiries and payouts.                         *)

ReleaseCoverage(amount) ==
    /\ policyInfo.utilizedAmount >= amount
    /\ totalUtilizedAmount >= amount
    /\ policyInfo' = [policyInfo EXCEPT !.utilizedAmount = @ - amount]
    /\ totalUtilizedAmount' = totalUtilizedAmount - amount

\* called by the SalesPolicy at the end of a purchase, unless it covers nothing
PolicySale(amount) ==
    IF amount = 0
    THEN UNCHANGED caVars
    ELSE /\ policyInfo.exist
         /\ CheckCoverageByMLR(amount)
         /\ policyInfo' = [policyInfo EXCEPT !.utilizedAmount = @ + amount]
         /\ totalUtilizedAmount' = totalUtilizedAmount + amount
         /\ UNCHANGED <<claimedAmount, caBook, caParams>>

\* updatePolicyStatus on a policy whose duration is over; on any other it
\* does nothing
Expired(id) == now >= getPolicy[id].coverageDuration + getPolicy[id].coverStartAt

UpdatePolicyStatus(id) ==
    /\ policyInfo.exist
    /\ Expired(id)
    /\ ReleaseCoverage(coverage(id))
    /\ SPUpdatePolicyExpired(id)
    /\ UNCHANGED <<claimedAmount, caBook, caParams>>

MarkToClaimPolicy(id) ==
    /\ policyInfo.exist
    /\ ReleaseCoverage(coverage(id))
    /\ SPMarkToClaim(id)

\* SSIPPolicyCaim of a payout: the capital leaves the pool, the policy is
\* charged, and closed when its coverage is used up
ClaimInUSDC(pool, amount) == ToUSDC(poolInfo[pool].currency, amount)

\* deviation: a payout is compared with the coverage on its own
CoversThisPayout(pool, amount, id) == coverage(id) >= ClaimInUSDC(pool, amount)

CoversPayout(pool, amount, id) ==
    coverage(id) >= ClaimInUSDC(pool, amount) + claimedAmount[id]

UsesUpCoverage(pool, amount, id) ==
    coverage(id) <= ClaimInUSDC(pool, amount) + claimedAmount[id]

SSIPPolicyClaim(pool, amount, id) ==
    /\ poolInfo[pool].exist
    /\ policyInfo.exist
    /\ DecreaseCapital(pool, amount, 0)
    /\ CoversPayout(pool, amount, id)
    /\ claimedAmount' = [claimedAmount EXCEPT ![id] = @ + ClaimInUSDC(pool, amount)]
    /\ IF UsesUpCoverage(pool, amount, id)
         THEN MarkToClaimPolicy(id)
         ELSE UNCHANGED <<policyInfo, totalUtilizedAmount, spVars>>
    /\ UNCHANGED <<existedCurrencies, caParams>>

\* SSIPPolicyCaim of a migration: only the capital moves
SSIPMigrated(pool, amount) ==
    /\ poolInfo[pool].exist
    /\ DecreaseCapital(pool, amount, 0)
    /\ UNCHANGED <<existedCurrencies, caParams, caCover>>

-----------------------------------------------------------------------------
(* Administration, by ADMIN_ROLE and the operator.                         *)

SetPoolWhiteList(pool, isListed) ==
    /\ (pool \in poolWhiteList) # isListed
    /\ poolWhiteList' = IF isListed THEN poolWhiteList \cup {pool}
                                    ELSE poolWhiteList \ {pool}
    /\ UNCHANGED <<caBook, caCover, MCR, MLR, usdcRate>>

NoPool(currency, scr, exists) ==
    [totalCapital |-> 0, SCR |-> scr, currency |-> currency, exist |-> exists,
     totalWithdrawPendingCapital |-> 0]

\* addPoolByAdmin; addPool is the same from a whitelisted caller
AddPoolByAdmin(pool, currency, scr) ==
    /\ ~ poolInfo[pool].exist
    /\ existedCurrencies' = existedCurrencies \cup {currency}
    /\ poolInfo' = [poolInfo EXCEPT ![pool] = NoPool(currency, scr, TRUE)]
    /\ UNCHANGED <<totalCapitalStakedByCurrency, caParams, caCover>>

AddPool(pool, currency, scr) ==
    /\ pool \in poolWhiteList
    /\ AddPoolByAdmin(pool, currency, scr)

\* delete leaves the zero record, whose currency is the zero address; the
\* model keeps the currency, which no function reads while exist is FALSE
\* (deviation first: the currency keeps the capital of the removed pool)
RemovePoolKeepingTotal(pool) ==
    /\ poolInfo[pool].exist
    /\ poolInfo' = [poolInfo EXCEPT ![pool] = NoPool(@.currency, 0, FALSE)]
    /\ UNCHANGED <<existedCurrencies, totalCapitalStakedByCurrency, caParams, caCover>>

RemovePool(pool) ==
    LET c == poolInfo[pool].currency
    IN  /\ poolInfo[pool].exist
        /\ totalCapitalStakedByCurrency[c] >= poolInfo[pool].totalCapital
        /\ totalCapitalStakedByCurrency' =
             [totalCapitalStakedByCurrency EXCEPT ![c] = @ - poolInfo[pool].totalCapital]
        /\ poolInfo' = [poolInfo EXCEPT ![pool] = NoPool(c, 0, FALSE)]
        /\ UNCHANGED <<existedCurrencies, caParams, caCover>>

\* overwrites the currency's total with the one pool's capital
SetPoolCapital(pool, capital) ==
    /\ poolInfo[pool].exist
    /\ totalCapitalStakedByCurrency' =
         [totalCapitalStakedByCurrency EXCEPT ![poolInfo[pool].currency] = capital]
    /\ poolInfo' = [poolInfo EXCEPT ![pool].totalCapital = capital]
    /\ UNCHANGED <<existedCurrencies, caParams, caCover>>

\* A SalesPolicy contract without any policy: the accounts of the model are
\* those of the contract that is registered, and claimedAmount is kept per
\* contract.
FreshSalesPolicy ==
    /\ getPolicy' = [id \in PolicyIds |-> ZeroPolicy]
    /\ policyIdx' = 0
    /\ ownerOf' = [id \in PolicyIds |-> NoOwner]
    /\ usedHash' = {}
    /\ salesPaused' = FALSE
    /\ claimedAmount' = [id \in PolicyIds |-> 0]

\* setPolicy, called by the factory for the contract it has just created
SetPolicy ==
    /\ ~ policyInfo.exist
    /\ policyInfo' = [utilizedAmount |-> 0, exist |-> TRUE]
    /\ FreshSalesPolicy
    /\ UNCHANGED <<totalUtilizedAmount, caBook, caParams>>

\* setPolicyByAdmin names a new contract, or the one the model keeps
SetPolicyByAdmin ==
    /\ policyInfo' = [utilizedAmount |-> 0, exist |-> TRUE]
    /\ FreshSalesPolicy \/ UNCHANGED <<spVars, claimedAmount>>
    /\ UNCHANGED <<totalUtilizedAmount, caBook, caParams>>

RemovePolicy ==
    /\ policyInfo.exist
    /\ policyInfo' = [utilizedAmount |-> 0, exist |-> FALSE]
    /\ totalUtilizedAmount' = 0
    /\ UNCHANGED <<claimedAmount, caBook, caParams>>

\* markToClaimPolicy, by ADMIN_ROLE
AdminMarkToClaimPolicy(id) ==
    /\ MarkToClaimPolicy(id)
    /\ UNCHANGED <<claimedAmount, caBook, caParams>>

SetMCR(ratio) ==
    /\ MCR' = ratio
    /\ UNCHANGED <<caBook, caCover, MLR, poolWhiteList, usdcRate>>

SetMLR(ratio) ==
    /\ MLR' = ratio
    /\ UNCHANGED <<caBook, caCover, MCR, poolWhiteList, usdcRate>>

SetSCR(pool, scr) ==
    /\ poolInfo' = [poolInfo EXCEPT ![pool].SCR = scr]
    /\ UNCHANGED <<existedCurrencies, totalCapitalStakedByCurrency, caParams, caCover>>

\* the price feed moves
RateMoves(currency, rate) ==
    /\ usdcRate' = [usdcRate EXCEPT ![currency] = rate]
    /\ UNCHANGED <<caBook, caCover, MCR, MLR, poolWhiteList>>
=============================================================================
