---------------------------- MODULE CapitalProofs ----------------------------
(***************************************************************************)
(* Theorems about the CapitalAgent among arbitrary pools, for every number *)
(* of pools, currencies and policies and every value of the units.         *)
(***************************************************************************)
EXTENDS CapitalProperties, AgentLemmas

\* A pool reports.
LEMMA PoolStep ==
    ASSUME TypeOK, CoverInv, PoolNext
    PROVE  TypeOK' /\ CoverInv'
  <1> USE SystemAssumption
  <1>1. PICK p \in Pools, amount \in Amounts :
           \/ Stake(p, amount)
           \/ Withdraw(p, amount)
           \/ \E caller \in Pools, isAdd \in BOOLEAN : Pending(caller, p, amount, isAdd)
           \/ \E id \in PolicyIds : Claim(p, amount, id)
           \/ Migrated(p, amount)
    BY DEF PoolNext
  <1>2. CASE Stake(p, amount)
    <2>1. SSIPStaking(p, amount) /\ UNCHANGED chainOnly
      BY <1>2 DEF Stake
    <2>2. UNCHANGED claimedAmount
      BY <2>1 DEF SSIPStaking, caCover
    <2> QED  BY <2>1, <2>2, StakingType, CoverUnchanged DEF TypeOK, SPTypeOK, chainOnly, spVars
  <1>3. CASE Withdraw(p, amount)
    <2>1. SSIPWithdraw(p, amount) /\ UNCHANGED chainOnly
      BY <1>3 DEF Withdraw
    <2>2. UNCHANGED claimedAmount
      BY <2>1 DEF SSIPWithdraw, caCover
    <2> QED  BY <2>1, <2>2, WithdrawType, CoverUnchanged DEF TypeOK, SPTypeOK, chainOnly, spVars
  <1>4. CASE \E caller \in Pools, isAdd \in BOOLEAN : Pending(caller, p, amount, isAdd)
    <2>1. PICK caller \in Pools, isAdd \in BOOLEAN :
                 UpdatePoolWithdrawPendingCapital(caller, p, amount, isAdd)
      BY <1>4 DEF Pending
    <2>2. UNCHANGED chainOnly
      BY <1>4 DEF Pending
    <2>3. UNCHANGED claimedAmount
      BY <2>1 DEF UpdatePoolWithdrawPendingCapital, caCover
    <2> QED  BY <2>1, <2>2, <2>3, PendingType, CoverUnchanged
             DEF TypeOK, SPTypeOK, chainOnly, spVars
  <1>5. CASE \E id \in PolicyIds : Claim(p, amount, id)
    <2>1. PICK id \in PolicyIds : SSIPPolicyClaim(p, amount, id) /\ UNCHANGED now
      BY <1>5 DEF Claim
    <2> QED  BY <2>1, PolicyClaimType, CoverPaid DEF TypeOK
  <1>6. CASE Migrated(p, amount)
    <2>1. SSIPMigrated(p, amount) /\ UNCHANGED chainOnly
      BY <1>6 DEF Migrated
    <2>2. UNCHANGED claimedAmount
      BY <2>1 DEF SSIPMigrated, caCover
    <2> QED  BY <2>1, <2>2, MigratedType, CoverUnchanged DEF TypeOK, SPTypeOK, chainOnly, spVars
  <1> QED  BY <1>1, <1>2, <1>3, <1>4, <1>5, <1>6

\* A policy is bought, expires or changes hands.
LEMMA PolicyStep ==
    ASSUME TypeOK, CoverInv, PolicyNext
    PROVE  TypeOK' /\ CoverInv'
  <1>1. CASE \E q \in Quotes : BuyPolicy(q)
    <2>1. PICK q \in Quotes : SPBuyPolicy(q) /\ PolicySale(CoverTotal(q)) /\ UNCHANGED now
      BY <1>1 DEF BuyPolicy
    <2>2. CoverTotal(q) \in Nat
      BY CoverTotalNat
    <2>3. UNCHANGED claimedAmount
      BY <2>1 DEF PolicySale, caVars, caCover
    <2> QED  BY <2>1, <2>2, <2>3, BuyType, SaleType, CoverSold DEF TypeOK
  <1>2. CASE \E id \in PolicyIds : UpdateStatus(id)
    <2>1. PICK id \in PolicyIds : UpdatePolicyStatus(id) /\ UNCHANGED now
      BY <1>2 DEF UpdateStatus
    <2> QED  BY <2>1, StatusType, CoverReleased DEF TypeOK
  <1>3. CASE \E id \in PolicyIds, to \in Holders : TransferPolicy(id, to)
    <2>1. PICK id \in PolicyIds, to \in Holders :
             SPTransferPolicy(id, to) /\ UNCHANGED <<now, caVars>>
      BY <1>3 DEF TransferPolicy
    <2>2. UNCHANGED claimedAmount
      BY <2>1 DEF caVars, caCover
    <2>3. SPTypeOK'
      BY <2>1 DEF SPTransferPolicy, TypeOK, SPTypeOK
    <2>4. CATypeOK'
      BY <2>1 DEF TypeOK, CATypeOK, caVars, caBook, caParams, caCover
    <2> QED  BY <2>1, <2>2, <2>3, <2>4, CoverTransferred DEF TypeOK
  <1> QED  BY <1>1, <1>2, <1>3 DEF PolicyNext

\* Administration that changes no policy.
LEMMA AdminStep ==
    ASSUME TypeOK, CoverInv, AdminNext \/ OverrideNext
    PROVE  TypeOK' /\ CoverInv'
  <1> USE SystemAssumption
  <1>1. UNCHANGED chainOnly
    BY DEF AdminNext, OverrideNext
  <1>2. CATypeOK' /\ UNCHANGED claimedAmount
    <2>1. CASE \E p \in Pools, isListed \in BOOLEAN : SetPoolWhiteList(p, isListed)
      <3>1. PICK p \in Pools : \E isListed \in BOOLEAN : SetPoolWhiteList(p, isListed)
        BY <2>1
      <3>2. Currencies # {}
        BY <3>1 DEF TypeOK, CATypeOK
      <3> QED  BY <3>1, <3>2, ParameterType DEF TypeOK, SetPoolWhiteList, caCover
    <2>2. CASE \E p \in Pools, c \in Currencies, scr \in Amounts :
                  AddPool(p, c, scr) \/ AddPoolByAdmin(p, c, scr)
      BY <2>2, AddPoolType DEF TypeOK, AddPool, AddPoolByAdmin, caCover
    <2>3. CASE \E p \in Pools : RemovePool(p)
      BY <2>3, RemovePoolType DEF TypeOK, RemovePool, caCover
    <2>4. CASE \E p \in Pools, scr \in Amounts : SetSCR(p, scr)
      BY <2>4 DEF TypeOK, CATypeOK, SetSCR, caParams, caCover
    <2>5. CASE \E ratio \in Ratios : SetMCR(ratio) \/ SetMLR(ratio)
      BY <2>5 DEF TypeOK, CATypeOK, SetMCR, SetMLR, caBook, caCover
    <2>6. CASE \E c \in Currencies, rate \in Rates : RateMoves(c, rate)
      BY <2>6, CapitalAssumption DEF TypeOK, CATypeOK, RateMoves, caBook, caCover
    <2>7. CASE \E p \in Pools, capital \in Amounts : SetPoolCapital(p, capital)
      BY <2>7, SetPoolCapitalType DEF TypeOK, SetPoolCapital, caCover
    <2>8. CASE RemovePolicy
      BY <2>8 DEF TypeOK, CATypeOK, RemovePolicy, caBook, caParams
    <2> QED  BY <2>1, <2>2, <2>3, <2>4, <2>5, <2>6, <2>7, <2>8 DEF AdminNext, OverrideNext
  <1> QED  BY <1>1, <1>2, CoverUnchanged DEF TypeOK, SPTypeOK, chainOnly, spVars

\* The remaining steps: the sales policy is replaced, closed or paused, and time.
LEMMA OtherStep ==
    ASSUME TypeOK, CoverInv,
           \/ NewSalesPolicy \/ ReplacePolicy
           \/ \E id \in PolicyIds : AdminClaim(id)
           \/ \E isPaused \in BOOLEAN : SetSalesPaused(isPaused)
           \/ Clock
    PROVE  TypeOK' /\ CoverInv'
  <1>1. CASE NewSalesPolicy \/ ReplacePolicy
    <2>1. (SetPolicy \/ SetPolicyByAdmin) /\ UNCHANGED now
      BY <1>1 DEF NewSalesPolicy, ReplacePolicy
    <2>2. FreshSalesPolicy \/ UNCHANGED <<spVars, claimedAmount>>
      BY <2>1, Zenon DEF SetPolicy, SetPolicyByAdmin
    <2> QED  BY <2>1, <2>2, ReplacePolicyType, CoverFresh, CoverUnchanged DEF TypeOK
  <1>2. CASE \E id \in PolicyIds : AdminClaim(id)
    <2>1. PICK id \in PolicyIds : AdminMarkToClaimPolicy(id) /\ UNCHANGED now
      BY <1>2 DEF AdminClaim
    <2> QED  BY <2>1, AdminClaimType, CoverReleased DEF TypeOK
  <1>3. CASE \E isPaused \in BOOLEAN : SetSalesPaused(isPaused)
    <2>1. PICK isPaused \in BOOLEAN : SPSetPaused(isPaused) /\ UNCHANGED <<now, caVars>>
      BY <1>3 DEF SetSalesPaused
    <2>2. SPTypeOK'
      BY <2>1 DEF SPSetPaused, TypeOK, SPTypeOK
    <2>3. CATypeOK'
      BY <2>1 DEF TypeOK, CATypeOK, caVars, caBook, caParams, caCover
    <2>4. CoverInv'
      BY <2>1 DEF SPSetPaused, caVars, caCover, CoverInv, ClaimsWithinCoverage,
                  FullyPaidIsClosed, TokenIsActive, UnsoldIsBlank, coverage, Active
    <2> QED  BY <2>1, <2>2, <2>3, <2>4 DEF TypeOK
  <1>4. CASE Clock
    <2>1. UNCHANGED <<spVars, caVars>> /\ now' = now + 1
      BY <1>4 DEF Clock, Tick
    <2>2. UNCHANGED claimedAmount
      BY <2>1 DEF caVars, caCover
    <2>3. SPTypeOK' /\ CATypeOK'
      BY <2>1 DEF TypeOK, SPTypeOK, CATypeOK, spVars, caVars, caBook, caParams, caCover
    <2> QED  BY <2>1, <2>2, <2>3, CoverUnchanged DEF TypeOK
  <1> QED  BY <1>1, <1>2, <1>3, <1>4

-----------------------------------------------------------------------------
\* The invariant holds after the deployment of the CapitalAgent.
LEMMA InitInv == Init => TypeOK /\ CoverInv
  <1> SUFFICES ASSUME Init PROVE TypeOK /\ CoverInv
    OBVIOUS
  <1>1. PICK c \in Currencies : poolInfo = [p \in Pools |-> NoPool(c, 0, FALSE)]
    BY DEF Init
  <1>2. SPTypeOK
    <2>1. getPolicy \in [PolicyIds -> [coverStartAt : Nat, coverageDuration : Nat,
                                       coverageAmount : Nat,
                                       exist : BOOLEAN, expired : BOOLEAN]]
      BY DEF Init, SPInit, ZeroPolicy
    <2>2. policyIdx \in 0 .. MaxPolicies
      BY SalesAssumption DEF Init, SPInit
    <2> QED  BY <2>1, <2>2 DEF Init, SPInit, SPTypeOK
  <1>3. CATypeOK
    BY <1>1, CapitalAssumption DEF Init, CATypeOK, NoPool
  <1>4. CoverInv
    BY DEF Init, SPInit, CoverInv, ClaimsWithinCoverage, FullyPaidIsClosed, TokenIsActive,
           UnsoldIsBlank, coverage, Active, ZeroPolicy
  <1> QED  BY <1>2, <1>3, <1>4 DEF Init, TypeOK

\* Every step of the agent keeps the invariant.
LEMMA NextInv == TypeOK /\ CoverInv /\ [Next]_vars => TypeOK' /\ CoverInv'
  <1> SUFFICES ASSUME TypeOK, CoverInv, [Next]_vars PROVE TypeOK' /\ CoverInv'
    OBVIOUS
  <1>1. CASE UNCHANGED vars
    <2>1. UNCHANGED <<now, spVars, caVars, claimedAmount>>
      BY <1>1 DEF vars, caVars, caCover
    <2>2. TypeOK'
      BY <2>1 DEF TypeOK, SPTypeOK, CATypeOK, spVars, caVars, caBook, caParams, caCover
    <2> QED  BY <2>1, <2>2, CoverUnchanged
  <1>2. CASE Next
    BY <1>2, PoolStep, PolicyStep, AdminStep, OtherStep DEF Next, OrdinaryNext
  <1> QED  BY <1>1, <1>2

\* Every account stays a natural number: no subtraction of the agent, checked
\* or not, ever takes one below zero.
THEOREM TypeCorrect == Spec => []TypeOK
  <1>1. Init => TypeOK /\ CoverInv  BY InitInv
  <1>2. TypeOK /\ CoverInv /\ [Next]_vars => (TypeOK /\ CoverInv)'  BY NextInv
  <1> QED  BY <1>1, <1>2, PTL DEF Spec

\* No policy is ever paid more than its coverage.
THEOREM ClaimsStayWithinCoverage == Spec => []ClaimsWithinCoverage
  <1>1. Init => TypeOK /\ CoverInv  BY InitInv
  <1>2. TypeOK /\ CoverInv /\ [Next]_vars => (TypeOK /\ CoverInv)'  BY NextInv
  <1>3. CoverInv => ClaimsWithinCoverage  BY DEF CoverInv
  <1> QED  BY <1>1, <1>2, <1>3, PTL DEF Spec

\* A policy whose coverage is used up is closed, and stays so.
THEOREM FullyPaidStaysClosed == Spec => []FullyPaidIsClosed
  <1>1. Init => TypeOK /\ CoverInv  BY InitInv
  <1>2. TypeOK /\ CoverInv /\ [Next]_vars => (TypeOK /\ CoverInv)'  BY NextInv
  <1>3. CoverInv => FullyPaidIsClosed  BY DEF CoverInv
  <1> QED  BY <1>1, <1>2, <1>3, PTL DEF Spec

\* A policy's token exists exactly while the policy is active.
THEOREM TokenFollowsPolicy == Spec => []TokenIsActive
  <1>1. Init => TypeOK /\ CoverInv  BY InitInv
  <1>2. TypeOK /\ CoverInv /\ [Next]_vars => (TypeOK /\ CoverInv)'  BY NextInv
  <1>3. CoverInv => TokenIsActive  BY DEF CoverInv
  <1> QED  BY <1>1, <1>2, <1>3, PTL DEF Spec
-----------------------------------------------------------------------------
(* The sums of the book.                                                   *)

\* What pool p counts for in the capital of currency c.
CapitalIn(info, c) == [p \in Pools |-> IF info[p].currency = c THEN info[p].totalCapital ELSE 0]

\* What policy id counts for in the utilised coverage.
Utilized(policies) ==
    [id \in PolicyIds |-> IF policies[id].exist /\ ~ policies[id].expired
                          THEN policies[id].coverageAmount ELSE 0]

\* A pool that is not registered has no capital: addPool starts it at 0.
UnlistedIsEmpty == \A p \in Pools : ~ poolInfo[p].exist => poolInfo[p].totalCapital = 0

\* Without a sales policy there is no coverage for setPolicy to forget.
NoCoverWithoutPolicy == ~ policyInfo.exist => totalUtilizedAmount = 0

BookInv ==
    /\ TypeOK /\ CoverInv
    /\ CapitalIsSumOfPools /\ UnlistedIsEmpty
    /\ UtilizedIsActiveCover /\ NoCoverWithoutPolicy

PolicyType == [coverStartAt : Nat, coverageDuration : Nat, coverageAmount : Nat,
               exist : BOOLEAN, expired : BOOLEAN]

\* The capital of a currency, as a sum over all pools.
LEMMA CapitalAsSum ==
    ASSUME NEW info \in [Pools -> PoolType], NEW c \in Currencies
    PROVE  /\ \A p \in Pools : CapitalIn(info, c)[p] \in Int
           /\ SumFunction([p \in {q \in Pools : info[q].currency = c} |-> info[p].totalCapital])
                = SumFunctionOnSet(CapitalIn(info, c), Pools)
  <1> DEFINE A == {q \in Pools : info[q].currency = c}
             f == [p \in A |-> info[p].totalCapital]
             g == CapitalIn(info, c)
  <1>1. /\ \A p \in Pools : g[p] \in Int
        /\ \A p \in Pools \ A : g[p] = 0
        /\ \A p \in A : g[p] = f[p]
        /\ A \in SUBSET Pools /\ DOMAIN f = A
    BY DEF CapitalIn, PoolType
  <1>2. IsFiniteSet(A)
    BY PoolsAssumption, <1>1, FS_Subset
  <1> HIDE DEF A, f, g
  <1>3. SumFunctionOnSet(g, Pools) = SumFunctionOnSet(g, A)
    BY <1>1, PoolsAssumption, SumOver
  <1>4. SumFunctionOnSet(g, A) = SumFunctionOnSet(f, A)
    BY <1>1, <1>2, SumSame
  <1> QED  BY <1>1, <1>3, <1>4 DEF SumFunction, A, f, g

\* The utilised coverage, as a sum over all policies.
LEMMA UtilizedAsSum ==
    ASSUME NEW policies \in [PolicyIds -> PolicyType]
    PROVE  /\ \A id \in PolicyIds : Utilized(policies)[id] \in Int
           /\ IsFiniteSet(PolicyIds)
           /\ SumFunction([id \in {i \in PolicyIds : policies[i].exist /\ ~ policies[i].expired} |->
                             policies[id].coverageAmount])
                = SumFunctionOnSet(Utilized(policies), PolicyIds)
  <1> DEFINE A == {i \in PolicyIds : policies[i].exist /\ ~ policies[i].expired}
             f == [id \in A |-> policies[id].coverageAmount]
             g == Utilized(policies)
  <1>1. /\ \A id \in PolicyIds : g[id] \in Int
        /\ \A id \in PolicyIds \ A : g[id] = 0
        /\ \A id \in A : g[id] = f[id]
        /\ A \in SUBSET PolicyIds /\ DOMAIN f = A
    BY DEF Utilized, PolicyType
  <1>2. IsFiniteSet(PolicyIds)
    BY SalesAssumption, FS_Interval DEF PolicyIds
  <1>3. IsFiniteSet(A)
    BY <1>1, <1>2, FS_Subset
  <1> HIDE DEF A, f, g
  <1>4. SumFunctionOnSet(g, PolicyIds) = SumFunctionOnSet(g, A)
    BY <1>1, <1>2, SumOver
  <1>5. SumFunctionOnSet(g, A) = SumFunctionOnSet(f, A)
    BY <1>1, <1>3, SumSame
  <1> QED  BY <1>1, <1>2, <1>4, <1>5 DEF SumFunction, A, f, g

\* One pool's record changes, and the capital of each currency with it.
LEMMA CapitalOfOne ==
    ASSUME BookInv, TypeOK', NEW pool \in Pools,
           \A p \in Pools \ {pool} : poolInfo'[p] = poolInfo[p],
           \A c \in Currencies :
              totalCapitalStakedByCurrency'[c] = totalCapitalStakedByCurrency[c]
                - CapitalIn(poolInfo, c)[pool] + CapitalIn(poolInfo', c)[pool]
    PROVE  CapitalIsSumOfPools'
  <1> SUFFICES ASSUME NEW c \in Currencies
               PROVE  totalCapitalStakedByCurrency'[c] =
                        SumFunction([p \in {q \in Pools : poolInfo'[q].currency = c} |->
                                       poolInfo'[p].totalCapital])
    BY DEF CapitalIsSumOfPools
  <1> DEFINE f == CapitalIn(poolInfo, c)
             g == CapitalIn(poolInfo', c)
  <1>1. poolInfo \in [Pools -> PoolType] /\ poolInfo' \in [Pools -> PoolType]
    BY DEF BookInv, TypeOK, CATypeOK, PoolType
  <1>2. totalCapitalStakedByCurrency[c] = SumFunctionOnSet(f, Pools)
    BY <1>1, CapitalAsSum DEF BookInv, CapitalIsSumOfPools
  <1>3. \A p \in Pools : f[p] \in Int /\ g[p] \in Int
    BY <1>1, CapitalAsSum
  <1>4. \A p \in Pools \ {pool} : g[p] = f[p]
    BY DEF CapitalIn
  <1>5. totalCapitalStakedByCurrency'[c] = totalCapitalStakedByCurrency[c] - f[pool] + g[pool]
    OBVIOUS
  <1>6. SumFunction([p \in {q \in Pools : poolInfo'[q].currency = c} |-> poolInfo'[p].totalCapital])
          = SumFunctionOnSet(g, Pools)
    BY <1>1, CapitalAsSum
  <1> HIDE DEF f, g
  <1>7. SumFunctionOnSet(g, Pools) = SumFunctionOnSet(f, Pools) - f[pool] + g[pool]
    BY <1>3, <1>4, PoolsAssumption, SumUpdate
  <1> QED  BY <1>2, <1>5, <1>6, <1>7

\* A step that leaves the capital alone.
LEMMA CapitalUnchanged ==
    ASSUME BookInv, UNCHANGED totalCapitalStakedByCurrency, poolInfo' \in [Pools -> PoolType],
           \A p \in Pools : /\ poolInfo'[p].currency = poolInfo[p].currency
                            /\ poolInfo'[p].totalCapital = poolInfo[p].totalCapital
                            /\ poolInfo'[p].exist = poolInfo[p].exist
    PROVE  CapitalIsSumOfPools' /\ UnlistedIsEmpty'
  <1>1. UnlistedIsEmpty'
    BY DEF BookInv, UnlistedIsEmpty
  <1>2. ASSUME NEW c \in Currencies
        PROVE  totalCapitalStakedByCurrency'[c] =
                 SumFunction([p \in {q \in Pools : poolInfo'[q].currency = c} |->
                                poolInfo'[p].totalCapital])
    <2>1. {q \in Pools : poolInfo'[q].currency = c} = {q \in Pools : poolInfo[q].currency = c}
      OBVIOUS
    <2>2. [p \in {q \in Pools : poolInfo'[q].currency = c} |-> poolInfo'[p].totalCapital]
            = [p \in {q \in Pools : poolInfo[q].currency = c} |-> poolInfo[p].totalCapital]
      BY <2>1
    <2> QED  BY <2>2 DEF BookInv, CapitalIsSumOfPools
  <1> QED  BY <1>1, <1>2 DEF CapitalIsSumOfPools

\* Capital leaves one pool, and its currency.
LEMMA DecreaseBook ==
    ASSUME BookInv, TypeOK', NEW pool \in Pools, NEW amount \in Nat, NEW released \in Nat,
           poolInfo[pool].exist, DecreaseCapital(pool, amount, released)
    PROVE  CapitalIsSumOfPools' /\ UnlistedIsEmpty'
  <1> DEFINE own == poolInfo[pool].currency
  <1>1. /\ poolInfo \in [Pools -> PoolType] /\ own \in Currencies
        /\ totalCapitalStakedByCurrency \in [Currencies -> Nat]
    BY DEF BookInv, TypeOK, CATypeOK, PoolType
  <1>2. /\ poolInfo'[pool].totalCapital = poolInfo[pool].totalCapital - amount
        /\ poolInfo'[pool].currency = own /\ poolInfo'[pool].exist
        /\ \A p \in Pools \ {pool} : poolInfo'[p] = poolInfo[p]
    BY <1>1 DEF DecreaseCapital, PoolType
  <1>3. \A c \in Currencies :
           totalCapitalStakedByCurrency'[c] =
             totalCapitalStakedByCurrency[c] - (IF c = own THEN amount ELSE 0)
    BY <1>1 DEF DecreaseCapital
  <1>4. poolInfo[pool].totalCapital \in Nat
    BY <1>1 DEF PoolType
  <1>5. ASSUME NEW c \in Currencies
        PROVE  totalCapitalStakedByCurrency'[c] = totalCapitalStakedByCurrency[c]
                 - CapitalIn(poolInfo, c)[pool] + CapitalIn(poolInfo', c)[pool]
    <2>1. totalCapitalStakedByCurrency[c] \in Nat
      BY <1>1
    <2> QED  BY <1>2, <1>3, <1>4, <2>1 DEF CapitalIn
  <1>6. UnlistedIsEmpty'
    BY <1>2 DEF BookInv, UnlistedIsEmpty
  <1> QED  BY <1>2, <1>5, <1>6, CapitalOfOne

\* What a pool reports, and the registration of pools.
LEMMA CapitalStep ==
    ASSUME BookInv, TypeOK', NEW pool \in Pools, NEW amount \in Nat,
           \/ SSIPStaking(pool, amount)
           \/ SSIPWithdraw(pool, amount)
           \/ SSIPMigrated(pool, amount)
           \/ \E id \in PolicyIds : SSIPPolicyClaim(pool, amount, id)
           \/ \E c \in Currencies : AddPoolByAdmin(pool, c, amount)
           \/ RemovePool(pool)
    PROVE  CapitalIsSumOfPools' /\ UnlistedIsEmpty'
  <1> DEFINE own == poolInfo[pool].currency
  <1>1. /\ poolInfo \in [Pools -> PoolType] /\ own \in Currencies
        /\ totalCapitalStakedByCurrency \in [Currencies -> Nat]
        /\ poolInfo[pool].totalCapital \in Nat
    BY DEF BookInv, TypeOK, CATypeOK, PoolType
  <1>2. CASE \/ SSIPWithdraw(pool, amount)
             \/ SSIPMigrated(pool, amount)
             \/ \E id \in PolicyIds : SSIPPolicyClaim(pool, amount, id)
    BY <1>2, DecreaseBook DEF SSIPWithdraw, SSIPMigrated, SSIPPolicyClaim
  <1>3. CASE SSIPStaking(pool, amount)
    <2>1. /\ poolInfo'[pool].totalCapital = poolInfo[pool].totalCapital + amount
          /\ poolInfo'[pool].currency = own /\ poolInfo'[pool].exist
          /\ \A p \in Pools \ {pool} : poolInfo'[p] = poolInfo[p]
      BY <1>1, <1>3 DEF SSIPStaking, IncreaseCapital, PoolType
    <2>2. \A c \in Currencies :
             totalCapitalStakedByCurrency'[c] =
               totalCapitalStakedByCurrency[c] + (IF c = own THEN amount ELSE 0)
      BY <1>1, <1>3 DEF SSIPStaking, IncreaseCapital
    <2>3. ASSUME NEW c \in Currencies
          PROVE  totalCapitalStakedByCurrency'[c] = totalCapitalStakedByCurrency[c]
                   - CapitalIn(poolInfo, c)[pool] + CapitalIn(poolInfo', c)[pool]
      <3>1. totalCapitalStakedByCurrency[c] \in Nat
        BY <1>1
      <3> QED  BY <1>1, <2>1, <2>2, <3>1 DEF CapitalIn
    <2>4. UnlistedIsEmpty'
      BY <2>1 DEF BookInv, UnlistedIsEmpty
    <2> QED  BY <2>1, <2>3, <2>4, CapitalOfOne
  <1>4. CASE \E c \in Currencies : AddPoolByAdmin(pool, c, amount)
    <2>1. /\ poolInfo'[pool].totalCapital = 0 /\ poolInfo[pool].totalCapital = 0
          /\ \A p \in Pools \ {pool} : poolInfo'[p] = poolInfo[p]
          /\ totalCapitalStakedByCurrency' = totalCapitalStakedByCurrency
      BY <1>1, <1>4 DEF AddPoolByAdmin, NoPool, PoolType, BookInv, UnlistedIsEmpty
    <2>2. ASSUME NEW c \in Currencies
          PROVE  totalCapitalStakedByCurrency'[c] = totalCapitalStakedByCurrency[c]
                   - CapitalIn(poolInfo, c)[pool] + CapitalIn(poolInfo', c)[pool]
      <3>1. totalCapitalStakedByCurrency[c] \in Nat
        BY <1>1
      <3> QED  BY <2>1, <3>1 DEF CapitalIn
    <2>3. UnlistedIsEmpty'
      BY <2>1 DEF BookInv, UnlistedIsEmpty
    <2> QED  BY <2>1, <2>2, <2>3, CapitalOfOne
  <1>5. CASE RemovePool(pool)
    <2>1. /\ poolInfo'[pool].totalCapital = 0
          /\ poolInfo'[pool].currency = own
          /\ \A p \in Pools \ {pool} : poolInfo'[p] = poolInfo[p]
      BY <1>1, <1>5 DEF RemovePool, NoPool, PoolType
    <2>2. \A c \in Currencies :
             totalCapitalStakedByCurrency'[c] =
               totalCapitalStakedByCurrency[c]
                 - (IF c = own THEN poolInfo[pool].totalCapital ELSE 0)
      BY <1>1, <1>5 DEF RemovePool
    <2>3. ASSUME NEW c \in Currencies
          PROVE  totalCapitalStakedByCurrency'[c] = totalCapitalStakedByCurrency[c]
                   - CapitalIn(poolInfo, c)[pool] + CapitalIn(poolInfo', c)[pool]
      <3>1. totalCapitalStakedByCurrency[c] \in Nat
        BY <1>1
      <3> QED  BY <1>1, <2>1, <2>2, <3>1 DEF CapitalIn
    <2>4. UnlistedIsEmpty'
      BY <2>1 DEF BookInv, UnlistedIsEmpty
    <2> QED  BY <2>1, <2>3, <2>4, CapitalOfOne
  <1> QED  BY <1>2, <1>3, <1>4, <1>5

\* A step that changes no policy and not what is utilised.
LEMMA CoverageUnchanged ==
    ASSUME BookInv, UNCHANGED <<getPolicy, policyInfo, totalUtilizedAmount>>
    PROVE  UtilizedIsActiveCover' /\ NoCoverWithoutPolicy'
  BY DEF BookInv, UtilizedIsActiveCover, NoCoverWithoutPolicy, Active, coverage

\* An active policy is closed, and its coverage is released.
LEMMA CoverageClosed ==
    ASSUME BookInv, TypeOK', NEW id \in PolicyIds,
           ReleaseCoverage(coverage(id)), SPMarkToClaim(id) \/ SPUpdatePolicyExpired(id)
    PROVE  UtilizedIsActiveCover' /\ NoCoverWithoutPolicy'
  <1> DEFINE f == Utilized(getPolicy)
             g == Utilized(getPolicy')
  <1>1. getPolicy \in [PolicyIds -> PolicyType] /\ getPolicy' \in [PolicyIds -> PolicyType]
    BY DEF BookInv, TypeOK, SPTypeOK, PolicyType
  <1>2. getPolicy[id].exist /\ ~ getPolicy[id].expired
    <2>1. ownerOf[id] # NoOwner
      BY DEF SPMarkToClaim, SPUpdatePolicyExpired, BurnPolicy
    <2> QED  BY <2>1 DEF BookInv, CoverInv, TokenIsActive, Active
  <1>3. ~ (getPolicy'[id].exist /\ ~ getPolicy'[id].expired)
    BY <1>1 DEF SPMarkToClaim, SPUpdatePolicyExpired, PolicyType
  <1>4. \A i \in PolicyIds \ {id} : getPolicy'[i] = getPolicy[i]
    BY <1>1 DEF SPMarkToClaim, SPUpdatePolicyExpired, PolicyType
  <1>5. f[id] = coverage(id) /\ g[id] = 0 /\ coverage(id) \in Nat
    BY <1>1, <1>2, <1>3 DEF Utilized, coverage, PolicyType
  <1>6. \A i \in PolicyIds \ {id} : g[i] = f[i]
    BY <1>4 DEF Utilized
  <1>7. /\ \A i \in PolicyIds : f[i] \in Int /\ g[i] \in Int
        /\ IsFiniteSet(PolicyIds)
    BY <1>1, UtilizedAsSum
  <1>8. totalUtilizedAmount = SumFunctionOnSet(f, PolicyIds)
    BY <1>1, UtilizedAsSum DEF BookInv, UtilizedIsActiveCover, Active, coverage
  <1>9. SumFunction([i \in {j \in PolicyIds : Active(j)'} |-> coverage(i)'])
          = SumFunctionOnSet(g, PolicyIds)
    BY <1>1, UtilizedAsSum DEF Active, coverage
  <1>10. SumFunctionOnSet(g, PolicyIds) = SumFunctionOnSet(f, PolicyIds) - f[id] + g[id]
    <2> HIDE DEF f, g
    <2> QED  BY <1>6, <1>7, SumUpdate
  <1> HIDE DEF f, g
  <1>11. /\ totalUtilizedAmount' = totalUtilizedAmount - coverage(id)
         /\ policyInfo'.utilizedAmount = policyInfo.utilizedAmount - coverage(id)
         /\ policyInfo'.exist = policyInfo.exist
         /\ totalUtilizedAmount \in Nat /\ policyInfo'.utilizedAmount \in Nat
    BY DEF ReleaseCoverage, BookInv, TypeOK, CATypeOK
  <1>12. policyInfo'.utilizedAmount = totalUtilizedAmount'
    BY <1>11 DEF BookInv, UtilizedIsActiveCover
  <1>13. totalUtilizedAmount' = SumFunctionOnSet(g, PolicyIds)
    BY <1>5, <1>8, <1>10, <1>11
  <1>14. NoCoverWithoutPolicy'
    BY <1>5, <1>11, <1>12 DEF BookInv, NoCoverWithoutPolicy
  <1> QED  BY <1>9, <1>12, <1>13, <1>14 DEF UtilizedIsActiveCover

\* The sum over a row of consecutive ids is the sum over the lines they number.
LEMMA SumOfRow ==
    ASSUME NEW first \in Nat, NEW n \in Nat, NEW lines, NEW row,
           \A i \in 1 .. n : lines[i] \in Int /\ row[first + i - 1] = lines[i]
    PROVE  SumFunctionOnSet(row, first .. first + n - 1) = SumFunctionOnSet(lines, 1 .. n)
  <1> DEFINE ids == first .. first + n - 1
             places == 1 .. n
             name == [i \in places |-> first + i - 1]
  <1>1. /\ \A i \in places : name[i] \in ids
        /\ \A id \in ids : \E i \in places : name[i] = id
    <2>1. ASSUME NEW id \in ids PROVE \E i \in places : name[i] = id
      <3>1. id - first + 1 \in places /\ name[id - first + 1] = id
        OBVIOUS
      <3> QED  BY <3>1
    <2> QED  BY <2>1
  <1>2. \A i \in places, j \in places : name[i] = name[j] => i = j
    OBVIOUS
  <1>3. \A i \in places : lines[i] \in Int /\ row[name[i]] = lines[i]
    OBVIOUS
  <1>4. IsFiniteSet(places) /\ IsFiniteSet(ids)
    BY FS_Interval
  <1>5. SumFunctionOnSet(row, ids) = SumFunctionOnSet(lines, places)
    <2> HIDE DEF ids, places, name
    <2> QED  BY <1>1, <1>2, <1>3, <1>4, SumRenamed
  <1> QED  BY <1>5

\* The new policies of a sale are utilised for what the quote covers.
LEMMA SoldCoverage ==
    ASSUME BookInv, NEW q \in Quotes, SPBuyPolicy(q), TypeOK'
    PROVE  SumFunctionOnSet(Utilized(getPolicy'), PolicyIds)
             = SumFunctionOnSet(Utilized(getPolicy), PolicyIds) + CoverTotal(q)
  <1> DEFINE n == Len(q.covers)
             bought == policyIdx .. policyIdx + n - 1
             amounts == [i \in 1 .. n |-> q.covers[i].amount]
             added == [id \in PolicyIds |-> IF id \in bought
                                            THEN q.covers[id - policyIdx + 1].amount ELSE 0]
             f == Utilized(getPolicy)
             g == Utilized(getPolicy')
  <1>1. /\ n \in Nat /\ policyIdx \in Nat /\ policyIdx + n <= MaxPolicies /\ MaxPolicies \in Nat
        /\ \A i \in 1 .. n : q.covers[i] \in [amount : Nat, duration : Nat]
        /\ CoverTotal(q) = SumFunctionOnSet(amounts, 1 .. n)
    <2>1. /\ n \in Nat
          /\ \A i \in 1 .. n : q.covers[i] \in [amount : Nat, duration : Nat]
          /\ CoverTotal(q) = SumFunctionOnSet(amounts, 1 .. n)
      BY CoverTotalNat, Zenon
    <2>2. policyIdx + n <= MaxPolicies
      BY DEF SPBuyPolicy
    <2>3. policyIdx \in Nat /\ MaxPolicies \in Nat
      BY SalesAssumption DEF BookInv, TypeOK, SPTypeOK
    <2> QED  BY <2>1, <2>2, <2>3
  <1>2. bought \in SUBSET PolicyIds
    BY <1>1 DEF PolicyIds
  <1>3. getPolicy \in [PolicyIds -> PolicyType] /\ getPolicy' \in [PolicyIds -> PolicyType]
    BY DEF BookInv, TypeOK, SPTypeOK, PolicyType
  <1>4. /\ \A id \in PolicyIds : f[id] \in Int
        /\ IsFiniteSet(PolicyIds) /\ IsFiniteSet(bought) /\ IsFiniteSet(1 .. n)
    <2>1. (\A id \in PolicyIds : f[id] \in Int) /\ IsFiniteSet(PolicyIds)
      BY <1>3, UtilizedAsSum
    <2>2. IsFiniteSet(1 .. n)
      <3>1. 1 \in Int /\ n \in Int
        BY <1>1
      <3> HIDE DEF n
      <3> QED  BY <3>1, FS_Interval
    <2>3. IsFiniteSet(bought)
      BY <1>2, <2>1, FS_Subset
    <2> QED  BY <2>1, <2>2, <2>3
  <1>5. ASSUME NEW id \in bought
        PROVE  /\ id - policyIdx + 1 \in 1 .. n
               /\ added[id] = q.covers[id - policyIdx + 1].amount
               /\ added[id] \in Nat
    BY <1>1, <1>2
  <1>6. ASSUME NEW id \in PolicyIds
        PROVE  added[id] \in Int /\ g[id] = f[id] + added[id]
    <2>1. CASE id \in bought
      <3>1. getPolicy'[id] = [coverStartAt |-> now,
                              coverageDuration |-> q.covers[id - policyIdx + 1].duration,
                              coverageAmount |-> q.covers[id - policyIdx + 1].amount,
                              exist |-> TRUE, expired |-> FALSE]
        BY <2>1 DEF SPBuyPolicy
      <3>2. g[id] = added[id]
        BY <1>5, <2>1, <3>1 DEF Utilized
      <3>3. f[id] = 0
        <4>1. id >= policyIdx
          BY <1>1, <2>1
        <4> QED  BY <4>1 DEF BookInv, CoverInv, UnsoldIsBlank, ZeroPolicy, Utilized
      <3>4. added[id] \in Nat
        BY <1>5, <2>1
      <3> HIDE DEF f, g, added
      <3> QED  BY <3>2, <3>3, <3>4
    <2>2. CASE id \notin bought
      <3>1. getPolicy'[id] = getPolicy[id] /\ added[id] = 0
        BY <2>2 DEF SPBuyPolicy
      <3>2. g[id] = f[id]
        BY <3>1 DEF Utilized
      <3> HIDE DEF f, g, added
      <3> QED  BY <1>4, <3>1, <3>2
    <2> QED  BY <2>1, <2>2
  <1>7. SumFunctionOnSet(g, PolicyIds)
          = SumFunctionOnSet(f, PolicyIds) + SumFunctionOnSet(added, PolicyIds)
    <2> HIDE DEF f, g, added
    <2> QED  BY <1>4, <1>6, SumPlus
  <1>8. SumFunctionOnSet(added, PolicyIds) = SumFunctionOnSet(added, bought)
    <2>1. \A id \in PolicyIds \ bought : added[id] = 0
      OBVIOUS
    <2> HIDE DEF added, bought
    <2> QED  BY <1>2, <1>4, <1>6, <2>1, SumOver
  <1>9. SumFunctionOnSet(added, bought) = SumFunctionOnSet(amounts, 1 .. n)
    <2>1. ASSUME NEW i \in 1 .. n
          PROVE  amounts[i] \in Int /\ added[policyIdx + i - 1] = amounts[i]
      <3>1. amounts[i] = q.covers[i].amount /\ q.covers[i].amount \in Int
        BY <1>1
      <3>2. /\ policyIdx + i - 1 \in bought
            /\ (policyIdx + i - 1) - policyIdx + 1 = i
        BY <1>1
      <3>3. added[policyIdx + i - 1] = q.covers[(policyIdx + i - 1) - policyIdx + 1].amount
        BY <1>5, <3>2
      <3> QED  BY <3>1, <3>2, <3>3
    <2> HIDE DEF added, amounts, n
    <2> QED  BY <1>1, <2>1, SumOfRow
  <1> QED  BY <1>1, <1>7, <1>8, <1>9

\* A sale is added to what is utilised, also a sale that covers nothing.
LEMMA CoverageSold ==
    ASSUME BookInv, TypeOK', NEW q \in Quotes, SPBuyPolicy(q), PolicySale(CoverTotal(q))
    PROVE  UtilizedIsActiveCover' /\ NoCoverWithoutPolicy'
  <1> DEFINE f == Utilized(getPolicy)
             g == Utilized(getPolicy')
  <1>1. getPolicy \in [PolicyIds -> PolicyType] /\ getPolicy' \in [PolicyIds -> PolicyType]
    BY DEF BookInv, TypeOK, SPTypeOK, PolicyType
  <1>2. totalUtilizedAmount = SumFunctionOnSet(f, PolicyIds)
    BY <1>1, UtilizedAsSum DEF BookInv, UtilizedIsActiveCover, Active, coverage
  <1>3. SumFunction([i \in {j \in PolicyIds : Active(j)'} |-> coverage(i)'])
          = SumFunctionOnSet(g, PolicyIds)
    BY <1>1, UtilizedAsSum DEF Active, coverage
  <1>4. SumFunctionOnSet(g, PolicyIds) = SumFunctionOnSet(f, PolicyIds) + CoverTotal(q)
    BY SoldCoverage
  <1>5. /\ totalUtilizedAmount' = totalUtilizedAmount + CoverTotal(q)
        /\ policyInfo'.utilizedAmount = policyInfo.utilizedAmount + CoverTotal(q)
        /\ ~ policyInfo'.exist => ~ policyInfo.exist /\ CoverTotal(q) = 0
    <2>1. policyInfo \in [utilizedAmount : Nat, exist : BOOLEAN] /\ totalUtilizedAmount \in Nat
      BY DEF BookInv, TypeOK, CATypeOK
    <2>2. CoverTotal(q) \in Nat
      BY CoverTotalNat
    <2>3. CASE CoverTotal(q) = 0
      BY <2>1, <2>3 DEF PolicySale, caVars, caCover
    <2>4. CASE CoverTotal(q) # 0
      BY <2>1, <2>2, <2>4 DEF PolicySale
    <2> QED  BY <2>3, <2>4
  <1>6. NoCoverWithoutPolicy'
    BY <1>5 DEF BookInv, NoCoverWithoutPolicy
  <1>7. policyInfo.utilizedAmount = totalUtilizedAmount
    BY DEF BookInv, UtilizedIsActiveCover
  <1> HIDE DEF f, g
  <1>8. totalUtilizedAmount' = SumFunctionOnSet(g, PolicyIds)
    BY <1>2, <1>4, <1>5
  <1> QED  BY <1>3, <1>5, <1>6, <1>7, <1>8 DEF UtilizedIsActiveCover

\* The first sales policy is registered when nothing is utilised.
LEMMA CoverageFresh ==
    ASSUME BookInv, TypeOK', SetPolicy
    PROVE  UtilizedIsActiveCover' /\ NoCoverWithoutPolicy'
  <1> DEFINE g == Utilized(getPolicy')
  <1>1. /\ totalUtilizedAmount' = 0
        /\ policyInfo'.utilizedAmount = 0 /\ policyInfo'.exist
    BY DEF SetPolicy, BookInv, NoCoverWithoutPolicy
  <1>2. getPolicy' \in [PolicyIds -> PolicyType]
    BY DEF TypeOK, SPTypeOK, PolicyType
  <1>3. SumFunction([i \in {j \in PolicyIds : Active(j)'} |-> coverage(i)'])
          = SumFunctionOnSet(g, PolicyIds)
    BY <1>2, UtilizedAsSum DEF Active, coverage
  <1>4. \A id \in PolicyIds : g[id] = 0
    BY DEF SetPolicy, FreshSalesPolicy, ZeroPolicy, Utilized
  <1>5. SumFunctionOnSet(g, PolicyIds) = 0
    <2> HIDE DEF g
    <2> QED  BY <1>2, <1>4, UtilizedAsSum, SumZero
  <1> QED  BY <1>1, <1>3, <1>5 DEF UtilizedIsActiveCover, NoCoverWithoutPolicy

-----------------------------------------------------------------------------
\* Every step of the agent that overwrites no figure keeps the sums.
LEMMA BookStep == BookInv /\ [OrdinaryNext]_vars => BookInv'
  <1> SUFFICES ASSUME BookInv, [OrdinaryNext]_vars PROVE BookInv'
    OBVIOUS
  <1> USE SystemAssumption
  <1>1. TypeOK' /\ CoverInv'
    BY NextInv DEF BookInv, Next
  <1>2. poolInfo' \in [Pools -> PoolType]
    BY <1>1 DEF TypeOK, CATypeOK, PoolType
  <1>3. ASSUME CapitalIsSumOfPools' /\ UnlistedIsEmpty',
               UtilizedIsActiveCover' /\ NoCoverWithoutPolicy'
        PROVE  BookInv'
    BY <1>1, <1>3 DEF BookInv
  <1>4. ASSUME UNCHANGED caBook PROVE CapitalIsSumOfPools' /\ UnlistedIsEmpty'
    BY <1>2, <1>4, CapitalUnchanged DEF caBook
  <1>5. ASSUME UNCHANGED <<spVars, policyInfo, totalUtilizedAmount>>
        PROVE  UtilizedIsActiveCover' /\ NoCoverWithoutPolicy'
    BY <1>5, CoverageUnchanged DEF spVars
  <1>6. CASE PoolNext
    <2>1. PICK p \in Pools, amount \in Nat :
             \/ SSIPStaking(p, amount) /\ UNCHANGED chainOnly
             \/ SSIPWithdraw(p, amount) /\ UNCHANGED chainOnly
             \/ /\ \E caller \in Pools, isAdd \in BOOLEAN :
                   UpdatePoolWithdrawPendingCapital(caller, p, amount, isAdd)
                /\ UNCHANGED chainOnly
             \/ \E id \in PolicyIds : SSIPPolicyClaim(p, amount, id)
             \/ SSIPMigrated(p, amount) /\ UNCHANGED chainOnly
      BY Zenon, <1>6 DEF PoolNext, Stake, Withdraw, Pending, Claim, Migrated
    <2>2. CASE \/ SSIPStaking(p, amount) /\ UNCHANGED chainOnly
               \/ SSIPWithdraw(p, amount) /\ UNCHANGED chainOnly
               \/ SSIPMigrated(p, amount) /\ UNCHANGED chainOnly
      <3>1. UNCHANGED <<spVars, policyInfo, totalUtilizedAmount>>
        BY <2>2 DEF SSIPStaking, SSIPWithdraw, SSIPMigrated, caCover, chainOnly
      <3> QED  BY <1>1, <1>3, <1>5, <2>2, <3>1, CapitalStep
    <2>3. CASE /\ \E caller \in Pools, isAdd \in BOOLEAN :
                   UpdatePoolWithdrawPendingCapital(caller, p, amount, isAdd)
               /\ UNCHANGED chainOnly
      <3>1. UNCHANGED <<spVars, policyInfo, totalUtilizedAmount>>
        BY <2>3 DEF UpdatePoolWithdrawPendingCapital, caCover, chainOnly
      <3>2. /\ UNCHANGED totalCapitalStakedByCurrency
            /\ \A r \in Pools : /\ poolInfo'[r].currency = poolInfo[r].currency
                                /\ poolInfo'[r].totalCapital = poolInfo[r].totalCapital
                                /\ poolInfo'[r].exist = poolInfo[r].exist
        BY <2>3 DEF UpdatePoolWithdrawPendingCapital, BookInv, TypeOK, CATypeOK
      <3> QED  BY <1>2, <1>3, <1>5, <3>1, <3>2, CapitalUnchanged
    <2>4. CASE \E id \in PolicyIds : SSIPPolicyClaim(p, amount, id)
      <3>1. PICK id \in PolicyIds : SSIPPolicyClaim(p, amount, id)
        BY <2>4
      <3>2. CapitalIsSumOfPools' /\ UnlistedIsEmpty'
        BY <1>1, <3>1, CapitalStep
      <3>3. CASE UsesUpCoverage(p, amount, id)
        <4>1. policyInfo.exist /\ ReleaseCoverage(coverage(id)) /\ SPMarkToClaim(id)
          BY <3>1, <3>3 DEF SSIPPolicyClaim, MarkToClaimPolicy
        <4> QED  BY <1>1, <1>3, <3>2, <4>1, CoverageClosed
      <3>4. CASE ~ UsesUpCoverage(p, amount, id)
        <4>1. UNCHANGED <<spVars, policyInfo, totalUtilizedAmount>>
          BY <3>1, <3>4 DEF SSIPPolicyClaim
        <4> QED  BY <1>3, <1>5, <3>2, <4>1
      <3> QED  BY <3>3, <3>4
    <2> QED  BY <2>1, <2>2, <2>3, <2>4
  <1>7. CASE PolicyNext \/ \E id \in PolicyIds : AdminClaim(id)
    <2>1. CASE \E q \in Quotes : BuyPolicy(q)
      <3>1. PICK q \in Quotes : SPBuyPolicy(q) /\ PolicySale(CoverTotal(q))
        BY <2>1 DEF BuyPolicy
      <3>2. UNCHANGED caBook
        BY <3>1 DEF PolicySale, caVars
      <3> QED  BY <1>1, <1>3, <1>4, <3>1, <3>2, CoverageSold
    <2>2. CASE \E id \in PolicyIds : UpdateStatus(id) \/ AdminClaim(id)
      <3>1. PICK id \in PolicyIds : UpdatePolicyStatus(id) \/ AdminMarkToClaimPolicy(id)
        BY <2>2 DEF UpdateStatus, AdminClaim
      <3>2. /\ policyInfo.exist /\ ReleaseCoverage(coverage(id))
            /\ SPMarkToClaim(id) \/ SPUpdatePolicyExpired(id)
            /\ UNCHANGED caBook
        BY <3>1 DEF UpdatePolicyStatus, AdminMarkToClaimPolicy, MarkToClaimPolicy
      <3> QED  BY <1>1, <1>3, <1>4, <3>2, CoverageClosed
    <2>3. CASE \E id \in PolicyIds, to \in Holders : TransferPolicy(id, to)
      <3>1. UNCHANGED <<getPolicy, caVars>>
        BY <2>3 DEF TransferPolicy, SPTransferPolicy
      <3> QED  BY <1>3, <1>4, <3>1, CoverageUnchanged DEF caVars, caCover
    <2> QED  BY <1>7, <2>1, <2>2, <2>3 DEF PolicyNext
  <1>8. CASE AdminNext
    <2>1. UNCHANGED spVars
      BY <1>8 DEF AdminNext, chainOnly
    <2>2. CASE \E p \in Pools, c \in Currencies, scr \in Amounts :
                  AddPool(p, c, scr) \/ AddPoolByAdmin(p, c, scr)
      <3>1. PICK p \in Pools, c \in Currencies, scr \in Nat : AddPoolByAdmin(p, c, scr)
        BY <2>2 DEF AddPool
      <3>2. UNCHANGED <<policyInfo, totalUtilizedAmount>>
        BY <3>1 DEF AddPoolByAdmin, caCover
      <3> QED  BY <1>1, <1>3, <1>5, <2>1, <3>1, <3>2, CapitalStep
    <2>3. CASE \E p \in Pools : RemovePool(p)
      <3>1. PICK p \in Pools : RemovePool(p)
        BY <2>3
      <3>2. UNCHANGED <<policyInfo, totalUtilizedAmount>>
        BY <3>1 DEF RemovePool, caCover
      <3>3. 0 \in Nat
        OBVIOUS
      <3> QED  BY <1>1, <1>3, <1>5, <2>1, <3>1, <3>2, <3>3, CapitalStep
    <2>4. CASE \E p \in Pools, scr \in Amounts : SetSCR(p, scr)
      <3>1. UNCHANGED <<policyInfo, totalUtilizedAmount, totalCapitalStakedByCurrency>>
        BY <2>4 DEF SetSCR, caCover
      <3>2. \A r \in Pools : /\ poolInfo'[r].currency = poolInfo[r].currency
                             /\ poolInfo'[r].totalCapital = poolInfo[r].totalCapital
                             /\ poolInfo'[r].exist = poolInfo[r].exist
        BY <2>4 DEF SetSCR, BookInv, TypeOK, CATypeOK
      <3> QED  BY <1>2, <1>3, <1>5, <2>1, <3>1, <3>2, CapitalUnchanged
    <2>5. CASE \/ \E p \in Pools, isListed \in BOOLEAN : SetPoolWhiteList(p, isListed)
               \/ \E ratio \in Ratios : SetMCR(ratio) \/ SetMLR(ratio)
               \/ \E c \in Currencies, rate \in Rates : RateMoves(c, rate)
      <3>1. UNCHANGED <<caBook, policyInfo, totalUtilizedAmount>>
        BY <2>5 DEF SetPoolWhiteList, SetMCR, SetMLR, RateMoves, caCover
      <3> QED  BY <1>3, <1>4, <1>5, <2>1, <3>1
    <2> QED  BY <1>8, <2>2, <2>3, <2>4, <2>5 DEF AdminNext
  <1>9. CASE NewSalesPolicy
    <2>1. SetPolicy /\ UNCHANGED caBook
      BY <1>9 DEF NewSalesPolicy, SetPolicy
    <2> QED  BY <1>1, <1>3, <1>4, <2>1, CoverageFresh
  <1>10. CASE (\E isPaused \in BOOLEAN : SetSalesPaused(isPaused)) \/ Clock \/ UNCHANGED vars
    <2>1. UNCHANGED <<getPolicy, caVars>>
      BY <1>10 DEF SetSalesPaused, SPSetPaused, Clock, vars, spVars
    <2> QED  BY <1>3, <1>4, <2>1, CoverageUnchanged DEF caVars, caCover
  <1> QED  BY <1>6, <1>7, <1>8, <1>9, <1>10 DEF OrdinaryNext

\* Nothing is staked or sold at first.
LEMMA InitBook == Init => BookInv
  <1> SUFFICES ASSUME Init PROVE BookInv
    OBVIOUS
  <1>1. TypeOK /\ CoverInv
    BY InitInv
  <1>2. poolInfo \in [Pools -> PoolType] /\ getPolicy \in [PolicyIds -> PolicyType]
    BY <1>1 DEF TypeOK, CATypeOK, SPTypeOK, PoolType, PolicyType
  <1>3. \A p \in Pools : poolInfo[p].totalCapital = 0
    BY DEF Init, NoPool
  <1>4. \A c \in Currencies : totalCapitalStakedByCurrency[c] = 0
    BY DEF Init
  <1>5. ASSUME NEW c \in Currencies
        PROVE  SumFunctionOnSet(CapitalIn(poolInfo, c), Pools) = 0
    <2>1. \A p \in Pools : CapitalIn(poolInfo, c)[p] = 0
      BY <1>3 DEF CapitalIn
    <2> QED  BY <2>1, PoolsAssumption, SumZero
  <1>6. CapitalIsSumOfPools
    BY <1>2, <1>4, <1>5, CapitalAsSum DEF CapitalIsSumOfPools
  <1>7. SumFunctionOnSet(Utilized(getPolicy), PolicyIds) = 0
    <2>1. \A id \in PolicyIds : Utilized(getPolicy)[id] = 0
      BY DEF Init, SPInit, ZeroPolicy, Utilized
    <2> QED  BY <1>2, <2>1, UtilizedAsSum, SumZero
  <1>8. totalUtilizedAmount = 0 /\ policyInfo.utilizedAmount = 0
    BY DEF Init
  <1>9. UtilizedIsActiveCover
    BY <1>2, <1>7, <1>8, UtilizedAsSum DEF UtilizedIsActiveCover, Active, coverage
  <1> QED  BY <1>1, <1>3, <1>6, <1>8, <1>9 DEF BookInv, UnlistedIsEmpty, NoCoverWithoutPolicy

\* The capital of a currency stays the sum over its pools.
THEOREM CapitalStaysSum == OrdinarySpec => []CapitalIsSumOfPools
  <1>1. BookInv => CapitalIsSumOfPools
    BY DEF BookInv
  <1> QED  BY InitBook, BookStep, <1>1, PTL DEF OrdinarySpec

\* The utilised coverage stays the coverage of the active policies.
THEOREM UtilizedStaysActiveCover == OrdinarySpec => []UtilizedIsActiveCover
  <1>1. BookInv => UtilizedIsActiveCover
    BY DEF BookInv
  <1> QED  BY InitBook, BookStep, <1>1, PTL DEF OrdinarySpec
=============================================================================
