----------------------------- MODULE AgentLemmas -----------------------------
(***************************************************************************)
(* What the operators of CapitalAgent and SalesPolicy preserve.  The two   *)
(* systems that use them, CapitalSystem and SSIP, cite these lemmas.       *)
(***************************************************************************)
EXTENDS CoverProperties, Arithmetic

\* The conversion to USDC yields a natural number.
LEMMA ToUSDCNat ==
    ASSUME CATypeOK, NEW c \in Currencies, NEW amount \in Nat
    PROVE  ToUSDC(c, amount) \in Nat
  <1>1. usdcRate[c] \in Nat
    BY DEF CATypeOK
  <1>2. amount * usdcRate[c] \in Nat
    BY <1>1, TimesNat
  <1> QED  BY <1>2, DivNat, CapitalAssumption DEF ToUSDC

\* A payout is a natural number in USDC, whichever pool makes it.
LEMMA ClaimNat ==
    ASSUME CATypeOK, NEW pool \in Pools, NEW amount \in Nat
    PROVE  ClaimInUSDC(pool, amount) \in Nat
  <1>1. poolInfo[pool].currency \in Currencies
    BY DEF CATypeOK
  <1> QED  BY <1>1, ToUSDCNat DEF ClaimInUSDC

-----------------------------------------------------------------------------
(* The types of the agent's book.                                          *)

PoolType == [totalCapital : Nat, SCR : Nat, currency : Currencies,
             exist : BOOLEAN, totalWithdrawPendingCapital : Nat]

\* SSIPStaking keeps the types of the book.
LEMMA StakingType ==
    ASSUME CATypeOK, NEW pool \in Pools, NEW amount \in Nat, SSIPStaking(pool, amount)
    PROVE  CATypeOK'
  BY DEF CATypeOK, SSIPStaking, IncreaseCapital, caParams, caCover

\* Capital that is on the book, and pending capital that is, can be taken off it.
LEMMA DecreaseType ==
    ASSUME CATypeOK, NEW pool \in Pools, NEW amount \in Nat, NEW released \in Nat,
           poolInfo[pool].totalWithdrawPendingCapital >= released,
           DecreaseCapital(pool, amount, released)
    PROVE  /\ poolInfo' \in [Pools -> PoolType]
           /\ totalCapitalStakedByCurrency' \in [Currencies -> Nat]
  <1> DEFINE c == poolInfo[pool].currency
             p == [poolInfo[pool] EXCEPT
                     !.totalCapital = @ - amount,
                     !.totalWithdrawPendingCapital = @ - released]
  <1>1. poolInfo[pool] \in PoolType /\ totalCapitalStakedByCurrency[c] \in Nat
    BY DEF CATypeOK, PoolType
  <1>2. /\ poolInfo[pool].totalCapital - amount \in Nat
        /\ poolInfo[pool].totalWithdrawPendingCapital - released \in Nat
        /\ totalCapitalStakedByCurrency[c] - amount \in Nat
    BY <1>1 DEF PoolType, DecreaseCapital
  <1>3. p \in PoolType
    BY <1>1, <1>2 DEF PoolType
  <1>4. poolInfo' = [poolInfo EXCEPT ![pool] = p]
    BY DEF DecreaseCapital
  <1> QED  BY <1>1, <1>2, <1>3, <1>4 DEF CATypeOK, PoolType, DecreaseCapital

\* SSIPWithdraw keeps the types of the book: all its subtractions are guarded.
LEMMA WithdrawType ==
    ASSUME CATypeOK, NEW pool \in Pools, NEW amount \in Nat, SSIPWithdraw(pool, amount)
    PROVE  CATypeOK'
  BY DecreaseType DEF SSIPWithdraw, CATypeOK, PoolType, caParams, caCover

\* updatePoolWithdrawPendingCapital keeps the types of the book.
LEMMA PendingType ==
    ASSUME CATypeOK, NEW caller \in Pools, NEW pool \in Pools, NEW amount \in Nat, NEW isAdd \in BOOLEAN,
           UpdatePoolWithdrawPendingCapital(caller, pool, amount, isAdd)
    PROVE  CATypeOK'
  BY DEF UpdatePoolWithdrawPendingCapital, CATypeOK, caParams, caCover

\* A migration reported to the agent keeps the types of the book.
LEMMA MigratedType ==
    ASSUME CATypeOK, NEW pool \in Pools, NEW amount \in Nat, SSIPMigrated(pool, amount)
    PROVE  CATypeOK'
  <1>1. poolInfo[pool].totalWithdrawPendingCapital >= 0
    BY DEF CATypeOK
  <1> QED  BY <1>1, DecreaseType DEF SSIPMigrated, CATypeOK, PoolType, caParams, caCover

\* Closing a policy as claimed.
LEMMA MarkToClaimType ==
    ASSUME CATypeOK, SPTypeOK, NEW id \in PolicyIds, MarkToClaimPolicy(id)
    PROVE  /\ SPTypeOK'
           /\ policyInfo' \in [utilizedAmount : Nat, exist : BOOLEAN]
           /\ totalUtilizedAmount' \in Nat
  <1>1. coverage(id) \in Nat
    BY DEF SPTypeOK, coverage
  <1>2. SPTypeOK'
    BY DEF MarkToClaimPolicy, SPMarkToClaim, BurnPolicy, SPTypeOK
  <1> QED  BY <1>1, <1>2 DEF MarkToClaimPolicy, ReleaseCoverage, CATypeOK

\* A payout keeps the types of the book and of the policies.
LEMMA PolicyClaimType ==
    ASSUME CATypeOK, SPTypeOK, NEW pool \in Pools, NEW amount \in Nat, NEW id \in PolicyIds,
           SSIPPolicyClaim(pool, amount, id)
    PROVE  CATypeOK' /\ SPTypeOK'
  <1>1. /\ poolInfo' \in [Pools -> PoolType]
        /\ totalCapitalStakedByCurrency' \in [Currencies -> Nat]
    <2>1. poolInfo[pool].totalWithdrawPendingCapital >= 0
      BY DEF CATypeOK
    <2> QED  BY <2>1, DecreaseType DEF SSIPPolicyClaim
  <1>2. claimedAmount' \in [PolicyIds -> Nat]
    BY ClaimNat DEF SSIPPolicyClaim, CATypeOK
  <1>3. /\ SPTypeOK'
        /\ policyInfo' \in [utilizedAmount : Nat, exist : BOOLEAN]
        /\ totalUtilizedAmount' \in Nat
    <2>1. CASE UsesUpCoverage(pool, amount, id)
      BY <2>1, MarkToClaimType DEF SSIPPolicyClaim
    <2>2. CASE ~ UsesUpCoverage(pool, amount, id)
      BY <2>2 DEF SSIPPolicyClaim, CATypeOK, SPTypeOK, spVars
    <2> QED  BY <2>1, <2>2
  <1> QED  BY <1>1, <1>2, <1>3 DEF SSIPPolicyClaim, CATypeOK, PoolType, caParams

\* The elements of a sequence over S are in S.
LEMMA SeqElement ==
    ASSUME NEW S, NEW s \in Seq(S), NEW i \in 1 .. Len(s)
    PROVE  s[i] \in S
  OBVIOUS

\* The amounts of a quote's lines, and the coverage it buys.
LEMMA CoverTotalNat ==
    ASSUME NEW q \in Quotes
    PROVE  /\ Len(q.covers) \in Nat
           /\ \A i \in 1 .. Len(q.covers) : q.covers[i] \in [amount : Nat, duration : Nat]
           /\ CoverTotal(q) = SumFunctionOnSet([i \in 1 .. Len(q.covers) |-> q.covers[i].amount],
                                              1 .. Len(q.covers))
           /\ CoverTotal(q) \in Nat
  <1> DEFINE n == Len(q.covers)
             f == [i \in 1 .. n |-> q.covers[i].amount]
  <1>1. q.covers \in Seq([amount : Nat, duration : Nat])
    BY SalesAssumption
  <1>2. n \in Nat /\ DOMAIN q.covers = 1 .. n
    BY <1>1
  <1>3. \A i \in 1 .. n : q.covers[i] \in [amount : Nat, duration : Nat]
    BY <1>1, SeqElement
  <1>4. \A i \in 1 .. n : f[i] \in Nat
    BY <1>3
  <1>5. IsFiniteSet(1 .. n)
    BY <1>2, FS_Interval
  <1>6. CoverTotal(q) = SumFunctionOnSet(f, 1 .. n)
    BY <1>2 DEF CoverTotal, SumFunction
  <1>7. SumFunctionOnSet(f, 1 .. n) \in Nat
    <2> HIDE DEF f
    <2> QED  BY <1>4, <1>5, SumNat
  <1> QED  BY <1>2, <1>3, <1>6, <1>7

\* A sale: the policies bought are well-formed, and the coverage is added.
LEMMA BuyType ==
    ASSUME SPTypeOK, now \in Nat, NEW q \in Quotes, SPBuyPolicy(q)
    PROVE  SPTypeOK'
  <1> DEFINE Policy == [coverStartAt : Nat, coverageDuration : Nat, coverageAmount : Nat,
                        exist : BOOLEAN, expired : BOOLEAN]
             n == Len(q.covers)
             bought == policyIdx .. policyIdx + n - 1
  <1>1. /\ q.covers \in Seq([amount : Nat, duration : Nat])
        /\ q.sender \in Holders
        /\ MaxPolicies \in Nat
        /\ n \in Nat
    BY SalesAssumption
  <1>2. policyIdx \in Nat /\ policyIdx + n <= MaxPolicies
    BY <1>1 DEF SPTypeOK, SPBuyPolicy
  <1>3. ASSUME NEW id \in PolicyIds PROVE getPolicy'[id] \in Policy
    <2>1. CASE id \in bought
      <3>1. id - policyIdx + 1 \in 1 .. n
        BY <1>1, <1>2, <2>1 DEF PolicyIds
      <3>2. q.covers[id - policyIdx + 1] \in [amount : Nat, duration : Nat]
        BY <1>1, <3>1, SeqElement
      <3>3. getPolicy'[id] = [coverStartAt |-> now,
                              coverageDuration |-> q.covers[id - policyIdx + 1].duration,
                              coverageAmount |-> q.covers[id - policyIdx + 1].amount,
                              exist |-> TRUE, expired |-> FALSE]
        BY <2>1 DEF SPBuyPolicy
      <3> QED  BY <3>2, <3>3
    <2>2. CASE id \notin bought
      BY <2>2 DEF SPBuyPolicy, SPTypeOK
    <2> QED  BY <2>1, <2>2
  <1>4. getPolicy' \in [PolicyIds -> Policy]
    BY <1>3 DEF SPBuyPolicy
  <1>5. ownerOf' \in [PolicyIds -> Holders \cup {NoOwner}]
    BY <1>1 DEF SPBuyPolicy, SPTypeOK
  <1> QED  BY <1>1, <1>2, <1>4, <1>5 DEF SPBuyPolicy, SPTypeOK

\* policySale keeps the types of the book.
LEMMA SaleType ==
    ASSUME CATypeOK, NEW amount \in Nat, PolicySale(amount)
    PROVE  CATypeOK'
  BY DEF PolicySale, CATypeOK, caVars, caBook, caParams, caCover

\* updatePolicyStatus keeps the types of the book and of the policies.
LEMMA StatusType ==
    ASSUME CATypeOK, SPTypeOK, NEW id \in PolicyIds, UpdatePolicyStatus(id)
    PROVE  CATypeOK' /\ SPTypeOK'
  <1>1. coverage(id) \in Nat
    BY DEF SPTypeOK, coverage
  <1>2. SPTypeOK'
    BY DEF UpdatePolicyStatus, SPUpdatePolicyExpired, BurnPolicy, SPTypeOK
  <1> QED  BY <1>1, <1>2 DEF UpdatePolicyStatus, ReleaseCoverage, CATypeOK, caBook, caParams

\* The admin's markToClaimPolicy keeps the types of the book and of the policies.
LEMMA AdminClaimType ==
    ASSUME CATypeOK, SPTypeOK, NEW id \in PolicyIds, AdminMarkToClaimPolicy(id)
    PROVE  CATypeOK' /\ SPTypeOK'
  BY MarkToClaimType DEF AdminMarkToClaimPolicy, CATypeOK, caBook, caParams

\* A new SalesPolicy contract is well-typed.
LEMMA FreshType ==
    ASSUME FreshSalesPolicy
    PROVE  SPTypeOK' /\ claimedAmount' \in [PolicyIds -> Nat]
  <1>1. getPolicy' \in [PolicyIds -> [coverStartAt : Nat, coverageDuration : Nat,
                                      coverageAmount : Nat,
                                      exist : BOOLEAN, expired : BOOLEAN]]
    BY DEF FreshSalesPolicy, ZeroPolicy
  <1>2. policyIdx' \in 0 .. MaxPolicies
    BY SalesAssumption DEF FreshSalesPolicy
  <1> QED  BY <1>1, <1>2 DEF FreshSalesPolicy, SPTypeOK

-----------------------------------------------------------------------------
(* Administration.                                                         *)

\* addPool and addPoolByAdmin keep the types of the book.
LEMMA AddPoolType ==
    ASSUME CATypeOK, NEW pool \in Pools, NEW c \in Currencies, NEW scr \in Nat,
           AddPoolByAdmin(pool, c, scr)
    PROVE  CATypeOK'
  BY DEF AddPoolByAdmin, NoPool, CATypeOK, caParams, caCover

\* removePool takes no more off a currency than is on the book for it.
LEMMA RemovePoolType ==
    ASSUME CATypeOK, NEW pool \in Pools, RemovePool(pool)
    PROVE  CATypeOK'
  <1>1. NoPool(poolInfo[pool].currency, 0, FALSE) \in PoolType
    BY DEF CATypeOK, NoPool, PoolType
  <1>2. poolInfo' \in [Pools -> PoolType]
    BY <1>1 DEF RemovePool, CATypeOK, PoolType
  <1>3. totalCapitalStakedByCurrency' \in [Currencies -> Nat]
    BY DEF RemovePool, CATypeOK
  <1> QED  BY <1>2, <1>3 DEF RemovePool, CATypeOK, PoolType, caParams, caCover

\* setPoolCapital keeps the types of the book.
LEMMA SetPoolCapitalType ==
    ASSUME CATypeOK, NEW pool \in Pools, NEW capital \in Nat, SetPoolCapital(pool, capital)
    PROVE  CATypeOK'
  BY DEF SetPoolCapital, CATypeOK, caParams, caCover

\* The parameters, and the two functions that replace the sales policy.
LEMMA ParameterType ==
    ASSUME CATypeOK, NEW pool \in Pools, NEW c \in Currencies, NEW figure \in Nat,
           \/ SetMCR(figure)
           \/ SetMLR(figure)
           \/ SetSCR(pool, figure)
           \/ RateMoves(c, figure)
           \/ \E isListed \in BOOLEAN : SetPoolWhiteList(pool, isListed)
           \/ RemovePolicy
    PROVE  CATypeOK'
  <1>1. CASE SetMCR(figure) \/ SetMLR(figure)
    BY <1>1 DEF SetMCR, SetMLR, CATypeOK, caBook, caCover
  <1>2. CASE RateMoves(c, figure)
    BY <1>2 DEF RateMoves, CATypeOK, caBook, caCover
  <1>3. CASE RemovePolicy
    BY <1>3 DEF RemovePolicy, CATypeOK, caBook, caParams
  <1>4. CASE SetSCR(pool, figure)
    BY <1>4 DEF SetSCR, CATypeOK, caParams, caCover
  <1>5. CASE \E isListed \in BOOLEAN : SetPoolWhiteList(pool, isListed)
    BY <1>5 DEF SetPoolWhiteList, CATypeOK, caBook, caCover
  <1> QED  BY <1>1, <1>2, <1>3, <1>4, <1>5

\* setPolicy and setPolicyByAdmin keep the types of the book and of the policies.
LEMMA ReplacePolicyType ==
    ASSUME CATypeOK, SPTypeOK, SetPolicy \/ SetPolicyByAdmin
    PROVE  CATypeOK' /\ SPTypeOK'
  <1>1. SPTypeOK' /\ claimedAmount' \in [PolicyIds -> Nat]
    <2>1. CASE FreshSalesPolicy
      BY <2>1, FreshType
    <2>2. CASE UNCHANGED <<spVars, claimedAmount>>
      BY <2>2 DEF SPTypeOK, spVars, CATypeOK
    <2> QED  BY <2>1, <2>2 DEF SetPolicy, SetPolicyByAdmin
  <1>2. /\ policyInfo' = [utilizedAmount |-> 0, exist |-> TRUE]
        /\ UNCHANGED <<totalUtilizedAmount, caBook, caParams>>
    BY Zenon DEF SetPolicy, SetPolicyByAdmin
  <1> QED  BY <1>1, <1>2 DEF CATypeOK, caBook, caParams

-----------------------------------------------------------------------------
(* The policies sold.                                                      *)

\* The invariant: it also says that what is not sold yet is blank, which the
\* sale of a policy needs, for a payout may name any id.
UnsoldIsBlank ==
    \A id \in PolicyIds : id >= policyIdx =>
        getPolicy[id] = ZeroPolicy /\ ownerOf[id] = NoOwner

CoverInv ==
    ClaimsWithinCoverage /\ FullyPaidIsClosed /\ TokenIsActive /\ UnsoldIsBlank

\* A step that changes neither a policy nor a payout keeps CoverInv.
LEMMA CoverUnchanged ==
    ASSUME CoverInv, UNCHANGED <<spVars, claimedAmount>>
    PROVE  CoverInv'
  BY DEF CoverInv, ClaimsWithinCoverage, FullyPaidIsClosed, TokenIsActive, UnsoldIsBlank,
         coverage, Active, spVars

\* CoverInv holds of a new SalesPolicy contract.
LEMMA CoverFresh ==
    ASSUME FreshSalesPolicy
    PROVE  CoverInv'
  BY DEF FreshSalesPolicy, CoverInv, ClaimsWithinCoverage, FullyPaidIsClosed, TokenIsActive,
         UnsoldIsBlank, coverage, Active, ZeroPolicy

\* Closing a policy, as claimed or as expired, keeps the coverage of every one.
LEMMA CoverClosed ==
    ASSUME SPTypeOK, CATypeOK, TokenIsActive, UnsoldIsBlank, NEW id \in PolicyIds,
           SPMarkToClaim(id) \/ SPUpdatePolicyExpired(id)
    PROVE  /\ TokenIsActive' /\ UnsoldIsBlank'
           /\ \A i \in PolicyIds : coverage(i)' = coverage(i)
           /\ \A i \in PolicyIds : getPolicy'[i].exist => getPolicy[i].exist
           /\ SPMarkToClaim(id) => ~ getPolicy'[id].exist
  <1>1. policyIdx' = policyIdx
    BY DEF SPMarkToClaim, SPUpdatePolicyExpired
  <1>2. id < policyIdx
    BY DEF SPMarkToClaim, SPUpdatePolicyExpired, UnsoldIsBlank, ZeroPolicy, SPTypeOK, PolicyIds
  <1>3. ownerOf' = [ownerOf EXCEPT ![id] = NoOwner]
    BY DEF SPMarkToClaim, SPUpdatePolicyExpired, BurnPolicy
  <1>4. \A i \in PolicyIds : i # id => getPolicy'[i] = getPolicy[i]
    BY DEF SPMarkToClaim, SPUpdatePolicyExpired, SPTypeOK
  <1>5. /\ getPolicy'[id].coverageAmount = getPolicy[id].coverageAmount
        /\ getPolicy'[id].exist => getPolicy[id].exist
        /\ SPMarkToClaim(id) => ~ getPolicy'[id].exist
        /\ ~ Active(id)'
    BY DEF SPMarkToClaim, SPUpdatePolicyExpired, SPTypeOK, Active
  <1>6. TokenIsActive'
    BY <1>3, <1>4, <1>5 DEF TokenIsActive, Active, SPTypeOK
  <1>7. UnsoldIsBlank'
    BY <1>1, <1>2, <1>3, <1>4 DEF UnsoldIsBlank, SPTypeOK, PolicyIds
  <1> QED  BY <1>4, <1>5, <1>6, <1>7 DEF coverage

\* The admin, or the end of a policy, closes it without a payout.
LEMMA CoverReleased ==
    ASSUME SPTypeOK, CATypeOK, CoverInv, NEW id \in PolicyIds,
           AdminMarkToClaimPolicy(id) \/ UpdatePolicyStatus(id)
    PROVE  CoverInv'
  <1>1. /\ SPMarkToClaim(id) \/ SPUpdatePolicyExpired(id)
        /\ claimedAmount' = claimedAmount
    BY DEF AdminMarkToClaimPolicy, UpdatePolicyStatus, MarkToClaimPolicy
  <1> QED  BY <1>1, CoverClosed DEF CoverInv, ClaimsWithinCoverage, FullyPaidIsClosed

\* A payout is added up within the coverage, and closes the policy at its end.
LEMMA CoverPaid ==
    ASSUME SPTypeOK, CATypeOK, CoverInv, NEW pool \in Pools, NEW amount \in Nat,
           NEW id \in PolicyIds, SSIPPolicyClaim(pool, amount, id)
    PROVE  CoverInv'
  <1> DEFINE paid == ClaimInUSDC(pool, amount)
  <1>1. paid \in Nat /\ claimedAmount \in [PolicyIds -> Nat]
    BY ClaimNat DEF CATypeOK
  <1>2. /\ claimedAmount' = [claimedAmount EXCEPT ![id] = @ + paid]
        /\ coverage(id) >= paid + claimedAmount[id]
    BY DEF SSIPPolicyClaim, CoversPayout
  <1>3. coverage(id) \in Nat
    BY DEF SPTypeOK, coverage
  <1>4. CASE UsesUpCoverage(pool, amount, id)
    <2>1. SPMarkToClaim(id)
      BY <1>4 DEF SSIPPolicyClaim, MarkToClaimPolicy
    <2>2. /\ TokenIsActive' /\ UnsoldIsBlank'
          /\ \A i \in PolicyIds : coverage(i)' = coverage(i)
          /\ \A i \in PolicyIds : getPolicy'[i].exist => getPolicy[i].exist
          /\ ~ getPolicy'[id].exist
      BY <2>1, CoverClosed DEF CoverInv
    <2>3. ClaimsWithinCoverage'
      BY <1>1, <1>2, <1>3, <2>2 DEF CoverInv, ClaimsWithinCoverage
    <2>4. FullyPaidIsClosed'
      BY <1>1, <1>2, <2>2 DEF CoverInv, FullyPaidIsClosed
    <2> QED  BY <2>2, <2>3, <2>4 DEF CoverInv
  <1>5. CASE ~ UsesUpCoverage(pool, amount, id)
    <2>1. UNCHANGED spVars
      BY <1>5 DEF SSIPPolicyClaim
    <2>2. coverage(id) > paid + claimedAmount[id]
      BY <1>1, <1>3, <1>5 DEF UsesUpCoverage
    <2>3. ClaimsWithinCoverage'
      BY <1>1, <1>2, <1>3, <2>1 DEF CoverInv, ClaimsWithinCoverage, coverage, spVars
    <2>4. FullyPaidIsClosed'
      BY <1>1, <1>2, <1>3, <2>1, <2>2 DEF CoverInv, FullyPaidIsClosed, coverage, spVars
    <2>5. TokenIsActive' /\ UnsoldIsBlank'
      BY <2>1 DEF CoverInv, TokenIsActive, UnsoldIsBlank, Active, spVars
    <2> QED  BY <2>3, <2>4, <2>5 DEF CoverInv
  <1> QED  BY <1>4, <1>5

\* A sale: the new policies are active, owned, and nothing is paid on them yet.
LEMMA CoverSold ==
    ASSUME SPTypeOK, CATypeOK, CoverInv, now \in Nat, NEW q \in Quotes,
           SPBuyPolicy(q), UNCHANGED claimedAmount
    PROVE  CoverInv'
  <1> DEFINE n == Len(q.covers)
             bought == policyIdx .. policyIdx + n - 1
  <1>1. /\ q.covers \in Seq([amount : Nat, duration : Nat])
        /\ q.sender \in Holders /\ NoOwner \notin Holders
        /\ n \in Nat /\ policyIdx \in Nat
    BY SalesAssumption DEF SPTypeOK
  <1>2. policyIdx' = policyIdx + n
    BY DEF SPBuyPolicy
  <1>3. ASSUME NEW id \in PolicyIds, id \notin bought
        PROVE  getPolicy'[id] = getPolicy[id] /\ ownerOf'[id] = ownerOf[id]
    BY <1>3 DEF SPBuyPolicy
  <1>4. ASSUME NEW id \in PolicyIds, id \in bought
        PROVE  /\ getPolicy'[id].exist /\ ~ getPolicy'[id].expired
               /\ getPolicy'[id].coverageAmount \in Nat
               /\ ownerOf'[id] # NoOwner
               /\ claimedAmount[id] = 0
    <2>1. id >= policyIdx /\ id - policyIdx + 1 \in 1 .. n
      BY <1>1, <1>4 DEF PolicyIds
    <2>2. q.covers[id - policyIdx + 1] \in [amount : Nat, duration : Nat]
      BY <1>1, <2>1, SeqElement
    <2>3. getPolicy'[id] = [coverStartAt |-> now,
                            coverageDuration |-> q.covers[id - policyIdx + 1].duration,
                            coverageAmount |-> q.covers[id - policyIdx + 1].amount,
                            exist |-> TRUE, expired |-> FALSE]
      BY <1>4 DEF SPBuyPolicy
    <2>4. ownerOf'[id] = q.sender
      BY <1>4 DEF SPBuyPolicy
    <2>5. claimedAmount[id] = 0
      <3>1. coverage(id) = 0
        BY <2>1 DEF CoverInv, UnsoldIsBlank, coverage, ZeroPolicy
      <3>2. claimedAmount[id] \in Nat /\ claimedAmount[id] <= coverage(id)
        BY DEF CoverInv, ClaimsWithinCoverage, CATypeOK
      <3> QED  BY <3>1, <3>2
    <2> QED  BY <1>1, <2>2, <2>3, <2>4, <2>5
  <1>5. ClaimsWithinCoverage'
    BY <1>3, <1>4 DEF CoverInv, ClaimsWithinCoverage, coverage
  <1>6. FullyPaidIsClosed'
    BY <1>3, <1>4 DEF CoverInv, FullyPaidIsClosed, coverage
  <1>7. TokenIsActive'
    BY <1>3, <1>4 DEF CoverInv, TokenIsActive, Active
  <1>8. UnsoldIsBlank'
    BY <1>1, <1>2, <1>3 DEF CoverInv, UnsoldIsBlank, PolicyIds
  <1> QED  BY <1>5, <1>6, <1>7, <1>8 DEF CoverInv

\* The transfer of a policy, and the pausing of sales.
LEMMA CoverTransferred ==
    ASSUME SPTypeOK, CoverInv, NEW id \in PolicyIds, NEW to \in Holders,
           SPTransferPolicy(id, to), UNCHANGED claimedAmount
    PROVE  CoverInv'
  <1>1. NoOwner # to
    BY SalesAssumption
  <1> QED  BY <1>1 DEF SPTransferPolicy, SPTypeOK, CoverInv, ClaimsWithinCoverage,
              FullyPaidIsClosed, TokenIsActive, UnsoldIsBlank, coverage, Active, ZeroPolicy
=============================================================================
