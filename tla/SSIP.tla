-------------------------------- MODULE SSIP --------------------------------
(***************************************************************************)
(* SingleSidedInsurancePool: stakers put the currency into the pool's      *)
(* RiskPool, earn rewards from the Rewarder, and leave in two steps, a     *)
(* withdraw request and, lockTime later, the withdrawal.  Meanwhile the    *)
(* stake answers for claims.  Every movement is reported to the            *)
(* CapitalAgent.                                                           *)
(*                                                                         *)
(* The model composes the four contracts: one action per external          *)
(* function, which makes every call the function makes in the RiskPool,    *)
(* the CapitalAgent, the SalesPolicy and the Rewarder.  It starts after    *)
(* deployment: createRiskPool has registered the pool with the agent.      *)
(*                                                                         *)
(* The currency is a token (UNO, USDC and USDT in three of the deployed    *)
(* pools), and paying it runs no code of the one who is paid.  In a pool   *)
(* of ETH it does; of settlePayout, which carries no nonReentrant, that    *)
(* makes two steps: see EthPool.                                           *)
(***************************************************************************)
EXTENDS RiskPool, CapitalAgent

CONSTANTS
    ThisPool,           \* the address of this pool
    UNO,                \* the currency staked, a token; also the reward currency
    ACC_UNO_PRECISION,  \* the unit of accUnoPerShare, 1e18 in the code
    InitialUno,         \* what every staker owns at first
    InitialLockTime,    \* 10 days in the code
    InitialMultiplier,  \* reward per block
    InitialMinLPCapital,
    InitialMLR,
    InitialRewarder,    \* whether createRewarder has been called
    InitialRewards,     \* what the Rewarder is funded with at first
    Amounts,            \* bound: amounts of currency users and admins name
    LpAmounts,          \* bound: amounts of LP tokens users name
    Times,              \* bound: durations admins name
    MaxCapital          \* bound: no stake or request is made beyond it

ASSUME PoolAssumption ==
    /\ ThisPool \in Pools
    /\ UNO \in Currencies
    /\ ACC_UNO_PRECISION \in Nat \ {0}
    /\ InitialUno \in Nat /\ InitialLockTime \in Nat /\ InitialMultiplier \in Nat
    /\ InitialRewarder \in BOOLEAN
    /\ InitialMinLPCapital \in Nat /\ InitialMLR \in Nat /\ InitialRewards \in Nat
    /\ Amounts \subseteq Nat /\ LpAmounts \subseteq Nat /\ Times \subseteq Nat
    /\ MaxCapital \in Nat

VARIABLES
    userInfo,               \* [Users -> UserInfo]
    accUnoPerShare,         \* poolInfo: reward per LP token, accumulated
    lastRewardBlock,        \*   when it was last brought up to date
    unoMultiplierPerBlock,  \*   reward per block
    lockTime,
    stakingStartTime,
    paused, killed,
    emergencyWithdrawAllowed,
    migrateTo,              \* whether a pool to migrate to is set
    rewarder,               \* whether a Rewarder is set
    rewarderPaused,
    rewarderBalance,        \* what it holds of the currency
    uno                     \* [Users -> Nat], the stakers' own currency

rewardVars == <<accUnoPerShare, lastRewardBlock, unoMultiplierPerBlock>>
rewarderVars == <<rewarder, rewarderPaused, rewarderBalance>>
switches == <<lockTime, stakingStartTime, paused, killed,
              emergencyWithdrawAllowed, migrateTo>>
vars == <<now, spVars, caVars, rpVars, userInfo, rewardVars, rewarderVars,
          switches, uno>>

NoUser == [amount |-> 0, rewardDebt |-> 0, lastWithdrawTime |-> 0,
           isNotRollOver |-> FALSE]

OwnTypeOK ==
    /\ userInfo \in [Users -> [amount : Nat, rewardDebt : Nat,
                               lastWithdrawTime : Nat, isNotRollOver : BOOLEAN]]
    /\ accUnoPerShare \in Nat
    /\ lastRewardBlock \in Nat
    /\ unoMultiplierPerBlock \in Nat
    /\ lockTime \in Nat /\ stakingStartTime \in Nat
    /\ paused \in BOOLEAN /\ killed \in BOOLEAN
    /\ emergencyWithdrawAllowed \in BOOLEAN /\ migrateTo \in BOOLEAN
    /\ rewarder \in BOOLEAN /\ rewarderPaused \in BOOLEAN
    /\ rewarderBalance \in Nat
    /\ uno \in [Users -> Nat]

\* Every variable has the type of its Solidity declaration; in particular no
\* subtraction of the four contracts takes a figure below zero.
TypeOK == now \in Nat /\ SPTypeOK /\ CATypeOK /\ RPTypeOK /\ OwnTypeOK

Init ==
    /\ now = 1
    /\ SPInit
    /\ RPInit(InitialMinLPCapital)
    /\ poolInfo = [p \in Pools |-> NoPool(UNO, 0, TRUE)]
    /\ existedCurrencies = {UNO}
    /\ totalCapitalStakedByCurrency = [c \in Currencies |-> 0]
    /\ policyInfo = [utilizedAmount |-> 0, exist |-> TRUE]
    /\ totalUtilizedAmount = 0
    /\ MCR = 0 /\ MLR = InitialMLR
    /\ poolWhiteList = Pools
    /\ claimedAmount = [id \in PolicyIds |-> 0]
    /\ usdcRate \in [Currencies -> Rates]
    /\ userInfo = [u \in Users |-> NoUser]
    /\ accUnoPerShare = 0
    /\ lastRewardBlock = now
    /\ unoMultiplierPerBlock = InitialMultiplier
    /\ lockTime = InitialLockTime
    /\ stakingStartTime = 0
    /\ paused = FALSE /\ killed = FALSE
    /\ emergencyWithdrawAllowed = FALSE /\ migrateTo = FALSE
    /\ rewarder = InitialRewarder /\ rewarderPaused = FALSE
    /\ rewarderBalance = IF rewarder THEN InitialRewards ELSE 0
    /\ uno = [u \in Users |-> InitialUno]

-----------------------------------------------------------------------------
(* Rewards.                                                                *)

\* accUnoPerShare as updatePool leaves it
UpdatedAcc ==
    IF now > lastRewardBlock /\ totalSupply > 0
    THEN accUnoPerShare +
           ((now - lastRewardBlock) * unoMultiplierPerBlock * ACC_UNO_PRECISION)
             \div totalSupply
    ELSE accUnoPerShare

UpdatePool ==
    /\ accUnoPerShare' = UpdatedAcc
    /\ lastRewardBlock' = IF now > lastRewardBlock THEN now ELSE lastRewardBlock
    /\ UNCHANGED unoMultiplierPerBlock

\* what lp tokens have earned since the beginning, after updatePool
Accumulated(lp) == (lp * UpdatedAcc) \div ACC_UNO_PRECISION

\* what _enterInPool adds to the reward debt for a stake of `amount`
\* (deviation first: a new stake counts as if it had always been there)
EntryDebtNone(amount) == 0

EntryDebt(amount) ==
    ((amount * ONE * UpdatedAcc) \div lpPriceUno) \div ACC_UNO_PRECISION

\* _updateReward: a user with a withdraw request is passed over
Requested(u) == withdrawRequestPerUser[u].requestTime > 0

RewardDefined(u) == Requested(u) \/ Accumulated(userInfo[u].amount) >= userInfo[u].rewardDebt
Reward(u) == IF Requested(u) THEN 0
             ELSE Accumulated(userInfo[u].amount) - userInfo[u].rewardDebt
DebtAfterReward(u) == IF Requested(u) THEN userInfo[u].rewardDebt
                      ELSE Accumulated(userInfo[u].amount)

\* Rewarder.onReward
OnReward(amount, accumulatedAmount) ==
    /\ ~ rewarderPaused
    /\ Accumulated(accumulatedAmount) > amount
    /\ rewarderBalance >= amount
    /\ rewarderBalance' = rewarderBalance - amount
    /\ UNCHANGED <<rewarder, rewarderPaused>>

\* _harvest, but for the new reward debt: without a Rewarder the reward is
\* marked as paid all the same
HarvestPay(u) == IF rewarder THEN Reward(u) ELSE 0

Harvest(u) ==
    /\ UpdatePool
    /\ RewardDefined(u)
    /\ IF HarvestPay(u) # 0
         THEN OnReward(Reward(u), userInfo[u].amount)
         ELSE UNCHANGED rewarderVars

-----------------------------------------------------------------------------
(* What stakers and the bot do.                                            *)

WhenNotPaused == ~ paused
IsAlive == ~ killed
IsStartTime == now >= stakingStartTime

Pay(u, amount) == uno' = [uno EXCEPT ![u] = @ + amount]

EnterInPool(u, amount) ==
    /\ WhenNotPaused /\ IsAlive /\ IsStartTime
    /\ uno[u] >= amount
    /\ amount # 0
    /\ uno' = [uno EXCEPT ![u] = @ - amount]
    /\ cryptoBalance' = cryptoBalance + amount
    /\ UpdatePool
    /\ RPEnter([v \in Users |-> IF v = u THEN ToLp(amount) ELSE 0], ToLp(amount))
    /\ userInfo' = [userInfo EXCEPT ![u].rewardDebt = @ + EntryDebt(amount),
                                    ![u].amount = @ + ToLp(amount)]
    /\ SSIPStaking(ThisPool, amount)
    /\ UNCHANGED <<now, spVars, rewarderVars, switches>>

\* deviation: a second request keeps the clock of the first
AfterRequestKeepingClock(u) ==
    [userInfo EXCEPT ![u].rewardDebt = DebtAfterReward(u)]

\* a request restarts the clock of the user's withdrawals
AfterRequest(u) ==
    [userInfo EXCEPT ![u].rewardDebt = DebtAfterReward(u),
                     ![u].lastWithdrawTime = now]

LeaveFromPoolInPending(u, amount) ==
    /\ WhenNotPaused /\ IsStartTime
    /\ Harvest(u)
    /\ CheckCapitalByMCR(ThisPool, amount)
    /\ userInfo[u].amount >= pendingAmount(u)
    /\ lpPriceUno > 0
    /\ userInfo[u].amount - pendingAmount(u) >= ToLp(amount)
    /\ RPLeaveFromPoolInPending(u, amount, now)
    /\ userInfo' = AfterRequest(u)
    /\ UpdatePoolWithdrawPendingCapital(ThisPool, ThisPool, amount, TRUE)
    /\ Pay(u, HarvestPay(u))
    /\ UNCHANGED <<now, spVars, switches>>

LeaveFromPending(u, lp) ==
    /\ IsStartTime /\ WhenNotPaused
    /\ lp > 0
    /\ now - userInfo[u].lastWithdrawTime >= lockTime
    /\ Harvest(u)
    /\ RPLeaveFromPending(u, lp)
    /\ SSIPWithdraw(ThisPool, LeaveUno(lp))
    /\ userInfo[u].amount >= LeaveLp(u, lp)
    /\ userInfo' = [userInfo EXCEPT
                      ![u].rewardDebt = Accumulated(userInfo[u].amount)
                                          - Accumulated(LeaveLp(u, lp)),
                      ![u].amount = @ - LeaveLp(u, lp)]
    /\ Pay(u, HarvestPay(u) + LeaveUno(lp))
    /\ UNCHANGED <<now, spVars, switches>>

CancelWithdrawRequest(u) ==
    /\ WhenNotPaused /\ IsAlive
    /\ RPCancelWithdrawRequest(u)
    /\ UpdatePoolWithdrawPendingCapital(ThisPool, ThisPool, pendingAmount(u), FALSE)
    /\ UNCHANGED <<now, spVars, userInfo, rewardVars, rewarderVars, switches, uno>>

\* transfer of LP tokens, with its callback lpTransfer
Transfer(from, to, lp) ==
    /\ RPTransfer(from, to, lp)
    /\ WhenNotPaused /\ IsAlive
    /\ Harvest(from)
    /\ userInfo[from].amount >= pendingAmount(from)
    /\ userInfo[from].amount - pendingAmount(from) >= lp
    /\ LET sent == [userInfo EXCEPT
                      ![from].rewardDebt = Accumulated(userInfo[from].amount) - Accumulated(lp),
                      ![from].amount = @ - lp]
       IN  userInfo' = [sent EXCEPT ![to].rewardDebt = @ + Accumulated(lp),
                                    ![to].amount = @ + lp]
    /\ Pay(from, HarvestPay(from))
    /\ UNCHANGED <<now, spVars, caVars, switches>>

HarvestReward(u) ==
    /\ WhenNotPaused /\ IsAlive /\ IsStartTime
    /\ Harvest(u)
    /\ userInfo' = [userInfo EXCEPT ![u].rewardDebt = DebtAfterReward(u)]
    /\ Pay(u, HarvestPay(u))
    /\ UNCHANGED <<now, spVars, caVars, rpVars, switches>>

\* rollOverReward of the users in S: all of them or, if one cannot, none.
\* What they are owed together is what leaves the Rewarder.  Bound: the bot's
\* list names no address twice.
RollOverReward(S) ==
    /\ IsStartTime /\ WhenNotPaused /\ IsAlive
    /\ rewarder
    /\ lpPriceUno > 0
    /\ \A u \in S : /\ ~ userInfo[u].isNotRollOver
                    /\ RewardDefined(u)
                    /\ Reward(u) # 0
    /\ UpdatePool
    /\ \E total \in 0 .. rewarderBalance :
         /\ total = SumFunction([u \in S |-> Reward(u)])
         /\ OnReward(total, SumFunction([u \in S |-> userInfo[u].amount]))
         /\ \E minted \in 0 .. ToLp(total) :
              /\ minted = SumFunction([u \in S |-> ToLp(Reward(u))])
              /\ RPEnter([u \in Users |-> IF u \in S THEN ToLp(Reward(u)) ELSE 0], minted)
         /\ cryptoBalance' = cryptoBalance + total
         /\ SSIPStaking(ThisPool, total)
    /\ userInfo' = [u \in Users |->
         IF u \in S
         THEN [userInfo[u] EXCEPT
                 !.rewardDebt = Accumulated(userInfo[u].amount) + EntryDebt(Reward(u)),
                 !.amount = @ + ToLp(Reward(u))]
         ELSE userInfo[u]]
    /\ UNCHANGED <<now, spVars, switches, uno>>

ToggleRollOver(u) ==
    /\ userInfo' = [userInfo EXCEPT ![u].isNotRollOver = ~ @]
    /\ UNCHANGED <<now, spVars, caVars, rpVars, rewardVars, rewarderVars, switches, uno>>

PublicUpdatePool ==
    /\ UpdatePool
    /\ UNCHANGED <<now, spVars, caVars, rpVars, userInfo, rewarderVars, switches, uno>>

\* The stake moves to the pool migrateTo names; an unlocked request is paid.
\* (deviation first: the migration of a killed pool)
MigrateFromKilled(u) ==
    LET isUnLocked == now - userInfo[u].lastWithdrawTime > lockTime
    IN  /\ WhenNotPaused
        /\ migrateTo
        /\ Harvest(u)
        /\ RPMigrateLP(u, isUnLocked)
        /\ SSIPMigrated(ThisPool, MigratedAmount(u, isUnLocked))
        /\ userInfo' = [userInfo EXCEPT ![u].amount = 0, ![u].rewardDebt = 0]
        /\ Pay(u, HarvestPay(u) + MigratePaid(u, isUnLocked))
        /\ UNCHANGED <<now, spVars, switches>>

Migrate(u) ==
    LET isUnLocked == now - userInfo[u].lastWithdrawTime > lockTime
    IN  /\ WhenNotPaused /\ IsAlive
        /\ migrateTo
        /\ Harvest(u)
        /\ RPMigrateLP(u, isUnLocked)
        /\ SSIPMigrated(ThisPool, MigratedAmount(u, isUnLocked))
        /\ userInfo' = [userInfo EXCEPT ![u].amount = 0, ![u].rewardDebt = 0]
        /\ Pay(u, HarvestPay(u) + MigratePaid(u, isUnLocked))
        /\ UNCHANGED <<now, spVars, switches>>

EmergencyWithdraw(u) ==
    /\ WhenNotPaused
    /\ emergencyWithdrawAllowed
    /\ userInfo[u].amount > 0
    /\ userInfo' = [userInfo EXCEPT ![u] = NoUser]
    /\ RPEmergencyWithdraw(u, userInfo[u].amount)
    /\ Pay(u, ToUno(userInfo[u].amount))
    /\ UNCHANGED <<now, spVars, caVars, rewardVars, rewarderVars, switches>>

-----------------------------------------------------------------------------
(* Cover: sales, expiries and payouts.                                     *)

stakerVars == <<userInfo, rewardVars, rewarderVars, switches, uno>>

\* settlePayout, by a CLAIM_PROCESSOR; deviations: what was asked for is
\* reported to the agent instead of what was paid; a paused pool pays
SettlePayoutAsAsked(id, amount) ==
    /\ WhenNotPaused /\ IsAlive
    /\ RPPolicyClaim(amount)
    /\ SSIPPolicyClaim(ThisPool, amount, id)
    /\ UNCHANGED <<now, stakerVars>>

SettlePayoutWhilePaused(id, amount) ==
    /\ IsAlive
    /\ RPPolicyClaim(amount)
    /\ SSIPPolicyClaim(ThisPool, RealClaimAmount(amount), id)
    /\ UNCHANGED <<now, stakerVars>>

SettlePayout(id, amount) ==
    /\ WhenNotPaused /\ IsAlive
    /\ RPPolicyClaim(amount)
    /\ SSIPPolicyClaim(ThisPool, RealClaimAmount(amount), id)
    /\ UNCHANGED <<now, stakerVars>>

BuyPolicy(q) ==
    /\ SPBuyPolicy(q)
    /\ PolicySale(CoverTotal(q))
    /\ UNCHANGED <<now, rpVars, stakerVars>>

ExpirePolicy(id) ==
    /\ UpdatePolicyStatus(id)
    /\ UNCHANGED <<now, rpVars, stakerVars>>

AdminClaim(id) ==
    /\ AdminMarkToClaimPolicy(id)
    /\ UNCHANGED <<now, rpVars, stakerVars>>

-----------------------------------------------------------------------------
(* Administration.                                                         *)

contracts == <<now, spVars, caVars, rpVars>>

\* pausePool, unpausePool; killPool and revivePool
SetPaused(isPaused) ==
    /\ paused # isPaused
    /\ paused' = isPaused
    /\ UNCHANGED <<contracts, userInfo, rewardVars, rewarderVars, uno, killed,
                   lockTime, stakingStartTime, emergencyWithdrawAllowed, migrateTo>>

SetKilled(isKilled) ==
    /\ killed' = isKilled
    /\ UNCHANGED <<contracts, userInfo, rewardVars, rewarderVars, uno, paused,
                   lockTime, stakingStartTime, emergencyWithdrawAllowed, migrateTo>>

SetLockTime(time) ==
    /\ time > 0
    /\ lockTime' = time
    /\ UNCHANGED <<contracts, userInfo, rewardVars, rewarderVars, uno, paused, killed,
                   stakingStartTime, emergencyWithdrawAllowed, migrateTo>>

SetStakingStartTime(delay) ==
    /\ stakingStartTime' = now + delay
    /\ UNCHANGED <<contracts, userInfo, rewardVars, rewarderVars, uno, paused, killed,
                   lockTime, emergencyWithdrawAllowed, migrateTo>>

ToggleEmergencyWithdraw ==
    /\ emergencyWithdrawAllowed' = ~ emergencyWithdrawAllowed
    /\ UNCHANGED <<contracts, userInfo, rewardVars, rewarderVars, uno, paused, killed,
                   lockTime, stakingStartTime, migrateTo>>

SetMigrateTo ==
    /\ migrateTo' = TRUE
    /\ UNCHANGED <<contracts, userInfo, rewardVars, rewarderVars, uno, paused, killed,
                   lockTime, stakingStartTime, emergencyWithdrawAllowed>>

\* the new rate counts from lastRewardBlock on: updatePool is not called
SetRewardMultiplier(multiplier) ==
    /\ multiplier > 0
    /\ unoMultiplierPerBlock' = multiplier
    /\ UNCHANGED <<contracts, userInfo, accUnoPerShare, lastRewardBlock,
                   rewarderVars, switches, uno>>

SetMinLPCapital(amount) ==
    /\ RPSetMinLPCapital(amount)
    /\ UNCHANGED <<now, spVars, caVars, stakerVars>>

\* createRewarder replaces the Rewarder by a new one, which holds nothing
CreateRewarder ==
    /\ rewarder' = TRUE /\ rewarderPaused' = FALSE /\ rewarderBalance' = 0
    /\ UNCHANGED <<contracts, userInfo, rewardVars, switches, uno>>

\* anyone sends currency to the Rewarder; its operator pauses it or takes the
\* currency out, all of it when it holds less than asked
FundRewarder(u, amount) ==
    /\ rewarder
    /\ uno[u] >= amount
    /\ uno' = [uno EXCEPT ![u] = @ - amount]
    /\ rewarderBalance' = rewarderBalance + amount
    /\ UNCHANGED <<contracts, userInfo, rewardVars, switches, rewarder, rewarderPaused>>

SetRewarderPaused(isPaused) ==
    /\ rewarder
    /\ rewarderPaused # isPaused
    /\ rewarderPaused' = isPaused
    /\ UNCHANGED <<contracts, userInfo, rewardVars, switches, uno, rewarder, rewarderBalance>>

RewarderWithdraw(to, amount) ==
    LET paid == IF rewarderBalance >= amount THEN amount ELSE rewarderBalance
    IN  /\ rewarder /\ ~ rewarderPaused
        /\ rewarderBalance' = rewarderBalance - paid
        /\ Pay(to, paid)
        /\ UNCHANGED <<contracts, userInfo, rewardVars, switches, rewarder, rewarderPaused>>

\* the CapitalAgent's operator, and its price feed
AgentParameters ==
    /\ \/ \E ratio \in Amounts : SetMCR(ratio) \/ SetMLR(ratio)
       \/ \E scr \in Amounts : SetSCR(ThisPool, scr)
       \/ \E rate \in Rates : RateMoves(UNO, rate)
    /\ UNCHANGED <<now, spVars, rpVars, stakerVars>>

\* The admin functions that replace a figure of the accounts.  setUserDetails
\* sets a stake and mints LP tokens for it.
SetUserDetails(u, amount, rewardDebt) ==
    /\ userInfo' = [userInfo EXCEPT ![u].amount = amount, ![u].rewardDebt = rewardDebt]
    /\ RPEnter([v \in Users |-> IF v = u THEN ToLp(amount) ELSE 0], ToLp(amount))
    /\ UNCHANGED <<now, spVars, caVars, cryptoBalance, rewardVars, rewarderVars,
                   switches, uno>>

SetLpPrice(price) ==
    /\ RPSetLpPriceUno(price)
    /\ UNCHANGED <<now, spVars, caVars, stakerVars>>

SetAccUnoPerShare(acc, block) ==
    /\ accUnoPerShare' = acc
    /\ lastRewardBlock' = block
    /\ UNCHANGED <<contracts, userInfo, unoMultiplierPerBlock, rewarderVars, switches, uno>>

OverwritePoolCapital(capital) ==
    /\ SetPoolCapital(ThisPool, capital)
    /\ UNCHANGED <<now, spVars, rpVars, stakerVars>>

-----------------------------------------------------------------------------
Time == Tick /\ UNCHANGED <<spVars, caVars, rpVars, stakerVars>>

\* bound of the model
BelowBound ==
    /\ totalSupply < MaxCapital
    /\ poolInfo[ThisPool].totalCapital < MaxCapital
    /\ poolInfo[ThisPool].totalWithdrawPendingCapital < MaxCapital

StakerNext ==
    \E u \in Users :
        \/ BelowBound /\ \E amount \in Amounts : EnterInPool(u, amount)
        \/ BelowBound /\ \E amount \in Amounts : LeaveFromPoolInPending(u, amount)
        \/ \E lp \in LpAmounts : LeaveFromPending(u, lp)
        \/ CancelWithdrawRequest(u)
        \/ \E to \in Users, lp \in LpAmounts : Transfer(u, to, lp)

RewardNext ==
    \/ \E u \in Users : HarvestReward(u)
    \/ BelowBound /\ \E S \in SUBSET Users : S # {} /\ RollOverReward(S)
    \/ \E u \in Users : ToggleRollOver(u)
    \/ PublicUpdatePool

CoverNext ==
    \/ \E id \in PolicyIds, amount \in Amounts : SettlePayout(id, amount)
    \/ \E q \in Quotes : BuyPolicy(q)
    \/ \E id \in PolicyIds : ExpirePolicy(id)
    \/ \E id \in PolicyIds : AdminClaim(id)

ParameterNext ==
    \/ \E isPaused \in BOOLEAN : SetPaused(isPaused)
    \/ \E isKilled \in BOOLEAN : SetKilled(isKilled)
    \/ \E time \in Times : SetLockTime(time)
    \/ \E delay \in Times : SetStakingStartTime(delay)
    \/ \E multiplier \in Amounts : SetRewardMultiplier(multiplier)
    \/ \E amount \in Amounts : SetMinLPCapital(amount)
    \/ AgentParameters

RewarderNext ==
    \/ CreateRewarder
    \/ \E u \in Users, amount \in Amounts : FundRewarder(u, amount)
    \/ \E isPaused \in BOOLEAN : SetRewarderPaused(isPaused)
    \/ \E to \in Users, amount \in Amounts : RewarderWithdraw(to, amount)

\* Stakers leaving by another door than the withdraw request.
ExitNext ==
    \/ ToggleEmergencyWithdraw
    \/ SetMigrateTo
    \/ \E u \in Users : Migrate(u)
    \/ \E u \in Users : EmergencyWithdraw(u)

OverrideNext ==
    \/ BelowBound /\ \E u \in Users, amount \in Amounts, rewardDebt \in Amounts :
                       SetUserDetails(u, amount, rewardDebt)
    \/ \E price \in Amounts : SetLpPrice(price)
    \/ \E acc \in Amounts, block \in Times : SetAccUnoPerShare(acc, block)
    \/ \E capital \in Amounts : OverwritePoolCapital(capital)

\* The pool in operation: stakers, cover, rewards and their parameters.
OperatingNext ==
    StakerNext \/ RewardNext \/ CoverNext \/ ParameterNext \/ RewarderNext \/ Time

Next == OperatingNext \/ ExitNext \/ OverrideNext

OperatingSpec == Init /\ [][OperatingNext]_vars

Spec == Init /\ [][Next]_vars
=============================================================================
