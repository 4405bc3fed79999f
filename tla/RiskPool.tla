------------------------------ MODULE RiskPool ------------------------------
(***************************************************************************)
(* The RiskPool contract: the vault that holds the staked currency of one  *)
(* insurance pool, and the LP token (RiskPoolERC20) that represents shares *)
(* of it.  Only the pool contract it belongs to (SSRP in the code, here    *)
(* the module SSIP) calls it; a token transfer calls back into that pool.  *)
(*                                                                         *)
(* Every external function is an operator on the state below: its          *)
(* conjuncts without primes are the `require`s, the checked subtractions   *)
(* and the divisions of the function (a failing one reverts the whole      *)
(* transaction), its primed conjuncts are the assignments.  The caller     *)
(* adds the clock and the UNCHANGED of what the function leaves alone.     *)
(***************************************************************************)
EXTENDS Integers, FiniteSets

CONSTANTS
    Users,  \* the stakers: the addresses that may hold LP tokens
    ONE     \* the fixed-point unit, 1e18 in the code

ASSUME OneAssumption == ONE \in Nat \ {0}

ASSUME UsersAssumption == IsFiniteSet(Users)

VARIABLES
    balances,               \* [Users -> Nat], LP tokens
    totalSupply,            \* LP tokens in existence
    withdrawRequestPerUser, \* [Users -> UserWithdrawRequestInfo]
    totalWithdrawPending,   \* LP tokens under a withdraw request
    lpPriceUno,             \* price of an LP token, in units of 1/ONE
    cryptoBalance,          \* what the currency's ledger says the vault holds
    MIN_LP_CAPITAL          \* what claims and withdrawals may never take

rpVars == <<balances, totalSupply, withdrawRequestPerUser,
            totalWithdrawPending, lpPriceUno, cryptoBalance, MIN_LP_CAPITAL>>

NoRequest == [pendingAmount |-> 0, requestTime |-> 0, pendingUno |-> 0]

RPTypeOK ==
    /\ balances \in [Users -> Nat]
    /\ totalSupply \in Nat
    /\ withdrawRequestPerUser \in
         [Users -> [pendingAmount : Nat, requestTime : Nat, pendingUno : Nat]]
    /\ totalWithdrawPending \in Nat
    /\ lpPriceUno \in Nat
    /\ cryptoBalance \in Nat
    /\ MIN_LP_CAPITAL \in Nat

RPInit(minLPCapital) ==
    /\ balances = [u \in Users |-> 0]
    /\ totalSupply = 0
    /\ withdrawRequestPerUser = [u \in Users |-> NoRequest]
    /\ totalWithdrawPending = 0
    /\ lpPriceUno = ONE
    /\ cryptoBalance = 0
    /\ MIN_LP_CAPITAL = minLPCapital

-----------------------------------------------------------------------------
(* Conversions between the currency and LP tokens, rounded down as the     *)
(* integer divisions of the code are.                                      *)

ToLp(uno) == (uno * ONE) \div lpPriceUno
ToUno(lp) == (lp * lpPriceUno) \div ONE

pendingAmount(u) == withdrawRequestPerUser[u].pendingAmount

\* What claims and withdrawals may take; `cryptoBalance - MIN_LP_CAPITAL` is
\* a checked subtraction, so every use of it is guarded by HasCapital.
HasCapital == cryptoBalance >= MIN_LP_CAPITAL
AvailableCapital == cryptoBalance - MIN_LP_CAPITAL

Burn(u, lp) ==
    /\ balances[u] >= lp
    /\ totalSupply >= lp
    /\ balances' = [balances EXCEPT ![u] = @ - lp]
    /\ totalSupply' = totalSupply - lp

\* deviation: the total is not reduced
DeleteRequestKeepingTotal(u) ==
    /\ totalWithdrawPending >= pendingAmount(u)
    /\ withdrawRequestPerUser' = [withdrawRequestPerUser EXCEPT ![u] = NoRequest]
    /\ UNCHANGED totalWithdrawPending

DeleteRequest(u) ==
    /\ totalWithdrawPending >= pendingAmount(u)
    /\ totalWithdrawPending' = totalWithdrawPending - pendingAmount(u)
    /\ withdrawRequestPerUser' = [withdrawRequestPerUser EXCEPT ![u] = NoRequest]

-----------------------------------------------------------------------------
(* Operations of the pool contract on the vault.                           *)

\* enter, once for every user u with minted[u] # 0; total is the sum of minted.
\* The currency itself is moved by the caller.
RPEnter(minted, total) ==
    /\ lpPriceUno > 0
    /\ balances' = [u \in Users |-> balances[u] + minted[u]]
    /\ totalSupply' = totalSupply + total
    /\ UNCHANGED <<withdrawRequestPerUser, totalWithdrawPending, lpPriceUno, MIN_LP_CAPITAL>>

RPLeaveFromPoolInPending(u, uno, time) ==
    /\ totalSupply > 0
    /\ lpPriceUno > 0
    /\ ToLp(uno) + pendingAmount(u) <= balances[u]
    /\ withdrawRequestPerUser' =
         [withdrawRequestPerUser EXCEPT
            ![u] = [pendingAmount |-> @.pendingAmount + ToLp(uno),
                    requestTime |-> time,
                    pendingUno |-> @.pendingUno + uno]]
    /\ totalWithdrawPending' = totalWithdrawPending + ToLp(uno)
    /\ UNCHANGED <<balances, totalSupply, lpPriceUno, cryptoBalance, MIN_LP_CAPITAL>>

\* A withdrawal of lp tokens burns the whole request and pays only what lp is
\* worth; when the vault is too small it pays what is available and burns
\* what that is worth.
RegularLeave(lp) == AvailableCapital > ToUno(lp)
LeaveLp(u, lp)   == IF RegularLeave(lp) THEN pendingAmount(u) ELSE ToLp(AvailableCapital)
LeaveUno(lp)     == IF RegularLeave(lp) THEN ToUno(lp) ELSE AvailableCapital

RPLeaveFromPending(u, lp) ==
    /\ lp <= pendingAmount(u)
    /\ cryptoBalance > 0
    /\ balances[u] >= lp
    /\ HasCapital
    /\ pendingAmount(u) > 0
    /\ ~ RegularLeave(lp) => /\ lpPriceUno > 0
                             /\ pendingAmount(u) >= ToLp(AvailableCapital)
    /\ Burn(u, LeaveLp(u, lp))
    /\ DeleteRequest(u)
    /\ cryptoBalance' = cryptoBalance - LeaveUno(lp)
    /\ UNCHANGED <<lpPriceUno, MIN_LP_CAPITAL>>

RPCancelWithdrawRequest(u) ==
    /\ pendingAmount(u) > 0
    /\ DeleteRequest(u)
    /\ UNCHANGED <<balances, totalSupply, lpPriceUno, cryptoBalance, MIN_LP_CAPITAL>>

\* policyClaim pays what is available at most, and sets the LP price to what the
\* remaining balance is worth per token.  That nothing happens between the two is
\* so because the currency is a token; of ETH see EthPool.
RealClaimAmount(uno) == IF AvailableCapital > uno THEN uno ELSE AvailableCapital

RPPolicyClaim(uno) ==
    /\ totalSupply > 0
    /\ cryptoBalance > MIN_LP_CAPITAL
    /\ cryptoBalance' = cryptoBalance - RealClaimAmount(uno)
    /\ lpPriceUno' = ((cryptoBalance - RealClaimAmount(uno)) * ONE) \div totalSupply
    /\ UNCHANGED <<balances, totalSupply, withdrawRequestPerUser,
                   totalWithdrawPending, MIN_LP_CAPITAL>>

\* emergencyWithdraw pays for the whole stake lp, and burns the pending part
\* (deviation first: the request stays).
RPEmergencyWithdrawKeepingRequest(u, lp) ==
    /\ cryptoBalance > 0
    /\ cryptoBalance >= ToUno(lp)
    /\ Burn(u, pendingAmount(u))
    /\ cryptoBalance' = cryptoBalance - ToUno(lp)
    /\ UNCHANGED <<lpPriceUno, withdrawRequestPerUser, totalWithdrawPending, MIN_LP_CAPITAL>>

RPEmergencyWithdraw(u, lp) ==
    /\ cryptoBalance > 0
    /\ cryptoBalance >= ToUno(lp)
    /\ Burn(u, pendingAmount(u))
    /\ DeleteRequest(u)
    /\ cryptoBalance' = cryptoBalance - ToUno(lp)
    /\ UNCHANGED <<lpPriceUno, MIN_LP_CAPITAL>>

\* migrateLP first pays an unlocked request out to the user, or cancels it,
\* and then moves what the user's remaining tokens are worth to the new pool.
PaysRequest(u, isUnLocked) == isUnLocked /\ pendingAmount(u) > 0

MigratePaid(u, isUnLocked) ==
    IF ~ PaysRequest(u, isUnLocked) THEN 0
    ELSE IF ToUno(pendingAmount(u)) < AvailableCapital
         THEN ToUno(pendingAmount(u)) ELSE AvailableCapital

MigrateBurned(u, isUnLocked) ==
    IF ~ PaysRequest(u, isUnLocked) THEN 0
    ELSE IF ToUno(pendingAmount(u)) < AvailableCapital
         THEN pendingAmount(u) ELSE ToLp(AvailableCapital)

\* deviations: what is available is not read again after the request was paid,
\* or what the user holds was read before
MigratedAmountOfReadVault(u, isUnLocked) ==
    LET uno == ToUno(balances[u] - MigrateBurned(u, isUnLocked))
    IN  IF uno < AvailableCapital THEN uno ELSE AvailableCapital

MigratedAmountOfReadStake(u, isUnLocked) ==
    LET uno  == ToUno(balances[u])
        left == AvailableCapital - MigratePaid(u, isUnLocked)
    IN  IF uno < left THEN uno ELSE left

MigratedAmount(u, isUnLocked) ==
    LET uno  == ToUno(balances[u] - MigrateBurned(u, isUnLocked))
        left == AvailableCapital - MigratePaid(u, isUnLocked)
    IN  IF uno < left THEN uno ELSE left

RPMigrateLP(u, isUnLocked) ==
    /\ HasCapital
    /\ PaysRequest(u, isUnLocked) /\ ToUno(pendingAmount(u)) >= AvailableCapital
         => /\ lpPriceUno > 0
            /\ pendingAmount(u) >= ToLp(AvailableCapital)
    /\ totalSupply >= balances[u]
    /\ balances' = [balances EXCEPT ![u] = 0]
    /\ totalSupply' = totalSupply - balances[u]
    /\ IF pendingAmount(u) > 0
         THEN DeleteRequest(u)
         ELSE UNCHANGED <<withdrawRequestPerUser, totalWithdrawPending>>
    /\ cryptoBalance' = cryptoBalance - MigratePaid(u, isUnLocked)
                                      - MigratedAmount(u, isUnLocked)
    /\ UNCHANGED <<lpPriceUno, MIN_LP_CAPITAL>>

RPSetMinLPCapital(minLPCapital) ==
    /\ minLPCapital > 0
    /\ MIN_LP_CAPITAL' = minLPCapital
    /\ UNCHANGED <<balances, totalSupply, withdrawRequestPerUser,
                   totalWithdrawPending, lpPriceUno, cryptoBalance>>

RPSetLpPriceUno(price) ==
    /\ lpPriceUno' = price
    /\ UNCHANGED <<balances, totalSupply, withdrawRequestPerUser,
                   totalWithdrawPending, cryptoBalance, MIN_LP_CAPITAL>>

-----------------------------------------------------------------------------
(* transfer and transferFrom, up to the callback into the pool: tokens     *)
(* under a withdraw request stay where they are.                           *)

\* deviation: both balances are computed before either is written
TransferOfReadBalances(from, to, lp) ==
    /\ balances[from] >= pendingAmount(from)
    /\ balances[from] - pendingAmount(from) >= lp
    /\ balances' = [balances EXCEPT ![from] = balances[from] - lp,
                                    ![to] = balances[to] + lp]
    /\ UNCHANGED <<totalSupply, withdrawRequestPerUser, totalWithdrawPending,
                   lpPriceUno, cryptoBalance, MIN_LP_CAPITAL>>

RPTransfer(from, to, lp) ==
    /\ balances[from] >= pendingAmount(from)
    /\ balances[from] - pendingAmount(from) >= lp
    /\ balances' = [[balances EXCEPT ![from] = @ - lp] EXCEPT ![to] = @ + lp]
    /\ UNCHANGED <<totalSupply, withdrawRequestPerUser, totalWithdrawPending,
                   lpPriceUno, cryptoBalance, MIN_LP_CAPITAL>>
=============================================================================
