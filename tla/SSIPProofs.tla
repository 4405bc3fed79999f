----------------------------- MODULE SSIPProofs -----------------------------
(***************************************************************************)
(* Theorems about the pool with its vault, the capital agent, the sales    *)
(* policy and the rewarder, for any number of stakers and every value of   *)
(* the units, with PayoutRequest in front of it, and of a pool of ETH.     *)
(* SafeInv is inductive for every step of the system, OpInv for the steps  *)
(* of the pool in operation, EthInv for those of the pool of ETH.          *)
(***************************************************************************)
EXTENDS SSIPProperties, PayoutRequest, EthPool, AgentLemmas

-----------------------------------------------------------------------------
(* What the operators of RiskPool preserve.                                *)

\* LP tokens are worth a natural number of currency.
LEMMA ToUnoNat ==
    ASSUME RPTypeOK, NEW lp \in Nat
    PROVE  ToUno(lp) \in Nat
  BY TimesNat, DivNat, OneAssumption DEF RPTypeOK, ToUno

\* Currency is worth a natural number of LP tokens, unless they are worthless.
LEMMA ToLpNat ==
    ASSUME RPTypeOK, lpPriceUno > 0, NEW amount \in Nat
    PROVE  ToLp(amount) \in Nat
  <1>1. amount * ONE \in Nat
    BY TimesNat, OneAssumption
  <1>2. lpPriceUno \in Nat \ {0}
    BY DEF RPTypeOK
  <1> QED  BY <1>1, <1>2, DivNat DEF ToLp

-----------------------------------------------------------------------------
(* Each operation keeps the types, and the requests within the balances.   *)

VaultInv == RPTypeOK /\ PendingWithinStake

\* RiskPool.enter, once or for several users, keeps VaultInv.
LEMMA EnterInv ==
    ASSUME VaultInv, NEW minted \in [Users -> Nat], NEW total \in Nat,
           RPEnter(minted, total), cryptoBalance' \in Nat
    PROVE  VaultInv'
  <1>1. RPTypeOK'
    BY DEF VaultInv, RPTypeOK, RPEnter
  <1>2. ASSUME NEW u \in Users PROVE pendingAmount(u)' <= balances'[u]
    <2>1. /\ pendingAmount(u)' = pendingAmount(u)
          /\ balances'[u] = balances[u] + minted[u]
      BY DEF RPEnter, pendingAmount
    <2>2. /\ pendingAmount(u) \in Nat /\ balances[u] \in Nat /\ minted[u] \in Nat
          /\ pendingAmount(u) <= balances[u]
      BY DEF VaultInv, RPTypeOK, pendingAmount, PendingWithinStake
    <2> QED  BY <2>1, <2>2
  <1> QED  BY <1>1, <1>2 DEF VaultInv, PendingWithinStake

\* RiskPool.leaveFromPoolInPending keeps VaultInv: it checks the balance.
LEMMA RequestInv ==
    ASSUME VaultInv, NEW u \in Users, NEW amount \in Nat, NEW time \in Nat,
           RPLeaveFromPoolInPending(u, amount, time)
    PROVE  VaultInv'
  <1> DEFINE r == withdrawRequestPerUser[u]
             new == [pendingAmount |-> r.pendingAmount + ToLp(amount),
                     requestTime |-> time,
                     pendingUno |-> r.pendingUno + amount]
  <1>1. ToLp(amount) \in Nat
    BY ToLpNat DEF VaultInv, RPLeaveFromPoolInPending
  <1>2. withdrawRequestPerUser' = [withdrawRequestPerUser EXCEPT ![u] = new]
    BY DEF RPLeaveFromPoolInPending
  <1>3. new \in [pendingAmount : Nat, requestTime : Nat, pendingUno : Nat]
    BY <1>1 DEF VaultInv, RPTypeOK
  <1>4. RPTypeOK'
    BY <1>1, <1>2, <1>3 DEF VaultInv, RPTypeOK, RPLeaveFromPoolInPending
  <1>5. ToLp(amount) + pendingAmount(u) <= balances[u]
    BY DEF RPLeaveFromPoolInPending
  <1>6. PendingWithinStake'
    BY <1>1, <1>2, <1>5 DEF VaultInv, RPTypeOK, PendingWithinStake, pendingAmount,
                            RPLeaveFromPoolInPending
  <1> QED  BY <1>4, <1>6 DEF VaultInv

\* The end of a request, and the burning of tokens of its user only.
LEMMA DeleteInv ==
    ASSUME VaultInv, NEW u \in Users, DeleteRequest(u),
           \/ balances' = balances
           \/ \E lp \in Nat : balances[u] >= lp /\ balances' = [balances EXCEPT ![u] = @ - lp]
           \/ balances' = [balances EXCEPT ![u] = 0]
    PROVE  /\ balances' \in [Users -> Nat]
           /\ withdrawRequestPerUser' \in
                [Users -> [pendingAmount : Nat, requestTime : Nat, pendingUno : Nat]]
           /\ totalWithdrawPending' \in Nat
           /\ PendingWithinStake'
  <1>1. NoRequest \in [pendingAmount : Nat, requestTime : Nat, pendingUno : Nat]
    BY DEF NoRequest
  <1>2. withdrawRequestPerUser' = [withdrawRequestPerUser EXCEPT ![u] = NoRequest]
    BY DEF DeleteRequest
  <1>3. totalWithdrawPending' \in Nat
    BY DEF VaultInv, RPTypeOK, DeleteRequest, pendingAmount
  <1>4. balances' \in [Users -> Nat] /\ \A v \in Users : v # u => balances'[v] = balances[v]
    BY DEF VaultInv, RPTypeOK
  <1>5. NoRequest.pendingAmount = 0
    BY DEF NoRequest
  <1>6. ASSUME NEW v \in Users PROVE pendingAmount(v)' <= balances'[v]
    <2>1. CASE v = u
      <3>1. withdrawRequestPerUser'[u] = NoRequest
        BY <1>2 DEF VaultInv, RPTypeOK
      <3>2. pendingAmount(u)' = 0
        BY <1>5, <3>1 DEF pendingAmount
      <3> QED  BY <1>4, <2>1, <3>2
    <2>2. CASE v # u
      BY <1>2, <1>4, <2>2 DEF pendingAmount, VaultInv, RPTypeOK, PendingWithinStake
    <2> QED  BY <2>1, <2>2
  <1> QED  BY <1>1, <1>2, <1>3, <1>4, <1>6 DEF VaultInv, RPTypeOK, PendingWithinStake

\* A withdrawal takes no more than is available above the reserve.
LEMMA LeaveBounds ==
    ASSUME VaultInv, NEW u \in Users, NEW lp \in Nat, RPLeaveFromPending(u, lp)
    PROVE  /\ LeaveLp(u, lp) \in Nat
           /\ LeaveUno(lp) \in Nat
           /\ LeaveUno(lp) <= AvailableCapital
           /\ AvailableCapital \in Nat
  <1>1. AvailableCapital \in Nat
    BY DEF VaultInv, RPTypeOK, RPLeaveFromPending, HasCapital, AvailableCapital
  <1>2. ToUno(lp) \in Nat
    BY ToUnoNat DEF VaultInv
  <1>3. pendingAmount(u) \in Nat
    BY DEF VaultInv, RPTypeOK, pendingAmount
  <1>4. CASE RegularLeave(lp)
    BY <1>1, <1>2, <1>3, <1>4 DEF LeaveLp, LeaveUno, RegularLeave
  <1>5. CASE ~ RegularLeave(lp)
    <2>1. ToLp(AvailableCapital) \in Nat
      BY <1>1, <1>5, ToLpNat DEF VaultInv, RPLeaveFromPending
    <2> QED  BY <1>1, <1>5, <2>1 DEF LeaveLp, LeaveUno
  <1> QED  BY <1>4, <1>5

\* RiskPool.leaveFromPending keeps VaultInv, whatever it burns.
LEMMA LeaveInv ==
    ASSUME VaultInv, NEW u \in Users, NEW lp \in Nat, RPLeaveFromPending(u, lp)
    PROVE  VaultInv'
  <1>1. /\ LeaveLp(u, lp) \in Nat /\ LeaveUno(lp) \in Nat
        /\ LeaveUno(lp) <= AvailableCapital
    BY LeaveBounds
  <1>2. Burn(u, LeaveLp(u, lp)) /\ DeleteRequest(u)
    BY DEF RPLeaveFromPending
  <1>3. totalSupply' \in Nat
    BY <1>1, <1>2 DEF Burn, VaultInv, RPTypeOK
  <1>4. cryptoBalance' \in Nat
    BY <1>1 DEF RPLeaveFromPending, AvailableCapital, HasCapital, VaultInv, RPTypeOK
  <1>5. \E n \in Nat : balances[u] >= n /\ balances' = [balances EXCEPT ![u] = @ - n]
    BY <1>1, <1>2 DEF Burn
  <1> QED  BY <1>2, <1>3, <1>4, <1>5, DeleteInv DEF RPLeaveFromPending, VaultInv, RPTypeOK

\* RiskPool.cancelWithdrawRequest keeps VaultInv.
LEMMA CancelInv ==
    ASSUME VaultInv, NEW u \in Users, RPCancelWithdrawRequest(u)
    PROVE  VaultInv'
  BY DeleteInv DEF RPCancelWithdrawRequest, VaultInv, RPTypeOK

\* A payout takes no more than is available above the reserve.
LEMMA ClaimBounds ==
    ASSUME VaultInv, NEW amount \in Nat, RPPolicyClaim(amount)
    PROVE  /\ RealClaimAmount(amount) \in Nat
           /\ RealClaimAmount(amount) <= AvailableCapital
           /\ AvailableCapital \in Nat
           /\ cryptoBalance' \in Nat
  BY DEF VaultInv, RPTypeOK, RPPolicyClaim, RealClaimAmount, AvailableCapital

\* RiskPool.policyClaim keeps VaultInv: the new price divides by a supply above 0.
LEMMA ClaimInv ==
    ASSUME VaultInv, NEW amount \in Nat, RPPolicyClaim(amount)
    PROVE  VaultInv'
  <1>1. cryptoBalance' \in Nat
    BY ClaimBounds
  <1>2. cryptoBalance' * ONE \in Nat
    BY <1>1, TimesNat, OneAssumption
  <1>3. lpPriceUno' = (cryptoBalance' * ONE) \div totalSupply
    BY DEF RPPolicyClaim
  <1>4. totalSupply \in Nat \ {0}
    BY DEF VaultInv, RPTypeOK, RPPolicyClaim
  <1>5. lpPriceUno' \in Nat
    BY <1>2, <1>3, <1>4, DivNat
  <1> QED  BY <1>1, <1>5 DEF RPPolicyClaim, VaultInv, RPTypeOK, PendingWithinStake, pendingAmount

\* RiskPool.emergencyWithdraw keeps VaultInv.
LEMMA EmergencyInv ==
    ASSUME VaultInv, NEW u \in Users, NEW lp \in Nat, RPEmergencyWithdraw(u, lp)
    PROVE  VaultInv'
  <1>1. ToUno(lp) \in Nat /\ pendingAmount(u) \in Nat
    BY ToUnoNat DEF VaultInv, RPTypeOK, pendingAmount
  <1>2. Burn(u, pendingAmount(u)) /\ DeleteRequest(u)
    BY DEF RPEmergencyWithdraw
  <1>3. totalSupply' \in Nat
    BY <1>1, <1>2 DEF Burn, VaultInv, RPTypeOK
  <1>4. cryptoBalance' \in Nat
    BY <1>1 DEF RPEmergencyWithdraw, VaultInv, RPTypeOK
  <1>5. \E n \in Nat : balances[u] >= n /\ balances' = [balances EXCEPT ![u] = @ - n]
    BY <1>1, <1>2 DEF Burn
  <1> QED  BY <1>2, <1>3, <1>4, <1>5, DeleteInv DEF RPEmergencyWithdraw, VaultInv, RPTypeOK

\* What a migration pays out and moves is available.
LEMMA MigrateBounds ==
    ASSUME VaultInv, NEW u \in Users, NEW isUnLocked \in BOOLEAN, RPMigrateLP(u, isUnLocked)
    PROVE  /\ MigratePaid(u, isUnLocked) \in Nat
           /\ MigratedAmount(u, isUnLocked) \in Nat
           /\ MigratePaid(u, isUnLocked) + MigratedAmount(u, isUnLocked) <= AvailableCapital
  <1>1. AvailableCapital \in Nat
    BY DEF VaultInv, RPTypeOK, RPMigrateLP, HasCapital, AvailableCapital
  <1>2. /\ pendingAmount(u) \in Nat /\ balances[u] \in Nat
        /\ pendingAmount(u) <= balances[u]
    BY DEF VaultInv, RPTypeOK, pendingAmount, PendingWithinStake
  <1>3. ToUno(pendingAmount(u)) \in Nat
    BY <1>2, ToUnoNat DEF VaultInv
  <1>4. MigratePaid(u, isUnLocked) \in Nat /\ MigratePaid(u, isUnLocked) <= AvailableCapital
    BY <1>1, <1>3 DEF MigratePaid
  <1>5. MigrateBurned(u, isUnLocked) \in Nat /\ MigrateBurned(u, isUnLocked) <= balances[u]
    <2>1. CASE PaysRequest(u, isUnLocked) /\ ToUno(pendingAmount(u)) >= AvailableCapital
      <3>1. lpPriceUno > 0 /\ pendingAmount(u) >= ToLp(AvailableCapital)
        BY <2>1 DEF RPMigrateLP
      <3>2. ToLp(AvailableCapital) \in Nat
        BY <1>1, <3>1, ToLpNat DEF VaultInv
      <3> QED  BY <1>1, <1>2, <1>3, <2>1, <3>1, <3>2 DEF MigrateBurned
    <2>2. CASE ~ (PaysRequest(u, isUnLocked) /\ ToUno(pendingAmount(u)) >= AvailableCapital)
      BY <1>1, <1>2, <1>3, <2>2 DEF MigrateBurned
    <2> QED  BY <2>1, <2>2
  <1>6. ToUno(balances[u] - MigrateBurned(u, isUnLocked)) \in Nat
    BY <1>2, <1>5, ToUnoNat DEF VaultInv
  <1> QED  BY <1>1, <1>4, <1>6 DEF MigratedAmount

\* RiskPool.migrateLP keeps VaultInv.
LEMMA MigrateInv ==
    ASSUME VaultInv, NEW u \in Users, NEW isUnLocked \in BOOLEAN, RPMigrateLP(u, isUnLocked)
    PROVE  VaultInv'
  <1>1. cryptoBalance' \in Nat
    <2> DEFINE paid == MigratePaid(u, isUnLocked)
               moved == MigratedAmount(u, isUnLocked)
    <2>1. paid \in Nat /\ moved \in Nat /\ paid + moved <= cryptoBalance - MIN_LP_CAPITAL
      BY MigrateBounds DEF AvailableCapital
    <2>2. cryptoBalance' = cryptoBalance - paid - moved
      BY DEF RPMigrateLP
    <2>3. cryptoBalance \in Nat /\ MIN_LP_CAPITAL \in Nat
      BY DEF VaultInv, RPTypeOK
    <2> HIDE DEF paid, moved
    <2> QED  BY <2>1, <2>2, <2>3
  <1>2. totalSupply' \in Nat /\ balances' = [balances EXCEPT ![u] = 0]
    BY DEF RPMigrateLP, VaultInv, RPTypeOK
  <1>3. CASE pendingAmount(u) > 0
    BY <1>1, <1>2, <1>3, DeleteInv DEF RPMigrateLP, VaultInv, RPTypeOK
  <1>4. CASE ~ (pendingAmount(u) > 0)
    <2>1. pendingAmount(u) = 0
      BY <1>4 DEF VaultInv, RPTypeOK, pendingAmount
    <2>2. UNCHANGED <<withdrawRequestPerUser, totalWithdrawPending, lpPriceUno, MIN_LP_CAPITAL>>
      BY <1>4 DEF RPMigrateLP
    <2> QED  BY <1>1, <1>2, <2>1, <2>2
             DEF VaultInv, RPTypeOK, PendingWithinStake, pendingAmount
  <1> QED  BY <1>3, <1>4

\* RiskPool.transfer keeps VaultInv: the sender keeps what is under request.
LEMMA TransferInv ==
    ASSUME VaultInv, NEW from \in Users, NEW to \in Users, NEW lp \in Nat,
           RPTransfer(from, to, lp)
    PROVE  VaultInv'
  <1> DEFINE sent == [balances EXCEPT ![from] = balances[from] - lp]
  <1>1. /\ pendingAmount(from) \in Nat
        /\ balances[from] - pendingAmount(from) >= lp
    BY DEF VaultInv, RPTypeOK, pendingAmount, RPTransfer
  <1>2. sent \in [Users -> Nat]
    BY <1>1 DEF VaultInv, RPTypeOK
  <1>3. balances' = [sent EXCEPT ![to] = sent[to] + lp]
    BY DEF RPTransfer
  <1>4. balances' \in [Users -> Nat]
    BY <1>2, <1>3
  <1>5. ASSUME NEW v \in Users PROVE pendingAmount(v) <= balances'[v]
    <2>1. pendingAmount(v) \in Nat /\ pendingAmount(v) <= sent[v]
      BY <1>1 DEF VaultInv, RPTypeOK, PendingWithinStake, pendingAmount
    <2>2. balances'[v] >= sent[v]
      BY <1>2, <1>3
    <2> QED  BY <1>2, <1>4, <2>1, <2>2
  <1> QED  BY <1>4, <1>5 DEF RPTransfer, VaultInv, RPTypeOK, PendingWithinStake, pendingAmount

\* The two settings.
LEMMA SettingInv ==
    ASSUME VaultInv, NEW figure \in Nat,
           RPSetMinLPCapital(figure) \/ RPSetLpPriceUno(figure)
    PROVE  VaultInv'
  BY DEF RPSetMinLPCapital, RPSetLpPriceUno, VaultInv, RPTypeOK, PendingWithinStake,
         pendingAmount

\* A step that leaves the RiskPool alone keeps VaultInv.
LEMMA VaultUnchanged ==
    ASSUME VaultInv, UNCHANGED rpVars
    PROVE  VaultInv'
  BY DEF VaultInv, RPTypeOK, PendingWithinStake, pendingAmount, rpVars

-----------------------------------------------------------------------------
(* Each operation keeps the totals the sums of the accounts.               *)

Requests == [u \in Users |-> pendingAmount(u)]

LedgerInv == VaultInv /\ LedgerSums

\* What the totals are.
LEMMA LedgerTotals ==
    ASSUME RPTypeOK
    PROVE  LedgerSums <=> /\ totalSupply = SumFunctionOnSet(balances, Users)
                          /\ totalWithdrawPending = SumFunctionOnSet(Requests, Users)
  BY DEF RPTypeOK, LedgerSums, SumFunction, Requests

\* The same in the next state.
LEMMA LedgerTotalsNext ==
    ASSUME RPTypeOK', totalSupply' = SumFunctionOnSet(balances', Users),
           totalWithdrawPending' = SumFunctionOnSet(Requests', Users)
    PROVE  LedgerSums'
  BY DEF RPTypeOK, LedgerSums, SumFunction, Requests

\* One balance changes, and the supply with it.
LEMMA SupplyOfOne ==
    ASSUME LedgerInv, RPTypeOK', NEW u \in Users,
           \A v \in Users \ {u} : balances'[v] = balances[v],
           totalSupply' = totalSupply - balances[u] + balances'[u]
    PROVE  totalSupply' = SumFunctionOnSet(balances', Users)
  <1>1. \A v \in Users : balances[v] \in Int /\ balances'[v] \in Int
    BY DEF LedgerInv, VaultInv, RPTypeOK
  <1>2. SumFunctionOnSet(balances', Users)
          = SumFunctionOnSet(balances, Users) - balances[u] + balances'[u]
    BY <1>1, SumUpdate, UsersAssumption
  <1>3. totalSupply = SumFunctionOnSet(balances, Users)
    BY LedgerTotals DEF LedgerInv, VaultInv
  <1> QED  BY <1>2, <1>3

\* One request changes, and their total with it.
LEMMA PendingOfOne ==
    ASSUME LedgerInv, RPTypeOK', NEW u \in Users,
           \A v \in Users \ {u} : pendingAmount(v)' = pendingAmount(v),
           totalWithdrawPending' = totalWithdrawPending - pendingAmount(u) + pendingAmount(u)'
    PROVE  totalWithdrawPending' = SumFunctionOnSet(Requests', Users)
  <1>1. \A v \in Users : Requests[v] \in Int /\ Requests'[v] \in Int
    BY DEF LedgerInv, VaultInv, RPTypeOK, Requests, pendingAmount
  <1>2. \A v \in Users : Requests[v] = pendingAmount(v) /\ Requests'[v] = pendingAmount(v)'
    BY DEF Requests
  <1>3. SumFunctionOnSet(Requests', Users)
          = SumFunctionOnSet(Requests, Users) - Requests[u] + Requests'[u]
    <2>1. \A v \in Users \ {u} : Requests'[v] = Requests[v]
      BY <1>2
    <2> QED  BY <1>1, <2>1, SumUpdate, UsersAssumption
  <1>4. totalWithdrawPending = SumFunctionOnSet(Requests, Users)
    BY LedgerTotals DEF LedgerInv, VaultInv
  <1> QED  BY <1>2, <1>3, <1>4

\* The supply, when neither it nor a balance changes.
LEMMA SupplyUnchanged ==
    ASSUME LedgerInv, UNCHANGED <<balances, totalSupply>>
    PROVE  totalSupply' = SumFunctionOnSet(balances', Users)
  BY LedgerTotals DEF LedgerInv, VaultInv

\* The total of the requests, when neither it nor a request changes.
LEMMA PendingUnchanged ==
    ASSUME LedgerInv, UNCHANGED <<withdrawRequestPerUser, totalWithdrawPending>>
    PROVE  totalWithdrawPending' = SumFunctionOnSet(Requests', Users)
  BY LedgerTotals DEF LedgerInv, VaultInv, Requests, pendingAmount

\* DeleteRequest takes the request it deletes off the total.
LEMMA DeleteLedger ==
    ASSUME LedgerInv, RPTypeOK', NEW u \in Users, DeleteRequest(u)
    PROVE  totalWithdrawPending' = SumFunctionOnSet(Requests', Users)
  <1>1. withdrawRequestPerUser' = [withdrawRequestPerUser EXCEPT ![u] = NoRequest]
    BY DEF DeleteRequest
  <1>2. withdrawRequestPerUser'[u] = NoRequest
    BY <1>1 DEF LedgerInv, VaultInv, RPTypeOK
  <1>3. pendingAmount(u)' = 0
    BY <1>2 DEF pendingAmount, NoRequest
  <1>4. \A v \in Users \ {u} : pendingAmount(v)' = pendingAmount(v)
    BY <1>1 DEF pendingAmount, LedgerInv, VaultInv, RPTypeOK
  <1>5. /\ totalWithdrawPending' = totalWithdrawPending - pendingAmount(u)
        /\ totalWithdrawPending \in Nat /\ pendingAmount(u) \in Nat
    BY DEF DeleteRequest, LedgerInv, VaultInv, RPTypeOK, pendingAmount
  <1> QED  BY <1>3, <1>4, <1>5, PendingOfOne

\* Burn takes what it burns off the balance and off the supply.
LEMMA BurnLedger ==
    ASSUME LedgerInv, RPTypeOK', NEW u \in Users, NEW lp \in Nat, Burn(u, lp)
    PROVE  totalSupply' = SumFunctionOnSet(balances', Users)
  <1>1. /\ balances'[u] = balances[u] - lp
        /\ \A v \in Users \ {u} : balances'[v] = balances[v]
        /\ totalSupply' = totalSupply - lp
        /\ totalSupply \in Nat /\ balances[u] \in Nat
    BY DEF Burn, LedgerInv, VaultInv, RPTypeOK
  <1> QED  BY <1>1, SupplyOfOne

\* RiskPool.enter adds to the supply what it mints, to one user or to several.
LEMMA EnterLedger ==
    ASSUME LedgerInv, VaultInv', NEW minted \in [Users -> Nat],
           RPEnter(minted, SumFunctionOnSet(minted, Users))
    PROVE  LedgerInv'
  <1>1. \A u \in Users : /\ balances[u] \in Int /\ minted[u] \in Int
                         /\ balances'[u] = balances[u] + minted[u]
    BY DEF RPEnter, LedgerInv, VaultInv, RPTypeOK
  <1>2. SumFunctionOnSet(balances', Users)
          = SumFunctionOnSet(balances, Users) + SumFunctionOnSet(minted, Users)
    BY <1>1, SumPlus, UsersAssumption
  <1>3. totalSupply' = SumFunctionOnSet(balances', Users)
    BY <1>2, LedgerTotals DEF RPEnter, LedgerInv, VaultInv
  <1>4. totalWithdrawPending' = SumFunctionOnSet(Requests', Users)
    BY PendingUnchanged DEF RPEnter
  <1> QED  BY <1>3, <1>4, LedgerTotalsNext DEF LedgerInv, VaultInv

\* What is minted to one user.
LEMMA MintedToOne ==
    ASSUME NEW u \in Users, NEW lp \in Nat
    PROVE  /\ [v \in Users |-> IF v = u THEN lp ELSE 0] \in [Users -> Nat]
           /\ SumFunctionOnSet([v \in Users |-> IF v = u THEN lp ELSE 0], Users) = lp
  <1> DEFINE minted == [v \in Users |-> IF v = u THEN lp ELSE 0]
             rest == Users \ {u}
  <1>1. \A v \in Users : minted[v] \in Int
    OBVIOUS
  <1>2. minted[u] = lp /\ \A v \in rest : minted[v] = 0
    OBVIOUS
  <1>3. minted \in [Users -> Nat]
    OBVIOUS
  <1> HIDE DEF minted
  <1>4. SumFunctionOnSet(minted, Users) = minted[u] + SumFunctionOnSet(minted, rest)
    BY <1>1, SumPick, UsersAssumption
  <1>5. IsFiniteSet(rest)
    BY UsersAssumption, FS_Subset
  <1>6. SumFunctionOnSet(minted, rest) = 0
    <2> HIDE DEF rest
    <2> QED  BY <1>2, <1>5, SumZero
  <1> QED  BY <1>2, <1>3, <1>4, <1>6 DEF minted

\* RiskPool.leaveFromPoolInPending adds the request to the total.
LEMMA RequestLedger ==
    ASSUME LedgerInv, NEW u \in Users, NEW amount \in Nat, NEW time \in Nat,
           RPLeaveFromPoolInPending(u, amount, time)
    PROVE  LedgerInv'
  <1>1. VaultInv'
    BY RequestInv DEF LedgerInv
  <1>2. totalSupply' = SumFunctionOnSet(balances', Users)
    BY SupplyUnchanged DEF RPLeaveFromPoolInPending
  <1>3. ToLp(amount) \in Nat
    BY ToLpNat DEF LedgerInv, VaultInv, RPLeaveFromPoolInPending
  <1>4. /\ pendingAmount(u)' = pendingAmount(u) + ToLp(amount)
        /\ \A v \in Users \ {u} : pendingAmount(v)' = pendingAmount(v)
    BY <1>3 DEF RPLeaveFromPoolInPending, LedgerInv, VaultInv, RPTypeOK, pendingAmount
  <1>5. /\ totalWithdrawPending' = totalWithdrawPending + ToLp(amount)
        /\ totalWithdrawPending \in Nat /\ pendingAmount(u) \in Nat
    BY DEF RPLeaveFromPoolInPending, LedgerInv, VaultInv, RPTypeOK, pendingAmount
  <1>6. totalWithdrawPending' = SumFunctionOnSet(Requests', Users)
    BY <1>1, <1>3, <1>4, <1>5, PendingOfOne DEF VaultInv
  <1> QED  BY <1>1, <1>2, <1>6, LedgerTotalsNext DEF LedgerInv, VaultInv

\* RiskPool.leaveFromPending takes the whole request off one total and what it
\* burns off the other.
LEMMA LeaveLedger ==
    ASSUME LedgerInv, NEW u \in Users, NEW lp \in Nat, RPLeaveFromPending(u, lp)
    PROVE  LedgerInv'
  <1>1. VaultInv' /\ LeaveLp(u, lp) \in Nat
    BY LeaveInv, LeaveBounds DEF LedgerInv
  <1>2. Burn(u, LeaveLp(u, lp)) /\ DeleteRequest(u)
    BY DEF RPLeaveFromPending
  <1> QED  BY <1>1, <1>2, BurnLedger, DeleteLedger, LedgerTotalsNext DEF LedgerInv, VaultInv

\* RiskPool.cancelWithdrawRequest takes the request off the total.
LEMMA CancelLedger ==
    ASSUME LedgerInv, NEW u \in Users, RPCancelWithdrawRequest(u)
    PROVE  LedgerInv'
  <1>1. VaultInv'
    BY CancelInv DEF LedgerInv
  <1>2. DeleteRequest(u) /\ UNCHANGED <<balances, totalSupply>>
    BY DEF RPCancelWithdrawRequest
  <1> QED  BY <1>1, <1>2, SupplyUnchanged, DeleteLedger, LedgerTotalsNext DEF LedgerInv, VaultInv

\* RiskPool.emergencyWithdraw burns what is under request and deletes the request.
LEMMA EmergencyLedger ==
    ASSUME LedgerInv, NEW u \in Users, NEW lp \in Nat, RPEmergencyWithdraw(u, lp)
    PROVE  LedgerInv'
  <1>1. VaultInv' /\ pendingAmount(u) \in Nat
    BY EmergencyInv DEF LedgerInv, VaultInv, RPTypeOK, pendingAmount
  <1>2. Burn(u, pendingAmount(u)) /\ DeleteRequest(u)
    BY DEF RPEmergencyWithdraw
  <1> QED  BY <1>1, <1>2, BurnLedger, DeleteLedger, LedgerTotalsNext DEF LedgerInv, VaultInv

\* RiskPool.migrateLP burns the whole balance and deletes a request there is.
LEMMA MigrateLedger ==
    ASSUME LedgerInv, NEW u \in Users, NEW isUnLocked \in BOOLEAN, RPMigrateLP(u, isUnLocked)
    PROVE  LedgerInv'
  <1>1. VaultInv'
    BY MigrateInv DEF LedgerInv
  <1>2. totalSupply' = SumFunctionOnSet(balances', Users)
    <2>1. /\ balances'[u] = 0
          /\ \A v \in Users \ {u} : balances'[v] = balances[v]
          /\ totalSupply' = totalSupply - balances[u]
          /\ totalSupply \in Nat /\ balances[u] \in Nat
      BY DEF RPMigrateLP, LedgerInv, VaultInv, RPTypeOK
    <2> QED  BY <1>1, <2>1, SupplyOfOne DEF VaultInv
  <1>3. totalWithdrawPending' = SumFunctionOnSet(Requests', Users)
    <2>1. CASE pendingAmount(u) > 0
      BY <1>1, <2>1, DeleteLedger DEF RPMigrateLP, VaultInv
    <2>2. CASE ~ (pendingAmount(u) > 0)
      BY <2>2, PendingUnchanged DEF RPMigrateLP
    <2> QED  BY <2>1, <2>2
  <1> QED  BY <1>1, <1>2, <1>3, LedgerTotalsNext DEF LedgerInv, VaultInv

\* RiskPool.transfer moves between two balances, also when they are one: the
\* sender's is written before the receiver's is read.
LEMMA TransferLedger ==
    ASSUME LedgerInv, NEW from \in Users, NEW to \in Users, NEW lp \in Nat,
           RPTransfer(from, to, lp)
    PROVE  LedgerInv'
  <1> DEFINE sent == [balances EXCEPT ![from] = balances[from] - lp]
             sum(f) == SumFunctionOnSet(f, Users)
  <1>1. VaultInv'
    BY TransferInv DEF LedgerInv
  <1>2. balances' = [sent EXCEPT ![to] = sent[to] + lp]
    BY DEF RPTransfer
  <1>3. /\ \A v \in Users : balances[v] \in Int /\ sent[v] \in Int /\ balances'[v] \in Int
        /\ sent[from] = balances[from] - lp
        /\ \A v \in Users \ {from} : sent[v] = balances[v]
        /\ balances'[to] = sent[to] + lp
        /\ \A v \in Users \ {to} : balances'[v] = sent[v]
    BY <1>1, <1>2 DEF LedgerInv, VaultInv, RPTypeOK
  <1> HIDE DEF sent
  <1>4. sum(sent) = sum(balances) - balances[from] + sent[from]
    <2>1. /\ \A v \in Users : balances[v] \in Int /\ sent[v] \in Int
          /\ \A v \in Users \ {from} : sent[v] = balances[v]
      BY <1>3
    <2> QED  BY <2>1, SumUpdate, UsersAssumption
  <1>5. sum(balances') = sum(sent) - sent[to] + balances'[to]
    <2>1. /\ \A v \in Users : sent[v] \in Int /\ balances'[v] \in Int
          /\ \A v \in Users \ {to} : balances'[v] = sent[v]
      BY <1>3
    <2> QED  BY <2>1, SumUpdate, UsersAssumption
  <1>6. totalSupply \in Nat /\ totalSupply = sum(balances) /\ totalSupply' = totalSupply
    BY LedgerTotals DEF RPTransfer, LedgerInv, VaultInv, RPTypeOK
  <1>7. totalSupply' = sum(balances')
    <2> HIDE DEF sum
    <2>1. /\ balances[from] \in Int /\ sent[to] \in Int
          /\ sent[from] = balances[from] - lp /\ balances'[to] = sent[to] + lp
      BY <1>3
    <2> QED  BY <1>4, <1>5, <1>6, <2>1
  <1>8. totalWithdrawPending' = SumFunctionOnSet(Requests', Users)
    BY PendingUnchanged DEF RPTransfer
  <1> QED  BY <1>1, <1>7, <1>8, LedgerTotalsNext DEF LedgerInv, VaultInv

\* The operations that move neither tokens nor requests: the payout of a claim,
\* the settings, and the steps that leave the vault alone.
LEMMA LedgerUnchanged ==
    ASSUME LedgerInv, VaultInv',
           UNCHANGED <<balances, totalSupply, withdrawRequestPerUser, totalWithdrawPending>>
    PROVE  LedgerInv'
  BY SupplyUnchanged, PendingUnchanged, LedgerTotalsNext DEF LedgerInv, VaultInv

-----------------------------------------------------------------------------
(* The pool with all that it uses.                                         *)

UserType == [amount : Nat, rewardDebt : Nat, lastWithdrawTime : Nat, isNotRollOver : BOOLEAN]

SafeInv == TypeOK /\ VaultInv /\ CoverInv

-----------------------------------------------------------------------------
(* Rewards.                                                                *)

\* updatePool leaves a natural number in accUnoPerShare.
LEMMA UpdatedAccNat ==
    ASSUME TypeOK
    PROVE  UpdatedAcc \in Nat
  <1>1. /\ accUnoPerShare \in Nat /\ unoMultiplierPerBlock \in Nat /\ totalSupply \in Nat
        /\ now \in Nat /\ lastRewardBlock \in Nat /\ ACC_UNO_PRECISION \in Nat
    BY PoolAssumption DEF TypeOK, OwnTypeOK, RPTypeOK
  <1>2. CASE now > lastRewardBlock /\ totalSupply > 0
    <2>1. now - lastRewardBlock \in Nat
      BY <1>1, <1>2
    <2>2. (now - lastRewardBlock) * unoMultiplierPerBlock * ACC_UNO_PRECISION \in Nat
      BY <1>1, <2>1, TimesNat
    <2>3. ((now - lastRewardBlock) * unoMultiplierPerBlock * ACC_UNO_PRECISION)
             \div totalSupply \in Nat
      BY <1>1, <1>2, <2>2, DivNat
    <2> QED  BY <1>1, <1>2, <2>3 DEF UpdatedAcc
  <1>3. CASE ~ (now > lastRewardBlock /\ totalSupply > 0)
    BY <1>1, <1>3 DEF UpdatedAcc
  <1> QED  BY <1>2, <1>3

\* What LP tokens have earned is a natural number.
LEMMA AccumulatedNat ==
    ASSUME TypeOK, NEW lp \in Nat
    PROVE  Accumulated(lp) \in Nat
  BY UpdatedAccNat, TimesNat, DivNat, PoolAssumption DEF Accumulated

\* The more tokens, the more reward: the subtraction from a reward debt that a
\* withdrawal or a transfer makes cannot underflow.
LEMMA AccumulatedMono ==
    ASSUME TypeOK, NEW a \in Nat, NEW b \in Nat, a <= b
    PROVE  Accumulated(a) <= Accumulated(b)
  <1>1. UpdatedAcc \in Nat
    BY UpdatedAccNat
  <1>2. a * UpdatedAcc \in Nat /\ b * UpdatedAcc \in Nat /\ a * UpdatedAcc <= b * UpdatedAcc
    BY <1>1, TimesNat, TimesMono
  <1> QED  BY <1>2, DivMono, PoolAssumption DEF Accumulated

\* The reward debt of a new stake is a natural number.
LEMMA EntryDebtNat ==
    ASSUME TypeOK, lpPriceUno > 0, NEW amount \in Nat
    PROVE  EntryDebt(amount) \in Nat
  <1>1. amount * ONE * UpdatedAcc \in Nat
    BY UpdatedAccNat, TimesNat, OneAssumption
  <1>2. lpPriceUno \in Nat \ {0}
    BY DEF TypeOK, RPTypeOK
  <1>3. (amount * ONE * UpdatedAcc) \div lpPriceUno \in Nat
    BY <1>1, <1>2, DivNat
  <1> QED  BY <1>3, DivNat, PoolAssumption DEF EntryDebt

\* Where _updateReward does not revert, the reward and the new debt are natural.
LEMMA RewardNat ==
    ASSUME TypeOK, NEW u \in Users, RewardDefined(u)
    PROVE  Reward(u) \in Nat /\ DebtAfterReward(u) \in Nat
  <1>1. userInfo[u].amount \in Nat /\ userInfo[u].rewardDebt \in Nat
    BY DEF TypeOK, OwnTypeOK
  <1>2. Accumulated(userInfo[u].amount) \in Nat
    BY <1>1, AccumulatedNat
  <1> QED  BY <1>1, <1>2 DEF RewardDefined, Reward, DebtAfterReward

\* The variables of the rewards, without the stakes.
RewardTypeOK ==
    /\ accUnoPerShare \in Nat /\ lastRewardBlock \in Nat /\ unoMultiplierPerBlock \in Nat
    /\ rewarder \in BOOLEAN /\ rewarderPaused \in BOOLEAN /\ rewarderBalance \in Nat

\* updatePool keeps the types of the variables of the rewards.
LEMMA UpdateType ==
    ASSUME TypeOK, UpdatePool
    PROVE  /\ accUnoPerShare' \in Nat /\ lastRewardBlock' \in Nat
           /\ unoMultiplierPerBlock' \in Nat
  BY UpdatedAccNat DEF UpdatePool, TypeOK, OwnTypeOK

\* _harvest keeps the types, and what it pays is a natural number.
LEMMA HarvestType ==
    ASSUME TypeOK, NEW u \in Users, Harvest(u)
    PROVE  RewardTypeOK' /\ HarvestPay(u) \in Nat
  <1>1. Reward(u) \in Nat
    BY RewardNat DEF Harvest
  <1>2. HarvestPay(u) \in Nat
    BY <1>1 DEF HarvestPay
  <1>3. rewarder' \in BOOLEAN /\ rewarderPaused' \in BOOLEAN /\ rewarderBalance' \in Nat
    BY <1>1 DEF Harvest, OnReward, rewarderVars, TypeOK, OwnTypeOK
  <1>4. UpdatePool
    BY DEF Harvest
  <1> QED  BY <1>2, <1>3, <1>4, UpdateType DEF RewardTypeOK

\* A payment to a staker.
LEMMA PayType ==
    ASSUME TypeOK, NEW u \in Users, NEW amount \in Nat, Pay(u, amount)
    PROVE  uno' \in [Users -> Nat]
  BY DEF Pay, TypeOK, OwnTypeOK

-----------------------------------------------------------------------------
(* SafeInv is kept.  The parts a step leaves alone first.                  *)

\* A step that reports to the agent, and does not touch the sales policy.
LEMMA AgentReport ==
    ASSUME SafeInv, NEW amount \in Nat, UNCHANGED spVars,
           \/ SSIPStaking(ThisPool, amount)
           \/ SSIPWithdraw(ThisPool, amount)
           \/ SSIPMigrated(ThisPool, amount)
           \/ \E isAdd \in BOOLEAN :
                 UpdatePoolWithdrawPendingCapital(ThisPool, ThisPool, amount, isAdd)
    PROVE  SPTypeOK' /\ CATypeOK' /\ CoverInv'
  <1>1. SPTypeOK'
    BY DEF SafeInv, TypeOK, SPTypeOK, spVars
  <1>2. CATypeOK'
    BY PoolAssumption, StakingType, WithdrawType, MigratedType, PendingType
       DEF SafeInv, TypeOK
  <1>3. UNCHANGED claimedAmount
    BY DEF SSIPStaking, SSIPWithdraw, SSIPMigrated, UpdatePoolWithdrawPendingCapital, caCover
  <1> QED  BY <1>1, <1>2, <1>3, CoverUnchanged DEF SafeInv

\* A step that leaves the agent and the sales policy alone.
LEMMA AgentUnchanged ==
    ASSUME SafeInv, UNCHANGED <<spVars, caVars>>
    PROVE  SPTypeOK' /\ CATypeOK' /\ CoverInv'
  <1>1. SPTypeOK'
    BY DEF SafeInv, TypeOK, SPTypeOK, spVars
  <1>2. CATypeOK'
    BY DEF SafeInv, TypeOK, CATypeOK, caVars, caBook, caParams, caCover
  <1>3. UNCHANGED claimedAmount
    BY DEF caVars, caCover
  <1> QED  BY <1>1, <1>2, <1>3, CoverUnchanged DEF SafeInv

\* A step that leaves the stakes, the rewards and the switches alone.
LEMMA StakersUnchanged ==
    ASSUME SafeInv, UNCHANGED stakerVars
    PROVE  OwnTypeOK'
  BY DEF SafeInv, TypeOK, OwnTypeOK, stakerVars, rewardVars, rewarderVars, switches

\* What is left to show of a step that leaves the switches and the clock alone.
LEMMA OwnFrom ==
    ASSUME SafeInv, userInfo' \in [Users -> UserType], RewardTypeOK',
           uno' \in [Users -> Nat], UNCHANGED switches
    PROVE  OwnTypeOK'
  BY DEF SafeInv, TypeOK, OwnTypeOK, UserType, RewardTypeOK, switches

\* The variables of the rewards, when neither they nor the Rewarder move.
LEMMA RewardUnchanged ==
    ASSUME SafeInv, UNCHANGED <<rewardVars, rewarderVars>>
    PROVE  RewardTypeOK'
  BY DEF SafeInv, TypeOK, OwnTypeOK, RewardTypeOK, rewardVars, rewarderVars

\* A user's stake and reward debt are replaced in the user's record.
LEMMA RecordReplaced ==
    ASSUME NEW r \in UserType, NEW debt \in Nat, NEW stake \in Nat
    PROVE  [r EXCEPT !.rewardDebt = debt, !.amount = stake] \in UserType
  BY DEF UserType

\* The same, at a user of userInfo.
LEMMA UserReplaced ==
    ASSUME NEW f \in [Users -> UserType], NEW u \in Users, NEW debt \in Nat, NEW stake \in Nat
    PROVE  [f EXCEPT ![u].rewardDebt = debt, ![u].amount = stake] \in [Users -> UserType]
  <1>1. [f[u] EXCEPT !.rewardDebt = debt] \in UserType
    BY DEF UserType
  <1>2. [f EXCEPT ![u].rewardDebt = debt] \in [Users -> UserType]
    BY <1>1
  <1>3. ASSUME NEW g \in [Users -> UserType]
        PROVE  [g EXCEPT ![u].amount = stake] \in [Users -> UserType]
    <2>1. [g[u] EXCEPT !.amount = stake] \in UserType
      BY DEF UserType
    <2> QED  BY <2>1
  <1> QED  BY <1>2, <1>3

\* SafeInv' from its parts.
LEMMA SafeFrom ==
    ASSUME SafeInv, now' \in Nat, SPTypeOK' /\ CATypeOK' /\ CoverInv', VaultInv', OwnTypeOK'
    PROVE  SafeInv'
  BY DEF SafeInv, TypeOK, VaultInv

-----------------------------------------------------------------------------
(* SafeInv is kept by what stakers do.                                     *)

\* enterInPool keeps SafeInv.
LEMMA EnterSafe ==
    ASSUME SafeInv, NEW u \in Users, NEW amount \in Nat, EnterInPool(u, amount)
    PROVE  SafeInv'
  <1> DEFINE minted == [v \in Users |-> IF v = u THEN ToLp(amount) ELSE 0]
  <1>1. lpPriceUno > 0
    BY DEF EnterInPool, RPEnter
  <1>2. ToLp(amount) \in Nat /\ EntryDebt(amount) \in Nat
    BY <1>1, ToLpNat, EntryDebtNat DEF SafeInv, VaultInv
  <1>3. cryptoBalance' \in Nat
    BY DEF EnterInPool, SafeInv, VaultInv, RPTypeOK
  <1>4. minted \in [Users -> Nat]
    BY <1>2
  <1>5. RPEnter(minted, ToLp(amount))
    BY DEF EnterInPool
  <1>6. VaultInv'
    BY <1>2, <1>3, <1>4, <1>5, EnterInv DEF SafeInv
  <1>7. SPTypeOK' /\ CATypeOK' /\ CoverInv'
    BY AgentReport DEF EnterInPool
  <1>8. OwnTypeOK'
    <2>1. userInfo' \in [Users -> UserType]
      <3>1. /\ userInfo \in [Users -> UserType]
            /\ userInfo[u].rewardDebt + EntryDebt(amount) \in Nat
            /\ userInfo[u].amount + ToLp(amount) \in Nat
        BY <1>2 DEF SafeInv, TypeOK, OwnTypeOK, UserType
      <3> QED  BY <3>1, UserReplaced DEF EnterInPool
    <2>2. uno' \in [Users -> Nat]
      BY DEF EnterInPool, SafeInv, TypeOK, OwnTypeOK
    <2>3. RewardTypeOK'
      BY UpdateType DEF EnterInPool, SafeInv, TypeOK, OwnTypeOK, RewardTypeOK, rewarderVars
    <2>4. UNCHANGED switches
      BY DEF EnterInPool
    <2> QED  BY <2>1, <2>2, <2>3, <2>4, OwnFrom
  <1>9. now' \in Nat
    BY DEF EnterInPool, SafeInv, TypeOK
  <1> QED  BY <1>6, <1>7, <1>8, <1>9, SafeFrom

\* leaveFromPoolInPending keeps SafeInv.
LEMMA RequestSafe ==
    ASSUME SafeInv, NEW u \in Users, NEW amount \in Nat, LeaveFromPoolInPending(u, amount)
    PROVE  SafeInv'
  <1>1. now \in Nat /\ now' \in Nat
    BY DEF LeaveFromPoolInPending, SafeInv, TypeOK
  <1>2. VaultInv'
    BY <1>1, RequestInv DEF LeaveFromPoolInPending, SafeInv
  <1>3. SPTypeOK' /\ CATypeOK' /\ CoverInv'
    BY AgentReport DEF LeaveFromPoolInPending
  <1>4. RewardTypeOK' /\ HarvestPay(u) \in Nat
    BY HarvestType DEF LeaveFromPoolInPending, SafeInv
  <1>5. DebtAfterReward(u) \in Nat
    BY RewardNat DEF LeaveFromPoolInPending, Harvest, SafeInv
  <1>6. userInfo' \in [Users -> UserType]
    BY <1>1, <1>5 DEF LeaveFromPoolInPending, AfterRequest, SafeInv, TypeOK, OwnTypeOK, UserType
  <1>7. uno' \in [Users -> Nat]
    BY <1>4, PayType DEF LeaveFromPoolInPending, SafeInv
  <1>8. OwnTypeOK'
    BY <1>4, <1>6, <1>7, OwnFrom DEF LeaveFromPoolInPending
  <1> QED  BY <1>1, <1>2, <1>3, <1>8, SafeFrom

\* leaveFromPending keeps SafeInv.
LEMMA LeaveSafe ==
    ASSUME SafeInv, NEW u \in Users, NEW lp \in Nat, LeaveFromPending(u, lp)
    PROVE  SafeInv'
  <1> DEFINE burned == LeaveLp(u, lp)
  <1>1. now' \in Nat
    BY DEF LeaveFromPending, SafeInv, TypeOK
  <1>2. VaultInv' /\ burned \in Nat /\ LeaveUno(lp) \in Nat
    BY LeaveInv, LeaveBounds DEF LeaveFromPending, SafeInv
  <1>3. SPTypeOK' /\ CATypeOK' /\ CoverInv'
    BY <1>2, AgentReport DEF LeaveFromPending
  <1>4. RewardTypeOK' /\ HarvestPay(u) \in Nat
    BY HarvestType DEF LeaveFromPending, SafeInv
  <1>5. /\ userInfo[u].amount \in Nat /\ userInfo[u].amount >= burned
        /\ userInfo[u].amount - burned \in Nat
    BY <1>2 DEF LeaveFromPending, SafeInv, TypeOK, OwnTypeOK
  <1>6. Accumulated(userInfo[u].amount) - Accumulated(burned) \in Nat
    <2>1. /\ Accumulated(userInfo[u].amount) \in Nat /\ Accumulated(burned) \in Nat
          /\ Accumulated(burned) <= Accumulated(userInfo[u].amount)
      BY <1>2, <1>5, AccumulatedNat, AccumulatedMono DEF SafeInv
    <2> QED  BY <2>1
  <1>7. userInfo' \in [Users -> UserType]
    <2> DEFINE debt == Accumulated(userInfo[u].amount) - Accumulated(burned)
    <2>1. userInfo' = [userInfo EXCEPT ![u].rewardDebt = debt, ![u].amount = @ - burned]
      BY DEF LeaveFromPending
    <2>2. debt \in Nat
      BY <1>6
    <2> HIDE DEF debt, burned
    <2> QED  BY <1>5, <2>1, <2>2 DEF SafeInv, TypeOK, OwnTypeOK, UserType
  <1>8. uno' \in [Users -> Nat]
    <2>1. HarvestPay(u) + LeaveUno(lp) \in Nat
      BY <1>2, <1>4
    <2> QED  BY <2>1, PayType DEF LeaveFromPending, SafeInv
  <1>9. OwnTypeOK'
    BY <1>4, <1>7, <1>8, OwnFrom DEF LeaveFromPending
  <1> QED  BY <1>1, <1>2, <1>3, <1>9, SafeFrom

\* cancelWithdrawRequest keeps SafeInv.
LEMMA CancelSafe ==
    ASSUME SafeInv, NEW u \in Users, CancelWithdrawRequest(u)
    PROVE  SafeInv'
  <1>1. pendingAmount(u) \in Nat
    BY DEF SafeInv, VaultInv, RPTypeOK, pendingAmount
  <1>2. UpdatePoolWithdrawPendingCapital(ThisPool, ThisPool, pendingAmount(u), FALSE)
    BY DEF CancelWithdrawRequest
  <1>3. SPTypeOK' /\ CATypeOK' /\ CoverInv'
    BY <1>1, <1>2, AgentReport DEF CancelWithdrawRequest
  <1>4. VaultInv'
    BY CancelInv DEF CancelWithdrawRequest, SafeInv
  <1>5. OwnTypeOK'
    BY StakersUnchanged DEF CancelWithdrawRequest, stakerVars
  <1>6. now' \in Nat
    BY DEF CancelWithdrawRequest, SafeInv, TypeOK
  <1> QED  BY <1>3, <1>4, <1>5, <1>6, SafeFrom

\* A transfer of LP tokens with its callback lpTransfer keeps SafeInv.
LEMMA TransferSafe ==
    ASSUME SafeInv, NEW from \in Users, NEW to \in Users, NEW lp \in Nat, Transfer(from, to, lp)
    PROVE  SafeInv'
  <1> DEFINE debt == Accumulated(userInfo[from].amount) - Accumulated(lp)
             sent == [userInfo EXCEPT ![from].rewardDebt = debt, ![from].amount = @ - lp]
             earned == Accumulated(lp)
  <1>1. now' \in Nat
    BY DEF Transfer, SafeInv, TypeOK
  <1>2. VaultInv'
    BY TransferInv DEF Transfer, SafeInv
  <1>3. SPTypeOK' /\ CATypeOK' /\ CoverInv'
    BY AgentUnchanged DEF Transfer
  <1>4. RewardTypeOK' /\ HarvestPay(from) \in Nat
    BY HarvestType DEF Transfer, SafeInv
  <1>5. userInfo[from].amount \in Nat /\ userInfo[from].amount >= lp
    BY DEF Transfer, SafeInv, TypeOK, OwnTypeOK, VaultInv, RPTypeOK, pendingAmount
  <1>6. debt \in Nat /\ earned \in Nat
    BY <1>5, AccumulatedNat, AccumulatedMono DEF SafeInv
  <1>7. sent \in [Users -> UserType]
    <2>1. userInfo \in [Users -> UserType] /\ userInfo[from].amount - lp \in Nat
      BY <1>5 DEF SafeInv, TypeOK, OwnTypeOK, UserType
    <2> QED  BY <1>6, <2>1, UserReplaced
  <1>8. userInfo' = [sent EXCEPT ![to].rewardDebt = @ + earned, ![to].amount = @ + lp]
    BY DEF Transfer
  <1>9. userInfo' \in [Users -> UserType]
    <2> HIDE DEF sent, earned
    <2>1. sent[to].rewardDebt + earned \in Nat /\ sent[to].amount + lp \in Nat
      BY <1>6, <1>7 DEF UserType
    <2> QED  BY <1>7, <1>8, <2>1, UserReplaced
  <1>10. uno' \in [Users -> Nat]
    BY <1>4, PayType DEF Transfer, SafeInv
  <1>11. OwnTypeOK'
    BY <1>4, <1>9, <1>10, OwnFrom DEF Transfer
  <1> QED  BY <1>1, <1>2, <1>3, <1>11, SafeFrom

\* emergencyWithdraw keeps SafeInv.
LEMMA EmergencySafe ==
    ASSUME SafeInv, NEW u \in Users, EmergencyWithdraw(u)
    PROVE  SafeInv'
  <1>1. now' \in Nat
    BY DEF EmergencyWithdraw, SafeInv, TypeOK
  <1>2. userInfo[u].amount \in Nat
    BY DEF SafeInv, TypeOK, OwnTypeOK
  <1>3. VaultInv' /\ ToUno(userInfo[u].amount) \in Nat
    BY <1>2, EmergencyInv, ToUnoNat DEF EmergencyWithdraw, SafeInv, VaultInv
  <1>4. SPTypeOK' /\ CATypeOK' /\ CoverInv'
    BY AgentUnchanged DEF EmergencyWithdraw
  <1>5. userInfo' \in [Users -> UserType]
    BY DEF EmergencyWithdraw, NoUser, SafeInv, TypeOK, OwnTypeOK, UserType
  <1>6. uno' \in [Users -> Nat]
    BY <1>3, PayType DEF EmergencyWithdraw, SafeInv
  <1>7. RewardTypeOK'
    BY RewardUnchanged DEF EmergencyWithdraw
  <1>8. OwnTypeOK'
    BY <1>5, <1>6, <1>7, OwnFrom DEF EmergencyWithdraw
  <1> QED  BY <1>1, <1>3, <1>4, <1>8, SafeFrom

\* migrate keeps SafeInv.
LEMMA MigrateSafe ==
    ASSUME SafeInv, NEW u \in Users, Migrate(u)
    PROVE  SafeInv'
  <1> DEFINE isUnLocked == now - userInfo[u].lastWithdrawTime > lockTime
  <1>1. now' \in Nat
    BY DEF Migrate, SafeInv, TypeOK
  <1>2. RPMigrateLP(u, isUnLocked)
    BY DEF Migrate
  <1>3. isUnLocked \in BOOLEAN
    OBVIOUS
  <1>4. /\ VaultInv' /\ MigratePaid(u, isUnLocked) \in Nat
        /\ MigratedAmount(u, isUnLocked) \in Nat
    <2> HIDE DEF isUnLocked
    <2> QED  BY <1>2, <1>3, MigrateInv, MigrateBounds DEF SafeInv
  <1>5. SSIPMigrated(ThisPool, MigratedAmount(u, isUnLocked)) /\ UNCHANGED spVars
    BY DEF Migrate
  <1>6. SPTypeOK' /\ CATypeOK' /\ CoverInv'
    <2> HIDE DEF isUnLocked
    <2> QED  BY <1>4, <1>5, AgentReport
  <1>7. RewardTypeOK' /\ HarvestPay(u) \in Nat
    BY HarvestType DEF Migrate, SafeInv
  <1>8. userInfo' \in [Users -> UserType]
    BY DEF Migrate, SafeInv, TypeOK, OwnTypeOK, UserType
  <1>9. uno' \in [Users -> Nat]
    <2>1. Pay(u, HarvestPay(u) + MigratePaid(u, isUnLocked))
      BY DEF Migrate
    <2> HIDE DEF isUnLocked
    <2>2. HarvestPay(u) + MigratePaid(u, isUnLocked) \in Nat
      BY <1>4, <1>7
    <2> QED  BY <2>1, <2>2, PayType DEF SafeInv
  <1>10. OwnTypeOK'
    BY <1>7, <1>8, <1>9, OwnFrom DEF Migrate
  <1> QED  BY <1>1, <1>4, <1>6, <1>10, SafeFrom

-----------------------------------------------------------------------------
(* SafeInv is kept by the steps of the rewards.                            *)

\* harvest keeps SafeInv.
LEMMA HarvestSafe ==
    ASSUME SafeInv, NEW u \in Users, HarvestReward(u)
    PROVE  SafeInv'
  <1>1. RewardTypeOK' /\ HarvestPay(u) \in Nat
    BY HarvestType DEF HarvestReward, SafeInv
  <1>2. DebtAfterReward(u) \in Nat
    BY RewardNat DEF HarvestReward, Harvest, SafeInv
  <1>3. userInfo' \in [Users -> UserType]
    BY <1>2 DEF HarvestReward, SafeInv, TypeOK, OwnTypeOK, UserType
  <1>4. uno' \in [Users -> Nat]
    BY <1>1, PayType DEF HarvestReward, SafeInv
  <1>5. OwnTypeOK'
    BY <1>1, <1>3, <1>4, OwnFrom DEF HarvestReward
  <1>6. SPTypeOK' /\ CATypeOK' /\ CoverInv'
    BY AgentUnchanged DEF HarvestReward
  <1>7. VaultInv'
    BY VaultUnchanged DEF HarvestReward, SafeInv
  <1>8. now' \in Nat
    BY DEF HarvestReward, SafeInv, TypeOK
  <1> QED  BY <1>5, <1>6, <1>7, <1>8, SafeFrom

\* The rewards of several users become stakes at once.
LEMMA RollOverSafe ==
    ASSUME SafeInv, NEW S \in SUBSET Users, RollOverReward(S)
    PROVE  SafeInv'
  <1> DEFINE added == [u \in Users |-> IF u \in S THEN ToLp(Reward(u)) ELSE 0]
  <1>1. PICK total \in 0 .. rewarderBalance :
           /\ OnReward(total, SumFunction([u \in S |-> userInfo[u].amount]))
           /\ \E minted \in 0 .. ToLp(total) : RPEnter(added, minted)
           /\ cryptoBalance' = cryptoBalance + total
           /\ SSIPStaking(ThisPool, total)
    BY DEF RollOverReward
  <1>2. total \in Nat
    OBVIOUS
  <1>3. lpPriceUno > 0
    BY DEF RollOverReward
  <1>4. ASSUME NEW u \in S
        PROVE  Reward(u) \in Nat /\ ToLp(Reward(u)) \in Nat /\ EntryDebt(Reward(u)) \in Nat
    <2>1. Reward(u) \in Nat
      BY RewardNat DEF RollOverReward, SafeInv
    <2> QED  BY <1>3, <2>1, ToLpNat, EntryDebtNat DEF SafeInv, VaultInv
  <1>5. VaultInv'
    <2>1. added \in [Users -> Nat]
      BY <1>4
    <2>2. PICK minted \in 0 .. ToLp(total) : RPEnter(added, minted)
      BY <1>1
    <2>3. minted \in Nat
      BY <1>2, <1>3, ToLpNat DEF SafeInv, VaultInv
    <2>4. cryptoBalance' \in Nat
      BY <1>1, <1>2 DEF SafeInv, VaultInv, RPTypeOK
    <2> HIDE DEF added
    <2> QED  BY <2>1, <2>2, <2>3, <2>4, EnterInv DEF SafeInv
  <1>6. SPTypeOK' /\ CATypeOK' /\ CoverInv'
    BY <1>1, <1>2, AgentReport DEF RollOverReward
  <1>7. userInfo' \in [Users -> UserType]
    <2> DEFINE new(u) ==
          [userInfo[u] EXCEPT
             !.rewardDebt = Accumulated(userInfo[u].amount) + EntryDebt(Reward(u)),
             !.amount = @ + ToLp(Reward(u))]
    <2>1. ASSUME NEW u \in Users PROVE userInfo[u] \in UserType
      BY DEF SafeInv, TypeOK, OwnTypeOK, UserType
    <2>2. ASSUME NEW u \in S PROVE new(u) \in UserType
      <3>1. userInfo[u] \in UserType /\ userInfo[u].amount \in Nat
        BY <2>1 DEF UserType
      <3>2. Accumulated(userInfo[u].amount) \in Nat
        BY <3>1, AccumulatedNat DEF SafeInv
      <3>3. userInfo[u].amount + ToLp(Reward(u)) \in Nat
        BY <1>4, <3>1
      <3>4. Accumulated(userInfo[u].amount) + EntryDebt(Reward(u)) \in Nat
        BY <1>4, <3>2
      <3> QED  BY <3>1, <3>3, <3>4, RecordReplaced
    <2>3. userInfo' = [u \in Users |-> IF u \in S THEN new(u) ELSE userInfo[u]]
      BY DEF RollOverReward
    <2> HIDE DEF new
    <2> QED  BY <2>1, <2>2, <2>3
  <1>8. RewardTypeOK'
    <2>1. /\ accUnoPerShare' \in Nat /\ lastRewardBlock' \in Nat
          /\ unoMultiplierPerBlock' \in Nat
      BY UpdateType DEF RollOverReward, SafeInv
    <2>2. rewarder' \in BOOLEAN /\ rewarderPaused' \in BOOLEAN /\ rewarderBalance' \in Nat
      BY <1>1, <1>2 DEF OnReward, SafeInv, TypeOK, OwnTypeOK
    <2> QED  BY <2>1, <2>2 DEF RewardTypeOK
  <1>9. uno' \in [Users -> Nat] /\ UNCHANGED switches /\ now' \in Nat
    BY DEF RollOverReward, SafeInv, TypeOK, OwnTypeOK
  <1>10. OwnTypeOK'
    BY <1>7, <1>8, <1>9, OwnFrom
  <1> QED  BY <1>5, <1>6, <1>9, <1>10, SafeFrom

\* The switch of one user, and a call of updatePool by anyone.
LEMMA ToggleSafe ==
    ASSUME SafeInv, PublicUpdatePool \/ \E u \in Users : ToggleRollOver(u)
    PROVE  SafeInv'
  <1>1. UNCHANGED <<now, spVars, caVars, rpVars, rewarderVars, switches, uno>>
    BY Zenon DEF PublicUpdatePool, ToggleRollOver
  <1>2. SPTypeOK' /\ CATypeOK' /\ CoverInv' /\ VaultInv' /\ now' \in Nat
    BY <1>1, AgentUnchanged, VaultUnchanged DEF SafeInv, TypeOK
  <1>3. userInfo' \in [Users -> UserType]
    BY DEF PublicUpdatePool, ToggleRollOver, SafeInv, TypeOK, OwnTypeOK, UserType
  <1>4. RewardTypeOK'
    <2>1. CASE PublicUpdatePool
      BY <2>1, UpdateType DEF PublicUpdatePool, rewarderVars, SafeInv, TypeOK, OwnTypeOK,
                              RewardTypeOK
    <2>2. CASE \E u \in Users : ToggleRollOver(u)
      BY <2>2, RewardUnchanged DEF ToggleRollOver
    <2> QED  BY <2>1, <2>2
  <1>5. OwnTypeOK'
    BY <1>1, <1>3, <1>4, OwnFrom DEF SafeInv, TypeOK, OwnTypeOK
  <1> QED  BY <1>2, <1>5, SafeFrom

-----------------------------------------------------------------------------
(* SafeInv is kept by cover and by the administration.                     *)

\* Sales, expiries, closings and payouts keep SafeInv.
LEMMA CoverSafe ==
    ASSUME SafeInv, CoverNext
    PROVE  SafeInv'
  <1> USE PoolAssumption
  <1>1. CASE \E id \in PolicyIds, amount \in Amounts : SettlePayout(id, amount)
    <2>1. PICK id \in PolicyIds, amount \in Amounts : SettlePayout(id, amount)
      BY <1>1
    <2>2. amount \in Nat
      OBVIOUS
    <2>3. VaultInv' /\ RealClaimAmount(amount) \in Nat
      BY <2>1, <2>2, ClaimInv, ClaimBounds DEF SettlePayout, SafeInv
    <2>4. SPTypeOK' /\ CATypeOK' /\ CoverInv'
      BY <2>1, <2>3, PolicyClaimType, CoverPaid DEF SettlePayout, SafeInv, TypeOK
    <2>5. OwnTypeOK' /\ now' \in Nat
      BY <2>1, StakersUnchanged DEF SettlePayout, SafeInv, TypeOK
    <2> QED  BY <2>3, <2>4, <2>5, SafeFrom
  <1>2. CASE \E q \in Quotes : BuyPolicy(q)
    <2>1. PICK q \in Quotes : SPBuyPolicy(q) /\ PolicySale(CoverTotal(q))
                              /\ UNCHANGED <<now, rpVars, stakerVars>>
      BY <1>2 DEF BuyPolicy
    <2>2. CoverTotal(q) \in Nat /\ UNCHANGED claimedAmount
      BY <2>1, CoverTotalNat DEF PolicySale, caVars, caCover
    <2>3. SPTypeOK' /\ CATypeOK' /\ CoverInv'
      BY <2>1, <2>2, BuyType, SaleType, CoverSold DEF SafeInv, TypeOK
    <2>4. VaultInv' /\ OwnTypeOK' /\ now' \in Nat
      BY <2>1, VaultUnchanged, StakersUnchanged DEF SafeInv, TypeOK
    <2> QED  BY <2>3, <2>4, SafeFrom
  <1>3. CASE \E id \in PolicyIds : ExpirePolicy(id) \/ AdminClaim(id)
    <2>1. PICK id \in PolicyIds : /\ UpdatePolicyStatus(id) \/ AdminMarkToClaimPolicy(id)
                                  /\ UNCHANGED <<now, rpVars, stakerVars>>
      BY <1>3 DEF ExpirePolicy, AdminClaim
    <2>2. SPTypeOK' /\ CATypeOK' /\ CoverInv'
      BY <2>1, StatusType, AdminClaimType, CoverReleased DEF SafeInv, TypeOK
    <2>3. VaultInv' /\ OwnTypeOK' /\ now' \in Nat
      BY <2>1, VaultUnchanged, StakersUnchanged DEF SafeInv, TypeOK
    <2> QED  BY <2>2, <2>3, SafeFrom
  <1> QED  BY <1>1, <1>2, <1>3 DEF CoverNext

\* A step that moves the clock, the stakers' side or the switches only.
LEMMA ContractsUnchanged ==
    ASSUME SafeInv, UNCHANGED contracts, OwnTypeOK'
    PROVE  SafeInv'
  <1>1. SPTypeOK' /\ CATypeOK' /\ CoverInv' /\ VaultInv' /\ now' \in Nat
    BY AgentUnchanged, VaultUnchanged DEF contracts, SafeInv, TypeOK
  <1> QED  BY <1>1, SafeFrom

\* The pool's switches and the agent's parameters keep SafeInv.
LEMMA ParameterSafe ==
    ASSUME SafeInv, ParameterNext
    PROVE  SafeInv'
  <1> USE PoolAssumption
  <1>1. CASE \/ \E isPaused \in BOOLEAN : SetPaused(isPaused)
             \/ \E isKilled \in BOOLEAN : SetKilled(isKilled)
    <2>1. UNCHANGED contracts
      BY Zenon, <1>1 DEF SetPaused, SetKilled
    <2>2. OwnTypeOK'
      BY <1>1 DEF SetPaused, SetKilled, SafeInv, TypeOK, OwnTypeOK, rewardVars, rewarderVars
    <2> QED  BY <2>1, <2>2, ContractsUnchanged
  <1>2. CASE \/ \E time \in Times : SetLockTime(time)
             \/ \E delay \in Times : SetStakingStartTime(delay)
    <2>1. UNCHANGED contracts
      BY Zenon, <1>2 DEF SetLockTime, SetStakingStartTime
    <2>2. OwnTypeOK'
      BY <1>2 DEF SetLockTime, SetStakingStartTime, SafeInv, TypeOK, OwnTypeOK, rewardVars,
                  rewarderVars
    <2> QED  BY <2>1, <2>2, ContractsUnchanged
  <1>3. CASE \E multiplier \in Amounts : SetRewardMultiplier(multiplier)
    <2>1. UNCHANGED contracts
      BY Zenon, <1>3 DEF SetRewardMultiplier
    <2>2. OwnTypeOK'
      BY <1>3 DEF SetRewardMultiplier, SafeInv, TypeOK, OwnTypeOK, switches, rewarderVars
    <2> QED  BY <2>1, <2>2, ContractsUnchanged
  <1>4. CASE \E amount \in Amounts : SetMinLPCapital(amount)
    <2>1. PICK amount \in Nat : SetMinLPCapital(amount)
      BY <1>4
    <2>2. VaultInv' /\ SPTypeOK' /\ CATypeOK' /\ CoverInv' /\ OwnTypeOK' /\ now' \in Nat
      BY <2>1, SettingInv, AgentUnchanged, StakersUnchanged DEF SetMinLPCapital, SafeInv, TypeOK
    <2> QED  BY <2>2, SafeFrom
  <1>5. CASE AgentParameters
    <2>1. UNCHANGED <<now, spVars, rpVars, stakerVars>>
      BY <1>5 DEF AgentParameters
    <2>2. \E figure \in Nat : \/ SetMCR(figure) \/ SetMLR(figure)
                              \/ SetSCR(ThisPool, figure) \/ RateMoves(UNO, figure)
      BY <1>5, CapitalAssumption DEF AgentParameters
    <2>3. CATypeOK'
      BY <2>2, ParameterType DEF SafeInv, TypeOK
    <2>4. UNCHANGED claimedAmount
      BY <2>2 DEF SetMCR, SetMLR, SetSCR, RateMoves, caCover
    <2>5. SPTypeOK' /\ CoverInv'
      BY <2>1, <2>4, CoverUnchanged DEF SafeInv, TypeOK, SPTypeOK, spVars
    <2>6. VaultInv' /\ OwnTypeOK' /\ now' \in Nat
      BY <2>1, VaultUnchanged, StakersUnchanged DEF SafeInv, TypeOK
    <2> QED  BY <2>3, <2>5, <2>6, SafeFrom
  <1> QED  BY <1>1, <1>2, <1>3, <1>4, <1>5 DEF ParameterNext

\* What happens to the Rewarder keeps SafeInv.
LEMMA RewarderSafe ==
    ASSUME SafeInv, RewarderNext
    PROVE  SafeInv'
  <1> USE PoolAssumption
  <1>1. UNCHANGED <<contracts, userInfo, rewardVars, switches>>
    BY Zenon DEF RewarderNext, CreateRewarder, FundRewarder, SetRewarderPaused, RewarderWithdraw
  <1>2. /\ rewarder' \in BOOLEAN /\ rewarderPaused' \in BOOLEAN /\ rewarderBalance' \in Nat
        /\ uno' \in [Users -> Nat]
    <2>1. CASE CreateRewarder \/ \E isPaused \in BOOLEAN : SetRewarderPaused(isPaused)
      <3>1. /\ rewarder' = TRUE \/ rewarder' = rewarder
            /\ rewarderPaused' = FALSE \/ rewarderPaused' \in BOOLEAN
            /\ rewarderBalance' = 0 \/ rewarderBalance' = rewarderBalance
            /\ uno' = uno
        BY Zenon, <2>1 DEF CreateRewarder, SetRewarderPaused
      <3>2. rewarder' \in BOOLEAN /\ rewarderPaused' \in BOOLEAN
        BY Zenon, <3>1 DEF SafeInv, TypeOK, OwnTypeOK
      <3>3. rewarderBalance' \in Nat /\ uno' \in [Users -> Nat]
        BY <3>1 DEF SafeInv, TypeOK, OwnTypeOK
      <3> QED  BY <3>2, <3>3
    <2>2. CASE \E u \in Users, amount \in Amounts : FundRewarder(u, amount)
      <3>1. PICK u \in Users, amount \in Nat : FundRewarder(u, amount)
        BY <2>2
      <3>2. /\ rewarderBalance' = rewarderBalance + amount
            /\ uno' = [uno EXCEPT ![u] = uno[u] - amount] /\ uno[u] >= amount
            /\ UNCHANGED <<rewarder, rewarderPaused>>
        BY <3>1 DEF FundRewarder
      <3>3. uno \in [Users -> Nat] /\ uno[u] - amount \in Nat
        BY <3>2 DEF SafeInv, TypeOK, OwnTypeOK
      <3> QED  BY <3>2, <3>3 DEF SafeInv, TypeOK, OwnTypeOK
    <2>3. CASE \E to \in Users, amount \in Amounts : RewarderWithdraw(to, amount)
      <3>1. PICK to \in Users, amount \in Nat : RewarderWithdraw(to, amount)
        BY <2>3
      <3> DEFINE paid == IF rewarderBalance >= amount THEN amount ELSE rewarderBalance
      <3>2. /\ rewarderBalance' = rewarderBalance - paid /\ Pay(to, paid)
            /\ UNCHANGED <<rewarder, rewarderPaused>>
        BY <3>1 DEF RewarderWithdraw
      <3>3. paid \in Nat /\ rewarderBalance - paid \in Nat
        BY DEF SafeInv, TypeOK, OwnTypeOK
      <3> HIDE DEF paid
      <3>4. uno' \in [Users -> Nat]
        BY <3>2, <3>3, PayType DEF SafeInv
      <3> QED  BY <3>2, <3>3, <3>4 DEF SafeInv, TypeOK, OwnTypeOK
    <2> QED  BY <2>1, <2>2, <2>3 DEF RewarderNext
  <1>3. OwnTypeOK'
    BY <1>1, <1>2 DEF SafeInv, TypeOK, OwnTypeOK, rewardVars, switches
  <1> QED  BY <1>1, <1>3, ContractsUnchanged

\* The other exits, and the functions that replace a figure of the accounts.
LEMMA OverrideSafe ==
    ASSUME SafeInv, ExitNext \/ OverrideNext
    PROVE  SafeInv'
  <1> USE PoolAssumption
  <1>1. CASE ToggleEmergencyWithdraw \/ SetMigrateTo
    <2>1. UNCHANGED contracts
      BY Zenon, <1>1 DEF ToggleEmergencyWithdraw, SetMigrateTo
    <2>2. OwnTypeOK'
      BY <1>1 DEF ToggleEmergencyWithdraw, SetMigrateTo, SafeInv, TypeOK, OwnTypeOK,
                  rewardVars, rewarderVars
    <2> QED  BY <2>1, <2>2, ContractsUnchanged
  <1>2. CASE \E u \in Users : Migrate(u) \/ EmergencyWithdraw(u)
    BY <1>2, MigrateSafe, EmergencySafe
  <1>3. CASE \E u \in Users, amount \in Amounts, rewardDebt \in Amounts :
               SetUserDetails(u, amount, rewardDebt)
    <2>1. PICK u \in Users, amount \in Nat, rewardDebt \in Nat :
             SetUserDetails(u, amount, rewardDebt)
      BY <1>3
    <2> DEFINE minted == [v \in Users |-> IF v = u THEN ToLp(amount) ELSE 0]
    <2>2. RPEnter(minted, ToLp(amount)) /\ UNCHANGED cryptoBalance
      BY <2>1 DEF SetUserDetails
    <2>3. ToLp(amount) \in Nat
      BY <2>2, ToLpNat DEF RPEnter, SafeInv, VaultInv
    <2>4. minted \in [Users -> Nat] /\ cryptoBalance' \in Nat
      BY <2>2, <2>3 DEF SafeInv, VaultInv, RPTypeOK
    <2>5. VaultInv'
      BY <2>2, <2>3, <2>4, EnterInv DEF SafeInv
    <2>6. SPTypeOK' /\ CATypeOK' /\ CoverInv'
      BY <2>1, AgentUnchanged DEF SetUserDetails
    <2>7. userInfo' \in [Users -> UserType]
      BY <2>1 DEF SetUserDetails, SafeInv, TypeOK, OwnTypeOK, UserType
    <2>8. RewardTypeOK' /\ uno' \in [Users -> Nat] /\ now' \in Nat
      BY <2>1, RewardUnchanged DEF SetUserDetails, SafeInv, TypeOK, OwnTypeOK
    <2>9. OwnTypeOK'
      BY <2>1, <2>7, <2>8, OwnFrom DEF SetUserDetails
    <2> QED  BY <2>5, <2>6, <2>8, <2>9, SafeFrom
  <1>4. CASE \E price \in Amounts : SetLpPrice(price)
    <2>1. PICK price \in Nat : SetLpPrice(price)
      BY <1>4
    <2>2. VaultInv' /\ SPTypeOK' /\ CATypeOK' /\ CoverInv' /\ OwnTypeOK' /\ now' \in Nat
      BY <2>1, SettingInv, AgentUnchanged, StakersUnchanged DEF SetLpPrice, SafeInv, TypeOK
    <2> QED  BY <2>2, SafeFrom
  <1>5. CASE \E acc \in Amounts, block \in Times : SetAccUnoPerShare(acc, block)
    <2>1. UNCHANGED contracts
      BY Zenon, <1>5 DEF SetAccUnoPerShare
    <2>2. OwnTypeOK'
      BY <1>5 DEF SetAccUnoPerShare, SafeInv, TypeOK, OwnTypeOK, switches, rewarderVars
    <2> QED  BY <2>1, <2>2, ContractsUnchanged
  <1>6. CASE \E capital \in Amounts : OverwritePoolCapital(capital)
    <2>1. PICK capital \in Nat : SetPoolCapital(ThisPool, capital)
                                 /\ UNCHANGED <<now, spVars, rpVars, stakerVars>>
      BY <1>6 DEF OverwritePoolCapital
    <2>2. CATypeOK'
      BY <2>1, SetPoolCapitalType DEF SafeInv, TypeOK
    <2>3. UNCHANGED claimedAmount
      BY <2>1 DEF SetPoolCapital, caCover
    <2>4. SPTypeOK' /\ CoverInv'
      BY <2>1, <2>3, CoverUnchanged DEF SafeInv, TypeOK, SPTypeOK, spVars
    <2>5. VaultInv' /\ OwnTypeOK' /\ now' \in Nat
      BY <2>1, VaultUnchanged, StakersUnchanged DEF SafeInv, TypeOK
    <2> QED  BY <2>2, <2>4, <2>5, SafeFrom
  <1> QED  BY <1>1, <1>2, <1>3, <1>4, <1>5, <1>6 DEF ExitNext, OverrideNext

\* The passing of time keeps SafeInv.
LEMMA TimeSafe ==
    ASSUME SafeInv, Time
    PROVE  SafeInv'
  <1>1. now' \in Nat
    BY TimeAssumption DEF Time, Tick, SafeInv, TypeOK
  <1>2. SPTypeOK' /\ CATypeOK' /\ CoverInv' /\ VaultInv' /\ OwnTypeOK'
    BY AgentUnchanged, VaultUnchanged, StakersUnchanged DEF Time, SafeInv
  <1> QED  BY <1>1, <1>2, SafeFrom

-----------------------------------------------------------------------------
(* The invariant of the whole system.                                      *)

\* SafeInv holds after deployment.
LEMMA InitSafe == Init => SafeInv
  <1> SUFFICES ASSUME Init PROVE SafeInv
    OBVIOUS
  <1> USE PoolAssumption, CapitalAssumption, SalesAssumption DEF Init
  <1>1. SPTypeOK
    <2>1. policyIdx \in 0 .. MaxPolicies
      BY DEF SPInit
    <2>2. getPolicy \in [PolicyIds -> [coverStartAt : Nat, coverageDuration : Nat,
                                       coverageAmount : Nat,
                                       exist : BOOLEAN, expired : BOOLEAN]]
      BY DEF SPInit, ZeroPolicy
    <2> QED  BY <2>1, <2>2 DEF SPInit, SPTypeOK
  <1>2. CATypeOK
    BY DEF CATypeOK, NoPool
  <1>3. VaultInv
    BY OneAssumption DEF RPInit, RPTypeOK, NoRequest, VaultInv, PendingWithinStake, pendingAmount
  <1>4. OwnTypeOK
    BY DEF OwnTypeOK, NoUser
  <1>5. CoverInv
    BY DEF SPInit, ZeroPolicy, CoverInv, ClaimsWithinCoverage, FullyPaidIsClosed,
           TokenIsActive, UnsoldIsBlank, coverage, Active
  <1> QED  BY <1>1, <1>2, <1>3, <1>4, <1>5 DEF SafeInv, TypeOK, VaultInv

\* Every step of the pool in operation keeps SafeInv.
LEMMA OperatingSafe ==
    ASSUME SafeInv, OperatingNext
    PROVE  SafeInv'
  <1>1. Amounts \subseteq Nat /\ LpAmounts \subseteq Nat
    BY PoolAssumption
  <1>2. CASE StakerNext
    <2>1. PICK u \in Users :
             \/ \E amount \in Nat : EnterInPool(u, amount) \/ LeaveFromPoolInPending(u, amount)
             \/ \E lp \in Nat : LeaveFromPending(u, lp) \/ \E to \in Users : Transfer(u, to, lp)
             \/ CancelWithdrawRequest(u)
      BY Zenon, <1>1, <1>2 DEF StakerNext
    <2> QED  BY <2>1, EnterSafe, RequestSafe, LeaveSafe, CancelSafe, TransferSafe
  <1>3. CASE RewardNext
    BY <1>3, HarvestSafe, RollOverSafe, ToggleSafe DEF RewardNext
  <1>4. CASE CoverNext \/ ParameterNext \/ RewarderNext \/ Time
    BY <1>4, CoverSafe, ParameterSafe, RewarderSafe, TimeSafe
  <1> QED  BY <1>2, <1>3, <1>4 DEF OperatingNext

\* Every step of the system keeps SafeInv.
LEMMA SafeStep == SafeInv /\ [Next]_vars => SafeInv'
  <1> SUFFICES ASSUME SafeInv, [Next]_vars PROVE SafeInv'
    OBVIOUS
  <1>1. CASE Next
    BY <1>1, OperatingSafe, OverrideSafe DEF Next
  <1>2. CASE UNCHANGED vars
    <2>1. UNCHANGED contracts /\ UNCHANGED stakerVars
      BY <1>2 DEF vars, contracts, stakerVars
    <2> QED  BY <2>1, StakersUnchanged, ContractsUnchanged
  <1> QED  BY <1>1, <1>2

\* In every step of the system, overrides and emergency exits included, the
\* variables keep their types: no checked subtraction is passed below zero.
THEOREM TypeCorrect == Spec => []TypeOK
  <1>1. SafeInv => TypeOK
    BY DEF SafeInv
  <1> QED  BY InitSafe, SafeStep, <1>1, PTL DEF Spec

\* RiskPool never lets a request exceed its user's LP tokens.
THEOREM PendingStaysWithinStake == Spec => []PendingWithinStake
  <1>1. SafeInv => PendingWithinStake
    BY DEF SafeInv, VaultInv
  <1> QED  BY InitSafe, SafeStep, <1>1, PTL DEF Spec

\* What settlePayout pays on a policy stays within the coverage sold.
THEOREM PayoutsStayWithinCoverage == Spec => []ClaimsWithinCoverage
  <1>1. SafeInv => ClaimsWithinCoverage
    BY DEF SafeInv, CoverInv
  <1> QED  BY InitSafe, SafeStep, <1>1, PTL DEF Spec

-----------------------------------------------------------------------------
(* The totals of the RiskPool.                                             *)

SafeLedgerInv == SafeInv /\ LedgerSums

ledgerVars == <<balances, totalSupply, withdrawRequestPerUser, totalWithdrawPending>>

\* What rollOverReward mints together is what it mints to each.
LEMMA RollOverLedger ==
    ASSUME SafeLedgerInv, VaultInv', NEW S \in SUBSET Users, RollOverReward(S)
    PROVE  LedgerSums'
  <1> DEFINE each == [u \in S |-> ToLp(Reward(u))]
             added == [u \in Users |-> IF u \in S THEN ToLp(Reward(u)) ELSE 0]
  <1>1. RPEnter(added, SumFunction(each))
    BY DEF RollOverReward
  <1>2. ASSUME NEW u \in S PROVE ToLp(Reward(u)) \in Nat
    <2>1. Reward(u) \in Nat
      BY RewardNat DEF RollOverReward, SafeLedgerInv, SafeInv
    <2> QED  BY <2>1, ToLpNat DEF RollOverReward, SafeLedgerInv, SafeInv, VaultInv
  <1>3. added \in [Users -> Nat]
    BY <1>2
  <1>4. SumFunctionOnSet(added, Users) = SumFunctionOnSet(added, S)
    <2>1. \A u \in Users : added[u] \in Int
      BY <1>3
    <2>2. \A u \in Users \ S : added[u] = 0
      OBVIOUS
    <2> HIDE DEF added
    <2> QED  BY <2>1, <2>2, SumOver, UsersAssumption
  <1>5. SumFunctionOnSet(added, S) = SumFunctionOnSet(each, S)
    <2>1. IsFiniteSet(S) /\ \A u \in S : added[u] = each[u]
      BY UsersAssumption, FS_Subset
    <2> HIDE DEF added, each
    <2> QED  BY <2>1, SumSame
  <1>6. SumFunction(each) = SumFunctionOnSet(each, S)
    BY DEF SumFunction
  <1> HIDE DEF added, each
  <1> QED  BY <1>1, <1>3, <1>4, <1>5, <1>6, EnterLedger DEF SafeLedgerInv, SafeInv, LedgerInv

\* What stakers do keeps the totals.
LEMMA StakerLedger ==
    ASSUME SafeLedgerInv, VaultInv', NEW u \in Users,
           \/ \E amount \in Nat : EnterInPool(u, amount) \/ LeaveFromPoolInPending(u, amount)
           \/ \E lp \in Nat : LeaveFromPending(u, lp) \/ \E to \in Users : Transfer(u, to, lp)
           \/ CancelWithdrawRequest(u)
           \/ Migrate(u) \/ EmergencyWithdraw(u)
    PROVE  LedgerSums'
  <1>1. SafeInv /\ LedgerInv /\ TypeOK
    BY DEF SafeLedgerInv, SafeInv, LedgerInv
  <1>2. CASE \E amount \in Nat : EnterInPool(u, amount)
    <2>1. PICK amount \in Nat : EnterInPool(u, amount)
      BY <1>2
    <2>2. RPEnter([v \in Users |-> IF v = u THEN ToLp(amount) ELSE 0], ToLp(amount))
      BY <2>1 DEF EnterInPool
    <2>3. ToLp(amount) \in Nat
      BY <1>1, <2>2, ToLpNat DEF RPEnter, TypeOK
    <2> QED  BY <1>1, <2>2, <2>3, MintedToOne, EnterLedger DEF LedgerInv
  <1>3. CASE \E amount \in Nat : LeaveFromPoolInPending(u, amount)
    <2>1. PICK amount \in Nat : RPLeaveFromPoolInPending(u, amount, now)
      BY <1>3 DEF LeaveFromPoolInPending
    <2>2. now \in Nat
      BY <1>1 DEF TypeOK
    <2> QED  BY <1>1, <2>1, <2>2, RequestLedger DEF LedgerInv
  <1>4. CASE \E lp \in Nat : LeaveFromPending(u, lp)
    BY <1>1, <1>4, LeaveLedger DEF LeaveFromPending, LedgerInv
  <1>5. CASE \E lp \in Nat, to \in Users : Transfer(u, to, lp)
    BY <1>1, <1>5, TransferLedger DEF Transfer, LedgerInv
  <1>6. CASE CancelWithdrawRequest(u)
    BY <1>1, <1>6, CancelLedger DEF CancelWithdrawRequest, LedgerInv
  <1>7. CASE Migrate(u)
    <2> DEFINE isUnLocked == now - userInfo[u].lastWithdrawTime > lockTime
    <2>1. RPMigrateLP(u, isUnLocked) /\ isUnLocked \in BOOLEAN
      BY <1>7 DEF Migrate
    <2> HIDE DEF isUnLocked
    <2> QED  BY <1>1, <2>1, MigrateLedger DEF LedgerInv
  <1>8. CASE EmergencyWithdraw(u)
    <2>1. userInfo[u].amount \in Nat /\ RPEmergencyWithdraw(u, userInfo[u].amount)
      BY <1>1, <1>8 DEF EmergencyWithdraw, TypeOK, OwnTypeOK
    <2> QED  BY <1>1, <2>1, EmergencyLedger DEF LedgerInv
  <1> QED  BY <1>2, <1>3, <1>4, <1>5, <1>6, <1>7, <1>8

\* setUserDetails mints what it records.
LEMMA DetailsLedger ==
    ASSUME SafeLedgerInv, VaultInv', NEW u \in Users, NEW amount \in Nat,
           NEW rewardDebt, SetUserDetails(u, amount, rewardDebt)
    PROVE  LedgerSums'
  <1>1. RPEnter([v \in Users |-> IF v = u THEN ToLp(amount) ELSE 0], ToLp(amount))
    BY DEF SetUserDetails
  <1>2. ToLp(amount) \in Nat
    BY <1>1, ToLpNat DEF RPEnter, SafeLedgerInv, SafeInv, TypeOK
  <1> QED  BY <1>1, <1>2, MintedToOne, EnterLedger DEF LedgerInv, SafeLedgerInv, SafeInv

\* The other steps move neither tokens nor requests.
LEMMA OtherLedger ==
    ASSUME \/ \E u \in Users : HarvestReward(u) \/ ToggleRollOver(u)
           \/ PublicUpdatePool \/ CoverNext \/ ParameterNext \/ RewarderNext \/ Time
           \/ ToggleEmergencyWithdraw \/ SetMigrateTo
           \/ \E price \in Amounts : SetLpPrice(price)
           \/ \E acc \in Amounts, block \in Times : SetAccUnoPerShare(acc, block)
           \/ \E capital \in Amounts : OverwritePoolCapital(capital)
           \/ UNCHANGED vars
    PROVE  UNCHANGED ledgerVars
  <1> USE DEF ledgerVars, rpVars, contracts
  <1>1. CASE \/ \E u \in Users : HarvestReward(u) \/ ToggleRollOver(u)
             \/ PublicUpdatePool \/ Time
    BY <1>1 DEF HarvestReward, ToggleRollOver, PublicUpdatePool, Time
  <1>2. CASE CoverNext
    BY <1>2 DEF CoverNext, SettlePayout, RPPolicyClaim, BuyPolicy, ExpirePolicy, AdminClaim
  <1>3. CASE ParameterNext
    BY <1>3 DEF ParameterNext, SetPaused, SetKilled, SetLockTime, SetStakingStartTime,
                SetRewardMultiplier, SetMinLPCapital, RPSetMinLPCapital, AgentParameters
  <1>4. CASE RewarderNext
    BY Zenon, <1>4 DEF RewarderNext, CreateRewarder, FundRewarder, SetRewarderPaused,
                       RewarderWithdraw
  <1>5. CASE \/ ToggleEmergencyWithdraw \/ SetMigrateTo
             \/ \E price \in Amounts : SetLpPrice(price)
    BY <1>5 DEF ToggleEmergencyWithdraw, SetMigrateTo, SetLpPrice, RPSetLpPriceUno
  <1>6. CASE \/ \E acc \in Amounts, block \in Times : SetAccUnoPerShare(acc, block)
             \/ \E capital \in Amounts : OverwritePoolCapital(capital)
             \/ UNCHANGED vars
    BY <1>6 DEF SetAccUnoPerShare, OverwritePoolCapital, vars
  <1> QED  BY <1>1, <1>2, <1>3, <1>4, <1>5, <1>6

\* Every step of the system keeps the totals the sums of the accounts.
LEMMA LedgerStep == SafeLedgerInv /\ [Next]_vars => SafeLedgerInv'
  <1> SUFFICES ASSUME SafeLedgerInv, [Next]_vars PROVE SafeLedgerInv'
    OBVIOUS
  <1>1. SafeInv' /\ VaultInv'
    BY SafeStep DEF SafeLedgerInv, SafeInv
  <1>2. ASSUME UNCHANGED ledgerVars PROVE LedgerSums'
    BY <1>1, <1>2, LedgerUnchanged DEF ledgerVars, SafeLedgerInv, SafeInv, LedgerInv
  <1>3. Amounts \subseteq Nat /\ LpAmounts \subseteq Nat
    BY PoolAssumption
  <1>4. CASE StakerNext \/ \E u \in Users : Migrate(u) \/ EmergencyWithdraw(u)
    <2>1. PICK u \in Users :
             \/ \E amount \in Nat : EnterInPool(u, amount) \/ LeaveFromPoolInPending(u, amount)
             \/ \E lp \in Nat : LeaveFromPending(u, lp) \/ \E to \in Users : Transfer(u, to, lp)
             \/ CancelWithdrawRequest(u)
             \/ Migrate(u) \/ EmergencyWithdraw(u)
      BY Zenon, <1>3, <1>4 DEF StakerNext
    <2> QED  BY <1>1, <2>1, StakerLedger DEF SafeLedgerInv
  <1>5. CASE \E S \in SUBSET Users : RollOverReward(S)
    BY <1>1, <1>5, RollOverLedger DEF SafeLedgerInv
  <1>6. CASE \E u \in Users, amount \in Amounts, rewardDebt \in Amounts :
               SetUserDetails(u, amount, rewardDebt)
    BY <1>1, <1>3, <1>6, DetailsLedger DEF SafeLedgerInv
  <1>7. CASE \/ \E u \in Users : HarvestReward(u) \/ ToggleRollOver(u)
             \/ PublicUpdatePool \/ CoverNext \/ ParameterNext \/ RewarderNext \/ Time
             \/ ToggleEmergencyWithdraw \/ SetMigrateTo
             \/ \E price \in Amounts : SetLpPrice(price)
             \/ \E acc \in Amounts, block \in Times : SetAccUnoPerShare(acc, block)
             \/ \E capital \in Amounts : OverwritePoolCapital(capital)
             \/ UNCHANGED vars
    BY <1>1, <1>2, <1>7, OtherLedger DEF SafeLedgerInv
  <1> QED  BY <1>4, <1>5, <1>6, <1>7
           DEF Next, OperatingNext, RewardNext, ExitNext, OverrideNext

\* Nothing is staked or requested at first.
LEMMA InitLedger == Init => SafeLedgerInv
  <1> SUFFICES ASSUME Init PROVE LedgerSums
    BY InitSafe DEF SafeLedgerInv
  <1>1. RPTypeOK
    BY InitSafe DEF SafeInv, VaultInv
  <1>2. RPInit(InitialMinLPCapital)
    BY DEF Init
  <1>3. \A u \in Users : balances[u] = 0 /\ Requests[u] = 0
    BY <1>2 DEF RPInit, Requests, pendingAmount, NoRequest
  <1>4. SumFunctionOnSet(balances, Users) = 0 /\ SumFunctionOnSet(Requests, Users) = 0
    BY <1>3, SumZero, UsersAssumption
  <1>5. totalSupply = 0 /\ totalWithdrawPending = 0
    BY <1>2 DEF RPInit
  <1> QED  BY <1>1, <1>4, <1>5, LedgerTotals

\* The supply of LP tokens and the total under request are the sums of the
\* accounts, also through roll-overs of several users, migrations, emergency
\* withdrawals and the overrides.
THEOREM TotalsStaySums == Spec => []LedgerSums
  <1>1. SafeLedgerInv => LedgerSums
    BY DEF SafeLedgerInv
  <1> QED  BY InitLedger, LedgerStep, <1>1, PTL DEF Spec

-----------------------------------------------------------------------------
(* The pool in operation: the accounts agree, and the vault is paid out by *)
(* the rules.                                                              *)

\* The clock of the user's withdrawals runs from the request that is open.
ClockOfRequest ==
    \A u \in Users : withdrawRequestPerUser[u].requestTime <= userInfo[u].lastWithdrawTime

Accounts == StakeIsLp /\ CapitalIsVault /\ ClockOfRequest

OpInv == SafeInv /\ Accounts

WaitStep ==
    totalWithdrawPending' < totalWithdrawPending /\ cryptoBalance' < cryptoBalance
      => \E u \in Users :
           /\ pendingAmount(u) > 0
           /\ withdrawRequestPerUser'[u] = NoRequest
           /\ now - withdrawRequestPerUser[u].requestTime >= lockTime

\* What a report says of the capital, and what happens to the vault meanwhile.
Reported(amount) ==
    \/ /\ SSIPStaking(ThisPool, amount)
       /\ cryptoBalance' = cryptoBalance + amount
    \/ /\ SSIPWithdraw(ThisPool, amount) \/ DecreaseCapital(ThisPool, amount, 0)
       /\ cryptoBalance' = cryptoBalance - amount
    \/ /\ \E isAdd \in BOOLEAN, other \in Nat :
             UpdatePoolWithdrawPendingCapital(ThisPool, ThisPool, other, isAdd)
       /\ cryptoBalance' = cryptoBalance

\* The capital on the agent's book moves with the vault, whatever there is between
\* the two.
LEMMA BookMoves ==
    ASSUME SafeInv, NEW amount \in Nat, Reported(amount),
           NEW gap \in Nat, poolInfo[ThisPool].totalCapital = cryptoBalance + gap
    PROVE  poolInfo'[ThisPool].totalCapital = cryptoBalance' + gap
  <1>1. /\ ThisPool \in Pools /\ poolInfo \in [Pools -> PoolType]
        /\ cryptoBalance \in Nat
    BY PoolAssumption DEF SafeInv, TypeOK, CATypeOK, RPTypeOK, PoolType
  <1>2. CASE SSIPStaking(ThisPool, amount) /\ cryptoBalance' = cryptoBalance + amount
    BY <1>1, <1>2 DEF SSIPStaking, IncreaseCapital, PoolType
  <1>3. CASE DecreaseCapital(ThisPool, amount, 0) /\ cryptoBalance' = cryptoBalance - amount
    BY <1>1, <1>3 DEF DecreaseCapital, PoolType
  <1>4. CASE SSIPWithdraw(ThisPool, amount) /\ cryptoBalance' = cryptoBalance - amount
    BY <1>1, <1>4 DEF SSIPWithdraw, DecreaseCapital, PoolType
  <1>5. CASE /\ \E isAdd \in BOOLEAN, other \in Nat :
                   UpdatePoolWithdrawPendingCapital(ThisPool, ThisPool, other, isAdd)
             /\ cryptoBalance' = cryptoBalance
    BY <1>1, <1>5 DEF UpdatePoolWithdrawPendingCapital, PoolType
  <1> QED  BY <1>2, <1>3, <1>4, <1>5 DEF Reported

\* In operation there is nothing between them.
LEMMA BookFollows ==
    ASSUME OpInv, NEW amount \in Nat, Reported(amount), cryptoBalance' \in Nat
    PROVE  CapitalIsVault'
  <1>1. SafeInv /\ poolInfo[ThisPool].totalCapital = cryptoBalance + 0
    BY DEF OpInv, Accounts, CapitalIsVault, SafeInv, TypeOK, RPTypeOK
  <1>2. poolInfo'[ThisPool].totalCapital = cryptoBalance' + 0
    BY <1>1, BookMoves
  <1>3. ASSUME NEW n \in Nat PROVE n + 0 = n
    OBVIOUS
  <1>4. poolInfo'[ThisPool].totalCapital = cryptoBalance'
    BY Zenon, <1>2, <1>3
  <1> QED  BY Zenon, <1>4 DEF CapitalIsVault

\* What each step of a staker reports.
LEMMA StakerReports ==
    ASSUME SafeInv, NEW u \in Users,
           \/ \E amount \in Nat : EnterInPool(u, amount) \/ LeaveFromPoolInPending(u, amount)
           \/ \E lp \in Nat : LeaveFromPending(u, lp)
           \/ CancelWithdrawRequest(u)
    PROVE  cryptoBalance' \in Nat /\ \E amount \in Nat : Reported(amount)
  <1>1. cryptoBalance \in Nat /\ pendingAmount(u) \in Nat
    BY DEF SafeInv, TypeOK, RPTypeOK, pendingAmount
  <1>2. ASSUME NEW amount \in Nat, EnterInPool(u, amount)
        PROVE  cryptoBalance' \in Nat /\ Reported(amount)
    BY <1>1, <1>2 DEF EnterInPool, Reported
  <1>3. ASSUME NEW amount \in Nat, LeaveFromPoolInPending(u, amount)
        PROVE  cryptoBalance' \in Nat /\ Reported(amount)
    BY <1>1, <1>3 DEF LeaveFromPoolInPending, RPLeaveFromPoolInPending, Reported
  <1>4. ASSUME NEW lp \in Nat, LeaveFromPending(u, lp)
        PROVE  cryptoBalance' \in Nat /\ LeaveUno(lp) \in Nat /\ Reported(LeaveUno(lp))
    <2>1. /\ RPLeaveFromPending(u, lp) /\ SSIPWithdraw(ThisPool, LeaveUno(lp))
          /\ cryptoBalance' = cryptoBalance - LeaveUno(lp)
      BY <1>4 DEF LeaveFromPending, RPLeaveFromPending
    <2>2. /\ LeaveUno(lp) \in Nat /\ LeaveUno(lp) <= cryptoBalance - MIN_LP_CAPITAL
          /\ MIN_LP_CAPITAL \in Nat
      BY <2>1, LeaveBounds DEF SafeInv, VaultInv, RPTypeOK, AvailableCapital
    <2> QED  BY <1>1, <2>1, <2>2 DEF Reported
  <1>5. ASSUME CancelWithdrawRequest(u)
        PROVE  cryptoBalance' \in Nat /\ Reported(0)
    BY <1>1, <1>5 DEF CancelWithdrawRequest, RPCancelWithdrawRequest, Reported
  <1> QED  BY <1>2, <1>3, <1>4, <1>5

\* A step that changes neither the stakes nor the vault nor the book.
LEMMA AccountsUnchanged ==
    ASSUME OpInv, UNCHANGED <<balances, withdrawRequestPerUser, cryptoBalance>>,
           poolInfo'[ThisPool].totalCapital = poolInfo[ThisPool].totalCapital,
           \A u \in Users : /\ userInfo'[u].amount = userInfo[u].amount
                            /\ userInfo'[u].lastWithdrawTime = userInfo[u].lastWithdrawTime
    PROVE  Accounts' /\ WaitStep
  <1>1. ~ (cryptoBalance' < cryptoBalance)
    BY DEF OpInv, SafeInv, TypeOK, RPTypeOK
  <1>2. Accounts'
    BY DEF OpInv, Accounts, StakeIsLp, CapitalIsVault, ClockOfRequest
  <1> QED  BY <1>1, <1>2 DEF WaitStep

\* enterInPool adds the same amounts to both sides of the accounts.
LEMMA EnterAccounts ==
    ASSUME OpInv, NEW u \in Users, NEW amount \in Nat, EnterInPool(u, amount)
    PROVE  Accounts' /\ WaitStep
  <1>1. cryptoBalance' = cryptoBalance + amount /\ SSIPStaking(ThisPool, amount)
    BY DEF EnterInPool
  <1>2. CapitalIsVault'
    BY StakerReports, BookFollows DEF OpInv
  <1>3. WaitStep
    BY <1>1 DEF WaitStep, OpInv, SafeInv, TypeOK, RPTypeOK
  <1>4. ToLp(amount) \in Nat
    BY ToLpNat DEF EnterInPool, RPEnter, OpInv, SafeInv, VaultInv
  <1>5. ASSUME NEW v \in Users
        PROVE  /\ userInfo'[v].amount = balances'[v]
               /\ withdrawRequestPerUser'[v].requestTime <= userInfo'[v].lastWithdrawTime
    <2>1. /\ withdrawRequestPerUser' = withdrawRequestPerUser
          /\ balances'[v] = balances[v] + (IF v = u THEN ToLp(amount) ELSE 0)
      BY DEF EnterInPool, RPEnter
    <2>2. /\ userInfo'[v].amount = userInfo[v].amount + (IF v = u THEN ToLp(amount) ELSE 0)
          /\ userInfo'[v].lastWithdrawTime = userInfo[v].lastWithdrawTime
      BY <1>4 DEF EnterInPool, OpInv, SafeInv, TypeOK, OwnTypeOK
    <2> QED  BY <2>1, <2>2 DEF OpInv, Accounts, StakeIsLp, ClockOfRequest
  <1> QED  BY <1>2, <1>3, <1>5 DEF Accounts, StakeIsLp, ClockOfRequest

\* A request moves no currency and no token, and restarts the user's clock.
LEMMA RequestAccounts ==
    ASSUME OpInv, NEW u \in Users, NEW amount \in Nat, LeaveFromPoolInPending(u, amount)
    PROVE  Accounts' /\ WaitStep
  <1>1. cryptoBalance' = cryptoBalance /\ balances' = balances
    BY DEF LeaveFromPoolInPending, RPLeaveFromPoolInPending
  <1>2. UpdatePoolWithdrawPendingCapital(ThisPool, ThisPool, amount, TRUE)
    BY DEF LeaveFromPoolInPending
  <1>3. CapitalIsVault'
    BY StakerReports, BookFollows DEF OpInv
  <1>4. WaitStep
    BY <1>1 DEF WaitStep, OpInv, SafeInv, TypeOK, RPTypeOK
  <1>5. ASSUME NEW v \in Users
        PROVE  /\ userInfo'[v].amount = balances'[v]
               /\ withdrawRequestPerUser'[v].requestTime <= userInfo'[v].lastWithdrawTime
    <2>1. userInfo'[v].amount = userInfo[v].amount
      BY DEF LeaveFromPoolInPending, AfterRequest, OpInv, SafeInv, TypeOK, OwnTypeOK
    <2>2. CASE v = u
      <3>1. userInfo'[u].lastWithdrawTime = now
        BY DEF LeaveFromPoolInPending, AfterRequest, OpInv, SafeInv, TypeOK, OwnTypeOK
      <3>2. withdrawRequestPerUser'[u].requestTime = now
        BY DEF LeaveFromPoolInPending, RPLeaveFromPoolInPending, OpInv, SafeInv, TypeOK,
               RPTypeOK
      <3> QED  BY <1>1, <2>1, <2>2, <3>1, <3>2
               DEF OpInv, Accounts, StakeIsLp, SafeInv, TypeOK
    <2>3. CASE v # u
      <3>1. /\ withdrawRequestPerUser'[v] = withdrawRequestPerUser[v]
            /\ userInfo'[v].lastWithdrawTime = userInfo[v].lastWithdrawTime
        BY <2>3 DEF LeaveFromPoolInPending, RPLeaveFromPoolInPending, AfterRequest, OpInv,
                    SafeInv, TypeOK, RPTypeOK, OwnTypeOK
      <3> QED  BY <1>1, <2>1, <3>1 DEF OpInv, Accounts, StakeIsLp, ClockOfRequest
    <2> QED  BY <2>2, <2>3
  <1> QED  BY <1>3, <1>4, <1>5 DEF Accounts, StakeIsLp, ClockOfRequest

\* The end of a request does not touch the clocks of the others.
LEMMA ClockAfterDelete ==
    ASSUME OpInv, NEW u \in Users, DeleteRequest(u),
           \A v \in Users : userInfo'[v].lastWithdrawTime = userInfo[v].lastWithdrawTime
    PROVE  ClockOfRequest' /\ withdrawRequestPerUser'[u] = NoRequest
  <1>1. withdrawRequestPerUser' = [withdrawRequestPerUser EXCEPT ![u] = NoRequest]
    BY DEF DeleteRequest
  <1>2. withdrawRequestPerUser'[u] = NoRequest /\ NoRequest.requestTime = 0
    BY <1>1 DEF NoRequest, OpInv, SafeInv, TypeOK, RPTypeOK
  <1>3. ASSUME NEW v \in Users
        PROVE  withdrawRequestPerUser'[v].requestTime <= userInfo'[v].lastWithdrawTime
    <2>1. userInfo[v].lastWithdrawTime \in Nat
      BY DEF OpInv, SafeInv, TypeOK, OwnTypeOK
    <2>2. v # u => withdrawRequestPerUser'[v] = withdrawRequestPerUser[v]
      BY <1>1 DEF OpInv, SafeInv, TypeOK, RPTypeOK
    <2> QED  BY <1>2, <2>1, <2>2 DEF OpInv, Accounts, ClockOfRequest
  <1> QED  BY <1>2, <1>3 DEF ClockOfRequest

\* A withdrawal takes the same off both sides, after lockTime.
LEMMA LeaveAccounts ==
    ASSUME OpInv, NEW u \in Users, NEW lp \in Nat, LeaveFromPending(u, lp)
    PROVE  Accounts' /\ WaitStep
  <1> DEFINE burned == LeaveLp(u, lp)
             paid == LeaveUno(lp)
  <1>1. burned \in Nat /\ paid \in Nat /\ paid <= cryptoBalance - MIN_LP_CAPITAL
    BY LeaveBounds DEF LeaveFromPending, OpInv, SafeInv, AvailableCapital
  <1>2. /\ cryptoBalance' = cryptoBalance - paid
        /\ balances' = [balances EXCEPT ![u] = @ - burned]
        /\ DeleteRequest(u)
        /\ pendingAmount(u) > 0
    BY DEF LeaveFromPending, RPLeaveFromPending, Burn
  <1>3. CapitalIsVault'
    BY StakerReports, BookFollows DEF OpInv
  <1>4. ASSUME NEW v \in Users
        PROVE  /\ userInfo'[v].amount = balances'[v]
               /\ userInfo'[v].lastWithdrawTime = userInfo[v].lastWithdrawTime
    <2> DEFINE debt == Accumulated(userInfo[u].amount) - Accumulated(burned)
    <2>1. userInfo' = [userInfo EXCEPT ![u].rewardDebt = debt, ![u].amount = @ - burned]
      BY DEF LeaveFromPending
    <2> HIDE DEF debt, burned
    <2> QED  BY <1>1, <1>2, <2>1
             DEF OpInv, Accounts, StakeIsLp, SafeInv, TypeOK, OwnTypeOK, RPTypeOK
  <1>5. ClockOfRequest' /\ withdrawRequestPerUser'[u] = NoRequest
    BY <1>2, <1>4, ClockAfterDelete
  <1>6. now - withdrawRequestPerUser[u].requestTime >= lockTime
    <2>1. now - userInfo[u].lastWithdrawTime >= lockTime
      BY DEF LeaveFromPending
    <2> QED  BY <2>1 DEF OpInv, Accounts, ClockOfRequest, SafeInv, TypeOK, OwnTypeOK, RPTypeOK
  <1>7. WaitStep
    BY <1>2, <1>5, <1>6 DEF WaitStep
  <1> QED  BY <1>3, <1>4, <1>5, <1>7 DEF Accounts, StakeIsLp

\* A cancellation moves no currency and no token.
LEMMA CancelAccounts ==
    ASSUME OpInv, NEW u \in Users, CancelWithdrawRequest(u)
    PROVE  Accounts' /\ WaitStep
  <1>1. /\ cryptoBalance' = cryptoBalance /\ balances' = balances
        /\ userInfo' = userInfo /\ DeleteRequest(u)
    BY DEF CancelWithdrawRequest, RPCancelWithdrawRequest
  <1>2. pendingAmount(u) \in Nat
    BY DEF OpInv, SafeInv, TypeOK, RPTypeOK, pendingAmount
  <1>3. CapitalIsVault'
    BY StakerReports, BookFollows DEF OpInv
  <1>4. ClockOfRequest'
    BY <1>1, ClockAfterDelete
  <1>5. WaitStep
    BY <1>1 DEF WaitStep, OpInv, SafeInv, TypeOK, RPTypeOK
  <1> QED  BY <1>1, <1>3, <1>4, <1>5 DEF OpInv, Accounts, StakeIsLp

\* The callback of a transfer follows the token, also from a user to itself.
LEMMA TransferAccounts ==
    ASSUME OpInv, NEW from \in Users, NEW to \in Users, NEW lp \in Nat, Transfer(from, to, lp)
    PROVE  Accounts' /\ WaitStep
  <1> DEFINE debt == Accumulated(userInfo[from].amount) - Accumulated(lp)
             sent == [userInfo EXCEPT ![from].rewardDebt = debt, ![from].amount = @ - lp]
             gone == [balances EXCEPT ![from] = @ - lp]
             earned == Accumulated(lp)
  <1>1. userInfo' = [sent EXCEPT ![to].rewardDebt = @ + earned, ![to].amount = @ + lp]
    BY DEF Transfer
  <1>2. balances' = [gone EXCEPT ![to] = @ + lp]
    BY DEF Transfer, RPTransfer
  <1>3. DOMAIN sent = Users /\ DOMAIN gone = Users
    BY DEF OpInv, SafeInv, TypeOK, OwnTypeOK, RPTypeOK
  <1>4. ASSUME NEW v \in Users
        PROVE  /\ sent[v].amount = gone[v]
               /\ sent[v].lastWithdrawTime = userInfo[v].lastWithdrawTime
               /\ sent[v] \in [amount : Int, rewardDebt : Int, lastWithdrawTime : Nat,
                               isNotRollOver : BOOLEAN]
    <2>1. userInfo \in [Users -> UserType] /\ userInfo[v].amount = balances[v]
      BY DEF OpInv, Accounts, StakeIsLp, SafeInv, TypeOK, OwnTypeOK, UserType
    <2>2. debt \in Nat /\ userInfo[from].amount - lp \in Nat
      <3>1. userInfo[from].amount \in Nat /\ userInfo[from].amount >= lp
        BY DEF Transfer, OpInv, SafeInv, TypeOK, OwnTypeOK, VaultInv, RPTypeOK, pendingAmount
      <3> QED  BY <3>1, AccumulatedNat, AccumulatedMono DEF OpInv, SafeInv
    <2>3. sent \in [Users -> UserType]
      BY <2>1, <2>2, UserReplaced
    <2>4. CASE v = from
      <3>1. sent[from].amount = userInfo[from].amount - lp
        BY <2>1 DEF UserType
      <3>2. sent[from].lastWithdrawTime = userInfo[from].lastWithdrawTime
        BY <2>1 DEF UserType
      <3>3. gone[from] = balances[from] - lp
        BY DEF OpInv, SafeInv, TypeOK, RPTypeOK
      <3> HIDE DEF sent, gone
      <3> QED  BY <2>1, <2>3, <2>4, <3>1, <3>2, <3>3 DEF UserType
    <2>5. CASE v # from
      <3>1. sent[v] = userInfo[v] /\ gone[v] = balances[v]
        BY <2>1, <2>5 DEF OpInv, SafeInv, TypeOK, RPTypeOK
      <3> HIDE DEF sent, gone
      <3> QED  BY <2>1, <2>3, <3>1 DEF UserType
    <2> QED  BY <2>4, <2>5
  <1>5. ASSUME NEW v \in Users
        PROVE  /\ userInfo'[v].amount = balances'[v]
               /\ userInfo'[v].lastWithdrawTime = userInfo[v].lastWithdrawTime
    <2> HIDE DEF sent, gone, earned
    <2> QED  BY <1>1, <1>2, <1>3, <1>4
  <1>6. /\ UNCHANGED <<cryptoBalance, withdrawRequestPerUser, poolInfo>>
    BY DEF Transfer, RPTransfer, caVars, caBook
  <1>7. CapitalIsVault' /\ ClockOfRequest'
    BY <1>5, <1>6 DEF OpInv, Accounts, CapitalIsVault, ClockOfRequest
  <1>8. WaitStep
    BY <1>6 DEF WaitStep, OpInv, SafeInv, TypeOK, RPTypeOK
  <1> QED  BY <1>5, <1>7, <1>8 DEF Accounts, StakeIsLp

\* A roll-over adds the rewards to both sides of the accounts.
LEMMA RollOverAccounts ==
    ASSUME OpInv, NEW S \in SUBSET Users, RollOverReward(S)
    PROVE  Accounts' /\ WaitStep
  <1> DEFINE added == [u \in Users |-> IF u \in S THEN ToLp(Reward(u)) ELSE 0]
  <1>1. PICK total \in 0 .. rewarderBalance :
           /\ \E minted \in 0 .. ToLp(total) : RPEnter(added, minted)
           /\ cryptoBalance' = cryptoBalance + total
           /\ SSIPStaking(ThisPool, total)
    BY DEF RollOverReward
  <1>2. total \in Nat
    OBVIOUS
  <1>3. CapitalIsVault'
    BY <1>1, <1>2, BookFollows DEF Reported, OpInv, SafeInv, TypeOK, RPTypeOK
  <1>4. WaitStep
    BY <1>1, <1>2 DEF WaitStep, OpInv, SafeInv, TypeOK, RPTypeOK
  <1>5. ASSUME NEW u \in Users
        PROVE  /\ userInfo'[u].amount = balances'[u]
               /\ withdrawRequestPerUser'[u].requestTime <= userInfo'[u].lastWithdrawTime
    <2>1. /\ balances'[u] = balances[u] + (IF u \in S THEN ToLp(Reward(u)) ELSE 0)
          /\ withdrawRequestPerUser' = withdrawRequestPerUser
      BY <1>1 DEF RPEnter
    <2>2. userInfo[u] \in UserType /\ balances[u] \in Nat
      BY DEF OpInv, SafeInv, TypeOK, OwnTypeOK, RPTypeOK, UserType
    <2>3. CASE u \in S
      <3>1. userInfo'[u] = [userInfo[u] EXCEPT
               !.rewardDebt = Accumulated(userInfo[u].amount) + EntryDebt(Reward(u)),
               !.amount = @ + ToLp(Reward(u))]
        BY <2>3 DEF RollOverReward
      <3>2. /\ userInfo'[u].amount = userInfo[u].amount + ToLp(Reward(u))
            /\ userInfo'[u].lastWithdrawTime = userInfo[u].lastWithdrawTime
        BY <2>2, <3>1 DEF UserType
      <3> QED  BY <2>1, <2>3, <3>2 DEF OpInv, Accounts, StakeIsLp, ClockOfRequest
    <2>4. CASE u \notin S
      <3>1. userInfo'[u] = userInfo[u]
        BY <2>4 DEF RollOverReward
      <3> QED  BY <2>1, <2>2, <2>4, <3>1 DEF OpInv, Accounts, StakeIsLp, ClockOfRequest
    <2> QED  BY <2>3, <2>4
  <1> QED  BY <1>3, <1>4, <1>5 DEF Accounts, StakeIsLp, ClockOfRequest

\* The book follows a payout.
LEMMA SettleAccounts ==
    ASSUME OpInv, NEW id \in PolicyIds, NEW amount \in Nat, SettlePayout(id, amount)
    PROVE  Accounts' /\ WaitStep
  <1> DEFINE paid == RealClaimAmount(amount)
  <1>1. paid \in Nat /\ paid <= cryptoBalance - MIN_LP_CAPITAL
    BY ClaimBounds DEF SettlePayout, OpInv, SafeInv, AvailableCapital
  <1>2. /\ cryptoBalance' = cryptoBalance - paid
        /\ UNCHANGED <<balances, withdrawRequestPerUser, totalWithdrawPending, userInfo>>
        /\ DecreaseCapital(ThisPool, paid, 0)
    BY DEF SettlePayout, RPPolicyClaim, SSIPPolicyClaim, stakerVars
  <1>3. CapitalIsVault'
    BY <1>1, <1>2, BookFollows DEF Reported, OpInv, SafeInv, TypeOK, RPTypeOK
  <1>4. WaitStep
    BY <1>2 DEF WaitStep, OpInv, SafeInv, TypeOK, RPTypeOK
  <1> QED  BY <1>2, <1>3, <1>4 DEF OpInv, Accounts, StakeIsLp, ClockOfRequest

\* The other steps of the pool in operation touch no account.
LEMMA OtherAccounts ==
    ASSUME OpInv,
           \/ RewardNext /\ ~ \E S \in SUBSET Users : RollOverReward(S)
           \/ CoverNext /\ ~ \E id \in PolicyIds, amount \in Amounts : SettlePayout(id, amount)
           \/ ParameterNext \/ RewarderNext \/ Time \/ UNCHANGED vars
    PROVE  Accounts' /\ WaitStep
  <1>1. UNCHANGED <<balances, withdrawRequestPerUser, cryptoBalance>>
    <2>1. CASE UNCHANGED rpVars
      BY <2>1 DEF rpVars
    <2>2. CASE \E amount \in Amounts : SetMinLPCapital(amount)
      BY <2>2 DEF SetMinLPCapital, RPSetMinLPCapital
    <2>3. UNCHANGED rpVars \/ \E amount \in Amounts : SetMinLPCapital(amount)
      BY Zenon DEF RewardNext, HarvestReward, ToggleRollOver, PublicUpdatePool, CoverNext,
             BuyPolicy, ExpirePolicy, AdminClaim, ParameterNext, SetPaused, SetKilled,
             SetLockTime, SetStakingStartTime, SetRewardMultiplier, AgentParameters,
             RewarderNext, CreateRewarder, FundRewarder, SetRewarderPaused, RewarderWithdraw,
             Time, contracts, vars
    <2> QED  BY <2>1, <2>2, <2>3
  <1>2. ThisPool \in Pools /\ poolInfo \in [Pools -> PoolType]
    BY PoolAssumption DEF OpInv, SafeInv, TypeOK, CATypeOK, PoolType
  <1>3. poolInfo'[ThisPool].totalCapital = poolInfo[ThisPool].totalCapital
    <2>1. CASE UNCHANGED poolInfo
      BY <2>1
    <2>2. CASE \E scr \in Amounts : SetSCR(ThisPool, scr)
      BY <1>2, <2>2 DEF SetSCR, PoolType
    <2>3. UNCHANGED poolInfo \/ \E scr \in Amounts : SetSCR(ThisPool, scr)
      <3>1. \/ UNCHANGED caVars \/ \E q \in Quotes : BuyPolicy(q)
            \/ \E id \in PolicyIds : ExpirePolicy(id) \/ AdminClaim(id)
            \/ AgentParameters
        BY Zenon DEF RewardNext, HarvestReward, ToggleRollOver, PublicUpdatePool, CoverNext,
             ParameterNext, SetPaused, SetKilled, SetMinLPCapital,
             SetLockTime, SetStakingStartTime, SetRewardMultiplier,
             RewarderNext, CreateRewarder, FundRewarder, SetRewarderPaused, RewarderWithdraw,
             Time, contracts, vars
      <3>2. UNCHANGED caVars => UNCHANGED poolInfo
        BY DEF caVars, caBook
      <3>3. ASSUME NEW q \in Quotes, BuyPolicy(q) PROVE UNCHANGED poolInfo
        BY <3>3 DEF BuyPolicy, PolicySale, caVars, caBook
      <3>4. ASSUME NEW id \in PolicyIds, ExpirePolicy(id) \/ AdminClaim(id)
            PROVE  UNCHANGED poolInfo
        BY <3>4 DEF ExpirePolicy, UpdatePolicyStatus, AdminClaim, AdminMarkToClaimPolicy, caBook
      <3>5. ASSUME AgentParameters
            PROVE  UNCHANGED poolInfo \/ \E scr \in Amounts : SetSCR(ThisPool, scr)
        BY <3>5 DEF AgentParameters, SetMCR, SetMLR, RateMoves, caBook
      <3> QED  BY <3>1, <3>2, <3>3, <3>4, <3>5
    <2> QED  BY <2>1, <2>2, <2>3
  <1>4. ASSUME NEW u \in Users
        PROVE  /\ userInfo'[u].amount = userInfo[u].amount
               /\ userInfo'[u].lastWithdrawTime = userInfo[u].lastWithdrawTime
    <2>1. userInfo \in [Users -> UserType]
      BY DEF OpInv, SafeInv, TypeOK, OwnTypeOK, UserType
    <2>2. \/ UNCHANGED userInfo
          \/ \E v \in Users : HarvestReward(v) \/ ToggleRollOver(v)
      BY Zenon DEF RewardNext, PublicUpdatePool, CoverNext,
             BuyPolicy, ExpirePolicy, AdminClaim, ParameterNext, SetPaused, SetKilled,
             SetLockTime, SetStakingStartTime, SetRewardMultiplier, SetMinLPCapital,
             AgentParameters, stakerVars, RewarderNext, CreateRewarder, FundRewarder,
             SetRewarderPaused, RewarderWithdraw, Time, vars
    <2>3. ASSUME NEW v \in Users, HarvestReward(v) \/ ToggleRollOver(v)
          PROVE  /\ userInfo'[u].amount = userInfo[u].amount
                 /\ userInfo'[u].lastWithdrawTime = userInfo[u].lastWithdrawTime
      BY <2>1, <2>3 DEF HarvestReward, ToggleRollOver, UserType
    <2> QED  BY <2>2, <2>3
  <1> QED  BY <1>1, <1>3, <1>4, AccountsUnchanged

\* Every step of the pool in operation keeps OpInv and the wait.
LEMMA OpStep ==
    ASSUME OpInv, [OperatingNext]_vars
    PROVE  OpInv' /\ WaitStep
  <1>1. SafeInv'
    BY SafeStep DEF Next, OpInv
  <1>2. CASE StakerNext
    <2>1. Amounts \subseteq Nat /\ LpAmounts \subseteq Nat
      BY PoolAssumption
    <2>2. PICK u \in Users :
             \/ \E amount \in Nat : EnterInPool(u, amount) \/ LeaveFromPoolInPending(u, amount)
             \/ \E lp \in Nat : LeaveFromPending(u, lp) \/ \E to \in Users : Transfer(u, to, lp)
             \/ CancelWithdrawRequest(u)
      BY Zenon, <1>2, <2>1 DEF StakerNext
    <2> QED  BY <1>1, <2>2, EnterAccounts, RequestAccounts, LeaveAccounts, CancelAccounts,
                TransferAccounts DEF OpInv
  <1>3. CASE RewardNext
    <2>1. CASE \E S \in SUBSET Users : RollOverReward(S)
      BY <1>1, <2>1, RollOverAccounts DEF OpInv
    <2>2. CASE ~ \E S \in SUBSET Users : RollOverReward(S)
      BY <1>1, <1>3, <2>2, OtherAccounts DEF OpInv
    <2> QED  BY <2>1, <2>2
  <1>4. CASE CoverNext
    <2>1. CASE \E id \in PolicyIds, amount \in Amounts : SettlePayout(id, amount)
      BY <1>1, <2>1, SettleAccounts, PoolAssumption DEF OpInv
    <2>2. CASE ~ \E id \in PolicyIds, amount \in Amounts : SettlePayout(id, amount)
      BY <1>1, <1>4, <2>2, OtherAccounts DEF OpInv
    <2> QED  BY <2>1, <2>2
  <1>5. CASE ParameterNext \/ RewarderNext \/ Time \/ UNCHANGED vars
    BY <1>1, <1>5, OtherAccounts DEF OpInv
  <1> QED  BY <1>2, <1>3, <1>4, <1>5 DEF OperatingNext

\* OpInv holds after deployment.
LEMMA OpInit == Init => OpInv
  <1> SUFFICES ASSUME Init PROVE OpInv
    OBVIOUS
  <1>1. SafeInv
    BY InitSafe
  <1>2. StakeIsLp /\ ClockOfRequest
    BY DEF Init, RPInit, NoUser, NoRequest, StakeIsLp, ClockOfRequest
  <1>3. CapitalIsVault
    BY PoolAssumption DEF Init, RPInit, NoPool, CapitalIsVault
  <1> QED  BY <1>1, <1>2, <1>3 DEF OpInv, Accounts

\* The stake on record is the balance of LP tokens, in a pool in operation.
THEOREM StakeStaysLp == OperatingSpec => []StakeIsLp
  <1>1. OpInv /\ [OperatingNext]_vars => OpInv'
    BY OpStep
  <1>2. OpInv => StakeIsLp
    BY DEF OpInv, Accounts
  <1> QED  BY OpInit, <1>1, <1>2, PTL DEF OperatingSpec

\* The agent's book of the pool's capital is the balance of its vault.
THEOREM BookStaysVault == OperatingSpec => []CapitalIsVault
  <1>1. OpInv /\ [OperatingNext]_vars => OpInv'
    BY OpStep
  <1>2. OpInv => CapitalIsVault
    BY DEF OpInv, Accounts
  <1> QED  BY OpInit, <1>1, <1>2, PTL DEF OperatingSpec

\* No request is paid before lockTime has passed since it was last added to.
THEOREM WithdrawalsWait == OperatingSpec => WithdrawalWaits
  <1>1. OpInv /\ [OperatingNext]_vars => OpInv'
    BY OpStep
  <1>2. OpInv /\ [OperatingNext]_vars => [WaitStep]_vars
    BY OpStep
  <1> QED  BY OpInit, <1>1, <1>2, PTL DEF OperatingSpec, WithdrawalWaits, WaitStep

-----------------------------------------------------------------------------
(* Who moves tokens, requests and currency, over every step of the system. *)

VaultIdle == UNCHANGED <<balances, totalSupply, withdrawRequestPerUser, lpPriceUno, cryptoBalance>>

UserMoves(u) ==
    \/ \E amount \in Nat : EnterInPool(u, amount) \/ LeaveFromPoolInPending(u, amount)
    \/ \E lp \in Nat : LeaveFromPending(u, lp) \/ \E to \in Users : Transfer(u, to, lp)
    \/ CancelWithdrawRequest(u)
    \/ Migrate(u)
    \/ EmergencyWithdraw(u)

\* Every step that touches the vault is one of these.
LEMMA Movers ==
    ASSUME [Next]_vars
    PROVE  \/ VaultIdle
           \/ \E u \in Users : UserMoves(u)
           \/ \E S \in SUBSET Users : RollOverReward(S)
           \/ \E id \in PolicyIds, amount \in Nat : SettlePayout(id, amount)
           \/ OverrideNext
  <1>1. UNCHANGED rpVars => VaultIdle
    BY DEF rpVars, VaultIdle
  <1>2. ASSUME NEW amount \in Amounts, SetMinLPCapital(amount) PROVE VaultIdle
    BY <1>2 DEF SetMinLPCapital, RPSetMinLPCapital, VaultIdle
  <1>3. Amounts \subseteq Nat /\ LpAmounts \subseteq Nat
    BY PoolAssumption
  <1>4. CASE StakerNext
    BY Zenon, <1>3, <1>4 DEF StakerNext, UserMoves
  <1>5. CASE ExitNext
    <2>1. CASE ToggleEmergencyWithdraw \/ SetMigrateTo
      BY <1>1, <2>1 DEF ToggleEmergencyWithdraw, SetMigrateTo, contracts
    <2>2. CASE \E u \in Users : Migrate(u) \/ EmergencyWithdraw(u)
      BY Zenon, <2>2 DEF UserMoves
    <2> QED  BY Zenon, <1>5, <2>1, <2>2 DEF ExitNext
  <1>6. CASE RewardNext \/ CoverNext \/ ParameterNext \/ RewarderNext \/ Time \/ UNCHANGED vars
    <2>1. \/ UNCHANGED rpVars
          \/ \E amount \in Amounts : SetMinLPCapital(amount)
          \/ \E S \in SUBSET Users : RollOverReward(S)
          \/ \E id \in PolicyIds, amount \in Amounts : SettlePayout(id, amount)
      BY Zenon, <1>6 DEF RewardNext, HarvestReward, ToggleRollOver, PublicUpdatePool, CoverNext,
           BuyPolicy, ExpirePolicy, AdminClaim, ParameterNext, SetPaused, SetKilled,
           SetLockTime, SetStakingStartTime, SetRewardMultiplier, AgentParameters,
           RewarderNext, CreateRewarder, FundRewarder, SetRewarderPaused, RewarderWithdraw,
           Time, contracts, vars
    <2> QED  BY <1>1, <1>2, <1>3, <2>1
  <1> QED  BY <1>4, <1>5, <1>6 DEF Next, OperatingNext

ReserveStep ==
    \/ cryptoBalance' >= cryptoBalance
    \/ cryptoBalance' >= MIN_LP_CAPITAL
    \/ \E u \in Users : EmergencyWithdraw(u)

\* A migration pays the request and moves the rest out of what is available.
LEMMA MigrateReserve ==
    ASSUME VaultInv, NEW u \in Users, Migrate(u)
    PROVE  \E isUnLocked \in BOOLEAN :
              /\ RPMigrateLP(u, isUnLocked)
              /\ cryptoBalance' = cryptoBalance - MigratePaid(u, isUnLocked)
                                                - MigratedAmount(u, isUnLocked)
              /\ cryptoBalance' >= MIN_LP_CAPITAL
  <1>1. PICK isUnLocked \in BOOLEAN : RPMigrateLP(u, isUnLocked)
    <2> DEFINE unlocked == now - userInfo[u].lastWithdrawTime > lockTime
    <2>1. RPMigrateLP(u, unlocked)
      BY DEF Migrate
    <2>2. unlocked \in BOOLEAN
      OBVIOUS
    <2> HIDE DEF unlocked
    <2> QED  BY Zenon, <2>1, <2>2
  <1> DEFINE paid == MigratePaid(u, isUnLocked)
             moved == MigratedAmount(u, isUnLocked)
  <1>2. paid \in Nat /\ moved \in Nat /\ paid + moved <= cryptoBalance - MIN_LP_CAPITAL
    BY <1>1, MigrateBounds DEF AvailableCapital
  <1>3. cryptoBalance' = cryptoBalance - paid - moved
    BY <1>1 DEF RPMigrateLP
  <1>4. cryptoBalance \in Nat /\ MIN_LP_CAPITAL \in Nat
    BY DEF VaultInv, RPTypeOK
  <1>5. cryptoBalance' >= MIN_LP_CAPITAL
    <2> HIDE DEF paid, moved
    <2> QED  BY <1>2, <1>3, <1>4
  <1> QED  BY <1>1, <1>3, <1>5

\* No step but an emergency withdrawal goes below the reserve.
LEMMA ReserveHolds ==
    ASSUME SafeInv, [Next]_vars
    PROVE  ReserveStep
  <1>1. /\ VaultInv
        /\ cryptoBalance \in Nat /\ MIN_LP_CAPITAL \in Nat /\ rewarderBalance \in Nat
    BY DEF SafeInv, TypeOK, RPTypeOK, OwnTypeOK
  <1>2. ASSUME VaultIdle \/ OverrideNext PROVE ReserveStep
    <2>1. UNCHANGED cryptoBalance
      BY <1>2 DEF VaultIdle, OverrideNext, SetUserDetails, SetLpPrice, RPSetLpPriceUno,
                  SetAccUnoPerShare, OverwritePoolCapital, contracts, rpVars
    <2> QED  BY <1>1, <2>1 DEF ReserveStep
  <1>3. ASSUME NEW u \in Users, UserMoves(u) PROVE ReserveStep
    <2>1. CASE \E lp \in Nat : LeaveFromPending(u, lp)
      <3>1. PICK lp \in Nat : LeaveFromPending(u, lp)
        BY <2>1
      <3>2. LeaveUno(lp) \in Nat /\ LeaveUno(lp) <= cryptoBalance - MIN_LP_CAPITAL
        BY <1>1, <3>1, LeaveBounds DEF LeaveFromPending, AvailableCapital
      <3>3. cryptoBalance' = cryptoBalance - LeaveUno(lp)
        BY <3>1 DEF LeaveFromPending, RPLeaveFromPending
      <3> QED  BY <1>1, <3>2, <3>3 DEF ReserveStep
    <2>2. CASE Migrate(u)
      BY <1>1, <2>2, MigrateReserve DEF ReserveStep
    <2>3. CASE EmergencyWithdraw(u)
      BY <2>3 DEF ReserveStep
    <2>4. CASE \/ \E amount \in Nat : EnterInPool(u, amount) \/ LeaveFromPoolInPending(u, amount)
               \/ \E lp \in Nat, to \in Users : Transfer(u, to, lp)
               \/ CancelWithdrawRequest(u)
      <3>1. \/ UNCHANGED cryptoBalance
            \/ \E amount \in Nat : cryptoBalance' = cryptoBalance + amount
        BY <2>4 DEF EnterInPool, LeaveFromPoolInPending, RPLeaveFromPoolInPending, Transfer,
                    RPTransfer, CancelWithdrawRequest, RPCancelWithdrawRequest
      <3> QED  BY <1>1, <3>1 DEF ReserveStep
    <2> QED  BY Zenon, <1>3, <2>1, <2>2, <2>3, <2>4 DEF UserMoves
  <1>4. ASSUME NEW S \in SUBSET Users, RollOverReward(S) PROVE ReserveStep
    <2>1. \E total \in 0 .. rewarderBalance : cryptoBalance' = cryptoBalance + total
      BY <1>4 DEF RollOverReward
    <2> QED  BY <1>1, <2>1 DEF ReserveStep
  <1>5. ASSUME NEW id \in PolicyIds, NEW amount \in Nat, SettlePayout(id, amount)
        PROVE  ReserveStep
    <2>1. /\ RealClaimAmount(amount) \in Nat
          /\ RealClaimAmount(amount) <= cryptoBalance - MIN_LP_CAPITAL
      BY <1>1, <1>5, ClaimBounds DEF SettlePayout, AvailableCapital
    <2>2. cryptoBalance' = cryptoBalance - RealClaimAmount(amount)
      BY <1>5 DEF SettlePayout, RPPolicyClaim
    <2> QED  BY <1>1, <2>1, <2>2 DEF ReserveStep
  <1> QED  BY <1>2, <1>3, <1>4, <1>5, Movers

\* Payments out of the vault stop at MIN_LP_CAPITAL, but for emergency withdrawals.
THEOREM ReserveIsKept == Spec => ReserveKept
  <1>1. SafeInv /\ [Next]_vars => SafeInv'
    BY SafeStep
  <1>2. SafeInv /\ [Next]_vars => [ReserveStep]_vars
    BY ReserveHolds
  <1> QED  BY InitSafe, <1>1, <1>2, PTL DEF Spec, ReserveKept, ReserveStep

-----------------------------------------------------------------------------
(* What the LP tokens are worth follows what the vault holds.              *)

Emptied ==
    /\ cryptoBalance' < cryptoBalance
    /\ cryptoBalance' = MIN_LP_CAPITAL
    /\ Shortfall' < Shortfall + lpPriceUno'

ShortfallStep == Shortfall' <= 0 \/ Shortfall' <= Shortfall \/ Emptied

\* What is minted for an amount is worth no more than the amount.
LEMMA ToLpWorth ==
    ASSUME RPTypeOK, lpPriceUno > 0, NEW amount \in Nat
    PROVE  /\ ToLp(amount) * lpPriceUno <= amount * ONE
           /\ amount * ONE < ToLp(amount) * lpPriceUno + lpPriceUno
  <1>1. amount * ONE \in Nat
    BY TimesNat, OneAssumption
  <1>2. lpPriceUno \in Nat \ {0}
    BY DEF RPTypeOK
  <1> QED  BY <1>1, <1>2, DivBounds DEF ToLp

\* What is paid for tokens is no more than they are worth.
LEMMA ToUnoWorth ==
    ASSUME RPTypeOK, NEW lp \in Nat
    PROVE  ToUno(lp) * ONE <= lp * lpPriceUno
  <1>1. lp * lpPriceUno \in Nat
    BY TimesNat DEF RPTypeOK
  <1> QED  BY <1>1, DivBounds, OneAssumption DEF ToUno

\* Minting no more than the deposit is worth does not add to the shortfall.
LEMMA MintNoShortfall ==
    ASSUME RPTypeOK, NEW minted \in Nat, NEW amount \in Nat,
           minted * lpPriceUno <= amount * ONE, lpPriceUno > 0,
           totalSupply' = totalSupply + minted, lpPriceUno' = lpPriceUno,
           cryptoBalance' = cryptoBalance + amount
    PROVE  ShortfallStep
  <1> DEFINE s == totalSupply
             p == lpPriceUno
             c == cryptoBalance
  <1>1. s \in Nat /\ p \in Nat /\ c \in Nat /\ ONE \in Nat
    BY OneAssumption DEF RPTypeOK
  <1>2. Shortfall = s * p - c * ONE /\ Shortfall' = (s + minted) * p - (c + amount) * ONE
    BY DEF Shortfall
  <1>3. p > 0 /\ minted * p <= amount * ONE /\ lpPriceUno' = p
    OBVIOUS
  <1> HIDE DEF s, p, c
  <1>4. /\ (s + minted) * p = s * p + minted * p
        /\ (c + amount) * ONE = c * ONE + amount * ONE
    BY <1>1, Z3
  <1>5. s * p \in Nat /\ c * ONE \in Nat /\ minted * p \in Nat /\ amount * ONE \in Nat
    BY <1>1, TimesNat
  <1> QED  BY <1>1, <1>2, <1>3, <1>4, <1>5 DEF ShortfallStep

\* Burning tokens for a payment they are worth does not add to it either; a payment
\* of all that is available adds less than the price of one token, if it is worth
\* less than one token more.
LEMMA BurnNoShortfall ==
    ASSUME RPTypeOK, NEW burned \in Nat, NEW paid \in Nat,
           paid <= cryptoBalance, burned <= totalSupply,
           \/ paid * ONE <= burned * lpPriceUno
           \/ /\ paid * ONE < burned * lpPriceUno + lpPriceUno
              /\ paid > 0 /\ paid = AvailableCapital,
           totalSupply' = totalSupply - burned, lpPriceUno' = lpPriceUno,
           cryptoBalance' = cryptoBalance - paid
    PROVE  ShortfallStep
  <1> DEFINE s == totalSupply
             p == lpPriceUno
             c == cryptoBalance
  <1>1. s \in Nat /\ p \in Nat /\ c \in Nat /\ ONE \in Nat /\ s - burned \in Nat /\ c - paid \in Nat
    BY OneAssumption DEF RPTypeOK
  <1>2. Shortfall = s * p - c * ONE /\ Shortfall' = (s - burned) * p - (c - paid) * ONE
    BY DEF Shortfall
  <1>3. /\ paid * ONE <= burned * p \/ paid * ONE < burned * p + p
        /\ lpPriceUno' = p
    OBVIOUS
  <1>4. paid * ONE <= burned * p \/ (cryptoBalance' < cryptoBalance /\ cryptoBalance' = MIN_LP_CAPITAL)
    BY <1>1 DEF AvailableCapital, RPTypeOK
  <1> HIDE DEF s, p, c
  <1>5. /\ (s - burned) * p = s * p - burned * p
        /\ (c - paid) * ONE = c * ONE - paid * ONE
    BY <1>1, Z3
  <1>6. /\ s * p \in Nat /\ c * ONE \in Nat /\ burned * p \in Nat /\ paid * ONE \in Nat
        /\ (s - burned) * p \in Nat /\ (c - paid) * ONE \in Nat
    BY <1>1, TimesNat
  <1>7. CASE paid * ONE <= burned * p
    BY <1>1, <1>2, <1>5, <1>6, <1>7 DEF ShortfallStep
  <1>8. CASE ~ (paid * ONE <= burned * p)
    <2>1. Shortfall' < Shortfall + lpPriceUno'
      BY <1>1, <1>2, <1>3, <1>5, <1>6, <1>8
    <2> QED  BY <1>4, <1>8, <2>1 DEF ShortfallStep, Emptied
  <1> QED  BY <1>7, <1>8

\* A step that leaves supply, price and vault alone leaves the shortfall.
LEMMA ShortfallUnchanged ==
    ASSUME RPTypeOK, UNCHANGED <<totalSupply, lpPriceUno, cryptoBalance>>
    PROVE  ShortfallStep
  <1> DEFINE s == totalSupply
             p == lpPriceUno
             c == cryptoBalance
  <1>1. s \in Nat /\ p \in Nat /\ c \in Nat /\ ONE \in Nat
    BY OneAssumption DEF RPTypeOK
  <1>2. Shortfall = s * p - c * ONE /\ Shortfall' = s * p - c * ONE /\ lpPriceUno' = p
    BY DEF Shortfall
  <1> HIDE DEF s, p, c
  <1>3. s * p \in Nat /\ c * ONE \in Nat
    BY <1>1, TimesNat
  <1> QED  BY <1>1, <1>2, <1>3 DEF ShortfallStep

\* A deposit mints for its worth, rounded down.
LEMMA EnterDust ==
    ASSUME RPTypeOK, NEW u \in Users, NEW amount \in Nat, EnterInPool(u, amount)
    PROVE  ShortfallStep
  <1>1. /\ lpPriceUno > 0
        /\ totalSupply' = totalSupply + ToLp(amount)
        /\ lpPriceUno' = lpPriceUno
        /\ cryptoBalance' = cryptoBalance + amount
    BY DEF EnterInPool, RPEnter
  <1>2. ToLp(amount) \in Nat /\ ToLp(amount) * lpPriceUno <= amount * ONE
    BY <1>1, ToLpNat, ToLpWorth
  <1> QED  BY <1>1, <1>2, MintNoShortfall

\* So does a roll-over, once for all its users.
LEMMA RollOverDust ==
    ASSUME RPTypeOK, rewarderBalance \in Nat, NEW S \in SUBSET Users, RollOverReward(S)
    PROVE  ShortfallStep
  <1> DEFINE added == [u \in Users |-> IF u \in S THEN ToLp(Reward(u)) ELSE 0]
  <1>1. PICK total \in 0 .. rewarderBalance :
           /\ \E minted \in 0 .. ToLp(total) : RPEnter(added, minted)
           /\ cryptoBalance' = cryptoBalance + total
    BY DEF RollOverReward
  <1>2. PICK minted \in 0 .. ToLp(total) : RPEnter(added, minted)
    BY <1>1
  <1> HIDE DEF added
  <1>3. lpPriceUno > 0 /\ totalSupply' = totalSupply + minted /\ lpPriceUno' = lpPriceUno
    BY <1>2 DEF RPEnter
  <1>4. total \in Nat /\ lpPriceUno \in Nat
    BY DEF RPTypeOK
  <1>5. ToLp(total) \in Nat /\ ToLp(total) * lpPriceUno <= total * ONE
    BY <1>3, <1>4, ToLpNat, ToLpWorth
  <1>6. minted \in Nat /\ minted <= ToLp(total)
    BY <1>5
  <1>7. minted * lpPriceUno <= ToLp(total) * lpPriceUno
    BY <1>4, <1>5, <1>6, TimesMono
  <1>8. minted * lpPriceUno \in Nat /\ total * ONE \in Nat /\ ToLp(total) * lpPriceUno \in Nat
    BY <1>4, <1>5, <1>6, TimesNat, OneAssumption
  <1>9. minted * lpPriceUno <= total * ONE
    BY <1>5, <1>7, <1>8
  <1> QED  BY <1>1, <1>3, <1>4, <1>6, <1>9, MintNoShortfall

\* A withdrawal burns the whole request for part of it, or what the available
\* capital is worth, rounded down: the one step that leaves a rest.
LEMMA LeaveDust ==
    ASSUME VaultInv, NEW u \in Users, NEW lp \in Nat, LeaveFromPending(u, lp)
    PROVE  ShortfallStep
  <1> DEFINE burned == LeaveLp(u, lp)
             paid == LeaveUno(lp)
  <1>1. RPLeaveFromPending(u, lp)
    BY DEF LeaveFromPending
  <1>2. /\ burned \in Nat /\ paid \in Nat
        /\ paid <= AvailableCapital /\ AvailableCapital \in Nat
    BY <1>1, LeaveBounds
  <1>3. /\ totalSupply' = totalSupply - burned
        /\ burned <= totalSupply
        /\ lpPriceUno' = lpPriceUno
        /\ cryptoBalance' = cryptoBalance - paid
    BY <1>1, <1>2 DEF RPLeaveFromPending, Burn, VaultInv, RPTypeOK
  <1>4. RPTypeOK /\ lpPriceUno \in Nat
    BY DEF VaultInv, RPTypeOK
  <1>5. paid <= cryptoBalance
    BY <1>2, <1>4 DEF AvailableCapital, RPTypeOK
  <1>6. \/ paid * ONE <= burned * lpPriceUno
        \/ /\ paid * ONE < burned * lpPriceUno + lpPriceUno
           /\ paid > 0 /\ paid = AvailableCapital
    <2>1. CASE RegularLeave(lp)
      <3>1. paid = ToUno(lp) /\ burned = pendingAmount(u)
        BY <2>1 DEF LeaveUno, LeaveLp
      <3>2. ToUno(lp) * ONE <= lp * lpPriceUno
        BY <1>4, ToUnoWorth
      <3>3. lp <= burned
        BY <1>1, <3>1 DEF RPLeaveFromPending
      <3>4. lp * lpPriceUno <= burned * lpPriceUno
        BY <1>2, <1>4, <3>3, TimesMono
      <3>5. /\ paid * ONE \in Nat /\ lp * lpPriceUno \in Nat
            /\ burned * lpPriceUno \in Nat
        BY <1>2, <1>4, TimesNat, OneAssumption
      <3>6. paid * ONE <= lp * lpPriceUno
        BY <3>1, <3>2
      <3> HIDE DEF paid, burned
      <3> QED  BY <3>4, <3>5, <3>6
    <2>2. CASE ~ RegularLeave(lp)
      <3>1. lpPriceUno > 0
        BY <1>1, <2>2 DEF RPLeaveFromPending
      <3>2. paid = AvailableCapital /\ burned = ToLp(AvailableCapital)
        BY <2>2 DEF LeaveUno, LeaveLp
      <3>3. paid * ONE < burned * lpPriceUno + lpPriceUno
        BY <1>2, <1>4, <3>1, <3>2, ToLpWorth
      <3>4. burned * lpPriceUno \in Nat /\ 0 * ONE = 0
        BY <1>2, <1>4, TimesNat, OneAssumption, Z3
      <3> HIDE DEF burned, paid
      <3>5. CASE paid = 0
        BY <3>4, <3>5
      <3>6. CASE paid # 0
        BY <1>2, <3>2, <3>3, <3>6
      <3> QED  BY <3>5, <3>6
    <2> QED  BY <2>1, <2>2
  <1> HIDE DEF burned, paid
  <1> QED  BY <1>2, <1>3, <1>4, <1>5, <1>6, BurnNoShortfall

\* A migration pays the request and moves the rest, and both are worth no more than
\* the tokens it burns: all of the user's.
LEMMA MigrateDust ==
    ASSUME VaultInv, NEW u \in Users, Migrate(u)
    PROVE  ShortfallStep
  <1>1. PICK isUnLocked \in BOOLEAN : RPMigrateLP(u, isUnLocked)
    <2> DEFINE unlocked == now - userInfo[u].lastWithdrawTime > lockTime
    <2>1. RPMigrateLP(u, unlocked)
      BY DEF Migrate
    <2>2. unlocked \in BOOLEAN
      OBVIOUS
    <2> HIDE DEF unlocked
    <2> QED  BY Zenon, <2>1, <2>2
  <1> DEFINE paid == MigratePaid(u, isUnLocked)
             moved == MigratedAmount(u, isUnLocked)
             pending == pendingAmount(u)
             all == balances[u]
             p == lpPriceUno
             available == AvailableCapital
  <1>2. /\ paid \in Nat /\ moved \in Nat /\ paid + moved <= available
        /\ available <= cryptoBalance /\ available \in Nat
    <2>1. paid \in Nat /\ moved \in Nat /\ paid + moved <= available
      BY <1>1, MigrateBounds
    <2>2. available <= cryptoBalance /\ available \in Nat
      BY <1>1 DEF AvailableCapital, VaultInv, RPTypeOK, RPMigrateLP, HasCapital
    <2> QED  BY <2>1, <2>2
  <1>3. /\ pending \in Nat /\ all \in Nat /\ pending <= all /\ p \in Nat
        /\ RPTypeOK /\ ONE \in Nat
    BY OneAssumption DEF VaultInv, RPTypeOK, pendingAmount, PendingWithinStake
  <1>4. /\ ToUno(pending) \in Nat /\ ToUno(all - pending) \in Nat /\ ToUno(all) \in Nat
        /\ all - pending \in Nat
    BY <1>3, ToUnoNat
  <1>5. /\ ToUno(pending) * ONE <= pending * p
        /\ ToUno(all - pending) * ONE <= (all - pending) * p
        /\ ToUno(all) * ONE <= all * p
    BY <1>3, <1>4, ToUnoWorth
  <1>6. paid + moved <= ToUno(pending) + ToUno(all - pending) \/ paid + moved <= ToUno(all)
    <2>1. CASE ~ PaysRequest(u, isUnLocked)
      <3>1. paid = 0 /\ MigrateBurned(u, isUnLocked) = 0
        BY <2>1 DEF MigratePaid, MigrateBurned
      <3>2. all - 0 = all
        BY <1>3
      <3>3. moved <= ToUno(all)
        BY <1>2, <1>4, <3>1, <3>2 DEF MigratedAmount
      <3> HIDE DEF paid, moved, all, pending, available
      <3> QED  BY <1>2, <1>4, <3>1, <3>3
    <2>2. CASE PaysRequest(u, isUnLocked) /\ ToUno(pending) < available
      <3>1. paid = ToUno(pending) /\ MigrateBurned(u, isUnLocked) = pending
        BY <2>2 DEF MigratePaid, MigrateBurned
      <3>2. moved <= ToUno(all - pending)
        BY <1>2, <1>4, <3>1 DEF MigratedAmount
      <3> HIDE DEF paid, moved, all, pending, available
      <3> QED  BY <1>2, <1>4, <3>1, <3>2
    <2>3. CASE PaysRequest(u, isUnLocked) /\ ~ (ToUno(pending) < available)
      <3>1. paid = available
        BY <2>3 DEF MigratePaid
      <3>2. available <= ToUno(pending)
        BY <1>2, <1>4, <2>3
      <3> HIDE DEF paid, moved, all, pending, available
      <3> QED  BY <1>2, <1>4, <3>1, <3>2
    <2> QED  BY <2>1, <2>2, <2>3
  <1>7. (paid + moved) * ONE <= all * p
    <2> HIDE DEF paid, moved, pending, all, p, available
    <2>1. /\ (ToUno(pending) + ToUno(all - pending)) * ONE
               = ToUno(pending) * ONE + ToUno(all - pending) * ONE
          /\ pending * p + (all - pending) * p = all * p
      BY <1>3, <1>4, Z3
    <2>2. /\ paid + moved \in Nat /\ ToUno(pending) + ToUno(all - pending) \in Nat
          /\ ToUno(pending) * ONE \in Nat /\ ToUno(all - pending) * ONE \in Nat
          /\ pending * p \in Nat /\ (all - pending) * p \in Nat /\ all * p \in Nat
          /\ ToUno(all) * ONE \in Nat
      BY <1>2, <1>3, <1>4, TimesNat
    <2>3. (paid + moved) * ONE \in Nat
      BY <1>3, <2>2, TimesNat
    <2>4. CASE paid + moved <= ToUno(all)
      <3>1. (paid + moved) * ONE <= ToUno(all) * ONE
        BY <1>3, <1>4, <2>2, <2>4, TimesMono
      <3> QED  BY <1>5, <2>2, <2>3, <3>1
    <2>5. CASE paid + moved <= ToUno(pending) + ToUno(all - pending)
      <3>1. (paid + moved) * ONE <= (ToUno(pending) + ToUno(all - pending)) * ONE
        BY <1>3, <2>2, <2>5, TimesMono
      <3> QED  BY <1>5, <2>1, <2>2, <2>3, <3>1
    <2> QED  BY <1>6, <2>4, <2>5
  <1>8. /\ all <= totalSupply
        /\ totalSupply' = totalSupply - all
        /\ lpPriceUno' = lpPriceUno
        /\ cryptoBalance' = cryptoBalance - paid - moved
    BY <1>1, <1>3 DEF RPMigrateLP
  <1>9. /\ paid + moved \in Nat /\ paid + moved <= cryptoBalance
        /\ cryptoBalance' = cryptoBalance - (paid + moved)
    <2>1. cryptoBalance \in Nat
      BY <1>3 DEF RPTypeOK
    <2> HIDE DEF paid, moved, available
    <2> QED  BY <1>2, <1>8, <2>1
  <1> HIDE DEF paid, moved, all
  <1> QED  BY <1>3, <1>7, <1>8, <1>9, BurnNoShortfall

\* A payout sets the price to what the vault holds per token, rounded down.
LEMMA SettleDust ==
    ASSUME VaultInv, NEW id \in PolicyIds, NEW amount \in Nat, SettlePayout(id, amount)
    PROVE  ShortfallStep
  <1>1. RPPolicyClaim(amount)
    BY DEF SettlePayout
  <1>2. /\ totalSupply' = totalSupply
        /\ totalSupply \in Nat \ {0}
        /\ lpPriceUno' = (cryptoBalance' * ONE) \div totalSupply
    BY <1>1 DEF RPPolicyClaim, VaultInv, RPTypeOK
  <1>3. cryptoBalance' \in Nat
    BY <1>1, ClaimBounds
  <1>4. cryptoBalance' * ONE \in Nat
    BY <1>3, TimesNat, OneAssumption
  <1>5. lpPriceUno' \in Nat /\ lpPriceUno' * totalSupply <= cryptoBalance' * ONE
    BY <1>2, <1>4, DivNat, DivBounds
  <1>6. totalSupply * lpPriceUno' = lpPriceUno' * totalSupply /\ totalSupply * lpPriceUno' \in Nat
    BY <1>2, <1>5, Z3
  <1>7. Shortfall' = totalSupply * lpPriceUno' - cryptoBalance' * ONE
    BY <1>2 DEF Shortfall
  <1>8. Shortfall' <= 0
    BY <1>4, <1>5, <1>6, <1>7
  <1> QED  BY <1>8 DEF ShortfallStep

\* Every step but the two that pay or write without regard to it.
LEMMA DustStep ==
    ASSUME SafeInv, [Next]_vars
    PROVE  \/ ShortfallStep
           \/ \E u \in Users : EmergencyWithdraw(u)
           \/ OverrideNext
  <1>1. VaultInv /\ RPTypeOK /\ rewarderBalance \in Nat
    BY DEF SafeInv, VaultInv, TypeOK, OwnTypeOK
  <1>2. ASSUME VaultIdle PROVE ShortfallStep
    BY <1>1, <1>2, ShortfallUnchanged DEF VaultIdle
  <1>3. ASSUME NEW u \in Users, UserMoves(u) PROVE ShortfallStep \/ EmergencyWithdraw(u)
    <2>1. CASE \E amount \in Nat : EnterInPool(u, amount)
      BY <1>1, <2>1, EnterDust
    <2>2. CASE \E lp \in Nat : LeaveFromPending(u, lp)
      BY <1>1, <2>2, LeaveDust
    <2>3. CASE Migrate(u)
      BY <1>1, <2>3, MigrateDust
    <2>4. CASE \/ \E amount \in Nat : LeaveFromPoolInPending(u, amount)
               \/ \E lp \in Nat, to \in Users : Transfer(u, to, lp)
               \/ CancelWithdrawRequest(u)
      BY <1>1, <2>4, ShortfallUnchanged
         DEF CancelWithdrawRequest, RPCancelWithdrawRequest, LeaveFromPoolInPending,
             RPLeaveFromPoolInPending, Transfer, RPTransfer
    <2> QED  BY Zenon, <1>3, <2>1, <2>2, <2>3, <2>4 DEF UserMoves
  <1>4. ASSUME NEW S \in SUBSET Users, RollOverReward(S) PROVE ShortfallStep
    BY <1>1, <1>4, RollOverDust
  <1>5. ASSUME NEW id \in PolicyIds, NEW amount \in Nat, SettlePayout(id, amount)
        PROVE  ShortfallStep
    BY <1>1, <1>5, SettleDust
  <1> QED  BY Zenon, <1>2, <1>3, <1>4, <1>5, Movers

\* What the LP tokens are worth beyond the vault grows only in a withdrawal that
\* takes all that is available, and by less than the price of one token.
THEOREM ShortfallStaysBounded == Spec => ShortfallOnlyWhenEmptied
  <1>1. SafeInv /\ [Next]_vars => SafeInv'
    BY SafeStep
  <1>2. SafeInv /\ [Next]_vars
          => [\/ ShortfallStep
              \/ \E u \in Users : EmergencyWithdraw(u)
              \/ OverrideNext]_vars
    BY Zenon, DustStep
  <1> QED  BY InitSafe, <1>1, <1>2, PTL
           DEF Spec, ShortfallOnlyWhenEmptied, ShortfallStep, Emptied

-----------------------------------------------------------------------------
(* What the switches of the pool stop.                                     *)

Held == UNCHANGED <<balances, withdrawRequestPerUser, cryptoBalance>>

\* Every function that moves something asks whether the pool is paused, but for
\* what the admin overwrites.
THEOREM PausedPoolStays == Spec => PausedPoolHolds
  <1>1. ASSUME paused, [Next]_vars
        PROVE  Held \/ OverrideNext
    <2>1. ASSUME VaultIdle PROVE Held
      BY <2>1 DEF VaultIdle, Held
    <2>2. ASSUME NEW u \in Users, UserMoves(u) PROVE FALSE
      <3>1. WhenNotPaused
        BY <2>2 DEF UserMoves, EnterInPool, LeaveFromPoolInPending, LeaveFromPending, Transfer,
                    CancelWithdrawRequest, Migrate, EmergencyWithdraw
      <3> QED  BY <1>1, <3>1 DEF WhenNotPaused
    <2>3. ASSUME \/ \E S \in SUBSET Users : RollOverReward(S)
                 \/ \E id \in PolicyIds, amount \in Nat : SettlePayout(id, amount)
          PROVE  FALSE
      <3>1. WhenNotPaused
        BY Zenon, <2>3 DEF RollOverReward, SettlePayout
      <3> QED  BY <1>1, <3>1 DEF WhenNotPaused
    <2> QED  BY Zenon, <1>1, <2>1, <2>2, <2>3, Movers
  <1>2. [Next]_vars => [paused => Held \/ OverrideNext]_vars
    BY <1>1
  <1> QED  BY <1>2, PTL DEF Spec, PausedPoolHolds, Held

KilledStep ==
    killed /\ cryptoBalance' # cryptoBalance
      => \E u \in Users : /\ cryptoBalance' < cryptoBalance
                         /\ uno'[u] - uno[u] >= cryptoBalance - cryptoBalance'

\* A killed pool pays nobody but the staker who withdraws, in full.
LEMMA KilledHolds ==
    ASSUME SafeInv, [Next]_vars
    PROVE  KilledStep
  <1> SUFFICES ASSUME killed, cryptoBalance' # cryptoBalance
               PROVE  \E u \in Users : /\ cryptoBalance' < cryptoBalance
                                       /\ uno'[u] - uno[u] >= cryptoBalance - cryptoBalance'
    BY DEF KilledStep
  <1>1. /\ VaultInv /\ RPTypeOK /\ TypeOK
        /\ cryptoBalance \in Nat /\ uno \in [Users -> Nat]
    BY DEF SafeInv, VaultInv, TypeOK, RPTypeOK, OwnTypeOK
  <1>2. ~ (VaultIdle \/ OverrideNext)
    BY DEF VaultIdle, OverrideNext, SetUserDetails, SetLpPrice, RPSetLpPriceUno,
           SetAccUnoPerShare, OverwritePoolCapital, contracts, rpVars
  <1>3. /\ ~ \E S \in SUBSET Users : RollOverReward(S)
        /\ ~ \E id \in PolicyIds, amount \in Nat : SettlePayout(id, amount)
    BY Zenon DEF RollOverReward, SettlePayout, IsAlive
  <1>4. PICK u \in Users : UserMoves(u)
    BY Zenon, <1>2, <1>3, Movers
  <1>5. \/ \E lp \in Nat : LeaveFromPending(u, lp)
        \/ EmergencyWithdraw(u)
    <2>1. ~ \E amount \in Nat : EnterInPool(u, amount)
      BY Zenon DEF EnterInPool, IsAlive
    <2>2. ~ Migrate(u) /\ ~ CancelWithdrawRequest(u)
      BY DEF Migrate, CancelWithdrawRequest, IsAlive
    <2>3. ~ \E lp \in Nat, to \in Users : Transfer(u, to, lp)
      BY Zenon DEF Transfer, IsAlive
    <2>4. ~ \E amount \in Nat : LeaveFromPoolInPending(u, amount)
      BY DEF LeaveFromPoolInPending, RPLeaveFromPoolInPending
    <2> QED  BY Zenon, <1>4, <2>1, <2>2, <2>3, <2>4 DEF UserMoves
  <1>6. ASSUME NEW paid \in Nat, NEW more \in Nat,
               cryptoBalance' = cryptoBalance - paid,
               uno' = [uno EXCEPT ![u] = @ + (more + paid)]
        PROVE  /\ cryptoBalance' < cryptoBalance
               /\ uno'[u] - uno[u] >= cryptoBalance - cryptoBalance'
    BY <1>1, <1>6
  <1>7. CASE \E lp \in Nat : LeaveFromPending(u, lp)
    <2>1. PICK lp \in Nat : LeaveFromPending(u, lp)
      BY <1>7
    <2>2. HarvestPay(u) \in Nat
      BY <1>1, <2>1, HarvestType DEF LeaveFromPending
    <2>3. LeaveUno(lp) \in Nat
      BY <1>1, <2>1, LeaveBounds DEF LeaveFromPending
    <2>4. /\ cryptoBalance' = cryptoBalance - LeaveUno(lp)
          /\ uno' = [uno EXCEPT ![u] = @ + (HarvestPay(u) + LeaveUno(lp))]
      BY <2>1 DEF LeaveFromPending, RPLeaveFromPending, Pay
    <2> QED  BY <1>6, <2>2, <2>3, <2>4
  <1>8. CASE EmergencyWithdraw(u)
    <2>1. ToUno(userInfo[u].amount) \in Nat
      BY <1>1, ToUnoNat DEF TypeOK, OwnTypeOK
    <2>2. /\ cryptoBalance' = cryptoBalance - ToUno(userInfo[u].amount)
          /\ uno' = [uno EXCEPT ![u] = @ + ToUno(userInfo[u].amount)]
      BY <1>8 DEF EmergencyWithdraw, RPEmergencyWithdraw, Pay
    <2>3. ToUno(userInfo[u].amount) = 0 + ToUno(userInfo[u].amount)
      BY <2>1
    <2> QED  BY <1>6, <2>1, <2>2, <2>3
  <1> QED  BY <1>5, <1>7, <1>8

\* What leaves a killed pool goes to the staker who withdraws it.
THEOREM KilledPoolPays == Spec => KilledPoolPaysStakers
  <1>1. SafeInv /\ [Next]_vars => SafeInv'
    BY SafeStep
  <1>2. SafeInv /\ [Next]_vars => [KilledStep]_vars
    BY KilledHolds
  <1> QED  BY InitSafe, <1>1, <1>2, PTL DEF Spec, KilledPoolPaysStakers, KilledStep

-----------------------------------------------------------------------------
(* No step but the emission creates reward: what each user may harvest,    *)
(* and what a step pays the user, against what the stake earned by it.     *)

\* How much accUnoPerShare grows in a step.
Grown == accUnoPerShare' - accUnoPerShare

\* What user u is paid and still owed is what u was owed and has earned, up to
\* one unit of rounding.
UserWithin(u, paid) ==
    Owed(u)' + paid * ACC_UNO_PRECISION
      <= Owed(u) + userInfo[u].amount * Grown + ACC_UNO_PRECISION

\* The step in terms of all users.
RewardStep ==
    Entitled' + (rewarderBalance - rewarderBalance') * ACC_UNO_PRECISION
      <= Entitled
           + (lastRewardBlock' - lastRewardBlock) * unoMultiplierPerBlock * ACC_UNO_PRECISION
           + Cardinality(Users) * ACC_UNO_PRECISION

\* Rounding down and multiplying again: the stake b of amt has earned no less
\* than is taken off the debt for it, up to one unit.
LEMMA PartEarned ==
    ASSUME NEW amt \in Nat, NEW b \in Nat, b <= amt, NEW acc \in Nat, NEW unit \in Nat \ {0}
    PROVE  (amt - b) * acc - ((amt * acc) \div unit - (b * acc) \div unit) * unit <= unit
  <1> DEFINE x == amt * acc
             y == b * acc
             q == x \div unit
             r == y \div unit
  <1>1. x \in Nat /\ y \in Nat /\ (amt - b) * acc = x - y
    BY Z3
  <1> HIDE DEF x, y
  <1>2. q \in Nat /\ r \in Nat /\ x < q * unit + unit /\ r * unit <= y
    BY <1>1, DivNat, DivBounds
  <1> HIDE DEF q, r
  <1>3. (q - r) * unit = q * unit - r * unit /\ q * unit \in Nat /\ r * unit \in Nat
    BY <1>2, Z3
  <1>4. (amt - b) * acc - (q - r) * unit <= unit
    BY <1>1, <1>2, <1>3
  <1> QED  BY <1>4 DEF x, y, q, r

\* A reward is paid for what was earned up to now.
LEMMA RewardEarned ==
    ASSUME NEW amt \in Nat, NEW debt \in Nat, NEW old \in Nat, NEW acc \in Nat,
           NEW unit \in Nat \ {0}
    PROVE  ((amt * acc) \div unit - debt) * unit
             <= (amt * old - debt * unit) + amt * (acc - old)
  <1> DEFINE x == amt * acc
             q == x \div unit
  <1>1. x \in Nat /\ (amt * old - debt * unit) + amt * (acc - old) = x - debt * unit
    BY Z3
  <1> HIDE DEF x
  <1>2. q \in Nat /\ q * unit <= x
    BY <1>1, DivNat, DivBounds
  <1> HIDE DEF q
  <1>3. (q - debt) * unit = q * unit - debt * unit /\ q * unit \in Nat /\ debt * unit \in Nat
    BY <1>2, Z3
  <1>4. (q - debt) * unit <= x - debt * unit
    BY <1>1, <1>2, <1>3
  <1> QED  BY <1>1, <1>4 DEF x, q

\* The reward debt of a new stake is what the stake would have earned, up to one
\* unit, at any price of the LP token.
LEMMA EntryEarned ==
    ASSUME NEW x \in Nat, NEW acc \in Nat, NEW price \in Nat \ {0}, NEW unit \in Nat \ {0}
    PROVE  (x \div price) * acc <= (((x * acc) \div price) \div unit) * unit + unit
  <1> DEFINE l == x \div price
             y == x * acc
             q == y \div price
             e == q \div unit
  <1>1. l \in Nat /\ l * price <= x /\ y \in Nat
    BY DivNat, DivBounds, TimesNat
  <1>2. q \in Nat /\ y < q * price + price
    BY <1>1, DivNat, DivBounds
  <1>3. e \in Nat /\ q < e * unit + unit
    BY <1>2, DivNat, DivBounds
  <1>4. l * price * acc <= y
    BY <1>1, TimesMono, TimesNat
  <1> HIDE DEF l, y, q, e
  <1>5. l * acc \in Nat /\ l * price * acc = (l * acc) * price
    BY <1>1, Z3
  <1>6. (l * acc) * price < (q + 1) * price
    <2>1. (q + 1) * price = q * price + price /\ q * price \in Nat
      BY <1>2, Z3
    <2>2. (l * acc) * price \in Nat
      BY <1>5, TimesNat
    <2> QED  BY <1>1, <1>2, <1>4, <1>5, <2>1, <2>2
  <1>7. l * acc < q + 1
    <2> DEFINE m == l * acc
               n == q + 1
    <2>1. SUFFICES ASSUME n <= m PROVE FALSE
      BY <1>2, <1>5
    <2>2. m \in Nat /\ n \in Nat /\ m * price < n * price
      BY <1>2, <1>5, <1>6
    <2> HIDE DEF m, n
    <2>3. n * price <= m * price /\ n * price \in Nat /\ m * price \in Nat
      BY <2>1, <2>2, TimesMono, TimesNat
    <2> QED  BY <2>2, <2>3
  <1>8. e * unit \in Nat
    BY <1>3, TimesNat
  <1>9. l * acc <= e * unit + unit
    BY <1>2, <1>3, <1>5, <1>7, <1>8
  <1> QED  BY <1>9 DEF l, y, q, e

\* What a user is owed is the larger of 0 and what the stake earned beyond the debt.
LEMMA OwedIs ==
    ASSUME TypeOK, NEW u \in Users
    PROVE  /\ Earned(u) \in Int /\ Owed(u) \in Nat /\ Earned(u) <= Owed(u)
           /\ userInfo[u].amount \in Nat /\ userInfo[u].rewardDebt \in Nat
           /\ accUnoPerShare \in Nat
  <1>1. /\ userInfo[u].amount \in Nat /\ userInfo[u].rewardDebt \in Nat
        /\ accUnoPerShare \in Nat /\ ACC_UNO_PRECISION \in Nat
    BY PoolAssumption DEF TypeOK, OwnTypeOK
  <1>2. /\ userInfo[u].amount * accUnoPerShare \in Nat
        /\ userInfo[u].rewardDebt * ACC_UNO_PRECISION \in Nat
    BY <1>1, TimesNat
  <1>3. Earned(u) \in Int
    BY <1>2 DEF Earned
  <1> QED  BY <1>1, <1>3 DEF Owed

\* The same after a step.
LEMMA OwedNext ==
    ASSUME TypeOK', NEW u \in Users
    PROVE  /\ Earned(u)' \in Int /\ Owed(u)' \in Nat
           /\ Owed(u)' = Earned(u)' \/ Owed(u)' = 0
           /\ Earned(u)' = userInfo'[u].amount * accUnoPerShare'
                             - userInfo'[u].rewardDebt * ACC_UNO_PRECISION
           /\ userInfo'[u].amount \in Nat /\ userInfo'[u].rewardDebt \in Nat
           /\ accUnoPerShare' \in Nat
  <1>1. /\ userInfo'[u].amount \in Nat /\ userInfo'[u].rewardDebt \in Nat
        /\ accUnoPerShare' \in Nat /\ ACC_UNO_PRECISION \in Nat
    BY PoolAssumption DEF TypeOK, OwnTypeOK
  <1>2. /\ userInfo'[u].amount * accUnoPerShare' \in Nat
        /\ userInfo'[u].rewardDebt * ACC_UNO_PRECISION \in Nat
    BY <1>1, TimesNat
  <1>3. /\ Earned(u)' = userInfo'[u].amount * accUnoPerShare'
                          - userInfo'[u].rewardDebt * ACC_UNO_PRECISION
        /\ Owed(u)' = IF Earned(u)' > 0 THEN Earned(u)' ELSE 0
    BY DEF Earned, Owed
  <1>4. Earned(u)' \in Int
    BY <1>2, <1>3
  <1> QED  BY <1>1, <1>3, <1>4

\* A user stays within when the payment was owed, and the new claim fits.
LEMMA WithinFrom ==
    ASSUME TypeOK, TypeOK', NEW u \in Users, NEW paid \in Nat, Grown >= 0,
           paid * ACC_UNO_PRECISION <= Earned(u) + userInfo[u].amount * Grown \/ paid = 0,
           \/ Earned(u)' <= ACC_UNO_PRECISION
           \/ Earned(u)' + paid * ACC_UNO_PRECISION
                <= Earned(u) + userInfo[u].amount * Grown + ACC_UNO_PRECISION
    PROVE  UserWithin(u, paid)
  <1> DEFINE g == userInfo[u].amount * Grown
             p == paid * ACC_UNO_PRECISION
             e == Earned(u)
             o == Owed(u)
             ee == Earned(u)'
             oo == Owed(u)'
  <1>1. ACC_UNO_PRECISION \in Nat
    BY PoolAssumption
  <1>2. e \in Int /\ o \in Nat /\ e <= o
    BY OwedIs
  <1>3. ee \in Int /\ oo \in Nat /\ (oo = ee \/ oo = 0)
    BY OwedNext
  <1>4. Grown \in Nat
    BY OwedIs, OwedNext DEF Grown
  <1>5. g \in Nat
    BY <1>4, OwedIs, TimesNat
  <1>6. p \in Nat /\ (paid = 0 => p = 0)
    BY <1>1, TimesNat
  <1>7. p <= e + g \/ paid = 0
    OBVIOUS
  <1>8. ee <= ACC_UNO_PRECISION \/ ee + p <= e + g + ACC_UNO_PRECISION
    OBVIOUS
  <1> HIDE DEF g, p, e, o, ee, oo
  <1>9. oo + p <= o + g + ACC_UNO_PRECISION
    BY <1>1, <1>2, <1>3, <1>5, <1>6, <1>7, <1>8
  <1> QED  BY <1>9 DEF UserWithin, g, p, o, oo

\* A user who gets l more tokens, is paid a reward that was earned, and gets a debt
\* of the reward and of what the tokens would have earned.
LEMMA AddedUser ==
    ASSUME TypeOK, TypeOK', NEW u \in Users, Grown >= 0,
           NEW l \in Nat, NEW e \in Nat, NEW paid \in Nat,
           paid * ACC_UNO_PRECISION <= Earned(u) + userInfo[u].amount * Grown \/ paid = 0,
           l * accUnoPerShare' <= e * ACC_UNO_PRECISION + ACC_UNO_PRECISION,
           userInfo'[u].amount = userInfo[u].amount + l,
           userInfo'[u].rewardDebt = userInfo[u].rewardDebt + paid + e
    PROVE  UserWithin(u, paid)
  <1> DEFINE amt == userInfo[u].amount
             debt == userInfo[u].rewardDebt
             unit == ACC_UNO_PRECISION
             old == accUnoPerShare
             new == accUnoPerShare'
  <1>1. /\ Earned(u)' = (amt + l) * new - (debt + paid + e) * unit
        /\ Earned(u) = amt * old - debt * unit
        /\ amt \in Nat /\ debt \in Nat /\ old \in Nat /\ new \in Nat
    BY OwedIs, OwedNext DEF Earned
  <1>2. unit \in Nat /\ l * new <= e * unit + unit
    BY PoolAssumption
  <1>3. Grown = new - old
    BY DEF Grown
  <1> HIDE DEF amt, debt, unit, old, new
  <1>4. /\ (amt + l) * new = amt * old + amt * (new - old) + l * new
        /\ (debt + paid + e) * unit = debt * unit + paid * unit + e * unit
        /\ amt * old \in Nat /\ amt * (new - old) \in Int /\ l * new \in Nat
        /\ debt * unit \in Nat /\ e * unit \in Nat /\ paid * unit \in Nat
    BY <1>1, <1>2, Z3
  <1>5. Earned(u)' + paid * unit <= Earned(u) + amt * (new - old) + unit
    BY <1>1, <1>2, <1>4
  <1>6. Earned(u)' + paid * unit <= Earned(u) + amt * Grown + unit
    BY <1>3, <1>5
  <1> QED  BY <1>6, WithinFrom DEF amt, unit

\* A user with the same stake and debt.
LEMMA IdleUser ==
    ASSUME TypeOK, TypeOK', NEW u \in Users, Grown >= 0,
           userInfo'[u].amount = userInfo[u].amount,
           userInfo'[u].rewardDebt = userInfo[u].rewardDebt
    PROVE  UserWithin(u, 0)
  <1>1. /\ userInfo[u].amount \in Nat /\ userInfo[u].rewardDebt \in Nat
        /\ accUnoPerShare' \in Nat /\ ACC_UNO_PRECISION \in Nat
    BY OwedIs, OwedNext, PoolAssumption
  <1>2. PICK n \in Nat : n = 0
    OBVIOUS
  <1> DEFINE new == accUnoPerShare'
             unit == ACC_UNO_PRECISION
             amt == userInfo[u].amount
             debt == userInfo[u].rewardDebt
  <1>3. n * new <= n * unit + unit /\ amt = amt + n /\ debt = debt + n + n
    <2>1. new \in Nat /\ unit \in Nat /\ amt \in Nat /\ debt \in Nat
      BY <1>1
    <2> HIDE DEF new, unit, amt, debt
    <2>2. n * new = 0 /\ n * unit = 0
      BY <1>2, <2>1
    <2> QED  BY <1>2, <2>1, <2>2
  <1>4. UserWithin(u, n)
    BY <1>2, <1>3, AddedUser
  <1> QED  BY <1>2, <1>4

\* What LP tokens have earned is rounded down by less than one unit.
LEMMA AccumulatedEarned ==
    ASSUME TypeOK, TypeOK', UpdatePool, NEW lp \in Nat
    PROVE  /\ Accumulated(lp) \in Nat
           /\ lp * accUnoPerShare' <= Accumulated(lp) * ACC_UNO_PRECISION + ACC_UNO_PRECISION
  <1>1. accUnoPerShare' = UpdatedAcc /\ UpdatedAcc \in Nat
    BY UpdatedAccNat DEF UpdatePool
  <1>2. ACC_UNO_PRECISION \in Nat \ {0}
    BY PoolAssumption
  <1>3. lp * UpdatedAcc \in Nat
    BY <1>1, TimesNat
  <1> DEFINE x == lp * UpdatedAcc
             q == x \div ACC_UNO_PRECISION
  <1>4. x \in Nat /\ q \in Nat /\ x < q * ACC_UNO_PRECISION + ACC_UNO_PRECISION
    BY <1>2, <1>3, DivNat, DivBounds
  <1>5. q * ACC_UNO_PRECISION \in Nat
    BY <1>2, <1>4, TimesNat
  <1>6. Accumulated(lp) = q /\ lp * accUnoPerShare' = x
    BY <1>1 DEF Accumulated
  <1> HIDE DEF x, q
  <1> QED  BY <1>2, <1>4, <1>5, <1>6

\* What LP tokens are charged for at entry is what they would have earned.
LEMMA EntryDebtEarned ==
    ASSUME TypeOK, TypeOK', UpdatePool, lpPriceUno > 0, NEW amount \in Nat
    PROVE  /\ ToLp(amount) \in Nat /\ EntryDebt(amount) \in Nat
           /\ ToLp(amount) * accUnoPerShare'
                <= EntryDebt(amount) * ACC_UNO_PRECISION + ACC_UNO_PRECISION
  <1>1. accUnoPerShare' = UpdatedAcc /\ UpdatedAcc \in Nat
    BY UpdatedAccNat DEF UpdatePool
  <1>2. lpPriceUno \in Nat \ {0} /\ amount * ONE \in Nat /\ ACC_UNO_PRECISION \in Nat \ {0}
    BY TimesNat, OneAssumption, PoolAssumption DEF TypeOK, RPTypeOK
  <1>3. ToLp(amount) \in Nat /\ EntryDebt(amount) \in Nat
    BY ToLpNat, EntryDebtNat DEF TypeOK
  <1> QED  BY <1>1, <1>2, <1>3, EntryEarned DEF ToLp, EntryDebt

\* A reward that is paid was earned.
LEMMA RewardIsEarned ==
    ASSUME TypeOK, TypeOK', UpdatePool, NEW u \in Users, RewardDefined(u), Reward(u) # 0
    PROVE  /\ Reward(u) \in Nat
           /\ Accumulated(userInfo[u].amount) = userInfo[u].rewardDebt + Reward(u)
           /\ Reward(u) * ACC_UNO_PRECISION <= Earned(u) + userInfo[u].amount * Grown
  <1> DEFINE amt == userInfo[u].amount
             debt == userInfo[u].rewardDebt
  <1>1. amt \in Nat /\ debt \in Nat /\ accUnoPerShare \in Nat
    BY OwedIs
  <1>2. Reward(u) \in Nat /\ Reward(u) = Accumulated(amt) - debt /\ Accumulated(amt) \in Nat
    BY <1>1, RewardNat, AccumulatedNat DEF Reward
  <1>3. accUnoPerShare' = UpdatedAcc /\ UpdatedAcc \in Nat
    BY UpdatedAccNat DEF UpdatePool
  <1>4. /\ Earned(u) = amt * accUnoPerShare - debt * ACC_UNO_PRECISION
        /\ Accumulated(amt) = (amt * UpdatedAcc) \div ACC_UNO_PRECISION
        /\ Grown = UpdatedAcc - accUnoPerShare
    BY <1>3 DEF Earned, Accumulated, Grown
  <1>5. ACC_UNO_PRECISION \in Nat \ {0}
    BY PoolAssumption
  <1> HIDE DEF amt, debt
  <1>6. Reward(u) * ACC_UNO_PRECISION <= Earned(u) + amt * Grown
    BY <1>1, <1>2, <1>3, <1>4, <1>5, RewardEarned
  <1>7. Accumulated(amt) = debt + Reward(u)
    BY <1>1, <1>2
  <1> QED  BY <1>2, <1>6, <1>7 DEF amt, debt

\* A user who harvests, and whose stake is reduced by b.
LEMMA HarvestedUser ==
    ASSUME TypeOK, TypeOK', NEW u \in Users, Harvest(u), Grown >= 0,
           NEW b \in Nat, b <= userInfo[u].amount,
           userInfo'[u].amount = userInfo[u].amount - b,
           userInfo'[u].rewardDebt = Accumulated(userInfo[u].amount) - Accumulated(b)
    PROVE  UserWithin(u, HarvestPay(u))
  <1> DEFINE amt == userInfo[u].amount
             paid == HarvestPay(u)
  <1>1. UpdatePool /\ RewardDefined(u) /\ paid \in Nat
    BY HarvestType DEF Harvest
  <1>2. paid * ACC_UNO_PRECISION <= Earned(u) + amt * Grown \/ paid = 0
    BY <1>1, RewardIsEarned DEF HarvestPay
  <1>3. Earned(u)' <= ACC_UNO_PRECISION
    <2>1. accUnoPerShare' = UpdatedAcc /\ UpdatedAcc \in Nat
      BY <1>1, UpdatedAccNat DEF UpdatePool
    <2>2. amt \in Nat /\ ACC_UNO_PRECISION \in Nat \ {0}
      BY OwedIs, PoolAssumption
    <2>3. Earned(u)' = (amt - b) * UpdatedAcc
                         - ((amt * UpdatedAcc) \div ACC_UNO_PRECISION
                              - (b * UpdatedAcc) \div ACC_UNO_PRECISION) * ACC_UNO_PRECISION
      BY <2>1, OwedNext DEF Accumulated
    <2> HIDE DEF amt
    <2>4. b <= amt
      BY DEF amt
    <2> QED  BY <2>1, <2>2, <2>3, <2>4, PartEarned
  <1> HIDE DEF paid
  <1>4. UserWithin(u, paid)
    BY <1>1, <1>2, <1>3, WithinFrom DEF amt
  <1> QED  BY <1>4 DEF paid

\* A user who harvests, and keeps the stake.
LEMMA HarvestOnly ==
    ASSUME TypeOK, TypeOK', NEW u \in Users, Harvest(u), Grown >= 0,
           userInfo'[u].amount = userInfo[u].amount,
           userInfo'[u].rewardDebt = DebtAfterReward(u)
    PROVE  UserWithin(u, HarvestPay(u))
  <1>1. CASE Requested(u)
    <2>1. HarvestPay(u) = 0 /\ userInfo'[u].rewardDebt = userInfo[u].rewardDebt
      BY <1>1 DEF HarvestPay, Reward, DebtAfterReward
    <2> QED  BY <2>1, IdleUser
  <1>2. CASE ~ Requested(u)
    <2>1. userInfo[u].amount \in Nat /\ Accumulated(userInfo[u].amount) \in Nat
      BY OwedIs, AccumulatedNat
    <2>2. Accumulated(0) = 0
      <3>1. 0 * UpdatedAcc = 0 /\ 0 \div ACC_UNO_PRECISION = 0
        BY UpdatedAccNat, PoolAssumption, Z3
      <3> QED  BY <3>1 DEF Accumulated
    <2>3. PICK b \in Nat : b = 0
      OBVIOUS
    <2>4. /\ userInfo'[u].amount = userInfo[u].amount - b /\ b <= userInfo[u].amount
          /\ userInfo'[u].rewardDebt = Accumulated(userInfo[u].amount) - Accumulated(b)
      BY <1>2, <2>1, <2>2, <2>3 DEF DebtAfterReward
    <2> QED  BY <2>4, HarvestedUser
  <1> QED  BY <1>1, <1>2

Stakes == [u \in Users |-> userInfo[u].amount]
OwedEach == [u \in Users |-> Owed(u)]

RewardInv == OpInv /\ LedgerSums

\* updatePool gives all stakes together no more than the emission since the last one.
LEMMA EmissionBound ==
    ASSUME TypeOK, UpdatePool \/ UNCHANGED <<accUnoPerShare, lastRewardBlock>>
    PROVE  /\ Grown \in Nat
           /\ totalSupply * Grown
                <= (lastRewardBlock' - lastRewardBlock) * unoMultiplierPerBlock * ACC_UNO_PRECISION
           /\ (lastRewardBlock' - lastRewardBlock) * unoMultiplierPerBlock * ACC_UNO_PRECISION \in Nat
  <1> DEFINE unit == ACC_UNO_PRECISION
             ts == totalSupply
             mult == unoMultiplierPerBlock
             blocks == lastRewardBlock' - lastRewardBlock
             emission == blocks * mult * unit
  <1>1. /\ accUnoPerShare \in Nat /\ mult \in Nat /\ ts \in Nat
        /\ now \in Nat /\ lastRewardBlock \in Nat /\ unit \in Nat
    BY PoolAssumption DEF TypeOK, OwnTypeOK, RPTypeOK
  <1>2. blocks \in Nat
    BY <1>1 DEF UpdatePool
  <1>3. emission \in Nat
    BY <1>1, <1>2, TimesNat
  <1>4. CASE UpdatePool /\ now > lastRewardBlock /\ ts > 0
    <2>1. Grown = emission \div ts
      <3>1. accUnoPerShare' = accUnoPerShare + emission \div ts
        BY <1>4 DEF UpdatePool, UpdatedAcc
      <3>2. emission \div ts \in Nat
        BY <1>1, <1>3, <1>4, DivNat
      <3> HIDE DEF emission, ts
      <3> QED  BY <1>1, <3>1, <3>2 DEF Grown
    <2>2. Grown \in Nat /\ Grown * ts <= emission
      <3> HIDE DEF emission, ts
      <3> QED  BY <1>1, <1>3, <1>4, <2>1, DivNat, DivBounds
    <2>3. ts * Grown = Grown * ts
      BY <1>1, <2>2, Z3
    <2> QED  BY <1>3, <2>2, <2>3
  <1>5. CASE ~ (UpdatePool /\ now > lastRewardBlock /\ ts > 0)
    <2>1. accUnoPerShare' = accUnoPerShare
      BY <1>5 DEF UpdatePool, UpdatedAcc
    <2>2. Grown = 0 /\ ts * Grown = 0
      BY <1>1, <2>1, Z3 DEF Grown
    <2> HIDE DEF emission
    <2>3. ts * Grown <= emission
      BY <1>3, <2>2
    <2> QED  BY <1>3, <2>2, <2>3 DEF emission
  <1> QED  BY <1>4, <1>5

\* The stakes add up to the supply.
LEMMA StakesAreSupply ==
    ASSUME RewardInv
    PROVE  SumFunctionOnSet(Stakes, Users) = totalSupply
  <1>1. totalSupply = SumFunctionOnSet(balances, Users)
    BY LedgerTotals DEF RewardInv, OpInv, SafeInv, TypeOK
  <1>2. \A u \in Users : Stakes[u] = balances[u]
    BY DEF Stakes, RewardInv, OpInv, Accounts, StakeIsLp
  <1> QED  BY <1>1, <1>2, SumSame, UsersAssumption

\* When every user stays within, so do all together.
LEMMA RewardBudget ==
    ASSUME RewardInv, TypeOK', UpdatePool \/ UNCHANGED <<accUnoPerShare, lastRewardBlock>>,
           NEW paid \in [Users -> Nat],
           rewarderBalance - rewarderBalance' = SumFunctionOnSet(paid, Users),
           \A u \in Users : UserWithin(u, paid[u])
    PROVE  RewardStep
  <1> DEFINE a == ACC_UNO_PRECISION
             d == Grown
             emission == (lastRewardBlock' - lastRewardBlock) * unoMultiplierPerBlock
                            * ACC_UNO_PRECISION
             f == OwedEach
             g == Stakes
             h == OwedEach'
  <1>1. TypeOK
    BY DEF RewardInv, OpInv, SafeInv
  <1>2. d \in Nat /\ totalSupply * d <= emission /\ emission \in Nat /\ a \in Nat
    BY <1>1, EmissionBound, PoolAssumption
  <1>3. ASSUME NEW u \in Users
        PROVE  /\ f[u] \in Int /\ g[u] \in Int /\ h[u] \in Int /\ paid[u] \in Int
               /\ h[u] + paid[u] * a <= f[u] + g[u] * d + a
    <2>1. f[u] = Owed(u) /\ g[u] = userInfo[u].amount /\ h[u] = Owed(u)'
      BY DEF OwedEach, Stakes
    <2>2. Owed(u) \in Int /\ userInfo[u].amount \in Int /\ Owed(u)' \in Int
      BY <1>1, OwedIs, OwedNext
    <2>3. Owed(u)' + paid[u] * a <= Owed(u) + userInfo[u].amount * d + a
      BY DEF UserWithin
    <2> QED  BY <2>1, <2>2, <2>3
  <1>4. SumFunctionOnSet(g, Users) = totalSupply
    BY StakesAreSupply
  <1>5. Entitled = SumFunctionOnSet(f, Users) /\ Entitled' = SumFunctionOnSet(h, Users)
    BY DEF Entitled, SumFunction, OwedEach
  <1> HIDE DEF a, d, emission, f, g, h
  <1>6. a \in Int /\ d \in Int
    BY <1>2
  <1>7. SumFunctionOnSet(h, Users) + SumFunctionOnSet(paid, Users) * a
          <= SumFunctionOnSet(f, Users) + SumFunctionOnSet(g, Users) * d + Cardinality(Users) * a
    BY <1>3, <1>6, SumBound, UsersAssumption
  <1>8. /\ SumFunctionOnSet(h, Users) \in Int /\ SumFunctionOnSet(f, Users) \in Int
        /\ SumFunctionOnSet(paid, Users) \in Int /\ Cardinality(Users) \in Nat
    BY <1>3, SumInt, UsersAssumption, FS_CardinalityType
  <1>9. totalSupply \in Nat
    BY <1>1 DEF TypeOK, RPTypeOK
  <1> DEFINE pa == SumFunctionOnSet(paid, Users) * a
             td == totalSupply * d
             ca == Cardinality(Users) * a
  <1>10. pa \in Int /\ td \in Nat /\ ca \in Nat
    BY <1>2, <1>8, <1>9, TimesNat, Z3
  <1>11. /\ Entitled' + pa <= Entitled + td + ca
         /\ Entitled' \in Int /\ Entitled \in Int
    BY <1>4, <1>5, <1>7, <1>8
  <1>12. td <= emission
    BY <1>2
  <1> HIDE DEF pa, td, ca
  <1>13. Entitled' + pa <= Entitled + emission + ca
    <2> DEFINE before == Entitled
               after == Entitled'
    <2>1. after + pa <= before + td + ca /\ after \in Int /\ before \in Int
      BY <1>11
    <2>2. emission \in Nat
      BY <1>2
    <2> HIDE DEF before, after
    <2>3. after + pa <= before + emission + ca
      BY <1>10, <1>12, <2>1, <2>2
    <2> QED  BY <2>3 DEF before, after
  <1> QED  BY <1>13 DEF RewardStep, pa, emission, ca, a

\* No reward is paid.
LEMMA NothingPaid ==
    ASSUME RewardInv, TypeOK', UpdatePool \/ UNCHANGED <<accUnoPerShare, lastRewardBlock>>,
           rewarderBalance' = rewarderBalance,
           \A u \in Users : UserWithin(u, 0)
    PROVE  RewardStep
  <1> DEFINE paid == [u \in Users |-> 0]
  <1>1. paid \in [Users -> Nat] /\ \A u \in Users : paid[u] = 0
    OBVIOUS
  <1> HIDE DEF paid
  <1>2. SumFunctionOnSet(paid, Users) = 0
    BY <1>1, SumZero, UsersAssumption
  <1>3. rewarderBalance \in Nat
    BY DEF RewardInv, OpInv, SafeInv, TypeOK, OwnTypeOK
  <1> QED  BY <1>1, <1>2, <1>3, RewardBudget

\* One user is paid what the user harvests.
LEMMA OnePaid ==
    ASSUME RewardInv, TypeOK', NEW u \in Users, Harvest(u),
           UserWithin(u, HarvestPay(u)), \A v \in Users \ {u} : UserWithin(v, 0)
    PROVE  RewardStep
  <1> DEFINE reward == HarvestPay(u)
             paid == [v \in Users |-> IF v = u THEN reward ELSE 0]
  <1>1. TypeOK /\ rewarderBalance \in Nat
    BY DEF RewardInv, OpInv, SafeInv, TypeOK, OwnTypeOK
  <1>2. UpdatePool /\ reward \in Nat
    BY <1>1, HarvestType DEF Harvest
  <1>3. rewarderBalance - rewarderBalance' = reward
    <2>1. CASE reward # 0
      <3>1. reward = Reward(u) /\ rewarderBalance' = rewarderBalance - Reward(u)
        BY <2>1 DEF Harvest, HarvestPay, OnReward
      <3> HIDE DEF reward
      <3> QED  BY <1>1, <1>2, <3>1
    <2>2. CASE reward = 0
      <3>1. rewarderBalance' = rewarderBalance
        BY <2>2 DEF Harvest, rewarderVars
      <3> QED  BY <1>1, <2>2, <3>1
    <2> QED  BY <2>1, <2>2
  <1> HIDE DEF reward
  <1>4. paid \in [Users -> Nat] /\ SumFunctionOnSet(paid, Users) = reward
    BY <1>2, MintedToOne
  <1>5. \A v \in Users : UserWithin(v, paid[v])
    BY DEF reward
  <1> HIDE DEF paid
  <1> QED  BY <1>2, <1>3, <1>4, <1>5, RewardBudget

\* The users whose records a step leaves alone.
LEMMA OthersIdle ==
    ASSUME TypeOK, TypeOK', UpdatePool \/ UNCHANGED <<accUnoPerShare, lastRewardBlock>>,
           NEW S \in SUBSET Users, \A v \in Users \ S : userInfo'[v] = userInfo[v]
    PROVE  Grown >= 0 /\ \A v \in Users \ S : UserWithin(v, 0)
  <1>1. Grown \in Nat
    BY EmissionBound
  <1>2. ASSUME NEW v \in Users \ S PROVE UserWithin(v, 0)
    BY <1>1, <1>2, IdleUser
  <1> QED  BY <1>1, <1>2

\* enterInPool.
LEMMA EnterEmission ==
    ASSUME RewardInv, TypeOK', NEW u \in Users, NEW amount \in Nat, EnterInPool(u, amount)
    PROVE  RewardStep
  <1>1. /\ TypeOK /\ UpdatePool /\ lpPriceUno > 0
        /\ rewarderBalance' = rewarderBalance
        /\ userInfo \in [Users -> UserType]
    BY DEF RewardInv, OpInv, SafeInv, TypeOK, OwnTypeOK, UserType, EnterInPool, RPEnter,
           rewarderVars
  <1> DEFINE l == ToLp(amount)
             e == EntryDebt(amount)
  <1>2. userInfo' = [userInfo EXCEPT ![u].rewardDebt = @ + e, ![u].amount = @ + l]
    BY DEF EnterInPool
  <1>3. l \in Nat /\ e \in Nat /\ l * accUnoPerShare' <= e * ACC_UNO_PRECISION + ACC_UNO_PRECISION
    BY <1>1, EntryDebtEarned
  <1> HIDE DEF l, e
  <1>4. /\ userInfo'[u].amount = userInfo[u].amount + l
        /\ userInfo'[u].rewardDebt = userInfo[u].rewardDebt + e
        /\ \A v \in Users \ {u} : userInfo'[v] = userInfo[v]
    BY <1>1, <1>2 DEF UserType
  <1>5. Grown >= 0 /\ \A v \in Users \ {u} : UserWithin(v, 0)
    BY <1>1, <1>4, OthersIdle
  <1>6. UserWithin(u, 0)
    <2>1. userInfo'[u].rewardDebt = userInfo[u].rewardDebt + 0 + e
      BY <1>1, <1>4, OwedIs
    <2> QED  BY <1>1, <1>3, <1>4, <1>5, <2>1, AddedUser
  <1> QED  BY <1>1, <1>5, <1>6, NothingPaid

\* leaveFromPoolInPending, and harvest: the reward alone.
LEMMA HarvestEmission ==
    ASSUME RewardInv, TypeOK', NEW u \in Users,
           HarvestReward(u) \/ \E amount \in Nat : LeaveFromPoolInPending(u, amount)
    PROVE  RewardStep
  <1>1. TypeOK /\ userInfo \in [Users -> UserType] /\ Harvest(u) /\ UpdatePool
    BY DEF RewardInv, OpInv, SafeInv, TypeOK, OwnTypeOK, UserType, HarvestReward,
           LeaveFromPoolInPending, Harvest
  <1> DEFINE debt == DebtAfterReward(u)
  <1>2. \/ userInfo' = [userInfo EXCEPT ![u].rewardDebt = debt]
        \/ userInfo' = [userInfo EXCEPT ![u].rewardDebt = debt, ![u].lastWithdrawTime = now]
    BY DEF HarvestReward, LeaveFromPoolInPending, AfterRequest
  <1> HIDE DEF debt
  <1>3. /\ userInfo'[u].amount = userInfo[u].amount
        /\ userInfo'[u].rewardDebt = debt
        /\ \A v \in Users \ {u} : userInfo'[v] = userInfo[v]
    BY <1>1, <1>2 DEF UserType
  <1>4. Grown >= 0 /\ \A v \in Users \ {u} : UserWithin(v, 0)
    BY <1>1, <1>3, OthersIdle
  <1>5. UserWithin(u, HarvestPay(u))
    BY <1>1, <1>3, <1>4, HarvestOnly DEF debt
  <1> QED  BY <1>1, <1>4, <1>5, OnePaid

\* leaveFromPending.
LEMMA LeaveEmission ==
    ASSUME RewardInv, TypeOK', NEW u \in Users, NEW lp \in Nat, LeaveFromPending(u, lp)
    PROVE  RewardStep
  <1>1. TypeOK /\ userInfo \in [Users -> UserType] /\ Harvest(u) /\ UpdatePool
    BY DEF RewardInv, OpInv, SafeInv, TypeOK, OwnTypeOK, UserType, LeaveFromPending, Harvest
  <1> DEFINE b == LeaveLp(u, lp)
             debt == Accumulated(userInfo[u].amount) - Accumulated(b)
  <1>2. b \in Nat /\ b <= userInfo[u].amount
    <2>1. b \in Nat
      BY LeaveBounds DEF LeaveFromPending, RewardInv, OpInv, SafeInv
    <2>2. userInfo[u].amount >= b
      BY DEF LeaveFromPending
    <2> QED  BY <1>1, <2>1, <2>2 DEF UserType
  <1>3. userInfo' = [userInfo EXCEPT ![u].rewardDebt = debt, ![u].amount = @ - b]
    BY DEF LeaveFromPending
  <1>4. debt = Accumulated(userInfo[u].amount) - Accumulated(b)
    OBVIOUS
  <1> HIDE DEF debt, b
  <1>5. /\ userInfo'[u].amount = userInfo[u].amount - b
        /\ userInfo'[u].rewardDebt = debt
        /\ \A v \in Users \ {u} : userInfo'[v] = userInfo[v]
    BY <1>1, <1>3 DEF UserType
  <1>6. Grown >= 0 /\ \A v \in Users \ {u} : UserWithin(v, 0)
    BY <1>1, <1>5, OthersIdle
  <1>7. UserWithin(u, HarvestPay(u))
    BY <1>1, <1>2, <1>4, <1>5, <1>6, HarvestedUser
  <1> QED  BY <1>1, <1>6, <1>7, OnePaid

\* transfer, also from a user to itself.
LEMMA TransferEmission ==
    ASSUME RewardInv, TypeOK', NEW from \in Users, NEW to \in Users, NEW lp \in Nat,
           Transfer(from, to, lp)
    PROVE  RewardStep
  <1>1. TypeOK /\ userInfo \in [Users -> UserType] /\ Harvest(from) /\ UpdatePool
    BY DEF RewardInv, OpInv, SafeInv, TypeOK, OwnTypeOK, UserType, Transfer, Harvest
  <1> DEFINE all == Accumulated(userInfo[from].amount)
             part == Accumulated(lp)
             debt == all - part
             sent == [userInfo EXCEPT ![from].rewardDebt = debt, ![from].amount = @ - lp]
  <1>2. userInfo' = [sent EXCEPT ![to].rewardDebt = @ + part, ![to].amount = @ + lp]
    BY DEF Transfer
  <1>3. /\ userInfo[from].amount \in Nat /\ lp <= userInfo[from].amount
        /\ all \in Nat /\ part \in Nat /\ debt \in Nat
        /\ lp * accUnoPerShare' <= part * ACC_UNO_PRECISION + ACC_UNO_PRECISION
    <2>1. userInfo[from].amount \in Nat /\ userInfo[from].amount >= lp
      BY <1>1 DEF Transfer, UserType, RewardInv, OpInv, SafeInv, VaultInv, RPTypeOK, pendingAmount
    <2> QED  BY <1>1, <2>1, AccumulatedEarned, AccumulatedMono
  <1>4. debt = all - part /\ all = Accumulated(userInfo[from].amount) /\ part = Accumulated(lp)
    OBVIOUS
  <1>5. sent = [userInfo EXCEPT ![from].rewardDebt = debt, ![from].amount = @ - lp]
    OBVIOUS
  <1>6. sent \in [Users -> UserType]
    <2>1. userInfo[from].amount - lp \in Nat
      BY <1>3
    <2> HIDE DEF debt
    <2> QED  BY <1>1, <1>3, <2>1, UserReplaced
  <1> HIDE DEF sent, debt, all, part
  <1>7. /\ sent[from].amount = userInfo[from].amount - lp
        /\ sent[from].rewardDebt = debt
        /\ \A v \in Users \ {from} : sent[v] = userInfo[v]
    BY <1>1, <1>5 DEF UserType
  <1>8. /\ userInfo'[to].amount = sent[to].amount + lp
        /\ userInfo'[to].rewardDebt = sent[to].rewardDebt + part
        /\ \A v \in Users \ {to} : userInfo'[v] = sent[v]
    BY <1>2, <1>6 DEF UserType
  <1>9. \A v \in Users \ {from, to} : userInfo'[v] = userInfo[v]
    BY <1>7, <1>8
  <1>10. Grown >= 0 /\ \A v \in Users \ {from, to} : UserWithin(v, 0)
    BY <1>1, <1>9, OthersIdle
  <1>11. CASE from # to
    <2>1. /\ userInfo'[from].amount = userInfo[from].amount - lp
          /\ userInfo'[from].rewardDebt = debt
      BY <1>7, <1>8, <1>11
    <2>2. UserWithin(from, HarvestPay(from))
      BY <1>1, <1>3, <1>4, <1>10, <2>1, HarvestedUser
    <2>3. /\ userInfo'[to].amount = userInfo[to].amount + lp
          /\ userInfo'[to].rewardDebt = userInfo[to].rewardDebt + 0 + part
      BY <1>1, <1>7, <1>8, <1>11 DEF UserType
    <2>4. UserWithin(to, 0)
      BY <1>1, <1>3, <1>10, <2>3, AddedUser
    <2> QED  BY <1>1, <1>10, <2>2, <2>4, OnePaid
  <1>12. CASE from = to
    <2>1. Accumulated(0) = 0
      <3>1. 0 * UpdatedAcc = 0 /\ 0 \div ACC_UNO_PRECISION = 0
        BY <1>1, UpdatedAccNat, PoolAssumption, Z3
      <3> QED  BY <3>1 DEF Accumulated
    <2>2. /\ userInfo'[from].amount = userInfo[from].amount - 0
          /\ userInfo'[from].rewardDebt = Accumulated(userInfo[from].amount) - Accumulated(0)
      BY <1>3, <1>4, <1>7, <1>8, <1>12, <2>1
    <2>3. UserWithin(from, HarvestPay(from))
      BY <1>1, <1>3, <1>10, <2>2, HarvestedUser
    <2> QED  BY <1>1, <1>10, <1>12, <2>3, OnePaid
  <1> QED  BY <1>11, <1>12

\* rollOverReward, of any set of users at once.
LEMMA RollOverEmission ==
    ASSUME RewardInv, TypeOK', NEW S \in SUBSET Users, RollOverReward(S)
    PROVE  RewardStep
  <1>1. /\ TypeOK /\ userInfo \in [Users -> UserType] /\ UpdatePool /\ lpPriceUno > 0
        /\ \A u \in S : RewardDefined(u) /\ Reward(u) # 0
    BY DEF RewardInv, OpInv, SafeInv, TypeOK, OwnTypeOK, UserType, RollOverReward
  <1> DEFINE each == [u \in S |-> Reward(u)]
             paid == [u \in Users |-> IF u \in S THEN Reward(u) ELSE 0]
  <1>2. \A u \in S : Reward(u) \in Nat
    BY <1>1, RewardIsEarned
  <1>3. rewarderBalance - rewarderBalance' = SumFunctionOnSet(each, S)
    <2>1. PICK total \in 0 .. rewarderBalance :
             /\ total = SumFunction(each)
             /\ rewarderBalance' = rewarderBalance - total
      BY DEF RollOverReward, OnReward
    <2>2. SumFunction(each) = SumFunctionOnSet(each, S)
      BY DEF SumFunction
    <2>3. rewarderBalance \in Nat
      BY <1>1 DEF TypeOK, OwnTypeOK
    <2> HIDE DEF each
    <2> QED  BY <2>1, <2>2, <2>3
  <1>4. paid \in [Users -> Nat]
    BY <1>2
  <1>5. SumFunctionOnSet(paid, Users) = SumFunctionOnSet(each, S)
    <2>1. /\ \A u \in Users : paid[u] \in Int
          /\ \A u \in Users \ S : paid[u] = 0
          /\ IsFiniteSet(S) /\ \A u \in S : paid[u] = each[u]
      BY <1>4, UsersAssumption, FS_Subset
    <2> HIDE DEF paid, each
    <2>2. SumFunctionOnSet(paid, Users) = SumFunctionOnSet(paid, S)
      BY <2>1, SumOver, UsersAssumption
    <2>3. SumFunctionOnSet(paid, S) = SumFunctionOnSet(each, S)
      BY <2>1, SumSame
    <2> QED  BY <2>2, <2>3
  <1>6. \A u \in Users \ S : userInfo'[u] = userInfo[u]
    BY DEF RollOverReward
  <1>7. Grown >= 0 /\ \A u \in Users \ S : UserWithin(u, 0)
    BY <1>1, <1>6, OthersIdle
  <1>8. ASSUME NEW u \in S PROVE UserWithin(u, Reward(u))
    <2> DEFINE r == Reward(u)
               l == ToLp(r)
               e == EntryDebt(r)
    <2>1. /\ r \in Nat
          /\ Accumulated(userInfo[u].amount) = userInfo[u].rewardDebt + r
          /\ r * ACC_UNO_PRECISION <= Earned(u) + userInfo[u].amount * Grown
      BY <1>1, RewardIsEarned
    <2>2. userInfo'[u] = [userInfo[u] EXCEPT
             !.rewardDebt = Accumulated(userInfo[u].amount) + e, !.amount = @ + l]
      BY DEF RollOverReward
    <2>3. l \in Nat /\ e \in Nat
          /\ l * accUnoPerShare' <= e * ACC_UNO_PRECISION + ACC_UNO_PRECISION
      BY <1>1, <2>1, EntryDebtEarned
    <2> HIDE DEF r, l, e
    <2>4. /\ userInfo'[u].amount = userInfo[u].amount + l
          /\ userInfo'[u].rewardDebt = userInfo[u].rewardDebt + r + e
      BY <1>1, <2>1, <2>2 DEF UserType
    <2>5. UserWithin(u, r)
      BY <1>1, <1>7, <2>1, <2>3, <2>4, AddedUser
    <2> QED  BY <2>5 DEF r
  <1>9. \A u \in Users : UserWithin(u, paid[u])
    BY <1>7, <1>8
  <1> HIDE DEF paid, each
  <1> QED  BY <1>1, <1>3, <1>4, <1>5, <1>9, RewardBudget

\* The other steps of the pool in operation, but for the Rewarder's own.
LEMMA OtherEmission ==
    ASSUME RewardInv, TypeOK',
           \/ \E u \in Users : CancelWithdrawRequest(u) \/ ToggleRollOver(u)
           \/ PublicUpdatePool \/ CoverNext \/ ParameterNext \/ Time \/ UNCHANGED vars
    PROVE  RewardStep
  <1>1. TypeOK /\ userInfo \in [Users -> UserType]
    BY DEF RewardInv, OpInv, SafeInv, TypeOK, OwnTypeOK, UserType
  <1>2. rewarderBalance' = rewarderBalance
    BY Zenon DEF CancelWithdrawRequest, ToggleRollOver, PublicUpdatePool, CoverNext,
           SettlePayout, BuyPolicy, ExpirePolicy, AdminClaim, ParameterNext, SetPaused,
           SetKilled, SetLockTime, SetStakingStartTime, SetRewardMultiplier, SetMinLPCapital,
           AgentParameters, Time, stakerVars, rewarderVars, vars
  <1>3. UpdatePool \/ UNCHANGED <<accUnoPerShare, lastRewardBlock>>
    BY Zenon DEF CancelWithdrawRequest, ToggleRollOver, PublicUpdatePool, CoverNext,
           SettlePayout, BuyPolicy, ExpirePolicy, AdminClaim, ParameterNext, SetPaused,
           SetKilled, SetLockTime, SetStakingStartTime, SetRewardMultiplier, SetMinLPCapital,
           AgentParameters, Time, stakerVars, rewardVars, vars
  <1>4. UNCHANGED userInfo \/ \E u \in Users : ToggleRollOver(u)
    BY Zenon DEF CancelWithdrawRequest, PublicUpdatePool, CoverNext,
           SettlePayout, BuyPolicy, ExpirePolicy, AdminClaim, ParameterNext, SetPaused,
           SetKilled, SetLockTime, SetStakingStartTime, SetRewardMultiplier, SetMinLPCapital,
           AgentParameters, Time, stakerVars, vars
  <1>5. ASSUME NEW v \in Users
        PROVE  /\ userInfo'[v].amount = userInfo[v].amount
               /\ userInfo'[v].rewardDebt = userInfo[v].rewardDebt
    BY <1>1, <1>4 DEF ToggleRollOver, UserType
  <1>6. Grown >= 0
    BY <1>1, <1>3, EmissionBound
  <1>7. \A v \in Users : UserWithin(v, 0)
    BY <1>1, <1>5, <1>6, IdleUser
  <1> QED  BY <1>2, <1>3, <1>7, NothingPaid

\* Every step of the pool in operation keeps RewardInv and creates no reward.
LEMMA EmissionStep ==
    ASSUME RewardInv, [OperatingNext]_vars
    PROVE  RewardInv' /\ (RewarderNext \/ RewardStep)
  <1>1. RewardInv' /\ TypeOK'
    <2>1. OpInv'
      BY OpStep DEF RewardInv
    <2>2. LedgerSums'
      BY LedgerStep DEF RewardInv, SafeLedgerInv, OpInv, Next
    <2> QED  BY <2>1, <2>2 DEF RewardInv, OpInv, SafeInv
  <1>2. CASE StakerNext
    <2>1. Amounts \subseteq Nat /\ LpAmounts \subseteq Nat
      BY PoolAssumption
    <2>2. PICK u \in Users :
             \/ \E amount \in Nat : EnterInPool(u, amount) \/ LeaveFromPoolInPending(u, amount)
             \/ \E lp \in Nat : LeaveFromPending(u, lp) \/ \E to \in Users : Transfer(u, to, lp)
             \/ CancelWithdrawRequest(u)
      BY Zenon, <1>2, <2>1 DEF StakerNext
    <2> QED  BY <1>1, <2>2, EnterEmission, HarvestEmission, LeaveEmission, TransferEmission,
                OtherEmission
  <1>3. CASE RewardNext
    <2>1. \/ \E u \in Users : HarvestReward(u)
          \/ \E S \in SUBSET Users : RollOverReward(S)
          \/ PublicUpdatePool \/ \E u \in Users : ToggleRollOver(u)
      BY <1>3, Zenon DEF RewardNext
    <2> QED  BY <1>1, <2>1, HarvestEmission, RollOverEmission, OtherEmission
  <1>4. CASE CoverNext \/ ParameterNext \/ Time \/ UNCHANGED vars
    BY <1>1, <1>4, OtherEmission
  <1>5. CASE RewarderNext
    BY <1>1, <1>5
  <1> QED  BY <1>2, <1>3, <1>4, <1>5 DEF OperatingNext

\* No sequence of stakes, transfers, requests, withdrawals, roll-overs and claims
\* creates reward beyond the emission, at any price of the LP token.
THEOREM RewardsAreEmitted == OperatingSpec => RewardsOnlyFromEmission
  <1>1. Init => RewardInv
    BY OpInit, InitLedger DEF RewardInv, SafeLedgerInv
  <1>2. RewardInv /\ [OperatingNext]_vars => RewardInv'
    BY EmissionStep
  <1>3. RewardInv /\ [OperatingNext]_vars => [RewarderNext \/ RewardStep]_vars
    BY EmissionStep
  <1> QED  BY <1>1, <1>2, <1>3, PTL DEF OperatingSpec, RewardsOnlyFromEmission, RewardStep

-----------------------------------------------------------------------------
(* PayoutRequest does nothing to the pool that a claim processor may not   *)
(* do, so that what is proved of the pool holds with it; and what a claim  *)
(* goes through.                                                           *)

\* An assertion names a policy and an amount, and has been paid by its callback
\* or left to the DAO only if it was resolved as true.
AssertionOK(a) ==
    /\ oracle[a].state # "none" =>
         /\ assertedPolicies[a].policyId \in PolicyIds
         /\ assertedPolicies[a].insuranceAmount \in Amounts
    /\ assertedPolicies[a].settled => settlements[a] = 1 /\ a \notin settleAssertionUmaFailed
    /\ settlements[a] > 0 \/ assertedPolicies[a].settled \/ a \in settleAssertionUmaFailed
         => oracle[a].state = "true"

AssertionsInv == PRTypeOK /\ \A a \in Assertions : AssertionOK(a)

\* Payments of assertions leave the pool as SettlePayout does.
LEMMA PaymentIsPayout ==
    ASSUME AssertionsInv, NEW a \in Assertions, oracle[a].state # "none", PayAssertion(a)
    PROVE  OperatingNext
  <1>1. /\ assertedPolicies[a].policyId \in PolicyIds
        /\ assertedPolicies[a].insuranceAmount \in Amounts
    BY DEF AssertionsInv, AssertionOK
  <1>2. SettlePayout(assertedPolicies[a].policyId, assertedPolicies[a].insuranceAmount)
    BY DEF PayAssertion
  <1>3. CoverNext
    BY <1>1, <1>2 DEF CoverNext
  <1> QED  BY <1>3 DEF OperatingNext

\* A step of the claims layer is a step of the pool in operation, or none.
LEMMA StepIsPoolStep ==
    ASSUME AssertionsInv, [PRNext]_allVars
    PROVE  [OperatingNext]_vars
  <1>1. CASE UNCHANGED allVars
    BY <1>1 DEF allVars
  <1>2. CASE CouncilNext
    BY <1>2 DEF CouncilNext, SetFailed, SetAliveness, SetRoleLock, SetClaimsDao,
                SetGuardianCouncil, TogglePause, CouncilActs
  <1>3. CASE PoolNext
    <2>1. \/ StakerNext \/ RewardNext \/ ParameterNext \/ RewarderNext \/ Time
          \/ \E q \in Quotes : BuyPolicy(q)
          \/ \E id \in PolicyIds : ExpirePolicy(id)
          \/ \E id \in PolicyIds : AdminClaim(id)
      BY <1>3 DEF PoolNext
    <2>2. (\/ \E q \in Quotes : BuyPolicy(q)
           \/ \E id \in PolicyIds : ExpirePolicy(id)
           \/ \E id \in PolicyIds : AdminClaim(id)) => CoverNext
      BY DEF CoverNext
    <2> QED  BY <2>1, <2>2 DEF OperatingNext
  <1>4. CASE RequestNext
    <2>1. ASSUME NEW id \in PolicyIds, NEW amount \in Amounts, NEW a \in Assertions,
                 AssertClaim(a, id, amount)
          PROVE  UNCHANGED vars
      BY <2>1 DEF AssertClaim
    <2>2. ASSUME NEW id \in PolicyIds, NEW amount \in Amounts, PayDirectly(id, amount)
          PROVE  OperatingNext
      <3>1. SettlePayout(id, amount)
        BY <2>2 DEF PayDirectly
      <3>2. CoverNext
        BY <3>1 DEF CoverNext
      <3> QED  BY <3>2 DEF OperatingNext
    <2>3. ASSUME NEW a \in Assertions, NEW truthfully \in BOOLEAN, Resolve(a, truthfully)
          PROVE  [OperatingNext]_vars
      <3>1. oracle[a].state # "none"
        BY <2>3 DEF Resolve, Resolvable
      <3>2. PayAssertion(a) \/ UNCHANGED vars
        BY <2>3 DEF Resolve, ResolvedTrue
      <3> QED  BY <3>1, <3>2, PaymentIsPayout
    <2>4. ASSUME NEW a \in Assertions, SettleAssertionForUmaFailed(a)
          PROVE  OperatingNext
      <3>1. PayAssertion(a) /\ a \in settleAssertionUmaFailed
        BY <2>4 DEF SettleAssertionForUmaFailed
      <3>2. oracle[a].state # "none"
        BY <3>1 DEF AssertionsInv, AssertionOK
      <3> QED  BY <3>1, <3>2, PaymentIsPayout
    <2>5. ASSUME NEW a \in Assertions, Dispute(a)
          PROVE  UNCHANGED vars
      BY <2>5 DEF Dispute
    <2> QED  BY <1>4, <2>1, <2>2, <2>3, <2>4, <2>5 DEF RequestNext
  <1> QED  BY <1>1, <1>2, <1>3, <1>4 DEF PRNext

-----------------------------------------------------------------------------
(* Claims.                                                                 *)

\* What does not touch an assertion keeps the invariant.
LEMMA RequestUnchanged ==
    ASSUME AssertionsInv, UNCHANGED assertionVars, PRTypeOK'
    PROVE  AssertionsInv'
  BY DEF AssertionsInv, AssertionOK, assertionVars

\* A new claim takes an id that was never used.
LEMMA AssertClaimInv ==
    ASSUME AssertionsInv, now \in Nat, NEW a \in Assertions, NEW id \in PolicyIds,
           NEW amount \in Amounts, AssertClaim(a, id, amount)
    PROVE  AssertionsInv'
  <1>0. now \in Nat
    OBVIOUS
  <1>1. /\ amount \in Nat /\ id \in Nat
    BY PoolAssumption DEF PolicyIds
  <1>2. PRTypeOK
    BY DEF AssertionsInv
  <1>3. /\ oracle[a].state = "none"
        /\ oracle' = [oracle EXCEPT ![a] = [state |-> "pending",
                                            expires |-> now + assertionliveTime]]
        /\ assertedPolicies' =
             [assertedPolicies EXCEPT ![a] = [assertedPolicies[a] EXCEPT
                                                !.insuranceAmount = amount, !.policyId = id]]
        /\ UNCHANGED <<councilVars, settleAssertionUmaFailed, settlements>>
    BY <1>2 DEF AssertClaim, PRTypeOK
  <1>4. /\ [state |-> "pending", expires |-> now + assertionliveTime] \in
             [state : OracleStates, expires : Nat]
        /\ [assertedPolicies[a] EXCEPT !.insuranceAmount = amount, !.policyId = id]
             \in [insuranceAmount : Nat, policyId : Nat, settled : BOOLEAN]
    <2>1. assertionliveTime \in Nat
      BY <1>2 DEF PRTypeOK
    <2>2. now + assertionliveTime \in Nat
      BY <1>0, <2>1
    <2>3. assertedPolicies[a] \in [insuranceAmount : Nat, policyId : Nat, settled : BOOLEAN]
      BY <1>2 DEF PRTypeOK
    <2>4. "pending" \in OracleStates
      BY DEF OracleStates
    <2> QED  BY <1>1, <2>2, <2>3, <2>4
  <1>5. PRTypeOK'
    BY <1>2, <1>3, <1>4 DEF PRTypeOK, councilVars
  <1>6. ASSUME NEW b \in Assertions PROVE AssertionOK(b)'
    <2>1. AssertionOK(b)
      BY DEF AssertionsInv
    <2>2. CASE b # a
      <3>1. oracle'[b] = oracle[b] /\ assertedPolicies'[b] = assertedPolicies[b]
        BY <1>2, <1>3, <2>2 DEF PRTypeOK
      <3> QED  BY <1>3, <2>1, <3>1 DEF AssertionOK
    <2>3. CASE b = a
      <3>1. /\ oracle'[a].state = "pending"
            /\ assertedPolicies'[a].settled = assertedPolicies[a].settled
            /\ assertedPolicies'[a].policyId = id
            /\ assertedPolicies'[a].insuranceAmount = amount
        BY <1>2, <1>3 DEF PRTypeOK
      <3>2. /\ ~ assertedPolicies[a].settled /\ a \notin settleAssertionUmaFailed
            /\ ~ (settlements[a] > 0)
        BY <1>3, <2>1, <2>3 DEF AssertionOK
      <3> QED  BY <1>3, <2>3, <3>1, <3>2 DEF AssertionOK
    <2> QED  BY <2>2, <2>3
  <1> QED  BY <1>5, <1>6 DEF AssertionsInv

\* Resolving an assertion pays it, or leaves it to the DAO, or does neither.
LEMMA ResolveInv ==
    ASSUME AssertionsInv, NEW a \in Assertions, NEW truthfully \in BOOLEAN,
           Resolve(a, truthfully)
    PROVE  AssertionsInv'
  <1>1. PRTypeOK /\ AssertionOK(a)
    BY DEF AssertionsInv
  <1>2. /\ oracle[a].state \in {"pending", "disputed"}
        /\ oracle' = [oracle EXCEPT ![a] = [oracle[a] EXCEPT
                        !.state = IF truthfully THEN "true" ELSE "false"]]
        /\ UNCHANGED councilVars
    BY <1>1 DEF Resolve, Resolvable, PRTypeOK
  <1>3. /\ ~ assertedPolicies[a].settled /\ a \notin settleAssertionUmaFailed
        /\ settlements[a] = 0
    BY <1>1, <1>2 DEF AssertionOK, PRTypeOK
  <1>4. \/ UNCHANGED <<assertedPolicies, settleAssertionUmaFailed, settlements>>
        \/ /\ truthfully
           /\ settleAssertionUmaFailed' = settleAssertionUmaFailed \cup {a}
           /\ UNCHANGED <<assertedPolicies, settlements>>
        \/ /\ truthfully
           /\ assertedPolicies' = [assertedPolicies EXCEPT ![a] = [assertedPolicies[a] EXCEPT
                                                                     !.settled = TRUE]]
           /\ settlements' = [settlements EXCEPT ![a] = 1]
           /\ UNCHANGED settleAssertionUmaFailed
    <2>1. \/ UNCHANGED <<assertedPolicies, settleAssertionUmaFailed, settlements>>
          \/ truthfully /\ ResolvedTrue(a)
      BY DEF Resolve
    <2>2. ResolvedTrue(a) =>
            \/ /\ settleAssertionUmaFailed' = settleAssertionUmaFailed \cup {a}
               /\ UNCHANGED <<assertedPolicies, settlements>>
            \/ /\ assertedPolicies' = [assertedPolicies EXCEPT ![a].settled = TRUE]
               /\ settlements' = [settlements EXCEPT ![a] = @ + 1]
               /\ UNCHANGED settleAssertionUmaFailed
      BY <1>3 DEF ResolvedTrue, PayAssertion
    <2> QED  BY <1>1, <1>3, <2>1, <2>2 DEF PRTypeOK
  <1>5. PRTypeOK'
    <2>1. [oracle[a] EXCEPT !.state = IF truthfully THEN "true" ELSE "false"] \in
             [state : OracleStates, expires : Nat]
      BY <1>1 DEF PRTypeOK, OracleStates
    <2>2. [assertedPolicies[a] EXCEPT !.settled = TRUE] \in
             [insuranceAmount : Nat, policyId : Nat, settled : BOOLEAN]
      BY <1>1 DEF PRTypeOK
    <2>3. oracle' \in [Assertions -> [state : OracleStates,
                                      expires : Nat]]
      BY <1>1, <1>2, <2>1 DEF PRTypeOK
    <2>4. /\ assertedPolicies' \in
               [Assertions -> [insuranceAmount : Nat, policyId : Nat, settled : BOOLEAN]]
          /\ settleAssertionUmaFailed' \subseteq Assertions
          /\ settlements' \in [Assertions -> Nat]
      <3>1. /\ assertedPolicies \in
                 [Assertions -> [insuranceAmount : Nat, policyId : Nat, settled : BOOLEAN]]
            /\ settleAssertionUmaFailed \subseteq Assertions
            /\ settlements \in [Assertions -> Nat]
        BY <1>1 DEF PRTypeOK
      <3>2. CASE UNCHANGED <<assertedPolicies, settleAssertionUmaFailed, settlements>>
        BY <3>1, <3>2
      <3>3. CASE /\ settleAssertionUmaFailed' = settleAssertionUmaFailed \cup {a}
                 /\ UNCHANGED <<assertedPolicies, settlements>>
        BY <3>1, <3>3
      <3>4. CASE /\ assertedPolicies' = [assertedPolicies EXCEPT ![a] =
                                           [assertedPolicies[a] EXCEPT !.settled = TRUE]]
                 /\ settlements' = [settlements EXCEPT ![a] = 1]
                 /\ UNCHANGED settleAssertionUmaFailed
        BY <2>2, <3>1, <3>4
      <3> QED  BY <1>4, <3>2, <3>3, <3>4
    <2> QED  BY <1>1, <1>2, <2>3, <2>4 DEF PRTypeOK, councilVars
  <1>6. ASSUME NEW b \in Assertions PROVE AssertionOK(b)'
    <2>1. AssertionOK(b)
      BY DEF AssertionsInv
    <2>2. CASE b # a
      <3>1. /\ oracle'[b] = oracle[b] /\ assertedPolicies'[b] = assertedPolicies[b]
            /\ settlements'[b] = settlements[b]
            /\ b \in settleAssertionUmaFailed' <=> b \in settleAssertionUmaFailed
        BY <1>1, <1>2, <1>4, <2>2 DEF PRTypeOK
      <3> QED  BY <2>1, <3>1 DEF AssertionOK
    <2>3. CASE b = a
      <3>1. oracle'[a].state = IF truthfully THEN "true" ELSE "false"
        BY <1>1, <1>2 DEF PRTypeOK
      <3>2. /\ assertedPolicies'[a].policyId = assertedPolicies[a].policyId
            /\ assertedPolicies'[a].insuranceAmount = assertedPolicies[a].insuranceAmount
        BY <1>1, <1>4 DEF PRTypeOK
      <3>3. \/ /\ ~ assertedPolicies'[a].settled /\ a \notin settleAssertionUmaFailed'
               /\ settlements'[a] = 0
            \/ /\ truthfully /\ ~ assertedPolicies'[a].settled
            \/ /\ truthfully /\ assertedPolicies'[a].settled
               /\ settlements'[a] = 1 /\ a \notin settleAssertionUmaFailed'
        BY <1>1, <1>3, <1>4 DEF PRTypeOK
      <3> QED  BY <1>1, <1>2, <2>3, <3>1, <3>2, <3>3 DEF AssertionOK
    <2> QED  BY <2>2, <2>3
  <1> QED  BY <1>5, <1>6 DEF AssertionsInv

\* A dispute pays nothing.
LEMMA DisputeInv ==
    ASSUME AssertionsInv, NEW a \in Assertions, Dispute(a)
    PROVE  AssertionsInv'
  <1>1. PRTypeOK /\ AssertionOK(a)
    BY DEF AssertionsInv
  <1>2. /\ oracle[a].state = "pending"
        /\ oracle' = [oracle EXCEPT ![a] = [oracle[a] EXCEPT !.state = "disputed"]]
        /\ UNCHANGED <<councilVars, assertedPolicies, settleAssertionUmaFailed, settlements>>
    BY <1>1 DEF Dispute, PRTypeOK
  <1>3. PRTypeOK'
    <2>1. [oracle[a] EXCEPT !.state = "disputed"] \in [state : OracleStates, expires : Nat]
      BY <1>1 DEF PRTypeOK, OracleStates
    <2> QED  BY <1>1, <1>2, <2>1 DEF PRTypeOK, councilVars
  <1>4. ASSUME NEW b \in Assertions PROVE AssertionOK(b)'
    <2>1. AssertionOK(b)
      BY DEF AssertionsInv
    <2>2. b # a => oracle'[b] = oracle[b]
      BY <1>1, <1>2 DEF PRTypeOK
    <2>3. oracle'[a].state = "disputed"
      BY <1>1, <1>2 DEF PRTypeOK
    <2> QED  BY <1>2, <2>1, <2>2, <2>3 DEF AssertionOK
  <1> QED  BY <1>3, <1>4 DEF AssertionsInv

\* The DAO settles only what was left to it.
LEMMA SettleInv ==
    ASSUME AssertionsInv, NEW a \in Assertions, SettleAssertionForUmaFailed(a)
    PROVE  AssertionsInv'
  <1>1. PRTypeOK /\ AssertionOK(a) /\ a \in settleAssertionUmaFailed
    BY DEF AssertionsInv, SettleAssertionForUmaFailed
  <1>2. /\ settlements' = [settlements EXCEPT ![a] = @ + 1]
        /\ UNCHANGED <<councilVars, assertedPolicies, settleAssertionUmaFailed, oracle>>
    BY DEF SettleAssertionForUmaFailed, PayAssertion
  <1>3. PRTypeOK'
    BY <1>1, <1>2 DEF PRTypeOK, councilVars
  <1>4. ASSUME NEW b \in Assertions PROVE AssertionOK(b)'
    <2>1. AssertionOK(b)
      BY DEF AssertionsInv
    <2>2. b # a => settlements'[b] = settlements[b]
      BY <1>1, <1>2 DEF PRTypeOK
    <2> QED  BY <1>1, <1>2, <2>1, <2>2 DEF AssertionOK
  <1> QED  BY <1>3, <1>4 DEF AssertionsInv

\* Every step keeps the invariant of the claims.
LEMMA RequestStep ==
    ASSUME AssertionsInv, now \in Nat, [PRNext]_allVars
    PROVE  AssertionsInv'
  <1>1. PRTypeOK
    BY DEF AssertionsInv
  <1>2. CASE UNCHANGED allVars
    <2>1. UNCHANGED <<councilVars, assertionVars>>
      BY <1>2 DEF allVars
    <2>2. PRTypeOK'
      BY <1>1, <2>1 DEF PRTypeOK, councilVars, assertionVars
    <2> QED  BY <2>1, <2>2, RequestUnchanged
  <1>3. CASE CouncilNext
    <2>1. UNCHANGED assertionVars
      BY <1>3 DEF CouncilNext, SetFailed, SetAliveness, SetRoleLock, SetClaimsDao,
                  SetGuardianCouncil, TogglePause, CouncilActs
    <2>2. PRTypeOK'
      <3>1. now \in Nat /\ \A time \in Times : time \in Nat
        BY PoolAssumption
      <3>2. ASSUME NEW failed \in BOOLEAN, SetFailed(failed) PROVE PRTypeOK'
        BY <1>1, <2>1, <3>2 DEF SetFailed, PRTypeOK, assertionVars
      <3>3. ASSUME NEW time \in Times, SetAliveness(time) PROVE PRTypeOK'
        <4>1. time \in Nat \ {0}
          BY <3>1, <3>3 DEF SetAliveness
        <4> QED  BY <1>1, <2>1, <3>3, <4>1 DEF SetAliveness, PRTypeOK, assertionVars
      <3>4. ASSUME NEW time \in Times, SetRoleLock(time) PROVE PRTypeOK'
        BY <1>1, <2>1, <3>1, <3>4 DEF SetRoleLock, PRTypeOK, assertionVars
      <3>5. now + roleLock \in Nat
        <4>1. roleLock \in Nat
          BY <1>1 DEF PRTypeOK
        <4> QED  BY <3>1, <4>1
      <3>6. ASSUME NEW account \in Members, SetClaimsDao(account) PROVE PRTypeOK'
        BY <1>1, <2>1, <3>5, <3>6 DEF SetClaimsDao, PRTypeOK, assertionVars
      <3>7. ASSUME NEW account \in Members, SetGuardianCouncil(account) PROVE PRTypeOK'
        BY <1>1, <2>1, <3>5, <3>7 DEF SetGuardianCouncil, PRTypeOK, assertionVars
      <3>8. TogglePause => PRTypeOK'
        BY <1>1, <2>1 DEF TogglePause, PRTypeOK, assertionVars
      <3> QED  BY <1>3, <3>2, <3>3, <3>4, <3>6, <3>7, <3>8 DEF CouncilNext
    <2> QED  BY <2>1, <2>2, RequestUnchanged
  <1>4. CASE PoolNext
    <2>1. UNCHANGED <<councilVars, assertionVars>>
      BY <1>4 DEF PoolNext
    <2>2. PRTypeOK'
      BY <1>1, <2>1 DEF PRTypeOK, councilVars, assertionVars
    <2> QED  BY <2>1, <2>2, RequestUnchanged
  <1>5. CASE RequestNext
    <2>1. ASSUME NEW id \in PolicyIds, NEW amount \in Amounts, PayDirectly(id, amount)
          PROVE  AssertionsInv'
      <3>1. UNCHANGED <<councilVars, assertionVars>>
        BY <2>1 DEF PayDirectly
      <3>2. PRTypeOK'
        BY <1>1, <3>1 DEF PRTypeOK, councilVars, assertionVars
      <3> QED  BY <3>1, <3>2, RequestUnchanged
    <2> QED  BY <1>5, <2>1, AssertClaimInv, ResolveInv, DisputeInv, SettleInv
              DEF RequestNext
  <1> QED  BY <1>2, <1>3, <1>4, <1>5 DEF PRNext

\* After deployment nothing is asserted.
LEMMA RequestInit == PRInit => AssertionsInv
  <1> SUFFICES ASSUME PRInit PROVE AssertionsInv
    OBVIOUS
  <1>1. /\ NoPolicy \in [insuranceAmount : Nat, policyId : Nat, settled : BOOLEAN]
        /\ NoAssertion \in [state : OracleStates, expires : Nat]
        /\ NoAssertion.state = "none" /\ NoPolicy.settled = FALSE
    BY DEF NoPolicy, NoAssertion, OracleStates
  <1>2. PRTypeOK
    <2>1. isUMAFailed \in BOOLEAN /\ requestPaused \in BOOLEAN
      BY Zenon DEF PRInit
    <2>2. claimsDao \in Members /\ guardianCouncil \in Members
      BY DEF PRInit
    <2>3. roleLock \in Nat /\ assertionliveTime \in Nat \ {0}
      BY DEF PRInit
    <2>4. settleAssertionUmaFailed \subseteq Assertions
      BY Zenon DEF PRInit
    <2>5. roleLockTime \in [Members -> Nat]
      BY DEF PRInit
    <2>6. assertedPolicies \in
            [Assertions -> [insuranceAmount : Nat, policyId : Nat, settled : BOOLEAN]]
      BY <1>1 DEF PRInit
    <2>7. oracle \in [Assertions -> [state : OracleStates, expires : Nat]]
      BY <1>1 DEF PRInit
    <2>8. settlements \in [Assertions -> Nat]
      BY DEF PRInit
    <2> QED  BY <2>1, <2>2, <2>3, <2>4, <2>5, <2>6, <2>7, <2>8 DEF PRTypeOK
  <1>3. \A a \in Assertions : AssertionOK(a)
    BY <1>1 DEF PRInit, AssertionOK
  <1> QED  BY <1>2, <1>3 DEF AssertionsInv

\* The invariant of the pool and that of the claims together.
LEMMA JointStep ==
    OpInv /\ AssertionsInv /\ [PRNext]_allVars => OpInv' /\ AssertionsInv' /\ [OperatingNext]_vars
  <1> SUFFICES ASSUME OpInv, AssertionsInv, [PRNext]_allVars
               PROVE  OpInv' /\ AssertionsInv' /\ [OperatingNext]_vars
    OBVIOUS
  <1>1. now \in Nat
    BY DEF OpInv, SafeInv, TypeOK
  <1>2. [OperatingNext]_vars
    BY StepIsPoolStep
  <1> QED  BY <1>1, <1>2, RequestStep, OpStep

\* After deployment both hold.
LEMMA JointInit == PRInit => OpInv /\ AssertionsInv
  BY RequestInit, OpInit DEF PRInit

-----------------------------------------------------------------------------
\* With claims in front of it, the pool behaves as a pool in operation: each of
\* their steps is a payout, or leaves it alone.  (PayoutRequest implements what
\* SSIP allows a CLAIM_PROCESSOR.)
THEOREM ClaimsImplementPool == PRSpec => OperatingSpec
  <1>1. PRInit => Init
    BY DEF PRInit
  <1> QED  BY <1>1, JointInit, JointStep, PTL DEF PRSpec, OperatingSpec

\* The state of PayoutRequest is well-typed.
THEOREM ClaimTypeCorrect == PRSpec => []PRTypeOK
  <1>1. AssertionsInv => PRTypeOK
    BY DEF AssertionsInv
  <1> QED  BY <1>1, JointInit, JointStep, PTL DEF PRSpec

\* The callback settles an assertion once, and the DAO does not settle it again.
THEOREM CallbackSettlesOnce == PRSpec => []SettledOnce
  <1>1. AssertionsInv => SettledOnce
    BY DEF AssertionsInv, AssertionOK, SettledOnce
  <1> QED  BY <1>1, JointInit, JointStep, PTL DEF PRSpec

\* What the oracle has not found true is never paid.
THEOREM TruthIsPaid == PRSpec => []OnlyTruthIsPaid
  <1>1. AssertionsInv => OnlyTruthIsPaid
    BY DEF AssertionsInv, AssertionOK, OnlyTruthIsPaid
  <1> QED  BY <1>1, JointInit, JointStep, PTL DEF PRSpec

\* Claims through the oracle leave the stakers' accounts in agreement: a
\* consequence of ClaimsImplementPool and the theorem about the pool.
THEOREM ClaimsKeepStake == PRSpec => []StakeIsLp
  BY ClaimsImplementPool, StakeStaysLp, PTL

-----------------------------------------------------------------------------
(* The pool of ETH, where the payee's code runs between the payment of a   *)
(* claim and the new price.                                                *)

\* What the payouts under way have paid and not reported.
Paid == [i \in DOMAIN payouts |-> payouts[i].paid]
Underway == SumFunction(Paid)

EthInv == SafeInv /\ payouts \in Seq(Payout) /\ BookIsVaultAndPayouts

\* What is under way is a natural number.
LEMMA PaidNat ==
    ASSUME NEW running \in Seq(Payout)
    PROVE  SumFunction([i \in DOMAIN running |-> running[i].paid]) \in Nat
  <1> DEFINE f == [i \in DOMAIN running |-> running[i].paid]
             S == 1 .. Len(running)
  <1>1. DOMAIN running = S /\ \A i \in S : running[i] \in Payout
    OBVIOUS
  <1>2. DOMAIN f = S /\ \A i \in S : f[i] \in Nat
    BY <1>1 DEF Payout
  <1>3. IsFiniteSet(S)
    BY FS_Interval
  <1> HIDE DEF f, S
  <1>4. SumFunction(f) \in Nat
    BY <1>2, <1>3, SumNat DEF SumFunction
  <1> QED  BY <1>4 DEF f

\* So is it now.
LEMMA UnderwayNat ==
    ASSUME payouts \in Seq(Payout)
    PROVE  Underway \in Nat
  BY PaidNat DEF Underway, Paid

\* A payout that begins is added, one that ends is taken away.
LEMMA UnderwayAdds ==
    ASSUME NEW shorter \in Seq(Payout), NEW one \in Payout,
           NEW longer, longer = Append(shorter, one)
    PROVE  SumFunction([i \in DOMAIN longer |-> longer[i].paid])
             = one.paid + SumFunction([i \in DOMAIN shorter |-> shorter[i].paid])
  <1> DEFINE f == [i \in DOMAIN longer |-> longer[i].paid]
             g == [i \in DOMAIN shorter |-> shorter[i].paid]
             n == Len(shorter)
             S == 1 .. (n + 1)
  <1>1. /\ n \in Nat
        /\ DOMAIN longer = S /\ DOMAIN shorter = 1 .. n
        /\ longer[n + 1] = one
        /\ \A i \in 1 .. n : longer[i] = shorter[i] /\ shorter[i] \in Payout
    OBVIOUS
  <1>2. DOMAIN f = S /\ DOMAIN g = 1 .. n /\ S \ {n + 1} = 1 .. n /\ n + 1 \in S
    BY <1>1
  <1>3. f[n + 1] = one.paid /\ \A i \in 1 .. n : f[i] = g[i] /\ g[i] \in Nat
    BY <1>1 DEF Payout
  <1>4. one.paid \in Nat
    BY DEF Payout
  <1>5. \A i \in S : f[i] \in Int
    <2> HIDE DEF f, g, n
    <2> QED  BY <1>1, <1>2, <1>3, <1>4
  <1>6. IsFiniteSet(S) /\ IsFiniteSet(1 .. n)
    <2>1. n + 1 \in Int /\ n \in Int /\ 1 \in Int
      BY <1>1
    <2> HIDE DEF n
    <2> QED  BY Zenon, <2>1, FS_Interval
  <1> HIDE DEF f, g, n, S
  <1>7. SumFunctionOnSet(f, S) = f[n + 1] + SumFunctionOnSet(f, S \ {n + 1})
    BY <1>2, <1>5, <1>6, SumPick
  <1>8. SumFunctionOnSet(f, 1 .. n) = SumFunctionOnSet(g, 1 .. n)
    BY <1>3, <1>6, SumSame
  <1>9. SumFunction(f) = one.paid + SumFunction(g)
    BY <1>2, <1>3, <1>7, <1>8 DEF SumFunction
  <1> QED  BY <1>9 DEF f, g

\* Public functions nested in a payout, as between transactions, report in full.
LEMMA PublicEth ==
    ASSUME EthInv, PublicNext \/ BetweenNext
    PROVE  EthInv'
  <1>1. /\ payouts' = payouts /\ SafeInv /\ payouts \in Seq(Payout)
        /\ poolInfo[ThisPool].totalCapital = cryptoBalance + Underway
    BY DEF EthInv, PublicNext, BetweenNext, BookIsVaultAndPayouts, Underway, Paid
  <1>2. Underway \in Nat /\ Underway' = Underway
    BY <1>1, UnderwayNat DEF Underway, Paid
  <1>3. CASE StakerNext
    <2>1. SafeInv'
      BY <1>1, <1>3, OperatingSafe DEF OperatingNext
    <2>2. Amounts \subseteq Nat /\ LpAmounts \subseteq Nat
      BY PoolAssumption
    <2>3. PICK u \in Users :
             \/ \E amount \in Nat : EnterInPool(u, amount) \/ LeaveFromPoolInPending(u, amount)
             \/ \E lp \in Nat : LeaveFromPending(u, lp)
             \/ CancelWithdrawRequest(u)
             \/ \E to \in Users, lp \in Nat : Transfer(u, to, lp)
      BY Zenon, <1>3, <2>2 DEF StakerNext
    <2>4. poolInfo'[ThisPool].totalCapital = cryptoBalance' + Underway
      <3>1. CASE \E to \in Users, lp \in Nat : Transfer(u, to, lp)
        <4>1. UNCHANGED <<caVars, cryptoBalance>>
          BY <3>1 DEF Transfer, RPTransfer
        <4>2. UNCHANGED <<poolInfo, cryptoBalance>>
          BY <4>1 DEF caVars, caBook
        <4> QED  BY <1>1, <4>2
      <3>2. CASE \/ \E amount \in Nat : EnterInPool(u, amount) \/ LeaveFromPoolInPending(u, amount)
                 \/ \E lp \in Nat : LeaveFromPending(u, lp)
                 \/ CancelWithdrawRequest(u)
        <4>1. PICK amount \in Nat : Reported(amount)
          BY Zenon, <1>1, <3>2, StakerReports
        <4> QED  BY <1>1, <1>2, <4>1, BookMoves
      <3> QED  BY Zenon, <2>3, <3>1, <3>2
    <2> QED  BY <1>1, <1>2, <2>1, <2>4 DEF EthInv, BookIsVaultAndPayouts, Underway, Paid
  <1>4. CASE \/ \E q \in Quotes : BuyPolicy(q)
             \/ \E id \in PolicyIds : ExpirePolicy(id) \/ AdminClaim(id)
             \/ Time
    <2>1. SafeInv'
      BY <1>1, <1>4, CoverSafe, TimeSafe DEF CoverNext
    <2>2. UNCHANGED <<poolInfo, cryptoBalance>>
      <3>1. ASSUME NEW q \in Quotes, BuyPolicy(q) PROVE UNCHANGED <<poolInfo, cryptoBalance>>
        BY <3>1 DEF BuyPolicy, PolicySale, caVars, caBook, rpVars
      <3>2. ASSUME NEW id \in PolicyIds, ExpirePolicy(id) \/ AdminClaim(id)
            PROVE  UNCHANGED <<poolInfo, cryptoBalance>>
        BY <3>2 DEF ExpirePolicy, UpdatePolicyStatus, AdminClaim, AdminMarkToClaimPolicy,
                    caBook, rpVars
      <3>3. ASSUME Time PROVE UNCHANGED <<poolInfo, cryptoBalance>>
        BY <3>3 DEF Time, caVars, caBook, rpVars
      <3> QED  BY <1>4, <3>1, <3>2, <3>3
    <2> QED  BY <1>1, <1>2, <2>1, <2>2 DEF EthInv, BookIsVaultAndPayouts, Underway, Paid
  <1> QED  BY Zenon, <1>3, <1>4 DEF PublicNext, BetweenNext

\* A payout that begins takes from the vault what is available, and counts it.
LEMMA BeginEth ==
    ASSUME EthInv, NEW id \in PolicyIds, NEW amount \in Nat, BeginPayout(id, amount)
    PROVE  EthInv'
  <1> DEFINE paid == RealClaimAmount(amount)
             one == [id |-> id, before |-> cryptoBalance, paid |-> paid]
  <1>1. /\ SafeInv /\ VaultInv /\ payouts \in Seq(Payout)
        /\ cryptoBalance \in Nat /\ MIN_LP_CAPITAL \in Nat
        /\ poolInfo[ThisPool].totalCapital = cryptoBalance + Underway
    BY DEF EthInv, SafeInv, VaultInv, RPTypeOK, BookIsVaultAndPayouts, Underway, Paid
  <1>2. /\ payouts' = Append(payouts, one)
        /\ cryptoBalance' = cryptoBalance - paid
        /\ UNCHANGED <<now, spVars, caVars, stakerVars>>
        /\ UNCHANGED <<balances, totalSupply, lpPriceUno,
                       withdrawRequestPerUser, totalWithdrawPending, MIN_LP_CAPITAL>>
    BY DEF BeginPayout
  <1>3. paid \in Nat /\ cryptoBalance - paid \in Nat
    BY <1>1 DEF BeginPayout, RealClaimAmount, AvailableCapital
  <1>4. one \in Payout /\ one.paid = paid
    BY <1>1, <1>3 DEF Payout
  <1> HIDE DEF paid, one
  <1>5. VaultInv'
    BY <1>1, <1>2, <1>3 DEF VaultInv, RPTypeOK, PendingWithinStake, pendingAmount
  <1>6. SafeInv'
    <2>1. SPTypeOK' /\ CATypeOK' /\ CoverInv'
      BY <1>1, <1>2, AgentUnchanged
    <2>2. OwnTypeOK' /\ now' \in Nat
      BY <1>1, <1>2, StakersUnchanged DEF SafeInv, TypeOK
    <2> QED  BY <1>1, <1>5, <2>1, <2>2, SafeFrom
  <1>7. payouts' \in Seq(Payout)
    BY <1>1, <1>2, <1>4
  <1>8. Underway' = paid + Underway
    BY <1>1, <1>2, <1>4, UnderwayAdds DEF Underway, Paid
  <1>9. poolInfo' = poolInfo
    BY <1>2 DEF caVars, caBook
  <1>10. poolInfo'[ThisPool].totalCapital = cryptoBalance' + Underway'
    <2>1. Underway \in Nat
      BY <1>1, UnderwayNat
    <2> QED  BY <1>1, <1>2, <1>3, <1>8, <1>9, <2>1
  <1> QED  BY <1>6, <1>7, <1>10 DEF EthInv, BookIsVaultAndPayouts, Underway, Paid

\* A payout that ends reports what it paid, whatever happened in between.
LEMMA EndEth ==
    ASSUME EthInv, EndPayout
    PROVE  EthInv' /\ Shortfall' <= 0
  <1> DEFINE one == Last(payouts)
             rest == Front(payouts)
  <1>1. /\ SafeInv /\ VaultInv /\ RPTypeOK /\ payouts \in Seq(Payout) /\ payouts # <<>>
        /\ cryptoBalance \in Nat /\ totalSupply \in Nat \ {0} /\ totalSupply \in Nat
        /\ ThisPool \in Pools /\ poolInfo \in [Pools -> PoolType]
        /\ poolInfo[ThisPool].totalCapital = cryptoBalance + Underway
    <2>1. SafeInv /\ payouts \in Seq(Payout) /\ payouts # <<>> /\ totalSupply > 0
      BY DEF EthInv, EndPayout
    <2>2. VaultInv /\ RPTypeOK /\ ThisPool \in Pools /\ poolInfo \in [Pools -> PoolType]
      BY <2>1, PoolAssumption DEF SafeInv, VaultInv, TypeOK, CATypeOK, PoolType
    <2>3. cryptoBalance \in Nat /\ totalSupply \in Nat
      BY <2>2 DEF RPTypeOK
    <2>4. poolInfo[ThisPool].totalCapital = cryptoBalance + Underway
      BY Zenon DEF EthInv, BookIsVaultAndPayouts, Underway, Paid
    <2> QED  BY <2>1, <2>2, <2>3, <2>4
  <1>2. one \in Payout /\ rest \in Seq(Payout) /\ payouts = Append(rest, one)
    BY <1>1 DEF Last, Front
  <1>3. one.paid \in Nat /\ one.id \in PolicyIds
    BY <1>2 DEF Payout
  <1>4. /\ payouts' = rest
        /\ SSIPPolicyClaim(ThisPool, one.paid, one.id)
        /\ lpPriceUno' = (cryptoBalance * ONE) \div totalSupply
        /\ UNCHANGED <<now, stakerVars>>
        /\ UNCHANGED <<balances, totalSupply, cryptoBalance,
                       withdrawRequestPerUser, totalWithdrawPending, MIN_LP_CAPITAL>>
    BY DEF EndPayout
  <1> HIDE DEF one, rest
  <1>5. /\ lpPriceUno' \in Nat
        /\ lpPriceUno' * totalSupply <= cryptoBalance * ONE
        /\ cryptoBalance * ONE \in Nat
    BY <1>1, <1>4, TimesNat, DivNat, DivBounds, OneAssumption
  <1>6. Shortfall' <= 0
    <2> DEFINE price == lpPriceUno'
    <2>1. totalSupply * price = price * totalSupply /\ totalSupply * price \in Nat
      <3>1. totalSupply \in Nat /\ price \in Nat
        BY <1>1, <1>5
      <3> HIDE DEF price
      <3> QED  BY <3>1, Z3
    <2>2. Shortfall' = totalSupply * lpPriceUno' - cryptoBalance * ONE
      BY <1>4 DEF Shortfall
    <2> QED  BY <1>5, <2>1, <2>2
  <1>7. SafeInv'
    <2>1. VaultInv'
      BY <1>1, <1>4, <1>5 DEF VaultInv, RPTypeOK, PendingWithinStake, pendingAmount
    <2>2. SPTypeOK' /\ CATypeOK' /\ CoverInv'
      BY <1>1, <1>3, <1>4, PolicyClaimType, CoverPaid DEF SafeInv, TypeOK
    <2>3. OwnTypeOK' /\ now' \in Nat
      BY <1>1, <1>4, StakersUnchanged DEF SafeInv, TypeOK
    <2> QED  BY <1>1, <2>1, <2>2, <2>3, SafeFrom
  <1>8. poolInfo'[ThisPool].totalCapital = poolInfo[ThisPool].totalCapital - one.paid
    BY <1>1, <1>3, <1>4 DEF SSIPPolicyClaim, DecreaseCapital, PoolType
  <1>9. Underway = one.paid + Underway'
    BY <1>2, <1>4, UnderwayAdds DEF Underway, Paid
  <1>10. Underway' \in Nat
    <2>1. payouts' \in Seq(Payout)
      BY <1>2, <1>4
    <2> QED  BY <2>1, PaidNat DEF Underway, Paid
  <1>11. poolInfo'[ThisPool].totalCapital = cryptoBalance' + Underway'
    BY <1>1, <1>3, <1>4, <1>8, <1>9, <1>10
  <1> QED  BY <1>2, <1>4, <1>6, <1>7, <1>11 DEF EthInv, BookIsVaultAndPayouts, Underway, Paid

\* What the end of a payout leaves.
EndStep == Len(payouts') < Len(payouts) => Shortfall' <= 0

\* Every step of a pool of ETH.
LEMMA EthStep ==
    ASSUME EthInv, [EthNext]_ethVars
    PROVE  EthInv' /\ EndStep
  <1>1. payouts \in Seq(Payout)
    BY DEF EthInv
  <1>2. CASE PublicNext \/ BetweenNext
    <2>1. ~ (Len(payouts') < Len(payouts))
      BY <1>1, <1>2 DEF PublicNext, BetweenNext
    <2> QED  BY <1>2, <2>1, PublicEth DEF EndStep
  <1>3. CASE \E id \in PolicyIds, amount \in Amounts : BeginPayout(id, amount)
    <2>1. PICK id \in PolicyIds, amount \in Nat : BeginPayout(id, amount)
      BY <1>3, PoolAssumption
    <2>2. \E one : payouts' = Append(payouts, one)
      BY <2>1 DEF BeginPayout
    <2>3. ~ (Len(payouts') < Len(payouts))
      BY <1>1, <2>2
    <2> QED  BY <2>1, <2>3, BeginEth DEF EndStep
  <1>4. CASE EndPayout
    BY <1>4, EndEth DEF EndStep
  <1>5. CASE UNCHANGED ethVars
    <2>1. UNCHANGED vars /\ UNCHANGED payouts
      BY <1>5 DEF ethVars
    <2>2. SafeInv'
      BY <2>1, SafeStep DEF EthInv
    <2>3. UNCHANGED <<poolInfo, cryptoBalance>>
      BY <2>1 DEF vars, caVars, caBook, rpVars
    <2>4. ~ (Len(payouts') < Len(payouts))
      BY <1>1, <2>1
    <2> QED  BY <2>1, <2>2, <2>3, <2>4 DEF EthInv, BookIsVaultAndPayouts, EndStep
  <1> QED  BY <1>2, <1>3, <1>4, <1>5 DEF EthNext

\* A pool of ETH begins with no payout under way.
LEMMA EthInitInv == EthInit => EthInv
  <1> SUFFICES ASSUME EthInit PROVE EthInv
    OBVIOUS
  <1>1. SafeInv /\ payouts = <<>>
    BY InitSafe DEF EthInit
  <1>2. poolInfo[ThisPool].totalCapital = 0 /\ cryptoBalance = 0
    BY PoolAssumption DEF EthInit, Init, NoPool, RPInit
  <1>3. Underway = 0
    <2>1. DOMAIN Paid = {}
      BY <1>1 DEF Paid
    <2> QED  BY <2>1, SumEmpty DEF Underway, SumFunction
  <1> QED  BY <1>1, <1>2, <1>3 DEF EthInv, BookIsVaultAndPayouts, Underway, Paid

\* Whatever the payee of a claim calls before the price is set, the variables keep
\* their types: nothing is taken below zero.
THEOREM EthTypeCorrect == EthSpec => []EthTypeOK
  <1>1. EthInv => EthTypeOK
    BY DEF EthInv, SafeInv, EthTypeOK
  <1> QED  BY EthInitInv, EthStep, <1>1, PTL DEF EthSpec

\* Whatever the payee calls, the agent's book lacks what is paid and not reported,
\* and nothing else.
THEOREM BookFollowsPayouts == EthSpec => []BookIsVaultAndPayouts
  <1>1. EthInv => BookIsVaultAndPayouts
    BY DEF EthInv
  <1> QED  BY EthInitInv, EthStep, <1>1, PTL DEF EthSpec

\* Whatever the payee calls, the claims paid on a policy stay within its coverage.
THEOREM EthPayoutsWithinCoverage == EthSpec => []ClaimsWithinCoverage
  <1>1. EthInv => ClaimsWithinCoverage
    BY DEF EthInv, SafeInv, CoverInv
  <1> QED  BY EthInitInv, EthStep, <1>1, PTL DEF EthSpec

\* However payouts are nested, each one ends with a price the vault can honour.
THEOREM PayoutsEndHonoured == EthSpec => PayoutLeavesNoShortfall
  <1>1. EthInv /\ [EthNext]_ethVars => EthInv'
    BY EthStep
  <1>2. EthInv /\ [EthNext]_ethVars => [EndStep]_ethVars
    BY EthStep
  <1> QED  BY EthInitInv, <1>1, <1>2, PTL DEF EthSpec, PayoutLeavesNoShortfall, EndStep
=============================================================================
