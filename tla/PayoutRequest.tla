---------------------------- MODULE PayoutRequest ----------------------------
(***************************************************************************)
(* PayoutRequest: how a claim becomes a payout.  The owner of a policy     *)
(* asserts the claim at UMA's optimistic oracle, which calls back when the *)
(* assertion is resolved; while the guardian council has declared UMA      *)
(* failed, as it is at first, the claims DAO pays directly, and settles    *)
(* the assertions that were resolved meanwhile.                            *)
(*                                                                         *)
(* The contract is the CLAIM_PROCESSOR of the pool: every payout is a      *)
(* SettlePayout of SSIP.                                                   *)
(***************************************************************************)
EXTENDS SSIP

CONSTANTS
    Members,       \* who may be the guardian council or the claims DAO
    MaxAssertions   \* bound: claims ever asserted

ASSUME RequestAssumption == MaxAssertions \in Nat

Assertions == 0 .. MaxAssertions - 1

VARIABLES
    isUMAFailed,
    claimsDao,
    guardianCouncil,
    roleLockTime,             \* [Members -> Nat]
    roleLock,                 \* lockTime: the wait of a new holder of a role
    assertionliveTime,
    requestPaused,
    assertedPolicies,         \* [Assertions -> Policy]
    settleAssertionUmaFailed, \* the assertions the DAO may settle
    oracle,                   \* [Assertions -> what the oracle knows of each]
    settlements               \* [Assertions -> Nat]: how often each was paid

councilVars == <<isUMAFailed, claimsDao, guardianCouncil, roleLockTime, roleLock,
                 assertionliveTime, requestPaused>>
assertionVars == <<assertedPolicies, settleAssertionUmaFailed, oracle, settlements>>
allVars == <<vars, councilVars, assertionVars>>

NoPolicy == [insuranceAmount |-> 0, policyId |-> 0, settled |-> FALSE]
NoAssertion == [state |-> "none", expires |-> 0]

OracleStates == {"none", "pending", "disputed", "true", "false"}

\* Every variable has the type of its declaration, and an assertion lives for
\* a time in which it can be disputed.
PRTypeOK ==
    /\ isUMAFailed \in BOOLEAN /\ requestPaused \in BOOLEAN
    /\ claimsDao \in Members /\ guardianCouncil \in Members
    /\ roleLockTime \in [Members -> Nat]
    /\ roleLock \in Nat /\ assertionliveTime \in Nat \ {0}
    /\ assertedPolicies \in
         [Assertions -> [insuranceAmount : Nat, policyId : Nat, settled : BOOLEAN]]
    /\ settleAssertionUmaFailed \subseteq Assertions
    /\ oracle \in [Assertions -> [state : OracleStates, expires : Nat]]
    /\ settlements \in [Assertions -> Nat]

PRInit ==
    /\ Init
    /\ isUMAFailed = TRUE
    /\ claimsDao \in Members /\ guardianCouncil \in Members
    /\ roleLockTime = [a \in Members |-> 0]
    /\ roleLock = 0
    /\ assertionliveTime = 1
    /\ requestPaused = FALSE
    /\ assertedPolicies = [a \in Assertions |-> NoPolicy]
    /\ settleAssertionUmaFailed = {}
    /\ oracle = [a \in Assertions |-> NoAssertion]
    /\ settlements = [a \in Assertions |-> 0]

-----------------------------------------------------------------------------
LockPassed(account) == roleLockTime[account] <= now

\* initRequest first brings the policy's status up to date: one whose time is
\* over is closed there, so that the check of the coverage reverts.
CheckForCoverage(id, amount) ==
    /\ ToUSDC(UNO, amount) + claimedAmount[id] <= coverage(id)
    /\ Active(id)

Requestable(id, amount) ==
    /\ ~ requestPaused
    /\ policyInfo.exist
    /\ ~ Expired(id)
    /\ CheckForCoverage(id, amount)

\* initRequest of the policy's owner: assertTruth gives a new id
AssertClaim(a, id, amount) ==
    /\ Requestable(id, amount)
    /\ ~ isUMAFailed
    /\ oracle[a].state = "none"
    /\ \A b \in Assertions : b < a => oracle[b].state # "none"
    /\ oracle' = [oracle EXCEPT ![a] = [state |-> "pending",
                                        expires |-> now + assertionliveTime]]
    /\ assertedPolicies' = [assertedPolicies EXCEPT ![a].insuranceAmount = amount,
                                                    ![a].policyId = id]
    /\ UNCHANGED <<vars, councilVars, settleAssertionUmaFailed, settlements>>

\* initRequest of the claims DAO
PayDirectly(id, amount) ==
    /\ Requestable(id, amount)
    /\ isUMAFailed
    /\ LockPassed(claimsDao)
    /\ SettlePayout(id, amount)
    /\ UNCHANGED <<councilVars, assertionVars>>

PayAssertion(a) ==
    /\ SettlePayout(assertedPolicies[a].policyId, assertedPolicies[a].insuranceAmount)
    /\ settlements' = [settlements EXCEPT ![a] = @ + 1]

\* assertionResolvedCallback; deviation: an assertion left to the DAO is paid too
ResolvedTrueFallingThrough(a) ==
    /\ settleAssertionUmaFailed' = IF isUMAFailed THEN settleAssertionUmaFailed \cup {a}
                                   ELSE settleAssertionUmaFailed
    /\ assertedPolicies' = [assertedPolicies EXCEPT ![a].settled = TRUE]
    /\ PayAssertion(a)

ResolvedTrue(a) ==
    IF assertedPolicies[a].settled \/ isUMAFailed
    THEN /\ settleAssertionUmaFailed' =
              IF assertedPolicies[a].settled THEN settleAssertionUmaFailed
                                             ELSE settleAssertionUmaFailed \cup {a}
         /\ UNCHANGED <<vars, assertedPolicies, settlements>>
    ELSE /\ assertedPolicies' = [assertedPolicies EXCEPT ![a].settled = TRUE]
         /\ PayAssertion(a)
         /\ UNCHANGED settleAssertionUmaFailed

\* assertionDisputedCallback does nothing
Dispute(a) ==
    /\ oracle[a].state = "pending"
    /\ now < oracle[a].expires
    /\ oracle' = [oracle EXCEPT ![a].state = "disputed"]
    /\ UNCHANGED <<vars, councilVars, assertedPolicies, settleAssertionUmaFailed,
                   settlements>>

\* what the oracle may find: an assertion that nobody disputed in its time is true
Resolvable(a, truthfully) ==
    \/ oracle[a].state = "pending" /\ now >= oracle[a].expires /\ truthfully
    \/ oracle[a].state = "disputed"

\* a callback that reverts leaves the assertion unresolved at the oracle
\* (deviation first: the answer of the oracle is not looked at)
ResolveUnread(a, truthfully) ==
    /\ Resolvable(a, truthfully)
    /\ oracle' = [oracle EXCEPT ![a].state = IF truthfully THEN "true" ELSE "false"]
    /\ ResolvedTrue(a)
    /\ UNCHANGED councilVars

Resolve(a, truthfully) ==
    /\ Resolvable(a, truthfully)
    /\ oracle' = [oracle EXCEPT ![a].state = IF truthfully THEN "true" ELSE "false"]
    /\ IF truthfully
         THEN ResolvedTrue(a)
         ELSE UNCHANGED <<vars, assertedPolicies, settleAssertionUmaFailed, settlements>>
    /\ UNCHANGED councilVars

\* by the claims DAO
SettleAssertionForUmaFailed(a) ==
    /\ a \in settleAssertionUmaFailed
    /\ PayAssertion(a)
    /\ UNCHANGED <<councilVars, assertedPolicies, settleAssertionUmaFailed, oracle>>

-----------------------------------------------------------------------------
(* The guardian council.                                                   *)

CouncilActs ==
    /\ LockPassed(guardianCouncil)
    /\ UNCHANGED <<vars, assertionVars>>

SetFailed(failed) ==
    /\ CouncilActs
    /\ isUMAFailed' = failed
    /\ UNCHANGED <<claimsDao, guardianCouncil, roleLockTime, roleLock,
                   assertionliveTime, requestPaused>>

SetAliveness(time) ==
    /\ CouncilActs
    /\ time > 0
    /\ assertionliveTime' = time
    /\ UNCHANGED <<isUMAFailed, claimsDao, guardianCouncil, roleLockTime, roleLock,
                   requestPaused>>

SetClaimsDao(account) ==
    /\ CouncilActs
    /\ claimsDao' = account
    /\ roleLockTime' = [roleLockTime EXCEPT ![account] = now + roleLock]
    /\ UNCHANGED <<isUMAFailed, guardianCouncil, roleLock, assertionliveTime, requestPaused>>

SetGuardianCouncil(account) ==
    /\ CouncilActs
    /\ guardianCouncil' = account
    /\ roleLockTime' = [roleLockTime EXCEPT ![account] = now + roleLock]
    /\ UNCHANGED <<isUMAFailed, claimsDao, roleLock, assertionliveTime, requestPaused>>

SetRoleLock(time) ==
    /\ CouncilActs
    /\ roleLock' = time
    /\ UNCHANGED <<isUMAFailed, claimsDao, guardianCouncil, roleLockTime,
                   assertionliveTime, requestPaused>>

TogglePause ==
    /\ CouncilActs
    /\ requestPaused' = ~ requestPaused
    /\ UNCHANGED <<isUMAFailed, claimsDao, guardianCouncil, roleLockTime, roleLock,
                   assertionliveTime>>

-----------------------------------------------------------------------------
RequestNext ==
    \/ \E id \in PolicyIds, amount \in Amounts :
          \/ \E a \in Assertions : AssertClaim(a, id, amount)
          \/ PayDirectly(id, amount)
    \/ \E a \in Assertions, truthfully \in BOOLEAN : Resolve(a, truthfully)
    \/ \E a \in Assertions : Dispute(a) \/ SettleAssertionForUmaFailed(a)

CouncilNext ==
    \/ \E failed \in BOOLEAN : SetFailed(failed)
    \/ \E time \in Times : SetAliveness(time) \/ SetRoleLock(time)
    \/ \E account \in Members : SetClaimsDao(account) \/ SetGuardianCouncil(account)
    \/ TogglePause

\* the pool, but for payouts nobody asked for
PoolNext ==
    /\ \/ StakerNext
       \/ RewardNext
       \/ \E q \in Quotes : BuyPolicy(q)
       \/ \E id \in PolicyIds : ExpirePolicy(id) \/ AdminClaim(id)
       \/ ParameterNext
       \/ RewarderNext
       \/ Time
    /\ UNCHANGED <<councilVars, assertionVars>>

PRNext == RequestNext \/ CouncilNext \/ PoolNext

PRSpec == PRInit /\ [][PRNext]_allVars

-----------------------------------------------------------------------------
(* What a claim goes through.                                              *)

\* An assertion the callback has settled was settled exactly once and is not left
\* to the DAO as well, however often UMA is declared failed and working again
\* between the claim and its resolution.
SettledOnce ==
    \A a \in Assertions :
       assertedPolicies[a].settled =>
          settlements[a] = 1 /\ a \notin settleAssertionUmaFailed

\* Nothing is paid on an assertion the oracle has not resolved as true, by the
\* callback or by the DAO.
OnlyTruthIsPaid ==
    \A a \in Assertions :
       settlements[a] > 0 \/ assertedPolicies[a].settled \/ a \in settleAssertionUmaFailed
         => oracle[a].state = "true"

\* "If already settled, do nothing." (PayoutRequest.sol:138): an assertion is paid
\* at most once.
PaidOnce == \A a \in Assertions : settlements[a] <= 1
=============================================================================
