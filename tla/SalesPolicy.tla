----------------------------- MODULE SalesPolicy -----------------------------
(***************************************************************************)
(* The SalesPolicy contract: the cover policies it has sold, each an NFT   *)
(* of its owner.  A sale presents a quote signed off-chain; a signed quote *)
(* is an element of Quotes, so what the signature check admits is exactly  *)
(* Quotes, and usedHash is the set of quotes already spent.  Only the      *)
(* CapitalAgent closes a policy, as claimed or as expired.  Quotes and     *)
(* covers run out, so the module also owns the clock.                      *)
(***************************************************************************)
EXTENDS Integers, Sequences, Functions

CONSTANTS
    Quotes,       \* signed quotes: [sender, signedTime, covers]
    Holders,      \* addresses that may own a policy
    NoOwner,      \* ownerOf of a token that does not exist
    MaxDeadline,  \* maxDeadline: how long a quote is good for
    MaxPolicies,  \* bound of the model: policies ever sold
    MaxTime       \* bound of the model: the last value of the clock

PolicyIds == 0 .. MaxPolicies - 1

\* the coverage a quote buys in all its lines
CoverTotal(q) == SumFunction([i \in DOMAIN q.covers |-> q.covers[i].amount])

ASSUME TimeAssumption == MaxTime \in Nat

ASSUME SalesAssumption ==
    /\ MaxPolicies \in Nat
    /\ MaxDeadline \in Nat
    /\ NoOwner \notin Holders
    /\ \A q \in Quotes :
         /\ q.sender \in Holders
         /\ q.signedTime \in Nat
         /\ q.covers \in Seq([amount : Nat, duration : Nat])

VARIABLES
    getPolicy,  \* [PolicyIds -> Policy]; the zero record where nothing is sold
    policyIdx,  \* the next policy id
    ownerOf,    \* [PolicyIds -> Holders \cup {NoOwner}], the ERC721 token
    usedHash,   \* the quotes already used
    salesPaused, \* Pausable: no sale while TRUE
    now         \* block.timestamp, and block.number where the code counts blocks

spVars == <<getPolicy, policyIdx, ownerOf, usedHash, salesPaused>>

\* An external function runs within one transaction, so it takes no time: the
\* clock moves between transactions, and those of one block read the same value.
Tick == now < MaxTime /\ now' = now + 1

ZeroPolicy == [coverStartAt |-> 0, coverageDuration |-> 0, coverageAmount |-> 0,
               exist |-> FALSE, expired |-> FALSE]

SPTypeOK ==
    /\ getPolicy \in [PolicyIds -> [coverStartAt : Nat, coverageDuration : Nat,
                                    coverageAmount : Nat,
                                    exist : BOOLEAN, expired : BOOLEAN]]
    /\ policyIdx \in 0 .. MaxPolicies
    /\ ownerOf \in [PolicyIds -> Holders \cup {NoOwner}]
    /\ usedHash \subseteq Quotes
    /\ salesPaused \in BOOLEAN

SPInit ==
    /\ getPolicy = [id \in PolicyIds |-> ZeroPolicy]
    /\ policyIdx = 0
    /\ ownerOf = [id \in PolicyIds |-> NoOwner]
    /\ usedHash = {}
    /\ salesPaused = FALSE

-----------------------------------------------------------------------------
coverage(id) == getPolicy[id].coverageAmount

\* a policy that counts towards the utilised coverage
Active(id) == getPolicy[id].exist /\ ~ getPolicy[id].expired

QuoteUsable(q) ==
    /\ q \notin usedHash
    /\ q.signedTime <= now
    /\ now - q.signedTime < MaxDeadline

\* buyPolicy mints one policy for each line of the quote, with consecutive ids.
SPBuyPolicy(q) ==
    LET first  == policyIdx
        bought == first .. first + Len(q.covers) - 1
    IN  /\ ~ salesPaused
        /\ Len(q.covers) > 0
        /\ QuoteUsable(q)
        /\ first + Len(q.covers) <= MaxPolicies
        /\ usedHash' = usedHash \cup {q}
        /\ getPolicy' = [id \in PolicyIds |->
             IF id \in bought
             THEN [coverStartAt |-> now,
                   coverageDuration |-> q.covers[id - first + 1].duration,
                   coverageAmount |-> q.covers[id - first + 1].amount,
                   exist |-> TRUE, expired |-> FALSE]
             ELSE getPolicy[id]]
        /\ ownerOf' = [id \in PolicyIds |->
             IF id \in bought THEN q.sender ELSE ownerOf[id]]
        /\ policyIdx' = first + Len(q.covers)
        /\ UNCHANGED salesPaused

\* deviation: burning a token that does not exist does not revert
BurnPolicyIfAny(id) == ownerOf' = [ownerOf EXCEPT ![id] = NoOwner]

BurnPolicy(id) ==
    /\ ownerOf[id] # NoOwner
    /\ ownerOf' = [ownerOf EXCEPT ![id] = NoOwner]

SPMarkToClaim(id) ==
    /\ getPolicy[id].exist
    /\ ~ getPolicy[id].expired
    /\ getPolicy' = [getPolicy EXCEPT ![id].exist = FALSE]
    /\ BurnPolicy(id)
    /\ UNCHANGED <<policyIdx, usedHash, salesPaused>>

\* deviation: the token of an expired policy stays
ExpireKeepingToken(id) ==
    /\ getPolicy[id].exist
    /\ ~ getPolicy[id].expired
    /\ getPolicy' = [getPolicy EXCEPT ![id].expired = TRUE]
    /\ UNCHANGED <<policyIdx, ownerOf, usedHash, salesPaused>>

SPUpdatePolicyExpired(id) ==
    /\ getPolicy[id].exist
    /\ getPolicy' = [getPolicy EXCEPT ![id].expired = TRUE]
    /\ BurnPolicy(id)
    /\ UNCHANGED <<policyIdx, usedHash, salesPaused>>

\* ERC721 transferFrom by the owner
SPTransferPolicy(id, to) ==
    /\ ownerOf[id] # NoOwner
    /\ ownerOf' = [ownerOf EXCEPT ![id] = to]
    /\ UNCHANGED <<getPolicy, policyIdx, usedHash, salesPaused>>

\* killPool pauses the contract and revivePool unpauses it
SPSetPaused(isPaused) ==
    /\ salesPaused # isPaused
    /\ salesPaused' = isPaused
    /\ UNCHANGED <<getPolicy, policyIdx, ownerOf, usedHash>>
=============================================================================
