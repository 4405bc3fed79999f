-------------------------- MODULE CoverProperties --------------------------
(***************************************************************************)
(* What holds of the policies sold, in every system that composes the      *)
(* CapitalAgent with its SalesPolicy.                                      *)
(***************************************************************************)
EXTENDS CapitalAgent

\* What is paid out on a policy, over all its payouts and by whichever pools, is
\* within its coverage (CapitalAgent._SSIPPolicyClaim), whatever the order of
\* payouts, expiry, the admin's closing of the policy and the sale of others.
ClaimsWithinCoverage == \A id \in PolicyIds : claimedAmount[id] <= coverage(id)

\* A policy whose coverage is used up is closed: it is in the state claimed, and
\* cannot be expired, transferred or counted as utilised any more.
FullyPaidIsClosed ==
    \A id \in PolicyIds :
       coverage(id) > 0 /\ claimedAmount[id] = coverage(id) => ~ getPolicy[id].exist

\* A policy has an owner exactly as long as it is active: claiming and expiry
\* burn the token, in whichever order they race.
TokenIsActive == \A id \in PolicyIds : ownerOf[id] # NoOwner <=> Active(id)
=============================================================================
