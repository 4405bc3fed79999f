------------------------------- MODULE MCSSIP -------------------------------
(***************************************************************************)
(* Instances of the pool for TLC.  Each specification below is the pool    *)
(* with the actions one question needs; ONE and the other units are small, *)
(* and not powers of the amounts, so that divisions do round.              *)
(***************************************************************************)
EXTENDS SSIPProperties, TLC

CONSTANTS u1, u2, holder, nobody, ssip, uno1

OneQuote == {[sender |-> holder, signedTime |-> 1,
              covers |-> <<[amount |-> 2, duration |-> 2]>>]}

StakerSymmetry == Permutations(Users)

\* stakers and claims
CapitalNext == StakerNext \/ CoverNext \/ Time
CapitalSpec == Init /\ [][CapitalNext]_vars

\* stakers who leave by every door, the withdrawal, the migration and the emergency
\* exit, while a claim moves the LP price and the pool may be killed
ExitsNext ==
    \/ StakerNext \/ ExitNext \/ Time
    \/ \E isKilled \in BOOLEAN : SetKilled(isKilled)
    \/ \E q \in Quotes : BuyPolicy(q)
    \/ \E id \in PolicyIds, amount \in Amounts : SettlePayout(id, amount)
ExitsSpec == Init /\ [][ExitsNext]_vars

\* stakers and rewards, while policies are sold and claims move the LP price
RewardsNext ==
    \/ StakerNext \/ RewardNext \/ Time
    \/ \E q \in Quotes : BuyPolicy(q)
    \/ \E id \in PolicyIds, amount \in Amounts : SettlePayout(id, amount)
RewardsSpec == Init /\ [][RewardsNext]_vars

\* a staker and a claim while the admin changes parameters, handles the Rewarder and
\* overwrites the accounts
AdministeredNext ==
    \/ StakerNext \/ RewardNext \/ ParameterNext \/ RewarderNext \/ OverrideNext \/ Time
    \/ \E q \in Quotes : BuyPolicy(q)
    \/ \E id \in PolicyIds, amount \in Amounts : SettlePayout(id, amount)
AdministeredSpec == Init /\ [][AdministeredNext]_vars
=============================================================================
