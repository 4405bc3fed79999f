------------------------------- MODULE Bundle -------------------------------
(***************************************************************************)
(* What a deployment promises: contracts come to life one at a time, each  *)
(* after those it is given the addresses of, and none goes away.           *)
(***************************************************************************)
VARIABLES
    plan, \* for each contract, the set of sets of contracts it may be built on
    live  \* the contracts there are

Init == live = {}

Deploy(name) ==
    /\ \E uses \in plan[name] : uses \subseteq live
    /\ live' = live \cup {name}
    /\ UNCHANGED plan

Next == \E name \in DOMAIN plan : Deploy(name)

Spec == Init /\ [][Next]_<<plan, live>>
=============================================================================
