------------------------------ MODULE TxScripts ------------------------------
(***************************************************************************)
(* The scripts that send transactions from one account: setup-script.js    *)
(* and set-details.js.  A script goes through its calls in order.  Before  *)
(* it sends one, the provider estimates its gas, and throws if the call    *)
(* would revert; the setup then goes on without waiting for the trans-     *)
(* action, the other waits for it to be mined.  What is sent stays pending *)
(* when the process dies, is mined in the order it was sent, and may       *)
(* revert then.  The operator may run a script again.                      *)
(***************************************************************************)
EXTENDS Naturals, Sequences, FiniteSets, SequencesExt

CONSTANTS
    Users,      \* keys of set-details' data file
    MaxRuns,    \* bound: runs of the script
    MaxCrashes  \* bound: runs that die

ASSUME DetailsAssumption == IsFiniteSet(Users)

VARIABLES
    job,     \* the script: its calls, whether it waits, and what estimates see
    chain,   \* the contracts' state, see Deployed
    pending, \* transactions sent and not mined, in order
    process, \* the running script: the next call, and whether it waits
    past     \* how often it was run, died, and came to its end

vars == <<job, chain, pending, process, past>>

Call(op, on) == [op |-> op, on |-> on]

-----------------------------------------------------------------------------
(* The scripts.                                                            *)

SSIPs == <<"ETH", "UNO", "USDC", "USDT">>

ForEachPool(op) == [i \in DOMAIN SSIPs |-> Call(op, SSIPs[i])]

AgentCalls ==
    ForEachPool("addPoolWhiteList")
    \o <<Call("setMCR", ""), Call("setMLR", ""), Call("setSalesPolicyFactory", "")>>

PoolCalls ==
    ForEachPool("createRiskPool") \o ForEachPool("createRewarder") \o ForEachPool("grantRole")

PolicyCalls ==
    ForEachPool("setCapitalAgent")
    \o <<Call("createRiskPoolOfSSRP", ""), Call("createRewarderOfSSRP", ""),
         Call("newSalesPolicy", ""), Call("setSignerInPolicy", "")>>
    \o [i \in 1 .. 3 |-> Call("approvePremiumInPolicy", SSIPs[i + 1])]

PremiumPoolCalls ==
    [i \in 1 .. 3 |-> Call("addCurrency", SSIPs[i + 1])]
    \o <<Call("addWhiteList", "salesPolicy")>>

\* deviation: the pools are configured before they are whitelisted
SetupCallsPoolsFirst ==
    PoolCalls \o AgentCalls \o AgentCalls \o PolicyCalls \o PremiumPoolCalls

\* deviation: the pools are whitelisted once
SetupCallsOnce ==
    AgentCalls \o PoolCalls \o PolicyCalls \o PremiumPoolCalls

\* the whole of setup-script.js: the calls to the agent are made twice
SetupCalls ==
    AgentCalls \o PoolCalls \o AgentCalls \o PolicyCalls \o PremiumPoolCalls

\* deviation: the data is gone through twice
SetDetailsTwice(sees) ==
    LET users == SetToSeq(Users) \o SetToSeq(Users)
    IN  [name |-> "details", waits |-> TRUE, estimates |-> sees,
         calls |-> [i \in DOMAIN users |-> Call("setUserDetails", users[i])]]

\* setUserDetails for each key of the data, which are different
SetDetails(sees) ==
    LET users == SetToSeq(Users)
    IN  [name |-> "details", waits |-> TRUE, estimates |-> sees,
         calls |-> [i \in DOMAIN users |-> Call("setUserDetails", users[i])]]

Setup(sees) ==
    [name |-> "setup", waits |-> FALSE, estimates |-> sees, calls |-> SetupCalls]

Jobs == UNION {{Setup(sees), SetDetails(sees)} : sees \in {"latest", "pending"}}

-----------------------------------------------------------------------------
(* The contracts.                                                          *)

Pools == ToSet(SSIPs)

Deployed ==
    [white      |-> {},                        \* CapitalAgent.poolWhiteList
     agentPools |-> {},                        \* CapitalAgent.poolInfo
     factory    |-> FALSE,                     \* its salesPolicyFactory is set
     policy     |-> FALSE,                     \* its policyInfo exists
     riskPools  |-> [p \in Pools |-> 0],       \* how many were created
     rewarders  |-> [p \in Pools |-> 0],       \* how many were created
     claimRoles |-> {},                        \* pools whose PayoutRequest may claim
     currencies |-> {},                        \* of the PremiumPool
     other      |-> {},                        \* calls of the second half made
     stake      |-> [u \in Users |-> 0],       \* SSRP: userInfo.amount
     lp         |-> [u \in Users |-> 0]]       \* SSRP: LP tokens minted

\* deviation: a pool may be whitelisted again
AcceptsWhitelisted(c, call) ==
    CASE call.op = "createRiskPool"   -> call.on \in c.white \ c.agentPools
      [] call.op = "newSalesPolicy"   -> c.factory /\ ~ c.policy
      [] call.op \in {"setSignerInPolicy", "approvePremiumInPolicy", "addWhiteList"} -> c.policy
      [] call.op = "addCurrency"      -> call.on \notin c.currencies
      [] OTHER                        -> TRUE

\* the contract does not revert
Accepts(c, call) ==
    CASE call.op = "addPoolWhiteList" -> call.on \notin c.white
      [] call.op = "createRiskPool"   -> call.on \in c.white \ c.agentPools
      [] call.op = "newSalesPolicy"   -> c.factory /\ ~ c.policy
      [] call.op \in {"setSignerInPolicy", "approvePremiumInPolicy", "addWhiteList"} -> c.policy
      [] call.op = "addCurrency"      -> call.on \notin c.currencies
      [] OTHER                        -> TRUE

Applied(c, call) ==
    CASE call.op = "addPoolWhiteList" -> [c EXCEPT !.white = @ \cup {call.on}]
      [] call.op = "setSalesPolicyFactory" -> [c EXCEPT !.factory = TRUE]
      [] call.op \in {"setMCR", "setMLR"} -> c
      [] call.op = "createRiskPool"   -> [c EXCEPT !.riskPools[call.on] = @ + 1,
                                                   !.agentPools = @ \cup {call.on}]
      [] call.op = "createRewarder"   -> [c EXCEPT !.rewarders[call.on] = @ + 1]
      [] call.op = "grantRole"        -> [c EXCEPT !.claimRoles = @ \cup {call.on}]
      [] call.op = "newSalesPolicy"   -> [c EXCEPT !.policy = TRUE]
      [] call.op = "addCurrency"      -> [c EXCEPT !.currencies = @ \cup {call.on}]
      [] call.op = "setUserDetails"   -> [c EXCEPT !.stake[call.on] = 1, !.lp[call.on] = @ + 1]
      [] OTHER                        -> [c EXCEPT !.other = @ \cup {call.op}]

\* a transaction that reverts changes nothing
Executed(c, call) == IF Accepts(c, call) THEN Applied(c, call) ELSE c

-----------------------------------------------------------------------------
Idle == [running |-> FALSE, next |-> 1, waiting |-> FALSE]

Init ==
    /\ job \in Jobs
    /\ chain = Deployed
    /\ pending = <<>>
    /\ process = Idle
    /\ past = [runs |-> 0, crashes |-> 0, ended |-> 0]

Run ==
    /\ ~ process.running
    /\ past.runs < MaxRuns
    /\ process' = [Idle EXCEPT !.running = TRUE]
    /\ past' = [past EXCEPT !.runs = @ + 1]
    /\ UNCHANGED <<job, chain, pending>>

\* the state an estimate is made on
Seen == IF job.estimates = "pending" THEN FoldLeft(Executed, chain, pending) ELSE chain

\* the sales policy is read from the latest block
Sendable(call) ==
    /\ Accepts(Seen, call)
    /\ call.op = "addWhiteList" => chain.policy

AtCall == process.running /\ ~ process.waiting /\ process.next <= Len(job.calls)

Send ==
    /\ AtCall
    /\ Sendable(job.calls[process.next])
    /\ pending' = Append(pending, job.calls[process.next])
    /\ process' = [process EXCEPT !.next = @ + 1, !.waiting = job.waits]
    /\ UNCHANGED <<job, chain, past>>

\* the estimate throws, and the script ends
Refused ==
    /\ AtCall
    /\ ~ Sendable(job.calls[process.next])
    /\ process' = Idle
    /\ UNCHANGED <<job, chain, pending, past>>

Ended ==
    /\ process.running /\ ~ process.waiting
    /\ process.next > Len(job.calls)
    /\ process' = Idle
    /\ past' = [past EXCEPT !.ended = @ + 1]
    /\ UNCHANGED <<job, chain, pending>>

\* the first pending transaction is mined; a script that waits for it goes on, or
\* throws if it reverted (what an earlier run sent is ahead of what it waits for)
Mine ==
    /\ pending # <<>>
    /\ chain' = Executed(chain, Head(pending))
    /\ pending' = Tail(pending)
    /\ process' = IF ~ process.waiting \/ Len(pending) > 1 THEN process
                   ELSE IF Accepts(chain, Head(pending))
                          THEN [process EXCEPT !.waiting = FALSE] ELSE Idle
    /\ UNCHANGED <<job, past>>

Crash ==
    /\ process.running
    /\ past.crashes < MaxCrashes
    /\ process' = Idle
    /\ past' = [past EXCEPT !.crashes = @ + 1]
    /\ UNCHANGED <<job, chain, pending>>

Next == Run \/ Send \/ Refused \/ Ended \/ Mine \/ Crash

\* the chain mines what is pending, and a process that is not killed gets on; the
\* operator need not run the script
Fairness == WF_vars(Mine) /\ WF_vars(Send \/ Refused \/ Ended)

Spec == Init /\ [][Next]_vars /\ Fairness

-----------------------------------------------------------------------------
\* However often the setup is run, killed and run again while its transactions
\* are still pending: no pool gets a second risk pool or a second Rewarder, which
\* would take the place of the first.
NothingReplaced ==
    \A p \in Pools : chain.riskPools[p] <= 1 /\ chain.rewarders[p] <= 1

\* The setup never gets beyond whitelisting the pools again: the payout requests,
\* the sales policy and the premium pool are left unconfigured.
SecondHalfNeverRuns ==
    job.name = "setup" =>
       /\ past.ended = 0
       /\ ~ chain.policy /\ chain.currencies = {} /\ chain.other = {}

\* Once all is mined, a setup that was run and not killed has configured the pools, if
\* its node estimates on the pending block.  (On the latest block, it stops at
\* the first pool whose whitelisting is not mined yet.)
PoolsConfigured ==
    /\ chain.claimRoles = Pools
    /\ \A p \in Pools : chain.riskPools[p] = 1 /\ chain.rewarders[p] = 1

SetupReaches ==
    job.name = "setup" /\ job.estimates = "pending" =>
       <>[](past.runs > 0 /\ past.crashes = 0 => PoolsConfigured)

\* The stakes set-details writes are backed by as many LP tokens, unless it is run
\* again, which mints a second time for a stake it writes over.
StakeBacked ==
    \A u \in Users :
       /\ chain.stake[u] <= chain.lp[u]
       /\ past.runs <= 1 => chain.lp[u] = chain.stake[u]

=============================================================================
