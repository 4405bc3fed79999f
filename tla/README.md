# SSIP/SSRP contracts: TLA+ models, checks and proofs

This directory specifies, in TLA+, the contracts of `src/contracts` - Uno Re's
insurance pools, the book of their capital, the policies sold against it and the
wallet that administers them - and the programs around them: the scripts that deploy,
configure and fill the contracts, and the client that swaps tokens through Odos.
`PROJECT.json` maps every definition to the lines it models. TLC checks small instances;
TLAPS proves the most important properties for every value of the constants.

## 1. The system

A **staker** puts a currency into a pool; the pool's vault (`RiskPool`) holds it and
mints LP tokens. The staked capital backs **policies**: a `SalesPolicy` NFT each, sold
against a quote signed off-chain. When a claim is accepted, the vault pays it and the
price of the LP token falls, so that every staker bears a share. Stakers earn rewards
per block from a `Rewarder`. They leave in two steps: a withdraw request, and the
withdrawal once `lockTime` has passed; a request can be cancelled. The `CapitalAgent`
keeps the capital of all pools and the coverage of all policies, and vetoes
withdrawals (MCR, SCR), sales (MLR) and payouts (coverage).

An **operator** deploys all this with hardhat-deploy (`deploy/`, and two older
directories), configures it (`scripts/setup-script.js`, or through the wallet with
`scripts/getEncodeFunctionData.js`) and carries stakes over (`scripts/set-details.js`).
`odos_swap` swaps a user's tokens.

### Components

| Component | State | Operations | Modelled |
|---|---|---|---|
| `SingleSidedInsurancePool` | `userInfo`, reward accumulator, lock and start times, switches | enter, request, withdraw, cancel, harvest, roll over, migrate, emergency withdrawal, LP callback, settlePayout, admin | `SSIP`, `EthPool` |
| `RiskPool`, `RiskPoolERC20` | LP balances and supply, withdraw requests and their total, LP price, currency, reserve | enter, request, leave, cancel, claim, migrate, emergency, transfer | `RiskPool` |
| `CapitalAgent` | capital and pending capital per pool, capital per currency, coverage sold, paid claims, ratios | reports of pools, sales, expiry, claims, admin | `CapitalAgent`, `CapitalSystem` |
| `SalesPolicy` | policies, NFT owners, spent quotes | buy, mark claimed, expire, transfer, pause | `SalesPolicy` |
| `Rewarder` | currency, pause | onReward, withdraw, pause | in `SSIP` |
| `MultiSigWallet` | transactions, confirmations | submit, confirm, revoke, execute | `MultiSigWallet` |
| `PayoutRequest` | asserted claims, UMA switch, claims DAO and guardian council with their lock | request, oracle's callback, settle, council's setters | `PayoutRequest` |
| `EscalationManager` | parameters UMA's oracle reads | setters | no |
| `PremiumPool` | three buckets of premium per currency | collect, deposit, burn, withdraw | see the plan |
| `SingleSidedReinsurancePool`, `SyntheticSSIP`, `SyntheticSSRP`, the USDM pool | as the insurance pool, less or more | | see the plan |
| `ExchangeAgent` | whitelist, slippage | conversions | external rate `usdcRate` |
| factories, `SalesPolicyFactory`, `EIP712MetaTransaction`, libraries | | | no |
| deployment scripts (`deploy`, `scripts/deploy`, `scripts/deploy_old`) | records per network, addresses held by a run | look up, deploy, record; tags, skip | `DeployScripts`, `Deployment` |
| `setup-script.js`, `set-details.js` | position in the script, transactions pending | send, wait, throw | `TxScripts` |
| `getEncodeFunctionData.js` | `txIdx`, position in the script | submit, confirm, execute, confirm as the second signer | `WalletScript` |
| `OdosSwapManager`, `OdosSwapService` | allowance of the router, swaps under way | allowance, approve, quote, assemble, send, wait | `OdosSwap` |
| `airdrop.js`, other scripts | | | no |

### How they interact

A transaction is atomic, so an external function, with every call it makes, is one
action, unless it runs code of somebody else on the way: the wallet's calls, and the
payment of a claim in ETH. What interleaves are transactions: of several stakers, of
policy holders, of the bot, of the admin, and time. Contracts call each other
synchronously:

* pool -> vault (every movement of the currency and of LP tokens), vault -> pool
  (`lpTransfer`, when LP tokens are transferred);
* pool -> `CapitalAgent` (`SSIPStaking`, `SSIPWithdraw`, `SSIPPolicyCaim`,
  `updatePoolWithdrawPendingCapital`, `checkCapitalByMCR`);
* `CapitalAgent` -> `SalesPolicy` (`markToClaim`, `updatePolicyExpired`),
  `SalesPolicy` -> `CapitalAgent` (`policySale`);
* pool -> `Rewarder` -> pool (`onReward` reads the accumulator);
* `PayoutRequest` -> pool (`settlePayout`) and `CapitalAgent` (`updatePolicyStatus`),
  UMA's oracle -> `PayoutRequest` (`assertionResolvedCallback`);
* the wallet -> any contract, which may call the wallet again;
* the vault -> the payee of a claim, when the currency is ETH: `settlePayout` carries no
  `nonReentrant`, so the payee's code may use the pool before the claim has set the price.

Off the chain, the programs await transactions and answers, so between any two awaits
of one anything else may happen: other signers use the wallet, other swaps use the
allowance, the process dies and is started again with its transactions still pending.
The scripts read addresses from the records hardhat-deploy keeps; nothing else is
kept between two runs, and the scripts do not look at what an earlier run did.

### What is hard

* The same stake is kept in four accounts by four contracts, in two units (LP tokens
  and currency) whose rate moves with every payout.
* A withdrawal takes two transactions; payouts, transfers, cancellations and further
  requests come between.
* The vault near `MIN_LP_CAPITAL`: it pays, burns and reports other amounts than asked.
* Integer divisions at every conversion.
* Claimed, expired and closed by the admin: a policy may end in several ways at once.
* Reward debts that must survive all of the above.
* Claims that are asserted, resolved and settled in different transactions, while the
  oracle is declared failed and working again.
* A claim paid in ETH, whose payee acts between the payment and the new price.
* Exits that carry different guards: paused, killed, locked.
* Calls of the multi-signature wallet that come back into it, or fail.
* Runs of a script that die between two transactions, or between a contract's creation
  and its record, and are repeated.
* An index written into a script, while others use the wallet it indexes.
* Transactions not waited for: what a gas estimate sees depends on the node.
* Several swaps over one allowance; an API that may never answer.

`PROJECT.json` lists these, line by line, under `hazards`.

## 2. Modules

    SalesPolicy         policies, and the clock
    CapitalAgent        book and capital rules        EXTENDS SalesPolicy
    CapitalSystem       agent + policies + arbitrary pools   EXTENDS CapitalAgent
    RiskPool            vault and LP token
    SSIP                pool + vault + agent + policies + Rewarder
                                                      EXTENDS RiskPool, CapitalAgent
    EthPool             the pool, with the settlement of a claim in two steps
                                                      EXTENDS SSIPProperties
    PayoutRequest       claims, in front of the pool  EXTENDS SSIP
    MultiSigWallet      the admin wallet
    WalletScript        a script that drives the wallet   EXTENDS MultiSigWallet
    DeployScripts       the deployment scripts, as data
    Deployment          hardhat-deploy running a directory of them
    Bundle              what a deployment promises (abstract)
    TxScripts           setup, set-details, and the contracts they act on
    OdosSwap            swaps side by side

`RiskPool`, `SalesPolicy` and `CapitalAgent` have one operator per function of the
contract: its unprimed conjuncts are the `require`s, checked subtractions and divisors
of the function, its primed ones the assignments. A conjunct that fails makes the
action impossible, as a revert undoes the transaction. `SSIP` composes them: each
action is an external function of the pool with everything it calls. `CapitalSystem`
instead lets every registered pool report anything at any time, so what holds there
does not depend on the pools being correct.

Properties are in modules of their own: `VaultProperties` (vault), `CoverProperties`
(policies, for both systems), `CapitalProperties`, `SSIPProperties`; the other modules
end with theirs. Operators whose comment says *deviation* are variants of the
definition after them with a plausible mistake, and are used in no specification; they
show that each property notices a mistake (`mutants` in `PROJECT.json`).

### State and code

* `balances`, `totalSupply`, `withdrawRequestPerUser`, `totalWithdrawPending`,
  `lpPriceUno`, `MIN_LP_CAPITAL` are the vault's variables; `cryptoBalance` is what the
  currency says the vault holds (the code's local variable of that name).
* `poolInfo` ... `claimedAmount` are the agent's; mappings are functions, addresses
  members of small sets. `usdcRate` stands for the price feed.
* `getPolicy`, `ownerOf`, `usedHash` are `SalesPolicy`'s. A signed quote is an element of
  the constant `Quotes`: signatures, assets and protocol names are abstracted to which
  quotes exist.
* `userInfo`, `accUnoPerShare`, `lastRewardBlock`, ... are the pool's; `uno` is what the
  stakers own themselves, so that currency is neither created nor lost.
* One clock `now`, in `SalesPolicy`, stands for `block.timestamp` and `block.number`. Several actions may
  happen at the same time, as transactions of a block do.
* `PayoutRequest` is the pool's only CLAIM_PROCESSOR in its specification: `PayDirectly`,
  `Resolve` and `SettleAssertionForUmaFailed` call `SettlePayout` of `SSIP`. `oracle` is
  what UMA's oracle knows of an assertion (asserted, disputed, found true or false), and
  external; `settlements` counts payments of an assertion, for the properties only.
  `Members` are the accounts that become guardian council or claims DAO.
* In `EthPool`, `payouts` are the calls of `policyClaim` whose payee's code is running,
  the innermost last: `BeginPayout` is `settlePayout` up to the payment
  (`RiskPool.sol:114-130`), `EndPayout` the price and the report to the agent
  (`RiskPool.sol:135-136`, `SingleSidedInsurancePool.sol:494`). In between anyone may stake,
  request, withdraw, cancel, transfer, buy and expire policies, or be paid another claim.
* `wallet` is the storage of `MultiSigWallet`; `stack` the calls running, each with the
  storage a failure goes back to.
* `DeployScripts` has one definition per file: its tags, the records it looks up, and
  the contracts it deploys with what each is given. `Deployment` takes a directory of
  these as a parameter. An address is the number of the creation; `recorded` is
  `deployments/<network>`; `run` is the process with the addresses its scripts hold.
  Values of the environment are one version number, which a run reads when it starts.
* In `TxScripts`, `job` is the script, `chain` as much of the contracts' state as the
  success of one of its calls depends on, `pending` the transactions of the operator's
  account, mined in order. `job.estimates` says whether the node estimates gas on the
  latest or on the pending block, or whether the script names the gas and nothing is
  estimated.
* In `WalletScript`, `script.txIdx` is the script's `this.txIdx`; `data` says which run
  and call of the script a transaction of the wallet is, if any. `EthersVersion` decides
  which calls the script can build (`Builds`); at one it cannot, it throws (`Unbuilt`).
* In `OdosSwap`, `swap[p].at` is the await a call of `swapTokenToUSDm` is at.

Integers are unbounded: Solidity 0.8 reverts on overflow, and every subtraction that
could go below zero is a guard. That the guards are all there is `TypeOK`: a figure that
is not in `Nat` would be a subtraction the code checks and the model does not.

## 3. What is checked

Nothing in the contracts runs by itself: every step is somebody's transaction, and the
code promises no one that others will act, so their runs assume no fairness and state
no liveness. That a step somebody wants is *possible* is stated with `ENABLED`
(`CancelAlwaysPossible`). The programs do promise to get on, and their fairness is this:

* `deploy`: a run that is not killed takes its next step, and the operator, who deploys
  with a command of `package.json`, eventually runs all scripts again; kills and changes
  of parameters are finitely many.
* `scripts`: what is pending is mined, and a process goes on. Nobody has to run a script.
* `wallet`: the script goes on, and what the wallet calls returns (gas is finite).
* `odos`: the chain mines and the process goes on; the API need not answer, since
  `OdosSwapService` gives axios no timeout.

Deadlock is not checked: the clock, runs and faults are bounded, and each model may stop
when they have run out.

| Run | Shows | Bounds |
|---|---|---|
| `exits` | two stakers leave by request and withdrawal, migration and emergency withdrawal, in a pool that is killed and revived: requests, totals, reserve, solvency, and who is paid | 2 stakers of 2 units, a policy of 2; `ONE` = 3 with amounts 1 and 2, so divisions round; no stake or request is made once capital, supply or what is pending has reached 3 (`MaxCapital`); time 3 with lock 1, so that a migration finds a request locked and unlocked |
| `rewards` | no sequence of stakes, transfers, requests, withdrawals, harvests, rollovers and claims creates rewards; the agent's figure stays what the vault holds; no account goes below zero | 2 stakers of 1 unit, multiplier 3, precision 2, 2 units in the Rewarder, `ONE` = 2, capital up to 4, a policy of 2 and claims of 1 and 2, so that claims are cut to what the vault can pay; time 3 |
| `operate` | a paused pool holds, under everything else an admin does: parameters, the Rewarder, overwritten accounts | 1 staker with 2 units, capital up to 3, `ONE` = 2; exits are in `exits` |
| `eth` | what a payee's code finds and leaves while its claim is being paid; that the stakes are the LP tokens and requests wait their time all along | 2 stakers of 2 units, `ONE` = 3, capital up to 4, a policy of 2; time 3 with lock 1; 2 payouts at once (`MaxNested`), of 1 and 2 |
| `book` | the totals of the agent, what pools pay together on a policy while the rate moves, and the ends of policies | 2 pools that come and go, amounts 1 and 2, capital up to 2, two policies of 1 and 2 in one quote, 2 holders, 2 rates with `RATE` = 2, time 3. The pools share a currency, and the admin does not overwrite the book (`OrdinarySpec`): for several currencies and with the overrides, what no total depends on is proved (`CapitalProofs`) |
| `claims` | an assertion is settled by the callback or left to the DAO, not both, and only if true | 2 assertions on a policy of 2, 2 accounts for the two roles, time 2: claim and dispute, then resolution and expiry |
| `wallet` | the wallet's guarantees and the script's, and that every run of the script stops | 4 signers, 2 required; 2 runs of the script, 1 kill, 4 acts of others, 8 transactions, calls nested twice; ethers 5, so that two calls are sent and the third cannot be built; the script's first index is 1 (27 in the code), so that others can be ahead of it or behind |
| `deploy` | what is on record belongs together, and is up to date in the end | all three directories, on chains that skip and that do not; 1 change of parameters, 1 kill, 1 run by tag |
| `scripts` | what the setup configures and what it never reaches; which stakes are backed | 3 runs, 2 kills, all calls of the setup on both kinds of estimate; 3 users |
| `odos` | swaps side by side: what is spent, which fail, and what they wait for | 3 swaps of up to 2 units of 2 tokens, any allowance left from before, 1 fault, versions 5 and 6 of the library |

The bounds are small because amounts matter only through comparisons and rounding: two
stakers are enough for one to hurt another; `ONE` is 3 because with 1 nothing rounds and
with the amounts 1 and 2 payouts then give prices that are no fraction of them; the clock
needs one step for the lock, one for an expiry and one more. In the wallet a call can
only nest in the call of another transaction (`executed` is set first), so a depth of two
reaches every kind of nesting; of payouts, two are one inside the other. The programs keep
nothing between runs, so two runs and one kill reach every overlap of a run with what an
earlier one left pending.

### Where the code disagrees with what it says

Two runs end in a counterexample to something a comment promises:

* `cancel`: `cancelWithdrawRequest` releases LP tokens from a figure kept in currency
  (`SingleSidedInsurancePool.sol:453`); after a payout it may revert.
* `again`: `settleAssertionForUmaFailed` records nothing (`PayoutRequest.sol:150`), so
  the claims DAO can settle the same assertion again.

Met while modelling, and in the models as the code has it:

* After a payout the agent's pending capital may exceed the capital, and the checked
  subtraction in `_checkCapitalByMCRAndSCR` (`CapitalAgent.sol:451`) blocks every
  withdrawal, though the vault can pay. Withdrawing part of a request leads there as
  well: the request is deleted and its rest stays pending capital for good.
* The oracle's callback reverts when the payout does (`PayoutRequest.sol:146`), for one
  when other claims have used the coverage, and the assertion stays unresolved.
* `Rewarder.onReward` wants the reward strictly below the accumulated reward
  (`Rewarder.sol:75`), so a staker without reward debt, as the first one is, cannot
  harvest, and a withdraw request, which harvests first, reverts as well.
* `setup-script.js:130` whitelists the pools a second time, which `CapitalAgent.sol:161`
  refuses: its second half never runs (`SecondHalfNeverRuns`), and a second run of the
  script stops at its first call.
* `set-details.js`, run again, mints LP tokens twice for a stake it writes over
  (`StakeBacked`). Its data file is not in the repository.
* `getEncodeFunctionData.js` never comes to its end. With ethers 5 it throws at its third
  call, `setMLR`, since `getBigNumber` uses `ethers.parseUnits` (`:84`,
  `shared/utilities.js:18`), with the two calls before it executed; with ethers 6 at the
  first, since a contract has no `address` there (`:46`). Any later run finds its index
  taken, submits one more transaction and throws (`UndisturbedGetsThere`,
  `OneRunConfirms`, `OwnCallsOnly`). The records of `deployments/sepolia` it reads
  (`:17-22`) are not in the repository; the model takes them as given.
* A claim of a pool of ETH runs the payee's code before the price falls
  (`RiskPool.sol:119-136`), and `settlePayout` is not `nonReentrant`. What leaves the
  vault then is paid at the old price and what comes in is minted at it, so a payee who
  is a staker with an unlocked request does not share in the claim, and the price set
  afterwards makes the others bear his part. The accounts stand it: book, coverage and
  solvency are right when the last payout ends (`eth`). That a claim be borne by all
  alike is not stated, since it is false.
* `scripts/deploy_old/CapitalAgent.js` comes before the exchange agent it looks up, so the
  directory needs a run by tag first.
* A `CapitalAgent` behind its proxy is never told of a new exchange agent:
  `PoolsShareAgent` excepts it by name, and `FullRunIsCurrent` is about contracts without
  a proxy, so no property here says that a proxied contract knows the agent in use.
* `OdosSwapManager.ts:67` approves over whatever allowance is left. A token that refuses
  to change one non-zero allowance into another, as USDT does, would make the swap throw;
  the model's token accepts it.
* `emergencyWithdraw` pays the whole stake and burns only the LP tokens under a request
  (`RiskPool.sol:146`): the others stay with the user, and in the supply.
* `package.json` asks for ethers 6, while some programs use the interface of ethers 5.
  In `OdosSwapManager.ts:66` the comparison then throws and no swap is ever sent
  (`SomeoneSwaps` covers both versions). `airdrop.js` sends nothing with either: at `:701`
  it throws with ethers 6 and at `:716` with ethers 5. It is not modelled.

## 4. What is proved

Proof modules: `Arithmetic` (rounding of products and divisions, sums over finite sets),
`AgentLemmas` (each operation of the agent and of the policies keeps types and
invariants), `CapitalProofs`, `SSIPProofs` (with the same lemmas about the vault,
`PayoutRequest` in front of the pool, and `EthPool`), `MultiSigProofs`, `DeploymentProofs`, `TxProofs`,
`OdosProofs`.

The assumptions are those the modules name, and TLC evaluates them in the runs:

* constants are naturals and units are not zero (`OneAssumption`, `TimeAssumption`,
  `SalesAssumption`, `CapitalAssumption`, `SystemAssumption`, `PoolAssumption`,
  `RequestAssumption`, `SwapsAssumption`, `NestedAssumption`);
* users, pools, signers, swaps and the keys of a data file are finitely many, as what a
  chain or a process has touched is (`UsersAssumption`, `PoolsAssumption`,
  `WalletAssumption`, `SwapsAssumption`, `DetailsAssumption`);
* the script holds the keys of two signers, and two confirmations are required
  (`KeysAssumption`): with more, the script could execute nothing. The library is
  ethers 5 or 6 (`EthersAssumption`);
* a name in a directory of deployment scripts stands for one contract, deployed at one
  place (`DirectoryAssumption`, `OnceAssumption`), and what a contract behind a proxy is
  given is behind a proxy itself, but for two names (`ProxiesAssumption`). TLC evaluates
  them on the three directories of the repository.

### Sums

Several properties compare a total with a sum over users, pools, policies or swaps. The
provers cannot instantiate the library's induction over finite sets, so `Arithmetic` does
without: if a fact about sums failed for a subset of a finite set, it would fail for a
minimal one, since strict inclusion of these subsets is well-founded; and the sum of the
minimal one is its last step. In this way: a sum can be taken apart at any element
(`SumPick`), changes by what one entry changes by (`SumUpdate`), is additive, does not
depend on what is outside or zero, and bounds its parts (`SumSubset`).

### Results

* **`CapitalSystem`**, whatever pools report and the admin overwrites: types,
  `ClaimsWithinCoverage`, `FullyPaidIsClosed`, `TokenIsActive`. The three are inductive
  only together, and with `UnsoldIsBlank`: ids not yet sold hold no policy, no token and
  no claim. A closed policy has no token, which is what makes a second closing revert;
  a policy that still exists is worth more than has been claimed.
* **`CapitalSystem` without overwritten figures** (`OrdinarySpec`): `CapitalIsSumOfPools`
  and `UtilizedIsActiveCover`. Each needs a fact about what is *not* there: a pool that is
  not listed has no capital, or `addPool` would set to zero a figure the sum still counts
  (`UnlistedIsEmpty`); and while no sales policy is set nothing is covered, or
  `setPolicy` would forget coverage (`NoCoverWithoutPolicy`).
* **`SSIP`** with every admin function: types, `PendingWithinStake`,
  `ClaimsWithinCoverage`, `LedgerSums`, `ReserveKept`, `ShortfallOnlyWhenEmptied`,
  `PausedPoolHolds`, `KilledPoolPaysStakers`. `PendingWithinStake` is inductive with the
  types, by the order of comparisons in each operation of the vault, and `LedgerSums` with
  both: each operation changes the entry of one user, or of two, by what it changes the
  total by. The other four are action properties on that invariant.
  * `ShortfallOnlyWhenEmptied`: every operation divides in the vault's favour, but for
    one: a withdrawal the vault is too small for burns what the available capital is
    worth, rounded down, and leaves less than the price of one token (`BurnNoShortfall`).
    Such rests may add up over several withdrawals: the property bounds each step, not
    their sum. A migration, which pays a request and moves the rest, adds nothing
    (`MigrateDust`), and a payout leaves no shortfall at all, since it sets the price by a
    division. Emergency withdrawals and overwritten accounts are excepted by name.
  * `ReserveKept`: of a migration, what is paid and what is moved together leave the
    reserve (`MigrateReserve`).
* **`SSIP` in operation** (`OperatingSpec`: no migration, emergency withdrawal or
  overwritten account): `StakeIsLp`, `CapitalIsVault`, `WithdrawalWaits`,
  `RewardsOnlyFromEmission`. The invariant adds that a user's request is not younger than
  `lastWithdrawTime`, and that the pool is registered. Outside operation the first two are
  false: an emergency withdrawal is not reported to the agent, `setUserDetails` sets the
  stake at will.
  * `RewardsOnlyFromEmission`: user by user, what a step pays and leaves owed is bounded
    by what was owed, what the stake earned in the step, and one unit of rounding
    (`UserWithin`); the sum over the users (`SumBound`) is bounded by the emission because
    the stakes add up to the supply that `updatePool` divides by. This needs `StakeIsLp`
    and `LedgerSums` together. It holds at any price of the LP token: the debt of a new
    stake is rounded down twice, by less than one unit in all (`EntryEarned`). A user
    whose debt is above the reward counts as owed nothing. Counted negatively the sum
    would not be bounded step by step: once a claim has moved the price, the debt of a new
    stake can exceed what its rounded tokens earned, and with a request open a withdrawal
    or a transfer forgives the excess, since it sets the debt anew without a reward.
* **`EthPool`**, for any depth of nesting: types, `BookIsVaultAndPayouts`,
  `ClaimsWithinCoverage`, `PayoutLeavesNoShortfall`. A step of the payee's code moves vault
  and book alike, by the lemmas about the accounts of `SSIP` (`PublicEth`); the payment
  moves only the vault and is entered in `payouts`, and the end of a payout moves the book
  by that entry. The price at the end is divided by the supply there is *then*, from the
  vault read again (`RiskPool.sol:135`), so it is one the vault can honour whatever was
  minted or burned meanwhile.
* **`PayoutRequest`** with `SSIP` in operation: `ClaimsImplementPool` says that the pool
  with claims in front of it behaves as `SSIP` in operation, so that everything proved of
  `OperatingSpec` holds with it (`ClaimsKeepStake` draws one such consequence); types,
  `SettledOnce`, `OnlyTruthIsPaid`. The invariant says of every assertion that it names a
  policy and an amount once it was made, and that what was paid, settled or left to the
  DAO was found true: it is what makes the payment of an assertion a payout of `SSIP`.
* **`MultiSigWallet`**: types, `ConfirmationsCounted`, `ExecutedIsConfirmed`,
  `CalledOnce`. The invariant says `Good` of the current state *and of every state on the
  stack*: a failing call puts one of those back.
* **`WalletScript`**, with either version of ethers: four properties of the script, about
  confirmations made long after the submission they belong to. `ScriptImplementsWallet`
  (`ScriptSpec => Spec`) carries the wallet's theorems over to them; it holds because the
  script has no access to the wallet but its functions, and is no result by itself.
  * `OwnCallsOnly`: past the step of submission `txIdx` is a transaction of the script,
    and so it is in the states on the stack, since a call that fails brings confirmations
    back.
  * `InOrder` and `OneRunConfirms`: `RunInv` says which of the script's transactions are
    in the wallet and executed at each step of a run, in the current state and in every
    state that a failing call can restore (`States`). While the script waits for its own
    call, that call is on the stack, executed in all the states above it; so a failure of a
    call *inside* it cannot take back what the script goes on from.
  * `UndisturbedGetsThere`: a run that is let alone throws at a call it cannot build and
    nowhere else, with the calls before it executed. `CalmInv` gives, step by step, the
    length of the wallet, the confirmations such a run finds and which of its transactions
    are executed. The run must start while no call of another is running: one that fails
    later takes back what the script submitted meanwhile.
* **`Deployment`**, for any directory of scripts: types; `Promise`, the refinement of
  `Bundle`, in which a contract comes to life after those it is given; and three
  properties of what is on record.
  * `OneSystem`: the invariant ties the addresses a run holds, and the creation it has
    sent, to the records: as long as parameters stand, a record is never replaced by
    another creation, and this is why a run may go on with addresses it looked up long
    ago.
  * `PoolsShareAgent`: what a proxied contract was given is what is on record, because what
    is behind a proxy keeps its address; the invariant says so of the addresses a run
    holds and of the creation it has sent as well.
  * `FullRunIsCurrent`: in a directory in order a run never replaces a contract after
    something it is given to was deployed, so what the run has passed stays up to date
    until its end. The invariant follows the scripts a run has gone through, those it
    still has to, and the number of creations. In a directory out of order it is
    that a run which created nothing found everything up to date.
* **`TxScripts`**, for any number of users, runs and crashes, and whatever is still pending
  when the next run begins.
  * `NothingReplaced` and `SecondHalfNeverRuns`: the estimate of the first
    `createRiskPool` passes only if the first pool is whitelisted, on the chain or among
    what is pending; from then on `addPoolWhiteList` for it is refused, so this run stops
    at its twentieth call and all later ones at their first. `SetupInv` says so with what
    an estimate can see (`EthKnown`), and that until a run passes there no Rewarder was
    made or sent for (`NotMade`); risk pools are created once because the agent refuses a
    second one.
  * `StakeBacked`: in the first run every user's call is sent once (`WrittenOnce`): those
    whose turn has not come are neither written nor pending (`Unwritten`).
* **`OdosSwap`**, for any number of swaps side by side: `SpentAsAsked`,
  `LoneSwapSucceeds`, `SomeoneSwaps`. What the router took are the amounts of a set of
  swaps: those that succeeded and some that died, none of which has a transaction pending
  (`SpentInv`). A swap that is alone has the allowance to itself from its approval on
  (`AloneInv`). Several overwrite and use up each other's, but not all of them lose:
  whenever the allowance changes, by an approval or by a swap, the one that changed it is
  covered or done (`HopeInv`).

Only model-checked: the liveness properties, and `CancelAlwaysPossible`, which uses
`ENABLED`. Types are proved rather than run, except in `rewards`, where a type
also says that no subtraction goes below zero. `FullyPaidIsClosed` is proved only.

## 5. What is not modelled

* Signatures, meta-transactions and nonces; who may call (an action is taken by whoever
  holds the role), and the lock of newly granted roles.
* The currency beyond a ledger. In `SSIP` it is a token whose transfers call nobody, and an
  external function is one step. ETH does call the payee:
  * of a claim, in `settlePayout`, which carries no `nonReentrant`: this is `EthPool`;
  * of a withdrawal, an emergency withdrawal and a migration, which hold the pool's
    `nonReentrant` lock, so that the payee can enter none of the pool's functions that
    carry it (nor transfer LP tokens, as `lpTransfer` does). A claim settled from inside
    such a payment is not stopped by the lock and not modelled. Inside
    `leaveFromPending` it comes out as the withdrawal followed by the claim, but the
    agent's capital rules see the claim first; inside `migrateLP`, which pays the request
    before it reads what is left, it would come between the two.
  * An `emergencyWithdraw` or `migrate` from inside the payment of a claim is left out of
    `EthPool` too: the admin allows them, and the first is not reported to the agent in
    any case.
* Currency sent to the vault directly, outside staking.
* The Rewarder's currency when it differs from the staked one, as in a pool of ETH.
* A list of `rollOverReward` that names an address twice: the model takes a set.
* The exchange: rates change arbitrarily within `Rates`.
* `PremiumPool`, `SingleSidedReinsurancePool`, the synthetic pools and the USDM pool,
  beyond what scripts call of them.
* The implementation behind a deployed proxy, and upgrades; gas and prices.
* `transfer-ownership-script.js`: it attaches the pools with the ABI of the Rewarder, so
  that its first read, `SSIPETH.rewarder()`, throws before any transaction.
  `airdrop.js` throws before any transaction as well. `sample-script.js`,
  `salesPolicyExcuteDirectly.js` and the remaining scripts send sample transactions
  against fixed addresses or hold constants.
* `getTokenPrice` and `getSupportedTokens` of the Odos service, which only read.

## 6. Plan

1. Done: `SSIP` with its vault, agent, policies and Rewarder; the agent with arbitrary
   pools; the wallet; proofs of the safety properties that are in reach.
2. Done: `PayoutRequest` in front of the pool, and that it implements the pool in operation.
3. Done: the programs around the contracts: deployment, with its abstract specification
   and proofs; the script that drives the wallet; setup and set-details; Odos swaps. With
   them came fairness, crashes and reruns.
4. `PremiumPool`: buckets against holdings, currencies added and removed; that every unit
   collected is distributed at most once.
5. `SingleSidedReinsurancePool` and the synthetic pools: the two-step withdrawal again,
   with an abstract specification of it (a request, a wait, one payment) that all of them
   implement.
6. Role management with its lock; meta-transactions and their nonces.
7. Done: proofs about totals, the order of the wallet script, full deployments, the
   operator's scripts and swaps; the pool's solvency and its rewards; every exit of a
   staker; claims paid in ETH, with the payee's code in between.
8. Proofs: the refinements of 5.
