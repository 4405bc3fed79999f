------------------------------ MODULE OdosSwap ------------------------------
(***************************************************************************)
(* OdosSwapManager and OdosSwapService: swaps of a user's tokens to USDm   *)
(* through the Odos router.  A swap reads the router's allowance, raises   *)
(* it if it is too small and waits for that, asks the Odos API for a quote *)
(* and then for a transaction, sends it and waits for it.  Whatever throws *)
(* on the way ends the swap.                                               *)
(*                                                                         *)
(* Swaps of the same user run side by side; between any two awaits of one, *)
(* another may go on.  The API may fail, or not answer at all: the service *)
(* sets no timeout.  A transaction may revert, because the price moved.    *)
(***************************************************************************)
EXTENDS Naturals, Sequences, FiniteSets, Functions

CONSTANTS
    Swaps,     \* calls of swapTokenToUSDm
    Tokens,    \* the tokens swapped
    MaxAmount, \* bound: amount of a swap
    MaxFaults  \* bound: failures of the API and transactions that revert

ASSUME SwapsAssumption ==
    /\ IsFiniteSet(Swaps) /\ Tokens # {}
    /\ MaxAmount \in Nat \ {0}

Amounts == 1 .. MaxAmount

VARIABLES
    ethers,    \* the version of the library: a number has lt in 5, and not in 6
    swap,      \* the calls, see Asked
    allowance, \* what the router may take of each token, at the latest block
    pending,   \* transactions sent and not mined, in order
    spent,     \* what the router took of each token
    faults     \* how often the API failed, a transaction reverted, the process died

vars == <<ethers, swap, allowance, pending, spent, faults>>

\* `alone`: no other swap of the token was under way at the same time
Unasked == [at |-> "unasked", token |-> CHOOSE t \in Tokens : TRUE, amount |-> 1, alone |-> TRUE]

Asked(token, amount, alone) ==
    [at |-> "allowance", token |-> token, amount |-> amount, alone |-> alone]

InFlight == {"allowance", "approve", "approving", "quote", "assemble", "send", "mining"}

Init ==
    /\ ethers \in {5, 6}
    /\ swap = [p \in Swaps |-> Unasked]
    /\ allowance \in [Tokens -> 0 .. MaxAmount]
    /\ pending = <<>>
    /\ spent = [t \in Tokens |-> 0]
    /\ faults = 0

Goes(p, from, to) ==
    /\ swap[p].at = from
    /\ swap' = [swap EXCEPT ![p].at = to]

-----------------------------------------------------------------------------
\* swaps of the token under way, or whose transactions are
UnderWay(t) ==
    {p \in Swaps : /\ swap[p].token = t
                   /\ \/ swap[p].at \in InFlight
                      \/ \E k \in DOMAIN pending : pending[k].by = p}

swapTokenToUSDm(p, token, amount) ==
    /\ swap[p].at = "unasked"
    /\ swap' = [q \in Swaps |->
                  IF q = p THEN Asked(token, amount, UnderWay(token) = {})
                  ELSE IF q \in UnderWay(token) THEN [swap[q] EXCEPT !.alone = FALSE]
                  ELSE swap[q]]
    /\ UNCHANGED <<ethers, allowance, pending, spent, faults>>

\* allowance(), and the comparison, which throws with version 6
ReadAllowance(p) ==
    /\ Goes(p, "allowance", IF ethers = 6 THEN "failed"
                            ELSE IF allowance[swap[p].token] < swap[p].amount THEN "approve"
                            ELSE "quote")
    /\ UNCHANGED <<ethers, allowance, pending, spent, faults>>

\* deviation: the approval is not waited for
ApproveUnawaited(p) ==
    /\ Goes(p, "approve", "quote")
    /\ pending' = Append(pending, [by |-> p, op |-> "approve"])
    /\ UNCHANGED <<ethers, allowance, spent, faults>>

Approve(p) ==
    /\ Goes(p, "approve", "approving")
    /\ pending' = Append(pending, [by |-> p, op |-> "approve"])
    /\ UNCHANGED <<ethers, allowance, spent, faults>>

Faulty == faults < MaxFaults /\ faults' = faults + 1

getQuote(p) ==
    /\ \/ Goes(p, "quote", "assemble") /\ UNCHANGED faults
       \/ Goes(p, "quote", "failed") /\ Faulty
    /\ UNCHANGED <<ethers, allowance, pending, spent>>

getSwapTransaction(p) ==
    /\ \/ Goes(p, "assemble", "send") /\ UNCHANGED faults
       \/ Goes(p, "assemble", "failed") /\ Faulty
    /\ UNCHANGED <<ethers, allowance, pending, spent>>

Covered(p) == allowance[swap[p].token] >= swap[p].amount

\* sendTransaction; an estimate of the gas throws if the router cannot take the
\* amount, but the API's transaction may name the gas
SendSwap(p) ==
    /\ \/ /\ Goes(p, "send", "mining")
          /\ pending' = Append(pending, [by |-> p, op |-> "swap"])
       \/ /\ ~ Covered(p)
          /\ Goes(p, "send", "failed")
          /\ UNCHANGED pending
    /\ UNCHANGED <<ethers, allowance, spent, faults>>

\* deviation: nobody learns
LearnsNothing(p, from, to) == UNCHANGED swap

\* the process that waits for the transaction learns how it went; a process that
\* died does not
Learns(p, from, to) == swap' = [swap EXCEPT ![p].at = IF @ = from THEN to ELSE @]

\* approve sets the allowance, whatever is left of it
MineApproval(p) ==
    /\ pending # <<>> /\ Head(pending) = [by |-> p, op |-> "approve"]
    /\ pending' = Tail(pending)
    /\ allowance' = [allowance EXCEPT ![swap[p].token] = swap[p].amount]
    /\ Learns(p, "approving", "quote")
    /\ UNCHANGED <<ethers, spent, faults>>

\* deviation: a swap that succeeded is sent again
MineSwapTwice(p) ==
    /\ pending # <<>> /\ Head(pending) = [by |-> p, op |-> "swap"]
    /\ Covered(p)
    /\ allowance' = [allowance EXCEPT ![swap[p].token] = @ - swap[p].amount]
    /\ spent' = [spent EXCEPT ![swap[p].token] = @ + swap[p].amount]
    /\ pending' = Tail(pending)
    /\ Learns(p, "mining", "send")
    /\ UNCHANGED <<ethers, faults>>

\* the router takes the amount, or the transaction reverts
MineSwap(p) ==
    /\ pending # <<>> /\ Head(pending) = [by |-> p, op |-> "swap"]
    /\ pending' = Tail(pending)
    /\ \/ /\ Covered(p)
          /\ allowance' = [allowance EXCEPT ![swap[p].token] = @ - swap[p].amount]
          /\ spent' = [spent EXCEPT ![swap[p].token] = @ + swap[p].amount]
          /\ Learns(p, "mining", "done")
          /\ UNCHANGED faults
       \/ /\ IF Covered(p) THEN Faulty ELSE UNCHANGED faults
          /\ Learns(p, "mining", "failed")
          /\ UNCHANGED <<allowance, spent>>
    /\ UNCHANGED ethers

\* the process dies, and with it every swap it had under way
Crash ==
    /\ Faulty
    /\ \E p \in Swaps : swap[p].at \in InFlight
    /\ swap' = [p \in Swaps |-> IF swap[p].at \in InFlight THEN [swap[p] EXCEPT !.at = "failed"]
                                ELSE swap[p]]
    /\ UNCHANGED <<ethers, allowance, pending, spent>>

Ask(p) == \E token \in Tokens, amount \in Amounts : swapTokenToUSDm(p, token, amount)

\* what needs no answer of the API
Own(p) == ReadAllowance(p) \/ Approve(p) \/ SendSwap(p)

Mine == \E p \in Swaps : MineApproval(p) \/ MineSwap(p)

Next ==
    \/ \E p \in Swaps : Ask(p) \/ Own(p) \/ getQuote(p) \/ getSwapTransaction(p)
    \/ Mine
    \/ Crash

\* the process gets on and the chain mines; the API need not answer
Fairness == WF_vars(Mine) /\ \A p \in Swaps : WF_vars(Own(p))

Spec == Init /\ [][Next]_vars /\ Fairness

-----------------------------------------------------------------------------
AmountsOf(ps) == SumFunctionOnSet([p \in Swaps |-> swap[p].amount], ps)

\* The router takes of a token what the swaps that succeeded asked for, and what
\* those whose process died had sent: never the amount of one twice, and nothing for
\* a swap that failed.
SpentAsAsked ==
    \A t \in Tokens :
       LET ofToken == {p \in Swaps : swap[p].token = t}
       IN  /\ spent[t] >= AmountsOf({p \in ofToken : swap[p].at = "done"})
           /\ spent[t] <= AmountsOf({p \in ofToken : swap[p].at \in {"done", "failed"}})
           /\ faults = 0 => spent[t] = AmountsOf({p \in ofToken : swap[p].at = "done"})

\* A swap fails only if the API or the transaction did, or another swap of the token
\* was under way: what is left of older allowances does not matter.
LoneSwapSucceeds ==
    \A p \in Swaps : swap[p].at = "failed" => \/ faults > 0 \/ ethers = 6
                                              \/ ~ swap[p].alone

\* Swaps of one token that run at the same time overwrite and use up each other's
\* allowance, and all but one of them may fail.  If nothing else goes wrong, one
\* succeeds - with version 5 of the library; with version 6 none does, since each
\* throws when it compares the allowance.
SomeoneSwaps ==
    faults = 0 =>
       \A t \in Tokens :
          LET asked == {p \in Swaps : swap[p].token = t /\ swap[p].at # "unasked"}
          IN  asked # {} /\ UnderWay(t) = {} =>
                 (ethers = 5 <=> \E p \in asked : swap[p].at = "done")

\* A swap waits for ever only for the API, which it gives no time to answer in.
WaitsOnlyForApi ==
    \A p \in Swaps :
       <>[](swap[p].at \in {"unasked", "done", "failed", "quote", "assemble"})
=============================================================================
