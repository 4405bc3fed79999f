--------------------------- MODULE MultiSigWallet ---------------------------
(***************************************************************************)
(* MultiSigWallet: the wallet that holds ADMIN_ROLE of the other contracts.*)
(* A signer submits a call, the signers confirm it or take a confirmation  *)
(* back, and anyone makes the wallet execute it once enough have confirmed.*)
(*                                                                         *)
(* The call goes to code the wallet does not know, and that code may call  *)
(* the wallet again, on behalf of anyone, before it returns: executeTrans- *)
(* action is not guarded against reentrancy.  `stack` holds the calls that *)
(* are running, the innermost last, each with the state to go back to if   *)
(* it fails: `require(success)` then reverts the execution it belongs to.  *)
(***************************************************************************)
EXTENDS Naturals, FiniteSets, Sequences, SequencesExt

CONSTANTS
    Signers,                   \* signers
    numConfirmationsRequired,
    Values,                    \* bound: the amounts of ETH
    MaxTransactions,           \* bound: transactions ever submitted
    MaxDepth,                  \* bound: calls running at a time
    MaxBalance                 \* bound: ETH sent to the wallet beyond the calls'

ASSUME WalletAssumption ==
    /\ IsFiniteSet(Signers)
    /\ numConfirmationsRequired \in 1 .. Cardinality(Signers)
    /\ Values \subseteq Nat
    /\ MaxTransactions \in Nat

TxIds == 0 .. MaxTransactions - 1

VARIABLES
    wallet, \* the state of the contract, see WalletType
    stack   \* the running calls, each with the state before it

vars == <<wallet, stack>>

TransactionType == [value : Nat, executed : BOOLEAN, numConfirmations : Nat]

WalletType ==
    [length       : 0 .. MaxTransactions,        \* transactions.length
     transactions : [TxIds -> TransactionType],
     isConfirmed  : [TxIds -> SUBSET Signers],   \* the signers mapped to true
     balance      : Nat,                         \* the wallet's ETH
     calls        : [TxIds -> Nat]]              \* how often a call was made

TypeOK ==
    /\ wallet \in WalletType
    /\ stack \in Seq(WalletType)

Blank == [value |-> 0, executed |-> FALSE, numConfirmations |-> 0]

Init ==
    /\ wallet = [length       |-> 0,
                 transactions |-> [i \in TxIds |-> Blank],
                 isConfirmed  |-> [i \in TxIds |-> {}],
                 balance      |-> 0,
                 calls        |-> [i \in TxIds |-> 0]]
    /\ stack = <<>>

-----------------------------------------------------------------------------
txExists(i) == i < wallet.length
notExecuted(i) == ~ wallet.transactions[i].executed
confirmations(i) == wallet.transactions[i].numConfirmations

\* the ETH of the call comes with its submission; a call without may come with
\* any amount
SubmitTransaction(value, sent) ==
    /\ value > 0 => sent = value
    /\ wallet.length < MaxTransactions
    /\ wallet' = [wallet EXCEPT
                    !.transactions[wallet.length] = [Blank EXCEPT !.value = value],
                    !.length = @ + 1,
                    !.balance = @ + sent]
    /\ UNCHANGED stack

Receive(sent) ==
    /\ wallet.balance + sent <= MaxBalance
    /\ wallet' = [wallet EXCEPT !.balance = @ + sent]
    /\ UNCHANGED stack

Confirmed(i, signer) ==
    [wallet EXCEPT !.isConfirmed[i] = @ \cup {signer},
                   !.transactions[i].numConfirmations = @ + 1]

\* deviation: executed is not set before the call
CalledUnmarked(w, i) ==
    [w EXCEPT !.balance = @ - w.transactions[i].value, !.calls[i] = @ + 1]

\* executed is set, and the ETH sent, before the call runs
Called(w, i) ==
    [w EXCEPT !.transactions[i].executed = TRUE,
              !.balance = @ - w.transactions[i].value,
              !.calls[i] = @ + 1]

CanCall(w, i) ==
    /\ ~ w.transactions[i].executed
    /\ w.transactions[i].numConfirmations >= numConfirmationsRequired
    /\ w.balance >= w.transactions[i].value

\* _executeTransaction on state w; `before` is what a failure goes back to
StartCall(w, i, before) ==
    /\ Len(stack) < MaxDepth
    /\ CanCall(w, i)
    /\ wallet' = Called(w, i)
    /\ stack' = Append(stack, before)

\* confirmTransaction, which may execute the call in the same breath
ConfirmTransaction(signer, i, execute) ==
    /\ txExists(i) /\ notExecuted(i)
    /\ signer \notin wallet.isConfirmed[i]
    /\ IF execute /\ confirmations(i) + 1 >= numConfirmationsRequired
         THEN StartCall(Confirmed(i, signer), i, wallet)
         ELSE wallet' = Confirmed(i, signer) /\ UNCHANGED stack

ExecuteTransaction(i) ==
    /\ txExists(i)
    /\ StartCall(wallet, i, wallet)

\* deviation: a confirmation can be taken back after the execution
RevokeAnyConfirmation(signer, i) ==
    /\ txExists(i)
    /\ signer \in wallet.isConfirmed[i]
    /\ wallet' = [wallet EXCEPT !.transactions[i].numConfirmations = @ - 1,
                                !.isConfirmed[i] = @ \ {signer}]
    /\ UNCHANGED stack

RevokeConfirmation(signer, i) ==
    /\ txExists(i) /\ notExecuted(i)
    /\ signer \in wallet.isConfirmed[i]
    /\ confirmations(i) > 0
    /\ wallet' = [wallet EXCEPT !.transactions[i].numConfirmations = @ - 1,
                                !.isConfirmed[i] = @ \ {signer}]
    /\ UNCHANGED stack

\* the innermost call comes back: done, or failed
CallSucceeds ==
    /\ stack # <<>>
    /\ stack' = Front(stack)
    /\ UNCHANGED wallet

CallFails ==
    /\ stack # <<>>
    /\ stack' = Front(stack)
    /\ wallet' = Last(stack)

Next ==
    \/ \E value \in Values, sent \in Values : SubmitTransaction(value, sent)
    \/ \E sent \in Values : Receive(sent)
    \/ \E signer \in Signers, i \in TxIds :
          \/ \E execute \in BOOLEAN : ConfirmTransaction(signer, i, execute)
          \/ RevokeConfirmation(signer, i)
    \/ \E i \in TxIds : ExecuteTransaction(i)
    \/ CallSucceeds
    \/ CallFails

Spec == Init /\ [][Next]_vars

-----------------------------------------------------------------------------
(* What the signers rely on.                                               *)

\* numConfirmations counts the signers that stand by a transaction, each once,
\* through confirmations, revocations and failed executions that undo the
\* confirmation made in the same call.
ConfirmationsCounted ==
    \A i \in TxIds :
       wallet.transactions[i].numConfirmations = Cardinality(wallet.isConfirmed[i])

\* An executed transaction has the confirmations it needed, for good: neither a
\* revocation that races the execution, nor one made from inside the call, takes
\* one away.
ExecutedIsConfirmed ==
    \A i \in TxIds :
       wallet.transactions[i].executed =>
          Cardinality(wallet.isConfirmed[i]) >= numConfirmationsRequired

\* A transaction is called at most once, also by a call that comes back into the
\* wallet while it runs, and if the call failed it can be called again.
CalledOnce ==
    \A i \in TxIds :
       wallet.calls[i] = IF wallet.transactions[i].executed THEN 1 ELSE 0

=============================================================================
