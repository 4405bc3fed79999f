---------------------------- MODULE WalletScript ----------------------------
(***************************************************************************)
(* getEncodeFunctionData.js: the configuration of the contracts, sent      *)
(* through the MultiSigWallet.  For each call the script submits a trans-  *)
(* action as the first signer, confirms it, and has the second signer      *)
(* confirm and execute it; every step waits until it is mined and throws   *)
(* if it did not go as expected.  The index of the next transaction is     *)
(* written into the script and counted up by it: the wallet is compared    *)
(* with it in the event of the submission, and nowhere else.               *)
(*                                                                         *)
(* No run comes to the end: from ethers 6 on no call can be built, and     *)
(* before it the third cannot.                                             *)
(*                                                                         *)
(* Meanwhile the other signers use the wallet, and what it calls may come  *)
(* back into it.  The process may die, and be started again.               *)
(***************************************************************************)
EXTENDS MultiSigWallet

CONSTANTS
    First, Second, \* the signers whose keys the script has
    EthersVersion, \* of the ethers library it runs with: 6 in package.json
    FirstIdx,      \* the index the script starts from (27)
    MaxRuns,       \* bound: runs of the script
    MaxActs,       \* bound: what others do
    MaxCrashes     \* bound: runs that die

ASSUME KeysAssumption ==
    /\ First \in Signers /\ Second \in Signers /\ First # Second
    /\ numConfirmationsRequired = 2 \* one is not enough, and the script has two
    /\ 0 \in Values
    /\ FirstIdx \in Nat

ASSUME EthersAssumption == EthersVersion \in {5, 6}

VARIABLES
    data,   \* what each transaction of the wallet calls, and for whom
    script, \* the running script, see Idle
    past    \* how often it was run and died, and what others did

scriptVars == <<wallet, stack, data, script, past>>

-----------------------------------------------------------------------------
(* What the script goes through.                                           *)

Call(op, checked) == [op |-> op, checked |-> checked]

CapitalAgentCalls ==
    <<Call("addPoolWhiteList", TRUE), Call("setSalesPolicyFactory", FALSE),
      Call("setMLR", FALSE), Call("setMCR", FALSE)>>

PolicyCalls ==
    <<Call("addCurrency", FALSE)>>
    \o [idx \in 1 .. 2 |-> Call("addProtocol", FALSE)]
    \o <<Call("newSalesPolicy", FALSE)>>

PremiumCalls ==
    <<Call("addWhiteList", FALSE), Call("approvePremiumInPolicy", FALSE),
      Call("setSignerInPolicy", FALSE)>>

Calls == CapitalAgentCalls \o PolicyCalls \o PremiumCalls \o <<Call("createRiskPool", TRUE)>>

\* the steps of a call; a checked one also tries what must not work yet
Steps(call) ==
    IF call.checked THEN <<"submit", "confirm", "execute", "again", "second">>
                    ELSE <<"submit", "confirm", "second">>

\* getBigNumber makes their parameters, with a function that ethers has from version 6
TakesBigNumber == {"setMLR", "setMCR", "createRiskPool"}

\* with ethers 6 no call has data and target: a contract has no field `address`
Builds(call) == EthersVersion = 5 /\ call.op \notin TakesBigNumber

Nobody == [run |-> 0, call |-> 0]

Idle == [running |-> FALSE, call |-> 1, step |-> 1, txIdx |-> FirstIdx,
         waiting |-> FALSE, undisturbed |-> TRUE, threw |-> FALSE]

ScriptInit ==
    /\ Init
    /\ data = [i \in TxIds |-> Nobody]
    /\ script = Idle
    /\ past = [runs |-> 0, acts |-> 0, crashes |-> 0]

\* deviation: the index is read from the wallet
StartAtLength ==
    /\ ~ script.running /\ past.runs < MaxRuns
    /\ script' = [Idle EXCEPT !.running = TRUE, !.txIdx = wallet.length]
    /\ past' = [past EXCEPT !.runs = @ + 1]
    /\ UNCHANGED <<wallet, stack, data>>

\* `undisturbed`: the wallet is as the script takes it to be, and no call is running
\* whose failure would make it another
Start ==
    /\ ~ script.running /\ past.runs < MaxRuns
    /\ script' = [Idle EXCEPT !.running = TRUE,
                              !.undisturbed = wallet.length = FirstIdx /\ stack = <<>>]
    /\ past' = [past EXCEPT !.runs = @ + 1]
    /\ UNCHANGED <<wallet, stack, data>>

AtStep(step) ==
    /\ script.running /\ ~ script.waiting /\ stack = <<>>
    /\ script.call <= Len(Calls)
    /\ Steps(Calls[script.call])[script.step] = step

\* deviation: the index is not counted up
AdvancedUncounted ==
    IF script.step < Len(Steps(Calls[script.call]))
      THEN [script EXCEPT !.step = @ + 1, !.waiting = FALSE]
      ELSE [script EXCEPT !.call = @ + 1, !.step = 1, !.waiting = FALSE]

Advanced ==
    IF script.step < Len(Steps(Calls[script.call]))
      THEN [script EXCEPT !.step = @ + 1, !.waiting = FALSE]
      ELSE [script EXCEPT !.call = @ + 1, !.step = 1, !.txIdx = @ + 1, !.waiting = FALSE]

Thrown == [script EXCEPT !.running = FALSE, !.waiting = FALSE, !.threw = TRUE]

Sent == [run |-> past.runs, call |-> script.call]

\* deviation: the event's index is not compared
SubmitUncompared ==
    /\ AtStep("submit") /\ Builds(Calls[script.call])
    /\ SubmitTransaction(0, 0)
    /\ data' = [data EXCEPT ![wallet.length] = Sent]
    /\ script' = Advanced
    /\ UNCHANGED past

\* deviation: the script waits for its index instead
SubmitInTurn ==
    /\ AtStep("submit") /\ Builds(Calls[script.call]) /\ wallet.length = script.txIdx
    /\ SubmitTransaction(0, 0)
    /\ data' = [data EXCEPT ![wallet.length] = Sent]
    /\ script' = Advanced
    /\ UNCHANGED past

\* the transaction is in the wallet also if its index is another
Submit ==
    /\ AtStep("submit") /\ Builds(Calls[script.call])
    /\ SubmitTransaction(0, 0)
    /\ data' = [data EXCEPT ![wallet.length] = Sent]
    /\ script' = IF wallet.length = script.txIdx THEN Advanced ELSE Thrown
    /\ UNCHANGED past

\* the throw comes before anything is sent
Unbuilt ==
    /\ AtStep("submit") /\ ~ Builds(Calls[script.call])
    /\ script' = Thrown
    /\ UNCHANGED <<wallet, stack, data, past>>

Confirmable(signer) ==
    /\ txExists(script.txIdx) /\ notExecuted(script.txIdx)
    /\ signer \notin wallet.isConfirmed[script.txIdx]

Confirm ==
    /\ AtStep("confirm")
    /\ \/ /\ ConfirmTransaction(First, script.txIdx, FALSE)
          /\ script' = Advanced
       \/ /\ ~ Confirmable(First)
          /\ script' = Thrown
          /\ UNCHANGED vars
    /\ UNCHANGED <<data, past>>

\* expected to fail with "cannot execute tx"
Execute ==
    /\ AtStep("execute")
    /\ \/ /\ ExecuteTransaction(script.txIdx)
          /\ script' = [script EXCEPT !.waiting = TRUE]
       \/ /\ ~ CanCall(wallet, script.txIdx)
          /\ script' = IF notExecuted(script.txIdx) THEN Advanced ELSE Thrown
          /\ UNCHANGED vars
    /\ UNCHANGED <<data, past>>

\* expected to fail with "tx already confirmed"
ConfirmAgain ==
    /\ AtStep("again")
    /\ script' = IF notExecuted(script.txIdx) THEN Advanced ELSE Thrown
    /\ UNCHANGED <<wallet, stack, data, past>>

ConfirmSecond ==
    /\ AtStep("second")
    /\ \/ /\ ConfirmTransaction(Second, script.txIdx, TRUE)
          /\ script' = [script EXCEPT !.waiting = TRUE]
       \/ /\ ~ Confirmable(Second)
          /\ script' = Thrown
          /\ UNCHANGED vars
    /\ UNCHANGED <<data, past>>

Crash ==
    /\ script.running /\ past.crashes < MaxCrashes
    /\ script' = [script EXCEPT !.running = FALSE, !.waiting = FALSE]
    /\ past' = [past EXCEPT !.crashes = @ + 1]
    /\ UNCHANGED <<wallet, stack, data>>

\* the script's own call comes back, and not one made inside it
Answered == script.waiting /\ Len(stack) = 1

\* deviation: the script does not look whether its call failed
CallReturnsUnchecked ==
    /\ \/ CallSucceeds
       \/ CallFails
    /\ script' = IF Answered THEN Advanced ELSE script
    /\ UNCHANGED <<data, past>>

\* the call that must not work yet has worked, or the right one has, or a call has
\* failed
CallReturns ==
    /\ \/ /\ CallSucceeds
          /\ script' = IF ~ Answered THEN script
                       ELSE IF Steps(Calls[script.call])[script.step] = "second"
                              THEN Advanced ELSE Thrown
       \/ /\ CallFails
          /\ script' = IF Answered THEN [Thrown EXCEPT !.undisturbed = FALSE] ELSE script
    /\ UNCHANGED <<data, past>>

OtherSigners == Signers \ {First, Second}

\* anyone else uses the wallet, between the script's transactions or from inside a
\* call that the wallet makes
Others ==
    /\ past.acts < MaxActs
    /\ \/ \E value \in Values, sent \in Values : SubmitTransaction(value, sent)
       \/ \E sent \in Values : Receive(sent)
       \/ \E signer \in OtherSigners, i \in TxIds :
             \/ \E execute \in BOOLEAN : ConfirmTransaction(signer, i, execute)
             \/ RevokeConfirmation(signer, i)
       \/ \E i \in TxIds : ExecuteTransaction(i)
    /\ past' = [past EXCEPT !.acts = @ + 1]
    /\ script' = [script EXCEPT !.undisturbed = @ /\ ~ script.running]
    /\ UNCHANGED data

ScriptStep == Submit \/ Unbuilt \/ Confirm \/ Execute \/ ConfirmAgain \/ ConfirmSecond

ScriptNext == Start \/ ScriptStep \/ Crash \/ CallReturns \/ Others

\* what is sent is mined, and what the wallet calls returns
ScriptFairness == WF_scriptVars(ScriptStep) /\ WF_scriptVars(CallReturns)

ScriptSpec == ScriptInit /\ [][ScriptNext]_scriptVars /\ ScriptFairness

-----------------------------------------------------------------------------
(* What the operator relies on.                                            *)

ByScript(i) == data[i] # Nobody

\* The script's keys confirm nothing but what the script itself submitted: whatever
\* the others submit in between, and however far an earlier run got, no transaction
\* of someone else is taken for its own.
OwnCallsOnly ==
    \A i \in TxIds :
       wallet.isConfirmed[i] \cap {First, Second} # {} => ByScript(i)

\* The calls take effect in the order of the script: one that Second confirmed was
\* executed, and so was everything before it, or is running now.
InOrder ==
    \A i \in TxIds :
       Second \in wallet.isConfirmed[i] =>
          \A k \in 1 .. data[i].call :
             \E j \in TxIds : /\ data[j] = [run |-> data[i].run, call |-> k]
                              /\ wallet.transactions[j].executed

\* Run again after it died, the script does not repeat what it had done: only one
\* run ever finds its index, and gets to confirm.
OneRunConfirms ==
    \A i, j \in TxIds :
       First \in wallet.isConfirmed[i] \cap wallet.isConfirmed[j] => data[i].run = data[j].run

\* A run that finds its index in the wallet, is let alone by the others and whose
\* calls succeed throws at a call it cannot build, and nowhere else; all the calls
\* before that one are executed, and stay so.
UndisturbedGetsThere ==
    script.threw /\ script.undisturbed =>
       /\ script.call <= Len(Calls) /\ ~ Builds(Calls[script.call])
       /\ \A k \in 1 .. script.call - 1 :
             \E i \in TxIds : /\ data[i] = [run |-> past.runs, call |-> k]
                              /\ wallet.transactions[i].executed

\* Every run stops.
RunEnds == script.running ~> ~ script.running
=============================================================================
