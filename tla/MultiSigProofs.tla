--------------------------- MODULE MultiSigProofs ---------------------------
(***************************************************************************)
(* Theorems about MultiSigWallet, for any number of signers, transactions  *)
(* and nested calls.  A failed call puts an old state back, so what is     *)
(* invariant must hold of the wallet and of every state kept on the stack. *)
(* The last part is about the wallet with the script that drives it.       *)
(***************************************************************************)
EXTENDS WalletScript, FiniteSetTheorems, TLAPS

\* What holds of one transaction of a state of the wallet.
TransactionOK(w, i) ==
    /\ w.transactions[i].numConfirmations = Cardinality(w.isConfirmed[i])
    /\ w.transactions[i].executed =>
         Cardinality(w.isConfirmed[i]) >= numConfirmationsRequired
    /\ w.calls[i] = IF w.transactions[i].executed THEN 1 ELSE 0
    /\ i >= w.length => w.isConfirmed[i] = {} /\ w.transactions[i] = Blank

Good(w) == w \in WalletType /\ \A i \in TxIds : TransactionOK(w, i)

Inv == Good(wallet) /\ stack \in Seq({w \in WalletType : Good(w)})

-----------------------------------------------------------------------------
(* The changes of one transaction.                                         *)


\* A confirmation of someone who has not confirmed keeps the count.
LEMMA ConfirmGood ==
    ASSUME Good(wallet), NEW i \in TxIds, NEW signer \in Signers,
           i < wallet.length, ~ wallet.transactions[i].executed,
           signer \notin wallet.isConfirmed[i]
    PROVE  Good(Confirmed(i, signer))
  <1> DEFINE w == Confirmed(i, signer)
             tx == wallet.transactions[i]
             who == wallet.isConfirmed[i]
  <1>1. wallet \in WalletType /\ TransactionOK(wallet, i)
    BY DEF Good
  <1>2. tx \in TransactionType /\ who \in SUBSET Signers
    BY <1>1 DEF WalletType
  <1>3. IsFiniteSet(who)
    BY <1>2, FS_Subset, WalletAssumption
  <1>4. Cardinality(who \cup {signer}) = Cardinality(who) + 1
    BY <1>3, FS_AddElement
  <1>5. /\ w.length = wallet.length /\ w.balance = wallet.balance /\ w.calls = wallet.calls
        /\ w.transactions = [wallet.transactions EXCEPT
                               ![i] = [tx EXCEPT !.numConfirmations = @ + 1]]
        /\ w.isConfirmed = [wallet.isConfirmed EXCEPT ![i] = who \cup {signer}]
    BY <1>1 DEF Confirmed, WalletType
  <1>6. w \in WalletType
    <2>1. [tx EXCEPT !.numConfirmations = @ + 1] \in TransactionType
      BY <1>2 DEF TransactionType
    <2>2. /\ w.transactions \in [TxIds -> TransactionType]
          /\ w.isConfirmed \in [TxIds -> SUBSET Signers]
      BY <1>1, <1>2, <1>5, <2>1 DEF WalletType
    <2>3. w = [wallet EXCEPT !.isConfirmed = w.isConfirmed, !.transactions = w.transactions]
      BY <1>1 DEF Confirmed, WalletType
    <2> HIDE DEF w
    <2> QED  BY <1>1, <2>2, <2>3 DEF WalletType
  <1>7. ASSUME NEW j \in TxIds PROVE TransactionOK(w, j)
    <2>1. CASE j = i
      <3>1. /\ w.transactions[i] = [tx EXCEPT !.numConfirmations = @ + 1]
            /\ w.isConfirmed[i] = who \cup {signer}
        BY <1>1, <1>5 DEF WalletType
      <3>2. /\ w.transactions[i].numConfirmations = tx.numConfirmations + 1
            /\ w.transactions[i].executed = tx.executed
        BY <1>2, <3>1 DEF TransactionType
      <3>3. i \in Nat /\ wallet.length \in Nat
        BY <1>1, WalletAssumption DEF TxIds, WalletType
      <3> HIDE DEF w
      <3> QED  BY <1>1, <1>4, <1>5, <2>1, <3>1, <3>2, <3>3 DEF TransactionOK
    <2>2. CASE j # i
      <3>1. /\ w.transactions[j] = wallet.transactions[j]
            /\ w.isConfirmed[j] = wallet.isConfirmed[j]
        BY <1>1, <1>5, <2>2 DEF WalletType
      <3>2. TransactionOK(wallet, j)
        BY DEF Good
      <3> HIDE DEF w
      <3> QED  BY <1>5, <3>1, <3>2 DEF TransactionOK
    <2> QED  BY <2>1, <2>2
  <1> QED  BY <1>6, <1>7 DEF Good

\* The start of a call keeps the confirmations, and counts the call.
LEMMA CalledGood ==
    ASSUME NEW w, Good(w), NEW i \in TxIds, CanCall(w, i)
    PROVE  Good(Called(w, i))
  <1> DEFINE n == Called(w, i)
             tx == w.transactions[i]
  <1>1. w \in WalletType /\ TransactionOK(w, i)
    BY DEF Good
  <1>2. tx \in TransactionType /\ w.calls[i] \in Nat /\ w.balance \in Nat
    BY <1>1 DEF WalletType
  <1>3. tx.value \in Nat /\ w.balance - tx.value \in Nat
    BY <1>2 DEF CanCall, TransactionType
  <1>4. /\ n.length = w.length /\ n.isConfirmed = w.isConfirmed
        /\ n.balance = w.balance - tx.value
        /\ n.transactions = [w.transactions EXCEPT ![i] = [tx EXCEPT !.executed = TRUE]]
        /\ n.calls = [w.calls EXCEPT ![i] = @ + 1]
    BY <1>1 DEF Called, WalletType
  <1>5. n \in WalletType
    <2>1. [tx EXCEPT !.executed = TRUE] \in TransactionType
      BY <1>2 DEF TransactionType
    <2>2. /\ n.transactions \in [TxIds -> TransactionType] /\ n.calls \in [TxIds -> Nat]
          /\ n.balance \in Nat
      BY <1>1, <1>2, <1>3, <1>4, <2>1 DEF WalletType
    <2>3. n = [w EXCEPT !.transactions = n.transactions, !.calls = n.calls,
                        !.balance = n.balance]
      BY <1>1 DEF Called, WalletType
    <2> HIDE DEF n
    <2> QED  BY <1>1, <2>2, <2>3 DEF WalletType
  <1>6. ASSUME NEW j \in TxIds PROVE TransactionOK(n, j)
    <2>1. CASE j = i
      <3>1. /\ n.transactions[i] = [tx EXCEPT !.executed = TRUE]
            /\ n.calls[i] = w.calls[i] + 1
        BY <1>1, <1>4 DEF WalletType
      <3>2. /\ n.transactions[i].numConfirmations = tx.numConfirmations
            /\ n.transactions[i].executed
        BY <1>2, <3>1 DEF TransactionType
      <3>3. tx.numConfirmations >= numConfirmationsRequired /\ ~ tx.executed
        BY DEF CanCall
      <3>4. i < w.length
        <4>1. i >= w.length => tx = Blank
          BY <1>1 DEF TransactionOK
        <4>2. Blank.numConfirmations = 0 /\ numConfirmationsRequired > 0
          BY WalletAssumption, FS_CardinalityType DEF Blank
        <4>3. i \in Nat /\ w.length \in Nat
          BY <1>1, WalletAssumption DEF TxIds, WalletType
        <4>4. numConfirmationsRequired \in Nat
          BY WalletAssumption, FS_CardinalityType
        <4> QED  BY <3>3, <4>1, <4>2, <4>3, <4>4
      <3>5. i \in Nat /\ w.length \in Nat
        BY <1>1, WalletAssumption DEF TxIds, WalletType
      <3> HIDE DEF n
      <3> QED  BY <1>1, <1>4, <2>1, <3>1, <3>2, <3>3, <3>4, <3>5 DEF TransactionOK
    <2>2. CASE j # i
      <3>1. /\ n.transactions[j] = w.transactions[j] /\ n.calls[j] = w.calls[j]
        BY <1>1, <1>4, <2>2 DEF WalletType
      <3>2. TransactionOK(w, j)
        BY DEF Good
      <3> HIDE DEF n
      <3> QED  BY <1>4, <3>1, <3>2 DEF TransactionOK
    <2> QED  BY <2>1, <2>2
  <1> QED  BY <1>5, <1>6 DEF Good

\* A revocation by someone who has confirmed keeps the count.
LEMMA RevokeGood ==
    ASSUME Good(wallet), NEW i \in TxIds, NEW signer \in Signers,
           RevokeConfirmation(signer, i)
    PROVE  Good(wallet')
  <1> DEFINE tx == wallet.transactions[i]
             who == wallet.isConfirmed[i]
             w == [wallet EXCEPT !.transactions[i].numConfirmations = @ - 1,
                                 !.isConfirmed[i] = @ \ {signer}]
  <1>1. wallet \in WalletType /\ TransactionOK(wallet, i)
    BY DEF Good
  <1>2. /\ tx \in TransactionType /\ who \in SUBSET Signers
        /\ i \in Nat /\ wallet.length \in Nat
    BY <1>1, WalletAssumption DEF WalletType, TxIds
  <1>3. signer \in who /\ ~ tx.executed /\ tx.numConfirmations > 0 /\ i < wallet.length
    BY DEF RevokeConfirmation, notExecuted, confirmations, txExists
  <1>4. Cardinality(who \ {signer}) = Cardinality(who) - 1
    <2>1. IsFiniteSet(who)
      BY <1>2, FS_Subset, WalletAssumption
    <2> QED  BY <1>3, <2>1, FS_RemoveElement
  <1>5. /\ w.length = wallet.length /\ w.calls = wallet.calls
        /\ w.transactions = [wallet.transactions EXCEPT
                               ![i] = [tx EXCEPT !.numConfirmations = @ - 1]]
        /\ w.isConfirmed = [wallet.isConfirmed EXCEPT ![i] = who \ {signer}]
    BY <1>1 DEF WalletType
  <1>6. w \in WalletType
    <2>1. [tx EXCEPT !.numConfirmations = @ - 1] \in TransactionType
      BY <1>2, <1>3 DEF TransactionType
    <2>2. /\ w.transactions \in [TxIds -> TransactionType]
          /\ w.isConfirmed \in [TxIds -> SUBSET Signers]
      BY <1>1, <1>2, <1>5, <2>1 DEF WalletType
    <2>3. w = [wallet EXCEPT !.transactions = w.transactions, !.isConfirmed = w.isConfirmed]
      BY <1>1 DEF WalletType
    <2> HIDE DEF w
    <2> QED  BY <1>1, <2>2, <2>3 DEF WalletType
  <1>7. ASSUME NEW j \in TxIds PROVE TransactionOK(w, j)
    <2>1. CASE j = i
      <3>1. /\ w.transactions[i] = [tx EXCEPT !.numConfirmations = @ - 1]
            /\ w.isConfirmed[i] = who \ {signer}
        BY <1>1, <1>5 DEF WalletType
      <3>2. /\ w.transactions[i].numConfirmations = tx.numConfirmations - 1
            /\ w.transactions[i].executed = tx.executed
        BY <1>2, <3>1 DEF TransactionType
      <3>3. tx.numConfirmations = Cardinality(who)
        BY <1>1 DEF TransactionOK
      <3>4. w.transactions[i].numConfirmations = Cardinality(w.isConfirmed[i])
        BY <1>4, <3>1, <3>2, <3>3
      <3>5. ~ w.transactions[i].executed /\ w.calls[i] = 0
        BY <1>1, <1>3, <1>5, <3>2 DEF TransactionOK
      <3>6. ~ (i >= w.length)
        BY <1>2, <1>3, <1>5
      <3> HIDE DEF w
      <3>7. w.calls[i] = IF w.transactions[i].executed THEN 1 ELSE 0
        BY Zenon, <3>5
      <3>8. TransactionOK(w, i)
        BY Zenon, <3>4, <3>5, <3>6, <3>7 DEF TransactionOK
      <3> QED  BY Zenon, <2>1, <3>8
    <2>2. CASE j # i
      <3>1. /\ w.transactions[j] = wallet.transactions[j]
            /\ w.isConfirmed[j] = wallet.isConfirmed[j]
            /\ w.calls[j] = wallet.calls[j] /\ w.length = wallet.length
        BY <1>1, <1>5, <2>2 DEF WalletType
      <3>2. TransactionOK(wallet, j)
        BY DEF Good
      <3> HIDE DEF w
      <3> QED  BY <3>1, <3>2 DEF TransactionOK
    <2> QED  BY <2>1, <2>2
  <1>8. wallet' = w
    BY DEF RevokeConfirmation
  <1> QED  BY <1>6, <1>7, <1>8 DEF Good

\* A new transaction has no confirmations yet.
LEMMA SubmitGood ==
    ASSUME Good(wallet), NEW value \in Nat, NEW sent \in Nat, SubmitTransaction(value, sent)
    PROVE  Good(wallet')
  <1> DEFINE i == wallet.length
             tx == [Blank EXCEPT !.value = value]
             w == [wallet EXCEPT !.transactions[wallet.length] = tx,
                                 !.length = @ + 1, !.balance = @ + sent]
  <1>1. /\ wallet \in WalletType /\ i \in Nat /\ wallet.balance \in Nat
        /\ i < MaxTransactions /\ MaxTransactions \in Nat
    BY WalletAssumption DEF Good, WalletType, SubmitTransaction
  <1>2. i \in TxIds
    BY <1>1 DEF TxIds
  <1>3. /\ tx \in TransactionType
        /\ tx.numConfirmations = 0 /\ tx.executed = FALSE
    BY DEF Blank, TransactionType
  <1>4. /\ w.length = i + 1 /\ w.calls = wallet.calls /\ w.isConfirmed = wallet.isConfirmed
        /\ w.transactions = [wallet.transactions EXCEPT ![i] = tx]
        /\ w.balance = wallet.balance + sent
    BY <1>1 DEF WalletType
  <1>5. w \in WalletType
    <2> HIDE DEF tx
    <2>1. /\ w.transactions \in [TxIds -> TransactionType]
          /\ w.length \in 0 .. MaxTransactions /\ w.balance \in Nat
      <3>1. wallet.transactions \in [TxIds -> TransactionType]
        BY <1>1 DEF WalletType
      <3>2. w.transactions \in [TxIds -> TransactionType]
        BY <1>3, <1>4, <3>1
      <3>3. w.length \in 0 .. MaxTransactions /\ w.balance \in Nat
        BY <1>1, <1>4
      <3> QED  BY <3>2, <3>3
    <2>2. w = [wallet EXCEPT !.transactions = w.transactions, !.length = w.length,
                             !.balance = w.balance]
      BY <1>1 DEF WalletType
    <2> HIDE DEF w
    <2> QED  BY <1>1, <2>1, <2>2 DEF WalletType
  <1>6. ASSUME NEW j \in TxIds PROVE TransactionOK(w, j)
    <2>1. TransactionOK(wallet, j) /\ j \in Nat
      BY WalletAssumption DEF Good, TxIds
    <2>2. CASE j = i
      <3>1. w.transactions[i] = tx
        BY <1>1, <1>2, <1>4 DEF WalletType
      <3>2. wallet.isConfirmed[i] = {} /\ wallet.transactions[i] = Blank
        BY <1>1, <2>1, <2>2 DEF TransactionOK
      <3>3. wallet.calls[i] = 0
        BY <2>1, <2>2, <3>2 DEF TransactionOK, Blank
      <3>4. Cardinality({}) = 0
        BY FS_EmptySet
      <3> HIDE DEF w, tx
      <3> QED  BY <1>1, <1>3, <1>4, <2>2, <3>1, <3>2, <3>3, <3>4 DEF TransactionOK
    <2>3. CASE j # i
      <3>1. w.transactions[j] = wallet.transactions[j]
        BY <1>1, <1>4, <2>3 DEF WalletType
      <3> HIDE DEF w
      <3> QED  BY <1>1, <1>4, <2>1, <3>1 DEF TransactionOK
    <2> QED  BY <2>2, <2>3
  <1>7. wallet' = w
    BY DEF SubmitTransaction
  <1> QED  BY <1>5, <1>6, <1>7 DEF Good

\* ETH sent to the wallet touches no transaction.
LEMMA ReceiveGood ==
    ASSUME Good(wallet), NEW sent \in Nat, Receive(sent)
    PROVE  Good(wallet')
  <1>1. /\ wallet' = [wallet EXCEPT !.balance = @ + sent]
        /\ wallet \in WalletType /\ wallet.balance + sent \in Nat
    BY DEF Receive, Good, WalletType
  <1>2. wallet' \in WalletType
    BY <1>1 DEF WalletType
  <1>3. /\ wallet'.transactions = wallet.transactions /\ wallet'.calls = wallet.calls
        /\ wallet'.isConfirmed = wallet.isConfirmed /\ wallet'.length = wallet.length
    BY <1>1 DEF WalletType
  <1> QED  BY <1>2, <1>3 DEF Good, TransactionOK

-----------------------------------------------------------------------------
(* The invariant.                                                          *)

\* A call starts from a good state and remembers one.
LEMMA StartInv ==
    ASSUME Inv, NEW w, Good(w), NEW i \in TxIds, StartCall(w, i, wallet)
    PROVE  Inv'
  <1>1. wallet' = Called(w, i) /\ stack' = Append(stack, wallet) /\ CanCall(w, i)
    BY DEF StartCall
  <1>2. Good(wallet')
    BY <1>1, CalledGood
  <1>3. wallet \in {v \in WalletType : Good(v)}
    BY DEF Inv, Good
  <1>4. stack' \in Seq({v \in WalletType : Good(v)})
    BY <1>1, <1>3 DEF Inv
  <1> QED  BY <1>2, <1>4 DEF Inv

\* The end of a call leaves a good state, also when an old one is put back.
LEMMA ReturnInv ==
    ASSUME Inv, CallSucceeds \/ CallFails
    PROVE  Inv'
  <1> DEFINE G == {v \in WalletType : Good(v)}
  <1>1. stack \in Seq(G) /\ stack # <<>> /\ stack' = Front(stack)
    BY DEF Inv, CallSucceeds, CallFails
  <1>2. Len(stack) \in Nat \ {0}
    BY <1>1
  <1>3. Last(stack) \in G
    BY <1>1, <1>2 DEF Last
  <1>4. stack' \in Seq(G)
    <2>1. stack' = [k \in 1 .. Len(stack) - 1 |-> stack[k]]
      BY <1>1 DEF Front
    <2>2. \A k \in 1 .. Len(stack) - 1 : stack[k] \in G
      BY <1>1, <1>2
    <2> HIDE DEF G
    <2> QED  BY <1>2, <2>1, <2>2
  <1>5. Good(wallet')
    BY <1>3 DEF Inv, CallSucceeds, CallFails
  <1> QED  BY <1>4, <1>5 DEF Inv

\* The invariant holds after deployment.
LEMMA InitInv == Init => Inv
  <1> SUFFICES ASSUME Init PROVE Inv
    OBVIOUS
  <1>1. wallet \in WalletType
    BY WalletAssumption DEF Init, WalletType, Blank, TransactionType
  <1>2. ASSUME NEW i \in TxIds PROVE TransactionOK(wallet, i)
    BY FS_EmptySet DEF Init, TransactionOK, Blank
  <1>3. Good(wallet)
    BY <1>1, <1>2 DEF Good
  <1>4. stack \in Seq({w \in WalletType : Good(w)})
    <2> DEFINE G == {w \in WalletType : Good(w)}
    <2> HIDE DEF G
    <2>1. stack \in Seq(G)
      BY DEF Init
    <2> USE DEF G
    <2> QED  BY <2>1
  <1> QED  BY <1>3, <1>4 DEF Inv

\* Every step keeps it.
LEMMA StepInv == Inv /\ [Next]_vars => Inv'
  <1> SUFFICES ASSUME Inv, [Next]_vars PROVE Inv'
    OBVIOUS
  <1>1. Good(wallet)
    BY DEF Inv
  <1>2. ASSUME NEW value \in Values, NEW sent \in Values, SubmitTransaction(value, sent)
        PROVE  Inv'
    <2>1. Good(wallet') /\ stack' = stack
      BY <1>1, <1>2, SubmitGood, WalletAssumption DEF SubmitTransaction
    <2> QED  BY <2>1 DEF Inv
  <1>3. ASSUME NEW sent \in Values, Receive(sent) PROVE Inv'
    <2>1. Good(wallet') /\ stack' = stack
      BY <1>1, <1>3, ReceiveGood, WalletAssumption DEF Receive
    <2> QED  BY <2>1 DEF Inv
  <1>4. ASSUME NEW signer \in Signers, NEW i \in TxIds, NEW execute \in BOOLEAN,
               ConfirmTransaction(signer, i, execute)
        PROVE  Inv'
    <2>1. Good(Confirmed(i, signer))
      BY <1>1, <1>4, ConfirmGood DEF ConfirmTransaction, txExists, notExecuted
    <2>2. \/ StartCall(Confirmed(i, signer), i, wallet)
          \/ wallet' = Confirmed(i, signer) /\ stack' = stack
      BY <1>4 DEF ConfirmTransaction
    <2>3. CASE StartCall(Confirmed(i, signer), i, wallet)
      BY <2>1, <2>3, StartInv
    <2>4. CASE wallet' = Confirmed(i, signer) /\ stack' = stack
      BY <2>1, <2>4 DEF Inv
    <2> QED  BY <2>2, <2>3, <2>4
  <1>5. ASSUME NEW signer \in Signers, NEW i \in TxIds, RevokeConfirmation(signer, i)
        PROVE  Inv'
    <2>1. Good(wallet') /\ stack' = stack
      BY <1>1, <1>5, RevokeGood DEF RevokeConfirmation
    <2> QED  BY <2>1 DEF Inv
  <1>6. ASSUME NEW i \in TxIds, ExecuteTransaction(i) PROVE Inv'
    BY <1>1, <1>6, StartInv DEF ExecuteTransaction
  <1>7. CASE CallSucceeds \/ CallFails
    BY <1>7, ReturnInv
  <1>8. CASE UNCHANGED vars
    BY <1>8 DEF vars, Inv
  <1> QED  BY <1>2, <1>3, <1>4, <1>5, <1>6, <1>7, <1>8 DEF Next

\* Every state of the wallet, and every state a failed call can put back, is
\* well-typed.
THEOREM WalletTypeCorrect == Spec => []TypeOK
  <1>1. Inv => TypeOK
    BY DEF Inv, Good, TypeOK
  <1> QED  BY InitInv, StepInv, <1>1, PTL DEF Spec

\* numConfirmations is the number of signers that confirmed.
THEOREM CountIsRight == Spec => []ConfirmationsCounted
  <1>1. Inv => ConfirmationsCounted
    BY DEF Inv, Good, TransactionOK, ConfirmationsCounted
  <1> QED  BY InitInv, StepInv, <1>1, PTL DEF Spec

\* What is executed was confirmed by enough signers, and stays so.
THEOREM ExecutionIsConfirmed == Spec => []ExecutedIsConfirmed
  <1>1. Inv => ExecutedIsConfirmed
    BY DEF Inv, Good, TransactionOK, ExecutedIsConfirmed
  <1> QED  BY InitInv, StepInv, <1>1, PTL DEF Spec

\* No call is made twice, reentrant or not.
THEOREM ExecutionIsOnce == Spec => []CalledOnce
  <1>1. Inv => CalledOnce
    BY DEF Inv, Good, TransactionOK, CalledOnce
  <1> QED  BY InitInv, StepInv, <1>1, PTL DEF Spec

-----------------------------------------------------------------------------
(* The script.                                                             *)

ScriptType ==
    [running : BOOLEAN, call : Nat \ {0}, step : Nat \ {0}, txIdx : Nat,
     waiting : BOOLEAN, undisturbed : BOOLEAN, threw : BOOLEAN]

PastType == [runs : Nat, acts : Nat, crashes : Nat]

\* What First and Second confirmed in w, d says the script submitted.
OwnedBy(d, w) ==
    \A i \in TxIds : w.isConfirmed[i] \cap {First, Second} # {} => d[i] # Nobody

\* Past its submission, the script's index is that of its own transaction.
AtOwn ==
    /\ script.running /\ script.step # 1 => script.txIdx \in TxIds /\ ByScript(script.txIdx)
    /\ script.waiting => script.step # 1

ScriptTyped ==
    /\ data \in [TxIds -> [run : Nat, call : Nat]]
    /\ script \in ScriptType
    /\ past \in PastType

ScriptInv ==
    /\ Inv
    /\ ScriptTyped
    /\ AtOwn
    /\ OwnedBy(data, wallet)
    /\ \A k \in 1 .. Len(stack) : OwnedBy(data, stack[k])

\* The index the script counts up stays a number, and so do its other places.
LEMMA AdvancedTyped ==
    ASSUME script \in ScriptType
    PROVE  /\ Advanced \in ScriptType
           /\ Advanced.txIdx = script.txIdx \/ Advanced.step = 1
           /\ Advanced.running = script.running /\ ~ Advanced.waiting
  <1> DEFINE more == script.step < Len(Steps(Calls[script.call]))
  <1>1. Advanced = IF more THEN [script EXCEPT !.step = script.step + 1, !.waiting = FALSE]
                   ELSE [script EXCEPT !.call = script.call + 1, !.step = 1,
                                       !.txIdx = script.txIdx + 1, !.waiting = FALSE]
    BY DEF Advanced
  <1> HIDE DEF more
  <1>2. /\ script.call + 1 \in Nat \ {0} /\ script.step + 1 \in Nat \ {0}
        /\ script.txIdx + 1 \in Nat /\ 1 \in Nat \ {0}
    BY DEF ScriptType
  <1>3. ASSUME NEW step \in Nat \ {0}
        PROVE  [script EXCEPT !.step = step, !.waiting = FALSE] \in ScriptType
    BY DEF ScriptType
  <1>4. ASSUME NEW call \in Nat \ {0}, NEW step \in Nat \ {0}, NEW txIdx \in Nat
        PROVE  [script EXCEPT !.call = call, !.step = step, !.txIdx = txIdx, !.waiting = FALSE]
                  \in ScriptType
    BY DEF ScriptType
  <1>5. Advanced \in ScriptType
    BY <1>1, <1>2, <1>3, <1>4
  <1>6. /\ Advanced.txIdx = script.txIdx \/ Advanced.step = 1
        /\ Advanced.running = script.running /\ ~ Advanced.waiting
    BY <1>1 DEF ScriptType
  <1> QED  BY <1>5, <1>6

LEMMA ThrownTyped ==
    ASSUME script \in ScriptType
    PROVE  Thrown \in ScriptType /\ ~ Thrown.running /\ ~ Thrown.waiting
  BY DEF Thrown, ScriptType

\* The steps after the submission are not the first.
LEMMA LaterStep ==
    ASSUME script \in ScriptType, NEW step, AtStep(step), step # "submit"
    PROVE  script.step # 1
  <1>1. Steps(Calls[script.call])[1] = "submit"
    BY DEF Steps
  <1> QED  BY <1>1 DEF AtStep

\* Each step of the script, of the others and of a running call is a step of the
\* wallet, or leaves it alone.
LEMMA ScriptStepIsWalletStep ==
    ASSUME TypeOK, script \in ScriptType, [ScriptNext]_scriptVars
    PROVE  [Next]_vars
  <1>1. ASSUME txExists(script.txIdx) PROVE script.txIdx \in TxIds
    BY <1>1, WalletAssumption DEF txExists, TxIds, TypeOK, WalletType, ScriptType
  <1>2. CASE Start \/ Unbuilt \/ Crash \/ ConfirmAgain \/ UNCHANGED scriptVars
    BY <1>2 DEF Start, Unbuilt, Crash, ConfirmAgain, scriptVars, vars
  <1>3. CASE Submit
    BY <1>3, KeysAssumption DEF Submit, Next
  <1>4. CASE Confirm
    BY <1>1, <1>4, KeysAssumption DEF Confirm, Next, ConfirmTransaction
  <1>5. CASE Execute
    BY <1>1, <1>5 DEF Execute, Next, ExecuteTransaction
  <1>6. CASE ConfirmSecond
    BY <1>1, <1>6, KeysAssumption DEF ConfirmSecond, Next, ConfirmTransaction
  <1>7. CASE CallReturns
    BY <1>7 DEF CallReturns, Next
  <1>8. CASE Others
    BY <1>8 DEF Others, Next, OtherSigners
  <1> QED  BY <1>2, <1>3, <1>4, <1>5, <1>6, <1>7, <1>8 DEF ScriptNext, ScriptStep

\* The typing of the script, and that it stands at its own transaction.
LEMMA ScriptTypedStep ==
    ASSUME TypeOK, ScriptTyped, AtOwn, [ScriptNext]_scriptVars
    PROVE  ScriptTyped' /\ AtOwn' /\ \A i \in TxIds : ByScript(i) => data'[i] # Nobody
  <1> USE DEF ScriptTyped
  <1>1. CASE Start
    <2>1. Idle \in ScriptType /\ Idle.step = 1 /\ ~ Idle.waiting
      <3>1. 1 \in Nat \ {0} /\ FirstIdx \in Nat
        BY KeysAssumption
      <3> QED  BY <3>1 DEF Idle, ScriptType
    <2>3. script' \in ScriptType /\ script'.step = 1 /\ ~ script'.waiting
      BY <1>1, <2>1 DEF Start, ScriptType
    <2>2. past' \in PastType
      BY <1>1 DEF Start, PastType
    <2> QED  BY <1>1, <2>2, <2>3 DEF Start, AtOwn, ByScript
  <1>2. CASE Submit
    <2>1. /\ wallet.length \in TxIds
          /\ data' = [data EXCEPT ![wallet.length] = Sent]
          /\ script' = IF wallet.length = script.txIdx THEN Advanced ELSE Thrown
      BY <1>2, WalletAssumption DEF Submit, SubmitTransaction, TxIds, TypeOK, WalletType
    <2>2. Sent \in [run : Nat, call : Nat] /\ Sent # Nobody
      BY DEF Sent, Nobody, ScriptType, PastType
    <2>3. data' \in [TxIds -> [run : Nat, call : Nat]] /\ data'[wallet.length] = Sent
      BY <2>1, <2>2
    <2>4. \A i \in TxIds : ByScript(i) => data'[i] # Nobody
      BY <2>1, <2>2 DEF ByScript
    <2>5. script' \in ScriptType /\ past' = past
      BY <1>2, <2>1, AdvancedTyped, ThrownTyped DEF Submit
    <2>6. AtOwn'
      BY <2>1, <2>2, <2>3, AdvancedTyped, ThrownTyped DEF AtOwn, ByScript
    <2> QED  BY <2>3, <2>4, <2>5, <2>6
  <1>3. CASE Confirm \/ Execute \/ ConfirmAgain \/ ConfirmSecond \/ CallReturns
    <2>1. data' = data /\ past' = past
      BY <1>3 DEF Confirm, Execute, ConfirmAgain, ConfirmSecond, CallReturns
    <2>2. \/ script' \in {script, Advanced, Thrown, [Thrown EXCEPT !.undisturbed = FALSE]}
          \/ script' = [script EXCEPT !.waiting = TRUE]
      BY <1>3 DEF Confirm, Execute, ConfirmAgain, ConfirmSecond, CallReturns
    <2>3. script' \in ScriptType
      <3>1. [Thrown EXCEPT !.undisturbed = FALSE] \in ScriptType
        BY ThrownTyped DEF ScriptType
      <3>2. [script EXCEPT !.waiting = TRUE] \in ScriptType
        BY DEF ScriptType
      <3> QED  BY <2>2, <3>1, <3>2, AdvancedTyped, ThrownTyped
    <2>4. script.step # 1 \/ script' = script
      <3>1. CASE Confirm \/ Execute \/ ConfirmAgain \/ ConfirmSecond
        <4>1. PICK step \in {"confirm", "execute", "again", "second"} : AtStep(step)
          BY <3>1 DEF Confirm, Execute, ConfirmAgain, ConfirmSecond
        <4>2. step # "submit"
          BY <4>1
        <4> QED  BY <4>1, <4>2, LaterStep
      <3>2. CASE CallReturns
        <4>1. Answered => script.step # 1
          BY DEF Answered, AtOwn
        <4>2. ~ Answered => script' = script
          BY <3>2 DEF CallReturns
        <4> QED  BY <4>1, <4>2
      <3> QED  BY <1>3, <3>1, <3>2
    <2>5. CASE script.step # 1 /\ script' = Advanced
      BY <2>1, <2>3, <2>5, AdvancedTyped DEF AtOwn, ByScript
    <2>6. CASE script.step # 1 /\ script' = [script EXCEPT !.waiting = TRUE]
      BY <2>1, <2>3, <2>6 DEF AtOwn, ByScript, ScriptType
    <2>7. CASE script' \in {Thrown, [Thrown EXCEPT !.undisturbed = FALSE]}
      <3>1. ~ script'.running /\ ~ script'.waiting
        BY <2>7, ThrownTyped DEF ScriptType
      <3> QED  BY <2>1, <2>3, <3>1 DEF AtOwn, ByScript
    <2>8. CASE script' = script
      BY <2>1, <2>3, <2>8 DEF AtOwn, ByScript
    <2> QED  BY <2>2, <2>4, <2>5, <2>6, <2>7, <2>8
  <1>4. CASE Unbuilt \/ Crash \/ Others \/ UNCHANGED scriptVars
    <2>1. data' = data /\ past' \in PastType
      BY <1>4 DEF Unbuilt, Crash, Others, scriptVars, PastType
    <2>2. /\ script' \in ScriptType
          /\ script'.step = script.step /\ script'.txIdx = script.txIdx
          /\ script'.running => script.running
          /\ script'.waiting => script.waiting
      BY <1>4 DEF Unbuilt, Thrown, Crash, Others, scriptVars, ScriptType
    <2> QED  BY <2>1, <2>2 DEF AtOwn, ByScript
  <1> QED  BY <1>1, <1>2, <1>3, <1>4 DEF ScriptNext, ScriptStep

\* What the script's keys confirm is the script's, in the wallet and in every state
\* a failing call goes back to.
LEMMA OwnedStep ==
    ASSUME ScriptInv, [ScriptNext]_scriptVars
    PROVE  OwnedBy(data, wallet') /\ \A k \in 1 .. Len(stack') : OwnedBy(data, stack'[k])
  <1>1. wallet \in WalletType /\ stack \in Seq(WalletType)
    BY DEF ScriptInv, Inv, Good
  <1>2. ASSUME NEW signer, NEW i \in TxIds, signer \in {First, Second} => ByScript(i)
        PROVE  OwnedBy(data, Confirmed(i, signer))
    <2>1. Confirmed(i, signer).isConfirmed =
            [wallet.isConfirmed EXCEPT ![i] = @ \cup {signer}]
      BY <1>1 DEF Confirmed, WalletType
    <2>2. wallet.isConfirmed \in [TxIds -> SUBSET Signers]
      BY <1>1 DEF WalletType
    <2> QED  BY <1>2, <2>1, <2>2 DEF ScriptInv, OwnedBy, ByScript
  <1>3. ASSUME NEW w \in WalletType, NEW i \in TxIds, OwnedBy(data, w)
        PROVE  OwnedBy(data, Called(w, i))
    BY <1>3 DEF Called, WalletType, OwnedBy
  <1>4. OwnedBy(data, wallet) /\ \A k \in 1 .. Len(stack) : OwnedBy(data, stack[k])
    BY DEF ScriptInv
  <1>5. ASSUME stack' = stack \/ stack' = Append(stack, wallet)
        PROVE  \A k \in 1 .. Len(stack') : OwnedBy(data, stack'[k])
    BY <1>1, <1>4, <1>5
  <1>6. ASSUME wallet'.isConfirmed = wallet.isConfirmed, stack' = stack
        PROVE  OwnedBy(data, wallet') /\ \A k \in 1 .. Len(stack') : OwnedBy(data, stack'[k])
    BY <1>4, <1>6 DEF OwnedBy
  <1>7. ASSUME NEW signer \in Signers, NEW i \in TxIds, NEW execute \in BOOLEAN,
               ConfirmTransaction(signer, i, execute),
               signer \in {First, Second} => ByScript(i)
        PROVE  OwnedBy(data, wallet') /\ \A k \in 1 .. Len(stack') : OwnedBy(data, stack'[k])
    <2>1. Confirmed(i, signer) \in WalletType
      BY <1>7, ConfirmGood DEF ScriptInv, Inv, Good, ConfirmTransaction, txExists, notExecuted
    <2>2. \/ /\ wallet' = Called(Confirmed(i, signer), i)
             /\ stack' = Append(stack, wallet)
          \/ wallet' = Confirmed(i, signer) /\ stack' = stack
      BY <1>7 DEF ConfirmTransaction, StartCall
    <2> QED  BY <1>2, <1>3, <1>5, <1>7, <2>1, <2>2
  <1>8. ASSUME NEW i \in TxIds, ExecuteTransaction(i)
        PROVE  OwnedBy(data, wallet') /\ \A k \in 1 .. Len(stack') : OwnedBy(data, stack'[k])
    BY <1>1, <1>3, <1>4, <1>5, <1>8 DEF ExecuteTransaction, StartCall
  <1>9. ASSUME NEW signer \in Signers, NEW i \in TxIds, RevokeConfirmation(signer, i)
        PROVE  OwnedBy(data, wallet') /\ \A k \in 1 .. Len(stack') : OwnedBy(data, stack'[k])
    <2>1. /\ wallet'.isConfirmed = [wallet.isConfirmed EXCEPT ![i] = @ \ {signer}]
          /\ stack' = stack
      BY <1>1, <1>9 DEF RevokeConfirmation, WalletType
    <2>2. \A j \in TxIds : wallet'.isConfirmed[j] \subseteq wallet.isConfirmed[j]
      BY <1>1, <2>1 DEF WalletType
    <2> QED  BY <1>4, <1>5, <2>1, <2>2 DEF OwnedBy
  <1>10. CASE CallSucceeds \/ CallFails
    <2>1. stack # <<>> /\ stack' = Front(stack) /\ wallet' \in {wallet, Last(stack)}
      BY <1>10 DEF CallSucceeds, CallFails
    <2>2. stack' = [k \in 1 .. Len(stack) - 1 |-> stack[k]] /\ Len(stack) \in Nat \ {0}
      BY <1>1, <2>1 DEF Front
    <2>3. Len(stack') = Len(stack) - 1 /\ \A k \in 1 .. Len(stack') : stack'[k] = stack[k]
      BY <2>2
    <2>4. Last(stack) = stack[Len(stack)]
      BY DEF Last
    <2> QED  BY <1>4, <2>1, <2>2, <2>3, <2>4
  <1>11. \A value, sent : SubmitTransaction(value, sent) \/ Receive(sent)
                            => wallet'.isConfirmed = wallet.isConfirmed /\ stack' = stack
    BY <1>1 DEF SubmitTransaction, Receive, WalletType
  <1>12. CASE Start \/ Submit \/ Unbuilt \/ ConfirmAgain \/ Crash \/ UNCHANGED scriptVars
    BY <1>6, <1>11, <1>12 DEF Start, Submit, Unbuilt, ConfirmAgain, Crash, scriptVars
  <1>13. ASSUME NEW step, AtStep(step), step # "submit", txExists(script.txIdx)
         PROVE  script.txIdx \in TxIds /\ ByScript(script.txIdx)
    BY <1>13, LaterStep DEF ScriptInv, ScriptTyped, AtOwn, AtStep
  <1>14. CASE Confirm
    <2>1. AtStep("confirm") /\ "confirm" # "submit"
      BY <1>14 DEF Confirm
    <2>2. CASE ConfirmTransaction(First, script.txIdx, FALSE)
      BY <1>7, <1>13, <2>1, <2>2, KeysAssumption DEF ConfirmTransaction
    <2>3. CASE UNCHANGED vars
      BY <1>6, <2>3 DEF vars
    <2> QED  BY <1>14, <2>2, <2>3 DEF Confirm
  <1>15. CASE ConfirmSecond
    <2>1. AtStep("second") /\ "second" # "submit"
      BY <1>15 DEF ConfirmSecond
    <2>2. CASE ConfirmTransaction(Second, script.txIdx, TRUE)
      BY <1>7, <1>13, <2>1, <2>2, KeysAssumption DEF ConfirmTransaction
    <2>3. CASE UNCHANGED vars
      BY <1>6, <2>3 DEF vars
    <2> QED  BY <1>15, <2>2, <2>3 DEF ConfirmSecond
  <1>16. CASE Execute
    <2>1. AtStep("execute") /\ "execute" # "submit"
      BY <1>16 DEF Execute
    <2>2. CASE ExecuteTransaction(script.txIdx)
      BY <1>8, <1>13, <2>1, <2>2 DEF ExecuteTransaction
    <2>3. CASE UNCHANGED vars
      BY <1>6, <2>3 DEF vars
    <2> QED  BY <1>16, <2>2, <2>3 DEF Execute
  <1>17. CASE Others
    <2>1. \A signer \in OtherSigners : signer \in Signers /\ signer \notin {First, Second}
      BY DEF OtherSigners
    <2> QED  BY <1>6, <1>7, <1>8, <1>9, <1>11, <1>17, <2>1 DEF Others
  <1>18. CallReturns => CallSucceeds \/ CallFails
    BY DEF CallReturns
  <1> QED  BY <1>10, <1>12, <1>14, <1>15, <1>16, <1>17, <1>18 DEF ScriptNext, ScriptStep

LEMMA ScriptInitInv == ScriptInit => ScriptInv
  <1> SUFFICES ASSUME ScriptInit PROVE ScriptInv
    OBVIOUS
  <1>1. Inv
    BY InitInv DEF ScriptInit
  <1>2. script \in ScriptType /\ script.step = 1 /\ ~ script.waiting
    <2>1. 1 \in Nat \ {0} /\ FirstIdx \in Nat
      BY KeysAssumption
    <2> QED  BY <2>1 DEF ScriptInit, Idle, ScriptType
  <1>3. data \in [TxIds -> [run : Nat, call : Nat]] /\ past \in PastType
    BY DEF ScriptInit, Nobody, PastType
  <1>4. OwnedBy(data, wallet) /\ \A k \in 1 .. Len(stack) : OwnedBy(data, stack[k])
    BY DEF ScriptInit, Init, OwnedBy
  <1> QED  BY <1>1, <1>2, <1>3, <1>4 DEF ScriptInv, ScriptTyped, AtOwn

LEMMA ScriptStepInv == ScriptInv /\ [ScriptNext]_scriptVars => ScriptInv' /\ [Next]_vars
  <1> SUFFICES ASSUME ScriptInv, [ScriptNext]_scriptVars PROVE ScriptInv' /\ [Next]_vars
    OBVIOUS
  <1>1. TypeOK
    BY DEF ScriptInv, Inv, Good, TypeOK
  <1>2. [Next]_vars
    BY <1>1, ScriptStepIsWalletStep DEF ScriptInv, ScriptTyped
  <1>3. Inv'
    BY <1>2, StepInv DEF ScriptInv
  <1>4. ScriptTyped' /\ AtOwn' /\ \A i \in TxIds : ByScript(i) => data'[i] # Nobody
    BY <1>1, ScriptTypedStep DEF ScriptInv
  <1>5. \A w : OwnedBy(data, w) => OwnedBy(data', w)
    BY <1>4 DEF OwnedBy, ByScript
  <1>6. OwnedBy(data', wallet') /\ \A k \in 1 .. Len(stack') : OwnedBy(data', stack'[k])
    BY <1>5, OwnedStep
  <1> QED  BY <1>2, <1>3, <1>4, <1>6 DEF ScriptInv

\* The wallet with the script, its crashes and the other signers behaves as the
\* wallet does: what the theorems above say of the wallet holds with the script.
THEOREM ScriptImplementsWallet == ScriptSpec => Spec
  <1>1. ScriptInit => Init
    BY DEF ScriptInit
  <1> QED  BY ScriptInitInv, ScriptStepInv, <1>1, PTL DEF ScriptSpec, Spec

\* First and Second confirm only what the script submitted.
THEOREM ScriptConfirmsOwn == ScriptSpec => []OwnCallsOnly
  <1>1. ScriptInv => OwnCallsOnly
    BY DEF ScriptInv, OwnedBy, OwnCallsOnly, ByScript
  <1> QED  BY ScriptInitInv, ScriptStepInv, <1>1, PTL DEF ScriptSpec

-----------------------------------------------------------------------------
(* The runs of the script.                                                 *)

Keys == {First, Second}

\* The wallet as it is, and as a failing call can make it.
States == {wallet} \cup {stack[k] : k \in 1 .. Len(stack)}

\* By d, run r has submitted its k-th call, at the index it counted to.
Entered(d, k, r) ==
    /\ FirstIdx + k - 1 \in TxIds
    /\ d[FirstIdx + k - 1] = [run |-> r, call |-> k]

\* In w the first n calls of run r are executed.
DoneIn(d, w, r, n) ==
    \A k \in 1 .. n : Entered(d, k, r) /\ w.transactions[FirstIdx + k - 1].executed

\* What the script submitted stays in the wallet, whatever fails.
Kept == \A i \in TxIds : ByScript(i) => \A w \in States : i < w.length

\* What First confirmed is of the run that found its index.
FirstOwn(w) ==
    \A i \in TxIds : First \in w.isConfirmed[i] =>
       /\ FirstIdx \in TxIds /\ ByScript(FirstIdx)
       /\ data[i].run = data[FirstIdx].run

\* What Second confirmed is executed, after all that comes before it.
SecondDone(w) ==
    \A i \in TxIds : Second \in w.isConfirmed[i] => DoneIn(data, w, data[i].run, data[i].call)

LastStep == Len(Steps(Calls[script.call]))

\* Where a run stands, and what it has done by then.
Place ==
    script.running =>
       /\ past.runs > 0
       /\ script.txIdx = FirstIdx + script.call - 1
       /\ script.step \in 1 .. LastStep
       /\ script.step # 1 => Entered(data, script.call, past.runs)
       /\ \A w \in States : /\ DoneIn(data, w, past.runs, script.call - 1)
                            /\ script.step > 2 => First \in w.isConfirmed[script.txIdx]

\* The call of the last step is running, started from the innermost state kept, and is
\* marked in all that came after.
Calling ==
    script.running /\ script.waiting /\ script.step = LastStep =>
       /\ stack # <<>>
       /\ wallet.transactions[script.txIdx].executed
       /\ \A k \in 2 .. Len(stack) : stack[k].transactions[script.txIdx].executed

RunInv ==
    /\ ScriptInv
    /\ Kept /\ Place /\ Calling
    /\ \A w \in States : FirstOwn(w) /\ SecondDone(w)

\* What a run that nobody disturbs finds in the wallet.
AsExpected ==
    script.running /\ script.undisturbed =>
       /\ Len(stack) = IF script.waiting THEN 1 ELSE 0
       /\ wallet.length = script.txIdx + (IF script.step = 1 THEN 0 ELSE 1)
       /\ script.waiting => script.step = LastStep
       /\ script.step # 1 /\ ~ script.waiting =>
            /\ ~ wallet.transactions[script.txIdx].executed
            /\ wallet.isConfirmed[script.txIdx] = IF script.step = 2 THEN {} ELSE {First}

\* Only a running script waits, and for a call of its own.
Waits == script.waiting => script.running /\ script.call <= Len(Calls)

\* What threw no longer runs.
Stopped == script.threw => ~ script.running

\* An undisturbed run threw at a call it cannot build, with all before it done, also
\* in what a failing call goes back to.
Threw ==
    script.threw /\ script.undisturbed =>
       /\ script.call <= Len(Calls) /\ ~ Builds(Calls[script.call])
       /\ \A w \in States : DoneIn(data, w, past.runs, script.call - 1)

CalmInv == RunInv /\ Waits /\ Stopped /\ AsExpected /\ Threw

-----------------------------------------------------------------------------
(* The runs, step by step.                                                 *)

\* A call's steps begin with the submission and the confirmation, and end with the
\* second signer.
LEMMA StepNames ==
    ASSUME NEW call
    PROVE  /\ Len(Steps(call)) \in {3, 5}
           /\ Steps(call)[1] = "submit"
           /\ \A k \in 1 .. Len(Steps(call)) : /\ Steps(call)[k] = "confirm" <=> k = 2
                                               /\ Steps(call)[k] = "submit" <=> k = 1
                                               /\ Steps(call)[k] = "second" <=> k = Len(Steps(call))
  <1>1. CASE call.checked
    <2>1. Steps(call) = <<"submit", "confirm", "execute", "again", "second">>
      BY <1>1 DEF Steps
    <2>2. Len(Steps(call)) = 5
      BY <2>1
    <2>3. \A k \in 1 .. 5 : k = 1 \/ k = 2 \/ k = 3 \/ k = 4 \/ k = 5
      OBVIOUS
    <2> QED  BY <2>1, <2>2, <2>3
  <1>2. CASE ~ call.checked
    <2>1. Steps(call) = <<"submit", "confirm", "second">>
      BY <1>2 DEF Steps
    <2>2. Len(Steps(call)) = 3
      BY <2>1
    <2>3. \A k \in 1 .. 3 : k = 1 \/ k = 2 \/ k = 3
      OBVIOUS
    <2> QED  BY <2>1, <2>2, <2>3
  <1> QED  BY <1>1, <1>2

\* Where the script goes from a step that went well.
LEMMA AdvancedPlace ==
    ASSUME script \in ScriptType
    PROVE  /\ script.step < LastStep =>
                /\ Advanced.step = script.step + 1
                /\ Advanced.call = script.call /\ Advanced.txIdx = script.txIdx
           /\ ~ (script.step < LastStep) =>
                /\ Advanced.step = 1
                /\ Advanced.call = script.call + 1 /\ Advanced.txIdx = script.txIdx + 1
           /\ Advanced.running = script.running /\ ~ Advanced.waiting
           /\ Advanced.undisturbed = script.undisturbed /\ Advanced.threw = script.threw
  BY DEF Advanced, LastStep, ScriptType

\* v is w or came out of it: nothing is forgotten that the script relies on.
Grows(w, v) ==
    /\ w.length <= v.length
    /\ \A i \in TxIds : /\ w.transactions[i].executed => v.transactions[i].executed
                        /\ w.isConfirmed[i] \cap Keys \subseteq v.isConfirmed[i]

\* The keys confirm nothing between w and v.
SameKeys(w, v) == \A i \in TxIds : v.isConfirmed[i] \cap Keys \subseteq w.isConfirmed[i]

\* A state that comes out of the wallet joins those a failing call can put back.
LEMMA StatesPushed ==
    ASSUME Inv, stack' = stack \/ stack' = Append(stack, wallet)
    PROVE  \A v \in States' : v = wallet' \/ v \in States
  <1>1. stack \in Seq(WalletType)
    BY DEF Inv, Good
  <1>2. ASSUME NEW k \in 1 .. Len(stack') PROVE stack'[k] \in States
    <2>1. CASE stack' = stack
      BY <2>1 DEF States
    <2>2. CASE stack' = Append(stack, wallet)
      <3>1. Len(stack) \in Nat
        BY <1>1
      <3>2. Len(stack') = Len(stack) + 1
        BY <1>1, <2>2
      <3>3. stack'[k] = IF k = Len(stack) + 1 THEN wallet ELSE stack[k]
        BY <1>1, <2>2
      <3>4. k = Len(stack) + 1 \/ k \in 1 .. Len(stack)
        BY <3>1, <3>2
      <3> QED  BY <3>1, <3>3, <3>4 DEF States
    <2> QED  BY <2>1, <2>2
  <1> QED  BY <1>2 DEF States

\* The states after a call comes back are among those before.
LEMMA StatesPopped ==
    ASSUME Inv, CallSucceeds \/ CallFails
    PROVE  /\ Len(stack) \in Nat \ {0} /\ Len(stack') = Len(stack) - 1
           /\ \A k \in 1 .. Len(stack') : stack'[k] = stack[k]
           /\ wallet' = wallet \/ wallet' = stack[Len(stack)]
           /\ States' \subseteq States
  <1>1. stack \in Seq(WalletType) /\ stack # <<>> /\ stack' = Front(stack)
    BY DEF Inv, Good, CallSucceeds, CallFails
  <1>2. Len(stack) \in Nat \ {0}
    BY <1>1
  <1>3. Len(stack') = Len(stack) - 1 /\ \A k \in 1 .. Len(stack') : stack'[k] = stack[k]
    <2>1. stack' = [k \in 1 .. Len(stack) - 1 |-> stack[k]]
      BY <1>1 DEF Front
    <2> QED  BY <1>2, <2>1
  <1>4. wallet' = wallet \/ wallet' = stack[Len(stack)]
    BY DEF CallSucceeds, CallFails, Last
  <1>5. \A k \in 1 .. Len(stack') : k \in 1 .. Len(stack)
    BY <1>2, <1>3
  <1>6. Len(stack) \in 1 .. Len(stack)
    BY <1>2
  <1> QED  BY <1>2, <1>3, <1>4, <1>5, <1>6 DEF States

\* The steps of the wallet other than the script's own confirmations.
OtherUse ==
    \/ \E value \in Nat, sent \in Nat : SubmitTransaction(value, sent) \/ Receive(sent)
    \/ \E signer \in OtherSigners, i \in TxIds :
          \/ \E execute \in BOOLEAN : ConfirmTransaction(signer, i, execute)
          \/ RevokeConfirmation(signer, i)
    \/ \E i \in TxIds : ExecuteTransaction(i)
    \/ UNCHANGED vars

OtherStep == OtherUse \/ CallSucceeds \/ CallFails

\* What the wallet does for others undoes nothing the script relies on, and confirms
\* nothing with its keys.
LEMMA OthersGrow ==
    ASSUME Inv, OtherUse
    PROVE  /\ Grows(wallet, wallet') /\ SameKeys(wallet, wallet')
           /\ stack' = stack \/ stack' = Append(stack, wallet)
  <1>1. wallet \in WalletType /\ stack \in Seq(WalletType) /\ Good(wallet)
    BY DEF Inv, Good
  <1>2. \A w \in States : w \in WalletType
    BY <1>1 DEF States
  <1>3. \A w \in States : Grows(w, w) /\ SameKeys(w, w)
    BY <1>2 DEF Grows, SameKeys, WalletType
  <1>5. ASSUME NEW value \in Nat, NEW sent \in Nat, SubmitTransaction(value, sent)
        PROVE  Grows(wallet, wallet') /\ SameKeys(wallet, wallet') /\ stack' = stack
    <2>1. /\ wallet'.length = wallet.length + 1 /\ wallet'.isConfirmed = wallet.isConfirmed
          /\ \A i \in TxIds \ {wallet.length} : wallet'.transactions[i] = wallet.transactions[i]
          /\ stack' = stack
      BY <1>1, <1>5 DEF SubmitTransaction, WalletType
    <2>2. wallet.length \in TxIds => ~ wallet.transactions[wallet.length].executed
      <3>1. wallet.length \in Nat
        BY <1>1 DEF WalletType
      <3>2. wallet.length \in TxIds => wallet.transactions[wallet.length] = Blank
        BY <1>1, <3>1 DEF Good, TransactionOK
      <3> QED  BY <3>2 DEF Blank
    <2>3. wallet.length <= wallet'.length
      BY <1>1, <2>1 DEF WalletType
    <2> QED  BY <2>1, <2>2, <2>3 DEF Grows, SameKeys
  <1>6. ASSUME NEW sent \in Nat, Receive(sent)
        PROVE  Grows(wallet, wallet') /\ SameKeys(wallet, wallet') /\ stack' = stack
    <2>1. /\ wallet'.length = wallet.length /\ wallet'.isConfirmed = wallet.isConfirmed
          /\ wallet'.transactions = wallet.transactions /\ stack' = stack
      BY <1>1, <1>6 DEF Receive, WalletType
    <2> QED  BY <1>1, <2>1 DEF Grows, SameKeys, WalletType
  <1>7. ASSUME NEW w \in WalletType, NEW i \in TxIds, Grows(wallet, w), SameKeys(wallet, w)
        PROVE  Grows(wallet, Called(w, i)) /\ SameKeys(wallet, Called(w, i))
    <2>1. /\ Called(w, i).length = w.length /\ Called(w, i).isConfirmed = w.isConfirmed
          /\ \A j \in TxIds : w.transactions[j].executed => Called(w, i).transactions[j].executed
      BY DEF Called, WalletType, TransactionType
    <2> QED  BY <1>7, <2>1 DEF Grows, SameKeys
  <1>8. ASSUME NEW signer \in OtherSigners, NEW i \in TxIds, NEW execute \in BOOLEAN,
               ConfirmTransaction(signer, i, execute)
        PROVE  /\ Grows(wallet, wallet') /\ SameKeys(wallet, wallet')
               /\ stack' = stack \/ stack' = Append(stack, wallet)
    <2>1. signer \in Signers /\ signer \notin Keys
      BY DEF OtherSigners, Keys
    <2>2. Confirmed(i, signer) \in WalletType
      BY <1>1, <1>8, <2>1, ConfirmGood DEF Good, ConfirmTransaction, txExists, notExecuted
    <2>3. /\ Confirmed(i, signer).length = wallet.length
          /\ Confirmed(i, signer).isConfirmed =
               [wallet.isConfirmed EXCEPT ![i] = wallet.isConfirmed[i] \cup {signer}]
          /\ \A j \in TxIds : Confirmed(i, signer).transactions[j].executed
                                 = wallet.transactions[j].executed
      BY <1>1 DEF Confirmed, WalletType, TransactionType
    <2>4. Grows(wallet, Confirmed(i, signer)) /\ SameKeys(wallet, Confirmed(i, signer))
      BY <1>1, <2>1, <2>3 DEF Grows, SameKeys, WalletType
    <2>5. \/ /\ wallet' = Called(Confirmed(i, signer), i)
             /\ stack' = Append(stack, wallet)
          \/ wallet' = Confirmed(i, signer) /\ stack' = stack
      BY <1>8 DEF ConfirmTransaction, StartCall
    <2> QED  BY <1>7, <2>2, <2>4, <2>5
  <1>9. ASSUME NEW signer \in OtherSigners, NEW i \in TxIds, RevokeConfirmation(signer, i)
        PROVE  Grows(wallet, wallet') /\ SameKeys(wallet, wallet') /\ stack' = stack
    <2>1. signer \in Signers /\ signer \notin Keys
      BY DEF OtherSigners, Keys
    <2>2. /\ wallet'.length = wallet.length /\ stack' = stack
          /\ wallet'.isConfirmed =
               [wallet.isConfirmed EXCEPT ![i] = wallet.isConfirmed[i] \ {signer}]
          /\ \A j \in TxIds : wallet'.transactions[j].executed = wallet.transactions[j].executed
      BY <1>1, <1>9 DEF RevokeConfirmation, WalletType, TransactionType
    <2> QED  BY <1>1, <2>1, <2>2 DEF Grows, SameKeys, WalletType
  <1>10. ASSUME NEW i \in TxIds, ExecuteTransaction(i)
         PROVE  /\ Grows(wallet, wallet') /\ SameKeys(wallet, wallet')
                /\ stack' = Append(stack, wallet)
    <2>1. Grows(wallet, wallet) /\ SameKeys(wallet, wallet)
      BY <1>3 DEF States
    <2> QED  BY <1>1, <1>7, <1>10, <2>1 DEF ExecuteTransaction, StartCall
  <1>11. CASE UNCHANGED vars
    BY <1>3, <1>11 DEF vars, States
  <1> QED  BY <1>5, <1>6, <1>8, <1>9, <1>10, <1>11 DEF OtherUse

\* So does a call that comes back, also if an old state is put back.
LEMMA OthersFollow ==
    ASSUME Inv, OtherStep
    PROVE  \A v \in States' : \E w \in States : Grows(w, v) /\ SameKeys(w, v)
  <1>1. \A w \in States : w \in WalletType
    BY DEF Inv, Good, States
  <1>2. \A w \in States : Grows(w, w) /\ SameKeys(w, w)
    BY <1>1 DEF Grows, SameKeys, WalletType
  <1>3. CASE OtherUse
    BY <1>2, <1>3, OthersGrow, StatesPushed DEF States
  <1>4. CASE CallSucceeds \/ CallFails
    BY <1>2, <1>4, StatesPopped
  <1> QED  BY <1>3, <1>4 DEF OtherStep

FirstConfirms ==
    /\ AtStep("confirm") /\ ConfirmTransaction(First, script.txIdx, FALSE)
    /\ script' = Advanced /\ UNCHANGED <<data, past>>

SecondConfirms ==
    /\ AtStep("second") /\ ConfirmTransaction(Second, script.txIdx, TRUE)
    /\ script' = [script EXCEPT !.waiting = TRUE] /\ UNCHANGED <<data, past>>

\* The script submits, confirms with one of its keys, or leaves what it has submitted
\* alone.
LEMMA KindsOfStep ==
    ASSUME ScriptInv, [ScriptNext]_scriptVars
    PROVE  (OtherStep /\ data' = data) \/ Submit \/ FirstConfirms \/ SecondConfirms
  <1>1. CASE Start \/ Unbuilt \/ Crash \/ ConfirmAgain \/ UNCHANGED scriptVars
    BY <1>1 DEF Start, Unbuilt, Crash, ConfirmAgain, scriptVars, vars, OtherStep, OtherUse
  <1>2. CASE Confirm
    BY <1>2 DEF Confirm, FirstConfirms, OtherStep, OtherUse
  <1>3. CASE ConfirmSecond
    BY <1>3 DEF ConfirmSecond, SecondConfirms, OtherStep, OtherUse
  <1>4. CASE Execute
    <2>1. txExists(script.txIdx) => script.txIdx \in TxIds
      BY WalletAssumption DEF txExists, TxIds, ScriptInv, ScriptTyped, ScriptType, Inv, Good,
                              WalletType
    <2> QED  BY <1>4, <2>1 DEF Execute, OtherStep, OtherUse, ExecuteTransaction
  <1>5. CASE CallReturns
    BY <1>5 DEF CallReturns, OtherStep
  <1>6. CASE Others
    BY <1>6, WalletAssumption DEF Others, OtherStep, OtherUse
  <1> QED  BY <1>1, <1>2, <1>3, <1>4, <1>5, <1>6 DEF ScriptNext, ScriptStep

\* What a running script stands at.
LEMMA StandsAt ==
    ASSUME RunInv, NEW step, AtStep(step)
    PROVE  /\ script.running /\ ~ script.waiting /\ stack = <<>> /\ States = {wallet}
           /\ script \in ScriptType /\ past \in PastType /\ past.runs > 0
           /\ LastStep \in {3, 5} /\ script.step \in 1 .. LastStep
           /\ step = "submit" <=> script.step = 1
           /\ step = "confirm" <=> script.step = 2
           /\ step = "second" <=> script.step = LastStep
           /\ script.txIdx = FirstIdx + script.call - 1
  <1>1. script.running /\ ~ script.waiting /\ stack = <<>>
    BY DEF AtStep
  <1>2. States = {wallet}
    BY <1>1 DEF States
  <1>3. step = Steps(Calls[script.call])[script.step]
    BY DEF AtStep
  <1>4. /\ script \in ScriptType /\ past \in PastType /\ past.runs > 0
        /\ script.step \in 1 .. LastStep
        /\ script.txIdx = FirstIdx + script.call - 1
    BY <1>1 DEF RunInv, ScriptInv, ScriptTyped, Place
  <1> QED  BY <1>1, <1>2, <1>3, <1>4, StepNames DEF LastStep

\* A confirmation by one of the keys adds just that.
LEMMA KeyConfirms ==
    ASSUME RunInv, NEW key \in Keys, NEW execute \in BOOLEAN,
           ConfirmTransaction(key, script.txIdx, execute)
    PROVE  /\ script.txIdx \in TxIds
           /\ Grows(wallet, wallet')
           /\ wallet'.length = wallet.length
           /\ \A i \in TxIds : wallet'.isConfirmed[i] =
                wallet.isConfirmed[i] \cup (IF i = script.txIdx THEN {key} ELSE {})
  <1> DEFINE i == script.txIdx
             w == Confirmed(i, key)
  <1>1. Good(wallet) /\ wallet \in WalletType /\ key \in Signers
    BY KeysAssumption DEF RunInv, ScriptInv, Inv, Good, Keys
  <1>2. i \in TxIds
    BY <1>1, WalletAssumption DEF ConfirmTransaction, txExists, TxIds, RunInv, ScriptInv,
                                  ScriptTyped, ScriptType, WalletType
  <1>3. w \in WalletType
    BY <1>1, <1>2, ConfirmGood DEF Good, ConfirmTransaction, txExists, notExecuted
  <1>4. /\ w.length = wallet.length
        /\ w.isConfirmed = [wallet.isConfirmed EXCEPT ![i] = wallet.isConfirmed[i] \cup {key}]
        /\ \A j \in TxIds : w.transactions[j].executed = wallet.transactions[j].executed
    BY <1>1, <1>2 DEF Confirmed, WalletType, TransactionType
  <1>5. wallet' = Called(w, i) \/ wallet' = w
    BY DEF ConfirmTransaction, StartCall
  <1> HIDE DEF w
  <1>6. /\ wallet'.length = w.length /\ wallet'.isConfirmed = w.isConfirmed
        /\ \A j \in TxIds : w.transactions[j].executed => wallet'.transactions[j].executed
    <2>1. /\ Called(w, i).length = w.length /\ Called(w, i).isConfirmed = w.isConfirmed
          /\ \A j \in TxIds : w.transactions[j].executed => Called(w, i).transactions[j].executed
      BY <1>2, <1>3 DEF Called, WalletType, TransactionType
    <2> QED  BY <1>5, <2>1
  <1>7. \A j \in TxIds : wallet'.isConfirmed[j] =
                wallet.isConfirmed[j] \cup (IF j = i THEN {key} ELSE {})
    BY <1>1, <1>2, <1>4, <1>6 DEF WalletType
  <1>8. Grows(wallet, wallet')
    BY <1>1, <1>4, <1>6, <1>7 DEF Grows, WalletType
  <1> QED  BY <1>2, <1>4, <1>6, <1>7, <1>8

\* The second confirmation is enough, and starts the call.
LEMMA SecondStarts ==
    ASSUME RunInv, SecondConfirms
    PROVE  /\ script.txIdx \in TxIds /\ wallet'.transactions[script.txIdx].executed
           /\ stack' = <<wallet>>
  <1> DEFINE i == script.txIdx
  <1>1. /\ stack = <<>> /\ States = {wallet} /\ script.running
        /\ script.step = LastStep /\ LastStep \in {3, 5}
    BY StandsAt DEF SecondConfirms
  <1>2. i \in TxIds
    BY KeyConfirms DEF SecondConfirms, Keys
  <1>3. First \in wallet.isConfirmed[i]
    BY <1>1 DEF RunInv, Place
  <1>4. confirmations(i) >= 1
    <2>1. confirmations(i) = Cardinality(wallet.isConfirmed[i])
      BY <1>2 DEF RunInv, ScriptInv, Inv, Good, TransactionOK, confirmations
    <2>2. wallet.isConfirmed[i] \in SUBSET Signers
      BY <1>2 DEF RunInv, ScriptInv, Inv, Good, WalletType
    <2>3. IsFiniteSet(wallet.isConfirmed[i])
      BY <2>2, FS_Subset, WalletAssumption
    <2>4. Cardinality(wallet.isConfirmed[i]) \in Nat
      BY <2>3, FS_CardinalityType
    <2>5. Cardinality(wallet.isConfirmed[i]) # 0
      BY <1>3, <2>3, FS_EmptySet
    <2> QED  BY <2>1, <2>4, <2>5
  <1>5. confirmations(i) \in Nat
    BY <1>2 DEF confirmations, RunInv, ScriptInv, Inv, Good, WalletType, TransactionType
  <1>6. StartCall(Confirmed(i, Second), i, wallet)
    BY <1>4, <1>5, KeysAssumption DEF SecondConfirms, ConfirmTransaction
  <1>7. Confirmed(i, Second) \in WalletType
    BY <1>2, ConfirmGood, KeysAssumption DEF RunInv, ScriptInv, Inv, Good, SecondConfirms,
                                             ConfirmTransaction, txExists, notExecuted
  <1>8. wallet'.transactions[i].executed
    <2>1. wallet' = Called(Confirmed(i, Second), i)
      BY <1>6 DEF StartCall
    <2> QED  BY <1>2, <1>7, <2>1 DEF Called, WalletType, TransactionType
  <1>9. stack' = <<wallet>>
    BY <1>1, <1>6 DEF StartCall
  <1> QED  BY <1>2, <1>8, <1>9

\* Every state grew out of one there was.
LEMMA FollowStep ==
    ASSUME RunInv, [ScriptNext]_scriptVars
    PROVE  \A v \in States' : \E w \in States : Grows(w, v)
  <1>1. Inv /\ \A w \in States : w \in WalletType
    BY DEF RunInv, ScriptInv, Inv, Good, States
  <1>2. CASE OtherStep
    BY <1>1, <1>2, OthersFollow
  <1>3. CASE Submit
    <2>1. OtherStep
      BY <1>3 DEF Submit, OtherStep, OtherUse
    <2> QED  BY <1>1, <2>1, OthersFollow
  <1>4. \A w \in States : Grows(w, w)
    BY <1>1 DEF Grows, WalletType
  <1>5. ASSUME Grows(wallet, wallet'), stack' = stack \/ stack' = Append(stack, wallet)
        PROVE  \A v \in States' : \E w \in States : Grows(w, v)
    BY <1>1, <1>4, <1>5, StatesPushed DEF States
  <1>6. CASE FirstConfirms
    <2>1. stack' = stack \/ stack' = Append(stack, wallet)
      BY <1>6 DEF FirstConfirms, ConfirmTransaction, StartCall
    <2> QED  BY <1>5, <1>6, <2>1, KeyConfirms DEF FirstConfirms, Keys
  <1>7. CASE SecondConfirms
    <2>1. stack' = stack \/ stack' = Append(stack, wallet)
      BY <1>7 DEF SecondConfirms, ConfirmTransaction, StartCall
    <2> QED  BY <1>5, <1>7, <2>1, KeyConfirms DEF SecondConfirms, Keys
  <1> QED  BY <1>2, <1>3, <1>6, <1>7, KindsOfStep DEF RunInv

\* The script's transactions keep their place: an index is submitted once.
LEMMA DataStep ==
    ASSUME RunInv, [ScriptNext]_scriptVars
    PROVE  /\ Kept'
           /\ \A i \in TxIds : ByScript(i) => data'[i] = data[i]
           /\ \A k \in Nat \ {0} : \A r : Entered(data, k, r) => Entered(data', k, r)
  <1>1. /\ data \in [TxIds -> [run : Nat, call : Nat]]
        /\ \A w \in States' : w \in WalletType
        /\ \A w \in States : w \in WalletType
    <2>1. ScriptInv'
      BY ScriptStepInv DEF RunInv
    <2> QED  BY <2>1 DEF RunInv, ScriptInv, ScriptTyped, Inv, Good, States
  <1>2. \A v \in States' : \E w \in States : Grows(w, v)
    BY FollowStep
  <1>3. CASE Submit
    <2>1. /\ stack = <<>> /\ stack' = <<>> /\ wallet'.length = wallet.length + 1
          /\ wallet.length \in TxIds
          /\ data' = [data EXCEPT ![wallet.length] = Sent]
      BY <1>1, <1>3, WalletAssumption
        DEF Submit, AtStep, SubmitTransaction, States, WalletType, TxIds
    <2>2. States = {wallet} /\ States' = {wallet'}
      BY <2>1 DEF States
    <2>3. \A i \in TxIds : ByScript(i) => i # wallet.length /\ i < wallet.length
      BY <1>1, <2>2 DEF RunInv, Kept, WalletType, TxIds
    <2>4. \A i \in TxIds : ByScript(i)' => i < wallet'.length
      BY <1>1, <2>1, <2>2, <2>3 DEF ByScript, WalletType, TxIds
    <2>5. \A i \in TxIds : ByScript(i) => data'[i] = data[i]
      BY <1>1, <2>1, <2>3
    <2> QED  BY <1>1, <2>2, <2>4, <2>5 DEF Kept, Entered, ByScript, Nobody
  <1>4. CASE data' = data
    <2>1. ASSUME NEW i \in TxIds, ByScript(i), NEW v \in States' PROVE i < v.length
      <3>1. PICK w \in States : Grows(w, v)
        BY <1>2
      <3>2. i < w.length /\ w.length <= v.length
        BY <2>1, <3>1 DEF RunInv, Kept, Grows
      <3>3. i \in Nat /\ w.length \in Nat /\ v.length \in Nat
        BY <1>1, WalletAssumption DEF TxIds, WalletType
      <3> QED  BY <3>2, <3>3
    <2> QED  BY <1>4, <2>1 DEF Kept, Entered, ByScript
  <1> QED  BY <1>3, <1>4, KindsOfStep DEF RunInv, FirstConfirms, SecondConfirms

\* What is done stays done, in the states that come out of those there were.
LEMMA DoneStep ==
    ASSUME RunInv, [ScriptNext]_scriptVars, NEW w \in States, NEW v \in States', Grows(w, v),
           NEW r, NEW n \in Nat, DoneIn(data, w, r, n)
    PROVE  DoneIn(data', v, r, n)
  <1>1. ASSUME NEW k \in 1 .. n
        PROVE  Entered(data', k, r) /\ v.transactions[FirstIdx + k - 1].executed
    <2>1. Entered(data, k, r) /\ w.transactions[FirstIdx + k - 1].executed
      BY DEF DoneIn
    <2>2. Entered(data', k, r)
      BY <2>1, DataStep
    <2>3. FirstIdx + k - 1 \in TxIds
      BY <2>1 DEF Entered
    <2> QED  BY <2>1, <2>2, <2>3 DEF Grows
  <1> QED  BY <1>1 DEF DoneIn

\* While the script does not move, its place stays as it is.
LEMMA PlaceKept ==
    ASSUME RunInv, [ScriptNext]_scriptVars,
           script'.running =>
              /\ script.running /\ script'.call = script.call /\ script'.step = script.step
              /\ script'.txIdx = script.txIdx /\ past'.runs = past.runs
    PROVE  Place'
  <1> SUFFICES ASSUME script'.running PROVE Place'
    BY DEF Place
  <1>1. /\ script.running /\ script'.call = script.call /\ script'.step = script.step
        /\ script'.txIdx = script.txIdx /\ past'.runs = past.runs
    OBVIOUS
  <1>2. /\ script.call \in Nat \ {0} /\ LastStep' = LastStep
        /\ script.txIdx = FirstIdx + script.call - 1
    BY <1>1 DEF RunInv, ScriptInv, ScriptTyped, ScriptType, LastStep, Place
  <1>3. script'.step # 1 => Entered(data', script'.call, past'.runs)
    BY <1>1, <1>2, DataStep DEF RunInv, Place
  <1>4. ASSUME NEW v \in States'
        PROVE  /\ DoneIn(data', v, past'.runs, script'.call - 1)
               /\ script'.step > 2 => First \in v.isConfirmed[script'.txIdx]
    <2>1. PICK w \in States : Grows(w, v)
      BY FollowStep
    <2>2. DoneIn(data, w, past.runs, script.call - 1) /\ script.call - 1 \in Nat
      BY <1>1, <1>2 DEF RunInv, Place
    <2>3. DoneIn(data', v, past.runs, script.call - 1)
      BY <2>1, <2>2, DoneStep
    <2>4. ASSUME script.step > 2 PROVE First \in v.isConfirmed[script.txIdx]
      <3>1. First \in w.isConfirmed[script.txIdx] /\ script.txIdx \in TxIds
        BY <1>1, <1>2, <2>4 DEF RunInv, Place, Entered, ScriptInv, ScriptTyped, ScriptType
      <3> QED  BY <2>1, <3>1 DEF Grows, Keys
    <2> QED  BY <1>1, <2>3, <2>4 DEF DoneIn, Entered
  <1> QED  BY <1>1, <1>2, <1>3, <1>4 DEF RunInv, Place

\* A step of a call that is not its last.
LEMMA PlaceAdvanced ==
    ASSUME RunInv, [ScriptNext]_scriptVars, script.running, script' = Advanced,
           past' = past, script.step < LastStep,
           Entered(data', script.call, past.runs),
           script.step > 1 => \A v \in States' : First \in v.isConfirmed[script.txIdx]
    PROVE  Place'
  <1>1. /\ script \in ScriptType
        /\ script'.call = script.call /\ script'.step = script.step + 1
        /\ script'.txIdx = script.txIdx /\ script.step \in Nat \ {0}
        /\ script.call \in Nat \ {0} /\ LastStep \in Nat
    BY AdvancedPlace, StepNames
      DEF RunInv, ScriptInv, ScriptTyped, ScriptType, LastStep
  <1>2. LastStep' = LastStep /\ script'.step \in 1 .. LastStep
    BY <1>1 DEF LastStep
  <1>3. ASSUME NEW v \in States' PROVE DoneIn(data', v, past.runs, script.call - 1)
    <2>1. PICK w \in States : Grows(w, v)
      BY FollowStep
    <2>2. DoneIn(data, w, past.runs, script.call - 1) /\ script.call - 1 \in Nat
      BY <1>1 DEF RunInv, Place
    <2> QED  BY <2>1, <2>2, DoneStep
  <1>4. script'.step > 2 => script.step > 1
    BY <1>1
  <1> QED  BY <1>1, <1>2, <1>3, <1>4 DEF RunInv, Place, Entered, DoneIn

\* The last step of a call: its transaction is executed, for good.
LEMMA PlaceNext ==
    ASSUME RunInv, [ScriptNext]_scriptVars, script.running, script' = Advanced,
           past' = past, script.step = LastStep, States' = {wallet},
           wallet.transactions[script.txIdx].executed
    PROVE  Place'
  <1>1. /\ script \in ScriptType
        /\ script'.call = script.call + 1 /\ script'.step = 1
        /\ script'.txIdx = script.txIdx + 1 /\ LastStep \in {3, 5}
        /\ script.call \in Nat \ {0} /\ script.txIdx \in Nat
    BY AdvancedPlace, StepNames
      DEF RunInv, ScriptInv, ScriptTyped, ScriptType, LastStep
  <1>2. /\ script.txIdx = FirstIdx + script.call - 1 /\ past.runs > 0
        /\ Entered(data, script.call, past.runs)
    BY <1>1 DEF RunInv, Place
  <1>3. wallet \in States
    BY DEF States
  <1>4. ASSUME NEW k \in 1 .. script.call
        PROVE  Entered(data', k, past.runs) /\ wallet.transactions[FirstIdx + k - 1].executed
    <2>1. CASE k = script.call
      <3>1. Entered(data', k, past.runs)
        BY <1>1, <1>2, <2>1, DataStep
      <3> QED  BY <1>2, <2>1, <3>1
    <2>2. CASE k # script.call
      <3>1. k \in 1 .. script.call - 1 /\ k \in Nat \ {0}
        BY <1>1, <2>2
      <3>2. Entered(data, k, past.runs) /\ wallet.transactions[FirstIdx + k - 1].executed
        BY <1>3, <3>1 DEF RunInv, Place, DoneIn
      <3> QED  BY <3>1, <3>2, DataStep
    <2> QED  BY <2>1, <2>2
  <1>5. DoneIn(data', wallet, past.runs, script.call)
    BY <1>4 DEF DoneIn
  <1>6. 1 \in 1 .. LastStep'
    BY StepNames DEF LastStep
  <1>7. script'.txIdx = FirstIdx + script'.call - 1 /\ script'.call - 1 = script.call
    BY <1>1, <1>2, KeysAssumption
  <1> QED  BY <1>1, <1>2, <1>4, <1>6, <1>7 DEF Place, DoneIn, Entered

LEMMA PlaceStep ==
    ASSUME RunInv, [ScriptNext]_scriptVars
    PROVE  Place'
  <1>1. script \in ScriptType /\ past \in PastType
    BY DEF RunInv, ScriptInv, ScriptTyped
  <1>2. CASE Start
    <2>1. /\ script'.call = 1 /\ script'.step = 1 /\ script'.txIdx = FirstIdx
          /\ past'.runs = past.runs + 1
      BY <1>1, <1>2 DEF Start, Idle, PastType
    <2>2. past'.runs > 0 /\ FirstIdx = FirstIdx + 1 - 1 /\ 1 \in 1 .. LastStep'
      BY <1>1, <2>1, StepNames, KeysAssumption DEF PastType, LastStep
    <2>3. \A w : DoneIn(data', w, past'.runs, 0)
      BY DEF DoneIn
    <2> QED  BY <2>1, <2>2, <2>3 DEF Place, DoneIn, Entered
  <1>3. CASE Submit
    <2>1. /\ script.running /\ script.step = 1 /\ past' = past /\ LastStep \in {3, 5}
          /\ script.txIdx = FirstIdx + script.call - 1
      BY <1>3, StandsAt DEF Submit
    <2>2. CASE wallet.length = script.txIdx
      <3>1. /\ script' = Advanced /\ data' = [data EXCEPT ![script.txIdx] = Sent]
            /\ script.txIdx \in TxIds
        <4>1. wallet.length \in TxIds
          BY <1>3, WalletAssumption DEF Submit, SubmitTransaction, TxIds, RunInv, ScriptInv,
                                        Inv, Good, WalletType
        <4> QED  BY <1>3, <2>2, <4>1 DEF Submit
      <3>2. Entered(data', script.call, past.runs)
        BY <2>1, <3>1 DEF RunInv, ScriptInv, ScriptTyped, Entered, Sent
      <3> QED  BY <2>1, <3>1, <3>2, PlaceAdvanced
    <2>3. CASE wallet.length # script.txIdx
      <3>1. ~ script'.running
        BY <1>1, <1>3, <2>3, ThrownTyped DEF Submit
      <3> QED  BY <3>1 DEF Place
    <2> QED  BY <2>2, <2>3
  <1>4. ASSUME script.running, script.step # 1, script.step < LastStep, script' = Advanced,
               past' = past, \A v \in States' : First \in v.isConfirmed[script.txIdx]
        PROVE  Place'
    <2>1. Entered(data', script.call, past.runs)
      BY <1>1, <1>4, DataStep DEF RunInv, Place, ScriptType
    <2> QED  BY <1>4, <2>1, PlaceAdvanced
  <1>5. CASE FirstConfirms
    <2>1. /\ script.running /\ script.step = 2 /\ stack = <<>> /\ LastStep \in {3, 5}
      BY <1>5, StandsAt DEF FirstConfirms
    <2>2. First \in wallet'.isConfirmed[script.txIdx]
      BY <1>5, KeyConfirms DEF FirstConfirms, Keys
    <2>3. States' = {wallet'}
      BY <1>5, <2>1 DEF FirstConfirms, ConfirmTransaction, States
    <2> QED  BY <1>4, <1>5, <2>1, <2>2, <2>3 DEF FirstConfirms
  <1>6. CASE Execute \/ ConfirmAgain
    <2>1. /\ script.running /\ script.step \in 3 .. LastStep - 1 /\ stack = <<>>
          /\ States = {wallet} /\ past' = past
      <3>1. PICK step \in {"execute", "again"} : AtStep(step)
        BY <1>6 DEF Execute, ConfirmAgain
      <3>2. step # "submit" /\ step # "confirm" /\ step # "second"
        BY <3>1
      <3>3. past' = past
        BY <1>6 DEF Execute, ConfirmAgain
      <3> QED  BY <3>1, <3>2, <3>3, StandsAt
    <2>2. CASE script' = Advanced /\ UNCHANGED vars
      <3>1. States' = {wallet}
        BY <2>1, <2>2 DEF vars, States
      <3>2. First \in wallet.isConfirmed[script.txIdx]
        BY <2>1 DEF RunInv, Place
      <3>3. script.step # 1 /\ script.step < LastStep
        BY <1>1, <2>1, StepNames DEF ScriptType, LastStep
      <3> QED  BY <1>4, <2>1, <2>2, <3>1, <3>2, <3>3
    <2>3. CASE script' = Thrown
      BY <1>1, <2>3, ThrownTyped DEF Place
    <2>4. CASE script' = [script EXCEPT !.waiting = TRUE]
      BY <1>1, <2>1, <2>4, PlaceKept DEF ScriptType
    <2> QED  BY <1>6, <2>2, <2>3, <2>4 DEF Execute, ConfirmAgain, vars
  <1>7. CASE SecondConfirms
    BY <1>1, <1>7, PlaceKept DEF SecondConfirms, ScriptType
  <1>8. CASE script' = Thrown \/ script' = [Thrown EXCEPT !.undisturbed = FALSE]
    BY <1>1, <1>8, ThrownTyped DEF Place, ScriptType
  <1>9. CASE Crash
    BY <1>1, <1>9 DEF Place, Crash, ScriptType
  <1>10. CASE Others \/ UNCHANGED scriptVars
    BY <1>1, <1>10, PlaceKept DEF Others, scriptVars, ScriptType, PastType
  <1>11. CASE CallReturns
    <2>1. CASE script' = script
      BY <1>11, <2>1, PlaceKept DEF CallReturns
    <2>2. CASE script' = Advanced /\ ~ script.running
      BY <1>1, <2>2, AdvancedPlace DEF Place
    <2>3. CASE script' = Advanced /\ script # Advanced /\ script.running
      <3>1. CallSucceeds /\ Answered /\ Steps(Calls[script.call])[script.step] = "second"
        BY <1>1, <1>8, <1>11, <2>3, AdvancedPlace, ThrownTyped DEF CallReturns, ScriptType
      <3>2. script.step \in 1 .. LastStep
        BY <2>3 DEF RunInv, Place
      <3>3. script.step = LastStep
        BY <3>1, <3>2, StepNames DEF LastStep
      <3>4. wallet.transactions[script.txIdx].executed
        BY <2>3, <3>1, <3>3 DEF RunInv, Calling, Answered
      <3>5. wallet' = wallet /\ Len(stack') = 0
        <4>1. Len(stack') = Len(stack) - 1 /\ Len(stack) = 1
          BY <3>1, StatesPopped DEF RunInv, ScriptInv, Answered
        <4> QED  BY <3>1, <4>1 DEF CallSucceeds
      <3>6. States' = {wallet}
        BY <3>5 DEF States
      <3> QED  BY <1>11, <2>3, <3>3, <3>4, <3>6, PlaceNext DEF CallReturns
    <2> QED  BY <1>8, <1>11, <2>1, <2>2, <2>3 DEF CallReturns
  <1>12. Confirm => FirstConfirms \/ script' = Thrown
    BY DEF Confirm, FirstConfirms
  <1>13. ConfirmSecond => SecondConfirms \/ script' = Thrown
    BY DEF ConfirmSecond, SecondConfirms
  <1>14. Unbuilt => script' = Thrown
    BY DEF Unbuilt
  <1> QED  BY <1>2, <1>3, <1>5, <1>6, <1>7, <1>8, <1>9, <1>10, <1>11, <1>12, <1>13, <1>14
            DEF ScriptNext, ScriptStep

\* The call of the last step stays marked until it comes back to the script.
LEMMA CallingStep ==
    ASSUME RunInv, [ScriptNext]_scriptVars
    PROVE  Calling'
  <1> SUFFICES ASSUME script'.running, script'.waiting, script'.step = LastStep'
               PROVE  /\ stack' # <<>>
                      /\ wallet'.transactions[script'.txIdx].executed
                      /\ \A k \in 2 .. Len(stack') :
                            stack'[k].transactions[script'.txIdx].executed
    BY DEF Calling
  <1>1. /\ script \in ScriptType /\ stack \in Seq(WalletType)
        /\ ~ Advanced.waiting /\ ~ Thrown.waiting /\ ~ [Thrown EXCEPT !.undisturbed = FALSE].waiting
    BY AdvancedPlace, ThrownTyped DEF RunInv, ScriptInv, ScriptTyped, Inv, Good, ScriptType
  <1>2. CASE SecondConfirms
    <2>1. script'.txIdx = script.txIdx
      BY <1>1, <1>2 DEF SecondConfirms, ScriptType
    <2>2. Len(stack') = 1 /\ stack' # <<>>
      <3>1. stack' = <<wallet>>
        BY <1>2, SecondStarts
      <3>2. Len(<<wallet>>) = 1 /\ <<wallet>> # <<>>
        OBVIOUS
      <3> QED  BY <3>1, <3>2
    <2> QED  BY <1>2, <2>1, <2>2, SecondStarts
  <1>3. ASSUME script' = script \/ script' = [script EXCEPT !.undisturbed = @ /\ ~ script.running]
        PROVE  /\ script.running /\ script.waiting /\ script.step = LastStep
               /\ script'.txIdx = script.txIdx /\ script.txIdx \in TxIds
               /\ stack # <<>> /\ wallet.transactions[script.txIdx].executed
               /\ \A k \in 2 .. Len(stack) : stack[k].transactions[script.txIdx].executed
    <2>1. /\ script'.running = script.running /\ script'.waiting = script.waiting
          /\ script'.step = script.step /\ script'.txIdx = script.txIdx
          /\ script'.call = script.call
      BY <1>1, <1>3 DEF ScriptType
    <2>2. script.running /\ script.waiting /\ script.step = LastStep
      BY <2>1 DEF LastStep
    <2>3. script.txIdx \in TxIds
      BY <2>2 DEF RunInv, ScriptInv, AtOwn
    <2> QED  BY <2>1, <2>2, <2>3 DEF RunInv, Calling
  <1>4. CASE CallReturns
    <2>1. script' = script /\ ~ Answered
      <3>1. script' \in {script, Advanced, Thrown, [Thrown EXCEPT !.undisturbed = FALSE]}
        BY <1>4 DEF CallReturns
      <3>2. script' = script
        BY <1>1, <3>1
      <3>3. Answered => script' \in {Advanced, Thrown, [Thrown EXCEPT !.undisturbed = FALSE]}
        BY <1>4 DEF CallReturns
      <3> QED  BY <1>1, <3>2, <3>3
    <2>2. /\ script.waiting /\ script'.txIdx = script.txIdx
          /\ stack # <<>> /\ wallet.transactions[script.txIdx].executed
          /\ \A k \in 2 .. Len(stack) : stack[k].transactions[script.txIdx].executed
      BY <1>3, <2>1
    <2>3. /\ Len(stack) \in Nat \ {0} /\ Len(stack') = Len(stack) - 1
          /\ \A k \in 1 .. Len(stack') : stack'[k] = stack[k]
          /\ wallet' = wallet \/ wallet' = stack[Len(stack)]
      BY <1>4, StatesPopped DEF CallReturns, RunInv, ScriptInv
    <2>4. Len(stack) > 1
      BY <2>1, <2>2, <2>3 DEF Answered
    <2>5. Len(stack) \in 2 .. Len(stack)
      BY <2>3, <2>4
    <2>6. wallet'.transactions[script.txIdx].executed
      BY <2>2, <2>3, <2>5
    <2>7. \A k \in 2 .. Len(stack') : stack'[k].transactions[script.txIdx].executed
      BY <2>2, <2>3
    <2>8. stack' # <<>>
      BY <2>3, <2>4
    <2> QED  BY <2>2, <2>6, <2>7, <2>8
  <1>5. CASE Others \/ UNCHANGED scriptVars
    <2>1. script' = script \/ script' = [script EXCEPT !.undisturbed = @ /\ ~ script.running]
      BY <1>5 DEF Others, scriptVars
    <2>2. /\ script'.txIdx = script.txIdx /\ script.txIdx \in TxIds
          /\ stack # <<>> /\ wallet.transactions[script.txIdx].executed
          /\ \A k \in 2 .. Len(stack) : stack[k].transactions[script.txIdx].executed
      BY <1>3, <2>1
    <2>3. stack' = stack \/ stack' = Append(stack, wallet)
      BY <1>5 DEF Others, scriptVars, SubmitTransaction, Receive, ConfirmTransaction,
                  RevokeConfirmation, ExecuteTransaction, StartCall
    <2>4. Grows(wallet, wallet')
      <3>1. OtherUse
        BY <1>5, WalletAssumption DEF Others, OtherUse, scriptVars, vars
      <3> QED  BY <3>1, OthersGrow DEF RunInv, ScriptInv
    <2>5. \A k \in 2 .. Len(stack') : stack'[k].transactions[script.txIdx].executed
      <3>1. ASSUME NEW k \in 2 .. Len(stack') PROVE stack'[k].transactions[script.txIdx].executed
        <4>1. CASE stack' = stack
          BY <2>2, <4>1
        <4>2. CASE stack' = Append(stack, wallet)
          <5>1. Len(stack') = Len(stack) + 1 /\ Len(stack) \in Nat
            BY <1>1, <4>2
          <5>2. stack'[k] = IF k = Len(stack) + 1 THEN wallet ELSE stack[k]
            BY <1>1, <4>2, <5>1
          <5>3. k = Len(stack) + 1 \/ k \in 2 .. Len(stack)
            BY <5>1
          <5> QED  BY <2>2, <5>2, <5>3
        <4> QED  BY <2>3, <4>1, <4>2
      <3> QED  BY <3>1
    <2>6. stack' # <<>>
      BY <1>1, <2>2, <2>3
    <2>7. wallet'.transactions[script.txIdx].executed
      BY <2>2, <2>4 DEF Grows
    <2> QED  BY <2>2, <2>5, <2>6, <2>7
  <1>6. CASE Start \/ Submit \/ Unbuilt \/ Crash
    <2>1. CASE Start
      BY <1>1, <2>1 DEF Start, Idle
    <2>2. CASE Submit
      BY <1>1, <2>2 DEF Submit
    <2>3. CASE Unbuilt \/ Crash
      BY <1>1, <2>3 DEF Unbuilt, Crash, ScriptType
    <2> QED  BY <1>6, <2>1, <2>2, <2>3
  <1>7. CASE Execute \/ ConfirmAgain
    <2>1. script' = [script EXCEPT !.waiting = TRUE]
      BY <1>1, <1>7 DEF Execute, ConfirmAgain
    <2>2. LastStep' = LastStep /\ script'.step = script.step
      BY <1>1, <2>1 DEF LastStep, ScriptType
    <2>3. PICK step \in {"execute", "again"} : AtStep(step)
      BY <1>7 DEF Execute, ConfirmAgain
    <2>4. step # "second"
      BY <2>3
    <2> QED  BY <2>2, <2>3, <2>4, StandsAt
  <1>8. CASE Confirm \/ (ConfirmSecond /\ script' = Thrown)
    BY <1>1, <1>8 DEF Confirm
  <1>9. ConfirmSecond => SecondConfirms \/ script' = Thrown
    BY DEF ConfirmSecond, SecondConfirms
  <1> QED  BY <1>2, <1>4, <1>5, <1>6, <1>7, <1>8, <1>9 DEF ScriptNext, ScriptStep

\* What the keys have confirmed stays the run's own, and executed in order.
LEMMA ConfirmedStep ==
    ASSUME RunInv, [ScriptNext]_scriptVars
    PROVE  \A v \in States' : FirstOwn(v)' /\ SecondDone(v)'
  <1>1. /\ Inv /\ script \in ScriptType
        /\ data \in [TxIds -> [run : Nat, call : Nat]]
        /\ \A w \in States : w \in WalletType /\ OwnedBy(data, w)
        /\ \A i \in TxIds : ByScript(i) => data'[i] = data[i]
    BY DataStep DEF RunInv, ScriptInv, ScriptTyped, Inv, Good, States
  <1>2. ASSUME NEW w \in States, NEW v \in States', Grows(w, v), NEW i \in TxIds,
               First \in w.isConfirmed[i]
        PROVE  FirstIdx \in TxIds /\ ByScript(FirstIdx)' /\ data'[i].run = data'[FirstIdx].run
    <2>1. FirstIdx \in TxIds /\ ByScript(FirstIdx) /\ data[i].run = data[FirstIdx].run
      BY <1>2 DEF RunInv, FirstOwn
    <2>2. ByScript(i)
      BY <1>1, <1>2 DEF OwnedBy, ByScript
    <2> QED  BY <1>1, <2>1, <2>2 DEF ByScript
  <1>3. ASSUME NEW w \in States, NEW v \in States', Grows(w, v), NEW i \in TxIds,
               Second \in w.isConfirmed[i]
        PROVE  DoneIn(data', v, data'[i].run, data'[i].call)
    <2>1. ByScript(i)
      BY <1>1, <1>3 DEF OwnedBy, ByScript
    <2>2. DoneIn(data, w, data[i].run, data[i].call) /\ data[i].call \in Nat
      BY <1>1, <1>3 DEF RunInv, SecondDone
    <2>3. DoneIn(data', v, data[i].run, data[i].call)
      BY <1>3, <2>2, DoneStep
    <2> QED  BY <1>1, <2>1, <2>3
  <1>4. CASE OtherStep
    <2>1. ASSUME NEW v \in States' PROVE FirstOwn(v)' /\ SecondDone(v)'
      <3>1. PICK w \in States : Grows(w, v) /\ SameKeys(w, v)
        BY <1>1, <1>4, OthersFollow
      <3>2. \A i \in TxIds : /\ First \in v.isConfirmed[i] => First \in w.isConfirmed[i]
                             /\ Second \in v.isConfirmed[i] => Second \in w.isConfirmed[i]
        BY <3>1 DEF SameKeys, Keys
      <3> QED  BY <1>2, <1>3, <3>1, <3>2 DEF FirstOwn, SecondDone
    <2> QED  BY <2>1
  <1>5. Submit => OtherStep
    BY DEF Submit, OtherStep, OtherUse
  <1>6. wallet \in States /\ Grows(wallet, wallet)
    BY <1>1 DEF States, Grows, WalletType
  <1>7. CASE FirstConfirms
    <2>1. /\ script.running /\ script.step = 2 /\ stack = <<>> /\ past.runs > 0
          /\ script.txIdx = FirstIdx + script.call - 1
      BY <1>7, StandsAt DEF FirstConfirms
    <2>2. States' = {wallet'}
      BY <1>7, <2>1 DEF FirstConfirms, ConfirmTransaction, States
    <2>3. /\ Grows(wallet, wallet')
          /\ \A i \in TxIds : wallet'.isConfirmed[i] =
               wallet.isConfirmed[i] \cup (IF i = script.txIdx THEN {First} ELSE {})
      BY <1>7, KeyConfirms DEF FirstConfirms, Keys
    <2>4. ASSUME NEW i \in TxIds, Second \in wallet'.isConfirmed[i]
          PROVE  DoneIn(data', wallet', data'[i].run, data'[i].call)
      <3>1. Second \in wallet.isConfirmed[i]
        BY <2>3, <2>4, KeysAssumption
      <3> QED  BY <1>3, <1>6, <2>2, <2>3, <3>1
    <2>5. /\ FirstIdx \in TxIds /\ ByScript(FirstIdx)
          /\ data[script.txIdx].run = data[FirstIdx].run
      <3>1. Entered(data, script.call, past.runs) /\ DoneIn(data, wallet, past.runs, script.call - 1)
        BY <1>6, <2>1 DEF RunInv, Place
      <3>2. Entered(data, 1, past.runs)
        <4>1. CASE script.call = 1
          BY <3>1, <4>1
        <4>2. CASE script.call # 1
          <5>1. 1 \in 1 .. script.call - 1
            BY <1>1, <4>2 DEF ScriptType
          <5> QED  BY <3>1, <5>1 DEF DoneIn
        <4> QED  BY <4>1, <4>2
      <3>3. FirstIdx + 1 - 1 = FirstIdx
        BY KeysAssumption
      <3>4. [run |-> past.runs, call |-> 1] # Nobody
        BY DEF Nobody
      <3> QED  BY <2>1, <3>1, <3>2, <3>3, <3>4 DEF Entered, ByScript
    <2>6. data' = data
      BY <1>7 DEF FirstConfirms
    <2>7. ASSUME NEW i \in TxIds, First \in wallet'.isConfirmed[i]
          PROVE  FirstIdx \in TxIds /\ ByScript(FirstIdx)' /\ data'[i].run = data'[FirstIdx].run
      <3>1. CASE i = script.txIdx
        BY <2>5, <2>6, <3>1 DEF ByScript
      <3>2. CASE First \in wallet.isConfirmed[i]
        BY <1>2, <1>6, <2>2, <2>3, <3>2
      <3> QED  BY <2>3, <2>7, <3>1, <3>2
    <2> QED  BY <2>2, <2>4, <2>7 DEF FirstOwn, SecondDone
  <1>8. CASE SecondConfirms
    <2>1. /\ script.running /\ script.step = LastStep /\ LastStep \in {3, 5} /\ stack = <<>>
          /\ script.txIdx = FirstIdx + script.call - 1
      BY <1>8, StandsAt DEF SecondConfirms
    <2>2. /\ stack' = <<wallet>> /\ script.txIdx \in TxIds
          /\ wallet'.transactions[script.txIdx].executed
      BY <1>8, SecondStarts
    <2>3. States' = {wallet, wallet'}
      <3>1. Len(stack') = 1 /\ stack'[1] = wallet
        BY <2>2
      <3>2. 1 .. 1 = {1}
        OBVIOUS
      <3> QED  BY <3>1, <3>2 DEF States
    <2>4. /\ Grows(wallet, wallet')
          /\ \A i \in TxIds : wallet'.isConfirmed[i] =
               wallet.isConfirmed[i] \cup (IF i = script.txIdx THEN {Second} ELSE {})
      BY <1>8, KeyConfirms DEF SecondConfirms, Keys
    <2>5. data' = data
      BY <1>8 DEF SecondConfirms
    <2>6. data[script.txIdx] = [run |-> past.runs, call |-> script.call]
          /\ Entered(data, script.call, past.runs)
      BY <2>1 DEF RunInv, Place, Entered
    <2>7. DoneIn(data', wallet', past.runs, script.call)
      <3>1. DoneIn(data, wallet, past.runs, script.call - 1) /\ script.call \in Nat \ {0}
        BY <1>1, <1>6, <2>1 DEF RunInv, Place, ScriptType
      <3>2. DoneIn(data', wallet', past.runs, script.call - 1)
        BY <1>6, <2>3, <2>4, <3>1, DoneStep
      <3>3. ASSUME NEW k \in 1 .. script.call
            PROVE  Entered(data', k, past.runs) /\ wallet'.transactions[FirstIdx + k - 1].executed
        <4>1. CASE k = script.call
          BY <2>1, <2>2, <2>5, <2>6, <4>1
        <4>2. CASE k # script.call
          <5>1. k \in 1 .. script.call - 1
            BY <3>1, <4>2
          <5> QED  BY <3>2, <5>1 DEF DoneIn
        <4> QED  BY <4>1, <4>2
      <3> QED  BY <3>3 DEF DoneIn
    <2>8. ASSUME NEW i \in TxIds, Second \in wallet'.isConfirmed[i]
          PROVE  DoneIn(data', wallet', data'[i].run, data'[i].call)
      <3>1. CASE i = script.txIdx
        BY <2>5, <2>6, <2>7, <3>1
      <3>2. CASE Second \in wallet.isConfirmed[i]
        BY <1>3, <1>6, <2>3, <2>4, <3>2
      <3> QED  BY <2>4, <2>8, <3>1, <3>2
    <2>9. ASSUME NEW i \in TxIds, First \in wallet'.isConfirmed[i]
          PROVE  FirstIdx \in TxIds /\ ByScript(FirstIdx)' /\ data'[i].run = data'[FirstIdx].run
      <3>1. First \in wallet.isConfirmed[i]
        BY <2>4, <2>9, KeysAssumption
      <3> QED  BY <1>2, <1>6, <2>3, <2>4, <3>1
    <2>10. \A v \in States' : FirstOwn(v)'
      <3>1. \A i \in TxIds : First \in wallet.isConfirmed[i] => First \in wallet'.isConfirmed[i]
        BY <2>4
      <3> QED  BY <2>3, <2>9, <3>1 DEF FirstOwn
    <2>11. \A v \in States' : SecondDone(v)'
      <3>1. \A i \in TxIds : Second \in wallet.isConfirmed[i] =>
               DoneIn(data', wallet, data'[i].run, data'[i].call)
        BY <1>3, <1>6, <2>3
      <3> QED  BY <2>3, <2>8, <3>1 DEF SecondDone
    <2> QED  BY <2>10, <2>11
  <1> QED  BY <1>4, <1>5, <1>7, <1>8, KindsOfStep DEF RunInv

LEMMA RunStep == RunInv /\ [ScriptNext]_scriptVars => RunInv'
  <1> SUFFICES ASSUME RunInv, [ScriptNext]_scriptVars PROVE RunInv'
    OBVIOUS
  <1>1. ScriptInv'
    BY ScriptStepInv DEF RunInv
  <1> QED  BY <1>1, DataStep, PlaceStep, CallingStep, ConfirmedStep DEF RunInv

LEMMA RunInit == ScriptInit => RunInv
  <1> SUFFICES ASSUME ScriptInit PROVE RunInv
    OBVIOUS
  <1>1. ScriptInv
    BY ScriptInitInv
  <1>2. Kept
    BY DEF ScriptInit, Kept, ByScript
  <1>3. Place /\ Calling
    BY DEF ScriptInit, Place, Calling, Idle
  <1>4. \A w \in States : FirstOwn(w) /\ SecondDone(w)
    <2>1. stack = <<>> /\ \A i \in TxIds : wallet.isConfirmed[i] = {}
      BY DEF ScriptInit, Init
    <2>2. States = {wallet}
      BY <2>1 DEF States
    <2> QED  BY <2>1, <2>2 DEF FirstOwn, SecondDone
  <1> QED  BY <1>1, <1>2, <1>3, <1>4 DEF RunInv

\* What was executed by a second confirmation was executed in the order of the script.
THEOREM CallsInOrder == ScriptSpec => []InOrder
  <1>1. RunInv => InOrder
    <2> SUFFICES ASSUME RunInv, NEW i \in TxIds, Second \in wallet.isConfirmed[i],
                        NEW k \in 1 .. data[i].call
                 PROVE  \E j \in TxIds : /\ data[j] = [run |-> data[i].run, call |-> k]
                                         /\ wallet.transactions[j].executed
      BY DEF InOrder
    <2>1. DoneIn(data, wallet, data[i].run, data[i].call)
      BY DEF RunInv, SecondDone, States
    <2> QED  BY <2>1 DEF DoneIn, Entered
  <1> QED  BY RunInit, RunStep, <1>1, PTL DEF ScriptSpec

\* Only one run ever gets to confirm.
THEOREM OneRunIsConfirmed == ScriptSpec => []OneRunConfirms
  <1>1. RunInv => OneRunConfirms
    <2> SUFFICES ASSUME RunInv, NEW i \in TxIds, NEW j \in TxIds,
                        First \in wallet.isConfirmed[i], First \in wallet.isConfirmed[j]
                 PROVE  data[i].run = data[j].run
      BY DEF OneRunConfirms
    <2> QED  BY DEF RunInv, FirstOwn, States
  <1> QED  BY RunInit, RunStep, <1>1, PTL DEF ScriptSpec

-----------------------------------------------------------------------------
(* A run that nobody disturbs.                                             *)

\* Of the script's own calls, and of nothing else, the script waits for the end.
LEMMA WaitsStep ==
    ASSUME RunInv, Waits, [ScriptNext]_scriptVars
    PROVE  Waits'
  <1>1. /\ script \in ScriptType
        /\ ~ Advanced.waiting /\ ~ Thrown.waiting /\ ~ [Thrown EXCEPT !.undisturbed = FALSE].waiting
    BY AdvancedPlace, ThrownTyped DEF RunInv, ScriptInv, ScriptTyped, ScriptType
  <1>2. ASSUME script' = [script EXCEPT !.waiting = TRUE], NEW step, AtStep(step)
        PROVE  Waits'
    BY <1>1, <1>2 DEF Waits, AtStep, ScriptType
  <1>3. CASE Execute \/ ConfirmSecond
    BY <1>1, <1>2, <1>3 DEF Execute, ConfirmSecond, Waits
  <1>4. CASE Submit \/ Unbuilt \/ Confirm \/ ConfirmAgain
    BY <1>1, <1>4 DEF Submit, Unbuilt, Confirm, ConfirmAgain, Waits
  <1>5. CASE Start
    BY <1>5 DEF Start, Idle, Waits
  <1>7. CASE Crash
    BY <1>1, <1>7 DEF Crash, Waits, ScriptType
  <1>8. CASE CallReturns
    BY <1>1, <1>8 DEF CallReturns, Waits
  <1>9. CASE Others \/ UNCHANGED scriptVars
    BY <1>1, <1>9 DEF Others, scriptVars, Waits, ScriptType
  <1> QED  BY <1>3, <1>4, <1>5, <1>7, <1>8, <1>9 DEF ScriptNext, ScriptStep

\* A run that has thrown has stopped.
LEMMA StoppedStep ==
    ASSUME RunInv, Stopped, [ScriptNext]_scriptVars
    PROVE  Stopped'
  <1>1. /\ script \in ScriptType
        /\ ~ Thrown.running /\ ~ [Thrown EXCEPT !.undisturbed = FALSE].running
        /\ Advanced.running = script.running /\ Advanced.threw = script.threw
    BY AdvancedPlace, ThrownTyped DEF RunInv, ScriptInv, ScriptTyped, ScriptType
  <1>2. CASE Start
    BY <1>2 DEF Start, Idle, Stopped
  <1>3. CASE script' \in {Thrown, [Thrown EXCEPT !.undisturbed = FALSE], Advanced, script}
    BY <1>1, <1>3 DEF Stopped
  <1>4. CASE \/ script' = [script EXCEPT !.waiting = TRUE]
             \/ script' = [script EXCEPT !.undisturbed = @ /\ ~ script.running]
             \/ script' = [script EXCEPT !.running = FALSE, !.waiting = FALSE]
    BY <1>1, <1>4 DEF Stopped, ScriptType
  <1>5. CASE Submit \/ Unbuilt \/ Confirm \/ Execute \/ ConfirmAgain \/ ConfirmSecond
    BY <1>3, <1>4, <1>5
      DEF Submit, Unbuilt, Confirm, Execute, ConfirmAgain, ConfirmSecond
  <1>6. CASE Crash \/ CallReturns \/ Others \/ UNCHANGED scriptVars
    BY <1>3, <1>4, <1>6 DEF Crash, CallReturns, Others, scriptVars
  <1> QED  BY <1>2, <1>5, <1>6 DEF ScriptNext, ScriptStep

\* While no run is started, what the one that has thrown had done stays done.
LEMMA ThrewKept ==
    ASSUME RunInv, Threw, [ScriptNext]_scriptVars, past'.runs = past.runs,
           script'.call = script.call, script'.threw = script.threw,
           script'.undisturbed = script.undisturbed
    PROVE  Threw'
  <1> SUFFICES ASSUME script.threw, script.undisturbed PROVE Threw'
    BY DEF Threw
  <1>1. script.call - 1 \in Nat
    BY DEF RunInv, ScriptInv, ScriptTyped, ScriptType
  <1>2. ASSUME NEW v \in States' PROVE DoneIn(data', v, past.runs, script.call - 1)
    <2>1. PICK w \in States : Grows(w, v)
      BY FollowStep
    <2> QED  BY <1>1, <2>1, DoneStep DEF Threw
  <1> QED  BY <1>2 DEF Threw, DoneIn, Entered

\* Where an undisturbed run stands at its next step.
LEMMA CalmAt ==
    ASSUME CalmInv, NEW step, AtStep(step), script.undisturbed = TRUE
    PROVE  /\ stack = <<>> /\ script.running /\ ~ script.waiting /\ script.txIdx \in Nat
           /\ wallet.length = script.txIdx + (IF script.step = 1 THEN 0 ELSE 1)
           /\ script.step # 1 =>
                /\ script.txIdx \in TxIds /\ txExists(script.txIdx) /\ notExecuted(script.txIdx)
                /\ wallet.isConfirmed[script.txIdx] = IF script.step = 2 THEN {} ELSE {First}
                /\ ~ CanCall(wallet, script.txIdx)
  <1>1. /\ stack = <<>> /\ script.running /\ ~ script.waiting /\ script.txIdx \in Nat
        /\ wallet.length = script.txIdx + (IF script.step = 1 THEN 0 ELSE 1)
    BY DEF CalmInv, AsExpected, AtStep, RunInv, ScriptInv, ScriptTyped, ScriptType
  <1>2. ASSUME script.step # 1
        PROVE  /\ script.txIdx \in TxIds /\ txExists(script.txIdx) /\ notExecuted(script.txIdx)
               /\ wallet.isConfirmed[script.txIdx] = IF script.step = 2 THEN {} ELSE {First}
    BY <1>1, <1>2 DEF CalmInv, AsExpected, RunInv, ScriptInv, AtOwn, txExists, notExecuted
  <1>3. ASSUME script.step # 1 PROVE ~ CanCall(wallet, script.txIdx)
    <2>1. wallet.transactions[script.txIdx].numConfirmations =
             Cardinality(wallet.isConfirmed[script.txIdx])
      BY <1>2, <1>3 DEF CalmInv, RunInv, ScriptInv, Inv, Good, TransactionOK
    <2>2. Cardinality({}) = 0 /\ Cardinality({First}) = 1
      BY FS_EmptySet, FS_Singleton
    <2>3. ~ (0 >= numConfirmationsRequired) /\ ~ (1 >= numConfirmationsRequired)
      BY KeysAssumption
    <2> QED  BY <1>2, <1>3, <2>1, <2>2, <2>3 DEF CanCall
  <1> QED  BY <1>1, <1>2, <1>3

\* Undisturbed, the script gets the index it counted to,
LEMMA CalmSubmit ==
    ASSUME CalmInv, script.undisturbed = TRUE, Submit
    PROVE  /\ script' = Advanced /\ script.step = 1 /\ stack' = <<>>
           /\ wallet.length = script.txIdx /\ wallet'.length = wallet.length + 1
           /\ wallet'.isConfirmed[script.txIdx] = {}
           /\ ~ wallet'.transactions[script.txIdx].executed
  <1>0. RunInv /\ Good(wallet) /\ wallet \in WalletType
    BY DEF CalmInv, RunInv, ScriptInv, Inv, Good
  <1>1. /\ stack = <<>> /\ script.step = 1 /\ wallet.length = script.txIdx
        /\ script.txIdx \in Nat
    <2>1. AtStep("submit")
      BY DEF Submit
    <2>2. script.step = 1
      BY <1>0, <2>1, StandsAt
    <2>3. /\ stack = <<>> /\ script.txIdx \in Nat
          /\ wallet.length = script.txIdx + (IF script.step = 1 THEN 0 ELSE 1)
      BY <2>1, CalmAt
    <2> QED  BY <2>2, <2>3
  <1>2. script' = Advanced /\ SubmitTransaction(0, 0)
    BY <1>1 DEF Submit
  <1>3. script.txIdx \in TxIds
    BY <1>1, <1>2, WalletAssumption DEF SubmitTransaction, TxIds
  <1>4. wallet.isConfirmed[script.txIdx] = {}
    BY <1>0, <1>1, <1>3 DEF Good, TransactionOK
  <1>5. /\ wallet'.length = wallet.length + 1 /\ stack' = stack
        /\ wallet'.isConfirmed = wallet.isConfirmed
        /\ wallet'.transactions =
             [wallet.transactions EXCEPT ![script.txIdx] = [Blank EXCEPT !.value = 0]]
    BY <1>0, <1>1, <1>2 DEF SubmitTransaction, WalletType
  <1>6. ~ wallet'.transactions[script.txIdx].executed
    BY <1>0, <1>3, <1>5 DEF Blank, WalletType
  <1> QED  BY <1>1, <1>2, <1>4, <1>5, <1>6

\* confirms it,
LEMMA CalmConfirm ==
    ASSUME CalmInv, script.undisturbed = TRUE, Confirm
    PROVE  /\ FirstConfirms /\ script.step = 2 /\ stack' = <<>>
           /\ wallet'.isConfirmed[script.txIdx] = {First}
           /\ ~ wallet'.transactions[script.txIdx].executed
           /\ wallet'.length = script.txIdx + 1
  <1>0. RunInv /\ Good(wallet) /\ wallet \in WalletType
    BY DEF CalmInv, RunInv, ScriptInv, Inv, Good
  <1>1. /\ stack = <<>> /\ script.step = 2 /\ script.txIdx \in TxIds /\ txExists(script.txIdx)
        /\ notExecuted(script.txIdx) /\ wallet.isConfirmed[script.txIdx] = {}
        /\ wallet.length = script.txIdx + 1
    BY <1>0, CalmAt, StandsAt DEF Confirm
  <1>2. FirstConfirms
    BY <1>1 DEF Confirm, FirstConfirms, Confirmable
  <1>3. /\ wallet'.length = wallet.length
        /\ wallet'.isConfirmed[script.txIdx] = {First}
    BY <1>0, <1>1, <1>2, KeyConfirms DEF FirstConfirms, Keys
  <1>4. wallet' = Confirmed(script.txIdx, First) /\ stack' = stack
    BY <1>2 DEF FirstConfirms, ConfirmTransaction
  <1>5. ~ wallet'.transactions[script.txIdx].executed
    BY <1>0, <1>1, <1>4 DEF Confirmed, notExecuted, WalletType, TransactionType
  <1> QED  BY <1>1, <1>2, <1>3, <1>4, <1>5

\* sees that one confirmation is not enough,
LEMMA CalmTries ==
    ASSUME CalmInv, script.undisturbed = TRUE, Execute \/ ConfirmAgain
    PROVE  script' = Advanced /\ UNCHANGED vars /\ script.step \in 3 .. LastStep - 1
  <1>0. RunInv /\ Good(wallet) /\ wallet \in WalletType
    BY DEF CalmInv, RunInv, ScriptInv, Inv, Good
  <1>1. PICK step \in {"execute", "again"} : AtStep(step)
    BY DEF Execute, ConfirmAgain
  <1>2. script.step # 1 /\ script.step \in 3 .. LastStep - 1
    <2>1. step # "submit" /\ step # "confirm" /\ step # "second"
      BY <1>1
    <2> QED  BY <1>0, <1>1, <2>1, StandsAt
  <1>3. /\ notExecuted(script.txIdx) /\ ~ CanCall(wallet, script.txIdx)
    BY <1>1, <1>2, CalmAt
  <1>4. script' = Advanced /\ UNCHANGED vars
    BY <1>3 DEF Execute, ConfirmAgain, ExecuteTransaction, StartCall, vars
  <1> QED  BY <1>2, <1>4

\* and that two are.
LEMMA CalmSecond ==
    ASSUME CalmInv, script.undisturbed = TRUE, ConfirmSecond
    PROVE  /\ SecondConfirms /\ script.step = LastStep /\ LastStep \in {3, 5}
           /\ Len(stack') = 1 /\ wallet'.length = script.txIdx + 1
  <1>0. RunInv /\ Good(wallet) /\ wallet \in WalletType
    BY DEF CalmInv, RunInv, ScriptInv, Inv, Good
  <1>1. /\ script.step = LastStep /\ LastStep \in {3, 5}
        /\ txExists(script.txIdx) /\ notExecuted(script.txIdx)
        /\ wallet.isConfirmed[script.txIdx] = {First}
        /\ wallet.length = script.txIdx + 1
    <2>1. script.step = LastStep /\ LastStep \in {3, 5}
      BY <1>0, StandsAt DEF ConfirmSecond
    <2>2. script.step # 1 /\ script.step # 2
      BY <2>1
    <2> QED  BY <2>1, <2>2, CalmAt DEF ConfirmSecond
  <1>2. SecondConfirms
    BY <1>1, KeysAssumption DEF ConfirmSecond, SecondConfirms, Confirmable
  <1>3. stack' = <<wallet>>
    BY <1>0, <1>2, SecondStarts
  <1>4. Len(<<wallet>>) = 1
    OBVIOUS
  <1>5. wallet'.length = wallet.length
    BY <1>0, <1>2, KeyConfirms DEF SecondConfirms, Keys
  <1> QED  BY <1>1, <1>2, <1>3, <1>4, <1>5

LEMMA CalmStep == CalmInv /\ [ScriptNext]_scriptVars => CalmInv'
  <1> SUFFICES ASSUME CalmInv, [ScriptNext]_scriptVars PROVE CalmInv'
    OBVIOUS
  <1>1. RunInv' /\ Waits' /\ Stopped'
    BY RunStep, WaitsStep, StoppedStep DEF CalmInv
  <1>2. /\ script \in ScriptType /\ wallet \in WalletType /\ stack \in Seq(WalletType)
        /\ stack' \in Seq(WalletType) /\ script' \in ScriptType
    BY <1>1 DEF CalmInv, RunInv, ScriptInv, ScriptTyped, Inv, Good
  <1> SUFFICES AsExpected' /\ Threw'
    BY <1>1 DEF CalmInv
  <1>3. CASE script'.undisturbed = FALSE
    BY <1>3 DEF AsExpected, Threw
  <1>4. CASE Start
    <2>1. /\ script'.call = 1 /\ script'.step = 1 /\ script'.txIdx = FirstIdx
          /\ ~ script'.waiting /\ ~ script'.threw
          /\ script'.undisturbed <=> (wallet.length = FirstIdx /\ stack = <<>>)
          /\ wallet' = wallet /\ stack' = stack
      BY <1>4 DEF Start, Idle
    <2>2. FirstIdx + 0 = FirstIdx
      BY KeysAssumption
    <2> QED  BY <2>1, <2>2 DEF AsExpected, Threw
  <1>5. ASSUME ~ script.running, ~ script'.running, script'.call = script.call,
               script'.threw = script.threw, script'.undisturbed = script.undisturbed,
               past'.runs = past.runs
        PROVE  AsExpected' /\ Threw'
    BY <1>5, ThrewKept DEF CalmInv, AsExpected
  <1>6. CASE Crash
    BY <1>2, <1>6 DEF Crash, ScriptType, CalmInv, Stopped, AsExpected, Threw
  <1>7. CASE Others
    <2>1. /\ script'.running = script.running /\ script'.threw = script.threw
          /\ script'.undisturbed = (script.undisturbed /\ ~ script.running)
          /\ script'.call = script.call /\ past'.runs = past.runs
      BY <1>2, <1>7 DEF Others, ScriptType, CalmInv, RunInv, ScriptInv, ScriptTyped, PastType
    <2>2. CASE script.running
      BY <2>1, <2>2 DEF AsExpected, Threw
    <2>3. CASE ~ script.running
      <3>1. script'.undisturbed = script.undisturbed
        BY <1>2, <2>1, <2>3 DEF ScriptType
      <3> QED  BY <1>5, <2>1, <2>3, <3>1
    <2> QED  BY <2>2, <2>3
  <1>8. CASE UNCHANGED scriptVars
    BY <1>8, ThrewKept DEF scriptVars, CalmInv, AsExpected, LastStep
  <1>9. ASSUME script.undisturbed = TRUE, script.running, script' = Advanced
        PROVE  Threw'
    BY <1>2, <1>9, AdvancedPlace DEF CalmInv, Stopped, Threw
  <1>10. LastStep \in {3, 5} /\ LastStep' \in {3, 5}
    BY StepNames DEF LastStep
  <1>11. ASSUME script.undisturbed = TRUE, script.step < LastStep, script' = Advanced,
                stack' = <<>>, wallet'.length = script.txIdx + 1,
                ~ wallet'.transactions[script.txIdx].executed,
                wallet'.isConfirmed[script.txIdx] = IF script.step = 1 THEN {} ELSE {First}
         PROVE  AsExpected'
    <2>1. /\ script'.step = script.step + 1 /\ script'.txIdx = script.txIdx /\ ~ script'.waiting
          /\ script.step \in Nat \ {0}
      BY <1>2, <1>11, AdvancedPlace DEF ScriptType
    <2>2. Len(stack') = 0
      BY <1>11
    <2> QED  BY <1>11, <2>1, <2>2 DEF AsExpected
  <1>19. CASE Unbuilt
    <2>1. /\ AtStep("submit") /\ ~ Builds(Calls[script.call]) /\ script' = Thrown
          /\ wallet' = wallet /\ stack' = stack /\ data' = data /\ past' = past
      BY <1>19 DEF Unbuilt
    <2>2. /\ script.running /\ script.call <= Len(Calls)
          /\ script'.call = script.call /\ ~ script'.running
      BY <1>2, <2>1 DEF AtStep, Thrown, ScriptType
    <2>3. States' = States
      BY <2>1 DEF States
    <2>4. \A w \in States : DoneIn(data, w, past.runs, script.call - 1)
      BY <2>2 DEF CalmInv, RunInv, Place
    <2> QED  BY <2>1, <2>2, <2>3, <2>4 DEF AsExpected, Threw, DoneIn, Entered
  <1>20. \A step : AtStep(step) => script.running
    BY DEF AtStep
  <1>12. ASSUME script.undisturbed = TRUE, Submit
         PROVE  AsExpected' /\ Threw'
    <2>1. /\ script' = Advanced /\ script.step = 1 /\ stack' = <<>>
          /\ wallet.length = script.txIdx /\ wallet'.length = wallet.length + 1
          /\ wallet'.isConfirmed[script.txIdx] = {}
          /\ ~ wallet'.transactions[script.txIdx].executed
      BY <1>12, CalmSubmit
    <2>2. script.step < LastStep
      BY <1>10, <2>1
    <2>3. script.running
      BY <1>12, <1>20 DEF Submit
    <2> QED  BY <1>9, <1>11, <1>12, <2>1, <2>2, <2>3
  <1>13. ASSUME script.undisturbed = TRUE, Confirm
         PROVE  AsExpected' /\ Threw'
    <2>1. /\ FirstConfirms /\ script.step = 2 /\ stack' = <<>>
          /\ wallet'.isConfirmed[script.txIdx] = {First}
          /\ ~ wallet'.transactions[script.txIdx].executed
          /\ wallet'.length = script.txIdx + 1
      BY <1>13, CalmConfirm
    <2>2. script.step < LastStep /\ script' = Advanced
      BY <1>10, <2>1 DEF FirstConfirms
    <2>3. (IF script.step = 1 THEN {} ELSE {First}) = {First}
      BY <2>1
    <2>4. AsExpected'
      BY <1>11, <1>13, <2>1, <2>2, <2>3
    <2>5. script.running
      BY <1>13, <1>20 DEF Confirm
    <2> QED  BY <1>9, <1>13, <2>2, <2>4, <2>5
  <1>14. ASSUME script.undisturbed = TRUE, Execute \/ ConfirmAgain
         PROVE  AsExpected' /\ Threw'
    <2>1. script' = Advanced /\ UNCHANGED vars /\ script.step \in 3 .. LastStep - 1
      BY <1>14, CalmTries
    <2>2. /\ stack = <<>> /\ wallet.length = script.txIdx + 1 /\ notExecuted(script.txIdx)
          /\ wallet.isConfirmed[script.txIdx] = {First}
      <3>1. PICK step : AtStep(step)
        BY <1>14 DEF Execute, ConfirmAgain
      <3>2. script.step # 1 /\ script.step # 2
        BY <1>10, <2>1
      <3> QED  BY <1>14, <3>1, <3>2, CalmAt
    <2>3. script.step < LastStep /\ script.step # 1
      BY <1>10, <2>1
    <2>4. /\ stack' = <<>> /\ wallet'.length = script.txIdx + 1
          /\ ~ wallet'.transactions[script.txIdx].executed
          /\ wallet'.isConfirmed[script.txIdx] = {First}
      BY <2>1, <2>2 DEF vars, notExecuted
    <2>5. script.running
      BY <1>14, <1>20 DEF Execute, ConfirmAgain
    <2> QED  BY <1>9, <1>11, <1>14, <2>1, <2>3, <2>4, <2>5
  <1>15. ASSUME script.undisturbed = TRUE, ConfirmSecond
         PROVE  AsExpected' /\ Threw'
    <2>1. /\ SecondConfirms /\ script.step = LastStep
          /\ Len(stack') = 1 /\ wallet'.length = script.txIdx + 1
      BY <1>15, CalmSecond
    <2>2. script' = [script EXCEPT !.waiting = TRUE]
      BY <2>1 DEF SecondConfirms
    <2>3. /\ script'.waiting /\ script'.step = script.step /\ script'.txIdx = script.txIdx
          /\ script'.call = script.call /\ script'.threw = script.threw
          /\ script'.undisturbed = script.undisturbed
      BY <1>2, <2>2 DEF ScriptType
    <2>4. LastStep' = LastStep
      BY <2>3 DEF LastStep
    <2>5. script.step # 1
      BY <1>10, <2>1
    <2>6. AsExpected'
      BY <2>1, <2>3, <2>4, <2>5 DEF AsExpected
    <2>7. script.running
      BY <1>15, <1>20 DEF ConfirmSecond
    <2> QED  BY <2>3, <2>6, <2>7 DEF Threw, Stopped, CalmInv
  <1>16. ASSUME script.undisturbed = TRUE, CallReturns
         PROVE  AsExpected' /\ Threw'
    <2>1. stack # <<>> /\ (CallSucceeds \/ CallFails)
      BY <1>16 DEF CallReturns, CallSucceeds, CallFails
    <2>2. CASE Answered
      <3>1. /\ script.running /\ script.waiting /\ script.step = LastStep
            /\ wallet.length = script.txIdx + 1 /\ script.txIdx \in Nat
        BY <1>2, <1>10, <1>16, <2>2 DEF Answered, CalmInv, Waits, AsExpected, ScriptType
      <3>2. Steps(Calls[script.call])[script.step] = "second"
        BY <1>10, <3>1, StepNames DEF LastStep
      <3>3. \/ CallSucceeds /\ script' = Advanced
            \/ script' = [Thrown EXCEPT !.undisturbed = FALSE]
        BY <1>16, <2>2, <3>2 DEF CallReturns
      <3>4. CASE script' = [Thrown EXCEPT !.undisturbed = FALSE]
        BY <1>2, <1>3, <3>4 DEF Thrown, ScriptType
      <3>5. CASE CallSucceeds /\ script' = Advanced
        <4>1. script'.step = 1 /\ script'.txIdx = script.txIdx + 1 /\ ~ script'.waiting
          BY <1>2, <1>10, <3>1, <3>5, AdvancedPlace
        <4>2. Len(stack') = 0 /\ wallet' = wallet
          <5>1. Len(stack') = Len(stack) - 1 /\ Len(stack) = 1
            BY <2>1, <2>2, StatesPopped DEF Answered, CalmInv, RunInv, ScriptInv
          <5> QED  BY <3>5, <5>1 DEF CallSucceeds
        <4>3. script'.txIdx + 0 = script'.txIdx
          BY <1>2 DEF ScriptType
        <4>4. AsExpected'
          BY <3>1, <4>1, <4>2, <4>3 DEF AsExpected
        <4> QED  BY <1>9, <1>16, <3>1, <3>5, <4>4
      <3> QED  BY <3>3, <3>4, <3>5
    <2>3. CASE ~ Answered
      <3>1. script' = script
        BY <1>16, <2>3 DEF CallReturns
      <3>2. ~ script.running
        <4>1. CASE script.running
          <5>1. Len(stack) = IF script.waiting THEN 1 ELSE 0
            BY <1>16, <4>1 DEF CalmInv, AsExpected
          <5>2. Len(stack) # 0
            BY <1>2, <2>1
          <5> QED  BY <2>3, <5>1, <5>2 DEF Answered
        <4> QED  BY <4>1
      <3>3. past' = past
        BY <1>16 DEF CallReturns
      <3> QED  BY <1>5, <3>1, <3>2, <3>3
    <2> QED  BY <2>2, <2>3
  <1>17. CASE script.undisturbed = FALSE
    <2>1. CASE script' \in {script, Advanced, Thrown, [script EXCEPT !.waiting = TRUE]}
      BY <1>2, <1>3, <1>17, <2>1, AdvancedPlace DEF Thrown, ScriptType
    <2>2. CASE script' = [Thrown EXCEPT !.undisturbed = FALSE]
      BY <1>2, <1>3, <2>2 DEF Thrown, ScriptType
    <2>3. CASE Submit \/ Confirm \/ Execute \/ ConfirmAgain \/ ConfirmSecond \/ CallReturns
      BY <2>1, <2>2, <2>3 DEF Submit, Confirm, Execute, ConfirmAgain, ConfirmSecond, CallReturns
    <2> QED  BY <1>4, <1>6, <1>7, <1>8, <1>19, <2>3 DEF ScriptNext, ScriptStep
  <1>18. script.undisturbed \in BOOLEAN
    BY <1>2 DEF ScriptType
  <1> QED  BY <1>4, <1>6, <1>7, <1>8, <1>12, <1>13, <1>14, <1>15, <1>16, <1>17, <1>18, <1>19
            DEF ScriptNext, ScriptStep

LEMMA CalmInit == ScriptInit => CalmInv
  BY RunInit DEF ScriptInit, Idle, CalmInv, Waits, Stopped, AsExpected, Threw

\* A run that finds its index, is let alone and whose calls succeed throws only at a
\* call it cannot build, with all those before it executed for good.
THEOREM UndisturbedRunGetsThere == ScriptSpec => []UndisturbedGetsThere
  <1>1. CalmInv => UndisturbedGetsThere
    <2> SUFFICES ASSUME CalmInv, script.threw, script.undisturbed,
                        NEW k \in 1 .. script.call - 1
                 PROVE  \E i \in TxIds : /\ data[i] = [run |-> past.runs, call |-> k]
                                         /\ wallet.transactions[i].executed
      BY DEF CalmInv, Threw, UndisturbedGetsThere
    <2>1. DoneIn(data, wallet, past.runs, script.call - 1)
      BY DEF CalmInv, Threw, States
    <2> QED  BY <2>1 DEF DoneIn, Entered
  <1> QED  BY CalmInit, CalmStep, <1>1, PTL DEF ScriptSpec
=============================================================================
