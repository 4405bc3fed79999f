----------------------------- MODULE OdosProofs -----------------------------
(***************************************************************************)
(* What holds of the swaps, for any number of them, side by side and       *)
(* across crashes: what the router takes, and which swaps succeed.         *)
(***************************************************************************)
EXTENDS OdosSwap, Arithmetic

States == InFlight \cup {"unasked", "done", "failed"}

SwapType == [at : States, token : Tokens, amount : Amounts, alone : BOOLEAN]

OdosTypeOK ==
    /\ ethers \in {5, 6}
    /\ swap \in [Swaps -> SwapType]
    /\ allowance \in [Tokens -> 0 .. MaxAmount]
    /\ pending \in Seq([by : Swaps, op : {"approve", "swap"}])
    /\ spent \in [Tokens -> Nat]
    /\ faults \in Nat

Who(at) == {p \in Swaps : swap[p].at = at}

\* The swap that sent a transaction waits for it, or died; and none is sent twice.
PendingInv ==
    /\ \A k \in DOMAIN pending :
          \/ swap[pending[k].by].at = IF pending[k].op = "approve" THEN "approving" ELSE "mining"
          \/ swap[pending[k].by].at = "failed" /\ faults > 0
    /\ \A k, l \in DOMAIN pending : pending[k] = pending[l] => k = l

\* With version 6, nothing gets beyond the comparison.
Version6 ==
    ethers = 6 => /\ pending = <<>>
                  /\ \A p \in Swaps : swap[p].at \in {"unasked", "allowance", "failed"}

\* The router took the amounts of X, and will not again: X are the swaps that
\* succeeded, and some that died while their transaction was pending.
TookFrom(X) ==
    /\ Who("done") \subseteq X /\ X \subseteq Who("done") \cup Who("failed")
    /\ faults = 0 => X = Who("done")
    /\ \A k \in DOMAIN pending : pending[k].op = "swap" => pending[k].by \notin X
    /\ \A t \in Tokens : spent[t] = AmountsOf({p \in X : swap[p].token = t})

SpentInv == \E X \in SUBSET Swaps : TookFrom(X)

\* It has the allowance to itself, and is covered once it is approved.
ToItself(p) ==
    /\ swap[p].at # "failed"
    /\ swap[p].at \in InFlight =>
          \A q \in Swaps : (swap[q].token = swap[p].token /\ swap[q].at \in InFlight) => q = p
    /\ swap[p].at \in {"quote", "assemble", "send", "mining"} =>
          allowance[swap[p].token] >= swap[p].amount

AloneInv == faults = 0 /\ ethers = 5 => \A p \in Swaps : swap[p].alone = TRUE => ToItself(p)

\* A swap that has yet to be approved, or is covered, or is done.
Hope(p) ==
    \/ swap[p].at \in {"allowance", "approve", "approving", "done"}
    \/ swap[p].at \in {"quote", "assemble", "send", "mining"} /\ Covered(p)

\* There is hope for one of the swaps of each token that was asked for.
HopeInv ==
    faults = 0 /\ ethers = 5 =>
       \A t \in Tokens :
          (\E p \in Swaps : swap[p].token = t /\ swap[p].at # "unasked") =>
             \E p \in Swaps : swap[p].token = t /\ Hope(p)

OdosInv == OdosTypeOK /\ PendingInv /\ Version6 /\ SpentInv /\ AloneInv /\ HopeInv

-----------------------------------------------------------------------------
(* The steps.                                                              *)

\* A swap that goes on keeps the rest of what it is, and so do the others.
LEMMA Moved ==
    ASSUME OdosTypeOK, NEW p \in Swaps, NEW to \in States,
           swap' = [swap EXCEPT ![p].at = to]
    PROVE  /\ swap' \in [Swaps -> SwapType]
           /\ swap'[p].at = to
           /\ \A q \in Swaps : /\ swap'[q].token = swap[q].token
                               /\ swap'[q].amount = swap[q].amount
                               /\ swap'[q].alone = swap[q].alone
           /\ \A q \in Swaps \ {p} : swap'[q] = swap[q]
  BY DEF OdosTypeOK, SwapType

\* The steps of a swap that send nothing: from where to where, and when.
Turn(p, from, to) ==
    /\ from = "allowance" => to = IF ethers = 6 THEN "failed"
                                  ELSE IF Covered(p) THEN "quote" ELSE "approve"
    /\ from = "quote" => to = "assemble" \/ (to = "failed" /\ faults' = faults + 1)
    /\ from = "assemble" => to = "send" \/ (to = "failed" /\ faults' = faults + 1)
    /\ from = "send" => to = "failed" /\ ~ Covered(p)

Turns(p) ==
    /\ \E from \in {"allowance", "quote", "assemble", "send"}, to \in States :
          Goes(p, from, to) /\ Turn(p, from, to)
    /\ faults' \in {faults, faults + 1}
    /\ UNCHANGED <<ethers, allowance, pending, spent>>

\* Those that send a transaction.
Sends(p) ==
    /\ \/ Goes(p, "approve", "approving") /\ pending' = Append(pending, [by |-> p, op |-> "approve"])
       \/ Goes(p, "send", "mining") /\ pending' = Append(pending, [by |-> p, op |-> "swap"])
    /\ UNCHANGED <<ethers, allowance, spent, faults>>

LEMMA StepKinds ==
    ASSUME OdosTypeOK, NEW p \in Swaps, Own(p) \/ getQuote(p) \/ getSwapTransaction(p)
    PROVE  Turns(p) \/ Sends(p)
  <1>0. /\ swap[p].token \in Tokens /\ swap[p].amount \in Nat
        /\ allowance[swap[p].token] \in Nat /\ faults \in Nat
    BY SwapsAssumption DEF OdosTypeOK, SwapType, Amounts
  <1>1. CASE ReadAllowance(p)
    <2>1. (allowance[swap[p].token] < swap[p].amount) <=> ~ Covered(p)
      BY <1>0 DEF Covered
    <2> DEFINE to == IF ethers = 6 THEN "failed"
                     ELSE IF allowance[swap[p].token] < swap[p].amount THEN "approve" ELSE "quote"
    <2>2. to \in States
      BY DEF States, InFlight
    <2>3. Turn(p, "allowance", to)
      BY <2>1 DEF Turn
    <2>4. Goes(p, "allowance", to) /\ UNCHANGED <<ethers, allowance, pending, spent, faults>>
      BY <1>1 DEF ReadAllowance
    <2> HIDE DEF to
    <2> QED  BY <2>2, <2>3, <2>4 DEF Turns
  <1>2. CASE Approve(p)
    BY <1>2 DEF Approve, Sends
  <1>3. ASSUME NEW from \in {"quote", "assemble", "send"}, NEW to \in States,
               Goes(p, from, to), Turn(p, from, to), faults' \in {faults, faults + 1},
               UNCHANGED <<ethers, allowance, pending, spent>>
        PROVE  Turns(p)
    BY <1>3 DEF Turns
  <1>4. "assemble" \in States /\ "send" \in States /\ "failed" \in States
    BY DEF States, InFlight
  <1>5. CASE getQuote(p)
    <2>1. CASE Goes(p, "quote", "assemble") /\ UNCHANGED faults
      <3>1. Turn(p, "quote", "assemble")
        BY DEF Turn
      <3> QED  BY <1>3, <1>4, <1>5, <2>1, <3>1 DEF getQuote
    <2>2. CASE Goes(p, "quote", "failed") /\ Faulty
      <3>1. Turn(p, "quote", "failed")
        BY <2>2 DEF Turn, Faulty
      <3> QED  BY <1>3, <1>4, <1>5, <2>2, <3>1 DEF getQuote, Faulty
    <2> QED  BY <1>5, <2>1, <2>2 DEF getQuote
  <1>6. CASE getSwapTransaction(p)
    <2>1. CASE Goes(p, "assemble", "send") /\ UNCHANGED faults
      <3>1. Turn(p, "assemble", "send")
        BY DEF Turn
      <3> QED  BY <1>3, <1>4, <1>6, <2>1, <3>1 DEF getSwapTransaction
    <2>2. CASE Goes(p, "assemble", "failed") /\ Faulty
      <3>1. Turn(p, "assemble", "failed")
        BY <2>2 DEF Turn, Faulty
      <3> QED  BY <1>3, <1>4, <1>6, <2>2, <3>1 DEF getSwapTransaction, Faulty
    <2> QED  BY <1>6, <2>1, <2>2 DEF getSwapTransaction
  <1>7. CASE SendSwap(p)
    <2>1. CASE /\ Goes(p, "send", "mining")
               /\ pending' = Append(pending, [by |-> p, op |-> "swap"])
      BY <1>7, <2>1 DEF SendSwap, Sends
    <2>2. CASE ~ Covered(p) /\ Goes(p, "send", "failed") /\ UNCHANGED pending
      <3>1. Turn(p, "send", "failed")
        BY <2>2 DEF Turn
      <3> QED  BY <1>3, <1>4, <1>7, <2>2, <3>1 DEF SendSwap
    <2> QED  BY <1>7, <2>1, <2>2 DEF SendSwap
  <1> QED  BY <1>1, <1>2, <1>5, <1>6, <1>7 DEF Own

\* A sequence without its head.
LEMMA TailOf ==
    ASSUME NEW S, NEW s \in Seq(S), s # <<>>
    PROVE  /\ 1 \in DOMAIN s /\ s[1] = Head(s) /\ Tail(s) \in Seq(S)
           /\ \A k \in DOMAIN Tail(s) : /\ k + 1 \in DOMAIN s /\ k + 1 # 1
                                        /\ Tail(s)[k] = s[k + 1]
  OBVIOUS

\* The first pending transaction, and those behind it.
LEMMA Mined ==
    ASSUME OdosTypeOK, PendingInv, NEW p \in Swaps, NEW op \in {"approve", "swap"},
           pending # <<>>, Head(pending) = [by |-> p, op |-> op], pending' = Tail(pending)
    PROVE  /\ \/ swap[p].at = IF op = "approve" THEN "approving" ELSE "mining"
              \/ swap[p].at = "failed" /\ faults > 0
           /\ pending' \in Seq([by : Swaps, op : {"approve", "swap"}])
           /\ \A k \in DOMAIN pending' : /\ k + 1 \in DOMAIN pending
                                         /\ pending'[k] = pending[k + 1]
                                         /\ pending'[k] # [by |-> p, op |-> op]
           /\ 1 \in DOMAIN pending /\ pending[1] = [by |-> p, op |-> op]
  <1> DEFINE S == [by : Swaps, op : {"approve", "swap"}]
  <1>a. pending \in Seq(S)
    BY DEF OdosTypeOK
  <1> HIDE DEF S
  <1>1. 1 \in DOMAIN pending /\ pending[1] = [by |-> p, op |-> op]
    BY <1>a, TailOf
  <1>2. \A k \in DOMAIN pending' : /\ k + 1 \in DOMAIN pending /\ k + 1 # 1
                                   /\ pending'[k] = pending[k + 1]
    BY <1>a, TailOf
  <1>3. pending' \in Seq(S)
    BY <1>a, TailOf
  <1>4. \/ swap[p].at = IF op = "approve" THEN "approving" ELSE "mining"
        \/ swap[p].at = "failed" /\ faults > 0
    BY <1>1 DEF PendingInv
  <1>5. \A k \in DOMAIN pending' : pending'[k] # [by |-> p, op |-> op]
    BY <1>1, <1>2 DEF PendingInv
  <1> QED  BY <1>1, <1>2, <1>3, <1>4, <1>5 DEF S

\* What is pending after a transaction was sent.
LEMMA Appended ==
    ASSUME OdosTypeOK, NEW p \in Swaps, NEW op \in {"approve", "swap"},
           pending' = Append(pending, [by |-> p, op |-> op])
    PROVE  /\ pending' \in Seq([by : Swaps, op : {"approve", "swap"}])
           /\ \A k \in DOMAIN pending' :
                 \/ k \in DOMAIN pending /\ pending'[k] = pending[k]
                 \/ k = Len(pending) + 1 /\ pending'[k] = [by |-> p, op |-> op]
           /\ \A k \in DOMAIN pending : k \in DOMAIN pending' /\ pending'[k] = pending[k]
           /\ Len(pending) + 1 \in DOMAIN pending'
           /\ pending'[Len(pending) + 1] = [by |-> p, op |-> op]
  BY DEF OdosTypeOK

\* A swap is asked for.
LEMMA AskFacts ==
    ASSUME OdosTypeOK, NEW p \in Swaps, NEW token \in Tokens, NEW amount \in Amounts,
           swapTokenToUSDm(p, token, amount)
    PROVE  /\ swap' \in [Swaps -> SwapType]
           /\ swap[p].at = "unasked" /\ swap'[p].at = "allowance"
           /\ swap'[p].token = token /\ swap'[p].amount = amount
           /\ swap'[p].alone = TRUE => UnderWay(token) = {}
           /\ \A q \in Swaps \ {p} : /\ swap'[q].at = swap[q].at /\ swap'[q].token = swap[q].token
                                     /\ swap'[q].amount = swap[q].amount
                                     /\ q \in UnderWay(token) => swap'[q].alone = FALSE
                                     /\ q \notin UnderWay(token) => swap'[q] = swap[q]
           /\ UNCHANGED <<ethers, allowance, pending, spent, faults>>
  <1> DEFINE new(q) == IF q = p THEN Asked(token, amount, UnderWay(token) = {})
                       ELSE IF q \in UnderWay(token) THEN [swap[q] EXCEPT !.alone = FALSE]
                       ELSE swap[q]
  <1>1. /\ swap[p].at = "unasked" /\ swap' = [q \in Swaps |-> new(q)]
        /\ UNCHANGED <<ethers, allowance, pending, spent, faults>>
    BY DEF swapTokenToUSDm
  <1>2. \A q \in Swaps : swap[q] \in SwapType
    BY DEF OdosTypeOK
  <1>3. /\ new(p) \in SwapType /\ new(p).at = "allowance" /\ new(p).token = token
        /\ new(p).amount = amount /\ new(p).alone = (UnderWay(token) = {})
    BY DEF Asked, SwapType, States, InFlight
  <1>4. \A q \in Swaps \ {p} : /\ new(q) \in SwapType
                               /\ new(q).at = swap[q].at /\ new(q).token = swap[q].token
                               /\ new(q).amount = swap[q].amount
                               /\ q \in UnderWay(token) => new(q).alone = FALSE
                               /\ q \notin UnderWay(token) => new(q) = swap[q]
    BY <1>2 DEF SwapType
  <1> HIDE DEF new
  <1> QED  BY <1>1, <1>3, <1>4

\* The approval at the head is mined.
LEMMA ApprovalFacts ==
    ASSUME OdosTypeOK, PendingInv, NEW p \in Swaps, MineApproval(p)
    PROVE  /\ \/ swap[p].at = "approving" /\ swap'[p].at = "quote"
              \/ swap[p].at = "failed" /\ swap'[p].at = "failed" /\ faults > 0
           /\ swap'[p].at \in States /\ swap' = [swap EXCEPT ![p].at = swap'[p].at]
           /\ allowance' = [allowance EXCEPT ![swap[p].token] = swap[p].amount]
           /\ UNCHANGED <<ethers, spent, faults>>
  <1>1. /\ pending # <<>> /\ Head(pending) = [by |-> p, op |-> "approve"]
        /\ pending' = Tail(pending)
        /\ swap' = [swap EXCEPT ![p].at = IF @ = "approving" THEN "quote" ELSE @]
        /\ allowance' = [allowance EXCEPT ![swap[p].token] = swap[p].amount]
        /\ UNCHANGED <<ethers, spent, faults>>
    BY DEF MineApproval, Learns
  <1>2. swap[p].at = "approving" \/ (swap[p].at = "failed" /\ faults > 0)
    BY <1>1, Mined
  <1> QED  BY <1>1, <1>2 DEF OdosTypeOK, SwapType, States, InFlight

\* The swap at the head is mined: the router takes the amount, or it does not.
Taken(p) ==
    /\ Covered(p)
    /\ allowance' = [allowance EXCEPT ![swap[p].token] = @ - swap[p].amount]
    /\ spent' = [spent EXCEPT ![swap[p].token] = @ + swap[p].amount]
    /\ swap'[p].at = (IF swap[p].at = "mining" THEN "done" ELSE "failed")
    /\ UNCHANGED faults

NotTaken(p) ==
    /\ Covered(p) => faults' = faults + 1
    /\ faults' \in {faults, faults + 1}
    /\ swap'[p].at = "failed"
    /\ UNCHANGED <<allowance, spent>>

LEMMA SwapFacts ==
    ASSUME OdosTypeOK, PendingInv, NEW p \in Swaps, MineSwap(p)
    PROVE  /\ swap[p].at = "mining" \/ (swap[p].at = "failed" /\ faults > 0)
           /\ swap'[p].at \in States /\ swap' = [swap EXCEPT ![p].at = swap'[p].at]
           /\ Taken(p) \/ NotTaken(p)
           /\ UNCHANGED ethers
  <1>1. /\ pending # <<>> /\ Head(pending) = [by |-> p, op |-> "swap"]
        /\ pending' = Tail(pending) /\ UNCHANGED ethers
    BY DEF MineSwap
  <1>2. swap[p].at = "mining" \/ (swap[p].at = "failed" /\ faults > 0)
    BY <1>1, Mined
  <1>3. CASE /\ Covered(p)
             /\ allowance' = [allowance EXCEPT ![swap[p].token] = @ - swap[p].amount]
             /\ spent' = [spent EXCEPT ![swap[p].token] = @ + swap[p].amount]
             /\ Learns(p, "mining", "done")
             /\ UNCHANGED faults
    <2>1. swap' = [swap EXCEPT ![p].at = IF @ = "mining" THEN "done" ELSE @]
      BY <1>3 DEF Learns
    <2>2. /\ swap'[p].at = (IF swap[p].at = "mining" THEN "done" ELSE "failed")
          /\ swap'[p].at \in States /\ swap' = [swap EXCEPT ![p].at = swap'[p].at]
      BY <1>2, <2>1 DEF OdosTypeOK, SwapType, States, InFlight
    <2> QED  BY <1>1, <1>2, <1>3, <2>2 DEF Taken
  <1>4. CASE /\ IF Covered(p) THEN Faulty ELSE UNCHANGED faults
             /\ Learns(p, "mining", "failed")
             /\ UNCHANGED <<allowance, spent>>
    <2>1. swap' = [swap EXCEPT ![p].at = IF @ = "mining" THEN "failed" ELSE @]
      BY <1>4 DEF Learns
    <2>2. /\ swap'[p].at = "failed"
          /\ swap'[p].at \in States /\ swap' = [swap EXCEPT ![p].at = swap'[p].at]
      BY <1>2, <2>1 DEF OdosTypeOK, SwapType, States, InFlight
    <2>3. (Covered(p) => faults' = faults + 1) /\ faults' \in {faults, faults + 1}
      BY <1>4 DEF Faulty
    <2> QED  BY <1>1, <1>2, <1>4, <2>2, <2>3 DEF NotTaken
  <1> QED  BY <1>3, <1>4 DEF MineSwap

\* The process dies.
LEMMA CrashFacts ==
    ASSUME OdosTypeOK, Crash
    PROVE  /\ swap' \in [Swaps -> SwapType] /\ faults' = faults + 1 /\ faults' > 0
           /\ \A p \in Swaps : /\ swap'[p].at = IF swap[p].at \in InFlight THEN "failed"
                                                ELSE swap[p].at
                               /\ swap'[p].token = swap[p].token
                               /\ swap'[p].amount = swap[p].amount
           /\ UNCHANGED <<ethers, allowance, pending, spent>>
  <1> DEFINE new(p) == IF swap[p].at \in InFlight THEN [swap[p] EXCEPT !.at = "failed"]
                       ELSE swap[p]
  <1>1. /\ swap' = [p \in Swaps |-> new(p)] /\ faults' = faults + 1
        /\ UNCHANGED <<ethers, allowance, pending, spent>>
    BY DEF Crash, Faulty
  <1>2. \A p \in Swaps : swap[p] \in SwapType
    BY DEF OdosTypeOK
  <1>3. \A p \in Swaps : /\ new(p) \in SwapType
                         /\ new(p).at = IF swap[p].at \in InFlight THEN "failed"
                                        ELSE swap[p].at
                         /\ new(p).token = swap[p].token
                         /\ new(p).amount = swap[p].amount
    BY <1>2 DEF SwapType, States
  <1>4. faults' > 0
    BY <1>1 DEF OdosTypeOK
  <1> HIDE DEF new
  <1> QED  BY <1>1, <1>3, <1>4

\* A step is one of these.
LEMMA NextKinds ==
    ASSUME OdosTypeOK, [Next]_vars
    PROVE  \/ \E p \in Swaps : \/ \E token \in Tokens, amount \in Amounts :
                                     swapTokenToUSDm(p, token, amount)
                               \/ Turns(p) \/ Sends(p) \/ MineApproval(p) \/ MineSwap(p)
           \/ Crash \/ UNCHANGED vars
  BY StepKinds DEF Next, Ask, Mine

\* The version stays, and faults are counted.
LEMMA EthersStays == ASSUME [Next]_vars PROVE UNCHANGED ethers
  BY DEF Next, vars, Ask, Own, Mine, swapTokenToUSDm, ReadAllowance, Approve, SendSwap,
         getQuote, getSwapTransaction, MineApproval, MineSwap, Crash

LEMMA FaultsRise == ASSUME [Next]_vars PROVE faults' \in {faults, faults + 1}
  BY DEF Next, vars, Ask, Own, Mine, swapTokenToUSDm, ReadAllowance, Approve, SendSwap,
         getQuote, getSwapTransaction, MineApproval, MineSwap, Crash, Faulty

-----------------------------------------------------------------------------
(* Types, and what is pending.                                             *)

LEMMA TypeStep ==
    ASSUME OdosTypeOK, PendingInv, [Next]_vars
    PROVE  OdosTypeOK'
  <1>1. CASE \E p \in Swaps, token \in Tokens, amount \in Amounts :
                swapTokenToUSDm(p, token, amount)
    BY <1>1, AskFacts DEF OdosTypeOK
  <1>2. ASSUME NEW p \in Swaps, Turns(p) PROVE OdosTypeOK'
    <2>1. swap' \in [Swaps -> SwapType]
      BY <1>2, Moved DEF Turns, Goes
    <2> QED  BY <1>2, <2>1 DEF Turns, OdosTypeOK
  <1>3. ASSUME NEW p \in Swaps, Sends(p) PROVE OdosTypeOK'
    <2>1. "approving" \in States /\ "mining" \in States
      BY DEF States, InFlight
    <2>2. swap' \in [Swaps -> SwapType]
      BY <1>3, <2>1, Moved DEF Sends, Goes
    <2>3. pending' \in Seq([by : Swaps, op : {"approve", "swap"}])
      BY <1>3, Appended DEF Sends
    <2> QED  BY <1>3, <2>2, <2>3 DEF Sends, OdosTypeOK
  <1>4. ASSUME NEW p \in Swaps, MineApproval(p) PROVE OdosTypeOK'
    <2>1. swap' \in [Swaps -> SwapType]
      BY <1>4, ApprovalFacts, Moved
    <2>2. pending' \in Seq([by : Swaps, op : {"approve", "swap"}])
      BY <1>4, Mined DEF MineApproval
    <2>3. swap[p].amount \in 0 .. MaxAmount
      BY DEF OdosTypeOK, SwapType, Amounts
    <2>4. allowance' \in [Tokens -> 0 .. MaxAmount]
      BY <1>4, <2>3, ApprovalFacts DEF OdosTypeOK
    <2> QED  BY <1>4, <2>1, <2>2, <2>4, ApprovalFacts DEF OdosTypeOK
  <1>5. ASSUME NEW p \in Swaps, MineSwap(p) PROVE OdosTypeOK'
    <2>1. swap' \in [Swaps -> SwapType]
      BY <1>5, SwapFacts, Moved
    <2>2. pending' \in Seq([by : Swaps, op : {"approve", "swap"}])
      BY <1>5, Mined DEF MineSwap
    <2>3. CASE Taken(p)
      <3>1. /\ swap[p].token \in Tokens /\ swap[p].amount \in Nat
            /\ allowance[swap[p].token] \in 0 .. MaxAmount
            /\ spent[swap[p].token] \in Nat
        BY DEF OdosTypeOK, SwapType, Amounts
      <3>2. /\ allowance[swap[p].token] - swap[p].amount \in 0 .. MaxAmount
            /\ spent[swap[p].token] + swap[p].amount \in Nat
        BY <2>3, <3>1, SwapsAssumption DEF Taken, Covered
      <3>3. allowance' \in [Tokens -> 0 .. MaxAmount] /\ spent' \in [Tokens -> Nat]
        BY <2>3, <3>1, <3>2 DEF Taken, OdosTypeOK
      <3> QED  BY <1>5, <2>1, <2>2, <2>3, <3>3, SwapFacts DEF Taken, OdosTypeOK
    <2>4. CASE NotTaken(p)
      BY <1>5, <2>1, <2>2, <2>4, SwapFacts DEF NotTaken, OdosTypeOK
    <2> QED  BY <1>5, <2>3, <2>4, SwapFacts
  <1>6. CASE Crash
    BY <1>6, CrashFacts DEF OdosTypeOK
  <1>7. CASE UNCHANGED vars
    BY <1>7 DEF vars, OdosTypeOK
  <1> QED  BY <1>1, <1>2, <1>3, <1>4, <1>5, <1>6, <1>7, NextKinds

\* Only who waits for a transaction, or died, has one pending.
LEMMA NothingPending ==
    ASSUME OdosTypeOK, PendingInv, NEW p \in Swaps,
           swap[p].at \notin {"approving", "mining", "failed"}
    PROVE  \A k \in DOMAIN pending : pending[k].by # p
  BY DEF PendingInv

LEMMA ElementOf == ASSUME NEW S, NEW s \in Seq(S), NEW k \in DOMAIN s PROVE s[k] \in S
  OBVIOUS

\* What is pending names a swap, and the step it is.
LEMMA PendingType ==
    ASSUME OdosTypeOK, NEW k \in DOMAIN pending
    PROVE  /\ pending[k] \in [by : Swaps, op : {"approve", "swap"}]
           /\ pending[k].by \in Swaps /\ pending[k].op \in {"approve", "swap"}
  <1> DEFINE S == [by : Swaps, op : {"approve", "swap"}]
  <1>1. pending \in Seq(S)
    BY DEF OdosTypeOK
  <1> HIDE DEF S
  <1>2. pending[k] \in S
    BY <1>1, ElementOf
  <1> QED  BY <1>2 DEF S

LEMMA PendingStep ==
    ASSUME OdosTypeOK, PendingInv, [Next]_vars
    PROVE  PendingInv'
  <1>a. faults \in Nat
    BY DEF OdosTypeOK
  <1>1. ASSUME NEW p \in Swaps, swap[p].at \notin {"approving", "mining", "failed"},
               \A q \in Swaps \ {p} : swap'[q].at = swap[q].at,
               UNCHANGED pending, faults' \in {faults, faults + 1}
        PROVE  PendingInv'
    <2>1. \A k \in DOMAIN pending : pending[k].by \in Swaps \ {p}
      BY <1>1, NothingPending, PendingType
    <2> QED  BY <1>a, <1>1, <2>1 DEF PendingInv
  <1>2. ASSUME NEW p \in Swaps, NEW token \in Tokens, NEW amount \in Amounts,
               swapTokenToUSDm(p, token, amount)
        PROVE  PendingInv'
    <2>1. /\ swap[p].at = "unasked" /\ UNCHANGED <<pending, faults>>
          /\ \A q \in Swaps \ {p} : swap'[q].at = swap[q].at
      BY <1>2, AskFacts
    <2> QED  BY <1>1, <2>1
  <1>3. ASSUME NEW p \in Swaps, Turns(p) PROVE PendingInv'
    <2>1. /\ swap[p].at \notin {"approving", "mining", "failed"}
          /\ \A q \in Swaps \ {p} : swap'[q].at = swap[q].at
          /\ UNCHANGED pending /\ faults' \in {faults, faults + 1}
      BY <1>3, Moved DEF Turns, Goes
    <2> QED  BY <1>1, <2>1
  <1>4. ASSUME NEW p \in Swaps, Sends(p) PROVE PendingInv'
    <2>1. PICK op \in {"approve", "swap"} :
             /\ Goes(p, IF op = "approve" THEN "approve" ELSE "send",
                        IF op = "approve" THEN "approving" ELSE "mining")
             /\ pending' = Append(pending, [by |-> p, op |-> op])
      BY <1>4 DEF Sends
    <2>2. /\ swap[p].at \notin {"approving", "mining", "failed"}
          /\ swap'[p].at = IF op = "approve" THEN "approving" ELSE "mining"
          /\ \A q \in Swaps \ {p} : swap'[q] = swap[q]
      BY <2>1, Moved DEF Goes, States, InFlight
    <2>3. \A k \in DOMAIN pending : pending[k].by \in Swaps \ {p}
      BY <2>2, NothingPending, PendingType
    <2>4. /\ \A k \in DOMAIN pending' :
                \/ k \in DOMAIN pending /\ pending'[k] = pending[k]
                \/ k = Len(pending) + 1 /\ pending'[k] = [by |-> p, op |-> op]
          /\ UNCHANGED faults
      BY <1>4, <2>1, Appended DEF Sends
    <2>5. ASSUME NEW k \in DOMAIN pending'
          PROVE  \/ swap'[pending'[k].by].at = IF pending'[k].op = "approve" THEN "approving"
                                              ELSE "mining"
                 \/ swap'[pending'[k].by].at = "failed" /\ faults' > 0
      <3>1. CASE k \in DOMAIN pending /\ pending'[k] = pending[k]
        BY <2>2, <2>3, <2>4, <3>1 DEF PendingInv
      <3>2. CASE pending'[k] = [by |-> p, op |-> op]
        BY <2>2, <3>2
      <3> QED  BY <2>4, <3>1, <3>2
    <2>6. ASSUME NEW k \in DOMAIN pending', NEW l \in DOMAIN pending', pending'[k] = pending'[l]
          PROVE  k = l
      <3>1. CASE k \in DOMAIN pending /\ pending'[k] = pending[k]
        <4>1. l \in DOMAIN pending /\ pending'[l] = pending[l]
          <5>1. pending'[l].by # p
            BY <2>3, <2>6, <3>1
          <5> QED  BY <2>4, <5>1
        <4> QED  BY <2>6, <3>1, <4>1 DEF PendingInv
      <3>2. CASE k = Len(pending) + 1 /\ pending'[k] = [by |-> p, op |-> op]
        BY <2>3, <2>4, <2>6, <3>2
      <3> QED  BY <2>4, <3>1, <3>2
    <2> QED  BY <2>5, <2>6 DEF PendingInv
  <1>5. ASSUME NEW p \in Swaps, NEW op \in {"approve", "swap"},
               pending # <<>>, Head(pending) = [by |-> p, op |-> op], pending' = Tail(pending),
               swap'[p].at # swap[p].at => swap[p].at # "failed",
               \A q \in Swaps \ {p} : swap'[q].at = swap[q].at,
               faults' \in {faults, faults + 1}
        PROVE  PendingInv'
    <2>1. /\ \/ swap[p].at = IF op = "approve" THEN "approving" ELSE "mining"
             \/ swap[p].at = "failed" /\ faults > 0
          /\ \A k \in DOMAIN pending' : /\ k + 1 \in DOMAIN pending
                                        /\ pending'[k] = pending[k + 1]
                                        /\ pending'[k] # [by |-> p, op |-> op]
      BY <1>5, Mined
    <2>2. ASSUME NEW k \in DOMAIN pending'
          PROVE  \/ swap'[pending'[k].by].at = IF pending'[k].op = "approve" THEN "approving"
                                              ELSE "mining"
                 \/ swap'[pending'[k].by].at = "failed" /\ faults' > 0
      <3>1. /\ k + 1 \in DOMAIN pending /\ pending'[k] = pending[k + 1]
            /\ pending'[k] # [by |-> p, op |-> op]
        BY <2>1
      <3>2. /\ \/ swap[pending'[k].by].at = IF pending'[k].op = "approve" THEN "approving"
                                            ELSE "mining"
               \/ swap[pending'[k].by].at = "failed" /\ faults > 0
            /\ pending'[k] \in [by : Swaps, op : {"approve", "swap"}]
        BY <3>1, PendingType DEF PendingInv
      <3>3. CASE pending'[k].by = p
        <4>1. pending'[k].op # op
          BY <3>1, <3>2, <3>3
        <4>2. swap[p].at = "failed" /\ faults > 0
          BY <2>1, <3>2, <3>3, <4>1
        <4> QED  BY <1>a, <1>5, <3>3, <4>2
      <3>4. CASE pending'[k].by # p
        BY <1>a, <1>5, <3>2, <3>4
      <3> QED  BY <3>3, <3>4
    <2>3. ASSUME NEW k \in DOMAIN pending', NEW l \in DOMAIN pending', pending'[k] = pending'[l]
          PROVE  k = l
      <3>1. k + 1 = l + 1
        BY <2>1, <2>3 DEF PendingInv
      <3>2. pending' \in Seq([by : Swaps, op : {"approve", "swap"}])
        BY <1>5, Mined
      <3> QED  BY <3>1, <3>2
    <2> QED  BY <2>2, <2>3 DEF PendingInv
  <1>6. ASSUME NEW p \in Swaps, MineApproval(p) PROVE PendingInv'
    <2>1. /\ pending # <<>> /\ Head(pending) = [by |-> p, op |-> "approve"]
          /\ pending' = Tail(pending) /\ UNCHANGED faults
      BY <1>6 DEF MineApproval
    <2>2. /\ swap'[p].at # swap[p].at => swap[p].at # "failed"
          /\ \A q \in Swaps \ {p} : swap'[q].at = swap[q].at
      BY <1>6, ApprovalFacts, Moved
    <2> QED  BY <1>5, <2>1, <2>2
  <1>7. ASSUME NEW p \in Swaps, MineSwap(p) PROVE PendingInv'
    <2>1. /\ pending # <<>> /\ Head(pending) = [by |-> p, op |-> "swap"]
          /\ pending' = Tail(pending)
      BY <1>7 DEF MineSwap
    <2>2. /\ swap'[p].at # swap[p].at => swap[p].at # "failed"
          /\ faults' \in {faults, faults + 1}
      BY <1>7, SwapFacts DEF Taken, NotTaken
    <2>3. \A q \in Swaps \ {p} : swap'[q].at = swap[q].at
      BY <1>7, SwapFacts, Moved
    <2> QED  BY <1>5, <2>1, <2>2, <2>3
  <1>8. CASE Crash
    <2>1. \A k \in DOMAIN pending : swap'[pending[k].by].at = "failed"
      BY <1>8, CrashFacts, PendingType DEF PendingInv, InFlight
    <2> QED  BY <1>8, <2>1, CrashFacts DEF PendingInv
  <1>9. CASE UNCHANGED vars
    BY <1>9 DEF vars, PendingInv
  <1> QED  BY <1>2, <1>3, <1>4, <1>6, <1>7, <1>8, <1>9, NextKinds

LEMMA VersionStep ==
    ASSUME OdosTypeOK, PendingInv, Version6, [Next]_vars
    PROVE  Version6'
  <1>a. UNCHANGED ethers
    BY EthersStays
  <1> SUFFICES ASSUME ethers = 6 PROVE Version6'
    BY <1>a DEF Version6
  <1>b. pending = <<>> /\ \A p \in Swaps : swap[p].at \in {"unasked", "allowance", "failed"}
    BY DEF Version6
  <1>1. ASSUME NEW p \in Swaps, NEW token \in Tokens, NEW amount \in Amounts,
               swapTokenToUSDm(p, token, amount)
        PROVE  Version6'
    BY <1>b, <1>1, AskFacts DEF Version6
  <1>2. ASSUME NEW p \in Swaps, Turns(p) PROVE Version6'
    <2>1. PICK from \in {"allowance", "quote", "assemble", "send"}, to \in States :
             Goes(p, from, to) /\ Turn(p, from, to)
      BY <1>2 DEF Turns
    <2>2. from = "allowance" /\ to = "failed"
      BY <1>b, <2>1 DEF Goes, Turn
    <2>3. swap'[p].at = "failed" /\ \A q \in Swaps \ {p} : swap'[q] = swap[q]
      BY <2>1, <2>2, Moved DEF Goes
    <2> QED  BY <1>2, <1>b, <2>3 DEF Version6, Turns
  <1>3. ASSUME NEW p \in Swaps, Sends(p) PROVE Version6'
    BY <1>b, <1>3 DEF Sends, Goes
  <1>4. ASSUME NEW p \in Swaps, MineApproval(p) \/ MineSwap(p) PROVE Version6'
    BY <1>b, <1>4 DEF MineApproval, MineSwap
  <1>5. CASE Crash
    BY <1>5, <1>b, CrashFacts DEF Version6, InFlight
  <1>6. CASE UNCHANGED vars
    BY <1>6 DEF vars, Version6
  <1> QED  BY <1>1, <1>2, <1>3, <1>4, <1>5, <1>6, NextKinds

-----------------------------------------------------------------------------
(* What the router took.                                                   *)

\* A step that takes nothing, and leaves the swaps of X as they are.
LEMMA TookSame ==
    ASSUME OdosTypeOK, NEW X \in SUBSET Swaps, TookFrom(X), UNCHANGED spent,
           \A q \in X : /\ swap'[q].token = swap[q].token /\ swap'[q].amount = swap[q].amount
                        /\ swap'[q].at = swap[q].at,
           \A q \in Swaps \ X : swap'[q].at # "done",
           \A k \in DOMAIN pending' : pending'[k].op = "swap" => pending'[k].by \notin X,
           faults' = 0 => faults = 0
    PROVE  TookFrom(X)'
  <1>1. Who("done")' \subseteq X /\ X \subseteq Who("done")' \cup Who("failed")'
    BY DEF TookFrom, Who
  <1>2. Who("done")' = Who("done")
    BY DEF TookFrom, Who
  <1>3. ASSUME NEW t \in Tokens
        PROVE  spent'[t] = AmountsOf({p \in X : swap[p].token = t})'
    <2> DEFINE of == {p \in X : swap[p].token = t}
               fun == [p \in Swaps |-> swap[p].amount]
               gun == [p \in Swaps |-> swap'[p].amount]
    <2>1. {p \in X : swap'[p].token = t} = of /\ of \subseteq Swaps
      OBVIOUS
    <2>2. IsFiniteSet(of)
      BY <2>1, FS_Subset, SwapsAssumption
    <2>3. \A p \in of : fun[p] = gun[p]
      OBVIOUS
    <2>4. spent[t] = SumFunctionOnSet(fun, of)
      BY DEF TookFrom, AmountsOf
    <2>5. AmountsOf({p \in X : swap[p].token = t})' = SumFunctionOnSet(gun, of)
      BY <2>1 DEF AmountsOf
    <2> HIDE DEF of, fun, gun
    <2>6. SumFunctionOnSet(fun, of) = SumFunctionOnSet(gun, of)
      BY <2>2, <2>3, SumSame
    <2> QED  BY <2>4, <2>5, <2>6
  <1> QED  BY <1>1, <1>2, <1>3 DEF TookFrom

\* The router takes the amount of a swap it had taken nothing for.
LEMMA TookMore ==
    ASSUME OdosTypeOK, PendingInv, NEW X \in SUBSET Swaps, TookFrom(X),
           NEW p \in Swaps, MineSwap(p), Taken(p)
    PROVE  TookFrom(X \cup {p})'
  <1> DEFINE Y == X \cup {p}
  <1>1. /\ pending # <<>> /\ Head(pending) = [by |-> p, op |-> "swap"]
        /\ pending' = Tail(pending)
    BY DEF MineSwap
  <1>2. /\ \A k \in DOMAIN pending' : /\ k + 1 \in DOMAIN pending
                                      /\ pending'[k] = pending[k + 1]
                                      /\ pending'[k] # [by |-> p, op |-> "swap"]
                                      /\ pending'[k] \in [by : Swaps, op : {"approve", "swap"}]
        /\ 1 \in DOMAIN pending /\ pending[1] = [by |-> p, op |-> "swap"]
    BY <1>1, Mined, ElementOf
  <1>3. p \notin X
    BY <1>2 DEF TookFrom
  <1>4. /\ swap[p].at = "mining" \/ (swap[p].at = "failed" /\ faults > 0)
        /\ swap'[p].at = (IF swap[p].at = "mining" THEN "done" ELSE "failed")
        /\ \A q \in Swaps : swap'[q].token = swap[q].token /\ swap'[q].amount = swap[q].amount
        /\ \A q \in Swaps \ {p} : swap'[q] = swap[q]
        /\ UNCHANGED faults
    BY SwapFacts, Moved DEF Taken
  <1>5. /\ Who("done")' \subseteq Y /\ Y \subseteq Who("done")' \cup Who("failed")'
        /\ faults' = 0 => Y = Who("done")'
    <2>1. swap'[p].at \in {"done", "failed"} /\ swap[p].at # "done"
      BY <1>4
    <2>2. \A q \in Swaps \ {p} : /\ q \in Who("done")' <=> q \in Who("done")
                                 /\ q \in Who("failed")' <=> q \in Who("failed")
      BY <1>4 DEF Who
    <2>3. p \in Who("done")' \cup Who("failed")' /\ p \notin Who("done")
      BY <2>1 DEF Who
    <2>4. Who("done")' \subseteq Swaps /\ Who("done") \subseteq X /\ X \subseteq Who("done") \cup Who("failed")
      BY DEF Who, TookFrom
    <2>5. ASSUME faults' = 0 PROVE Y = Who("done")'
      <3>1. p \in Who("done")' /\ X = Who("done")
        BY <1>4, <2>5 DEF Who, TookFrom
      <3> QED  BY <2>2, <2>4, <3>1
    <2> QED  BY <1>3, <2>2, <2>3, <2>4, <2>5
  <1>6. \A k \in DOMAIN pending' : pending'[k].op = "swap" => pending'[k].by \notin Y
    BY <1>2 DEF TookFrom
  <1>7. ASSUME NEW t \in Tokens
        PROVE  spent'[t] = AmountsOf({q \in Y : swap[q].token = t})'
    <2> DEFINE was == {q \in X : swap[q].token = t}
               of  == {q \in Y : swap'[q].token = t}
               fun == [q \in Swaps |-> swap[q].amount]
    <2>1. /\ AmountsOf({q \in Y : swap[q].token = t})' = SumFunctionOnSet(fun, of)
          /\ spent[t] = SumFunctionOnSet(fun, was)
      <3>1. [q \in Swaps |-> swap'[q].amount] = fun
        BY <1>4
      <3> QED  BY <3>1 DEF AmountsOf, TookFrom
    <2>. SUFFICES spent'[t] = SumFunctionOnSet(fun, of)
      BY <2>1
    <2>2. IsFiniteSet(of) /\ \A q \in of : fun[q] \in Int
      <3>1. of \subseteq Swaps
        OBVIOUS
      <3> QED  BY <3>1, FS_Subset, SwapsAssumption DEF OdosTypeOK, SwapType, Amounts
    <2>3. CASE t = swap[p].token
      <3>1. p \in of /\ of \ {p} = was
        BY <1>3, <1>4, <2>3
      <3>2. spent'[t] = spent[t] + fun[p] /\ spent[t] \in Int /\ fun[p] \in Int
        BY <2>3 DEF Taken, OdosTypeOK, SwapType, Amounts
      <3> HIDE DEF of, fun, was
      <3>3. SumFunctionOnSet(fun, of) = fun[p] + SumFunctionOnSet(fun, of \ {p})
        BY <2>2, <3>1, SumPick
      <3>4. spent[t] = SumFunctionOnSet(fun, of \ {p})
        BY <2>1, <3>1
      <3>5. SumFunctionOnSet(fun, of) = fun[p] + spent[t]
        BY <3>3, <3>4
      <3> QED  BY <3>2, <3>5
    <2>4. CASE t # swap[p].token
      <3>1. of = was
        BY <1>4, <2>4
      <3>2. spent'[t] = spent[t]
        BY <2>4 DEF Taken, OdosTypeOK
      <3> QED  BY <2>1, <3>1, <3>2
    <2> QED  BY <2>3, <2>4
  <1> QED  BY <1>5, <1>6, <1>7 DEF TookFrom

LEMMA SpentStep ==
    ASSUME OdosTypeOK, PendingInv, SpentInv, [Next]_vars
    PROVE  SpentInv'
  <1>1. PICK X \in SUBSET Swaps : TookFrom(X)
    BY DEF SpentInv
  <1>2. SUFFICES ASSUME ~ \E p \in Swaps : MineSwap(p) /\ Taken(p)
                 PROVE  TookFrom(X)'
    <2>1. ASSUME NEW p \in Swaps, MineSwap(p), Taken(p) PROVE SpentInv'
      <3>1. TookFrom(X \cup {p})' /\ X \cup {p} \in SUBSET Swaps
        BY <1>1, <2>1, TookMore
      <3> QED  BY <3>1 DEF SpentInv
    <2> QED  BY <2>1 DEF SpentInv
  <1>3. /\ \A q \in X : swap[q].at \in {"done", "failed"}
        /\ \A q \in Swaps \ X : swap[q].at # "done"
        /\ \A k \in DOMAIN pending : pending[k].op = "swap" => pending[k].by \notin X
        /\ faults \in Nat
    BY <1>1 DEF TookFrom, Who, OdosTypeOK
  <1>4. ASSUME NEW p \in Swaps, NEW token \in Tokens, NEW amount \in Amounts,
               swapTokenToUSDm(p, token, amount)
        PROVE  TookFrom(X)'
    <2>1. /\ p \notin X /\ swap'[p].at # "done" /\ UNCHANGED <<pending, spent, faults>>
          /\ \A q \in Swaps \ {p} : /\ swap'[q].at = swap[q].at /\ swap'[q].token = swap[q].token
                                    /\ swap'[q].amount = swap[q].amount
      BY <1>3, <1>4, AskFacts
    <2> QED  BY <1>1, <1>3, <2>1, TookSame
  <1>5. ASSUME NEW p \in Swaps, swap[p].at \in InFlight \/ swap'[p].at = swap[p].at,
               swap'[p].at # "done" \/ swap[p].at = "done", NEW to \in States, swap' = [swap EXCEPT ![p].at = to],
               UNCHANGED spent, faults' \in {faults, faults + 1},
               \A k \in DOMAIN pending' : pending'[k].op = "swap" => pending'[k].by \notin X
        PROVE  TookFrom(X)'
    <2>1. /\ \A q \in Swaps : swap'[q].token = swap[q].token /\ swap'[q].amount = swap[q].amount
          /\ \A q \in Swaps \ {p} : swap'[q] = swap[q]
      BY <1>5, Moved
    <2>2. \A q \in X : swap'[q].at = swap[q].at
      BY <1>3, <1>5, <2>1 DEF InFlight
    <2>3. \A q \in Swaps \ X : swap'[q].at # "done"
      BY <1>3, <1>5, <2>1
    <2>4. faults' = 0 => faults = 0
      BY <1>3, <1>5
    <2> QED  BY <1>1, <1>5, <2>1, <2>2, <2>3, <2>4, TookSame
  <1>6. ASSUME NEW p \in Swaps, Turns(p) PROVE TookFrom(X)'
    <2>1. PICK from \in {"allowance", "quote", "assemble", "send"}, to \in States :
             Goes(p, from, to) /\ Turn(p, from, to)
      BY <1>6 DEF Turns
    <2>2. to # "done" /\ swap[p].at \in InFlight /\ swap' = [swap EXCEPT ![p].at = to]
      BY <2>1 DEF Turn, Goes, InFlight
    <2>3. swap'[p].at = to
      BY <2>2, Moved
    <2>4. UNCHANGED <<pending, spent>> /\ faults' \in {faults, faults + 1}
      BY <1>6 DEF Turns
    <2> QED  BY <1>3, <1>5, <2>2, <2>3, <2>4
  <1>7. ASSUME NEW p \in Swaps, Sends(p) PROVE TookFrom(X)'
    <2>1. PICK op \in {"approve", "swap"}, to \in {"approving", "mining"} :
             /\ swap[p].at \in InFlight \ {"done", "failed"} /\ swap' = [swap EXCEPT ![p].at = to]
             /\ pending' = Append(pending, [by |-> p, op |-> op])
             /\ UNCHANGED <<spent, faults>>
      BY <1>7 DEF Sends, Goes, InFlight
    <2>2. to \in States /\ swap'[p].at = to
      BY <2>1, Moved DEF States, InFlight
    <2>3. \A k \in DOMAIN pending' : \/ k \in DOMAIN pending /\ pending'[k] = pending[k]
                                     \/ pending'[k] = [by |-> p, op |-> op]
      BY <2>1, Appended
    <2>4. p \notin X
      BY <1>3, <2>1
    <2>5. \A k \in DOMAIN pending' : pending'[k].op = "swap" => pending'[k].by \notin X
      BY <1>3, <2>3, <2>4
    <2> QED  BY <1>5, <2>1, <2>2, <2>5
  <1>8. ASSUME NEW p \in Swaps, NEW op \in {"approve", "swap"},
               pending # <<>>, Head(pending) = [by |-> p, op |-> op], pending' = Tail(pending)
        PROVE  \A k \in DOMAIN pending' : pending'[k].op = "swap" => pending'[k].by \notin X
    BY <1>3, <1>8, Mined
  <1>9. ASSUME NEW p \in Swaps, MineApproval(p) PROVE TookFrom(X)'
    <2>1. \A k \in DOMAIN pending' : pending'[k].op = "swap" => pending'[k].by \notin X
      BY <1>8, <1>9 DEF MineApproval
    <2>2. /\ swap[p].at \in InFlight \/ swap'[p].at = swap[p].at
          /\ swap'[p].at # "done" /\ swap'[p].at \in States
          /\ swap' = [swap EXCEPT ![p].at = swap'[p].at]
          /\ UNCHANGED <<spent, faults>>
      BY <1>9, ApprovalFacts DEF InFlight
    <2> QED  BY <1>5, <2>1, <2>2
  <1>10. ASSUME NEW p \in Swaps, MineSwap(p) PROVE TookFrom(X)'
    <2>1. \A k \in DOMAIN pending' : pending'[k].op = "swap" => pending'[k].by \notin X
      BY <1>8, <1>10 DEF MineSwap
    <2>2. /\ swap[p].at \in InFlight \/ swap'[p].at = swap[p].at
          /\ swap'[p].at # "done" /\ swap'[p].at \in States
          /\ swap' = [swap EXCEPT ![p].at = swap'[p].at]
          /\ UNCHANGED spent /\ faults' \in {faults, faults + 1}
      BY <1>2, <1>10, SwapFacts DEF InFlight, NotTaken
    <2> QED  BY <1>5, <2>1, <2>2
  <1>11. CASE Crash
    <2>1. /\ \A q \in Swaps : /\ swap'[q].token = swap[q].token
                              /\ swap'[q].amount = swap[q].amount
          /\ \A q \in X : swap'[q].at = swap[q].at
          /\ \A q \in Swaps \ X : swap'[q].at # "done"
          /\ UNCHANGED <<pending, spent>> /\ faults' # 0
      BY <1>3, <1>11, CrashFacts DEF InFlight
    <2> QED  BY <1>1, <1>3, <2>1, TookSame
  <1>12. CASE UNCHANGED vars
    BY <1>1, <1>12 DEF vars, TookFrom, Who, AmountsOf
  <1> QED  BY <1>4, <1>6, <1>7, <1>9, <1>10, <1>11, <1>12, NextKinds

-----------------------------------------------------------------------------
(* Which swaps succeed, if nothing goes wrong.                             *)

\* While there is no fault, the swaps whose transactions are pending are under way.
LEMMA CalmUnderWay ==
    ASSUME OdosTypeOK, PendingInv, faults = 0, NEW t \in Tokens
    PROVE  UnderWay(t) = {p \in Swaps : swap[p].token = t /\ swap[p].at \in InFlight}
  BY DEF PendingInv, UnderWay, InFlight

LEMMA AloneStep ==
    ASSUME OdosTypeOK, PendingInv, AloneInv, [Next]_vars
    PROVE  AloneInv'
  <1> SUFFICES ASSUME faults' = 0, ethers' = 5, NEW q \in Swaps, swap'[q].alone = TRUE
               PROVE  ToItself(q)'
    BY DEF AloneInv
  <1>a. faults = 0 /\ ethers = 5
    <2>1. faults \in Nat
      BY DEF OdosTypeOK
    <2>2. UNCHANGED ethers
      BY EthersStays
    <2>3. faults' \in {faults, faults + 1}
      BY FaultsRise
    <2> QED  BY <2>1, <2>2, <2>3
  <1>b. \A r \in Swaps : swap[r].alone = TRUE => ToItself(r)
    BY <1>a DEF AloneInv
  <1>1. ASSUME NEW p \in Swaps, NEW token \in Tokens, NEW amount \in Amounts,
               swapTokenToUSDm(p, token, amount)
        PROVE  ToItself(q)'
    <2>1. /\ swap[p].at = "unasked" /\ swap'[p].at = "allowance" /\ swap'[p].token = token
          /\ swap'[p].alone = TRUE => UnderWay(token) = {}
          /\ \A r \in Swaps \ {p} : /\ swap'[r].at = swap[r].at /\ swap'[r].token = swap[r].token
                                    /\ r \in UnderWay(token) => swap'[r].alone = FALSE
                                    /\ r \notin UnderWay(token) => swap'[r] = swap[r]
          /\ UNCHANGED allowance
      BY <1>1, AskFacts
    <2>2. UnderWay(token) = {r \in Swaps : swap[r].token = token /\ swap[r].at \in InFlight}
      BY <1>a, CalmUnderWay
    <2>3. CASE q = p
      BY <2>1, <2>2, <2>3 DEF ToItself
    <2>4. CASE q # p
      <3>1. q \notin UnderWay(token) /\ swap'[q] = swap[q]
        BY <2>1, <2>4
      <3>2. swap[q].at \in InFlight => swap[q].token # token
        BY <2>2, <3>1
      <3> QED  BY <1>b, <2>1, <2>4, <3>1, <3>2 DEF ToItself
    <2> QED  BY <2>3, <2>4
  <1>2. ASSUME NEW p \in Swaps, NEW to \in States, swap' = [swap EXCEPT ![p].at = to],
               swap[p].at \in InFlight, UNCHANGED allowance,
               swap[p].alone = TRUE => to # "failed",
               swap[p].alone = TRUE /\ to \in {"quote", "assemble", "send", "mining"} => Covered(p)
        PROVE  ToItself(q)'
    <2>1. /\ swap'[p].at = to
          /\ \A r \in Swaps : /\ swap'[r].token = swap[r].token
                              /\ swap'[r].amount = swap[r].amount
                              /\ swap'[r].alone = swap[r].alone
          /\ \A r \in Swaps \ {p} : swap'[r] = swap[r]
      BY <1>2, Moved
    <2>2. CASE q = p
      BY <1>b, <1>2, <2>1, <2>2 DEF Covered, ToItself
    <2>3. CASE q # p
      BY <1>b, <1>2, <2>1, <2>3 DEF ToItself
    <2> QED  BY <2>2, <2>3
  <1>3. ASSUME NEW p \in Swaps, Turns(p)
        PROVE  ToItself(q)'
    <2>1. PICK from \in {"allowance", "quote", "assemble", "send"}, to \in States :
             Goes(p, from, to) /\ Turn(p, from, to)
      BY <1>3 DEF Turns
    <2>2. swap[p].at = from /\ from \in InFlight /\ swap' = [swap EXCEPT ![p].at = to]
      BY <2>1 DEF Goes, InFlight
    <2>3. from \in {"quote", "assemble", "send"} /\ swap[p].alone = TRUE => Covered(p)
      BY <1>b, <2>2 DEF Covered, ToItself
    <2>4. /\ swap[p].alone = TRUE => to # "failed"
          /\ swap[p].alone = TRUE /\ to \in {"quote", "assemble", "send", "mining"} => Covered(p)
      BY <1>a, <2>1, <2>3 DEF Turn
    <2>5. UNCHANGED allowance
      BY <1>3 DEF Turns
    <2> QED  BY <1>2, <2>2, <2>4, <2>5
  <1>4. ASSUME NEW p \in Swaps, Sends(p)
        PROVE  ToItself(q)'
    <2>1. UNCHANGED allowance /\ "approving" \in States /\ "mining" \in States
      BY <1>4 DEF Sends, States, InFlight
    <2>2. CASE Goes(p, "approve", "approving")
      BY <1>2, <2>1, <2>2 DEF Goes, InFlight
    <2>3. CASE Goes(p, "send", "mining")
      <3>1. swap[p].alone = TRUE => Covered(p)
        BY <1>b, <2>3 DEF Goes, Covered, ToItself
      <3> QED  BY <1>2, <2>1, <2>3, <3>1 DEF Goes, InFlight
    <2> QED  BY <1>4, <2>2, <2>3 DEF Sends
  <1>5. ASSUME NEW p \in Swaps, MineApproval(p)
        PROVE  ToItself(q)'
    <2>1. /\ swap[p].at = "approving" /\ swap'[p].at = "quote"
          /\ allowance' = [allowance EXCEPT ![swap[p].token] = swap[p].amount]
          /\ \A r \in Swaps : /\ swap'[r].token = swap[r].token
                              /\ swap'[r].amount = swap[r].amount
                              /\ swap'[r].alone = swap[r].alone
          /\ \A r \in Swaps \ {p} : swap'[r] = swap[r]
      BY <1>a, <1>5, ApprovalFacts, Moved
    <2>2. swap[p].token \in Tokens /\ swap[p].amount \in Nat /\ allowance \in [Tokens -> 0 .. MaxAmount]
      BY DEF OdosTypeOK, SwapType, Amounts
    <2>3. CASE q = p
      <3>1. allowance'[swap[p].token] = swap[p].amount
        BY <2>1, <2>2
      <3>2. swap[p].at \in InFlight
        BY <2>1 DEF InFlight
      <3> QED  BY <1>b, <2>1, <2>2, <2>3, <3>1, <3>2 DEF ToItself
    <2>4. CASE q # p
      <3>1. swap'[q] = swap[q] /\ swap[p].at \in InFlight
        BY <2>1, <2>4 DEF InFlight
      <3>2. swap[q].at \in InFlight => swap[q].token # swap[p].token
        BY <1>b, <2>4, <3>1 DEF ToItself
      <3>3. swap[q].at \in InFlight => allowance'[swap[q].token] = allowance[swap[q].token]
        BY <2>1, <2>2, <3>2 DEF OdosTypeOK, SwapType
      <3>4. swap[q].at \in {"quote", "assemble", "send", "mining"} => swap[q].at \in InFlight
        BY DEF InFlight
      <3> QED  BY <1>b, <2>1, <2>4, <3>1, <3>2, <3>3, <3>4 DEF ToItself
    <2> QED  BY <2>3, <2>4
  <1>6. ASSUME NEW p \in Swaps, MineSwap(p)
        PROVE  ToItself(q)'
    <2>1. /\ swap[p].at = "mining" /\ swap'[p].at \in States
          /\ swap' = [swap EXCEPT ![p].at = swap'[p].at]
          /\ Taken(p) \/ NotTaken(p)
      BY <1>a, <1>6, SwapFacts
    <2>2. swap[p].at \in InFlight
      BY <2>1 DEF InFlight
    <2>3. CASE NotTaken(p)
      <3>1. ~ Covered(p) /\ swap'[p].at = "failed" /\ UNCHANGED allowance
        BY <1>a, <2>3 DEF NotTaken
      <3>2. swap[p].alone # TRUE
        BY <1>b, <2>1, <3>1 DEF Covered, ToItself
      <3> QED  BY <1>2, <2>1, <2>2, <3>1, <3>2
    <2>4. CASE Taken(p)
      <3>1. swap'[p].at = "done"
        BY <2>1, <2>4 DEF Taken
      <3>2. CASE q = p
        BY <3>1, <3>2 DEF InFlight, ToItself
      <3>3. CASE q # p
        <4>1. /\ swap'[q] = swap[q]
              /\ \A r \in Swaps \ {p} : swap'[r] = swap[r]
          BY <2>1, <3>3, Moved
        <4>2. swap[q].at \in InFlight => swap[q].token # swap[p].token
          BY <1>b, <2>2, <3>3, <4>1 DEF ToItself
        <4>3. swap[q].at \in InFlight => allowance'[swap[q].token] = allowance[swap[q].token]
          BY <2>4, <4>2 DEF Taken, OdosTypeOK, SwapType
        <4>4. /\ swap[q].at \in {"quote", "assemble", "send", "mining"} => swap[q].at \in InFlight
              /\ "done" \notin InFlight
          BY DEF InFlight
        <4> QED  BY <1>b, <3>1, <4>1, <4>3, <4>4 DEF ToItself
      <3> QED  BY <3>2, <3>3
    <2> QED  BY <2>1, <2>3, <2>4
  <1>7. ~ Crash
    BY <1>a, CrashFacts
  <1>8. CASE UNCHANGED vars
    BY <1>b, <1>8 DEF vars, ToItself
  <1> QED  BY <1>1, <1>3, <1>4, <1>5, <1>6, <1>7, <1>8, NextKinds

LEMMA HopeStep ==
    ASSUME OdosTypeOK, PendingInv, HopeInv, [Next]_vars
    PROVE  HopeInv'
  <1> SUFFICES ASSUME faults' = 0, ethers' = 5, NEW t \in Tokens, NEW q \in Swaps,
                      swap'[q].token = t, swap'[q].at # "unasked"
               PROVE  \E r \in Swaps : swap'[r].token = t /\ Hope(r)'
    BY DEF HopeInv
  <1>a. faults = 0 /\ ethers = 5
    <2>1. faults \in Nat
      BY DEF OdosTypeOK
    <2> QED  BY <2>1, EthersStays, FaultsRise
  \* The one there was hope for, if there was one.
  <1>b. ASSUME NEW s \in Swaps, swap[s].token = t, swap[s].at # "unasked"
        PROVE  \E r \in Swaps : swap[r].token = t /\ Hope(r) /\ swap[r].at # "unasked"
    BY <1>a, <1>b DEF HopeInv, Hope
  <1>c. \A r \in Swaps : swap[r].token \in Tokens /\ swap[r].amount \in Nat
    BY DEF OdosTypeOK, SwapType, Amounts
  \* There still is, if it was not changed, and its allowance neither.
  <1>d. ASSUME NEW r \in Swaps, swap[r].token = t, Hope(r), swap'[r].at = swap[r].at,
               swap'[r].token = swap[r].token, swap'[r].amount = swap[r].amount,
               allowance'[t] = allowance[t]
        PROVE  swap'[r].token = t /\ Hope(r)'
    BY <1>d DEF Hope, Covered
  <1>1. ASSUME NEW p \in Swaps, NEW token \in Tokens, NEW amount \in Amounts,
               swapTokenToUSDm(p, token, amount)
        PROVE  \E r \in Swaps : swap'[r].token = t /\ Hope(r)'
    <2>1. /\ swap[p].at = "unasked" /\ swap'[p].at = "allowance" /\ swap'[p].token = token
          /\ \A r \in Swaps \ {p} : /\ swap'[r].at = swap[r].at /\ swap'[r].token = swap[r].token
                                    /\ swap'[r].amount = swap[r].amount
          /\ UNCHANGED allowance
      BY <1>1, AskFacts
    <2>2. CASE q = p
      BY <2>1, <2>2 DEF Hope
    <2>3. CASE q # p
      <3>1. PICK r \in Swaps : swap[r].token = t /\ Hope(r) /\ swap[r].at # "unasked"
        BY <1>b, <2>1, <2>3
      <3>2. r # p
        BY <2>1, <3>1
      <3> QED  BY <1>d, <2>1, <3>1, <3>2
    <2> QED  BY <2>2, <2>3
  \* One swap goes on, and with hope if it had any.
  <1>2. ASSUME NEW p \in Swaps, NEW to \in States, swap' = [swap EXCEPT ![p].at = to],
               swap[p].at # "unasked", Hope(p) => Hope(p)', UNCHANGED allowance
        PROVE  \E r \in Swaps : swap'[r].token = t /\ Hope(r)'
    <2>1. /\ \A r \in Swaps : swap'[r].token = swap[r].token /\ swap'[r].amount = swap[r].amount
          /\ \A r \in Swaps \ {p} : swap'[r] = swap[r]
      BY <1>2, Moved
    <2>2. swap[q].token = t /\ swap[q].at # "unasked"
      BY <1>2, <2>1
    <2>3. PICK r \in Swaps : swap[r].token = t /\ Hope(r)
      BY <1>b, <2>2
    <2>4. CASE r = p
      BY <1>2, <2>1, <2>3, <2>4
    <2>5. CASE r # p
      BY <1>2, <1>d, <2>1, <2>3, <2>5
    <2> QED  BY <2>4, <2>5
  <1>3. ASSUME NEW p \in Swaps, Turns(p)
        PROVE  \E r \in Swaps : swap'[r].token = t /\ Hope(r)'
    <2>1. PICK from \in {"allowance", "quote", "assemble", "send"}, to \in States :
             Goes(p, from, to) /\ Turn(p, from, to)
      BY <1>3 DEF Turns
    <2>2. swap[p].at = from /\ swap' = [swap EXCEPT ![p].at = to] /\ UNCHANGED allowance
      BY <1>3, <2>1 DEF Goes, Turns
    <2>3. /\ swap'[p].at = to /\ swap'[p].token = swap[p].token
          /\ swap'[p].amount = swap[p].amount
      BY <2>2, Moved
    <2>4. Covered(p)' <=> Covered(p)
      BY <2>2, <2>3 DEF Covered
    <2>5. ASSUME Hope(p) PROVE Hope(p)'
      <3>1. from \in {"quote", "assemble", "send"} => Covered(p)
        BY <2>2, <2>5 DEF Hope
      <3>2. to = "approve" \/ (to \in {"quote", "assemble", "send"} /\ Covered(p))
        <4>1. CASE from = "allowance"
          BY <1>a, <2>1, <4>1 DEF Turn
        <4>2. CASE from \in {"quote", "assemble"}
          <5>1. faults' # faults + 1
            BY <1>a
          <5>2. to = "assemble" \/ to = "send"
            BY <2>1, <4>2, <5>1 DEF Turn
          <5> QED  BY <3>1, <4>2, <5>2
        <4>3. CASE from = "send"
          BY <2>1, <3>1, <4>3 DEF Turn
        <4> QED  BY <2>1, <4>1, <4>2, <4>3
      <3> QED  BY <2>3, <2>4, <3>2 DEF Hope
    <2> QED  BY <1>2, <2>2, <2>5
  <1>4. ASSUME NEW p \in Swaps, Sends(p)
        PROVE  \E r \in Swaps : swap'[r].token = t /\ Hope(r)'
    <2>1. PICK from \in {"approve", "send"} :
             Goes(p, from, IF from = "approve" THEN "approving" ELSE "mining")
      BY <1>4 DEF Sends
    <2> DEFINE to == IF from = "approve" THEN "approving" ELSE "mining"
    <2>2. /\ to \in States /\ swap[p].at = from /\ swap' = [swap EXCEPT ![p].at = to]
          /\ UNCHANGED allowance
      BY <1>4, <2>1 DEF Goes, Sends, States, InFlight
    <2>3. /\ swap'[p].at = to /\ swap'[p].token = swap[p].token
          /\ swap'[p].amount = swap[p].amount
      BY <2>2, Moved
    <2>4. ASSUME Hope(p) PROVE Hope(p)'
      <3>1. from = "send" => Covered(p)
        BY <2>2, <2>4 DEF Hope
      <3>2. Covered(p)' <=> Covered(p)
        BY <2>2, <2>3 DEF Covered
      <3> QED  BY <2>3, <3>1, <3>2 DEF Hope
    <2> HIDE DEF to
    <2> QED  BY <1>2, <2>2, <2>4
  \* The allowance of another token, and the swaps of it, are left alone.
  <1>5. ASSUME NEW p \in Swaps, swap[p].at # "unasked",
               swap' = [swap EXCEPT ![p].at = swap'[p].at], swap'[p].at \in States,
               swap[p].token = t => Hope(p)',
               \A other \in Tokens \ {swap[p].token} : allowance'[other] = allowance[other]
        PROVE  \E r \in Swaps : swap'[r].token = t /\ Hope(r)'
    <2>1. /\ \A r \in Swaps : swap'[r].token = swap[r].token /\ swap'[r].amount = swap[r].amount
          /\ \A r \in Swaps \ {p} : swap'[r] = swap[r]
      BY <1>5, Moved
    <2>2. CASE swap[p].token = t
      BY <1>5, <2>1, <2>2
    <2>3. CASE swap[p].token # t
      <3>1. swap[q].token = t /\ swap[q].at # "unasked"
        BY <1>5, <2>1
      <3>2. PICK r \in Swaps : swap[r].token = t /\ Hope(r)
        BY <1>b, <3>1
      <3>3. r # p /\ allowance'[t] = allowance[t]
        BY <1>5, <2>3, <3>2
      <3> QED  BY <1>d, <2>1, <3>2, <3>3
    <2> QED  BY <2>2, <2>3
  <1>6. ASSUME NEW p \in Swaps, MineApproval(p)
        PROVE  \E r \in Swaps : swap'[r].token = t /\ Hope(r)'
    <2>1. /\ swap[p].at = "approving" /\ swap'[p].at = "quote" /\ swap'[p].at \in States
          /\ swap' = [swap EXCEPT ![p].at = swap'[p].at]
          /\ allowance' = [allowance EXCEPT ![swap[p].token] = swap[p].amount]
      BY <1>a, <1>6, ApprovalFacts
    <2>2. swap'[p].token = swap[p].token /\ swap'[p].amount = swap[p].amount
      BY <2>1, Moved
    <2>3. allowance'[swap[p].token] = swap[p].amount
      BY <1>c, <2>1 DEF OdosTypeOK
    <2>4. Hope(p)'
      BY <1>c, <2>1, <2>2, <2>3 DEF Hope, Covered
    <2>5. \A other \in Tokens \ {swap[p].token} : allowance'[other] = allowance[other]
      BY <2>1 DEF OdosTypeOK
    <2> QED  BY <1>5, <2>1, <2>4, <2>5
  <1>7. ASSUME NEW p \in Swaps, MineSwap(p)
        PROVE  \E r \in Swaps : swap'[r].token = t /\ Hope(r)'
    <2>1. /\ swap[p].at = "mining" /\ swap'[p].at \in States
          /\ swap' = [swap EXCEPT ![p].at = swap'[p].at]
          /\ Taken(p) \/ NotTaken(p)
      BY <1>a, <1>7, SwapFacts
    <2>2. CASE Taken(p)
      <3>1. swap'[p].at = "done"
        BY <2>1, <2>2 DEF Taken
      <3>2. Hope(p)'
        BY <3>1 DEF Hope
      <3>3. \A other \in Tokens \ {swap[p].token} : allowance'[other] = allowance[other]
        BY <2>2 DEF Taken, OdosTypeOK
      <3> QED  BY <1>5, <2>1, <3>2, <3>3
    <2>3. CASE NotTaken(p)
      <3>1. ~ Covered(p) /\ UNCHANGED allowance
        BY <1>a, <2>3 DEF NotTaken
      <3>2. ~ Hope(p)
        BY <2>1, <3>1 DEF Hope
      <3> QED  BY <1>2, <2>1, <3>1, <3>2
    <2> QED  BY <2>1, <2>2, <2>3
  <1>8. ~ Crash
    BY <1>a, CrashFacts
  <1>9. CASE UNCHANGED vars
    BY <1>9, <1>b, <1>d DEF vars
  <1> QED  BY <1>1, <1>3, <1>4, <1>6, <1>7, <1>8, <1>9, NextKinds

-----------------------------------------------------------------------------
(* What follows.                                                           *)

LEMMA OdosInit == ASSUME Init PROVE OdosInv
  <1>1. SwapsAssumption /\ 1 \in Amounts
    BY SwapsAssumption DEF Amounts
  <1>2. Unasked \in SwapType /\ Unasked.at = "unasked"
    BY <1>1 DEF Unasked, SwapType, States
  <1>3. \A p \in Swaps : swap[p] \in SwapType /\ swap[p].at = "unasked"
    BY <1>2 DEF Init
  <1>4. OdosTypeOK
    BY <1>2 DEF Init, OdosTypeOK
  <1>5. PendingInv /\ Version6 /\ AloneInv /\ HopeInv
    BY <1>3 DEF Init, PendingInv, Version6, AloneInv, HopeInv, ToItself, InFlight
  <1>6. TookFrom({})
    <2>1. Who("done") = {}
      BY <1>3 DEF Who
    <2>2. \A t \in Tokens : spent[t] = 0
      BY DEF Init
    <2>3. \A t \in Tokens : AmountsOf({p \in {} : swap[p].token = t}) = 0
      <3>1. \A t \in Tokens : {p \in {} : swap[p].token = t} = {}
        OBVIOUS
      <3> QED  BY <3>1, SumEmpty DEF AmountsOf
    <2>4. \A k \in DOMAIN pending : pending[k].op = "swap" => pending[k].by \notin {}
      OBVIOUS
    <2> QED  BY <2>1, <2>2, <2>3, <2>4 DEF TookFrom
  <1> QED  BY <1>4, <1>5, <1>6 DEF OdosInv, SpentInv

LEMMA OdosStep == OdosInv /\ [Next]_vars => OdosInv'
  BY TypeStep, PendingStep, VersionStep, SpentStep, AloneStep, HopeStep DEF OdosInv

LEMMA OdosAlways == Spec => []OdosInv
  BY OdosInit, OdosStep, PTL DEF Spec

LEMMA OdosSpent == OdosInv => SpentAsAsked
  <1> SUFFICES ASSUME OdosInv, NEW t \in Tokens
               PROVE  LET ofToken == {p \in Swaps : swap[p].token = t}
                      IN  /\ spent[t] >= AmountsOf({p \in ofToken : swap[p].at = "done"})
                          /\ spent[t] <= AmountsOf({p \in ofToken : swap[p].at \in {"done", "failed"}})
                          /\ faults = 0 => spent[t] = AmountsOf({p \in ofToken : swap[p].at = "done"})
    BY DEF SpentAsAsked
  <1> DEFINE ofToken == {p \in Swaps : swap[p].token = t}
             done    == {p \in ofToken : swap[p].at = "done"}
             ended   == {p \in ofToken : swap[p].at \in {"done", "failed"}}
             fun     == [p \in Swaps |-> swap[p].amount]
  <1>1. PICK X \in SUBSET Swaps : TookFrom(X)
    BY DEF OdosInv, SpentInv
  <1> DEFINE took == {p \in X : swap[p].token = t}
  <1>2. /\ done \subseteq took /\ took \subseteq ended /\ ended \subseteq Swaps
        /\ faults = 0 => took = done
    BY <1>1 DEF TookFrom, Who
  <1>3. /\ spent[t] = SumFunctionOnSet(fun, took)
        /\ AmountsOf(done) = SumFunctionOnSet(fun, done)
        /\ AmountsOf(ended) = SumFunctionOnSet(fun, ended)
    BY <1>1 DEF TookFrom, AmountsOf
  <1>4. \A p \in Swaps : fun[p] \in Nat
    BY DEF OdosInv, OdosTypeOK, SwapType, Amounts
  <1> HIDE DEF done, ended, took, fun
  <1>5. IsFiniteSet(took) /\ IsFiniteSet(ended)
    BY <1>2, FS_Subset, SwapsAssumption
  <1>6. SumFunctionOnSet(fun, done) <= SumFunctionOnSet(fun, took)
    BY <1>2, <1>4, <1>5, SumSubset
  <1>7. SumFunctionOnSet(fun, took) <= SumFunctionOnSet(fun, ended)
    BY <1>2, <1>4, <1>5, SumSubset
  <1>8. /\ SumFunctionOnSet(fun, done) \in Nat /\ SumFunctionOnSet(fun, took) \in Nat
    BY <1>2, <1>4, <1>5, FS_Subset, SumNat
  <1>9. /\ spent[t] >= AmountsOf(done) /\ spent[t] <= AmountsOf(ended)
        /\ faults = 0 => spent[t] = AmountsOf(done)
    BY <1>2, <1>3, <1>6, <1>7, <1>8
  <1> QED  BY <1>9 DEF done, ended

\* The router takes of a token the amounts of the swaps that succeeded, each once, and
\* of those that died with a transaction pending, for any number of swaps that run side
\* by side, transactions that revert and crashes.
THEOREM TakesAsAsked == Spec => []SpentAsAsked
  BY OdosAlways, OdosSpent, PTL

LEMMA OdosLone == OdosInv => LoneSwapSucceeds
  <1> SUFFICES ASSUME OdosInv, NEW p \in Swaps, swap[p].at = "failed", ~ (faults > 0), ethers # 6
               PROVE  ~ swap[p].alone
    BY DEF LoneSwapSucceeds
  <1>1. faults = 0 /\ ethers = 5 /\ swap[p].alone \in BOOLEAN
    BY DEF OdosInv, OdosTypeOK, SwapType
  <1>2. swap[p].alone # TRUE
    BY <1>1 DEF OdosInv, AloneInv, ToItself
  <1> QED  BY <1>1, <1>2

\* A swap no other swap of its token met does not fail, unless the API, the chain or the
\* process does, or the library is one the comparison throws with: no approval left by
\* an earlier swap can keep it from being covered.
THEOREM LoneSwapsSucceed == Spec => []LoneSwapSucceeds
  BY OdosAlways, OdosLone, PTL

LEMMA OdosSomeone == OdosInv => SomeoneSwaps
  <1> SUFFICES ASSUME OdosInv, faults = 0, NEW t \in Tokens, NEW q \in Swaps,
                      swap[q].token = t, swap[q].at # "unasked", UnderWay(t) = {}
               PROVE  ethers = 5 <=> \E p \in Swaps : /\ swap[p].token = t
                                                      /\ swap[p].at # "unasked"
                                                      /\ swap[p].at = "done"
    BY DEF SomeoneSwaps
  <1>1. CASE ethers = 5
    <2>1. PICK p \in Swaps : swap[p].token = t /\ Hope(p)
      BY <1>1 DEF OdosInv, HopeInv
    <2>2. swap[p].at \notin InFlight
      BY <2>1 DEF UnderWay
    <2>3. swap[p].at = "done"
      BY <2>1, <2>2 DEF Hope, InFlight
    <2> QED  BY <1>1, <2>1, <2>3
  <1>2. CASE ethers # 5
    <2>1. ethers = 6
      BY <1>2 DEF OdosInv, OdosTypeOK
    <2>2. \A p \in Swaps : swap[p].at # "done"
      BY <2>1 DEF OdosInv, Version6
    <2> QED  BY <1>2, <2>2
  <1> QED  BY <1>1, <1>2

\* Of the swaps of a token that run at the same time, overwriting and using up each
\* other's allowance, one succeeds with version 5 of the library, and none with 6.
THEOREM OneOfThemSwaps == Spec => []SomeoneSwaps
  BY OdosAlways, OdosSomeone, PTL
=============================================================================
