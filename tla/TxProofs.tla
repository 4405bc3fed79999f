------------------------------ MODULE TxProofs ------------------------------
(***************************************************************************)
(* What holds of the scripts that send transactions from one account, for  *)
(* any data and any number of runs, killed wherever they are.              *)
(***************************************************************************)
EXTENDS TxScripts, Arithmetic, SequenceTheorems

-----------------------------------------------------------------------------
(* The contracts.                                                          *)

\* What the scripts count, with its type; the rest may be anything.
IsChain(c) ==
    /\ {"white", "agentPools", "factory", "policy", "riskPools", "rewarders", "claimRoles",
        "currencies", "other", "stake", "lp"} = DOMAIN c
    /\ c.riskPools \in [Pools -> Nat] /\ c.rewarders \in [Pools -> Nat]
    /\ c.stake \in [Users -> Nat] /\ c.lp \in [Users -> Nat]

\* Only addPoolWhiteList changes the white list, and what is on it stays.
LEMMA WhiteGrows ==
    ASSUME NEW c, "white" \in DOMAIN c, NEW call, NEW p
    PROVE  /\ DOMAIN Executed(c, call) = DOMAIN c
           /\ p \in Executed(c, call).white
                 <=> (p \in c.white \/ (call.op = "addPoolWhiteList" /\ call.on = p))
  <1>1. CASE ~ Accepts(c, call)
    BY <1>1 DEF Executed, Accepts
  <1>2. CASE Accepts(c, call) /\ call.op = "addPoolWhiteList"
    BY <1>2 DEF Executed, Applied
  <1>3. CASE Accepts(c, call) /\ call.op # "addPoolWhiteList"
    <2>1. CASE call.op \in {"setMCR", "setMLR", "setSalesPolicyFactory", "createRiskPool"}
      BY <1>3, <2>1 DEF Executed, Applied
    <2>2. CASE call.op \in {"createRewarder", "grantRole", "newSalesPolicy", "addCurrency"}
      BY <1>3, <2>2 DEF Executed, Applied
    <2>3. CASE call.op \in {"setUserDetails"}
      BY <1>3, <2>3 DEF Executed, Applied
    <2>4. CASE call.op \notin {"setMCR", "setMLR", "setSalesPolicyFactory", "createRiskPool",
                               "createRewarder", "grantRole", "newSalesPolicy", "addCurrency",
                               "setUserDetails"}
      BY <1>3, <2>4 DEF Executed, Applied
    <2> QED  BY <2>1, <2>2, <2>3, <2>4
  <1> QED  BY <1>1, <1>2, <1>3

-----------------------------------------------------------------------------
(* What an estimate on the pending block sees.                             *)

\* Finitely many natural numbers.
Indices(S) == S \subseteq Nat /\ IsFiniteSet(S)

\* A part of a set of indices is one.
LEMMA IndicesIn ==
    ASSUME NEW S, Indices(S)
    PROVE  IsFiniteSet(S) /\ \A t \in SUBSET S : Indices(t)
  BY FS_Subset DEF Indices

\* The greatest of finitely many numbers.
LEMMA MaxIn ==
    ASSUME NEW S, Indices(S), S # {}
    PROVE  Max(S) \in S
  <1> DEFINE from(x) == {y \in S : y >= x}
             T == {from(x) : x \in S}
  <1>1. T \in SUBSET (SUBSET S) /\ T # {}
    OBVIOUS
  <1>2. PICK m \in T : \A u \in T : u \subseteq m => u = m
    <2>1. IsFiniteSet(S)
      BY IndicesIn
    <2>2. IsFiniteSet(S)
      BY IndicesIn
    <2> HIDE DEF T
    <2> QED  BY <1>1, <2>1, <2>2, MinimalSubset
  <1>3. PICK x \in S : m = from(x)
    BY <1>2
  <1>4. ASSUME NEW y \in S PROVE x >= y
    <2>1. x \in Nat /\ y \in Nat /\ \A z \in S : z \in Nat
      BY DEF Indices
    <2>2. ASSUME y > x PROVE FALSE
      <3>1. \A z \in S : z >= y => z >= x
        BY <2>1, <2>2
      <3>2. ~ (x >= y) /\ x >= x
        BY <2>1, <2>2
      <3>3. from(y) \subseteq from(x) /\ x \notin from(y) /\ x \in from(x)
        BY <3>1, <3>2
      <3> QED  BY <1>2, <1>3, <3>3
    <2> QED  BY <2>1, <2>2
  <1> QED  BY <1>4 DEF Max

\* The recursion of FoldLeft, at one set of indices and as a whole.
FoldOf(fold, c, s, t) ==
    IF t = {} THEN c ELSE Executed(fold[t \ {Max(t)}], s[Max(t)])

IsFold(fold, c, s, D) == fold = [t \in SUBSET D |-> FoldOf(fold, c, s, t)]

\* What the recursion says of one set of indices.
LEMMA FoldAt ==
    ASSUME NEW fold, NEW c, NEW s, NEW D, IsFold(fold, c, s, D), NEW t \in SUBSET D
    PROVE  fold[t] = FoldOf(fold, c, s, t)
  BY DEF IsFold

\* Two recursions of a fold agree where both are defined.
LEMMA FoldUnique ==
    ASSUME NEW S, Indices(S), NEW A \in SUBSET S, NEW B \in SUBSET S,
           NEW c, NEW s, NEW f, IsFold(f, c, s, A), NEW g, IsFold(g, c, s, B),
           NEW u \in SUBSET (A \cap B)
    PROVE  f[u] = g[u]
  <1> DEFINE T == {t \in SUBSET (A \cap B) : f[t] # g[t]}
  <1>1. SUFFICES ASSUME T # {} PROVE FALSE
    OBVIOUS
  <1>2. PICK m \in T : \A t \in T : t \subseteq m => t = m
    <2>1. T \in SUBSET (SUBSET S)
      OBVIOUS
    <2>2. IsFiniteSet(S)
      BY IndicesIn
    <2> HIDE DEF T
    <2> QED  BY <1>1, <2>1, <2>2, MinimalSubset
  <1>3. f[m] = FoldOf(f, c, s, m) /\ g[m] = FoldOf(g, c, s, m)
    BY <1>2, FoldAt
  <1>4. m # {}
    BY <1>2, <1>3 DEF FoldOf
  <1>5. Indices(m)
    BY <1>2, IndicesIn
  <1> DEFINE t == m \ {Max(m)}
  <1>6. t \in SUBSET (A \cap B) /\ t \subseteq m /\ t # m
    BY <1>2, <1>4, <1>5, MaxIn
  <1>7. f[t] = g[t]
    BY <1>2, <1>6
  <1> QED  BY <1>2, <1>3, <1>4, <1>7 DEF FoldOf

\* The recursion has a solution.
LEMMA FoldExists ==
    ASSUME NEW S, Indices(S), NEW c, NEW s
    PROVE  \E fold : IsFold(fold, c, s, S)
  <1> DEFINE T == {t \in SUBSET S : ~ \E fold : IsFold(fold, c, s, t)}
  <1>1. SUFFICES ASSUME T # {} PROVE FALSE
    OBVIOUS
  <1>2. PICK m \in T : \A u \in T : u \subseteq m => u = m
    <2>1. T \in SUBSET (SUBSET S)
      OBVIOUS
    <2>2. IsFiniteSet(S)
      BY IndicesIn
    <2> HIDE DEF T
    <2> QED  BY <1>1, <2>1, <2>2, MinimalSubset
  <1>a. \A t \in SUBSET m : Indices(t)
    BY <1>2, IndicesIn
  <1> DEFINE of(t) == CHOOSE fold : IsFold(fold, c, s, t)
             value(t) == IF t = {} THEN c
                         ELSE Executed(of(t \ {Max(t)})[t \ {Max(t)}], s[Max(t)])
             g == [t \in SUBSET m |-> value(t)]
  <1>3. ASSUME NEW t \in SUBSET m, t # m
        PROVE  IsFold(of(t), c, s, t)
    BY <1>2, <1>3
  <1>4. ASSUME NEW t \in SUBSET m, t # m
        PROVE  g[t] = of(t)[t]
    <2>1. g[t] = value(t)
      OBVIOUS
    <2>2. of(t)[t] = FoldOf(of(t), c, s, t)
      BY <1>3, <1>4, FoldAt
    <2>3. CASE t = {}
      BY <2>1, <2>2, <2>3 DEF FoldOf
    <2>4. CASE t # {}
      <3> DEFINE u == t \ {Max(t)}
      <3>1. u \in SUBSET m /\ u # m /\ u \in SUBSET (u \cap t)
        BY <1>a, <1>4, <2>4, MaxIn
      <3>2. IsFold(of(u), c, s, u) /\ IsFold(of(t), c, s, t)
        BY <1>3, <1>4, <3>1
      <3>3. Indices(m)
        BY <1>a
      <3>4. of(t)[t] = Executed(of(t)[u], s[Max(t)])
        BY <2>2, <2>4 DEF FoldOf
      <3>5. value(t) = Executed(of(u)[u], s[Max(t)])
        BY <2>4
      <3> HIDE DEF u, of, value
      <3>6. \A A, B \in SUBSET m : \A f, h :
              IsFold(f, c, s, A) /\ IsFold(h, c, s, B) => \A x \in SUBSET (A \cap B) : f[x] = h[x]
        BY <3>3, FoldUnique
      <3>7. of(u)[u] = of(t)[u]
        BY <3>1, <3>2, <3>6
      <3> QED  BY <2>1, <3>4, <3>5, <3>7
    <2> QED  BY <2>3, <2>4
  <1>5. ASSUME NEW t \in SUBSET m
        PROVE  g[t] = FoldOf(g, c, s, t)
    <2>1. CASE t = {}
      BY <2>1 DEF FoldOf
    <2>2. CASE t # {}
      <3> DEFINE u == t \ {Max(t)}
      <3>1. u \in SUBSET m /\ u # m
        BY <1>a, <1>5, <2>2, MaxIn
      <3>2. g[u] = of(u)[u]
        BY <1>4, <3>1
      <3> QED  BY <2>2, <3>2 DEF FoldOf
    <2> QED  BY <2>1, <2>2
  <1>6. IsFold(g, c, s, m)
    <2> HIDE DEF value
    <2>1. g = [t \in SUBSET m |-> g[t]]
      OBVIOUS
    <2> HIDE DEF g
    <2> QED  BY <1>5, <2>1 DEF IsFold
  <1> QED  BY <1>2, <1>6

\* FoldLeft is the solution of its recursion.
LEMMA FoldDef ==
    ASSUME NEW c, NEW s
    PROVE  FoldLeft(Executed, c, s) = (CHOOSE fold : IsFold(fold, c, s, DOMAIN s))[DOMAIN s]
  BY DEF FoldLeft, MapThenFoldSet, IsFold, FoldOf

\* After any calls, a pool is whitelisted if it was before, or one of them did it.
LEMMA SeenWhite ==
    ASSUME NEW c, "white" \in DOMAIN c, NEW C, NEW s \in Seq(C), NEW p
    PROVE  p \in FoldLeft(Executed, c, s).white
              <=> \/ p \in c.white
                  \/ \E k \in DOMAIN s : s[k].op = "addPoolWhiteList" /\ s[k].on = p
  <1> DEFINE D == DOMAIN s
             fold == CHOOSE f : IsFold(f, c, s, D)
             added(t) == \E k \in t : s[k].op = "addPoolWhiteList" /\ s[k].on = p
             T == {t \in SUBSET D : ~ /\ DOMAIN fold[t] = DOMAIN c
                                      /\ p \in fold[t].white <=> (p \in c.white \/ added(t))}
  <1>1. Indices(D)
    <2>1. D = 1 .. Len(s) /\ Len(s) \in Nat
      OBVIOUS
    <2> QED  BY <2>1, FS_Interval DEF Indices
  <1>2. IsFold(fold, c, s, D) /\ FoldLeft(Executed, c, s) = fold[D]
    <2> HIDE DEF D
    <2>1. \E f : IsFold(f, c, s, D)
      BY <1>1, FoldExists
    <2>2. IsFold(fold, c, s, D)
      BY <2>1
    <2>3. FoldLeft(Executed, c, s) = fold[D]
      BY FoldDef DEF D
    <2> QED  BY <2>2, <2>3
  <1> HIDE DEF fold
  <1>3. SUFFICES ASSUME T # {} PROVE FALSE
    <2>1. D \in SUBSET D
      OBVIOUS
    <2> HIDE DEF D
    <2>2. p \in fold[D].white <=> (p \in c.white \/ added(D))
      BY <2>1
    <2> QED  BY <1>2, <2>2 DEF D
  <1>4. PICK m \in T : \A u \in T : u \subseteq m => u = m
    <2>1. T \in SUBSET (SUBSET D)
      OBVIOUS
    <2> HIDE DEF T, D
    <2>2. IsFiniteSet(D)
      BY <1>1, IndicesIn
    <2> QED  BY <1>3, <2>1, <2>2, MinimalSubset
  <1> HIDE DEF D
  <1>5. m \in SUBSET D /\ Indices(m)
    BY <1>1, <1>4, IndicesIn
  <1>6. fold[m] = FoldOf(fold, c, s, m)
    BY <1>2, <1>5, FoldAt
  <1>7. m # {}
    BY <1>4, <1>6 DEF FoldOf
  <1> DEFINE u == m \ {Max(m)}
  <1>8. u \in SUBSET D /\ u \subseteq m /\ u # m /\ m = u \cup {Max(m)}
    BY <1>5, <1>7, MaxIn
  <1>9. DOMAIN fold[u] = DOMAIN c /\ (p \in fold[u].white <=> (p \in c.white \/ added(u)))
    BY <1>4, <1>8
  <1>10. fold[m] = Executed(fold[u], s[Max(m)])
    BY <1>6, <1>7 DEF FoldOf
  <1>11. /\ DOMAIN fold[m] = DOMAIN c
         /\ p \in fold[m].white <=> (p \in fold[u].white
                                       \/ (s[Max(m)].op = "addPoolWhiteList" /\ s[Max(m)].on = p))
    BY <1>9, <1>10, WhiteGrows
  <1>12. added(m) <=> (added(u) \/ (s[Max(m)].op = "addPoolWhiteList" /\ s[Max(m)].on = p))
    BY <1>8
  <1>13. m \notin T
    BY <1>9, <1>11, <1>12
  <1> QED  BY <1>4, <1>13

\* What a transaction does to the parts of the state that the properties speak of.
LEMMA Effect ==
    ASSUME NEW c, IsChain(c), NEW call
    PROVE  LET d == Executed(c, call)
           IN  /\ DOMAIN d = DOMAIN c
               /\ \/ d.riskPools = c.riskPools /\ d.agentPools = c.agentPools
                  \/ /\ call.op = "createRiskPool" /\ call.on \notin c.agentPools
                     /\ d.riskPools = [c.riskPools EXCEPT ![call.on] = @ + 1]
                     /\ d.agentPools = c.agentPools \cup {call.on}
               /\ d.rewarders = IF call.op = "createRewarder"
                                  THEN [c.rewarders EXCEPT ![call.on] = @ + 1] ELSE c.rewarders
               /\ call.op # "newSalesPolicy" => d.policy = c.policy
               /\ call.op # "addCurrency" => d.currencies = c.currencies
               /\ call.op \in {"addPoolWhiteList", "setMCR", "setMLR", "setSalesPolicyFactory",
                               "createRiskPool", "createRewarder", "grantRole"}
                    => d.other = c.other
               /\ d.stake = IF call.op = "setUserDetails"
                              THEN [c.stake EXCEPT ![call.on] = 1] ELSE c.stake
               /\ d.lp = IF call.op = "setUserDetails"
                           THEN [c.lp EXCEPT ![call.on] = @ + 1] ELSE c.lp
  <1>1. CASE ~ Accepts(c, call)
    <2>1. Executed(c, call) = c
      BY <1>1 DEF Executed
    <2>2. call.op \notin {"setMCR", "setMLR", "setSalesPolicyFactory", "createRewarder",
                          "grantRole", "setUserDetails"}
      BY <1>1 DEF Accepts
    <2> QED  BY <1>1, <2>1, <2>2
  <1>2. CASE Accepts(c, call) /\ call.op \in {"addPoolWhiteList", "setMCR", "setMLR",
                                              "setSalesPolicyFactory"}
    <2>1. Executed(c, call) = Applied(c, call)
      BY <1>2 DEF Executed
    <2> QED  BY <1>2, <2>1 DEF Applied, IsChain
  <1>3. CASE Accepts(c, call) /\ call.op = "createRiskPool"
    <2>1. Executed(c, call) = Applied(c, call) /\ call.on \notin c.agentPools
      BY <1>3 DEF Executed, Accepts
    <2> QED  BY <1>3, <2>1 DEF Applied, IsChain
  <1>4. CASE Accepts(c, call) /\ call.op \in {"createRewarder", "grantRole", "newSalesPolicy",
                                              "addCurrency"}
    <2>1. Executed(c, call) = Applied(c, call)
      BY <1>4 DEF Executed
    <2> QED  BY <1>4, <2>1 DEF Applied, IsChain
  <1>5. CASE Accepts(c, call) /\ call.op \in {"setUserDetails"}
    <2>1. Executed(c, call) = Applied(c, call)
      BY <1>5 DEF Executed
    <2> QED  BY <1>5, <2>1 DEF Applied, IsChain
  <1>6. CASE Accepts(c, call) /\ call.op \notin {"setMCR", "setMLR", "setSalesPolicyFactory",
                "createRiskPool", "createRewarder", "grantRole", "newSalesPolicy", "addCurrency",
                "setUserDetails", "addPoolWhiteList"}
    <2>1. Executed(c, call) = Applied(c, call)
      BY <1>6 DEF Executed
    <2>2. Applied(c, call) = [c EXCEPT !.other = @ \cup {call.op}]
      BY <1>6 DEF Applied
    <2> QED  BY <1>6, <2>1, <2>2 DEF IsChain
  <1> QED  BY <1>1, <1>2, <1>3, <1>4, <1>5, <1>6

\* The state keeps its shape, whatever is called.
LEMMA ChainStays ==
    ASSUME NEW c, IsChain(c), NEW call
    PROVE  IsChain(Executed(c, call))
  <1> DEFINE d == Executed(c, call)
  <1>1. DOMAIN d = DOMAIN c
    BY Effect
  <1>2. d.riskPools \in [Pools -> Nat]
    <2>1. d.riskPools = c.riskPools \/ d.riskPools = [c.riskPools EXCEPT ![call.on] = @ + 1]
      BY Effect
    <2>2. c.riskPools \in [Pools -> Nat]
      BY DEF IsChain
    <2> HIDE DEF d
    <2> QED  BY <2>1, <2>2
  <1>3. d.rewarders \in [Pools -> Nat]
    <2>1. d.rewarders = c.rewarders \/ d.rewarders = [c.rewarders EXCEPT ![call.on] = @ + 1]
      BY Effect
    <2>2. c.rewarders \in [Pools -> Nat]
      BY DEF IsChain
    <2> HIDE DEF d
    <2> QED  BY <2>1, <2>2
  <1>4. d.stake \in [Users -> Nat]
    <2>1. d.stake = c.stake \/ d.stake = [c.stake EXCEPT ![call.on] = 1]
      BY Effect
    <2>2. c.stake \in [Users -> Nat]
      BY DEF IsChain
    <2> HIDE DEF d
    <2> QED  BY <2>1, <2>2
  <1>5. d.lp \in [Users -> Nat]
    <2>1. d.lp = c.lp \/ d.lp = [c.lp EXCEPT ![call.on] = @ + 1]
      BY Effect
    <2>2. c.lp \in [Users -> Nat]
      BY DEF IsChain
    <2> HIDE DEF d
    <2> QED  BY <2>1, <2>2
  <1> QED  BY <1>1, <1>2, <1>3, <1>4, <1>5 DEF IsChain

-----------------------------------------------------------------------------
(* The calls of the setup up to the pools' second whitelisting.            *)

\* Two lists of calls one after the other.
LEMMA Joined ==
    ASSUME NEW S, NEW a \in Seq(S), NEW b \in Seq(S)
    PROVE  /\ a \o b \in Seq(S)
           /\ Len(a \o b) = Len(a) + Len(b) /\ Len(a) \in Nat /\ Len(b) \in Nat
           /\ \A i \in Nat : 1 <= i /\ i <= Len(a) => (a \o b)[i] = a[i]
           /\ \A i \in Nat : Len(a) < i /\ i <= Len(a) + Len(b) => (a \o b)[i] = b[i - Len(a)]
  OBVIOUS

\* What a call that is not for one pool is on.
NoPool == ""

\* The calls of the setup.
Operations ==
    {"addPoolWhiteList", "setMCR", "setMLR", "setSalesPolicyFactory", "createRiskPool",
     "createRewarder", "grantRole", "setCapitalAgent", "createRiskPoolOfSSRP",
     "createRewarderOfSSRP", "newSalesPolicy", "setSignerInPolicy", "approvePremiumInPolicy",
     "addCurrency", "addWhiteList"}

CallSet == [op : Operations, on : Pools \cup {NoPool, "salesPolicy"}]

\* The four pools, by name.
LEMMA FourPools ==
    /\ DOMAIN SSIPs = 1 .. 4 /\ \A i \in 1 .. 4 : SSIPs[i] \in Pools
    /\ SSIPs[1] = "ETH" /\ SSIPs[2] = "UNO" /\ SSIPs[3] = "USDC" /\ SSIPs[4] = "USDT"
    /\ Pools = {"ETH", "UNO", "USDC", "USDT"}
  <1>1. /\ DOMAIN SSIPs = 1 .. 4
        /\ SSIPs[1] = "ETH" /\ SSIPs[2] = "UNO" /\ SSIPs[3] = "USDC" /\ SSIPs[4] = "USDT"
    BY DEF SSIPs
  <1>2. \A i \in 1 .. 4 : i = 1 \/ i = 2 \/ i = 3 \/ i = 4
    OBVIOUS
  <1>3. Pools = {SSIPs[i] : i \in 1 .. 4}
    BY <1>1 DEF Pools, ToSet
  <1> QED  BY <1>1, <1>2, <1>3

\* A function on 1 .. n is a list of length n.
LEMMA FunctionList ==
    ASSUME NEW S, NEW n \in Nat, NEW f \in [1 .. n -> S]
    PROVE  f \in Seq(S) /\ Len(f) = n
  <1>1. f \in Seq(S)
    BY SeqDef
  <1>2. DOMAIN f = 1 .. Len(f) /\ DOMAIN f = 1 .. n /\ Len(f) \in Nat
    BY <1>1, LenProperties
  <1> QED  BY <1>2

\* Four calls, one for each pool.
ForPools(list, from, op) ==
    /\ list[from + 1] = Call(op, "ETH") /\ list[from + 2] = Call(op, "UNO")
    /\ list[from + 3] = Call(op, "USDC") /\ list[from + 4] = Call(op, "USDT")

\* One call for each pool, in their order.
LEMMA ForEachPoolIs ==
    ASSUME NEW op \in Operations
    PROVE  /\ ForEachPool(op) \in Seq(CallSet) /\ Len(ForEachPool(op)) = 4
           /\ ForPools(ForEachPool(op), 0, op)
  <1>1. ForEachPool(op) = [i \in 1 .. 4 |-> Call(op, SSIPs[i])]
    BY FourPools DEF ForEachPool
  <1>2. \A i \in 1 .. 4 : Call(op, SSIPs[i]) \in CallSet
    BY FourPools DEF Call, CallSet
  <1>3. ForEachPool(op) \in [1 .. 4 -> CallSet]
    BY <1>1, <1>2
  <1>4. ForEachPool(op) \in Seq(CallSet) /\ Len(ForEachPool(op)) = 4
    BY <1>3, FunctionList
  <1>5. 1 \in 1 .. 4 /\ 2 \in 1 .. 4 /\ 3 \in 1 .. 4 /\ 4 \in 1 .. 4
    OBVIOUS
  <1>6. /\ ForEachPool(op)[1] = Call(op, "ETH") /\ ForEachPool(op)[2] = Call(op, "UNO")
        /\ ForEachPool(op)[3] = Call(op, "USDC") /\ ForEachPool(op)[4] = Call(op, "USDT")
    BY <1>1, <1>5, FourPools
  <1> QED  BY <1>4, <1>6 DEF ForPools

\* The seven calls to the agent.
LEMMA AgentCallsAre ==
    /\ AgentCalls \in Seq(CallSet) /\ Len(AgentCalls) = 7
    /\ ForPools(AgentCalls, 0, "addPoolWhiteList")
    /\ AgentCalls[5] = Call("setMCR", NoPool) /\ AgentCalls[6] = Call("setMLR", NoPool)
    /\ AgentCalls[7] = Call("setSalesPolicyFactory", NoPool)
  <1> DEFINE a == ForEachPool("addPoolWhiteList")
             x == Call("setMCR", NoPool)
             y == Call("setMLR", NoPool)
             z == Call("setSalesPolicyFactory", NoPool)
             b == <<x, y, z>>
  <1>1. a \in Seq(CallSet) /\ Len(a) = 4 /\ ForPools(a, 0, "addPoolWhiteList")
    BY ForEachPoolIs DEF Operations
  <1>2. x \in CallSet /\ y \in CallSet /\ z \in CallSet
    BY DEF Call, CallSet, Operations
  <1>3. AgentCalls = a \o b
    BY DEF AgentCalls, NoPool
  <1> HIDE DEF a, x, y, z
  <1>4. b \in Seq(CallSet) /\ Len(b) = 3 /\ b[1] = x /\ b[2] = y /\ b[3] = z
    BY <1>2
  <1> HIDE DEF b
  <1> DEFINE ab == a \o b
  <1>5. /\ ab \in Seq(CallSet) /\ Len(ab) = Len(a) + Len(b)
        /\ \A i \in Nat : 1 <= i /\ i <= Len(a) => ab[i] = a[i]
        /\ \A i \in Nat : Len(a) < i /\ i <= Len(a) + Len(b) => ab[i] = b[i - Len(a)]
    BY <1>1, <1>4, Joined
  <1> HIDE DEF ab
  <1>6. /\ ab[1] = a[1] /\ ab[2] = a[2] /\ ab[3] = a[3] /\ ab[4] = a[4]
        /\ ab[5] = b[1] /\ ab[6] = b[2] /\ ab[7] = b[3]
    BY <1>1, <1>4, <1>5
  <1>7. ForPools(ab, 0, "addPoolWhiteList")
    BY <1>1, <1>6 DEF ForPools
  <1>8. ab[5] = x /\ ab[6] = y /\ ab[7] = z
    BY <1>4, <1>6
  <1>9. Len(ab) = 7
    BY <1>1, <1>4, <1>5
  <1> QED  BY <1>3, <1>5, <1>7, <1>8, <1>9 DEF ab, x, y, z

\* The twelve calls to the pools.
LEMMA PoolCallsAre ==
    /\ PoolCalls \in Seq(CallSet) /\ Len(PoolCalls) = 12
    /\ ForPools(PoolCalls, 0, "createRiskPool") /\ ForPools(PoolCalls, 4, "createRewarder")
    /\ ForPools(PoolCalls, 8, "grantRole")
  <1> DEFINE a == ForEachPool("createRiskPool")
             b == ForEachPool("createRewarder")
             g == ForEachPool("grantRole")
             bg == b \o g
  <1>1. /\ a \in Seq(CallSet) /\ Len(a) = 4 /\ ForPools(a, 0, "createRiskPool")
        /\ b \in Seq(CallSet) /\ Len(b) = 4 /\ ForPools(b, 0, "createRewarder")
        /\ g \in Seq(CallSet) /\ Len(g) = 4 /\ ForPools(g, 0, "grantRole")
    BY ForEachPoolIs DEF Operations
  <1>2. PoolCalls = (a \o b) \o g
    BY DEF PoolCalls
  <1> HIDE DEF a, b, g
  <1>3. PoolCalls = a \o bg
    BY <1>1, <1>2, ConcatAssociative
  <1>4. /\ bg \in Seq(CallSet) /\ Len(bg) = Len(b) + Len(g)
        /\ \A i \in Nat : 1 <= i /\ i <= Len(b) => bg[i] = b[i]
        /\ \A i \in Nat : Len(b) < i /\ i <= Len(b) + Len(g) => bg[i] = g[i - Len(b)]
    BY <1>1, Joined
  <1> HIDE DEF bg
  <1>5. /\ bg[1] = b[1] /\ bg[2] = b[2] /\ bg[3] = b[3] /\ bg[4] = b[4]
        /\ bg[5] = g[1] /\ bg[6] = g[2] /\ bg[7] = g[3] /\ bg[8] = g[4]
    BY <1>1, <1>4
  <1> DEFINE all == a \o bg
  <1>6. /\ all \in Seq(CallSet) /\ Len(all) = Len(a) + Len(bg)
        /\ \A i \in Nat : 1 <= i /\ i <= Len(a) => all[i] = a[i]
        /\ \A i \in Nat : Len(a) < i /\ i <= Len(a) + Len(bg) => all[i] = bg[i - Len(a)]
    <2>1. a \in Seq(CallSet) /\ bg \in Seq(CallSet)
      BY <1>1, <1>4
    <2> QED  BY <2>1, Joined
  <1> HIDE DEF all
  <1>7. Len(a) = 4 /\ Len(bg) = 8
    BY <1>1, <1>4
  <1>8. /\ all[1] = a[1] /\ all[2] = a[2] /\ all[3] = a[3] /\ all[4] = a[4]
        /\ all[5] = bg[1] /\ all[6] = bg[2] /\ all[7] = bg[3] /\ all[8] = bg[4]
        /\ all[9] = bg[5] /\ all[10] = bg[6] /\ all[11] = bg[7] /\ all[12] = bg[8]
    BY <1>6, <1>7
  <1>9. ForPools(all, 0, "createRiskPool")
    BY <1>1, <1>8 DEF ForPools
  <1>10. ForPools(all, 4, "createRewarder")
    BY <1>1, <1>5, <1>8 DEF ForPools
  <1>11. ForPools(all, 8, "grantRole")
    BY <1>1, <1>5, <1>8 DEF ForPools
  <1>12. PoolCalls = all
    BY <1>3 DEF all
  <1> QED  BY <1>6, <1>7, <1>9, <1>10, <1>11, <1>12

\* The rest of the setup is a list, too.
LEMMA RestIsList == PolicyCalls \in Seq(CallSet) /\ PremiumPoolCalls \in Seq(CallSet)
  <1>1. ASSUME NEW op \in Operations
        PROVE  [i \in 1 .. 3 |-> Call(op, SSIPs[i + 1])] \in Seq(CallSet)
    <2> DEFINE f == [i \in 1 .. 3 |-> Call(op, SSIPs[i + 1])]
    <2>1. \A i \in 1 .. 3 : SSIPs[i + 1] \in Pools
      BY FourPools
    <2>2. \A i \in 1 .. 3 : Call(op, SSIPs[i + 1]) \in CallSet
      BY <2>1 DEF Call, CallSet
    <2>3. f \in [1 .. 3 -> CallSet]
      BY <2>2
    <2> HIDE DEF f
    <2>4. f \in Seq(CallSet)
      BY <2>3, FunctionList
    <2> QED  BY <2>4 DEF f
  <1> DEFINE a == ForEachPool("setCapitalAgent")
             x == Call("createRiskPoolOfSSRP", NoPool)
             y == Call("createRewarderOfSSRP", NoPool)
             z == Call("newSalesPolicy", NoPool)
             w == Call("setSignerInPolicy", NoPool)
             v == Call("addWhiteList", "salesPolicy")
             b == <<x, y, z, w>>
             d == [i \in 1 .. 3 |-> Call("approvePremiumInPolicy", SSIPs[i + 1])]
             e == [i \in 1 .. 3 |-> Call("addCurrency", SSIPs[i + 1])]
             f == <<v>>
  <1>2. a \in Seq(CallSet)
    BY ForEachPoolIs DEF Operations
  <1>3. d \in Seq(CallSet) /\ e \in Seq(CallSet)
    BY <1>1 DEF Operations
  <1>4. x \in CallSet /\ y \in CallSet /\ z \in CallSet /\ w \in CallSet /\ v \in CallSet
    BY DEF Call, CallSet, Operations
  <1>5. PolicyCalls = (a \o b) \o d /\ PremiumPoolCalls = e \o f
    BY DEF PolicyCalls, PremiumPoolCalls, NoPool
  <1> HIDE DEF a, x, y, z, w, v, d, e
  <1>6. b \in Seq(CallSet) /\ f \in Seq(CallSet)
    BY <1>4
  <1> HIDE DEF b, f
  <1>7. a \o b \in Seq(CallSet)
    BY <1>2, <1>6, Joined
  <1>8. (a \o b) \o d \in Seq(CallSet) /\ e \o f \in Seq(CallSet)
    BY <1>3, <1>6, <1>7, Joined
  <1> QED  BY <1>5, <1>8

\* The first twenty calls: what the last of them would do, the first has done.
LEMMA SetupCallsAre ==
    /\ SetupCalls \in Seq(CallSet) /\ Len(SetupCalls) > 20
    /\ ForPools(SetupCalls, 0, "addPoolWhiteList")
    /\ SetupCalls[5] = Call("setMCR", NoPool) /\ SetupCalls[6] = Call("setMLR", NoPool)
    /\ SetupCalls[7] = Call("setSalesPolicyFactory", NoPool)
    /\ ForPools(SetupCalls, 7, "createRiskPool") /\ ForPools(SetupCalls, 11, "createRewarder")
    /\ ForPools(SetupCalls, 15, "grantRole")
    /\ SetupCalls[20] = Call("addPoolWhiteList", "ETH")
  <1> DEFINE a == AgentCalls
             b == PoolCalls
             p == PolicyCalls
             q == PremiumPoolCalls
             g == p \o q
             ag == a \o g
             bag == b \o ag
             all == a \o bag
  <1>1. SetupCalls = (((a \o b) \o a) \o p) \o q
    BY DEF SetupCalls
  <1>2. a \in Seq(CallSet) /\ Len(a) = 7 /\ b \in Seq(CallSet) /\ Len(b) = 12
    BY AgentCallsAre, PoolCallsAre
  <1>3. p \in Seq(CallSet) /\ q \in Seq(CallSet)
    BY RestIsList
  <1> HIDE DEF a, b, p, q
  <1>4. g \in Seq(CallSet) /\ Len(g) \in Nat
    BY <1>3, Joined
  <1>5. SetupCalls = all
    <2>1. a \o b \in Seq(CallSet)
      BY <1>2, Joined
    <2>2. (a \o b) \o a \in Seq(CallSet)
      BY <1>2, <2>1, Joined
    <2>3. (((a \o b) \o a) \o p) \o q = ((a \o b) \o a) \o g
      BY <1>3, <2>2, ConcatAssociative
    <2> DEFINE ab == a \o b
    <2>4. (ab \o a) \o g = ab \o ag
      <3>1. ab \in Seq(CallSet) /\ a \in Seq(CallSet) /\ g \in Seq(CallSet)
        BY <1>2, <1>4, <2>1
      <3> HIDE DEF ab, g
      <3> QED  BY <3>1, ConcatAssociative
    <2>5. ag \in Seq(CallSet)
      BY <1>2, <1>4, Joined
    <2> HIDE DEF ag
    <2>6. (a \o b) \o ag = a \o (b \o ag)
      BY <1>2, <2>5, ConcatAssociative
    <2> QED  BY <1>1, <2>3, <2>4, <2>6
  <1> HIDE DEF g
  <1>6. /\ ag \in Seq(CallSet) /\ Len(ag) = Len(a) + Len(g)
        /\ \A i \in Nat : 1 <= i /\ i <= Len(a) => ag[i] = a[i]
    BY <1>2, <1>4, Joined
  <1> HIDE DEF ag
  <1>7. Len(ag) = 7 + Len(g) /\ ag[1] = a[1]
    BY <1>2, <1>6
  <1>8. /\ bag \in Seq(CallSet) /\ Len(bag) = Len(b) + Len(ag)
        /\ \A i \in Nat : 1 <= i /\ i <= Len(b) => bag[i] = b[i]
        /\ \A i \in Nat : Len(b) < i /\ i <= Len(b) + Len(ag) => bag[i] = ag[i - Len(b)]
    <2>1. b \in Seq(CallSet) /\ ag \in Seq(CallSet)
      BY <1>2, <1>6
    <2> QED  BY <2>1, Joined
  <1> HIDE DEF bag
  <1>9. /\ Len(bag) = 19 + Len(g) /\ bag[13] = a[1]
        /\ bag[1] = b[1] /\ bag[2] = b[2] /\ bag[3] = b[3] /\ bag[4] = b[4]
        /\ bag[5] = b[5] /\ bag[6] = b[6] /\ bag[7] = b[7] /\ bag[8] = b[8]
        /\ bag[9] = b[9] /\ bag[10] = b[10] /\ bag[11] = b[11] /\ bag[12] = b[12]
    BY <1>2, <1>4, <1>7, <1>8
  <1>10. /\ all \in Seq(CallSet) /\ Len(all) = Len(a) + Len(bag)
         /\ \A i \in Nat : 1 <= i /\ i <= Len(a) => all[i] = a[i]
         /\ \A i \in Nat : Len(a) < i /\ i <= Len(a) + Len(bag) => all[i] = bag[i - Len(a)]
    <2>1. a \in Seq(CallSet) /\ bag \in Seq(CallSet)
      BY <1>2, <1>8
    <2> QED  BY <2>1, Joined
  <1> HIDE DEF all
  <1>11. /\ Len(all) > 20
         /\ all[1] = a[1] /\ all[2] = a[2] /\ all[3] = a[3] /\ all[4] = a[4]
         /\ all[5] = a[5] /\ all[6] = a[6] /\ all[7] = a[7]
    BY <1>2, <1>4, <1>9, <1>10
  <1>12. \A i \in Nat : 7 < i /\ i <= 20 => all[i] = bag[i - 7]
    <2>1. Len(a) = 7 /\ Len(bag) = 19 + Len(g) /\ Len(g) \in Nat
      BY <1>2, <1>4, <1>9
    <2>2. \A i \in Nat : Len(a) < i /\ i <= Len(a) + Len(bag) => all[i] = bag[i - Len(a)]
      BY <1>10
    <2>3. \A i \in Nat : 7 < i /\ i <= 20 => Len(a) < i /\ i <= Len(a) + Len(bag)
      BY <2>1
    <2> QED  BY <2>1, <2>2, <2>3
  <1>13. /\ all[8] = b[1] /\ all[9] = b[2] /\ all[10] = b[3] /\ all[11] = b[4]
         /\ all[12] = b[5] /\ all[13] = b[6] /\ all[14] = b[7] /\ all[15] = b[8]
         /\ all[16] = b[9] /\ all[17] = b[10] /\ all[18] = b[11] /\ all[19] = b[12]
         /\ all[20] = a[1]
    BY <1>9, <1>12
  <1>14. /\ ForPools(a, 0, "addPoolWhiteList")
         /\ a[5] = Call("setMCR", NoPool) /\ a[6] = Call("setMLR", NoPool)
         /\ a[7] = Call("setSalesPolicyFactory", NoPool)
    BY AgentCallsAre DEF a
  <1>15. /\ ForPools(b, 0, "createRiskPool") /\ ForPools(b, 4, "createRewarder")
         /\ ForPools(b, 8, "grantRole")
    BY PoolCallsAre DEF b
  <1>16. ForPools(all, 0, "addPoolWhiteList") /\ all[20] = Call("addPoolWhiteList", "ETH")
    <2>1. /\ a[1] = Call("addPoolWhiteList", "ETH") /\ a[2] = Call("addPoolWhiteList", "UNO")
          /\ a[3] = Call("addPoolWhiteList", "USDC") /\ a[4] = Call("addPoolWhiteList", "USDT")
      <3>1. ForPools(a, 0, "addPoolWhiteList")
        BY <1>14
      <3> QED  BY <3>1 DEF ForPools
    <2>2. all[20] = Call("addPoolWhiteList", "ETH")
      BY <1>13, <2>1
    <2>3. ForPools(all, 0, "addPoolWhiteList")
      BY <1>11, <2>1 DEF ForPools
    <2> QED  BY <2>2, <2>3
  <1>17. ForPools(all, 7, "createRiskPool")
    BY <1>13, <1>15 DEF ForPools
  <1>18. ForPools(all, 11, "createRewarder")
    BY <1>13, <1>15 DEF ForPools
  <1>19. ForPools(all, 15, "grantRole")
    BY <1>13, <1>15 DEF ForPools
  <1> QED  BY <1>5, <1>10, <1>11, <1>14, <1>16, <1>17, <1>18, <1>19

-----------------------------------------------------------------------------
(* The scripts, and what every one of them keeps to.                       *)

IsSetup == \E sees \in {"latest", "pending"} : job = Setup(sees)
IsDetails == \E sees \in {"latest", "pending"} : job = SetDetails(sees)

\* The keys of the data, one after the other.
Keys == SetToSeq(Users)

\* What may be sent.
Sent == {job.calls[i] : i \in DOMAIN job.calls}

IsProcess(p) ==
    /\ DOMAIN p = {"running", "next", "waiting"}
    /\ p.running \in BOOLEAN /\ p.next \in Nat \ {0} /\ p.waiting \in BOOLEAN
    /\ p.waiting = TRUE => p.running = TRUE

\* The calls and the transactions are lists, and the state has its shape.
TxTypeOK ==
    /\ IsSetup \/ IsDetails
    /\ IsChain(chain)
    /\ pending \in Seq(Sent)
    /\ IsProcess(process)
    /\ past \in [runs : Nat, crashes : Nat, ended : Nat]

\* There are two kinds of scripts.
LEMMA KindsOfJobs ==
    ASSUME job \in Jobs
    PROVE  IsSetup \/ IsDetails
  BY DEF Jobs, IsSetup, IsDetails

\* The setup does not wait, and estimates.
LEMMA SetupJob ==
    ASSUME IsSetup
    PROVE  /\ job.name = "setup" /\ job.waits = FALSE /\ job.estimates \in {"latest", "pending"}
           /\ job.calls = SetupCalls
  BY DEF IsSetup, Setup

\* The keys of the data are different.
LEMMA KeysDiffer ==
    /\ Keys \in Seq(Users)
    /\ \A i, j \in DOMAIN Keys : Keys[i] = Keys[j] => i = j
  <1> DEFINE n == Cardinality(Users)
             C(f) == f \in [1 .. n -> Users] /\ IsInjective(f)
  <1>1. n \in Nat /\ ExistsBijection(1 .. n, Users)
    BY DetailsAssumption, FS_CardinalityType
  <1>2. PICK f : f \in Bijection(1 .. n, Users)
    BY <1>1 DEF ExistsBijection
  <1>3. C(f)
    <2>1. f \in [1 .. n -> Users] /\ \A a, b \in 1 .. n : f[a] = f[b] => a = b
      BY <1>2 DEF Bijection, Injection, IsInjective
    <2> QED  BY <2>1 DEF IsInjective
  <1>4. SetToSeq(Users) = CHOOSE g \in [1 .. n -> Users] : IsInjective(g)
    BY DEF SetToSeq
  <1>5. SetToSeq(Users) \in [1 .. n -> Users] /\ IsInjective(SetToSeq(Users))
    <2> HIDE DEF n
    <2> QED  BY <1>3, <1>4
  <1>6. SetToSeq(Users) \in Seq(Users)
    BY <1>1, <1>5, FunctionList
  <1> QED  BY <1>5, <1>6 DEF IsInjective, Keys

\* The details: one call for each key, each waited for.
LEMMA DetailsJob ==
    ASSUME IsDetails
    PROVE  /\ job.name = "details" /\ job.waits = TRUE /\ job.estimates \in {"latest", "pending"}
           /\ DOMAIN job.calls = DOMAIN Keys
           /\ \A i \in DOMAIN Keys : job.calls[i] = Call("setUserDetails", Keys[i])
           /\ \E S : job.calls \in Seq(S)
  <1>1. /\ job.name = "details" /\ job.waits = TRUE /\ job.estimates \in {"latest", "pending"}
        /\ job.calls = [i \in DOMAIN Keys |-> Call("setUserDetails", Keys[i])]
    BY DEF IsDetails, SetDetails, Keys
  <1> DEFINE S == {Call("setUserDetails", u) : u \in Users}
             m == Len(Keys)
  <1>2. DOMAIN Keys = 1 .. m /\ m \in Nat /\ Keys \in [1 .. m -> Users]
    BY <1>1, KeysDiffer, LenProperties
  <1>3. job.calls \in [1 .. m -> S]
    BY <1>1, <1>2
  <1> HIDE DEF m, S
  <1>4. job.calls \in Seq(S)
    BY <1>2, <1>3, FunctionList
  <1> QED  BY <1>1, <1>4

\* What is sent is one of the calls.
LEMMA SentCalls ==
    ASSUME IsSetup \/ IsDetails
    PROVE  /\ Len(job.calls) \in Nat /\ DOMAIN job.calls = 1 .. Len(job.calls)
           /\ \A i \in Nat : 1 <= i /\ i <= Len(job.calls) => job.calls[i] \in Sent
  <1>1. \E S : job.calls \in Seq(S)
    BY SetupJob, DetailsJob, SetupCallsAre
  <1>2. Len(job.calls) \in Nat /\ DOMAIN job.calls = 1 .. Len(job.calls)
    BY <1>1, LenProperties
  <1>3. \A i \in Nat : 1 <= i /\ i <= Len(job.calls) => job.calls[i] \in Sent
    BY <1>2 DEF Sent
  <1> QED  BY <1>2, <1>3

\* A transaction is added to those that are pending.
LEMMA Queued ==
    ASSUME NEW S, NEW q \in Seq(S), NEW x \in S
    PROVE  /\ Append(q, x) \in Seq(S)
           /\ \A k \in DOMAIN q : k \in DOMAIN Append(q, x) /\ Append(q, x)[k] = q[k] /\ k <= Len(q)
           /\ \A k \in DOMAIN Append(q, x) : k \in DOMAIN q \/ k = Len(q) + 1
           /\ Len(q) + 1 \in DOMAIN Append(q, x) /\ Append(q, x)[Len(q) + 1] = x
           /\ Len(q) \in Nat
  OBVIOUS

\* The first of those that are pending leaves.
LEMMA Dequeued ==
    ASSUME NEW S, NEW q \in Seq(S), q # <<>>
    PROVE  /\ 1 \in DOMAIN q /\ Head(q) = q[1] /\ Head(q) \in S /\ Tail(q) \in Seq(S)
           /\ \A k \in DOMAIN Tail(q) : /\ k + 1 \in DOMAIN q /\ k + 1 # 1 /\ k \in Nat
                                        /\ Tail(q)[k] = q[k + 1]
           /\ \A k \in DOMAIN q : k # 1 => k - 1 \in DOMAIN Tail(q) /\ Tail(q)[k - 1] = q[k]
  <1>1. /\ Len(q) \in Nat /\ DOMAIN q = 1 .. Len(q)
        /\ Tail(q) \in Seq(S) /\ Head(q) \in S
        /\ Len(Tail(q)) = Len(q) - 1
        /\ \A i \in 1 .. Len(Tail(q)) : Tail(q)[i] = q[i + 1]
    BY HeadTailProperties, LenProperties
  <1>2. DOMAIN Tail(q) = 1 .. Len(Tail(q)) /\ Len(q) # 0
    BY <1>1, LenProperties, EmptySeq
  <1>3. Head(q) = q[1]
    <2>1. 1 \in 1 .. Len(q) /\ Len(q) \in 1 .. Len(q)
      BY <1>1, <1>2
    <2>2. Head(SubSeq(q, 1, Len(q))) = q[1]
      BY <2>1, HeadTailOfSubSeq
    <2> QED  BY <2>2, SubSeqFull
  <1>4. \A k \in DOMAIN q : k # 1 => k - 1 \in 1 .. Len(Tail(q)) /\ (k - 1) + 1 = k
    BY <1>1, <1>2
  <1>5. \A k \in DOMAIN q : k # 1 => k - 1 \in DOMAIN Tail(q) /\ Tail(q)[k - 1] = q[k]
    <2> SUFFICES ASSUME NEW k \in DOMAIN q, k # 1
                 PROVE  k - 1 \in DOMAIN Tail(q) /\ Tail(q)[k - 1] = q[k]
      OBVIOUS
    <2> DEFINE j == k - 1
    <2>1. j \in 1 .. Len(Tail(q)) /\ j + 1 = k
      BY <1>4
    <2> HIDE DEF j
    <2>2. Tail(q)[j] = q[j + 1]
      BY <1>1, <2>1
    <2>3. j \in DOMAIN Tail(q) /\ Tail(q)[j] = q[k]
      BY <1>2, <2>1, <2>2
    <2> QED  BY <2>3 DEF j
  <1>6. \A k \in DOMAIN Tail(q) : k + 1 \in DOMAIN q /\ k + 1 # 1 /\ k \in Nat
    BY <1>1, <1>2
  <1>7. \A k \in DOMAIN Tail(q) : Tail(q)[k] = q[k + 1]
    BY <1>1, <1>2
  <1>8. 1 \in DOMAIN q
    BY <1>1, <1>2
  <1> QED  BY <1>1, <1>3, <1>5, <1>6, <1>7, <1>8

\* What may become of a process.
LEMMA Processes ==
    ASSUME NEW p, IsProcess(p), NEW w \in BOOLEAN
    PROVE  /\ IsProcess(Idle) /\ IsProcess([Idle EXCEPT !.running = TRUE])
           /\ IsProcess([p EXCEPT !.waiting = FALSE])
           /\ p.running = TRUE => IsProcess([p EXCEPT !.next = @ + 1, !.waiting = w])
  <1>1. IsProcess(Idle)
    BY DEF Idle, IsProcess
  <1>2. IsProcess([Idle EXCEPT !.running = TRUE])
    BY DEF Idle, IsProcess
  <1>3. IsProcess([p EXCEPT !.waiting = FALSE])
    <2> DEFINE r == [p EXCEPT !.waiting = FALSE]
    <2>1. DOMAIN r = DOMAIN p /\ r.waiting = FALSE
      BY DEF IsProcess
    <2>2. r.running = p.running /\ r.next = p.next
      BY DEF IsProcess
    <2> HIDE DEF r
    <2>3. r.running \in BOOLEAN /\ r.waiting \in BOOLEAN
      BY <2>1, <2>2 DEF IsProcess
    <2>4. r.waiting # TRUE
      BY <2>1
    <2>5. IsProcess(r)
      BY <2>1, <2>2, <2>3, <2>4 DEF IsProcess
    <2> QED  BY <2>5 DEF r
  <1>4. ASSUME p.running = TRUE PROVE IsProcess([p EXCEPT !.next = @ + 1, !.waiting = w])
    <2> DEFINE r == [p EXCEPT !.next = @ + 1, !.waiting = w]
    <2>1. DOMAIN r = DOMAIN p /\ r.next = p.next + 1
      BY DEF IsProcess
    <2>2. r.running = TRUE
      BY <1>4 DEF IsProcess
    <2>3. r.waiting = w
      BY DEF IsProcess
    <2> HIDE DEF r
    <2>4. r.running \in BOOLEAN /\ r.waiting \in BOOLEAN
      BY <2>2, <2>3
    <2>5. r.next \in Nat \ {0}
      BY <2>1 DEF IsProcess
    <2>6. DOMAIN r = {"running", "next", "waiting"}
      BY <2>1 DEF IsProcess
    <2>7. IsProcess(r)
      BY <2>2, <2>4, <2>5, <2>6 DEF IsProcess
    <2> QED  BY <2>7 DEF r
  <1> QED  BY <1>1, <1>2, <1>3, <1>4

\* Before the first run the state has its shape.
LEMMA TxTypeInit ==
    ASSUME Init
    PROVE  TxTypeOK
  <1>1. IsSetup \/ IsDetails
    BY KindsOfJobs DEF Init
  <1>2. IsChain(chain)
    BY DEF Init, Deployed, IsChain
  <1>3. pending \in Seq(Sent)
    BY DEF Init
  <1>4. IsProcess(process)
    BY Processes DEF Init, Idle, IsProcess
  <1> QED  BY <1>1, <1>2, <1>3, <1>4 DEF Init, TxTypeOK

\* Each step keeps the shape of the state.
LEMMA TxTypeStep ==
    ASSUME TxTypeOK, [Next]_vars
    PROVE  TxTypeOK'
  <1>1. job' = job
    BY DEF Next, vars, Run, Send, Refused, Ended, Mine, Crash
  <1>2. (IsSetup \/ IsDetails)'
    BY <1>1 DEF TxTypeOK, IsSetup, IsDetails
  <1>3. Sent' = Sent
    BY <1>1 DEF Sent
  <1>4. CASE Mine
    <2>1. /\ pending \in Seq(Sent) /\ pending # <<>> /\ pending' = Tail(pending)
          /\ chain' = Executed(chain, Head(pending)) /\ past' = past
      BY <1>4 DEF Mine, TxTypeOK
    <2>2. Head(pending) \in Sent /\ Tail(pending) \in Seq(Sent)
      BY <2>1, Dequeued
    <2>4. IsChain(chain')
      BY <2>1, ChainStays DEF TxTypeOK
    <2>5. process' = process \/ process' = [process EXCEPT !.waiting = FALSE] \/ process' = Idle
      BY <1>4 DEF Mine
    <2>6. IsProcess(process')
      BY <2>5, Processes DEF TxTypeOK
    <2> QED  BY <1>2, <1>3, <2>1, <2>2, <2>4, <2>6 DEF TxTypeOK
  <1>5. CASE Send
    <2>1. /\ process.running = TRUE /\ process.next <= Len(job.calls)
          /\ pending' = Append(pending, job.calls[process.next])
          /\ process' = [process EXCEPT !.next = @ + 1, !.waiting = job.waits]
          /\ chain' = chain /\ past' = past
      BY <1>5 DEF Send, AtCall, TxTypeOK
    <2>2. job.waits \in BOOLEAN
      BY SetupJob, DetailsJob DEF TxTypeOK
    <2>3. job.calls[process.next] \in Sent
      <3>1. process.next \in Nat /\ 1 <= process.next
        BY DEF TxTypeOK, IsProcess
      <3> QED  BY <2>1, <3>1, SentCalls DEF TxTypeOK
    <2>4. pending' \in Seq(Sent)
      BY <2>1, <2>3, Queued DEF TxTypeOK
    <2>5. IsProcess(process')
      BY <2>1, <2>2, Processes DEF TxTypeOK
    <2> QED  BY <1>2, <1>3, <2>1, <2>4, <2>5 DEF TxTypeOK
  <1>6. CASE Run \/ Refused \/ Ended \/ Crash \/ UNCHANGED vars
    <2>1. chain' = chain /\ pending' = pending
      BY <1>6 DEF Run, Refused, Ended, Crash, vars
    <2>2. IsProcess(process')
      <3>1. process' = process \/ process' = Idle \/ process' = [Idle EXCEPT !.running = TRUE]
        BY <1>6 DEF Run, Refused, Ended, Crash, vars
      <3> QED  BY <3>1, Processes DEF TxTypeOK
    <2>3. past' \in [runs : Nat, crashes : Nat, ended : Nat]
      BY <1>6 DEF Run, Refused, Ended, Crash, vars, TxTypeOK
    <2> QED  BY <1>2, <1>3, <2>1, <2>2, <2>3 DEF TxTypeOK
  <1> QED  BY <1>4, <1>5, <1>6 DEF Next

\* The state of the contracts changes when a transaction is mined, the job never.
LEMMA OnlyMined ==
    ASSUME TxTypeOK, [Next]_vars
    PROVE  /\ job' = job
           /\ \/ chain' = chain
              \/ /\ pending # <<>> /\ Head(pending) \in Sent
                 /\ chain' = Executed(chain, Head(pending))
  <1>1. job' = job
    BY DEF Next, vars, Run, Send, Refused, Ended, Mine, Crash
  <1>2. CASE Mine
    BY <1>1, <1>2, Dequeued DEF Mine, TxTypeOK
  <1>3. CASE Run \/ Send \/ Refused \/ Ended \/ Crash \/ UNCHANGED vars
    BY <1>1, <1>3 DEF vars, Run, Send, Refused, Ended, Crash
  <1> QED  BY <1>2, <1>3 DEF Next

-----------------------------------------------------------------------------
(* The setup.                                                              *)

\* A pool that the agent does not know has no risk pool, and no pool has two.
RiskPoolsOnce ==
    \A p \in Pools : /\ chain.riskPools[p] <= 1
                     /\ p \notin chain.agentPools => chain.riskPools[p] = 0

\* A risk pool is created once per pool, whatever is mined and when.
LEMMA RiskPoolsStep ==
    ASSUME TxTypeOK, RiskPoolsOnce, [Next]_vars
    PROVE  RiskPoolsOnce'
  <1>1. CASE chain' = chain
    BY <1>1 DEF RiskPoolsOnce
  <1>2. CASE chain' = Executed(chain, Head(pending))
    <2> DEFINE call == Head(pending)
    <2>1. \/ chain'.riskPools = chain.riskPools /\ chain'.agentPools = chain.agentPools
          \/ /\ call.on \notin chain.agentPools
             /\ chain'.riskPools = [chain.riskPools EXCEPT ![call.on] = @ + 1]
             /\ chain'.agentPools = chain.agentPools \cup {call.on}
      <3>1. IsChain(chain)
        BY DEF TxTypeOK
      <3> QED  BY <1>2, <3>1, Effect
    <2>2. chain.riskPools \in [Pools -> Nat]
      BY DEF TxTypeOK, IsChain
    <2> HIDE DEF call
    <2>3. CASE chain'.riskPools = chain.riskPools /\ chain'.agentPools = chain.agentPools
      BY <2>3 DEF RiskPoolsOnce
    <2>4. CASE /\ call.on \notin chain.agentPools
               /\ chain'.riskPools = [chain.riskPools EXCEPT ![call.on] = @ + 1]
               /\ chain'.agentPools = chain.agentPools \cup {call.on}
      <3> SUFFICES ASSUME NEW p \in Pools
                   PROVE  /\ chain'.riskPools[p] <= 1
                          /\ p \notin chain'.agentPools => chain'.riskPools[p] = 0
        BY DEF RiskPoolsOnce
      <3>1. /\ chain.riskPools[p] <= 1
            /\ p \notin chain.agentPools => chain.riskPools[p] = 0
        BY DEF RiskPoolsOnce
      <3>2. CASE p = call.on
        <4>1. chain'.riskPools[p] = chain.riskPools[p] + 1 /\ chain.riskPools[p] = 0
          BY <2>2, <2>4, <3>1, <3>2
        <4>2. p \in chain'.agentPools
          BY <2>4, <3>2
        <4> QED  BY <4>1, <4>2
      <3>3. CASE p # call.on
        <4>1. chain'.riskPools[p] = chain.riskPools[p]
          BY <2>2, <2>4, <3>3
        <4>2. p \notin chain'.agentPools => p \notin chain.agentPools
          BY <2>4
        <4> QED  BY <3>1, <4>1, <4>2
      <3> QED  BY <3>2, <3>3
    <2> QED  BY <2>1, <2>3, <2>4
  <1> QED  BY <1>1, <1>2, OnlyMined

\* The calls that decide how far a run gets, and those it gets to.
AddsEth(call) == call.op = "addPoolWhiteList" /\ call.on = "ETH"
CreatesRewarder(call, p) == call.op = "createRewarder" /\ call.on = p

FirstOps == {"addPoolWhiteList", "setMCR", "setMLR", "setSalesPolicyFactory", "createRiskPool",
             "createRewarder", "grantRole"}

\* The fields of a call.
LEMMA CallFields ==
    ASSUME NEW op, NEW on
    PROVE  Call(op, on).op = op /\ Call(op, on).on = on
  BY DEF Call

\* The calls up to the one that whitelists the first pool a second time.
LEMMA FirstCalls ==
    /\ \A i \in 1 .. 19 : SetupCalls[i].op \in FirstOps
    /\ AddsEth(SetupCalls[1]) /\ AddsEth(SetupCalls[20])
    /\ \A i \in 2 .. 19 : ~ AddsEth(SetupCalls[i])
    /\ SetupCalls[8] = Call("createRiskPool", "ETH")
    /\ \A i \in 1 .. 19, j \in 1 .. 4 : CreatesRewarder(SetupCalls[i], SSIPs[j]) => i = 11 + j
  <1> DEFINE s == SetupCalls
  <1>1. /\ s[1] = Call("addPoolWhiteList", "ETH") /\ s[2] = Call("addPoolWhiteList", "UNO")
        /\ s[3] = Call("addPoolWhiteList", "USDC") /\ s[4] = Call("addPoolWhiteList", "USDT")
    <2>1. ForPools(s, 0, "addPoolWhiteList")
      BY SetupCallsAre
    <2> HIDE DEF s
    <2> QED  BY <2>1 DEF ForPools
  <1>2. /\ s[8] = Call("createRiskPool", "ETH") /\ s[9] = Call("createRiskPool", "UNO")
        /\ s[10] = Call("createRiskPool", "USDC") /\ s[11] = Call("createRiskPool", "USDT")
    <2>1. ForPools(s, 7, "createRiskPool")
      BY SetupCallsAre
    <2> HIDE DEF s
    <2> QED  BY <2>1 DEF ForPools
  <1>3. /\ s[12] = Call("createRewarder", "ETH") /\ s[13] = Call("createRewarder", "UNO")
        /\ s[14] = Call("createRewarder", "USDC") /\ s[15] = Call("createRewarder", "USDT")
    <2>1. ForPools(s, 11, "createRewarder")
      BY SetupCallsAre
    <2> HIDE DEF s
    <2> QED  BY <2>1 DEF ForPools
  <1>4. /\ s[16] = Call("grantRole", "ETH") /\ s[17] = Call("grantRole", "UNO")
        /\ s[18] = Call("grantRole", "USDC") /\ s[19] = Call("grantRole", "USDT")
    <2>1. ForPools(s, 15, "grantRole")
      BY SetupCallsAre
    <2> HIDE DEF s
    <2> QED  BY <2>1 DEF ForPools
  <1>5. /\ s[5] = Call("setMCR", NoPool) /\ s[6] = Call("setMLR", NoPool)
        /\ s[7] = Call("setSalesPolicyFactory", NoPool) /\ s[20] = Call("addPoolWhiteList", "ETH")
    BY SetupCallsAre
  <1> HIDE DEF s
  <1>6. \A i \in 1 .. 19 : \/ i = 1 \/ i = 2 \/ i = 3 \/ i = 4 \/ i = 5 \/ i = 6 \/ i = 7 \/ i = 8
                           \/ i = 9 \/ i = 10 \/ i = 11 \/ i = 12 \/ i = 13 \/ i = 14 \/ i = 15
                           \/ i = 16 \/ i = 17 \/ i = 18 \/ i = 19
    OBVIOUS
  <1>7. \A i \in 1 .. 19 : s[i].op \in FirstOps
    BY <1>1, <1>2, <1>3, <1>4, <1>5, <1>6, CallFields DEF FirstOps
  <1>8. AddsEth(s[1]) /\ AddsEth(s[20])
    BY <1>1, <1>5, CallFields DEF AddsEth
  <1>9. \A i \in 2 .. 19 : ~ AddsEth(s[i])
    <2> SUFFICES ASSUME NEW i \in 2 .. 19 PROVE ~ AddsEth(s[i])
      OBVIOUS
    <2>1. i \in 1 .. 19 /\ i # 1
      OBVIOUS
    <2> QED  BY <1>1, <1>2, <1>3, <1>4, <1>5, <1>6, <2>1, CallFields DEF AddsEth
  <1>10. \A i \in 1 .. 19, j \in 1 .. 4 : CreatesRewarder(s[i], SSIPs[j]) => i = 11 + j
    <2> SUFFICES ASSUME NEW i \in 1 .. 19, NEW j \in 1 .. 4, CreatesRewarder(s[i], SSIPs[j])
                 PROVE  i = 11 + j
      OBVIOUS
    <2>1. i = 12 \/ i = 13 \/ i = 14 \/ i = 15
      BY <1>1, <1>2, <1>4, <1>5, <1>6, CallFields DEF CreatesRewarder
    <2>2. j = 1 \/ j = 2 \/ j = 3 \/ j = 4
      OBVIOUS
    <2>3. /\ i = 12 => SSIPs[j] = "ETH"
          /\ i = 13 => SSIPs[j] = "UNO"
          /\ i = 14 => SSIPs[j] = "USDC"
          /\ i = 15 => SSIPs[j] = "USDT"
      BY <1>3, CallFields DEF CreatesRewarder
    <2> QED  BY <2>1, <2>2, <2>3, FourPools
  <1> QED  BY <1>2, <1>7, <1>8, <1>9, <1>10 DEF s

\* The first pool is whitelisted, as far as an estimate can see.
EthKnown ==
    \/ "ETH" \in chain.white
    \/ /\ job.estimates = "pending"
       /\ \E k \in DOMAIN pending : AddsEth(pending[k])

\* No Rewarder of the pool was created or is going to be.
NotMade(p) ==
    /\ chain.rewarders[p] = 0
    /\ \A k \in DOMAIN pending : ~ CreatesRewarder(pending[k], p)

\* A run that is not refused at once finds the pools without a Rewarder, and creates
\* each once.
RewarderOnce(j, p) ==
    /\ chain.rewarders[p] <= 1
    /\ chain.rewarders[p] = 1 => \A k \in DOMAIN pending : ~ CreatesRewarder(pending[k], p)
    /\ \A k, l \in DOMAIN pending :
          CreatesRewarder(pending[k], p) /\ CreatesRewarder(pending[l], p) => k = l
    /\ ~ EthKnown => NotMade(p)
    /\ process.running = TRUE /\ (EthKnown => process.next > 1) /\ process.next <= 11 + j
         => NotMade(p)

\* A run stops where the first pool is to be whitelisted again.
SetupOK ==
    /\ \A k \in DOMAIN pending : pending[k].op \in FirstOps
    /\ process.next <= 20 /\ process.waiting = FALSE
    /\ process.running = TRUE /\ process.next > 8 => EthKnown
    /\ past.ended = 0
    /\ chain.policy = FALSE /\ chain.currencies = {} /\ chain.other = {}

SetupInv == SetupOK /\ \A j \in 1 .. 4 : RewarderOnce(j, SSIPs[j])

\* EthKnown is what an estimate sees.
LEMMA EthSeen ==
    ASSUME TxTypeOK, IsSetup
    PROVE  "ETH" \in Seen.white <=> EthKnown
  <1>1. "white" \in DOMAIN chain /\ pending \in Seq(Sent)
    BY DEF TxTypeOK, IsChain
  <1>2. "ETH" \in FoldLeft(Executed, chain, pending).white
          <=> "ETH" \in chain.white \/ \E k \in DOMAIN pending : AddsEth(pending[k])
    BY <1>1, SeenWhite DEF AddsEth
  <1>3. CASE job.estimates = "pending"
    <2>1. Seen = FoldLeft(Executed, chain, pending)
      BY <1>3 DEF Seen
    <2> QED  BY <1>2, <1>3, <2>1 DEF EthKnown
  <1>4. CASE job.estimates # "pending"
    <2>1. Seen = chain
      BY <1>4 DEF Seen
    <2> QED  BY <1>4, <2>1 DEF EthKnown
  <1> QED  BY <1>3, <1>4

\* What the estimates admit at the three calls that matter.
LEMMA SetupSends ==
    ASSUME TxTypeOK, IsSetup, SetupInv, Send
    PROVE  /\ process.running = TRUE /\ process.next \in 1 .. 19
           /\ pending' = Append(pending, SetupCalls[process.next])
           /\ process'.running = TRUE /\ process'.next = process.next + 1
           /\ process'.waiting = FALSE
           /\ chain' = chain /\ past' = past /\ job' = job
           /\ process.next = 1 => ~ EthKnown
           /\ process.next = 8 => EthKnown
  <1>1. /\ process.running = TRUE
        /\ pending' = Append(pending, job.calls[process.next])
        /\ process' = [process EXCEPT !.next = @ + 1, !.waiting = job.waits]
        /\ chain' = chain /\ past' = past /\ job' = job
        /\ Accepts(Seen, job.calls[process.next])
    BY DEF Send, AtCall, Sendable, TxTypeOK
  <1>2. job.calls = SetupCalls /\ job.waits = FALSE
    BY SetupJob
  <1>3. Accepts(Seen, SetupCalls[process.next])
    BY <1>1, <1>2
  <1>4. IsProcess(process) /\ process.next <= 20
    BY DEF TxTypeOK, SetupInv, SetupOK
  <1>5. /\ process'.running = TRUE /\ process'.next = process.next + 1
        /\ process'.waiting = FALSE
    BY <1>1, <1>2, <1>4 DEF IsProcess
  <1>6. \A call : AddsEth(call) /\ Accepts(Seen, call) => "ETH" \notin Seen.white
    BY DEF Accepts, AddsEth
  <1>7. process.next = 1 => ~ EthKnown
    BY <1>3, <1>6, EthSeen, FirstCalls
  <1>8. process.next = 8 => EthKnown
    <2>1. Accepts(Seen, Call("createRiskPool", "ETH")) => "ETH" \in Seen.white
      BY CallFields DEF Accepts
    <2> QED  BY <1>3, <2>1, EthSeen, FirstCalls
  <1>9. process.next # 20
    <2>1. ASSUME process.next = 20 PROVE FALSE
      <3>1. "ETH" \notin Seen.white
        BY <1>3, <1>6, <2>1, FirstCalls
      <3>2. EthKnown
        BY <1>1, <2>1 DEF SetupInv, SetupOK
      <3> QED  BY <3>1, <3>2, EthSeen
    <2> QED  BY <2>1
  <1>10. process.next \in 1 .. 19
    BY <1>4, <1>9 DEF IsProcess
  <1> QED  BY <1>1, <1>2, <1>5, <1>7, <1>8, <1>10

\* A call of the setup is sent only if the run finds the pools as RewarderOnce says.
LEMMA SetupSendStep ==
    ASSUME TxTypeOK, IsSetup, SetupInv, Send
    PROVE  SetupInv'
  <1> DEFINE n == process.next
             q == pending
             new == SetupCalls[n]
  <1>1. /\ process.running = TRUE /\ n \in 1 .. 19
        /\ pending' = Append(q, new)
        /\ process'.running = TRUE /\ process'.next = n + 1 /\ process'.waiting = FALSE
        /\ chain' = chain /\ past' = past /\ job' = job
        /\ n = 1 => ~ EthKnown
        /\ n = 8 => EthKnown
    BY SetupSends
  <1>2. /\ \A i \in 1 .. 19 : SetupCalls[i].op \in FirstOps
        /\ \A i \in 2 .. 19 : ~ AddsEth(SetupCalls[i])
        /\ \A i \in 1 .. 19, j \in 1 .. 4 : CreatesRewarder(SetupCalls[i], SSIPs[j]) => i = 11 + j
    BY FirstCalls
  <1>3. /\ \A k \in DOMAIN q : k \in DOMAIN pending' /\ pending'[k] = q[k] /\ k <= Len(q)
        /\ \A k \in DOMAIN pending' : k \in DOMAIN q \/ k = Len(q) + 1
        /\ Len(q) + 1 \in DOMAIN pending' /\ pending'[Len(q) + 1] = new
        /\ Len(q) \in Nat
    <2>1. q \in Seq(Sent) /\ new \in Sent
      <3>1. n \in Nat /\ 1 <= n /\ n <= Len(job.calls)
        BY <1>1, SetupJob, SetupCallsAre
      <3> QED  BY <3>1, SetupJob, SentCalls DEF TxTypeOK
    <2> HIDE DEF q, new
    <2> QED  BY <1>1, <2>1, Queued
  <1> HIDE DEF q, new, n
  <1>4. EthKnown => EthKnown'
    BY <1>1, <1>3 DEF EthKnown, q
  <1>5. n # 1 => (EthKnown' => EthKnown)
    <2> SUFFICES ASSUME n # 1, EthKnown' PROVE EthKnown
      OBVIOUS
    <2>1. ~ AddsEth(new)
      BY <1>1, <1>2 DEF new
    <2>2. CASE "ETH" \in chain'.white
      BY <1>1, <2>2 DEF EthKnown
    <2>3. CASE job'.estimates = "pending" /\ \E k \in DOMAIN pending' : AddsEth(pending'[k])
      <3>1. PICK k \in DOMAIN pending' : AddsEth(pending'[k])
        BY <2>3
      <3>2. k \in DOMAIN q
        BY <1>3, <2>1, <3>1
      <3> QED  BY <1>1, <1>3, <2>3, <3>1, <3>2 DEF EthKnown, q
    <2> QED  BY <2>2, <2>3 DEF EthKnown
  <1>6. SetupOK'
    <2>1. \A k \in DOMAIN pending' : pending'[k].op \in FirstOps
      <3>1. new.op \in FirstOps
        BY <1>1, <1>2 DEF new
      <3>2. \A k \in DOMAIN q : q[k].op \in FirstOps
        BY DEF SetupInv, SetupOK, q
      <3> QED  BY <1>3, <3>1, <3>2
    <2>2. process'.next <= 20 /\ process'.waiting = FALSE
      BY <1>1
    <2>3. process'.next > 8 => EthKnown'
      <3> SUFFICES ASSUME process'.next > 8 PROVE EthKnown'
        OBVIOUS
      <3>1. n = 8 \/ n > 8
        BY <1>1
      <3>2. n > 8 => EthKnown
        BY <1>1 DEF SetupInv, SetupOK, n
      <3> QED  BY <1>1, <1>4, <3>1, <3>2
    <2>4. /\ past'.ended = 0
          /\ chain'.policy = FALSE /\ chain'.currencies = {} /\ chain'.other = {}
      BY <1>1 DEF SetupInv, SetupOK
    <2> QED  BY <2>1, <2>2, <2>3, <2>4 DEF SetupOK
  <1>7. ASSUME NEW j \in 1 .. 4 PROVE RewarderOnce(j, SSIPs[j])'
    <2> DEFINE p == SSIPs[j]
    <2>1. RewarderOnce(j, p)
      BY <1>7 DEF SetupInv
    <2>2. CreatesRewarder(new, p) => n = 11 + j
      BY <1>1, <1>2 DEF new
    <2>3. (EthKnown => n > 1) /\ process.running = TRUE
      BY <1>1
    <2>4. n <= 11 + j => NotMade(p)
      BY <2>1, <2>3 DEF RewarderOnce, n
    <2> HIDE DEF p
    <2>5. CreatesRewarder(new, p) => NotMade(p)
      BY <1>1, <2>2, <2>4
    <2>6. NotMade(p) /\ ~ CreatesRewarder(new, p) => NotMade(p)'
      BY <1>1, <1>3 DEF NotMade, q
    <2>7. chain'.rewarders[p] <= 1
      BY <1>1, <2>1 DEF RewarderOnce
    <2>8. chain'.rewarders[p] = 1 => \A k \in DOMAIN pending' : ~ CreatesRewarder(pending'[k], p)
      <3> SUFFICES ASSUME chain.rewarders[p] = 1, NEW k \in DOMAIN pending',
                          CreatesRewarder(pending'[k], p)
                   PROVE  FALSE
        BY <1>1
      <3>1. ~ CreatesRewarder(new, p)
        BY <2>5 DEF NotMade
      <3>2. k \in DOMAIN q
        BY <1>3, <3>1
      <3> QED  BY <1>3, <2>1, <3>2 DEF RewarderOnce, q
    <2>9. ASSUME NEW k \in DOMAIN pending', NEW l \in DOMAIN pending',
                 CreatesRewarder(pending'[k], p), CreatesRewarder(pending'[l], p)
          PROVE  k = l
      <3>1. CASE CreatesRewarder(new, p)
        <4>1. k \notin DOMAIN q /\ l \notin DOMAIN q
          BY <1>3, <2>5, <2>9, <3>1 DEF NotMade, q
        <4> QED  BY <1>3, <4>1
      <3>2. CASE ~ CreatesRewarder(new, p)
        <4>1. k \in DOMAIN q /\ l \in DOMAIN q
          BY <1>3, <2>9, <3>2
        <4> QED  BY <1>3, <2>1, <2>9, <4>1 DEF RewarderOnce, q
      <3> QED  BY <3>1, <3>2
    <2>10. ~ EthKnown' => NotMade(p)'
      <3> SUFFICES ASSUME ~ EthKnown' PROVE NotMade(p)'
        OBVIOUS
      <3>1. ~ EthKnown
        BY <1>4
      <3>2. NotMade(p)
        BY <2>1, <3>1 DEF RewarderOnce
      <3>3. n <= 8
        BY <1>1, <3>1 DEF SetupInv, SetupOK, n
      <3>4. ~ CreatesRewarder(new, p)
        BY <2>2, <3>3
      <3> QED  BY <2>6, <3>2, <3>4
    <2>11. process'.next <= 11 + j => NotMade(p)'
      <3> SUFFICES ASSUME n + 1 <= 11 + j PROVE NotMade(p)'
        BY <1>1
      <3>1. n <= 11 + j /\ n # 11 + j
        BY <1>1
      <3> QED  BY <2>2, <2>4, <2>6, <3>1
    <2>12. RewarderOnce(j, p)'
      BY <2>7, <2>8, <2>9, <2>10, <2>11 DEF RewarderOnce
    <2> QED  BY <2>12 DEF p
  <1> QED  BY <1>6, <1>7 DEF SetupInv

\* Mining a call of the setup.
LEMMA SetupMineStep ==
    ASSUME TxTypeOK, IsSetup, SetupInv, Mine
    PROVE  SetupInv'
  <1> DEFINE q == pending
             call == Head(pending)
  <1>1. /\ q # <<>> /\ pending' = Tail(q) /\ chain' = Executed(chain, call)
        /\ process' = process /\ past' = past /\ job' = job
    BY DEF Mine, SetupInv, SetupOK
  <1>2. q \in Seq(Sent) /\ IsChain(chain)
    BY DEF TxTypeOK
  <1>3. /\ 1 \in DOMAIN q /\ call = q[1]
        /\ \A k \in DOMAIN pending' : /\ k + 1 \in DOMAIN q /\ k + 1 # 1 /\ k \in Nat
                                      /\ pending'[k] = q[k + 1]
        /\ \A k \in DOMAIN q : k # 1 => k - 1 \in DOMAIN pending' /\ pending'[k - 1] = q[k]
    <2>1. q \in Seq(Sent) /\ q # <<>>
      BY <1>1, <1>2
    <2> HIDE DEF q
    <2>2. pending' = Tail(q) /\ call = Head(q)
      BY <1>1 DEF q
    <2> HIDE DEF call
    <2> QED  BY <2>1, <2>2, Dequeued
  <1> HIDE DEF call, q
  <1>4. /\ chain'.rewarders = IF call.op = "createRewarder"
                                THEN [chain.rewarders EXCEPT ![call.on] = @ + 1]
                                ELSE chain.rewarders
        /\ call.op # "newSalesPolicy" => chain'.policy = chain.policy
        /\ call.op # "addCurrency" => chain'.currencies = chain.currencies
        /\ call.op \in FirstOps => chain'.other = chain.other
    BY <1>1, <1>2, Effect DEF FirstOps
  <1>5. call.op \in FirstOps
    BY <1>3 DEF SetupInv, SetupOK, q
  <1>6. "ETH" \in chain'.white <=> ("ETH" \in chain.white \/ AddsEth(call))
    <2>1. "white" \in DOMAIN chain
      BY <1>2 DEF IsChain
    <2> QED  BY <1>1, <2>1, WhiteGrows DEF AddsEth
  <1>7. EthKnown => EthKnown'
    <2>1. CASE "ETH" \in chain.white
      BY <1>6, <2>1 DEF EthKnown
    <2>2. CASE job.estimates = "pending" /\ \E k \in DOMAIN q : AddsEth(q[k])
      <3>1. PICK k \in DOMAIN q : AddsEth(q[k])
        BY <2>2
      <3>2. CASE k = 1
        BY <1>3, <1>6, <3>1, <3>2 DEF EthKnown
      <3>3. CASE k # 1
        <4>1. k - 1 \in DOMAIN pending' /\ AddsEth(pending'[k - 1])
          BY <1>3, <3>1, <3>3
        <4> QED  BY <1>1, <2>2, <4>1 DEF EthKnown
      <3> QED  BY <3>2, <3>3
    <2> QED  BY <2>1, <2>2 DEF EthKnown, q
  <1>8. SetupOK'
    <2>1. \A k \in DOMAIN pending' : pending'[k].op \in FirstOps
      BY <1>3 DEF SetupInv, SetupOK, q
    <2>2. call.op # "newSalesPolicy" /\ call.op # "addCurrency"
      BY <1>5 DEF FirstOps
    <2>3. chain'.policy = FALSE /\ chain'.currencies = {} /\ chain'.other = {}
      <3>1. chain.policy = FALSE /\ chain.currencies = {} /\ chain.other = {}
        BY DEF SetupInv, SetupOK
      <3> QED  BY <1>4, <1>5, <2>2, <3>1
    <2>4. process'.running = TRUE /\ process'.next > 8 => EthKnown'
      BY <1>1, <1>7 DEF SetupInv, SetupOK
    <2>5. process'.next <= 20 /\ process'.waiting = FALSE /\ past'.ended = 0
      BY <1>1 DEF SetupInv, SetupOK
    <2> QED  BY <2>1, <2>3, <2>4, <2>5 DEF SetupOK
  <1>9. ASSUME NEW j \in 1 .. 4 PROVE RewarderOnce(j, SSIPs[j])'
    <2> DEFINE p == SSIPs[j]
    <2>1. RewarderOnce(j, p)
      BY <1>9 DEF SetupInv
    <2>2. p \in Pools /\ chain.rewarders \in [Pools -> Nat]
      BY <1>2, FourPools DEF IsChain
    <2> HIDE DEF p
    <2>3. CASE CreatesRewarder(call, p)
      <3>1. chain.rewarders[p] = 0
        <4>1. chain.rewarders[p] # 1
          BY <1>3, <2>1, <2>3 DEF RewarderOnce, q
        <4> QED  BY <2>1, <2>2, <4>1 DEF RewarderOnce
      <3>2. chain'.rewarders[p] = 1
        BY <1>4, <2>2, <2>3, <3>1 DEF CreatesRewarder
      <3>3. \A k \in DOMAIN pending' : ~ CreatesRewarder(pending'[k], p)
        BY <1>3, <2>1, <2>3 DEF RewarderOnce, q
      <3>4. ~ NotMade(p)
        BY <1>3, <2>3 DEF NotMade, q
      <3>5. EthKnown'
        BY <1>7, <2>1, <3>4 DEF RewarderOnce
      <3>6. ~ (process'.running = TRUE /\ (EthKnown' => process'.next > 1)
                 /\ process'.next <= 11 + j)
        <4>1. ~ (process.running = TRUE /\ (EthKnown => process.next > 1)
                   /\ process.next <= 11 + j)
          BY <2>1, <3>4 DEF RewarderOnce
        <4> QED  BY <1>1, <3>5, <4>1
      <3>7. RewarderOnce(j, p)'
        BY <3>2, <3>3, <3>5, <3>6 DEF RewarderOnce
      <3> QED  BY <3>7 DEF p
    <2>4. CASE ~ CreatesRewarder(call, p)
      <3>1. chain'.rewarders[p] = chain.rewarders[p]
        BY <1>4, <2>2, <2>4 DEF CreatesRewarder
      <3>2. NotMade(p) => NotMade(p)'
        BY <1>3, <3>1 DEF NotMade, q
      <3>3. /\ chain'.rewarders[p] <= 1
            /\ chain'.rewarders[p] = 1 =>
                 \A k \in DOMAIN pending' : ~ CreatesRewarder(pending'[k], p)
        BY <1>3, <2>1, <3>1 DEF RewarderOnce, q
      <3>4. ASSUME NEW k \in DOMAIN pending', NEW l \in DOMAIN pending',
                   CreatesRewarder(pending'[k], p), CreatesRewarder(pending'[l], p)
            PROVE  k = l
        <4>1. k + 1 = l + 1
          BY <1>3, <2>1, <3>4 DEF RewarderOnce, q
        <4> QED  BY <1>3, <4>1
      <3>5. ~ EthKnown' => NotMade(p)'
        BY <1>7, <2>1, <3>2 DEF RewarderOnce
      <3>6. process'.running = TRUE /\ (EthKnown' => process'.next > 1) /\ process'.next <= 11 + j
              => NotMade(p)'
        BY <1>1, <1>7, <2>1, <3>2 DEF RewarderOnce
      <3>7. RewarderOnce(j, p)'
        BY <3>3, <3>4, <3>5, <3>6 DEF RewarderOnce
      <3> QED  BY <3>7 DEF p
    <2> QED  BY <2>3, <2>4
  <1> QED  BY <1>8, <1>9 DEF SetupInv

\* Each step of the setup keeps its invariant.
LEMMA SetupStep ==
    ASSUME TxTypeOK, IsSetup, SetupInv, [Next]_vars
    PROVE  SetupInv'
  <1>1. IsProcess(process) /\ process.next <= 20
    BY DEF TxTypeOK, SetupInv, SetupOK
  <1>2. CASE Run \/ Refused \/ Crash \/ UNCHANGED vars
    <2>1. chain' = chain /\ pending' = pending /\ job' = job /\ past'.ended = past.ended
      BY <1>2 DEF Run, Refused, Crash, vars, TxTypeOK
    <2>2. EthKnown' = EthKnown
      BY <2>1 DEF EthKnown
    <2>3. \A p : NotMade(p)' = NotMade(p)
      BY <2>1 DEF NotMade
    <2>4. \/ process' = process
          \/ process'.running = FALSE /\ process'.next = 1 /\ process'.waiting = FALSE
          \/ process'.running = TRUE /\ process'.next = 1 /\ process'.waiting = FALSE
      <3>1. process' = process \/ process' = Idle \/ process' = [Idle EXCEPT !.running = TRUE]
        BY <1>2 DEF Run, Refused, Crash, vars
      <3> QED  BY <3>1 DEF Idle
    <2>5. SetupOK'
      BY <2>1, <2>2, <2>4 DEF SetupInv, SetupOK
    <2>6. ASSUME NEW j \in 1 .. 4 PROVE RewarderOnce(j, SSIPs[j])'
      <3>1. RewarderOnce(j, SSIPs[j])
        BY <2>6 DEF SetupInv
      <3> QED  BY <2>1, <2>2, <2>3, <2>4, <3>1 DEF RewarderOnce
    <2> QED  BY <2>5, <2>6 DEF SetupInv
  <1>3. CASE Ended
    <2>1. process.next > Len(job.calls)
      BY <1>3 DEF Ended
    <2>2. Len(job.calls) > 20 /\ Len(job.calls) \in Nat
      BY SetupJob, SetupCallsAre, LenProperties
    <2> QED  BY <1>1, <2>1, <2>2 DEF IsProcess
  <1> QED  BY <1>2, <1>3, SetupSendStep, SetupMineStep DEF Next

-----------------------------------------------------------------------------
(* The details.                                                            *)

\* Only the setup creates Rewarders, and only the details write stakes.
OthersKeepOff ==
    /\ IsDetails => \A p \in Pools : chain.rewarders[p] = 0
    /\ IsSetup => \A u \in Users : chain.stake[u] = 0 /\ chain.lp[u] = 0

\* Each step keeps the scripts off each other's parts of the state.
LEMMA OthersStep ==
    ASSUME TxTypeOK, OthersKeepOff, [Next]_vars
    PROVE  OthersKeepOff'
  <1>1. job' = job
    BY OnlyMined
  <1>2. IsSetup' = IsSetup /\ IsDetails' = IsDetails
    BY <1>1 DEF IsSetup, IsDetails
  <1>3. CASE chain' = chain
    BY <1>2, <1>3 DEF OthersKeepOff
  <1>4. CASE Head(pending) \in Sent /\ chain' = Executed(chain, Head(pending))
    <2> DEFINE call == Head(pending)
    <2>1. IsChain(chain)
      BY DEF TxTypeOK
    <2>2. /\ call.op # "createRewarder" => chain'.rewarders = chain.rewarders
          /\ call.op # "setUserDetails" => chain'.stake = chain.stake /\ chain'.lp = chain.lp
      BY <1>4, <2>1, Effect
    <2>3. PICK i \in DOMAIN job.calls : call = job.calls[i]
      BY <1>4 DEF Sent
    <2> HIDE DEF call
    <2>4. IsDetails => call.op = "setUserDetails"
      BY <2>3, DetailsJob, CallFields
    <2>6. IsSetup => call.op \in Operations
      <3> SUFFICES ASSUME IsSetup PROVE call.op \in Operations
        OBVIOUS
      <3>1. i \in 1 .. Len(SetupCalls) /\ call = SetupCalls[i]
        BY <2>3, SetupJob, SentCalls
      <3>2. SetupCalls[i] \in CallSet
        BY <3>1, SetupCallsAre, ElementOfSeq
      <3> QED  BY <3>1, <3>2 DEF CallSet
    <2>7. IsSetup => call.op # "setUserDetails"
      BY <2>6 DEF Operations
    <2>8. IsDetails => chain'.rewarders = chain.rewarders
      BY <2>2, <2>4
    <2>9. IsSetup => chain'.stake = chain.stake /\ chain'.lp = chain.lp
      BY <2>2, <2>7
    <2> QED  BY <1>2, <2>8, <2>9 DEF OthersKeepOff
  <1> QED  BY <1>3, <1>4, OnlyMined

\* Nothing was written for the user and nothing is going to be.
Unwritten(u) ==
    /\ chain.lp[u] = 0 /\ chain.stake[u] = 0
    /\ \A k \in DOMAIN pending : pending[k].on # u

\* In the first run, each user is written once, when its turn has come.
WrittenOnce(u) ==
    /\ chain.lp[u] = chain.stake[u]
    /\ chain.lp[u] = 1 => \A k \in DOMAIN pending : pending[k].on # u
    /\ \A k, l \in DOMAIN pending : pending[k].on = u /\ pending[l].on = u => k = l
    /\ \A i \in DOMAIN Keys :
          Keys[i] = u /\ process.running = TRUE /\ process.next <= i => Unwritten(u)

DetailsInv ==
    /\ \A u \in Users : chain.stake[u] <= 1 /\ chain.stake[u] <= chain.lp[u]
    /\ past.runs = 0 => process.running = FALSE /\ \A u \in Users : Unwritten(u)
    /\ past.runs <= 1 => \A u \in Users : WrittenOnce(u)

\* A user's details are sent when their turn has come.
LEMMA DetailsSendStep ==
    ASSUME TxTypeOK, IsDetails, DetailsInv, Send
    PROVE  DetailsInv'
  <1> DEFINE n == process.next
             q == pending
             new == job.calls[n]
  <1>1. /\ process.running = TRUE /\ n <= Len(job.calls)
        /\ pending' = Append(q, new)
        /\ process' = [process EXCEPT !.next = @ + 1, !.waiting = job.waits]
        /\ chain' = chain /\ past' = past /\ job' = job
    BY DEF Send, AtCall, TxTypeOK
  <1>2. IsProcess(process) /\ IsDetails
    BY DEF TxTypeOK
  <1>3. n \in Nat /\ 1 <= n /\ process'.next = n + 1
    BY <1>1, <1>2 DEF IsProcess
  <1>4. n \in DOMAIN Keys /\ new.on = Keys[n] /\ new \in Sent
    <2>1. n \in DOMAIN job.calls /\ new \in Sent
      BY <1>1, <1>3, SentCalls
    <2> QED  BY <2>1, DetailsJob, CallFields
  <1>5. \A i, j \in DOMAIN Keys : Keys[i] = Keys[j] => i = j
    BY KeysDiffer, DetailsJob
  <1>6. /\ \A k \in DOMAIN q : k \in DOMAIN pending' /\ pending'[k] = q[k] /\ k <= Len(q)
        /\ \A k \in DOMAIN pending' : k \in DOMAIN q \/ k = Len(q) + 1
        /\ Len(q) + 1 \in DOMAIN pending' /\ pending'[Len(q) + 1] = new
        /\ Len(q) \in Nat
    <2>1. q \in Seq(Sent)
      BY DEF TxTypeOK
    <2> HIDE DEF q, new
    <2> QED  BY <1>1, <1>4, <2>1, Queued
  <1>7. DOMAIN Keys \subseteq Nat
    <2>1. DOMAIN Keys = 1 .. Len(job.calls)
      BY DetailsJob, SentCalls
    <2> QED  BY <2>1
  <1> HIDE DEF q, new, n
  <1>8. ASSUME NEW u \in Users, WrittenOnce(u) PROVE WrittenOnce(u)'
    <2>1. new.on = u => Unwritten(u)
      <3>1. new.on = u => Keys[n] = u /\ process.next <= n
        BY <1>3, <1>4 DEF n
      <3> QED  BY <1>1, <1>4, <1>8, <3>1 DEF WrittenOnce
    <2>2. Unwritten(u) /\ new.on # u => Unwritten(u)'
      BY <1>1, <1>6 DEF Unwritten, q
    <2>3. chain'.lp[u] = chain'.stake[u]
      BY <1>1, <1>8 DEF WrittenOnce
    <2>4. chain'.lp[u] = 1 => \A k \in DOMAIN pending' : pending'[k].on # u
      <3> SUFFICES ASSUME chain.lp[u] = 1, NEW k \in DOMAIN pending', pending'[k].on = u
                   PROVE  FALSE
        BY <1>1
      <3>1. new.on # u
        BY <2>1 DEF Unwritten
      <3>2. k \in DOMAIN q
        BY <1>6, <3>1
      <3> QED  BY <1>6, <1>8, <3>2 DEF WrittenOnce, q
    <2>5. ASSUME NEW k \in DOMAIN pending', NEW l \in DOMAIN pending',
                 pending'[k].on = u, pending'[l].on = u
          PROVE  k = l
      <3>1. CASE new.on = u
        <4>1. k \notin DOMAIN q /\ l \notin DOMAIN q
          BY <1>6, <2>1, <2>5, <3>1 DEF Unwritten, q
        <4> QED  BY <1>6, <4>1
      <3>2. CASE new.on # u
        <4>1. k \in DOMAIN q /\ l \in DOMAIN q
          BY <1>6, <2>5, <3>2
        <4> QED  BY <1>6, <1>8, <2>5, <4>1 DEF WrittenOnce, q
      <3> QED  BY <3>1, <3>2
    <2>6. ASSUME NEW i \in DOMAIN Keys, Keys[i] = u, process'.next <= i
          PROVE  Unwritten(u)'
      <3>1. process.next <= i /\ i # n
        BY <1>3, <1>7, <2>6 DEF n
      <3>2. Unwritten(u)
        BY <1>1, <1>8, <2>6, <3>1 DEF WrittenOnce
      <3>3. new.on # u
        BY <1>4, <1>5, <2>6, <3>1
      <3> QED  BY <2>2, <3>2, <3>3
    <2> QED  BY <1>1, <2>3, <2>4, <2>5, <2>6 DEF WrittenOnce
  <1>9. past.runs # 0
    BY <1>1 DEF DetailsInv
  <1> QED  BY <1>1, <1>8, <1>9 DEF DetailsInv

\* Mining a user's details.
LEMMA DetailsMineStep ==
    ASSUME TxTypeOK, IsDetails, DetailsInv, Mine
    PROVE  DetailsInv'
  <1> DEFINE q == pending
             call == Head(pending)
             v == call.on
  <1>1. /\ q # <<>> /\ pending' = Tail(q) /\ chain' = Executed(chain, call)
        /\ past' = past /\ job' = job
        /\ process' = process \/ process' = [process EXCEPT !.waiting = FALSE] \/ process' = Idle
    BY DEF Mine
  <1>2. q \in Seq(Sent) /\ IsChain(chain) /\ IsProcess(process)
    BY DEF TxTypeOK
  <1>3. /\ 1 \in DOMAIN q /\ call = q[1] /\ call \in Sent
        /\ \A k \in DOMAIN pending' : /\ k + 1 \in DOMAIN q /\ k + 1 # 1 /\ k \in Nat
                                      /\ pending'[k] = q[k + 1]
    <2>1. q \in Seq(Sent) /\ q # <<>>
      BY <1>1, <1>2
    <2> HIDE DEF q
    <2>2. pending' = Tail(q) /\ call = Head(q)
      BY <1>1 DEF q
    <2> HIDE DEF call
    <2> QED  BY <2>1, <2>2, Dequeued
  <1> HIDE DEF call, q
  <1>4. call.op = "setUserDetails"
    BY <1>3, DetailsJob, CallFields DEF Sent
  <1>5. /\ chain'.stake = [chain.stake EXCEPT ![v] = 1]
        /\ chain'.lp = [chain.lp EXCEPT ![v] = @ + 1]
    BY <1>1, <1>2, <1>4, Effect
  <1>6. chain.stake \in [Users -> Nat] /\ chain.lp \in [Users -> Nat]
    BY <1>2 DEF IsChain
  <1>7. process'.running = TRUE => process.running = TRUE /\ process'.next = process.next
    <2>1. CASE process' = process
      BY <2>1
    <2>2. CASE process' = [process EXCEPT !.waiting = FALSE]
      <3>1. process'.running = process.running /\ process'.next = process.next
        BY <1>2, <2>2 DEF IsProcess
      <3> QED  BY <3>1
    <2>3. CASE process' = Idle
      BY <2>3 DEF Idle
    <2> QED  BY <1>1, <2>1, <2>2, <2>3
  <1> HIDE DEF v
  <1>8. ASSUME NEW u \in Users
        PROVE  chain'.stake[u] <= 1 /\ chain'.stake[u] <= chain'.lp[u]
    <2>1. chain.stake[u] <= 1 /\ chain.stake[u] <= chain.lp[u]
      BY DEF DetailsInv
    <2>2. CASE u = v
      BY <1>5, <1>6, <2>2
    <2>3. CASE u # v
      BY <1>5, <1>6, <2>1, <2>3
    <2> QED  BY <2>2, <2>3
  <1>9. past.runs = 0 => v \notin Users
    BY <1>3 DEF DetailsInv, Unwritten, q, v
  <1>10. v \in Users
    <2>1. PICK i \in DOMAIN job.calls : call = job.calls[i]
      BY <1>3 DEF Sent
    <2>2. i \in DOMAIN Keys /\ v = Keys[i]
      BY <2>1, DetailsJob, CallFields DEF v
    <2>3. Keys \in Seq(Users)
      BY DetailsJob, KeysDiffer
    <2> QED  BY <2>2, <2>3, LenProperties
  <1>11. ASSUME NEW u \in Users, WrittenOnce(u) PROVE WrittenOnce(u)'
    <2>1. CASE u = v
      <3>1. \A k \in DOMAIN pending' : pending'[k].on # u
        BY <1>3, <1>11, <2>1 DEF WrittenOnce, q, v
      <3>2. chain.lp[u] = 0 /\ chain.stake[u] = 0
        <4>1. chain.lp[u] # 1
          BY <1>3, <1>11, <2>1 DEF WrittenOnce, q, v
        <4>2. chain.stake[u] <= 1
          BY DEF DetailsInv
        <4> QED  BY <1>6, <1>11, <4>1, <4>2 DEF WrittenOnce
      <3>3. chain'.lp[u] = 1 /\ chain'.stake[u] = 1
        BY <1>5, <1>6, <2>1, <3>2
      <3>4. ~ Unwritten(u)
        BY <1>3, <2>1 DEF Unwritten, q, v
      <3>5. \A i \in DOMAIN Keys :
               ~ (Keys[i] = u /\ process'.running = TRUE /\ process'.next <= i)
        BY <1>7, <1>11, <3>4 DEF WrittenOnce
      <3> QED  BY <1>1, <3>1, <3>3, <3>5 DEF WrittenOnce
    <2>2. CASE u # v
      <3>1. chain'.lp[u] = chain.lp[u] /\ chain'.stake[u] = chain.stake[u]
        BY <1>5, <1>6, <2>2
      <3>2. Unwritten(u) => Unwritten(u)'
        BY <1>3, <3>1 DEF Unwritten, q
      <3>3. \A k, l \in DOMAIN pending' : pending'[k].on = u /\ pending'[l].on = u => k = l
        <4> SUFFICES ASSUME NEW k \in DOMAIN pending', NEW l \in DOMAIN pending',
                            pending'[k].on = u, pending'[l].on = u
                     PROVE  k = l
          OBVIOUS
        <4>1. k + 1 = l + 1
          BY <1>3, <1>11 DEF WrittenOnce, q
        <4> QED  BY <1>3, <4>1
      <3>4. \A i \in DOMAIN Keys :
               Keys[i] = u /\ process'.running = TRUE /\ process'.next <= i => Unwritten(u)'
        BY <1>7, <1>11, <3>2 DEF WrittenOnce
      <3>5. chain'.lp[u] = 1 => \A k \in DOMAIN pending' : pending'[k].on # u
        BY <1>3, <1>11, <3>1 DEF WrittenOnce, q
      <3>6. chain'.lp[u] = chain'.stake[u]
        BY <1>11, <3>1 DEF WrittenOnce
      <3> QED  BY <1>1, <3>3, <3>4, <3>5, <3>6 DEF WrittenOnce
    <2> QED  BY <2>1, <2>2
  <1>12. past.runs <= 1 => \A u \in Users : WrittenOnce(u)'
    BY <1>11 DEF DetailsInv
  <1>13. past.runs # 0
    BY <1>9, <1>10
  <1> QED  BY <1>1, <1>8, <1>12, <1>13 DEF DetailsInv

\* Each step of set-details keeps its invariant.
LEMMA DetailsStep ==
    ASSUME TxTypeOK, IsDetails, DetailsInv, [Next]_vars
    PROVE  DetailsInv'
  <1>1. IsProcess(process) /\ past \in [runs : Nat, crashes : Nat, ended : Nat]
    BY DEF TxTypeOK
  <1>2. CASE Run
    <2>1. chain' = chain /\ pending' = pending /\ job' = job /\ past'.runs = past.runs + 1
      BY <1>1, <1>2 DEF Run
    <2>2. \A u : Unwritten(u)' = Unwritten(u)
      BY <2>1 DEF Unwritten
    <2>3. \A u : Unwritten(u) => WrittenOnce(u)'
      BY <2>1, <2>2 DEF Unwritten, WrittenOnce
    <2>4. past'.runs # 0 /\ (past'.runs <= 1 => past.runs = 0)
      BY <1>1, <2>1
    <2> QED  BY <2>1, <2>3, <2>4 DEF DetailsInv
  <1>3. CASE Refused \/ Ended \/ Crash \/ UNCHANGED vars
    <2>1. /\ chain' = chain /\ pending' = pending /\ job' = job /\ past'.runs = past.runs
          /\ process' = process \/ process'.running = FALSE
      BY <1>1, <1>3 DEF Refused, Ended, Crash, vars, Idle
    <2>2. \A u : Unwritten(u)' = Unwritten(u)
      BY <2>1 DEF Unwritten
    <2>3. \A u : WrittenOnce(u) => WrittenOnce(u)'
      BY <2>1, <2>2 DEF WrittenOnce
    <2> QED  BY <2>1, <2>2, <2>3 DEF DetailsInv
  <1> QED  BY <1>2, <1>3, DetailsSendStep, DetailsMineStep DEF Next

-----------------------------------------------------------------------------
(* What holds of every script.                                             *)

TxInv ==
    /\ TxTypeOK /\ RiskPoolsOnce /\ OthersKeepOff
    /\ IsSetup => SetupInv
    /\ IsDetails => DetailsInv

\* Before the first run the invariant holds.
LEMMA TxInit == Init => TxInv
  <1> SUFFICES ASSUME Init PROVE TxInv
    OBVIOUS
  <1>1. TxTypeOK
    BY TxTypeInit
  <1>2. /\ pending = <<>> /\ DOMAIN pending = {}
        /\ process.running = FALSE /\ process.next = 1 /\ process.waiting = FALSE
        /\ past.runs = 0 /\ past.ended = 0
    BY DEF Init, Idle
  <1>3. /\ \A p \in Pools : chain.riskPools[p] = 0 /\ chain.rewarders[p] = 0
        /\ \A u \in Users : chain.stake[u] = 0 /\ chain.lp[u] = 0
        /\ chain.policy = FALSE /\ chain.currencies = {} /\ chain.other = {}
    BY DEF Init, Deployed
  <1>4. RiskPoolsOnce /\ OthersKeepOff
    BY <1>3 DEF RiskPoolsOnce, OthersKeepOff
  <1>5. SetupInv
    <2>1. SetupOK
      BY <1>2, <1>3 DEF SetupOK
    <2>2. ASSUME NEW j \in 1 .. 4 PROVE RewarderOnce(j, SSIPs[j])
      <3>1. chain.rewarders[SSIPs[j]] = 0
        BY <1>3, FourPools
      <3>2. NotMade(SSIPs[j])
        BY <1>2, <3>1 DEF NotMade
      <3> QED  BY <1>2, <3>1, <3>2 DEF RewarderOnce
    <2> QED  BY <2>1, <2>2 DEF SetupInv
  <1>6. DetailsInv
    <2>1. \A u \in Users : Unwritten(u)
      BY <1>2, <1>3 DEF Unwritten
    <2>2. \A u \in Users : WrittenOnce(u)
      BY <1>2, <1>3 DEF WrittenOnce
    <2> QED  BY <1>2, <1>3, <2>1, <2>2 DEF DetailsInv
  <1> QED  BY <1>1, <1>4, <1>5, <1>6 DEF TxInv

\* Each step keeps the invariant.
LEMMA TxStep == TxInv /\ [Next]_vars => TxInv'
  <1> SUFFICES ASSUME TxInv, [Next]_vars PROVE TxInv'
    OBVIOUS
  <1>1. TxTypeOK' /\ RiskPoolsOnce' /\ OthersKeepOff'
    BY TxTypeStep, RiskPoolsStep, OthersStep DEF TxInv
  <1>2. IsSetup' = IsSetup /\ IsDetails' = IsDetails
    <2>1. job' = job
      BY OnlyMined DEF TxInv
    <2> QED  BY <2>1 DEF IsSetup, IsDetails
  <1>3. IsSetup => SetupInv'
    BY SetupStep DEF TxInv
  <1>4. IsDetails => DetailsInv'
    BY DetailsStep DEF TxInv
  <1> QED  BY <1>1, <1>2, <1>3, <1>4 DEF TxInv

\* The state and what is pending keep their shape.
THEOREM TxTypeCorrect == Spec => []TxTypeOK
  <1>1. TxInv => TxTypeOK
    BY DEF TxInv
  <1> QED  BY TxInit, TxStep, <1>1, PTL DEF Spec

\* However often the setup runs and is killed: no pool gets a second risk pool or a
\* second Rewarder.
THEOREM PoolsGetOne == Spec => []NothingReplaced
  <1>1. TxInv => NothingReplaced
    <2> SUFFICES ASSUME TxInv, NEW p \in Pools
                 PROVE  chain.riskPools[p] <= 1 /\ chain.rewarders[p] <= 1
      BY DEF NothingReplaced
    <2>1. chain.riskPools[p] <= 1
      BY DEF TxInv, RiskPoolsOnce
    <2>2. CASE IsSetup
      <3>1. PICK j \in 1 .. 4 : p = SSIPs[j]
        BY FourPools DEF Pools, ToSet
      <3>2. RewarderOnce(j, p)
        BY <2>2, <3>1 DEF TxInv, SetupInv
      <3> QED  BY <2>1, <3>2 DEF RewarderOnce
    <2>3. CASE IsDetails
      <3>1. chain.rewarders[p] = 0
        BY <2>3 DEF TxInv, OthersKeepOff
      <3> QED  BY <2>1, <3>1
    <2> QED  BY <2>2, <2>3 DEF TxInv, TxTypeOK
  <1> QED  BY TxInit, TxStep, <1>1, PTL DEF Spec

\* No run of the setup comes to its end, and none gets to the sales policy and the
\* premium pool: each stops where the pools are to be whitelisted again.
THEOREM SetupStopsHalfway == Spec => []SecondHalfNeverRuns
  <1>1. TxInv => SecondHalfNeverRuns
    <2> SUFFICES ASSUME TxInv, job.name = "setup"
                 PROVE  /\ past.ended = 0
                        /\ ~ chain.policy /\ chain.currencies = {} /\ chain.other = {}
      BY DEF SecondHalfNeverRuns
    <2>1. IsSetup
      BY DetailsJob DEF TxInv, TxTypeOK
    <2> QED  BY <2>1 DEF TxInv, SetupInv, SetupOK
  <1> QED  BY TxInit, TxStep, <1>1, PTL DEF Spec

\* The stakes set-details writes are backed by as many LP tokens, in its first run
\* by exactly as many.
THEOREM StakesAreBacked == Spec => []StakeBacked
  <1>1. TxInv => StakeBacked
    <2> SUFFICES ASSUME TxInv, NEW u \in Users
                 PROVE  /\ chain.stake[u] <= chain.lp[u]
                        /\ past.runs <= 1 => chain.lp[u] = chain.stake[u]
      BY DEF StakeBacked
    <2>1. CASE IsDetails
      BY <2>1 DEF TxInv, DetailsInv, WrittenOnce
    <2>2. CASE IsSetup
      <3>1. chain.stake[u] = 0 /\ chain.lp[u] = 0
        BY <2>2 DEF TxInv, OthersKeepOff
      <3> QED  BY <3>1
    <2> QED  BY <2>1, <2>2 DEF TxInv, TxTypeOK
  <1> QED  BY TxInit, TxStep, <1>1, PTL DEF Spec
=============================================================================
