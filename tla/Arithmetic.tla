----------------------------- MODULE Arithmetic -----------------------------
(***************************************************************************)
(* Facts about the rounded divisions of the contracts, and about sums over *)
(* finite sets, for the proofs.                                            *)
(*                                                                         *)
(* SumFunctionOnSet is a recursion over the subsets of a set.  What holds  *)
(* of every sum is shown without an induction rule: of the subsets at      *)
(* which it fails one is the smallest, and taking one summand out of it    *)
(* gives a smaller one.                                                    *)
(***************************************************************************)
EXTENDS Integers, Functions, FiniteSets, FiniteSetTheorems, TLAPS

-----------------------------------------------------------------------------
(* Products and quotients.                                                 *)

\* A product of natural numbers is one.
LEMMA TimesNat ==
    ASSUME NEW a \in Nat, NEW b \in Nat
    PROVE  a * b \in Nat
  BY Z3

\* A rounded quotient of natural numbers is one.
LEMMA DivNat ==
    ASSUME NEW a \in Nat, NEW b \in Nat \ {0}
    PROVE  a \div b \in Nat
  BY Z3

\* A product grows with its first factor.
LEMMA TimesMono ==
    ASSUME NEW a \in Nat, NEW b \in Nat, NEW c \in Nat, a <= b
    PROVE  a * c <= b * c
  BY Z3

\* A rounded quotient grows with its dividend.
LEMMA DivMono ==
    ASSUME NEW a \in Nat, NEW b \in Nat, NEW d \in Nat \ {0}, a <= b
    PROVE  a \div d <= b \div d
  BY Z3

\* What a division rounds away is less than its divisor.
LEMMA DivBounds ==
    ASSUME NEW a \in Nat, NEW d \in Nat \ {0}
    PROVE  (a \div d) * d <= a /\ a < (a \div d) * d + d
  BY Z3

-----------------------------------------------------------------------------
(* Sums.                                                                   *)

\* Among sets of subsets of a finite set, one is the smallest of its kind.
LEMMA MinimalSubset ==
    ASSUME NEW S, IsFiniteSet(S), NEW T \in SUBSET (SUBSET S), T # {}
    PROVE  \E m \in T : \A u \in T : u \subseteq m => u = m
  <1>1. /\ IsWellFoundedOn(StrictSubsetOrdering(S), FiniteSubsetsOf(S))
        /\ FiniteSubsetsOf(S) = SUBSET S
    BY FS_StrictSubsetOrderingWellFounded, FS_FiniteSubsetsOfFinite
  <1>2. T \subseteq FiniteSubsetsOf(S)
    BY <1>1
  <1>3. PICK m \in T : \A u \in T : ~ (<<u, m>> \in StrictSubsetOrdering(S))
    BY <1>1, <1>2, WFMin
  <1> QED  BY <1>3 DEF StrictSubsetOrdering

\* The summand a sum takes out first: the CHOOSE of the library's folds.
AnyOf(s) == CHOOSE x \in s : TRUE

\* The recursion of SumFunctionOnSet, at one subset and as a whole.
SumOf(sum, fun, s) == IF s = {} THEN 0 ELSE fun[AnyOf(s)] + sum[s \ {AnyOf(s)}]

IsSum(sum, fun, S) == sum = [s \in SUBSET S |-> SumOf(sum, fun, s)]

\* It is a member.
LEMMA AnyOfIn == ASSUME NEW s, s # {} PROVE AnyOf(s) \in s
  BY DEF AnyOf

\* What the recursion says of one subset.
LEMMA SumAt ==
    ASSUME NEW sum, NEW fun, NEW S, IsSum(sum, fun, S), NEW s \in SUBSET S
    PROVE  sum[s] = SumOf(sum, fun, s)
  BY DEF IsSum

\* Two sums agree where both are defined.
LEMMA SumUnique ==
    ASSUME NEW S, IsFiniteSet(S), NEW A \in SUBSET S, NEW B \in SUBSET S, NEW fun,
           NEW f, IsSum(f, fun, A), NEW g, IsSum(g, fun, B),
           NEW s \in SUBSET (A \cap B)
    PROVE  f[s] = g[s]
  <1> DEFINE T == {t \in SUBSET (A \cap B) : f[t] # g[t]}
  <1>1. SUFFICES ASSUME T # {} PROVE FALSE
    OBVIOUS
  <1>2. PICK m \in T : \A u \in T : u \subseteq m => u = m
    <2>1. T \in SUBSET (SUBSET S)
      OBVIOUS
    <2> HIDE DEF T
    <2> QED  BY <1>1, <2>1, MinimalSubset
  <1>3. f[m] = SumOf(f, fun, m) /\ g[m] = SumOf(g, fun, m)
    BY <1>2, SumAt
  <1>4. m # {}
    BY <1>2, <1>3 DEF SumOf
  <1> DEFINE u == m \ {AnyOf(m)}
  <1>5. u \in SUBSET (A \cap B) /\ u \subseteq m /\ u # m
    BY <1>2, <1>4, AnyOfIn
  <1>6. f[u] = g[u]
    BY <1>2, <1>5
  <1> QED  BY <1>2, <1>3, <1>4, <1>6 DEF SumOf

\* The sum of a finite set is defined.
LEMMA SumExists ==
    ASSUME NEW S, IsFiniteSet(S), NEW fun
    PROVE  \E sum : IsSum(sum, fun, S)
  <1> DEFINE T == {t \in SUBSET S : ~ \E sum : IsSum(sum, fun, t)}
  <1>1. SUFFICES ASSUME T # {} PROVE FALSE
    OBVIOUS
  <1>2. PICK m \in T : \A u \in T : u \subseteq m => u = m
    <2>1. T \in SUBSET (SUBSET S)
      OBVIOUS
    <2> HIDE DEF T
    <2> QED  BY <1>1, <2>1, MinimalSubset
  <1> DEFINE of(t) == CHOOSE sum : IsSum(sum, fun, t)
             value(t) == IF t = {} THEN 0
                         ELSE fun[AnyOf(t)] + of(t \ {AnyOf(t)})[t \ {AnyOf(t)}]
             g == [t \in SUBSET m |-> value(t)]
  <1>3. ASSUME NEW t \in SUBSET m, t # m
        PROVE  IsSum(of(t), fun, t)
    BY <1>2, <1>3
  <1>4. ASSUME NEW t \in SUBSET m, t # m
        PROVE  g[t] = of(t)[t]
    <2>1. g[t] = value(t)
      OBVIOUS
    <2>2. of(t)[t] = SumOf(of(t), fun, t)
      BY <1>3, <1>4, SumAt
    <2>3. CASE t = {}
      BY <2>1, <2>2, <2>3 DEF SumOf
    <2>4. CASE t # {}
      <3> DEFINE u == t \ {AnyOf(t)}
      <3>1. u \in SUBSET m /\ u # m /\ u \in SUBSET (t \cap u)
        BY <1>4, <2>4, AnyOfIn
      <3>2. IsSum(of(u), fun, u) /\ IsSum(of(t), fun, t)
        BY <1>3, <1>4, <3>1
      <3> HIDE DEF u, of
      <3>3. of(u)[u] = of(t)[u]
        BY <1>2, <1>4, <3>1, <3>2, SumUnique
      <3> QED  BY <2>1, <2>2, <2>4, <3>3 DEF SumOf, u
    <2> QED  BY <2>3, <2>4
  <1>5. ASSUME NEW t \in SUBSET m
        PROVE  g[t] = SumOf(g, fun, t)
    <2>1. CASE t = {}
      BY <2>1 DEF SumOf
    <2>2. CASE t # {}
      <3> DEFINE u == t \ {AnyOf(t)}
      <3>1. u \in SUBSET m /\ u # m
        BY <1>5, <2>2, AnyOfIn
      <3>2. g[u] = of(u)[u]
        BY <1>4, <3>1
      <3> QED  BY <2>2, <3>2 DEF SumOf
    <2> QED  BY <2>1, <2>2
  <1>6. IsSum(g, fun, m)
    <2> HIDE DEF value
    <2>1. g = [t \in SUBSET m |-> g[t]]
      OBVIOUS
    <2> HIDE DEF g
    <2> QED  BY <1>5, <2>1 DEF IsSum
  <1> QED  BY <1>2, <1>6

\* SumFunctionOnSet is the sum so defined.
LEMMA SumDef ==
    ASSUME NEW fun, NEW S
    PROVE  SumFunctionOnSet(fun, S) = (CHOOSE sum : IsSum(sum, fun, S))[S]
  BY DEF SumFunctionOnSet, FoldFunctionOnSet, MapThenFoldSet, IsSum, SumOf, AnyOf

\* The recursion behind a sum.
LEMMA SumStep ==
    ASSUME NEW S, IsFiniteSet(S), NEW fun
    PROVE  /\ SumFunctionOnSet(fun, {}) = 0
           /\ S # {} => SumFunctionOnSet(fun, S)
                          = fun[AnyOf(S)] + SumFunctionOnSet(fun, S \ {AnyOf(S)})
  <1> DEFINE of(t) == CHOOSE sum : IsSum(sum, fun, t)
  <1>1. ASSUME NEW t \in SUBSET S
        PROVE  IsSum(of(t), fun, t) /\ SumFunctionOnSet(fun, t) = of(t)[t]
    <2>1. IsFiniteSet(t)
      BY FS_Subset
    <2> QED  BY <2>1, SumExists, SumDef
  <1>2. ASSUME NEW t \in SUBSET S
        PROVE  of(t)[t] = SumOf(of(t), fun, t)
    BY <1>1, SumAt
  <1>3. SumFunctionOnSet(fun, {}) = 0
    BY <1>1, <1>2 DEF SumOf
  <1>4. ASSUME S # {}
        PROVE  SumFunctionOnSet(fun, S)
                 = fun[AnyOf(S)] + SumFunctionOnSet(fun, S \ {AnyOf(S)})
    <2> DEFINE u == S \ {AnyOf(S)}
    <2> HIDE DEF of
    <2>1. of(u)[u] = of(S)[u]
      BY <1>1, SumUnique
    <2> QED  BY <1>1, <1>2, <1>4, <2>1 DEF SumOf
  <1> QED  BY <1>3, <1>4

\* The empty sum.
LEMMA SumEmpty == ASSUME NEW fun PROVE SumFunctionOnSet(fun, {}) = 0
  BY FS_EmptySet, SumStep

\* A sum of integers is one.
LEMMA SumInt ==
    ASSUME NEW S, IsFiniteSet(S), NEW fun, \A x \in S : fun[x] \in Int
    PROVE  SumFunctionOnSet(fun, S) \in Int
  <1> DEFINE T == {t \in SUBSET S : SumFunctionOnSet(fun, t) \notin Int}
  <1>1. SUFFICES ASSUME T # {} PROVE FALSE
    OBVIOUS
  <1>2. PICK m \in T : \A u \in T : u \subseteq m => u = m
    <2>1. T \in SUBSET (SUBSET S)
      OBVIOUS
    <2> HIDE DEF T
    <2> QED  BY <1>1, <2>1, MinimalSubset
  <1>3. IsFiniteSet(m)
    BY <1>2, FS_Subset
  <1>4. m # {}
    BY <1>2, SumEmpty
  <1>5. AnyOf(m) \in m /\ SumFunctionOnSet(fun, m \ {AnyOf(m)}) \in Int
    BY <1>2, <1>4, AnyOfIn
  <1>6. SumFunctionOnSet(fun, m) = fun[AnyOf(m)] + SumFunctionOnSet(fun, m \ {AnyOf(m)})
    BY <1>3, <1>4, SumStep
  <1>7. fun[AnyOf(m)] \in Int /\ SumFunctionOnSet(fun, m) \notin Int
    BY <1>2, <1>5
  <1> HIDE DEF T
  <1> QED  BY <1>5, <1>6, <1>7

\* A sum of natural numbers is one.
LEMMA SumNat ==
    ASSUME NEW S, IsFiniteSet(S), NEW fun, \A x \in S : fun[x] \in Nat
    PROVE  SumFunctionOnSet(fun, S) \in Nat
  <1> DEFINE T == {t \in SUBSET S : SumFunctionOnSet(fun, t) \notin Nat}
  <1>1. SUFFICES ASSUME T # {} PROVE FALSE
    OBVIOUS
  <1>2. PICK m \in T : \A u \in T : u \subseteq m => u = m
    <2>1. T \in SUBSET (SUBSET S)
      OBVIOUS
    <2> HIDE DEF T
    <2> QED  BY <1>1, <2>1, MinimalSubset
  <1>3. IsFiniteSet(m)
    BY <1>2, FS_Subset
  <1>4. m # {}
    <2>1. SumFunctionOnSet(fun, {}) \in Nat
      BY SumEmpty
    <2> QED  BY <1>2, <2>1
  <1>5. AnyOf(m) \in m /\ SumFunctionOnSet(fun, m \ {AnyOf(m)}) \in Nat
    BY <1>2, <1>4, AnyOfIn
  <1>6. SumFunctionOnSet(fun, m) = fun[AnyOf(m)] + SumFunctionOnSet(fun, m \ {AnyOf(m)})
    BY <1>3, <1>4, SumStep
  <1>7. fun[AnyOf(m)] \in Nat /\ SumFunctionOnSet(fun, m) \notin Nat
    BY <1>2, <1>5
  <1> HIDE DEF T
  <1> QED  BY <1>5, <1>6, <1>7

\* Any summand may be taken out of a sum.
LEMMA SumPick ==
    ASSUME NEW S, IsFiniteSet(S), NEW fun, \A x \in S : fun[x] \in Int, NEW x \in S
    PROVE  SumFunctionOnSet(fun, S) = fun[x] + SumFunctionOnSet(fun, S \ {x})
  <1> DEFINE sum(t) == SumFunctionOnSet(fun, t)
             T == {t \in SUBSET S : \E y \in t : sum(t) # fun[y] + sum(t \ {y})}
  <1>1. SUFFICES ASSUME T # {} PROVE FALSE
    OBVIOUS
  <1>2. PICK m \in T : \A u \in T : u \subseteq m => u = m
    <2>1. T \in SUBSET (SUBSET S)
      OBVIOUS
    <2> HIDE DEF T
    <2> QED  BY <1>1, <2>1, MinimalSubset
  <1>3. PICK y \in m : sum(m) # fun[y] + sum(m \ {y})
    BY <1>2
  <1> DEFINE z == AnyOf(m)
  <1>4. z \in m /\ sum(m) = fun[z] + sum(m \ {z})
    BY <1>2, <1>3, FS_Subset, AnyOfIn, SumStep
  <1>5. y # z /\ y \in m \ {z} /\ z \in m \ {y}
    BY <1>3, <1>4
  <1>6. m \ {z} \notin T /\ m \ {y} \notin T
    BY <1>2, <1>5
  <1>7. /\ sum(m \ {z}) = fun[y] + sum((m \ {z}) \ {y})
        /\ sum(m \ {y}) = fun[z] + sum((m \ {y}) \ {z})
    BY <1>2, <1>5, <1>6
  <1>8. sum((m \ {z}) \ {y}) = sum((m \ {y}) \ {z})
    <2>1. (m \ {z}) \ {y} = (m \ {y}) \ {z}
      OBVIOUS
    <2> QED  BY <2>1
  <1>9. sum((m \ {y}) \ {z}) \in Int /\ fun[y] \in Int /\ fun[z] \in Int
    <2>1. IsFiniteSet((m \ {y}) \ {z})
      BY <1>2, FS_Subset
    <2> QED  BY <1>2, <1>4, <2>1, SumInt
  <1> HIDE DEF sum, z, T
  <1> QED  BY <1>3, <1>4, <1>7, <1>8, <1>9

\* Equal summands, equal sums.
LEMMA SumSame ==
    ASSUME NEW S, IsFiniteSet(S), NEW fun, NEW gun, \A x \in S : fun[x] = gun[x]
    PROVE  SumFunctionOnSet(fun, S) = SumFunctionOnSet(gun, S)
  <1> DEFINE T == {t \in SUBSET S : SumFunctionOnSet(fun, t) # SumFunctionOnSet(gun, t)}
  <1>1. SUFFICES ASSUME T # {} PROVE FALSE
    OBVIOUS
  <1>2. PICK m \in T : \A u \in T : u \subseteq m => u = m
    <2>1. T \in SUBSET (SUBSET S)
      OBVIOUS
    <2> HIDE DEF T
    <2> QED  BY <1>1, <2>1, MinimalSubset
  <1>3. IsFiniteSet(m)
    BY <1>2, FS_Subset
  <1>4. m # {}
    BY <1>2, SumEmpty
  <1> DEFINE u == m \ {AnyOf(m)}
  <1>5. AnyOf(m) \in m /\ SumFunctionOnSet(fun, u) = SumFunctionOnSet(gun, u)
    BY <1>2, <1>4, AnyOfIn
  <1> QED  BY <1>2, <1>3, <1>4, <1>5, SumStep

\* One summand is replaced.
LEMMA SumUpdate ==
    ASSUME NEW S, IsFiniteSet(S), NEW fun, NEW gun, NEW x \in S,
           \A y \in S : fun[y] \in Int /\ gun[y] \in Int,
           \A y \in S \ {x} : gun[y] = fun[y]
    PROVE  SumFunctionOnSet(gun, S) = SumFunctionOnSet(fun, S) - fun[x] + gun[x]
  <1> DEFINE rest == S \ {x}
  <1>1. IsFiniteSet(rest) /\ rest \subseteq S
    BY FS_Subset
  <1>2. SumFunctionOnSet(gun, rest) = SumFunctionOnSet(fun, rest)
    BY <1>1, SumSame
  <1>3. /\ SumFunctionOnSet(fun, S) = fun[x] + SumFunctionOnSet(fun, rest)
        /\ SumFunctionOnSet(gun, S) = gun[x] + SumFunctionOnSet(gun, rest)
    BY SumPick
  <1>4. SumFunctionOnSet(fun, rest) \in Int
    BY <1>1, SumInt
  <1> HIDE DEF rest
  <1> QED  BY <1>2, <1>3, <1>4

\* Summands are added one by one.
LEMMA SumPlus ==
    ASSUME NEW S, IsFiniteSet(S), NEW fun, NEW gun, NEW both,
           \A x \in S : /\ fun[x] \in Int /\ gun[x] \in Int
                        /\ both[x] = fun[x] + gun[x]
    PROVE  SumFunctionOnSet(both, S) = SumFunctionOnSet(fun, S) + SumFunctionOnSet(gun, S)
  <1> DEFINE f(t) == SumFunctionOnSet(fun, t)
             g(t) == SumFunctionOnSet(gun, t)
             h(t) == SumFunctionOnSet(both, t)
             T == {t \in SUBSET S : h(t) # f(t) + g(t)}
  <1>1. SUFFICES ASSUME T # {} PROVE FALSE
    OBVIOUS
  <1>2. PICK m \in T : \A u \in T : u \subseteq m => u = m
    <2>1. T \in SUBSET (SUBSET S)
      OBVIOUS
    <2> HIDE DEF T
    <2> QED  BY <1>1, <2>1, MinimalSubset
  <1>3. IsFiniteSet(m)
    BY <1>2, FS_Subset
  <1>4. m # {}
    <2>1. h({}) = f({}) + g({})
      <3>1. f({}) = 0 /\ g({}) = 0 /\ h({}) = 0
        BY SumEmpty
      <3> HIDE DEF f, g, h
      <3> QED  BY <3>1
    <2>2. h(m) # f(m) + g(m)
      BY <1>2
    <2> HIDE DEF f, g, h, T
    <2> QED  BY <2>1, <2>2
  <1> DEFINE z == AnyOf(m)
             u == m \ {z}
  <1>5. z \in m /\ u \subseteq S /\ IsFiniteSet(u)
    BY <1>2, <1>3, <1>4, AnyOfIn, FS_Subset
  <1>6. h(u) = f(u) + g(u)
    BY <1>2, <1>5
  <1>7. f(u) \in Int /\ g(u) \in Int /\ fun[z] \in Int /\ gun[z] \in Int
        /\ both[z] = fun[z] + gun[z]
    BY <1>2, <1>5, SumInt
  <1>8. f(m) = fun[z] + f(u) /\ g(m) = gun[z] + g(u) /\ h(m) = both[z] + h(u)
    BY <1>3, <1>4, SumStep
  <1>9. h(m) # f(m) + g(m)
    BY <1>2
  <1> HIDE DEF f, g, h, u, z, T
  <1> QED  BY <1>6, <1>7, <1>8, <1>9

\* Where only the members of A count, the sum is that over A.
LEMMA SumOver ==
    ASSUME NEW S, IsFiniteSet(S), NEW A \in SUBSET S, NEW fun,
           \A x \in S : fun[x] \in Int, \A x \in S \ A : fun[x] = 0
    PROVE  SumFunctionOnSet(fun, S) = SumFunctionOnSet(fun, A)
  <1> DEFINE sum(t) == SumFunctionOnSet(fun, t)
             T == {t \in SUBSET S : sum(t) # sum(t \cap A)}
  <1>1. SUFFICES ASSUME T # {} PROVE FALSE
    <2>1. S \notin T
      OBVIOUS
    <2>2. S \cap A = A
      OBVIOUS
    <2> QED  BY <2>1, <2>2
  <1>2. PICK m \in T : \A u \in T : u \subseteq m => u = m
    <2>1. T \in SUBSET (SUBSET S)
      OBVIOUS
    <2> HIDE DEF T
    <2> QED  BY <1>1, <2>1, MinimalSubset
  <1>3. PICK x \in m : x \notin A
    <2>1. m \cap A # m
      BY <1>2
    <2> QED  BY <2>1
  <1> DEFINE u == m \ {x}
  <1>4. sum(u) = sum(u \cap A) /\ u \cap A = m \cap A
    BY <1>2, <1>3
  <1>5. sum(m) = fun[x] + sum(u) /\ sum(u) \in Int
    <2>1. IsFiniteSet(m) /\ IsFiniteSet(u)
      BY <1>2, FS_Subset
    <2> QED  BY <1>2, <2>1, SumPick, SumInt
  <1>6. fun[x] = 0 /\ sum(m) # sum(m \cap A)
    BY <1>2, <1>3
  <1> HIDE DEF sum, u, T
  <1> QED  BY <1>4, <1>5, <1>6

\* A sum of zeros.
LEMMA SumZero ==
    ASSUME NEW S, IsFiniteSet(S), NEW fun, \A x \in S : fun[x] = 0
    PROVE  SumFunctionOnSet(fun, S) = 0
  <1>1. SumFunctionOnSet(fun, S) = SumFunctionOnSet(fun, {})
    BY SumOver
  <1> QED  BY <1>1, FS_EmptySet, SumStep

\* A part of a sum of natural numbers is at most the sum.
LEMMA SumSubset ==
    ASSUME NEW S, IsFiniteSet(S), NEW A \in SUBSET S, NEW fun, \A x \in S : fun[x] \in Nat
    PROVE  SumFunctionOnSet(fun, A) <= SumFunctionOnSet(fun, S)
  <1> DEFINE f == [x \in S |-> IF x \in A THEN fun[x] ELSE 0]
             g == [x \in S |-> IF x \in A THEN 0 ELSE fun[x]]
  <1>1. /\ \A x \in S : f[x] \in Int /\ g[x] \in Int /\ fun[x] = f[x] + g[x]
        /\ \A x \in S : f[x] \in Int
        /\ \A x \in S : g[x] \in Nat
        /\ \A x \in S \ A : f[x] = 0
        /\ \A x \in A : f[x] = fun[x]
    OBVIOUS
  <1> HIDE DEF f, g
  <1>2. SumFunctionOnSet(fun, S) = SumFunctionOnSet(f, S) + SumFunctionOnSet(g, S)
    BY <1>1, SumPlus
  <1>3. SumFunctionOnSet(f, S) = SumFunctionOnSet(f, A)
    BY <1>1, SumOver
  <1>4. IsFiniteSet(A) /\ \A x \in A : fun[x] \in Int
    BY FS_Subset
  <1>5. SumFunctionOnSet(f, A) = SumFunctionOnSet(fun, A)
    BY <1>1, <1>4, SumSame
  <1>6. SumFunctionOnSet(g, S) \in Nat
    BY <1>1, SumNat
  <1>7. SumFunctionOnSet(fun, A) \in Int
    BY <1>4, SumInt
  <1> QED  BY <1>2, <1>3, <1>5, <1>6, <1>7

\* A sum may be taken under other names of the summands.
LEMMA SumRenamed ==
    ASSUME NEW S, IsFiniteSet(S), NEW T, IsFiniteSet(T), NEW name,
           \A x \in S : name[x] \in T, \A y \in T : \E x \in S : name[x] = y,
           \A x \in S, y \in S : name[x] = name[y] => x = y,
           NEW fun, NEW gun, \A x \in S : fun[x] \in Int /\ gun[name[x]] = fun[x]
    PROVE  SumFunctionOnSet(gun, T) = SumFunctionOnSet(fun, S)
  <1> DEFINE named(t) == {name[x] : x \in t}
             f(t) == SumFunctionOnSet(fun, t)
             g(t) == SumFunctionOnSet(gun, t)
             W == {t \in SUBSET S : g(named(t)) # f(t)}
  <1>1. SUFFICES ASSUME W # {} PROVE FALSE
    <2>1. named(S) = T
      OBVIOUS
    <2>2. S \notin W
      BY <1>1
    <2>3. g(named(S)) = f(S)
      BY <2>2
    <2> QED  BY <2>1, <2>3
  <1>2. PICK m \in W : \A u \in W : u \subseteq m => u = m
    <2>1. W \in SUBSET (SUBSET S)
      OBVIOUS
    <2> HIDE DEF W
    <2> QED  BY <1>1, <2>1, MinimalSubset
  <1>3. m \subseteq S /\ g(named(m)) # f(m)
    BY <1>2
  <1>4. m # {}
    <2>1. f({}) = 0 /\ g({}) = 0
      BY SumEmpty
    <2>2. m = {} => named(m) = {}
      OBVIOUS
    <2> HIDE DEF f, g, W, named
    <2> QED  BY <1>3, <2>1, <2>2
  <1>5. PICK x \in m : TRUE
    BY <1>4
  <1> DEFINE u == m \ {x}
  <1>6. u \subseteq S /\ u \subseteq m /\ u # m /\ x \in S
    BY <1>3, <1>5
  <1>7. g(named(u)) = f(u)
    BY <1>2, <1>6
  <1>8. named(u) = named(m) \ {name[x]}
    BY <1>3, <1>6
  <1>9. f(m) = fun[x] + f(u)
    <2>1. IsFiniteSet(m) /\ \A y \in m : fun[y] \in Int
      BY <1>3, FS_Subset
    <2> QED  BY <2>1, SumPick
  <1>10. g(named(m)) = gun[name[x]] + g(named(m) \ {name[x]})
    <2>1. IsFiniteSet(named(m)) /\ \A y \in named(m) : gun[y] \in Int
      BY <1>3, FS_Subset
    <2>2. name[x] \in named(m)
      OBVIOUS
    <2> HIDE DEF named
    <2> QED  BY <2>1, <2>2, SumPick
  <1>11. gun[name[x]] = fun[x]
    BY <1>6
  <1> HIDE DEF f, g, u, named, W
  <1> QED  BY <1>3, <1>7, <1>8, <1>9, <1>10, <1>11

\* A bound on each summand bounds the sums, where every summand may exceed by a.
LEMMA SumBound ==
    ASSUME NEW S, IsFiniteSet(S), NEW fun, NEW gun, NEW hun, NEW pun, NEW a \in Int, NEW d \in Int,
           \A x \in S : /\ fun[x] \in Int /\ gun[x] \in Int /\ hun[x] \in Int /\ pun[x] \in Int
                        /\ hun[x] + pun[x] * a <= fun[x] + gun[x] * d + a
    PROVE  SumFunctionOnSet(hun, S) + SumFunctionOnSet(pun, S) * a
             <= SumFunctionOnSet(fun, S) + SumFunctionOnSet(gun, S) * d + Cardinality(S) * a
  <1> DEFINE f(t) == SumFunctionOnSet(fun, t)
             g(t) == SumFunctionOnSet(gun, t)
             h(t) == SumFunctionOnSet(hun, t)
             p(t) == SumFunctionOnSet(pun, t)
             OK(t) == h(t) + p(t) * a <= f(t) + g(t) * d + Cardinality(t) * a
             T == {t \in SUBSET S : ~ OK(t)}
  <1>1. SUFFICES ASSUME T # {} PROVE FALSE
    <2>1. S \notin T
      OBVIOUS
    <2>2. OK(S)
      BY <2>1
    <2> QED  BY <2>2
  <1>2. PICK m \in T : \A u \in T : u \subseteq m => u = m
    <2>1. T \in SUBSET (SUBSET S)
      OBVIOUS
    <2> HIDE DEF T
    <2> QED  BY <1>1, <2>1, MinimalSubset
  <1>3. m \subseteq S /\ ~ OK(m) /\ IsFiniteSet(m)
    BY <1>2, FS_Subset
  <1>4. m # {}
    <2>1. f({}) = 0 /\ g({}) = 0 /\ h({}) = 0 /\ p({}) = 0 /\ Cardinality({}) = 0
      BY SumEmpty, FS_EmptySet
    <2>2. 0 * a = 0 /\ 0 * d = 0
      OBVIOUS
    <2> HIDE DEF f, g, h, p
    <2>3. OK({})
      BY <2>1, <2>2
    <2> QED  BY <1>3, <2>3
  <1> DEFINE z == AnyOf(m)
             u == m \ {z}
             n == Cardinality(u)
  <1>5. z \in m /\ z \in S /\ u \subseteq S /\ u \subseteq m /\ u # m
    BY <1>3, <1>4, AnyOfIn
  <1>6. IsFiniteSet(u) /\ n \in Int /\ Cardinality(m) = n + 1
    <2>1. IsFiniteSet(u)
      BY <1>3, FS_Subset
    <2>2. Cardinality(m) \in Nat
      BY <1>3, FS_CardinalityType
    <2>3. Cardinality(m \ {z}) = Cardinality(m) - 1
      BY <1>3, <1>5, FS_RemoveElement
    <2> QED  BY <2>1, <2>2, <2>3
  <1>7. h(u) + p(u) * a <= f(u) + g(u) * d + n * a
    <2>1. OK(u)
      BY <1>2, <1>5
    <2> QED  BY <2>1
  <1>8. f(u) \in Int /\ g(u) \in Int /\ h(u) \in Int /\ p(u) \in Int
    BY <1>5, <1>6, SumInt
  <1>9. /\ f(m) = fun[z] + f(u) /\ g(m) = gun[z] + g(u)
        /\ h(m) = hun[z] + h(u) /\ p(m) = pun[z] + p(u)
    BY <1>3, <1>4, SumStep
  <1>10. /\ fun[z] \in Int /\ gun[z] \in Int /\ hun[z] \in Int /\ pun[z] \in Int
         /\ hun[z] + pun[z] * a <= fun[z] + gun[z] * d + a
    BY <1>5
  <1>11. ~ (h(m) + p(m) * a <= f(m) + g(m) * d + (n + 1) * a)
    BY <1>3, <1>6
  <1> HIDE DEF f, g, h, p, u, z, T, OK, n
  <1>12. /\ (pun[z] + p(u)) * a = pun[z] * a + p(u) * a
         /\ (gun[z] + g(u)) * d = gun[z] * d + g(u) * d
         /\ (n + 1) * a = n * a + a
         /\ pun[z] * a \in Int /\ p(u) * a \in Int /\ n * a \in Int
         /\ gun[z] * d \in Int /\ g(u) * d \in Int
    BY <1>6, <1>8, <1>10, Z3
  <1> QED  BY <1>6, <1>7, <1>8, <1>9, <1>10, <1>11, <1>12
=============================================================================
