-------------------------------- MODULE Sums --------------------------------
(***************************************************************************)
(* Sums of a function over a finite set, as the community modules define   *)
(* them.                                                                   *)
(***************************************************************************)
EXTENDS Functions, Integers, FiniteSetTheorems, TLAPS

\* A set of subsets of a finite set has a smallest one.
LEMMA MinimalSubset ==
  ASSUME NEW S, IsFiniteSet(S), NEW T, T \subseteq SUBSET S, T # {}
  PROVE  \E x \in T : \A y \in T : y \subseteq x => y = x
<1>1. IsWellFoundedOn(StrictSubsetOrdering(S), SUBSET S)
  BY FS_StrictSubsetOrderingWellFounded, FS_FiniteSubsetsOfFinite
<1>2. \E x \in T : \A y \in T : ~(<<y, x>> \in StrictSubsetOrdering(S))
  BY <1>1, WFMin
<1>3. QED BY <1>2 DEF StrictSubsetOrdering

\* The element the sum takes next.
Pick(s) == CHOOSE x \in s : TRUE

\* g is the table of the sums over the subsets of S that the definition builds.
Adds(f, S, g) ==
  g = [s \in SUBSET S |-> IF s = {} THEN 0 ELSE f[Pick(s)] + g[s \ {Pick(s)}]]

Table(f, S) == CHOOSE g : Adds(f, S, g)

\* A sum is an entry of that table.
LEMMA SumIsTable ==
  ASSUME NEW f, NEW S
  PROVE  SumFunctionOnSet(f, S) = Table(f, S)[S]
  BY DEF SumFunctionOnSet, FoldFunctionOnSet, MapThenFoldSet, Table, Adds, Pick

\* It is one of them.
LEMMA PickOne ==
  ASSUME NEW s, s # {}
  PROVE  Pick(s) \in s
  BY DEF Pick

\* What a table says of one subset.
LEMMA AddsAt ==
  ASSUME NEW f, NEW S, NEW g, Adds(f, S, g), NEW s \in SUBSET S
  PROVE  g[s] = IF s = {} THEN 0 ELSE f[Pick(s)] + g[s \ {Pick(s)}]
<1> DEFINE h == [t \in SUBSET S |-> IF t = {} THEN 0 ELSE f[Pick(t)] + g[t \ {Pick(t)}]]
<1>1. h[s] = IF s = {} THEN 0 ELSE f[Pick(s)] + g[s \ {Pick(s)}]
  OBVIOUS
<1>2. g = h
  BY DEF Adds
<1>3. QED BY <1>1, <1>2

\* Two such tables agree where both are defined.
LEMMA TablesAgree ==
  ASSUME NEW f, NEW S, IsFiniteSet(S), NEW R \in SUBSET S, NEW g, NEW h,
         Adds(f, S, g), Adds(f, R, h), NEW s \in SUBSET R
  PROVE  g[s] = h[s]
<1> DEFINE T == {t \in SUBSET R : g[t] # h[t]}
<1> SUFFICES ASSUME T # {} PROVE FALSE
  OBVIOUS
<1>1. PICK t \in T : \A u \in T : u \subseteq t => u = t
  <2>1. T \subseteq SUBSET S
    OBVIOUS
  <2> HIDE DEF T
  <2>2. QED BY <2>1, MinimalSubset
<1>2. t \in SUBSET R /\ t \in SUBSET S /\ g[t] # h[t]
  OBVIOUS
<1>3. /\ g[t] = IF t = {} THEN 0 ELSE f[Pick(t)] + g[t \ {Pick(t)}]
      /\ h[t] = IF t = {} THEN 0 ELSE f[Pick(t)] + h[t \ {Pick(t)}]
  BY <1>2, AddsAt
<1>4. t # {}
  BY <1>2, <1>3
<1>5. t \ {Pick(t)} \notin T
  BY <1>1, <1>4, PickOne
<1>6. g[t \ {Pick(t)}] = h[t \ {Pick(t)}]
  BY <1>2, <1>5
<1>7. QED BY <1>2, <1>3, <1>4, <1>6

\* Every finite set has its table.
LEMMA TableExists ==
  ASSUME NEW f, NEW S, IsFiniteSet(S)
  PROVE  Adds(f, S, Table(f, S))
<1> DEFINE T == {s \in SUBSET S : ~Adds(f, s, Table(f, s))}
<1> SUFFICES ASSUME T # {} PROVE FALSE
  OBVIOUS
<1>1. PICK t \in T : \A u \in T : u \subseteq t => u = t
  <2>1. T \subseteq SUBSET S
    OBVIOUS
  <2> HIDE DEF T
  <2>2. QED BY <2>1, MinimalSubset
<1>2. \A u \in SUBSET t : u # t => Adds(f, u, Table(f, u))
  BY <1>1
<1> DEFINE g == [s \in SUBSET t |-> IF s = {} THEN 0 ELSE f[Pick(s)] + Table(f, s \ {Pick(s)})[s \ {Pick(s)}]]
<1>3. ASSUME NEW s \in SUBSET t, s # {}
      PROVE  g[s \ {Pick(s)}] = Table(f, s \ {Pick(s)})[s \ {Pick(s)}]
  <2> DEFINE u == s \ {Pick(s)}
  <2>1. u \in SUBSET t /\ u # t
    BY <1>3, PickOne
  <2>2. Adds(f, u, Table(f, u)) /\ IsFiniteSet(u)
    BY <1>2, <2>1, FS_Subset
  <2>3. CASE u = {}
    <3>1. Table(f, u)[u] = 0
      BY <2>2, <2>3, AddsAt
    <3>2. g[u] = 0
      BY <2>1, <2>3
    <3>3. QED BY <3>1, <3>2
  <2>4. CASE u # {}
    <3> DEFINE v == u \ {Pick(u)}
    <3>1. Table(f, u)[u] = f[Pick(u)] + Table(f, u)[v]
      <4>1. u \in SUBSET u
        OBVIOUS
      <4> HIDE DEF u
      <4>2. QED BY <2>2, <2>4, <4>1, AddsAt
    <3>2. v \in SUBSET u /\ v # t /\ v \in SUBSET t
      BY <2>1, <2>4, PickOne
    <3>3. Adds(f, v, Table(f, v))
      BY <3>2, <1>2
    <3>4. Table(f, u)[v] = Table(f, v)[v]
      BY <2>2, <3>2, <3>3, TablesAgree
    <3>5. g[u] = f[Pick(u)] + Table(f, v)[v]
      BY <2>1, <2>4
    <3>6. QED BY <3>1, <3>4, <3>5
  <2>5. QED BY <2>3, <2>4
<1>4. g = [s \in SUBSET t |-> IF s = {} THEN 0 ELSE f[Pick(s)] + g[s \ {Pick(s)}]]
  <2>1. ASSUME NEW s \in SUBSET t
        PROVE  (IF s = {} THEN 0 ELSE f[Pick(s)] + Table(f, s \ {Pick(s)})[s \ {Pick(s)}])
               = (IF s = {} THEN 0 ELSE f[Pick(s)] + g[s \ {Pick(s)}])
    BY <1>3
  <2>2. QED BY <2>1, Zenon
<1>5. Adds(f, t, g)
  BY <1>4 DEF Adds
<1>6. Adds(f, t, Table(f, t))
  BY <1>5 DEF Table
<1>7. QED BY <1>1, <1>6

-----------------------------------------------------------------------------
\* The empty sum.
LEMMA SumOfNothing ==
  ASSUME NEW f
  PROVE  SumFunctionOnSet(f, {}) = 0
<1>1. Adds(f, {}, Table(f, {}))
  BY TableExists, FS_EmptySet
<1>2. QED BY <1>1, SumIsTable, AddsAt

\* A sum is the element it takes first and the sum of the others.
LEMMA SumTakesPick ==
  ASSUME NEW f, NEW S, IsFiniteSet(S), S # {}
  PROVE  SumFunctionOnSet(f, S) = f[Pick(S)] + SumFunctionOnSet(f, S \ {Pick(S)})
<1> DEFINE R == S \ {Pick(S)}
<1>1. IsFiniteSet(R) /\ R \in SUBSET S
  BY FS_Subset
<1> HIDE DEF R
<1>2. Adds(f, S, Table(f, S)) /\ Adds(f, R, Table(f, R))
  BY <1>1, TableExists
<1>3. Table(f, S)[R] = Table(f, R)[R]
  <2>1. R \in SUBSET R
    OBVIOUS
  <2>2. QED BY <1>1, <1>2, <2>1, TablesAgree
<1>4. Table(f, S)[S] = f[Pick(S)] + Table(f, S)[R]
  <2>1. S \in SUBSET S
    OBVIOUS
  <2>2. QED BY <1>2, <2>1, AddsAt DEF R
<1>5. QED BY <1>3, <1>4, SumIsTable DEF R

\* A sum of integers is an integer.
LEMMA SumIsInt ==
  ASSUME NEW f, NEW S, IsFiniteSet(S), \A x \in S : f[x] \in Int
  PROVE  SumFunctionOnSet(f, S) \in Int
<1> DEFINE T == {s \in SUBSET S : SumFunctionOnSet(f, s) \notin Int}
<1> SUFFICES ASSUME T # {} PROVE FALSE
  OBVIOUS
<1>1. PICK t \in T : \A u \in T : u \subseteq t => u = t
  <2>1. T \subseteq SUBSET S
    OBVIOUS
  <2> HIDE DEF T
  <2>2. QED BY <2>1, MinimalSubset
<1>2. t # {} /\ IsFiniteSet(t)
  <2>1. 0 \in Int /\ SumFunctionOnSet(f, t) \notin Int /\ t \in SUBSET S
    OBVIOUS
  <2>2. QED BY <2>1, SumOfNothing, FS_Subset
<1>3. Pick(t) \in t /\ f[Pick(t)] \in Int
  BY <1>2, PickOne
<1>4. SumFunctionOnSet(f, t \ {Pick(t)}) \in Int
  BY <1>1, <1>3
<1>5. SumFunctionOnSet(f, t) \in Int
  BY <1>2, <1>3, <1>4, SumTakesPick
<1>6. QED BY <1>5

\* ... or any element and the sum of the others.
LEMMA SumTakes ==
  ASSUME NEW f, NEW S, IsFiniteSet(S), \A x \in S : f[x] \in Int, NEW a \in S
  PROVE  SumFunctionOnSet(f, S) = f[a] + SumFunctionOnSet(f, S \ {a})
<1> DEFINE T == {s \in SUBSET S : \E x \in s : SumFunctionOnSet(f, s) # f[x] + SumFunctionOnSet(f, s \ {x})}
<1> SUFFICES ASSUME T # {} PROVE FALSE
  OBVIOUS
<1>1. PICK t \in T : \A u \in T : u \subseteq t => u = t
  <2>1. T \subseteq SUBSET S
    OBVIOUS
  <2> HIDE DEF T
  <2>2. QED BY <2>1, MinimalSubset
<1>2. PICK x \in t : SumFunctionOnSet(f, t) # f[x] + SumFunctionOnSet(f, t \ {x})
  OBVIOUS
<1> DEFINE p == Pick(t)
<1>3. t \in SUBSET S /\ t # {} /\ IsFiniteSet(t) /\ p \in t
  BY <1>2, FS_Subset, PickOne
<1>4. SumFunctionOnSet(f, t) = f[p] + SumFunctionOnSet(f, t \ {p})
  BY <1>3, SumTakesPick
<1>5. p # x
  BY <1>2, <1>4
<1> DEFINE r == (t \ {p}) \ {x}
<1>6. r = (t \ {x}) \ {p}
  OBVIOUS
<1>7. t \ {p} \notin T /\ t \ {x} \notin T
  BY <1>1, <1>2, <1>3
<1>8. SumFunctionOnSet(f, t \ {p}) = f[x] + SumFunctionOnSet(f, r)
  BY <1>2, <1>3, <1>5, <1>7
<1>9. SumFunctionOnSet(f, t \ {x}) = f[p] + SumFunctionOnSet(f, r)
  BY <1>2, <1>3, <1>5, <1>6, <1>7
<1>10. SumFunctionOnSet(f, r) \in Int /\ f[p] \in Int /\ f[x] \in Int
  <2>1. IsFiniteSet(r) /\ \A y \in r : f[y] \in Int
    BY <1>3, FS_Subset
  <2>2. QED BY <2>1, <1>2, <1>3, SumIsInt
<1> HIDE DEF r, T, p
<1>11. QED BY <1>2, <1>4, <1>8, <1>9, <1>10

\* Functions that agree on a set have the same sum there.
LEMMA SumOfSame ==
  ASSUME NEW f, NEW g, NEW S, IsFiniteSet(S), \A x \in S : f[x] = g[x]
  PROVE  SumFunctionOnSet(f, S) = SumFunctionOnSet(g, S)
<1> DEFINE T == {s \in SUBSET S : SumFunctionOnSet(f, s) # SumFunctionOnSet(g, s)}
<1> SUFFICES ASSUME T # {} PROVE FALSE
  OBVIOUS
<1>1. PICK t \in T : \A u \in T : u \subseteq t => u = t
  <2>1. T \subseteq SUBSET S
    OBVIOUS
  <2> HIDE DEF T
  <2>2. QED BY <2>1, MinimalSubset
<1>2. t # {} /\ IsFiniteSet(t) /\ t \in SUBSET S
  BY SumOfNothing, FS_Subset
<1>3. Pick(t) \in t /\ t \ {Pick(t)} \notin T
  BY <1>1, <1>2, PickOne
<1>4. SumFunctionOnSet(f, t \ {Pick(t)}) = SumFunctionOnSet(g, t \ {Pick(t)}) /\ f[Pick(t)] = g[Pick(t)]
  BY <1>2, <1>3
<1>5. SumFunctionOnSet(f, t) = SumFunctionOnSet(g, t)
  BY <1>2, <1>4, SumTakesPick
<1>6. QED BY <1>5

\* Changing a function at one place changes its sum by as much.
LEMMA SumChanges ==
  ASSUME NEW f, NEW g, NEW S, IsFiniteSet(S), NEW a \in S,
         \A x \in S : f[x] \in Int, g[a] \in Int, \A x \in S : x # a => f[x] = g[x]
  PROVE  SumFunctionOnSet(g, S) = SumFunctionOnSet(f, S) - f[a] + g[a]
<1> DEFINE R == S \ {a}
<1>1. IsFiniteSet(R) /\ \A x \in R : f[x] \in Int /\ f[x] = g[x]
  BY FS_Subset
<1>2. SumFunctionOnSet(f, S) = f[a] + SumFunctionOnSet(f, R)
  BY SumTakes
<1>3. SumFunctionOnSet(g, S) = g[a] + SumFunctionOnSet(g, R)
  BY SumTakes
<1> HIDE DEF R
<1>4. SumFunctionOnSet(f, R) = SumFunctionOnSet(g, R) /\ SumFunctionOnSet(f, R) \in Int
  BY <1>1, SumOfSame, SumIsInt
<1>5. f[a] \in Int
  OBVIOUS
<1>6. QED BY <1>2, <1>3, <1>4, <1>5

\* A sum of terms none of which is larger is not larger.
LEMMA SumIsMonotonic ==
  ASSUME NEW f, NEW g, NEW S, IsFiniteSet(S),
         \A x \in S : f[x] \in Int /\ g[x] \in Int /\ f[x] <= g[x]
  PROVE  SumFunctionOnSet(f, S) <= SumFunctionOnSet(g, S)
<1> DEFINE T == {s \in SUBSET S : ~(SumFunctionOnSet(f, s) <= SumFunctionOnSet(g, s))}
<1> SUFFICES ASSUME T # {} PROVE FALSE
  OBVIOUS
<1>1. PICK t \in T : \A u \in T : u \subseteq t => u = t
  <2>1. T \subseteq SUBSET S
    OBVIOUS
  <2> HIDE DEF T
  <2>2. QED BY <2>1, MinimalSubset
<1>2. t \in SUBSET S /\ ~(SumFunctionOnSet(f, t) <= SumFunctionOnSet(g, t)) /\ IsFiniteSet(t)
  BY FS_Subset
<1>3. t # {}
  BY <1>2, SumOfNothing
<1> DEFINE p == Pick(t)
           r == t \ {p}
<1>4. p \in t /\ r \notin T
  BY <1>1, <1>3, PickOne
<1>5. r \in SUBSET S /\ IsFiniteSet(r) /\ SumFunctionOnSet(f, r) <= SumFunctionOnSet(g, r)
  BY <1>2, <1>4, FS_Subset
<1>6. SumFunctionOnSet(f, t) = f[p] + SumFunctionOnSet(f, r) /\ SumFunctionOnSet(g, t) = g[p] + SumFunctionOnSet(g, r)
  BY <1>2, <1>3, SumTakesPick
<1>7. f[p] \in Int /\ g[p] \in Int /\ f[p] <= g[p]
  BY <1>2, <1>4
<1> HIDE DEF T, p, r
<1>8. SumFunctionOnSet(f, r) \in Int /\ SumFunctionOnSet(g, r) \in Int
  BY <1>5, SumIsInt
<1>9. QED BY <1>2, <1>5, <1>6, <1>7, <1>8

\* A sum of zeros is zero.
LEMMA SumOfZeros ==
  ASSUME NEW f, NEW S, IsFiniteSet(S), \A x \in S : f[x] = 0
  PROVE  SumFunctionOnSet(f, S) = 0
<1> DEFINE T == {s \in SUBSET S : SumFunctionOnSet(f, s) # 0}
<1> SUFFICES ASSUME T # {} PROVE FALSE
  OBVIOUS
<1>1. PICK t \in T : \A u \in T : u \subseteq t => u = t
  <2>1. T \subseteq SUBSET S
    OBVIOUS
  <2> HIDE DEF T
  <2>2. QED BY <2>1, MinimalSubset
<1>2. t # {} /\ IsFiniteSet(t) /\ t \in SUBSET S
  BY SumOfNothing, FS_Subset
<1>3. Pick(t) \in t /\ t \ {Pick(t)} \notin T
  BY <1>1, <1>2, PickOne
<1>4. SumFunctionOnSet(f, t \ {Pick(t)}) = 0 /\ f[Pick(t)] = 0
  BY <1>2, <1>3
<1>5. SumFunctionOnSet(f, t) = 0
  BY <1>2, <1>4, SumTakesPick
<1>6. QED BY <1>5

\* A sum of natural numbers is one, and no term of it is larger.
LEMMA SumIsNat ==
  ASSUME NEW f, NEW S, IsFiniteSet(S), \A x \in S : f[x] \in Nat
  PROVE  /\ SumFunctionOnSet(f, S) \in Nat
         /\ \A a \in S : f[a] <= SumFunctionOnSet(f, S)
<1>1. ASSUME NEW R \in SUBSET S
      PROVE  SumFunctionOnSet(f, R) \in Nat
  <2> DEFINE z == [x \in R |-> 0]
  <2>1. IsFiniteSet(R) /\ \A x \in R : z[x] = 0 /\ z[x] \in Int /\ f[x] \in Int /\ z[x] <= f[x]
    BY FS_Subset
  <2> HIDE DEF z
  <2>2. SumFunctionOnSet(z, R) = 0 /\ SumFunctionOnSet(z, R) <= SumFunctionOnSet(f, R) /\ SumFunctionOnSet(f, R) \in Int
    BY <2>1, SumOfZeros, SumIsMonotonic, SumIsInt
  <2>3. QED BY <2>2
<1>2. ASSUME NEW a \in S
      PROVE  f[a] <= SumFunctionOnSet(f, S)
  <2>1. SumFunctionOnSet(f, S) = f[a] + SumFunctionOnSet(f, S \ {a})
    <3>1. \A x \in S : f[x] \in Int
      OBVIOUS
    <3>2. QED BY <3>1, SumTakes
  <2>2. SumFunctionOnSet(f, S \ {a}) \in Nat /\ f[a] \in Nat
    BY <1>1
  <2>3. QED BY <2>1, <2>2
<1>3. QED BY <1>1, <1>2

\* Terms that are added are added in the sum.
LEMMA SumOfAdded ==
  ASSUME NEW f, NEW g, NEW h, NEW S, IsFiniteSet(S),
         \A x \in S : f[x] \in Int /\ g[x] \in Int /\ h[x] = f[x] + g[x]
  PROVE  SumFunctionOnSet(h, S) = SumFunctionOnSet(f, S) + SumFunctionOnSet(g, S)
<1> DEFINE T == {s \in SUBSET S : SumFunctionOnSet(h, s) # SumFunctionOnSet(f, s) + SumFunctionOnSet(g, s)}
<1> SUFFICES ASSUME T # {} PROVE FALSE
  OBVIOUS
<1>1. PICK t \in T : \A u \in T : u \subseteq t => u = t
  <2>1. T \subseteq SUBSET S
    OBVIOUS
  <2> HIDE DEF T
  <2>2. QED BY <2>1, MinimalSubset
<1>2. /\ t \in SUBSET S /\ IsFiniteSet(t)
      /\ SumFunctionOnSet(h, t) # SumFunctionOnSet(f, t) + SumFunctionOnSet(g, t)
  BY FS_Subset
<1>3. t # {}
  <2> SUFFICES ASSUME t = {} PROVE FALSE
    OBVIOUS
  <2>1. SumFunctionOnSet(f, {}) = 0 /\ SumFunctionOnSet(g, {}) = 0 /\ SumFunctionOnSet(h, {}) = 0
    BY SumOfNothing
  <2> HIDE DEF T
  <2>2. QED BY <1>2, <2>1
<1> DEFINE p == Pick(t)
           r == t \ {p}
<1>4. p \in t /\ r \notin T
  BY <1>1, <1>3, PickOne
<1>5. /\ r \in SUBSET S /\ IsFiniteSet(r)
      /\ SumFunctionOnSet(h, r) = SumFunctionOnSet(f, r) + SumFunctionOnSet(g, r)
  BY <1>2, <1>4, FS_Subset
<1>6. /\ SumFunctionOnSet(f, t) = f[p] + SumFunctionOnSet(f, r)
      /\ SumFunctionOnSet(g, t) = g[p] + SumFunctionOnSet(g, r)
      /\ SumFunctionOnSet(h, t) = h[p] + SumFunctionOnSet(h, r)
  BY <1>2, <1>3, SumTakesPick
<1>7. f[p] \in Int /\ g[p] \in Int /\ h[p] = f[p] + g[p]
  BY <1>2, <1>4
<1> HIDE DEF T, p, r
<1>8. SumFunctionOnSet(f, r) \in Int /\ SumFunctionOnSet(g, r) \in Int
  BY <1>5, SumIsInt
<1>9. QED BY <1>2, <1>5, <1>6, <1>7, <1>8

\* What adds nothing can be left out.
LEMMA SumOfPart ==
  ASSUME NEW f, NEW S, IsFiniteSet(S), NEW R, R \subseteq S,
         \A x \in R : f[x] \in Int, \A x \in S \ R : f[x] = 0
  PROVE  SumFunctionOnSet(f, S) = SumFunctionOnSet(f, R)
<1> DEFINE T == {s \in SUBSET (S \ R) : SumFunctionOnSet(f, R \cup s) # SumFunctionOnSet(f, R)}
<1> SUFFICES ASSUME T # {} PROVE FALSE
  <2> PICK rest : rest = S \ R
    OBVIOUS
  <2>1. T = {} => SumFunctionOnSet(f, R \cup rest) = SumFunctionOnSet(f, R)
    OBVIOUS
  <2>2. R \cup rest = S
    OBVIOUS
  <2> HIDE DEF T
  <2>3. QED BY <2>1, <2>2
<1>2. PICK t \in T : \A u \in T : u \subseteq t => u = t
  <2>1. T \subseteq SUBSET S
    OBVIOUS
  <2> HIDE DEF T
  <2>2. QED BY <2>1, MinimalSubset
<1>3. t \subseteq S \ R /\ SumFunctionOnSet(f, R \cup t) # SumFunctionOnSet(f, R)
  OBVIOUS
<1>4. t # {}
  <2> SUFFICES ASSUME t = {} PROVE FALSE
    OBVIOUS
  <2>1. R \cup t = R
    OBVIOUS
  <2>2. QED BY <1>3, <2>1
<1>5. PICK x \in t : TRUE
  BY <1>4
<1> DEFINE r == t \ {x}
<1>6. r \notin T /\ r \subseteq S \ R
  BY <1>2, <1>3, <1>5
<1>7. (R \cup t) \ {x} = R \cup r
  BY <1>3, <1>5
<1>8. SumFunctionOnSet(f, R \cup t) = f[x] + SumFunctionOnSet(f, R \cup r)
  <2>1. IsFiniteSet(R \cup t) /\ (\A y \in R \cup t : f[y] \in Int) /\ x \in R \cup t
    <3>1. R \cup t \subseteq S
      BY <1>3
    <3>2. QED BY <1>3, <1>5, <3>1, FS_Subset
  <2> HIDE DEF r, T
  <2>2. QED BY <1>7, <2>1, SumTakes
<1>9. SumFunctionOnSet(f, R \cup r) = SumFunctionOnSet(f, R) /\ SumFunctionOnSet(f, R) \in Int /\ f[x] = 0
  <2>1. IsFiniteSet(R)
    BY FS_Subset
  <2>2. QED BY <1>3, <1>5, <1>6, <2>1, SumIsInt
<1> HIDE DEF T, r
<1>10. QED BY <1>3, <1>8, <1>9

\* A set of numbers that is not empty has a least one.
LEMMA LeastOf ==
  ASSUME NEW S, S \in SUBSET Nat, S # {}
  PROVE  \E x \in S : \A y \in S : x <= y
<1>1. \E x \in S : \A y \in S : ~(<<y, x>> \in OpToRel(<, Nat))
  BY NatLessThanWellFounded, WFMin
<1>2. PICK x \in S : \A y \in S : ~(<<y, x>> \in OpToRel(<, Nat))
  BY <1>1
<1>3. \A y \in S : ~(y < x)
  BY <1>2 DEF OpToRel
<1> QED BY <1>3

\* A finite set of numbers has a largest.
LEMMA LargestOf ==
  ASSUME NEW S, IsFiniteSet(S), \A x \in S : x \in Nat, S # {}
  PROVE  \E x \in S : \A y \in S : y <= x
<1> DEFINE above(x) == {y \in S : y >= x}
           T == {above(x) : x \in S}
<1>1. PICK t \in T : \A u \in T : u \subseteq t => u = t
  <2>1. T \subseteq SUBSET S /\ T # {}
    OBVIOUS
  <2> HIDE DEF T, above
  <2>2. QED BY <2>1, MinimalSubset
<1>2. PICK x \in S : t = above(x)
  OBVIOUS
<1>3. ASSUME NEW y \in S, ~(y <= x) PROVE FALSE
  <2>1. x \in Nat /\ y \in Nat /\ x < y
    BY <1>3
  <2>2. above(y) \in T /\ above(y) \subseteq t
    <3>1. \A z \in S : z >= y => z >= x
      BY <2>1
    <3>2. above(y) \subseteq above(x)
      BY <3>1
    <3>3. QED BY <1>2, <3>2
  <2>3. x \in t /\ x \notin above(y)
    BY <1>2, <2>1
  <2>4. QED BY <1>1, <2>2, <2>3
<1>4. QED BY <1>3

\* Money that is placed on a debt D, entry by entry and what is left of it, never exceeds it:
\* x gets no more than f[x] and no more than what the entries before it left.
LEMMA PlacedInOrder ==
  ASSUME NEW f, NEW g, NEW S, IsFiniteSet(S), \A x \in S : x \in Nat, NEW D \in Nat, \A x \in S : f[x] \in Nat,
         \A x \in S :
           LET before == SumFunctionOnSet(f, {y \in S : y < x})
               left == D - (IF D <= before THEN D ELSE before)
           IN  g[x] = IF f[x] <= left THEN f[x] ELSE left
  PROVE  /\ \A x \in S : g[x] \in Nat
         /\ SumFunctionOnSet(g, S) \in Nat /\ SumFunctionOnSet(g, S) <= D
<1>1. ASSUME NEW s \in SUBSET S
      PROVE  IsFiniteSet(s) /\ SumFunctionOnSet(f, s) \in Nat
  <2>1. IsFiniteSet(s) /\ \A x \in s : f[x] \in Nat
    BY FS_Subset
  <2>2. QED BY <2>1, SumIsNat
<1>2. ASSUME NEW x \in S PROVE g[x] \in Nat
  <2>1. SumFunctionOnSet(f, {y \in S : y < x}) \in Nat /\ f[x] \in Nat
    BY <1>1
  <2>2. QED BY <2>1
<1> DEFINE Full(s) == LET all == SumFunctionOnSet(f, s) IN IF D <= all THEN D ELSE all
           T == {s \in SUBSET S : (\A x \in s, y \in S : y < x => y \in s) /\ SumFunctionOnSet(g, s) # Full(s)}
<1>3. T = {}
  <2> SUFFICES ASSUME T # {} PROVE FALSE
    OBVIOUS
  <2>1. PICK t \in T : \A u \in T : u \subseteq t => u = t
    <3>1. T \subseteq SUBSET S
      OBVIOUS
    <3> HIDE DEF T, Full
    <3>2. QED BY <3>1, MinimalSubset
  <2>2. t \in SUBSET S /\ (\A x \in t, y \in S : y < x => y \in t) /\ SumFunctionOnSet(g, t) # Full(t)
    OBVIOUS
  <2>3. t # {}
    <3> SUFFICES ASSUME t = {} PROVE FALSE
      OBVIOUS
    <3>1. SumFunctionOnSet(f, t) = 0 /\ SumFunctionOnSet(g, t) = 0
      BY SumOfNothing
    <3>2. Full(t) = 0
      BY <3>1
    <3>3. QED BY <2>2, <3>1, <3>2
  <2>4. t \subseteq Nat /\ IsFiniteSet(t)
    BY <1>1, <2>2
  <2>5. PICK x \in t : \A y \in t : y <= x
    BY <2>3, <2>4, LargestOf
  <2> DEFINE r == t \ {x}
  <2>6. r = {y \in S : y < x}
    <3>1. \A y \in t : y # x => y < x
      BY <2>4, <2>5
    <3>2. x \in Nat /\ \A y \in S : y < x => y # x
      BY <2>2, <2>5
    <3>3. QED BY <2>2, <2>5, <3>1, <3>2
  <2>7. r \in SUBSET S /\ (\A z \in r, y \in S : y < z => y \in r)
    <3>1. \A z, y \in S : y < z /\ z < x => y < x
      BY <2>2, <2>5
    <3> HIDE DEF r
    <3>2. QED BY <2>2, <2>5, <2>6, <3>1
  <2>8. SumFunctionOnSet(g, r) = Full(r)
    BY <2>1, <2>5, <2>7
  <2>9. SumFunctionOnSet(f, t) = f[x] + SumFunctionOnSet(f, r) /\ SumFunctionOnSet(g, t) = g[x] + SumFunctionOnSet(g, r)
    <3>1. (\A y \in t : f[y] \in Int /\ g[y] \in Int) /\ IsFiniteSet(t)
      BY <1>2, <2>2, <2>4
    <3> HIDE DEF T, Full
    <3>2. SumFunctionOnSet(f, t) = f[x] + SumFunctionOnSet(f, t \ {x})
      BY <3>1, SumTakes
    <3>3. SumFunctionOnSet(g, t) = g[x] + SumFunctionOnSet(g, t \ {x})
      BY <3>1, SumTakes
    <3>4. QED BY <3>2, <3>3
  <2> PICK b : b = SumFunctionOnSet(f, r)
    OBVIOUS
  <2>10. b \in Nat /\ f[x] \in Nat
    BY <1>1, <2>2, <2>5, <2>7
  <2>11. LET left == D - (IF D <= b THEN D ELSE b)
         IN  g[x] = IF f[x] <= left THEN f[x] ELSE left
    BY <2>2, <2>5, <2>6
  <2>12. SumFunctionOnSet(g, r) = IF D <= b THEN D ELSE b
    BY <2>8
  <2>13. SumFunctionOnSet(g, t) # (IF D <= f[x] + b THEN D ELSE f[x] + b)
    BY <2>2, <2>9
  <2>14. SumFunctionOnSet(g, t) = g[x] + (IF D <= b THEN D ELSE b)
    BY <2>9, <2>12
  <2> HIDE DEF T, r, Full
  <2>15. QED BY <2>10, <2>11, <2>13, <2>14
<1>4. SumFunctionOnSet(g, S) = Full(S)
  BY <1>3
<1>5. SumFunctionOnSet(f, S) \in Nat
  BY <1>1
<1>6. QED BY <1>2, <1>4, <1>5

\* A sum over a set in two parts.
LEMMA SumOfTwoParts ==
  ASSUME NEW f, NEW P, NEW Q, IsFiniteSet(P \cup Q), P \cap Q = {}, \A x \in P \cup Q : f[x] \in Int
  PROVE  SumFunctionOnSet(f, P \cup Q) = SumFunctionOnSet(f, P) + SumFunctionOnSet(f, Q)
<1>1. PICK S : S = P \cup Q
  OBVIOUS
<1> DEFINE g == [x \in S |-> IF x \in P THEN f[x] ELSE 0]
           h == [x \in S |-> IF x \in Q THEN f[x] ELSE 0]
<1>2. /\ \A x \in P : g[x] = f[x] /\ g[x] \in Int
      /\ \A x \in Q : h[x] = f[x] /\ h[x] \in Int
      /\ \A x \in S \ P : g[x] = 0
      /\ \A x \in S \ Q : h[x] = 0
      /\ \A x \in S : g[x] \in Int /\ h[x] \in Int /\ f[x] = g[x] + h[x]
  BY <1>1
<1>3. IsFiniteSet(S) /\ IsFiniteSet(P) /\ IsFiniteSet(Q) /\ P \subseteq S /\ Q \subseteq S
  BY <1>1, FS_Subset
<1> HIDE DEF g, h
<1>4. SumFunctionOnSet(f, S) = SumFunctionOnSet(g, S) + SumFunctionOnSet(h, S)
  BY <1>2, <1>3, SumOfAdded
<1>5. SumFunctionOnSet(g, S) = SumFunctionOnSet(g, P) /\ SumFunctionOnSet(h, S) = SumFunctionOnSet(h, Q)
  BY <1>2, <1>3, SumOfPart
<1>6. SumFunctionOnSet(g, P) = SumFunctionOnSet(f, P) /\ SumFunctionOnSet(h, Q) = SumFunctionOnSet(f, Q)
  BY <1>2, <1>3, SumOfSame
<1> QED BY <1>1, <1>4, <1>5, <1>6

\* What balances at every member balances in the sum.
LEMMA SumsBalance ==
  ASSUME NEW e, NEW f, NEW g, NEW h, NEW S, IsFiniteSet(S),
         \A x \in S : /\ e[x] \in Int /\ f[x] \in Int /\ g[x] \in Int /\ h[x] \in Int
                      /\ e[x] + f[x] = g[x] + h[x]
  PROVE  SumFunctionOnSet(e, S) + SumFunctionOnSet(f, S) = SumFunctionOnSet(g, S) + SumFunctionOnSet(h, S)
<1> DEFINE both == [x \in S |-> e[x] + f[x]]
<1>1. \A x \in S : both[x] = e[x] + f[x] /\ both[x] = g[x] + h[x]
  OBVIOUS
<1> HIDE DEF both
<1>2. SumFunctionOnSet(both, S) = SumFunctionOnSet(e, S) + SumFunctionOnSet(f, S)
  BY <1>1, SumOfAdded
<1>3. SumFunctionOnSet(both, S) = SumFunctionOnSet(g, S) + SumFunctionOnSet(h, S)
  BY <1>1, SumOfAdded
<1> QED BY <1>2, <1>3

\* A sum over what a one-to-one function reaches is a sum over where it starts.
LEMMA SumAlong ==
  ASSUME NEW f, NEW g, NEW h, NEW S, IsFiniteSet(S), \A x \in S : f[h[x]] \in Int /\ g[x] = f[h[x]],
         \A x, y \in S : h[x] = h[y] => x = y
  PROVE  SumFunctionOnSet(f, {h[x] : x \in S}) = SumFunctionOnSet(g, S)
<1> DEFINE to(s) == {h[x] : x \in s}
           T == {s \in SUBSET S : ~(IsFiniteSet(to(s)) /\ SumFunctionOnSet(f, to(s)) = SumFunctionOnSet(g, s))}
<1> SUFFICES ASSUME T # {} PROVE FALSE
  OBVIOUS
<1>1. PICK t \in T : \A u \in T : u \subseteq t => u = t
  <2>1. T \subseteq SUBSET S
    OBVIOUS
  <2> HIDE DEF T
  <2>2. QED BY <2>1, MinimalSubset
<1>2. /\ IsFiniteSet(t) /\ t \in SUBSET S
      /\ ~(IsFiniteSet(to(t)) /\ SumFunctionOnSet(f, to(t)) = SumFunctionOnSet(g, t))
  BY FS_Subset
<1>3. t # {}
  <2>1. to({}) = {}
    OBVIOUS
  <2>2. SumFunctionOnSet(f, {}) = SumFunctionOnSet(g, {}) /\ IsFiniteSet({})
    BY SumOfNothing, FS_EmptySet
  <2> QED BY <1>2, <2>1, <2>2
<1>4. PICK x : x \in t
  BY <1>3
<1> DEFINE r == t \ {x}
<1>5. IsFiniteSet(to(r)) /\ SumFunctionOnSet(f, to(r)) = SumFunctionOnSet(g, r)
  BY <1>1, <1>4
<1>6. to(t) \ {h[x]} = to(r) /\ h[x] \in to(t) /\ to(t) = to(r) \cup {h[x]}
  BY <1>2, <1>4
<1>7. SumFunctionOnSet(g, t) = g[x] + SumFunctionOnSet(g, r)
  <2>1. \A y \in t : g[y] \in Int
    BY <1>2
  <2> QED BY <1>2, <1>4, <2>1, SumTakes
<1>8. IsFiniteSet(to(t))
  <2>1. PICK P, l : P = to(r) /\ l = h[x] /\ to(t) = P \cup {l}
    BY <1>6
  <2>2. IsFiniteSet(P)
    BY <1>5, <2>1
  <2>3. IsFiniteSet(P \cup {l})
    BY <2>2, FS_AddElement
  <2> QED BY <2>1, <2>3
<1>9. SumFunctionOnSet(f, to(t)) = f[h[x]] + SumFunctionOnSet(f, to(r))
  <2>1. \A l \in to(t) : f[l] \in Int
    BY <1>2
  <2>2. PICK P, l : P = to(t) /\ l = h[x] /\ to(r) = P \ {l} /\ l \in P
    BY <1>6
  <2>3. SumFunctionOnSet(f, P) = f[l] + SumFunctionOnSet(f, P \ {l})
    BY <1>8, <2>1, <2>2, SumTakes
  <2> QED BY <2>2, <2>3
<1>10. g[x] = f[h[x]]
  BY <1>2, <1>4
<1> QED BY <1>2, <1>5, <1>7, <1>8, <1>9, <1>10

\* A table has the same sum by rows and by columns.
LEMMA SumsExchange ==
  ASSUME NEW a, NEW R, NEW D, IsFiniteSet(R), IsFiniteSet(D), \A r \in R, d \in D : a[r][d] \in Int
  PROVE  SumFunctionOnSet([r \in R |-> SumFunctionOnSet(a[r], D)], R)
           = SumFunctionOnSet([d \in D |-> SumFunctionOnSet([r \in R |-> a[r][d]], R)], D)
<1> DEFINE row == [r \in R |-> SumFunctionOnSet(a[r], D)]
           column(d) == [r \in R |-> a[r][d]]
           byColumn(s) == [d \in D |-> SumFunctionOnSet(column(d), s)]
           T == {s \in SUBSET R : SumFunctionOnSet(row, s) # SumFunctionOnSet(byColumn(s), D)}
<1>1. /\ \A r \in R : row[r] = SumFunctionOnSet(a[r], D)
      /\ \A d \in D, r \in R : column(d)[r] = a[r][d]
      /\ \A s : \A d \in D : byColumn(s)[d] = SumFunctionOnSet(column(d), s)
  OBVIOUS
<1> SUFFICES ASSUME T # {} PROVE FALSE
  OBVIOUS
<1>2. PICK t \in T : \A u \in T : u \subseteq t => u = t
  <2>1. T \subseteq SUBSET R
    OBVIOUS
  <2> HIDE DEF T
  <2>2. QED BY <2>1, MinimalSubset
<1>3. IsFiniteSet(t) /\ t \in SUBSET R /\ SumFunctionOnSet(row, t) # SumFunctionOnSet(byColumn(t), D)
  BY FS_Subset
<1> HIDE DEF row, column, byColumn
<1>4. t # {}
  <2>1. \A d \in D : byColumn({})[d] = 0
    BY <1>1, SumOfNothing
  <2>2. SumFunctionOnSet(byColumn({}), D) = 0 /\ SumFunctionOnSet(row, {}) = 0
    BY <2>1, SumOfNothing, SumOfZeros
  <2> QED BY <1>3, <2>2
<1>5. PICK x : x \in t /\ x \in R
  BY <1>3, <1>4
<1> DEFINE u == t \ {x}
<1>6. SumFunctionOnSet(row, u) = SumFunctionOnSet(byColumn(u), D) /\ IsFiniteSet(u) /\ u \in SUBSET R
  BY <1>2, <1>3, <1>5, FS_Subset
<1>7. \A r \in R : row[r] \in Int
  BY <1>1, SumIsInt
<1>8. SumFunctionOnSet(row, t) = row[x] + SumFunctionOnSet(row, u)
  BY <1>3, <1>5, <1>7, SumTakes
<1>9. \A d \in D : /\ byColumn(t)[d] = a[x][d] + byColumn(u)[d]
                   /\ byColumn(u)[d] \in Int /\ byColumn(t)[d] \in Int
  <2> SUFFICES ASSUME NEW d \in D
               PROVE  /\ byColumn(t)[d] = a[x][d] + byColumn(u)[d]
                      /\ byColumn(u)[d] \in Int /\ byColumn(t)[d] \in Int
    OBVIOUS
  <2>1. \A r \in t : column(d)[r] \in Int
    BY <1>1, <1>3
  <2>2. SumFunctionOnSet(column(d), t) = column(d)[x] + SumFunctionOnSet(column(d), u)
    BY <1>3, <1>5, <2>1, SumTakes
  <2>3. SumFunctionOnSet(column(d), t) \in Int /\ SumFunctionOnSet(column(d), u) \in Int
    BY <1>3, <1>6, <2>1, SumIsInt
  <2> QED BY <1>1, <1>5, <2>2, <2>3
<1>10. SumFunctionOnSet(byColumn(t), D) = SumFunctionOnSet(a[x], D) + SumFunctionOnSet(byColumn(u), D)
  <2>1. \A d \in D : a[x][d] \in Int
    BY <1>5
  <2>2. PICK f, g, h : f = a[x] /\ g = byColumn(u) /\ h = byColumn(t)
    OBVIOUS
  <2>3. \A d \in D : f[d] \in Int /\ g[d] \in Int /\ h[d] = f[d] + g[d]
    BY <1>9, <2>1, <2>2
  <2>4. SumFunctionOnSet(h, D) = SumFunctionOnSet(f, D) + SumFunctionOnSet(g, D)
    BY <2>3, SumOfAdded
  <2> QED BY <2>2, <2>4
<1> QED BY <1>1, <1>3, <1>5, <1>6, <1>8, <1>10
=============================================================================
