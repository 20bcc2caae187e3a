------------------------------ MODULE DataLemmas ------------------------------
(***************************************************************************)
(* Facts about numbers, finite sets, sums and filtered lists that the      *)
(* proofs of the models of requests and of values need.                    *)
(*                                                                         *)
(* Induction is stated for a set of numbers instead of a predicate: the    *)
(* set of the numbers that have a property is a first-order object.  A sum *)
(* over a function is the fold of the community modules; its recursive     *)
(* function exists by induction on the size of its argument, and the order *)
(* in which it takes the elements makes no difference.                     *)
(***************************************************************************)
EXTENDS Integers, Sequences, Functions, FiniteSets, Ascending, FiniteSetTheorems,
        WellFoundedInduction, TLAPS

(* Induction.                                                              *)

\* A set of naturals that is not empty has a least element.
LEMMA LeastNat ==
  ASSUME NEW T, T \subseteq Nat, T # {}
  PROVE  \E n \in T : \A m \in T : n <= m
<1> DEFINE R == OpToRel(<, Nat)
<1>1. IsWellFoundedOn(R, Nat)
  BY NatLessThanWellFounded
<1>2. PICK x \in T : \A y \in T : ~(<<y, x>> \in R)
  <2> HIDE DEF R
  <2> QED BY <1>1, WFMin, Zenon
<1>3. \A y \in T : ~(y < x)
  BY <1>2 DEF OpToRel
<1> QED
  BY <1>3

\* Induction over the naturals, with a set in place of an operator.
LEMMA NatSetInduction ==
  ASSUME NEW T, 0 \in T, \A n \in Nat : n \in T => n + 1 \in T
  PROVE  \A n \in Nat : n \in T
<1> DEFINE U == {n \in Nat : n \notin T}
<1>1. SUFFICES ASSUME U # {} PROVE FALSE
  OBVIOUS
<1>2. PICK n \in U : \A m \in U : n <= m
  BY <1>1, LeastNat
<1> QED
  BY <1>2

\* Induction over the subsets of a finite set, one element at a time.
LEMMA FiniteSetInduction ==
  ASSUME NEW D, IsFiniteSet(D), NEW F, {} \in F,
         \A s \in SUBSET D : \A x \in D \ s : s \in F => s \cup {x} \in F
  PROVE  D \in F
<1> DEFINE T == {n \in Nat : \A s \in SUBSET D : Cardinality(s) = n => s \in F}
<1>1. \A s \in SUBSET D : IsFiniteSet(s) /\ Cardinality(s) \in Nat
  BY FS_Subset, FS_CardinalityType
<1>2. 0 \in T
  BY <1>1, FS_EmptySet
<1>3. ASSUME NEW n \in Nat, n \in T PROVE n + 1 \in T
  <2>1. SUFFICES ASSUME NEW s \in SUBSET D, Cardinality(s) = n + 1 PROVE s \in F
    OBVIOUS
  <2>2. PICK x \in s : TRUE
    BY <2>1, <1>1, FS_EmptySet
  <2>3. Cardinality(s \ {x}) = n
    <3>1. IsFiniteSet(s) /\ x \in s
      BY <1>1, <2>2
    <3>2. Cardinality(s \ {x}) = Cardinality(s) - 1
      BY <3>1, FS_RemoveElement
    <3> QED
      BY <3>2, <2>1
  <2>4. s \ {x} \in F
    BY <2>3, <1>3
  <2>5. s = (s \ {x}) \cup {x} /\ x \in D \ (s \ {x}) /\ s \ {x} \in SUBSET D
    OBVIOUS
  <2> QED
    BY <2>4, <2>5
<1>4. \A n \in Nat : n \in T
  <2> HIDE DEF T
  <2> QED BY <1>2, <1>3, NatSetInduction
<1> QED
  BY <1>4, <1>1, FS_CardinalityType
-----------------------------------------------------------------------------
(* Sums.                                                                   *)

Pick(s) == CHOOSE x \in s : TRUE
SumBody(f, it, s) == IF s = {} THEN 0 ELSE f[Pick(s)] + it[s \ {Pick(s)}]

\* A function that sums f over the subsets of D, whichever element it takes first.
Sums(f, D, it) ==
  /\ it \in [SUBSET D -> Int] /\ it[{}] = 0
  /\ \A s \in SUBSET D : \A x \in s : it[s] = f[x] + it[s \ {x}]

\* The element a fold takes next is one of the set.
LEMMA PickIn == ASSUME NEW s, s # {} PROVE Pick(s) \in s
  BY DEF Pick

\* The recursive function behind a sum exists: its body has a solution on every subset.
LEMMA SumBodyExists ==
  ASSUME NEW D, IsFiniteSet(D), NEW f, \A x \in D : f[x] \in Int
  PROVE  \E it \in [SUBSET D -> Int] : \A s \in SUBSET D : it[s] = SumBody(f, it, s)
<1> DEFINE Good(n, it) ==
      \A s \in SUBSET D : Cardinality(s) <= n => it[s] = SumBody(f, it, s)
<1> DEFINE T == {n \in Nat : \E it \in [SUBSET D -> Int] : Good(n, it)}
<1>1. \A s \in SUBSET D : IsFiniteSet(s) /\ Cardinality(s) \in Nat
  BY FS_Subset, FS_CardinalityType
<1>2. \A s \in SUBSET D : s # {} =>
        /\ Pick(s) \in s /\ s \ {Pick(s)} \in SUBSET D
        /\ Cardinality(s \ {Pick(s)}) = Cardinality(s) - 1
  BY <1>1, PickIn, FS_RemoveElement
<1>3. 0 \in T
  <2> DEFINE zero == [s \in SUBSET D |-> 0]
  <2>1. \A s \in SUBSET D : Cardinality(s) <= 0 => s = {}
    BY <1>1, FS_EmptySet
  <2>2. zero \in [SUBSET D -> Int] /\ Good(0, zero)
    BY <2>1 DEF SumBody
  <2> QED
    BY <2>2
<1>4. ASSUME NEW n \in Nat, n \in T PROVE n + 1 \in T
  <2>1. PICK it \in [SUBSET D -> Int] : Good(n, it)
    BY <1>4
  <2> DEFINE next == [s \in SUBSET D |-> SumBody(f, it, s)]
  <2>2. ASSUME NEW s \in SUBSET D PROVE SumBody(f, it, s) \in Int
    <3>1. CASE s = {}
      BY <3>1 DEF SumBody
    <3>2. CASE s # {}
      <4>1. f[Pick(s)] \in Int /\ it[s \ {Pick(s)}] \in Int
        BY <3>2, <1>2
      <4> QED
        BY <3>2, <4>1 DEF SumBody
    <3> QED
      BY <3>1, <3>2
  <2>3. \A s \in SUBSET D : Cardinality(s) <= n => next[s] = it[s]
    BY <2>1
  <2>4. ASSUME NEW s \in SUBSET D, Cardinality(s) <= n + 1 PROVE next[s] = SumBody(f, next, s)
    <3>1. CASE s = {}
      BY <3>1 DEF SumBody
    <3>2. CASE s # {}
      <4>1. Cardinality(s \ {Pick(s)}) <= n
        BY <3>2, <2>4, <1>2, <1>1
      <4>2. next[s \ {Pick(s)}] = it[s \ {Pick(s)}]
        BY <4>1, <2>3, <1>2, <3>2
      <4> QED
        BY <4>2, <3>2 DEF SumBody
    <3> QED
      BY <3>1, <3>2
  <2>5. next \in [SUBSET D -> Int] /\ Good(n + 1, next)
    BY <2>2, <2>4
  <2>6. \E jt \in [SUBSET D -> Int] : Good(n + 1, jt)
    <3> HIDE DEF next, Good
    <3> QED BY <2>5
  <2> QED
    BY <2>6
<1>5. \A n \in Nat : n \in T
  <2> HIDE DEF T
  <2> QED BY <1>3, <1>4, NatSetInduction
<1>6. PICK it \in [SUBSET D -> Int] : Good(Cardinality(D), it)
  BY <1>5, FS_CardinalityType
<1>7. \A s \in SUBSET D : Cardinality(s) <= Cardinality(D)
  BY FS_Subset
<1> QED
  BY <1>6, <1>7

\* The order does not matter.
LEMMA SumBodyAnyOrder ==
  ASSUME NEW D, IsFiniteSet(D), NEW f, \A x \in D : f[x] \in Int,
         NEW it \in [SUBSET D -> Int], \A s \in SUBSET D : it[s] = SumBody(f, it, s)
  PROVE  Sums(f, D, it)
<1> DEFINE T == {n \in Nat : \A s \in SUBSET D :
                    Cardinality(s) = n => \A x \in s : it[s] = f[x] + it[s \ {x}]}
<1>1. \A s \in SUBSET D : IsFiniteSet(s) /\ Cardinality(s) \in Nat
  BY FS_Subset, FS_CardinalityType
<1>2. \A s \in SUBSET D : \A x \in s :
        s \ {x} \in SUBSET D /\ Cardinality(s \ {x}) = Cardinality(s) - 1
  BY <1>1, FS_RemoveElement
<1>3. 0 \in T
  BY <1>1, FS_EmptySet
<1>4. ASSUME NEW n \in Nat, n \in T PROVE n + 1 \in T
  <2>1. SUFFICES ASSUME NEW s \in SUBSET D, Cardinality(s) = n + 1, NEW x \in s
                 PROVE  it[s] = f[x] + it[s \ {x}]
    OBVIOUS
  <2> DEFINE p == Pick(s)
  <2>2. p \in s /\ it[s] = f[p] + it[s \ {p}]
    BY PickIn DEF SumBody
  <2> HIDE DEF p
  <2>3. CASE x = p
    BY <2>2, <2>3
  <2>4. CASE x # p
    <3>1. \A u \in SUBSET D : Cardinality(u) = n => \A y \in u : it[u] = f[y] + it[u \ {y}]
      BY <1>4
    <3>2. \A y \in s : s \ {y} \in SUBSET D /\ Cardinality(s \ {y}) = n
      BY <1>2, <2>1
    <3>3. it[s \ {p}] = f[x] + it[(s \ {p}) \ {x}]
      BY <3>1, <3>2, <2>2, <2>4
    <3>4. it[s \ {x}] = f[p] + it[(s \ {x}) \ {p}]
      BY <3>1, <3>2, <2>1, <2>2, <2>4
    <3>5. it[(s \ {x}) \ {p}] = it[(s \ {p}) \ {x}]
      <4>1. (s \ {x}) \ {p} = (s \ {p}) \ {x}
        OBVIOUS
      <4> QED BY <4>1
    <3>6. f[x] \in Int /\ f[p] \in Int /\ it[(s \ {p}) \ {x}] \in Int
      BY <2>2
    <3>7. it[s] = f[p] + (f[x] + it[(s \ {p}) \ {x}])
      BY <2>2, <3>3
    <3>8. f[x] + it[s \ {x}] = f[x] + (f[p] + it[(s \ {p}) \ {x}])
      BY <3>4, <3>5
    <3> QED
      BY <3>6, <3>7, <3>8
  <2> QED
    BY <2>3, <2>4
<1>5. \A n \in Nat : n \in T
  <2> HIDE DEF T
  <2> QED BY <1>3, <1>4, NatSetInduction
<1>6. it[{}] = 0
  BY DEF SumBody
<1> QED
  BY <1>1, <1>5, <1>6 DEF Sums

\* Functions that agree on S sum to the same, whatever else they are defined on.
LEMMA SumsAgree ==
  ASSUME NEW D, NEW E, NEW S, IsFiniteSet(S), S \subseteq D, S \subseteq E,
         NEW f, NEW g, NEW it, NEW jt, Sums(f, D, it), Sums(g, E, jt),
         \A x \in S : f[x] = g[x]
  PROVE  it[S] = jt[S]
<1> DEFINE F == {s \in SUBSET S : it[s] = jt[s]}
<1>1. {} \in F
  BY DEF Sums
<1>2. ASSUME NEW s \in SUBSET S, NEW x \in S \ s, s \in F PROVE s \cup {x} \in F
  <2>1. (s \cup {x}) \ {x} = s /\ s \cup {x} \in SUBSET D /\ s \cup {x} \in SUBSET E
    OBVIOUS
  <2>2. it[s \cup {x}] = f[x] + it[s] /\ jt[s \cup {x}] = g[x] + jt[s]
    BY <2>1 DEF Sums
  <2> QED
    BY <2>2, <1>2
<1>3. S \in F
  <2> HIDE DEF F
  <2> QED BY <1>1, <1>2, FiniteSetInduction
<1> QED
  BY <1>3

\* A sum of the community modules is what every such function says of the set.
LEMMA SumIsOfSums ==
  ASSUME NEW S, IsFiniteSet(S), NEW f, \A x \in S : f[x] \in Int
  PROVE  \E it : Sums(f, S, it) /\ SumFunctionOnSet(f, S) = it[S]
<1> DEFINE Fits(it) == it = [s \in SUBSET S |-> SumBody(f, it, s)]
<1>1. \E it : Fits(it)
  <2>1. PICK it \in [SUBSET S -> Int] : \A s \in SUBSET S : it[s] = SumBody(f, it, s)
    BY SumBodyExists
  <2>2. it = [s \in SUBSET S |-> it[s]]
    OBVIOUS
  <2>3. [s \in SUBSET S |-> it[s]] = [s \in SUBSET S |-> SumBody(f, it, s)]
    BY <2>1
  <2> QED
    BY <2>2, <2>3
<1> DEFINE jt == CHOOSE it : Fits(it)
<1>2. Fits(jt)
  <2> HIDE DEF Fits
  <2> QED BY <1>1
<1>3. SumFunctionOnSet(f, S) = jt[S]
  BY DEF SumFunctionOnSet, FoldFunctionOnSet, MapThenFoldSet, SumBody, Pick
<1> HIDE DEF jt
<1>4. \A s \in SUBSET S : jt[s] = SumBody(f, jt, s)
  BY <1>2
<1>5. jt \in [SUBSET S -> Int]
  <2>1. PICK it \in [SUBSET S -> Int] : \A s \in SUBSET S : it[s] = SumBody(f, it, s)
    BY SumBodyExists
  <2> DEFINE T == {n \in Nat : \A s \in SUBSET S : Cardinality(s) = n => jt[s] = it[s]}
  <2>2. \A s \in SUBSET S : IsFiniteSet(s) /\ Cardinality(s) \in Nat
    BY FS_Subset, FS_CardinalityType
  <2>3. \A s \in SUBSET S : \A x \in s :
          s \ {x} \in SUBSET S /\ Cardinality(s \ {x}) = Cardinality(s) - 1
    BY <2>2, FS_RemoveElement
  <2>4. 0 \in T
    <3>1. jt[{}] = it[{}]
      BY <1>4, <2>1 DEF SumBody
    <3> QED
      BY <3>1, <2>2, FS_EmptySet
  <2>5. ASSUME NEW n \in Nat, n \in T PROVE n + 1 \in T
    <3>1. SUFFICES ASSUME NEW s \in SUBSET S, Cardinality(s) = n + 1 PROVE jt[s] = it[s]
      OBVIOUS
    <3>2. s # {}
      <4>1. Cardinality(s) # 0
        BY <3>1
      <4> QED
        BY <4>1, FS_EmptySet
    <3>3. Pick(s) \in s /\ s \ {Pick(s)} \in SUBSET S /\ Cardinality(s \ {Pick(s)}) = n
      BY <3>1, <3>2, <2>3, PickIn
    <3>4. jt[s \ {Pick(s)}] = it[s \ {Pick(s)}]
      BY <3>3, <2>5
    <3> QED
      BY <3>2, <3>4, <1>4, <2>1 DEF SumBody
  <2>6. \A n \in Nat : n \in T
    <3> HIDE DEF T
    <3> QED BY <2>4, <2>5, NatSetInduction
  <2>7. \A s \in SUBSET S : jt[s] = it[s]
    BY <2>6, <2>2
  <2>8. jt = [s \in SUBSET S |-> jt[s]]
    BY <1>2
  <2> QED
    BY <2>7, <2>8
<1> QED
  BY <1>3, <1>4, <1>5, SumBodyAnyOrder

\* The sum over no elements.
LEMMA SumOfNone == ASSUME NEW f PROVE SumFunctionOnSet(f, {}) = 0
<1>1. PICK it : Sums(f, {}, it) /\ SumFunctionOnSet(f, {}) = it[{}]
  BY SumIsOfSums, FS_EmptySet
<1> QED
  BY <1>1 DEF Sums

\* A sum depends only on the values at the elements.
LEMMA SumAgrees ==
  ASSUME NEW S, IsFiniteSet(S), NEW f, NEW g, \A x \in S : f[x] \in Int /\ f[x] = g[x]
  PROVE  SumFunctionOnSet(f, S) = SumFunctionOnSet(g, S)
<1>1. PICK it : Sums(f, S, it) /\ SumFunctionOnSet(f, S) = it[S]
  BY SumIsOfSums
<1>2. PICK jt : Sums(g, S, jt) /\ SumFunctionOnSet(g, S) = jt[S]
  BY SumIsOfSums
<1> QED
  BY <1>1, <1>2, SumsAgree

\* One element more adds its value.
LEMMA SumOfOneMore ==
  ASSUME NEW S, IsFiniteSet(S), NEW x, x \notin S, NEW f, \A y \in S \cup {x} : f[y] \in Int
  PROVE  /\ SumFunctionOnSet(f, S \cup {x}) = f[x] + SumFunctionOnSet(f, S)
         /\ SumFunctionOnSet(f, S) \in Int
<1> DEFINE T == S \cup {x}
<1>1. IsFiniteSet(T)
  BY FS_AddElement
<1>2. PICK it : Sums(f, T, it) /\ SumFunctionOnSet(f, T) = it[T]
  <2> HIDE DEF T
  <2>1. \A y \in T : f[y] \in Int
    BY DEF T
  <2> QED BY <1>1, <2>1, SumIsOfSums
<1>3. PICK jt : Sums(f, S, jt) /\ SumFunctionOnSet(f, S) = jt[S]
  BY SumIsOfSums
<1>4. it[S] = jt[S]
  <2>1. S \subseteq T
    OBVIOUS
  <2> HIDE DEF T
  <2> QED BY <1>2, <1>3, <2>1, SumsAgree
<1>5. it[T] = f[x] + it[T \ {x}] /\ T \ {x} = S
  BY <1>2 DEF Sums
<1>6. jt[S] \in Int
  BY <1>3 DEF Sums
<1> QED
  BY <1>2, <1>3, <1>4, <1>5, <1>6

\* A sum of naturals is one.
LEMMA SumOfNaturals ==
  ASSUME NEW S, IsFiniteSet(S), NEW f, \A x \in S : f[x] \in Nat
  PROVE  SumFunctionOnSet(f, S) \in Nat
<1> DEFINE F == {s \in SUBSET S : SumFunctionOnSet(f, s) \in Nat}
<1>1. {} \in F
  BY SumOfNone
<1>2. ASSUME NEW s \in SUBSET S, NEW x \in S \ s, s \in F PROVE s \cup {x} \in F
  <2>1. IsFiniteSet(s) /\ x \notin s /\ \A y \in s \cup {x} : f[y] \in Int
    BY FS_Subset
  <2>2. SumFunctionOnSet(f, s \cup {x}) = f[x] + SumFunctionOnSet(f, s)
    BY <2>1, SumOfOneMore
  <2> QED
    BY <2>2, <1>2
<1>3. S \in F
  <2> HIDE DEF F
  <2> QED BY <1>1, <1>2, FiniteSetInduction
<1> QED
  BY <1>3

\* Sums over sequences, which grow by one element at their end.
LEMMA SumOfEmpty == ASSUME NEW f, DOMAIN f = {} PROVE SumFunction(f) = 0
  BY SumOfNone DEF SumFunction

\* One index more adds the value there.
LEMMA SumGrows ==
  ASSUME NEW n \in Nat, NEW f, NEW g, DOMAIN f = 1..n, DOMAIN g = 1..(n + 1),
         \A i \in 1..(n + 1) : g[i] \in Int, \A i \in 1..n : f[i] = g[i]
  PROVE  SumFunction(g) = SumFunction(f) + g[n + 1] /\ SumFunction(f) \in Int
<1>1. IsFiniteSet(1..n) /\ n + 1 \notin 1..n /\ 1..(n + 1) = (1..n) \cup {n + 1}
  <2>1. IsFiniteSet(1..n)
    BY FS_Interval
  <2> QED
    BY <2>1
<1>2. SumFunctionOnSet(f, 1..n) = SumFunctionOnSet(g, 1..n)
  <2>1. \A i \in 1..n : f[i] \in Int /\ f[i] = g[i]
    OBVIOUS
  <2> QED
    BY <1>1, <2>1, SumAgrees
<1>3. /\ SumFunctionOnSet(g, (1..n) \cup {n + 1}) = g[n + 1] + SumFunctionOnSet(g, 1..n)
      /\ SumFunctionOnSet(g, 1..n) \in Int
  <2>1. \A i \in (1..n) \cup {n + 1} : g[i] \in Int
    OBVIOUS
  <2> QED
    BY <1>1, <2>1, SumOfOneMore
<1>4. SumFunction(g) = g[n + 1] + SumFunction(f) /\ SumFunction(f) \in Int /\ g[n + 1] \in Int
  BY <1>1, <1>2, <1>3 DEF SumFunction
<1> QED
  BY <1>4

-----------------------------------------------------------------------------
\* Finite sets of numbers, smallest first.

Below(S, i) == {j \in S : j < i}

\* A finite set of naturals lies below some number.
LEMMA FiniteIsBounded ==
  ASSUME NEW S \in SUBSET Nat, IsFiniteSet(S)
  PROVE  \E n \in Nat : S \subseteq 0..(n - 1)
<1> DEFINE F == {s \in SUBSET S : \E n \in Nat : s \subseteq 0..(n - 1)}
<1>1. {} \in F
  OBVIOUS
<1>2. ASSUME NEW s \in SUBSET S, NEW x \in S \ s, s \in F PROVE s \cup {x} \in F
  <2>1. PICK n \in Nat : s \subseteq 0..(n - 1)
    BY <1>2
  <2>2. x \in Nat /\ n + x + 1 \in Nat
    OBVIOUS
  <2>3. ASSUME NEW y \in s \cup {x} PROVE y \in 0..(n + x + 1 - 1)
    BY <2>1, <2>2, <2>3
  <2>4. \E m \in Nat : s \cup {x} \subseteq 0..(m - 1)
    <3> DEFINE m == n + x + 1
    <3>1. m \in Nat /\ \A y \in s \cup {x} : y \in 0..(m - 1)
      BY <2>2, <2>3
    <3> HIDE DEF m
    <3> QED
      BY <3>1
  <2>5. s \cup {x} \in SUBSET S
    BY <1>2
  <2> QED
    BY <2>4, <2>5
<1> HIDE DEF F
<1>3. S \in F
  BY <1>1, <1>2, FiniteSetInduction
<1> QED
  BY <1>3 DEF F

\* Those below an element of a finite set can be counted.
LEMMA BelowIsFinite ==
  ASSUME NEW S, IsFiniteSet(S), NEW i
  PROVE  IsFiniteSet(Below(S, i)) /\ Cardinality(Below(S, i)) \in Nat
<1>1. Below(S, i) \subseteq S
  BY DEF Below
<1> QED
  BY <1>1, FS_Subset, FS_CardinalityType

\* No two have as many below them.
LEMMA BelowGrows ==
  ASSUME NEW S \in SUBSET Nat, IsFiniteSet(S), NEW i \in S, NEW j \in S, i < j
  PROVE  Cardinality(Below(S, i)) < Cardinality(Below(S, j))
<1> SUFFICES Cardinality(Below(S, i)) < Cardinality(Below(S, j))
  OBVIOUS
<1>0. i \in Nat /\ j \in Nat /\ \A x \in S : x \in Nat
  OBVIOUS
<1>1. Below(S, i) \cup {i} \subseteq Below(S, j) /\ i \notin Below(S, i)
  <2>1. \A x \in Below(S, i) : x \in S /\ x < i
    BY DEF Below
  <2>2. \A x \in S : x < j => x \in Below(S, j)
    BY DEF Below
  <2>3. ASSUME NEW x \in Below(S, i) PROVE x \in Below(S, j)
    <3>1. x \in S /\ x < i
      BY <2>1
    <3>2. x \in Nat
      BY <1>0, <3>1
    <3>3. x < j
      BY <1>0, <3>1, <3>2
    <3> QED
      BY <2>2, <3>1, <3>3
  <2>4. i \in Below(S, j) /\ ~(i < i)
    BY <1>0, <2>2
  <2> QED
    BY <2>1, <2>3, <2>4
<1>2. IsFiniteSet(Below(S, i)) /\ IsFiniteSet(Below(S, j)) /\ Cardinality(Below(S, i)) \in Nat
      /\ Cardinality(Below(S, j)) \in Nat
  BY BelowIsFinite
<1>3. Cardinality(Below(S, i) \cup {i}) = Cardinality(Below(S, i)) + 1
  BY <1>1, <1>2, FS_AddElement
<1>4. Cardinality(Below(S, i) \cup {i}) <= Cardinality(Below(S, j))
  BY <1>1, <1>2, FS_Subset
<1> QED
  BY <1>2, <1>3, <1>4

\* For every rank there is one.
LEMMA RanksAreTaken ==
  ASSUME NEW S \in SUBSET Nat, IsFiniteSet(S), NEW k \in 1..Cardinality(S)
  PROVE  \E i \in S : Cardinality(Below(S, i)) = k - 1
<1> DEFINE T == {n \in Nat : \A R \in SUBSET (0..(n - 1)) : \A m \in 1..Cardinality(R) :
                               \E i \in R : Cardinality(Below(R, i)) = m - 1}
<1>1. 0 \in T
  <2>1. ASSUME NEW R \in SUBSET (0..(0 - 1)), NEW m \in 1..Cardinality(R)
        PROVE  FALSE
    <3>1. R = {}
      OBVIOUS
    <3>2. Cardinality(R) = 0
      BY <3>1, FS_EmptySet
    <3> QED
      BY <3>2
  <2> QED
    BY <2>1
<1>2. ASSUME NEW n \in Nat, n \in T PROVE n + 1 \in T
  <2>1. SUFFICES ASSUME NEW R \in SUBSET (0..(n + 1 - 1)), NEW m \in 1..Cardinality(R)
                 PROVE  \E i \in R : Cardinality(Below(R, i)) = m - 1
    OBVIOUS
  <2>2. R \subseteq 0..n /\ IsFiniteSet(0..n)
    <3>1. R \subseteq 0..n
      OBVIOUS
    <3>2. 0 \in Int /\ n \in Int
      OBVIOUS
    <3> QED
      BY <3>1, <3>2, FS_Interval
  <2>3. CASE n \notin R
    <3>1. R \in SUBSET (0..(n - 1))
      BY <2>2, <2>3
    <3> QED
      BY <1>2, <3>1
  <2>4. CASE n \in R
    <3> DEFINE Q == R \ {n}
    <3>0. IsFiniteSet(R) /\ n \notin Q
      BY <2>2, FS_Subset
    <3>1. Q \in SUBSET (0..(n - 1)) /\ n \notin Q /\ IsFiniteSet(R)
      <4>1. ASSUME NEW x \in Q PROVE x \in 0..(n - 1)
        <5>1. x \in 0..n /\ x # n
          BY <2>2, <4>1
        <5> QED
          BY <5>1
      <4> QED
        BY <3>0, <4>1
    <3>2. IsFiniteSet(Q) /\ Cardinality(Q) \in Nat /\ Q \cup {n} = R
      BY <2>4, <3>1, FS_Subset, FS_CardinalityType
    <3>3. Cardinality(R) = Cardinality(Q) + 1
      <4> HIDE DEF Q
      <4>1. Cardinality(Q \cup {n}) = Cardinality(Q) + 1
        BY <3>1, <3>2, FS_AddElement
      <4> QED
        BY <3>2, <4>1
    <3>4. CASE m <= Cardinality(Q)
      <4>1. m \in 1..Cardinality(Q)
        BY <3>2, <3>4
      <4>2. PICK i \in Q : Cardinality(Below(Q, i)) = m - 1
        BY <1>2, <3>1, <4>1
      <4>3. Below(Q, i) = Below(R, i)
        BY <2>2, <3>1, <4>2 DEF Below
      <4> QED
        BY <4>2, <4>3
    <3>5. CASE m = Cardinality(Q) + 1
      <4>1. Below(R, n) = Q
        <5>1. \A x \in R : x \in Int /\ (x < n <=> x # n)
          BY <2>2
        <5> QED
          BY <2>4, <5>1 DEF Below
      <4> QED
        BY <2>4, <3>2, <3>5, <4>1
    <3> QED
      BY <3>2, <3>3, <3>4, <3>5
  <2> QED
    BY <2>3, <2>4
<1> HIDE DEF T
<1>3. \A n \in Nat : n \in T
  BY <1>1, <1>2, NatSetInduction
<1>4. \E n \in Nat : S \subseteq 0..(n - 1)
  BY FiniteIsBounded
<1>5. PICK n \in Nat : S \subseteq 0..(n - 1)
  BY <1>4
<1> QED
  BY <1>3, <1>5 DEF T

\* The k-th is the one with k - 1 below it.
LEMMA InOrderPlace ==
  ASSUME NEW S \in SUBSET Nat, IsFiniteSet(S)
  PROVE  /\ DOMAIN InOrder(S) = 1..Cardinality(S) /\ Cardinality(S) \in Nat
         /\ \A k \in 1..Cardinality(S) :
              InOrder(S)[k] \in S /\ Cardinality(Below(S, InOrder(S)[k])) = k - 1
         /\ \A i \in S : /\ Cardinality(Below(S, i)) + 1 \in 1..Cardinality(S)
                         /\ InOrder(S)[Cardinality(Below(S, i)) + 1] = i
<1>1. Cardinality(S) \in Nat /\ DOMAIN InOrder(S) = 1..Cardinality(S)
  BY FS_CardinalityType DEF InOrder
<1>2. ASSUME NEW k \in 1..Cardinality(S)
      PROVE  InOrder(S)[k] \in S /\ Cardinality(Below(S, InOrder(S)[k])) = k - 1
  <2>1. \E i \in S : Cardinality({j \in S : j < i}) = k - 1
    BY RanksAreTaken DEF Below
  <2>2. InOrder(S)[k] = CHOOSE i \in S : Cardinality({j \in S : j < i}) = k - 1
    BY DEF InOrder
  <2> QED
    BY <2>1, <2>2 DEF Below
<1>3. ASSUME NEW i \in S
      PROVE  /\ Cardinality(Below(S, i)) + 1 \in 1..Cardinality(S)
             /\ InOrder(S)[Cardinality(Below(S, i)) + 1] = i
  <2>1. /\ i \notin Below(S, i) /\ Below(S, i) \cup {i} \subseteq S
        /\ IsFiniteSet(Below(S, i)) /\ Cardinality(Below(S, i)) \in Nat
    BY BelowIsFinite DEF Below
  <2>2. Cardinality(Below(S, i) \cup {i}) = Cardinality(Below(S, i)) + 1
    BY <2>1, FS_AddElement
  <2>3. Cardinality(Below(S, i) \cup {i}) <= Cardinality(S)
    BY <2>1, FS_Subset
  <2>4. Cardinality(Below(S, i)) + 1 \in 1..Cardinality(S)
    BY <1>1, <2>1, <2>2, <2>3
  <2> DEFINE j == InOrder(S)[Cardinality(Below(S, i)) + 1]
  <2>5. j \in S /\ Cardinality(Below(S, j)) = Cardinality(Below(S, i))
    <3> DEFINE m == Cardinality(Below(S, i)) + 1
    <3>1. m \in 1..Cardinality(S)
      BY <2>4
    <3>2. j = InOrder(S)[m]
      OBVIOUS
    <3>3. m - 1 = Cardinality(Below(S, i))
      BY <2>1
    <3> HIDE DEF m, j
    <3>4. InOrder(S)[m] \in S /\ Cardinality(Below(S, InOrder(S)[m])) = m - 1
      BY <1>2, <3>1
    <3> QED
      BY <3>2, <3>3, <3>4
  <2> HIDE DEF j
  <2>6. i \in Nat /\ j \in Nat
    BY <2>5
  <2>7. i = j
    BY <2>1, <2>5, <2>6, BelowGrows
  <2> QED
    BY <2>4, <2>7 DEF j
<1> QED
  BY <1>1, <1>2, <1>3

\* What InOrder lists ascends.
LEMMA InOrderAscends ==
  ASSUME NEW S \in SUBSET Nat, IsFiniteSet(S),
         NEW k \in 1..Cardinality(S), NEW m \in 1..Cardinality(S), k < m
  PROVE  InOrder(S)[k] < InOrder(S)[m]
<1> DEFINE i == InOrder(S)[k]
           j == InOrder(S)[m]
<1>1. i \in S /\ j \in S /\ Cardinality(Below(S, i)) = k - 1 /\ Cardinality(Below(S, j)) = m - 1
  BY InOrderPlace
<1> HIDE DEF i, j
<1>2. i \in Nat /\ j \in Nat /\ i # j
  BY <1>1
<1>3. ~(j < i)
  <2>1. SUFFICES ASSUME j < i PROVE FALSE
    OBVIOUS
  <2>2. Cardinality(Below(S, j)) < Cardinality(Below(S, i))
    BY <1>1, <2>1, BelowGrows
  <2> QED
    BY <1>1, <2>2
<1> QED
  BY <1>2, <1>3 DEF i, j

\* InOrder lists as many as there are.
LEMMA InOrderType ==
  ASSUME NEW S \in SUBSET Nat, IsFiniteSet(S)
  PROVE  /\ InOrder(S) \in Seq(S) /\ InOrder(S) \in Seq(Nat)
         /\ Len(InOrder(S)) = Cardinality(S)
<1>1. /\ InOrder(S) \in [1..Cardinality(S) -> S] /\ InOrder(S) \in [1..Cardinality(S) -> Nat]
      /\ Cardinality(S) \in Nat
  <2>1. Cardinality(S) \in Nat /\ \A k \in 1..Cardinality(S) : InOrder(S)[k] \in S
    BY InOrderPlace
  <2> QED
    BY <2>1 DEF InOrder
<1> QED
  BY <1>1

\* One more number, larger than all the others, comes last.
LEMMA InOrderGrows ==
  ASSUME NEW S \in SUBSET Nat, IsFiniteSet(S), NEW n \in Nat, \A i \in S : i < n
  PROVE  InOrder(S \cup {n}) = Append(InOrder(S), n)
<1> DEFINE R == S \cup {n}
           c == Cardinality(S)
<1>1. R \in SUBSET Nat /\ IsFiniteSet(R) /\ n \notin S /\ c \in Nat
  BY FS_AddElement, FS_CardinalityType
<1>2. Cardinality(R) = c + 1
  BY <1>1, FS_AddElement
<1>3. InOrder(S) \in Seq(S) /\ Len(InOrder(S)) = c
  BY InOrderType
<1>4. InOrder(R) \in Seq(R) /\ Len(InOrder(R)) = c + 1
  BY <1>1, <1>2, InOrderType
<1>5. ASSUME NEW k \in 1..c PROVE InOrder(R)[k] = InOrder(S)[k]
  <2> DEFINE i == InOrder(S)[k]
  <2>1. i \in S /\ Cardinality(Below(S, i)) = k - 1
    BY InOrderPlace
  <2> HIDE DEF i
  <2>2. Below(R, i) = Below(S, i) /\ i \in R
    BY <2>1 DEF Below
  <2> HIDE DEF R
  <2>3. InOrder(R)[Cardinality(Below(R, i)) + 1] = i
    BY <1>1, <2>2, InOrderPlace
  <2>4. Cardinality(Below(R, i)) + 1 = k
    BY <1>1, <2>1, <2>2
  <2> QED
    BY <2>3, <2>4 DEF i
<1>6. InOrder(R)[c + 1] = n
  <2>1. Below(R, n) = S /\ n \in R
    <3>1. \A x \in S : x < n
      OBVIOUS
    <3>2. ~(n < n)
      OBVIOUS
    <3> QED
      BY <3>1, <3>2 DEF Below
  <2> HIDE DEF R
  <2>2. InOrder(R)[Cardinality(Below(R, n)) + 1] = n
    BY <1>1, <2>1, InOrderPlace
  <2> QED
    BY <2>1, <2>2
<1> HIDE DEF R, c
<1>7. Append(InOrder(S), n) \in Seq(Nat) /\ InOrder(R) \in Seq(Nat)
  <2>2. InOrder(S) \in Seq(Nat) /\ InOrder(R) \in Seq(Nat)
    BY <1>1, InOrderType
  <2> QED
    BY <2>2
<1>8. \A k \in 1..(c + 1) : InOrder(R)[k] = Append(InOrder(S), n)[k]
  BY <1>1, <1>3, <1>5, <1>6
<1>9. Len(Append(InOrder(S), n)) = c + 1
  BY <1>3
<1> DEFINE a == InOrder(R)
           b == Append(InOrder(S), n)
<1>10. /\ a \in Seq(Nat) /\ b \in Seq(Nat) /\ Len(a) = c + 1 /\ Len(b) = c + 1
       /\ \A k \in 1..(c + 1) : a[k] = b[k]
  BY <1>4, <1>7, <1>8, <1>9
<1> HIDE DEF a, b
<1>11. a = b
  BY <1>10
<1> QED
  BY <1>11 DEF R, a, b

\* Of an interval, every number is at its own place.
LEMMA InOrderOfAll ==
  ASSUME NEW n \in Nat
  PROVE  InOrder(1..n) = [i \in 1..n |-> i]
<1>1. 1..n \in SUBSET Nat /\ IsFiniteSet(1..n) /\ Cardinality(1..n) = n
  <2>1. 1 \in Int /\ n \in Int
    OBVIOUS
  <2>2. IsFiniteSet(1..n) /\ Cardinality(1..n) = IF 1 > n THEN 0 ELSE n - 1 + 1
    BY <2>1, FS_Interval
  <2> QED
    BY <2>2
<1>2. ASSUME NEW i \in 1..n PROVE InOrder(1..n)[i] = i
  <2>1. Below(1..n, i) = 1..(i - 1)
    BY DEF Below
  <2>2. Cardinality(1..(i - 1)) = i - 1
    <3>1. 1 \in Int /\ i - 1 \in Int
      OBVIOUS
    <3>2. Cardinality(1..(i - 1)) = IF 1 > i - 1 THEN 0 ELSE i - 1 - 1 + 1
      BY <3>1, FS_Interval
    <3> QED
      BY <3>2
  <2>3. InOrder(1..n)[Cardinality(Below(1..n, i)) + 1] = i
    BY <1>1, InOrderPlace
  <2> QED
    BY <2>1, <2>2, <2>3
<1>3. InOrder(1..n) \in Seq(1..n) /\ Len(InOrder(1..n)) = n
  BY <1>1, InOrderType
<1> DEFINE a == InOrder(1..n)
<1>4. a \in Seq(1..n) /\ Len(a) = n /\ \A i \in 1..n : a[i] = i
  BY <1>2, <1>3
<1> HIDE DEF a
<1>5. a = [i \in 1..n |-> i]
  BY <1>4
<1> QED
  BY <1>5 DEF a
=============================================================================
