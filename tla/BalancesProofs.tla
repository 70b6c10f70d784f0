----------------------------- MODULE BalancesProofs --------------------------
(* What Balances computes, for every ledger: the cents that are handed out   *)
(* add up, nobody is more than a cent off, what one pays for another moves   *)
(* the two of them alone, and the settlements suggested bring everybody what *)
(* they are due and stay what they are when one of them is paid. The theorems*)
(* of the library that take an operator cannot be instantiated, so induction *)
(* goes over sets: RankInduction, and RecursionHasSolution for what a        *)
(* recursion defines.                                                        *)
EXTENDS Balances, FiniteSetTheorems, WellFoundedInduction, TLAPS

-----------------------------------------------------------------------------
(* Induction on a rank, and what a recursion that falls in rank defines:     *)
(* sums over finite sets, told by their terms.                               *)

(* A set of natural numbers that is not empty has a least element.           *)
LEMMA Least ==
    ASSUME NEW T \in SUBSET Nat, T # {}
    PROVE  \E n \in T : \A k \in T : n <= k
<1> DEFINE R == OpToRel(<, Nat)
<1>1. IsWellFoundedOn(R, Nat)
  BY NatLessThanWellFounded
<1>2. \A x, y \in Nat : x < y => <<x, y>> \in R
  BY DEF OpToRel
<1> HIDE DEF R
<1>3. PICK x \in T : \A y \in T : ~(<<y, x>> \in R)
  BY <1>1, WFMin
<1>4. ASSUME NEW k \in T PROVE x <= k
  <2>1. ~(k < x)
    BY <1>2, <1>3
  <2> QED
    BY <2>1
<1> QED
  BY <1>4

(* Induction on a rank: T is all of D.                                       *)
LEMMA RankInduction ==
    ASSUME NEW D, NEW rank \in [D -> Nat], NEW T,
           \A x \in D : (\A y \in D : rank[y] < rank[x] => y \in T) => x \in T
    PROVE  \A x \in D : x \in T
<1> SUFFICES ASSUME NEW z \in D, z \notin T PROVE FALSE
  OBVIOUS
<1> DEFINE B == {n \in Nat : \E x \in D : x \notin T /\ rank[x] = n}
<1>1. PICK n \in B : \A k \in B : n <= k
  <2>1. rank[z] \in B
    OBVIOUS
  <2> QED
    BY <2>1, Least
<1>2. PICK x \in D : x \notin T /\ rank[x] = n
  OBVIOUS
<1>3. PICK y \in D : rank[y] < rank[x] /\ y \notin T
  BY <1>2
<1>4. rank[y] \in B
  BY <1>3
<1>5. n <= rank[y] /\ rank[y] \in Nat /\ rank[x] \in Nat
  BY <1>1, <1>4
<1> QED
  BY <1>2, <1>3, <1>5

(* f solves the recursion that starts where base holds and goes on at next.  *)
Recursion(f, D, base, start, next, op) ==
    \A x \in D : f[x] = IF base[x] THEN start[x] ELSE op[<<x, f[next[x]]>>]

(* A recursion that calls itself once, on an argument of smaller rank, has a *)
(* solution.                                                                 *)
LEMMA RecursionHasSolution ==
    ASSUME NEW D, NEW R, NEW rank \in [D -> Nat],
           NEW base \in [D -> BOOLEAN], NEW start \in [D -> R],
           NEW next \in [D -> D], NEW op \in [D \X R -> R],
           \A x \in D : ~base[x] => rank[next[x]] < rank[x]
    PROVE  \E f \in [D -> R] : Recursion(f, D, base, start, next, op)
<1> USE DEF Recursion
<1> DEFINE Upto(n) == {x \in D : rank[x] < n}
           Solves(f, n) == \A x \in Upto(n) :
                              f[x] = IF base[x] THEN start[x] ELSE op[<<x, f[next[x]]>>]
           Solved(n) == \E f \in [D -> R] : Solves(f, n)
           N == {n \in Nat : Solved(n)}
           id == [n \in Nat |-> n]
<1>1. CASE D = {}
  <2>1. start \in [D -> R]
    OBVIOUS
  <2> QED BY <1>1, <2>1
<1>2. CASE D # {}
  <2>1. 0 \in N
    <3>1. Solves(start, 0)
      OBVIOUS
    <3> QED BY <3>1
  <2>2. ASSUME NEW n \in N PROVE n + 1 \in N
    <3>1. PICK f \in [D -> R] : Solves(f, n)
      OBVIOUS
    <3> DEFINE g == [x \in D |-> IF base[x] THEN start[x] ELSE op[<<x, f[next[x]]>>]]
    <3>2. g \in [D -> R]
      OBVIOUS
    <3>3. \A x \in Upto(n) : g[x] = f[x]
      BY <3>1
    <3>4. ASSUME NEW x \in Upto(n + 1) PROVE g[x] = IF base[x] THEN start[x] ELSE op[<<x, g[next[x]]>>]
      <4>1. CASE base[x]
        BY <4>1
      <4>2. CASE ~base[x]
        <5>1. next[x] \in Upto(n)
          BY <4>2
        <5>2. g[next[x]] = f[next[x]]
          BY <5>1, <3>3
        <5> QED BY <4>2, <5>2
      <4> QED BY <4>1, <4>2
    <3>5. Solves(g, n + 1)
      BY <3>4
    <3>6. Solved(n + 1)
      <4> HIDE DEF Solves, g
      <4> QED BY <3>2, <3>5
    <3> HIDE DEF Solved
    <3> QED BY <3>6
  <2>3. \A n \in Nat : n \in N
    <3> HIDE DEF N
    <3>1. id \in [Nat -> Nat]
      OBVIOUS
    <3>2. ASSUME NEW n \in Nat, \A k \in Nat : id[k] < id[n] => k \in N
          PROVE  n \in N
      <4>1. CASE n = 0
        BY <2>1, <4>1
      <4>2. CASE n # 0
        <5>1. n - 1 \in Nat /\ id[n - 1] < id[n]
          BY <4>2
        <5>2. n - 1 \in N
          BY <5>1, <3>2
        <5>3. n - 1 + 1 \in N
          BY <5>2, <2>2
        <5> QED BY <5>3
      <4> QED BY <4>1, <4>2
    <3> HIDE DEF id
    <3> QED BY <3>1, <3>2, RankInduction
  \* Solutions agree where both are.
  <2>4. \A n, m \in Nat : \A f, g \in [D -> R] : Solves(f, n) /\ Solves(g, m) =>
           \A y \in Upto(n) \cap Upto(m) : f[y] = g[y]
    <3> SUFFICES ASSUME NEW n \in Nat, NEW m \in Nat, NEW f \in [D -> R], NEW g \in [D -> R],
                        Solves(f, n), Solves(g, m)
                 PROVE  \A y \in Upto(n) \cap Upto(m) : f[y] = g[y]
      <4> HIDE DEF Solves, Upto
      <4> QED BY SMTT(60)
    <3> DEFINE A == {x \in D : x \in Upto(n) \cap Upto(m) => f[x] = g[x]}
    <3>1. ASSUME NEW x \in D, \A y \in D : rank[y] < rank[x] => y \in A PROVE x \in A
      <4> SUFFICES ASSUME x \in Upto(n) \cap Upto(m) PROVE f[x] = g[x]
        OBVIOUS
      <4>1. CASE base[x]
        BY <4>1
      <4>2. CASE ~base[x]
        <5>1. next[x] \in A /\ next[x] \in Upto(n) \cap Upto(m)
          BY <3>1, <4>2
        <5>2. f[next[x]] = g[next[x]]
          BY <5>1
        <5> QED BY <4>2, <5>2
      <4> QED BY <4>1, <4>2
    <3>2. \A x \in D : x \in A
      <4> HIDE DEF A
      <4> QED BY <3>1, RankInduction
    <3> QED BY <3>2
  <2> DEFINE at(n) == CHOOSE f \in [D -> R] : Solves(f, n)
             F == [x \in D |-> at(rank[x] + 1)[x]]
  <2>5. ASSUME NEW n \in Nat PROVE at(n) \in [D -> R] /\ Solves(at(n), n)
    <3>1. \E f \in [D -> R] : Solves(f, n)
      BY <2>3
    <3> HIDE DEF Solves
    <3> QED BY <3>1
  <2> HIDE DEF at
  <2>6. F \in [D -> R]
    BY <2>5
  <2>7. ASSUME NEW x \in D PROVE F[x] = IF base[x] THEN start[x] ELSE op[<<x, F[next[x]]>>]
    <3> DEFINE n == rank[x] + 1
               m == rank[next[x]] + 1
    <3>1. n \in Nat /\ m \in Nat /\ x \in Upto(n) /\ next[x] \in Upto(m)
      OBVIOUS
    <3>2. F[x] = IF base[x] THEN start[x] ELSE op[<<x, at(n)[next[x]]>>]
      BY <2>5, <3>1
    <3>3. CASE base[x]
      BY <3>2, <3>3
    <3>4. CASE ~base[x]
      <4>1. next[x] \in Upto(n)
        BY <3>1, <3>4
      <4>2. at(n)[next[x]] = at(m)[next[x]]
        <5>1. next[x] \in Upto(n) \cap Upto(m)
          BY <4>1, <3>1
        <5>2. n \in Nat /\ m \in Nat
          BY <3>1
        <5> HIDE DEF n, m
        <5>3. /\ at(n) \in [D -> R] /\ Solves(at(n), n)
              /\ at(m) \in [D -> R] /\ Solves(at(m), m)
          BY <5>2, <2>5
        <5>5. \A y \in Upto(n) \cap Upto(m) : at(n)[y] = at(m)[y]
          BY <5>2, <5>3, <2>4
        <5> QED BY <5>1, <5>5
      <4>3. F[next[x]] = at(m)[next[x]]
        OBVIOUS
      <4> QED BY <3>2, <3>4, <4>2, <4>3
    <3> QED BY <3>3, <3>4
  <2> QED BY <2>6, <2>7
<1> QED BY <1>1, <1>2

-----------------------------------------------------------------------------
(* The element a fold over s begins with.                                    *)
Some(s) == CHOOSE x \in s : TRUE

(* It is one of them.                                                        *)
LEMMA SomeIn ==
    ASSUME NEW s, s # {}
    PROVE  Some(s) \in s
BY DEF Some

(* The size of a part is a rank of it: it falls by one with each element     *)
(* taken away.                                                               *)
LEMMA SizesAreRanks ==
    ASSUME NEW S, IsFiniteSet(S)
    PROVE  /\ [s \in SUBSET S |-> Cardinality(s)] \in [SUBSET S -> Nat]
           /\ \A s \in SUBSET S : IsFiniteSet(s) /\ Cardinality(s) \in Nat
           /\ \A s \in SUBSET S : \A x \in s : Cardinality(s \ {x}) < Cardinality(s)
           /\ \A s \in SUBSET S : \A x \in s : Cardinality(s \ {x}) = Cardinality(s) - 1
<1>1. \A s \in SUBSET S : IsFiniteSet(s) /\ Cardinality(s) \in Nat
  BY FS_Subset, FS_CardinalityType
<1>2. ASSUME NEW s \in SUBSET S, NEW x \in s
      PROVE  Cardinality(s \ {x}) = Cardinality(s) - 1
  BY <1>1, FS_RemoveElement
<1> QED BY <1>1, <1>2

(* What holds of a subset whenever it holds of the smaller ones holds of     *)
(* all.                                                                      *)
LEMMA SubsetInduction ==
    ASSUME NEW S, IsFiniteSet(S), NEW T,
           \A s \in SUBSET S : (\A x \in s : s \ {x} \in T) => s \in T
    PROVE  \A s \in SUBSET S : s \in T
<1> DEFINE rank == [s \in SUBSET S |-> Cardinality(s)]
<1>1. rank \in [SUBSET S -> Nat]
  BY SizesAreRanks
<1>2. ASSUME NEW s \in SUBSET S, \A t \in SUBSET S : rank[t] < rank[s] => t \in T PROVE s \in T
  <2>1. ASSUME NEW x \in s PROVE s \ {x} \in T
    <3>1. Cardinality(s \ {x}) < Cardinality(s)
      BY SizesAreRanks
    <3> QED BY <1>2, <3>1
  <2> QED BY <2>1
<1> HIDE DEF rank
<1> QED BY <1>1, <1>2, RankInduction

(* g solves the recursion of a fold over the parts of S.                     *)
Folding(g, S, b, o) ==
    \A s \in SUBSET S : g[s] = IF s = {} THEN b ELSE o[<<Some(s), g[s \ {Some(s)}]>>]

(* A fold over the parts of a finite set has a solution.                     *)
LEMMA FoldHasSolution ==
    ASSUME NEW S, IsFiniteSet(S), NEW R, NEW b \in R, NEW o \in [S \X R -> R]
    PROVE  \E g \in [SUBSET S -> R] : Folding(g, S, b, o)
<1> DEFINE D == SUBSET S
           rank == [s \in D |-> Cardinality(s)]
           base == [s \in D |-> s = {}]
           start == [s \in D |-> b]
           next == [s \in D |-> s \ {Some(s)}]
           op == [z \in D \X R |-> IF z[1] = {} THEN b ELSE o[<<Some(z[1]), z[2]>>]]
<1>1. rank \in [D -> Nat] /\ base \in [D -> BOOLEAN] /\ start \in [D -> R] /\ next \in [D -> D]
  BY SizesAreRanks
<1>2. op \in [D \X R -> R]
  BY SomeIn
<1>3. \A x \in D : ~base[x] => rank[next[x]] < rank[x]
  BY SomeIn, SizesAreRanks
<1>4. \A x \in D, r \in R : ~base[x] => op[<<x, r>>] = o[<<Some(x), r>>]
  OBVIOUS
<1>5. \A x \in D : (base[x] <=> x = {}) /\ start[x] = b /\ next[x] = x \ {Some(x)}
  OBVIOUS
<1> HIDE DEF D, rank, base, start, next, op
<1>6. PICK g \in [D -> R] : Recursion(g, D, base, start, next, op)
  BY <1>1, <1>2, <1>3, RecursionHasSolution
<1>7. ASSUME NEW s \in D PROVE g[s] = IF s = {} THEN b ELSE o[<<Some(s), g[s \ {Some(s)}]>>]
  <2>1. CASE s = {}
    BY <2>1, <1>5, <1>6 DEF Recursion
  <2>2. CASE s # {}
    <3>1. ~base[s] /\ next[s] \in D /\ g[next[s]] \in R
      BY <2>2, <1>1, <1>5
    <3>2. g[s] = op[<<s, g[next[s]]>>]
      BY <3>1, <1>6 DEF Recursion
    <3>3. op[<<s, g[next[s]]>>] = o[<<Some(s), g[next[s]]>>]
      BY <3>1, <1>4
    <3> QED BY <2>2, <3>2, <3>3, <1>5
  <2> QED BY <2>1, <2>2
<1> QED BY <1>7 DEF D, Folding

-----------------------------------------------------------------------------
(* g solves the recursion of SumFunctionOnSet.                               *)
SumsUp(g, f, S) ==
    g = [s \in SUBSET S |-> IF s = {} THEN 0 ELSE f[Some(s)] + g[s \ {Some(s)}]]

(* So has a sum.                                                             *)
LEMMA SumSolution ==
    ASSUME NEW S, IsFiniteSet(S), NEW f, \A x \in S : f[x] \in Int
    PROVE  \E g : SumsUp(g, f, S) /\ g \in [SUBSET S -> Int]
<1> DEFINE o == [z \in S \X Int |-> f[z[1]] + z[2]]
<1>1. o \in [S \X Int -> Int]
  OBVIOUS
<1>2. PICK g \in [SUBSET S -> Int] : Folding(g, S, 0, o)
  <2>1. 0 \in Int
    OBVIOUS
  <2> HIDE DEF o
  <2> QED BY <1>1, <2>1, FoldHasSolution
<1>3. ASSUME NEW s \in SUBSET S, s # {} PROVE o[<<Some(s), g[s \ {Some(s)}]>>] = f[Some(s)] + g[s \ {Some(s)}]
  BY SomeIn, <1>3 DEF o
<1>4. SumsUp(g, f, S)
  BY <1>2, <1>3 DEF SumsUp, Folding
<1> QED BY <1>4

(* SumFunctionOnSet is the value of its recursion at the whole set.          *)
LEMMA SumIs ==
    ASSUME NEW S, NEW f
    PROVE  SumFunctionOnSet(f, S) = (CHOOSE g : SumsUp(g, f, S))[S]
BY DEF SumFunctionOnSet, FoldFunctionOnSet, MapThenFoldSet, SumsUp, Some

(* Two sums over different sets agree on what they have in common.           *)
LEMMA SumsAgree ==
    ASSUME NEW S, IsFiniteSet(S), NEW T \in SUBSET S, NEW f, NEW g, NEW h,
           SumsUp(g, f, S), SumsUp(h, f, T)
    PROVE  \A s \in SUBSET T : g[s] = h[s]
<1> DEFINE A == {s \in SUBSET T : g[s] = h[s]}
<1>1. ASSUME NEW s \in SUBSET T, \A x \in s : s \ {x} \in A PROVE s \in A
  <2>1. g[s] = IF s = {} THEN 0 ELSE f[Some(s)] + g[s \ {Some(s)}]
    BY DEF SumsUp
  <2>2. h[s] = IF s = {} THEN 0 ELSE f[Some(s)] + h[s \ {Some(s)}]
    BY DEF SumsUp
  <2>3. s # {} => g[s \ {Some(s)}] = h[s \ {Some(s)}]
    BY <1>1, SomeIn
  <2> QED BY <2>1, <2>2, <2>3
<1>2. IsFiniteSet(T)
  BY FS_Subset
<1>3. \A s \in SUBSET T : s \in A
  <2> HIDE DEF A
  <2> QED BY <1>1, <1>2, SubsetInduction
<1> QED BY <1>3

(* A sum is whole, and is what it comes to without one of its terms, and     *)
(* that term.                                                                *)
LEMMA SumUnfolds ==
    ASSUME NEW S, IsFiniteSet(S), NEW f, \A x \in S : f[x] \in Int
    PROVE  /\ SumFunctionOnSet(f, S) \in Int
           /\ S = {} => SumFunctionOnSet(f, S) = 0
           /\ S # {} => SumFunctionOnSet(f, S) = f[Some(S)] + SumFunctionOnSet(f, S \ {Some(S)})
<1> DEFINE T == S \ {Some(S)}
           g == CHOOSE h : SumsUp(h, f, S)
           k == CHOOSE h : SumsUp(h, f, T)
<1>1. T \in SUBSET S /\ IsFiniteSet(T)
  BY FS_Subset
<1>2. (\E h : SumsUp(h, f, S)) /\ (\E h : SumsUp(h, f, T))
  BY <1>1, SumSolution
<1>3. SumsUp(g, f, S) /\ SumsUp(k, f, T)
  BY <1>2
<1>4. SumFunctionOnSet(f, S) = g[S] /\ SumFunctionOnSet(f, T) = k[T]
  BY SumIs
<1> HIDE DEF g, k
<1>5. g[S] = IF S = {} THEN 0 ELSE f[Some(S)] + g[T]
  BY <1>3 DEF SumsUp
<1>6. g[T] = k[T]
  BY <1>1, <1>3, SumsAgree
<1>7. PICK h : SumsUp(h, f, S) /\ h \in [SUBSET S -> Int]
  BY SumSolution
<1>8. g[S] = h[S]
  BY <1>3, <1>7, SumsAgree
<1> QED BY <1>4, <1>5, <1>6, <1>7, <1>8

(* It does not matter which element a sum begins with.                       *)
LEMMA SumRemoves ==
    ASSUME NEW S, IsFiniteSet(S), NEW f, \A x \in S : f[x] \in Int, NEW z \in S
    PROVE  SumFunctionOnSet(f, S) = f[z] + SumFunctionOnSet(f, S \ {z})
<1> DEFINE Sum(s) == SumFunctionOnSet(f, s)
           A == {s \in SUBSET S : \A x \in s : Sum(s) = f[x] + Sum(s \ {x})}
<1>0. \A s \in SUBSET S : IsFiniteSet(s) /\ \A x \in s : f[x] \in Int
  BY FS_Subset
<1>1. \A s \in SUBSET S : /\ Sum(s) \in Int
                          /\ s # {} => Sum(s) = f[Some(s)] + Sum(s \ {Some(s)})
  BY <1>0, SumUnfolds
<1> HIDE DEF Sum
<1>2. ASSUME NEW s \in SUBSET S, \A x \in s : s \ {x} \in A PROVE s \in A
  <2> SUFFICES ASSUME NEW x \in s PROVE Sum(s) = f[x] + Sum(s \ {x})
    OBVIOUS
  <2> DEFINE c == Some(s)
  <2>1. c \in s /\ Sum(s) = f[c] + Sum(s \ {c})
    BY <1>1, SomeIn
  <2> HIDE DEF c
  <2>2. CASE c = x
    BY <2>1, <2>2
  <2>3. CASE c # x
    <3>1. Sum(s \ {c}) = f[x] + Sum((s \ {c}) \ {x})
      BY <1>2, <2>1, <2>3
    <3>2. Sum(s \ {x}) = f[c] + Sum((s \ {x}) \ {c})
      BY <1>2, <2>1, <2>3
    <3>3. (s \ {c}) \ {x} = (s \ {x}) \ {c}
      OBVIOUS
    <3>4. f[c] \in Int /\ f[x] \in Int /\ Sum((s \ {x}) \ {c}) \in Int
      BY <1>0, <1>1, <2>1
    <3>5. \A p, q, r \in Int : p + (q + r) = q + (p + r)
      OBVIOUS
    <3>6. Sum(s) = f[c] + (f[x] + Sum((s \ {x}) \ {c}))
      BY <2>1, <3>1, <3>3
    <3> QED BY <3>2, <3>4, <3>5, <3>6
  <2> QED BY <2>2, <2>3
<1>3. \A s \in SUBSET S : s \in A
  <2> HIDE DEF A
  <2> QED BY <1>2, SubsetInduction
<1>4. S \in A
  BY <1>3
<1> QED BY <1>4 DEF Sum

(* The terms of a sum are whole numbers; a sum of any part goes term by      *)
(* term.                                                                     *)
Integral(f, S) == \A x \in S : f[x] \in Int
Stepwise(f, S) ==
    \A s \in SUBSET S :
       /\ SumFunctionOnSet(f, s) \in Int
       /\ s = {} => SumFunctionOnSet(f, s) = 0
       /\ \A x \in s : SumFunctionOnSet(f, s) = f[x] + SumFunctionOnSet(f, s \ {x})

(* The same of every part of the set, whichever term is left out.            *)
LEMMA SumSteps ==
    ASSUME NEW S, IsFiniteSet(S), NEW f, Integral(f, S)
    PROVE  Stepwise(f, S)
<1> USE DEF Integral
<1> SUFFICES ASSUME NEW s \in SUBSET S
             PROVE  /\ SumFunctionOnSet(f, s) \in Int
                    /\ s = {} => SumFunctionOnSet(f, s) = 0
                    /\ \A x \in s : SumFunctionOnSet(f, s) = f[x] + SumFunctionOnSet(f, s \ {x})
  BY DEF Stepwise
<1>1. IsFiniteSet(s) /\ \A x \in s : f[x] \in Int
  BY FS_Subset
<1> QED BY <1>1, SumUnfolds, SumRemoves

(* h is k times f and g, term by term.                                       *)
Linear(h, k, f, g, S) ==
    \A x \in S : f[x] \in Int /\ g[x] \in Int /\ h[x] = k * f[x] + g[x]

(* Sums of sums and of multiples.                                            *)
LEMMA SumLinear ==
    ASSUME NEW S, IsFiniteSet(S), NEW k \in Int, NEW f, NEW g, NEW h, Linear(h, k, f, g, S)
    PROVE  SumFunctionOnSet(h, S) = k * SumFunctionOnSet(f, S) + SumFunctionOnSet(g, S)
<1> DEFINE F(s) == SumFunctionOnSet(f, s)
           G(s) == SumFunctionOnSet(g, s)
           H(s) == SumFunctionOnSet(h, s)
           A == {s \in SUBSET S : H(s) = k * F(s) + G(s)}
<1> USE DEF Linear
<1>0. \A x \in S : h[x] \in Int
  OBVIOUS
<1>1. \A s \in SUBSET S : /\ F(s) \in Int
                          /\ s = {} => F(s) = 0
                          /\ \A x \in s : F(s) = f[x] + F(s \ {x})
  <2>1. Integral(f, S)
    BY DEF Integral
  <2>2. Stepwise(f, S)
    BY <2>1, SumSteps
  <2> QED BY <2>2 DEF Stepwise
<1>2. \A s \in SUBSET S : /\ G(s) \in Int
                          /\ s = {} => G(s) = 0
                          /\ \A x \in s : G(s) = g[x] + G(s \ {x})
  <2>1. Integral(g, S)
    BY DEF Integral
  <2>2. Stepwise(g, S)
    BY <2>1, SumSteps
  <2> QED BY <2>2 DEF Stepwise
<1>3. \A s \in SUBSET S : /\ H(s) \in Int
                          /\ s = {} => H(s) = 0
                          /\ \A x \in s : H(s) = h[x] + H(s \ {x})
  <2>1. Integral(h, S)
    BY <1>0 DEF Integral
  <2> QED BY <2>1, SumSteps DEF Stepwise
<1> HIDE DEF F, G, H
<1>4. ASSUME NEW s \in SUBSET S, \A x \in s : s \ {x} \in A PROVE s \in A
  <2>1. CASE s = {}
    BY <1>1, <1>2, <1>3, <2>1
  <2>2. CASE s # {}
    <3>1. PICK x \in s : TRUE
      BY <2>2
    <3> DEFINE t == s \ {x}
    <3>2. t \in SUBSET S /\ H(t) = k * F(t) + G(t)
      BY <1>4, <3>1
    <3>3. F(s) = f[x] + F(t) /\ G(s) = g[x] + G(t) /\ H(s) = h[x] + H(t)
      BY <1>1, <1>2, <1>3, <3>1
    <3>4. F(t) \in Int /\ G(t) \in Int /\ f[x] \in Int /\ g[x] \in Int /\ h[x] = k * f[x] + g[x]
      BY <1>1, <1>2, <3>2
    <3> HIDE DEF t
    <3>5. \A a, b, c, d \in Int : (k * a + b) + (k * c + d) = k * (a + c) + (b + d)
      OBVIOUS
    <3>6. H(s) = (k * f[x] + g[x]) + (k * F(t) + G(t))
      BY <3>2, <3>3, <3>4
    <3>7. H(s) = k * (f[x] + F(t)) + (g[x] + G(t))
      BY <3>4, <3>5, <3>6
    <3> QED BY <3>3, <3>7
  <2> QED BY <2>1, <2>2
<1>5. \A s \in SUBSET S : s \in A
  <2> HIDE DEF A
  <2> QED BY <1>4, SubsetInduction
<1>6. S \in A
  BY <1>5
<1> QED BY <1>6 DEF F, G, H

(* A sum of nothing but zeros.                                               *)
LEMMA SumOfZeros ==
    ASSUME NEW S, IsFiniteSet(S), NEW f, \A x \in S : f[x] = 0
    PROVE  SumFunctionOnSet(f, S) = 0
<1>1. \A x \in S : f[x] \in Int /\ f[x] \in Int /\ f[x] = 1 * f[x] + f[x]
  OBVIOUS
<1>2. SumFunctionOnSet(f, S) = 1 * SumFunctionOnSet(f, S) + SumFunctionOnSet(f, S)
  BY <1>1, SumLinear DEF Linear
<1>3. Integral(f, S)
  BY DEF Integral
<1>4. SumFunctionOnSet(f, S) \in Int
  <2>1. Stepwise(f, S) /\ S \in SUBSET S
    BY <1>3, SumSteps
  <2> QED BY <2>1 DEF Stepwise
<1> DEFINE sum == SumFunctionOnSet(f, S)
<1> HIDE DEF sum
<1>5. sum = 1 * sum + sum /\ sum \in Int => sum = 0
  OBVIOUS
<1> QED BY <1>2, <1>4, <1>5 DEF sum

(* Sums of the same terms.                                                   *)
LEMMA SumEqual ==
    ASSUME NEW S, IsFiniteSet(S), NEW f, NEW g, \A x \in S : f[x] \in Int /\ f[x] = g[x]
    PROVE  SumFunctionOnSet(f, S) = SumFunctionOnSet(g, S)
<1> DEFINE z == [x \in S |-> 0]
<1>1. \A x \in S : g[x] \in Int /\ z[x] \in Int /\ f[x] = 1 * g[x] + z[x]
  OBVIOUS
<1>2. SumFunctionOnSet(z, S) = 0
  BY SumOfZeros
<1> HIDE DEF z
<1>3. SumFunctionOnSet(f, S) = 1 * SumFunctionOnSet(g, S) + SumFunctionOnSet(z, S)
  BY <1>1, SumLinear DEF Linear
<1>4. SumFunctionOnSet(g, S) \in Int
  BY SumSteps DEF Integral, Stepwise
<1> QED BY <1>2, <1>3, <1>4

(* A sum of natural numbers.                                                 *)
LEMMA SumNotNegative ==
    ASSUME NEW S, IsFiniteSet(S), NEW f, \A x \in S : f[x] \in Nat
    PROVE  SumFunctionOnSet(f, S) \in Nat
<1> DEFINE F(s) == SumFunctionOnSet(f, s)
           A == {s \in SUBSET S : F(s) \in Nat}
<1>1. \A s \in SUBSET S : /\ F(s) \in Int
                          /\ s = {} => F(s) = 0
                          /\ \A x \in s : F(s) = f[x] + F(s \ {x})
  BY SumSteps DEF Integral, Stepwise
<1> HIDE DEF F
<1>4. ASSUME NEW s \in SUBSET S, \A x \in s : s \ {x} \in A PROVE s \in A
  <2>1. CASE s = {}
    BY <1>1, <2>1
  <2>2. CASE s # {}
    <3>1. PICK x \in s : TRUE
      BY <2>2
    <3>2. F(s) = f[x] + F(s \ {x}) /\ F(s \ {x}) \in Nat /\ f[x] \in Nat
      BY <1>1, <1>4, <3>1
    <3> QED BY <3>2
  <2> QED BY <2>1, <2>2
<1>5. \A s \in SUBSET S : s \in A
  <2> HIDE DEF A
  <2> QED BY <1>4, SubsetInduction
<1>6. S \in A
  BY <1>5
<1> QED BY <1>6 DEF F

(* Counting: ones for the members of a part.                                 *)
LEMMA SumCounts ==
    ASSUME NEW S, IsFiniteSet(S), NEW X \in SUBSET S, NEW f,
           \A x \in S : f[x] = IF x \in X THEN 1 ELSE 0
    PROVE  SumFunctionOnSet(f, S) = Cardinality(X)
<1> DEFINE F(s) == SumFunctionOnSet(f, s)
           C(s) == Cardinality(X \cap s)
           A == {s \in SUBSET S : F(s) = C(s)}
<1>1. \A s \in SUBSET S : /\ F(s) \in Int
                          /\ s = {} => F(s) = 0
                          /\ \A x \in s : F(s) = f[x] + F(s \ {x})
  BY SumSteps DEF Integral, Stepwise
<1>2. C({}) = 0
  BY FS_EmptySet
<1>3. ASSUME NEW s \in SUBSET S, NEW x \in s PROVE C(s) = f[x] + C(s \ {x})
  <2>1. IsFiniteSet(X \cap s) /\ Cardinality(X \cap s) \in Nat
    BY FS_Subset, FS_CardinalityType
  <2>2. X \cap (s \ {x}) = (X \cap s) \ {x}
    OBVIOUS
  <2>3. Cardinality((X \cap s) \ {x}) =
           IF x \in X \cap s THEN Cardinality(X \cap s) - 1 ELSE Cardinality(X \cap s)
    BY <2>1, FS_RemoveElement
  <2>4. C(s \ {x}) = Cardinality((X \cap s) \ {x})
    BY <2>2
  <2>5. CASE x \in X
    <3>1. Cardinality((X \cap s) \ {x}) = Cardinality(X \cap s) - 1 /\ f[x] = 1
      BY <2>3, <2>5
    <3> QED BY <2>1, <2>4, <3>1
  <2>6. CASE x \notin X
    <3>1. Cardinality((X \cap s) \ {x}) = Cardinality(X \cap s) /\ f[x] = 0
      BY <2>3, <2>6
    <3> QED BY <2>1, <2>4, <3>1
  <2> QED BY <2>5, <2>6
<1> HIDE DEF F, C
<1>4. ASSUME NEW s \in SUBSET S, \A x \in s : s \ {x} \in A PROVE s \in A
  <2>1. CASE s = {}
    BY <1>1, <1>2, <2>1
  <2>2. CASE s # {}
    <3>1. PICK x \in s : TRUE
      BY <2>2
    <3>2. F(s) = f[x] + F(s \ {x}) /\ F(s \ {x}) = C(s \ {x}) /\ C(s) = f[x] + C(s \ {x})
      BY <1>1, <1>3, <1>4, <3>1
    <3> QED BY <3>2
  <2> QED BY <2>1, <2>2
<1>5. \A s \in SUBSET S : s \in A
  <2> HIDE DEF A
  <2> QED BY <1>4, SubsetInduction
<1>6. S \in A /\ X \cap S = X
  BY <1>5
<1> QED BY <1>6 DEF F, C

(* Who has nothing may be left out.                                          *)
LEMMA SumSupport ==
    ASSUME NEW S, IsFiniteSet(S), NEW T \in SUBSET S, NEW f,
           \A x \in S : f[x] \in Int /\ (x \notin T => f[x] = 0)
    PROVE  SumFunctionOnSet(f, S) = SumFunctionOnSet(f, T)
<1> DEFINE F(s) == SumFunctionOnSet(f, s)
           A == {s \in SUBSET S : F(s) = F(s \cap T)}
<1>1. \A s \in SUBSET S : /\ F(s) \in Int
                          /\ s = {} => F(s) = 0
                          /\ \A x \in s : F(s) = f[x] + F(s \ {x})
  BY SumSteps DEF Integral, Stepwise
<1> HIDE DEF F
<1>4. ASSUME NEW s \in SUBSET S, \A x \in s : s \ {x} \in A PROVE s \in A
  <2>1. CASE s = {}
    <3>1. s \cap T = s
      BY <2>1
    <3> QED BY <3>1
  <2>2. CASE s # {}
    <3>1. PICK x \in s : TRUE
      BY <2>2
    <3>2. F(s) = f[x] + F(s \ {x}) /\ F(s \ {x}) = F((s \ {x}) \cap T)
      BY <1>1, <1>4, <3>1
    <3>3. CASE x \in T
      <4>1. (s \ {x}) \cap T = (s \cap T) \ {x} /\ x \in s \cap T /\ s \cap T \in SUBSET S
        BY <3>3
      <4>2. F(s \cap T) = f[x] + F((s \cap T) \ {x})
        BY <1>1, <4>1
      <4> QED BY <3>2, <4>1, <4>2
    <3>4. CASE x \notin T
      <4>1. (s \ {x}) \cap T = s \cap T
        BY <3>4
      <4>2. f[x] = 0 /\ F(s \cap T) \in Int
        BY <1>1, <3>1, <3>4
      <4> QED BY <3>2, <4>1, <4>2
    <3> QED BY <3>3, <3>4
  <2> QED BY <2>1, <2>2
<1>5. \A s \in SUBSET S : s \in A
  <2> HIDE DEF A
  <2> QED BY <1>4, SubsetInduction
<1>6. S \in A /\ S \cap T = T
  BY <1>5
<1> QED BY <1>6 DEF F

(* a has the sums of the rows of F, b those of its columns.                  *)
Tallied(F, a, b, S, T) ==
    /\ \A x \in S : \A y \in T : F[x][y] \in Int
    /\ \A x \in S : a[x] = SumFunctionOnSet(F[x], T)
    /\ \A y \in T : b[y] = SumFunctionOnSet([x \in S |-> F[x][y]], S)

(* Summing by rows or by columns.                                            *)
LEMMA SumSwap ==
    ASSUME NEW S, IsFiniteSet(S), NEW T, IsFiniteSet(T), NEW F, NEW a, NEW b,
           Tallied(F, a, b, S, T)
    PROVE  SumFunctionOnSet(a, S) = SumFunctionOnSet(b, T)
<1> SUFFICES ASSUME \A x \in S : \A y \in T : F[x][y] \in Int,
                    \A x \in S : a[x] = SumFunctionOnSet(F[x], T),
                    \A y \in T : b[y] = SumFunctionOnSet([x \in S |-> F[x][y]], S)
             PROVE  SumFunctionOnSet(a, S) = SumFunctionOnSet(b, T)
  BY DEF Tallied
<1> DEFINE Row(s) == SumFunctionOnSet(a, s)
           col(s) == [y \in T |-> SumFunctionOnSet([x \in S |-> F[x][y]], s)]
           Col(s) == SumFunctionOnSet(col(s), T)
           A == {s \in SUBSET S : Row(s) = Col(s)}
<1>0. \A x \in S : a[x] \in Int
  BY SumSteps DEF Integral, Stepwise
<1>1. \A s \in SUBSET S : /\ Row(s) \in Int
                          /\ s = {} => Row(s) = 0
                          /\ \A x \in s : Row(s) = a[x] + Row(s \ {x})
  BY <1>0, SumSteps DEF Integral, Stepwise
<1>2. \A y \in T : \A s \in SUBSET S :
         /\ col(s)[y] \in Int
         /\ s = {} => col(s)[y] = 0
         /\ \A x \in s : col(s)[y] = F[x][y] + col(s \ {x})[y]
  <2> TAKE y \in T
  <2> DEFINE f == [x \in S |-> F[x][y]]
  <2>1. \A x \in S : f[x] \in Int /\ f[x] = F[x][y]
    OBVIOUS
  <2>2. \A s \in SUBSET S : col(s)[y] = SumFunctionOnSet(f, s)
    OBVIOUS
  <2> HIDE DEF f, col
  <2>3. \A s \in SUBSET S : /\ SumFunctionOnSet(f, s) \in Int
                            /\ s = {} => SumFunctionOnSet(f, s) = 0
                            /\ \A x \in s : SumFunctionOnSet(f, s) = f[x] + SumFunctionOnSet(f, s \ {x})
    <3>1. Integral(f, S)
      BY <2>1 DEF Integral
    <3> QED BY <3>1, SumSteps DEF Stepwise
  <2> QED BY <2>1, <2>2, <2>3
<1> HIDE DEF Row, col
<1>3. Col({}) = 0
  BY <1>2, SumOfZeros
<1>4. ASSUME NEW s \in SUBSET S, NEW x \in s PROVE Col(s) = a[x] + Col(s \ {x})
  <2> DEFINE f == F[x]
             g == col(s \ {x})
             h == col(s)
  <2>1. \A y \in T : f[y] \in Int /\ g[y] \in Int /\ h[y] = 1 * f[y] + g[y]
    <3> TAKE y \in T
    <3>1. f[y] \in Int
      OBVIOUS
    <3>2. col(s \ {x})[y] \in Int /\ col(s)[y] = F[x][y] + col(s \ {x})[y]
      BY <1>2
    <3> QED BY <3>1, <3>2
  <2>2. a[x] = SumFunctionOnSet(f, T)
    OBVIOUS
  <2> HIDE DEF f, g, h
  <2>3. SumFunctionOnSet(h, T) = 1 * SumFunctionOnSet(f, T) + SumFunctionOnSet(g, T)
    BY <2>1, SumLinear DEF Linear
  <2>4. SumFunctionOnSet(f, T) \in Int
    BY <2>1, SumSteps DEF Integral, Stepwise
  <2> QED BY <2>2, <2>3, <2>4 DEF g, h
<1> HIDE DEF Col
<1>5. ASSUME NEW s \in SUBSET S, \A x \in s : s \ {x} \in A PROVE s \in A
  <2>1. CASE s = {}
    BY <1>1, <1>3, <2>1
  <2>2. CASE s # {}
    <3>1. PICK x \in s : TRUE
      BY <2>2
    <3>2. Row(s) = a[x] + Row(s \ {x}) /\ Row(s \ {x}) = Col(s \ {x}) /\ Col(s) = a[x] + Col(s \ {x})
      BY <1>1, <1>4, <1>5, <3>1
    <3> QED BY <3>2
  <2> QED BY <2>1, <2>2
<1>6. \A s \in SUBSET S : s \in A
  <2> HIDE DEF A
  <2> QED BY <1>5, SubsetInduction
<1>7. S \in A
  BY <1>6
<1>8. \A y \in T : b[y] \in Int /\ b[y] = col(S)[y]
  BY <1>2 DEF col
<1>9. SumFunctionOnSet(b, T) = Col(S)
  BY <1>8, SumEqual DEF Col
<1> QED BY <1>7, <1>9 DEF Row

-----------------------------------------------------------------------------
(* Sums of one term, of two terms at once, over two sets, in another order.  *)

(* A sum of one term.                                                        *)
LEMMA SumOne ==
    ASSUME NEW f, NEW y, f[y] \in Int
    PROVE  SumFunctionOnSet(f, {y}) = f[y]
<1>1. IsFiniteSet({y}) /\ {y} \ {y} = {} /\ Integral(f, {y})
  BY FS_Singleton DEF Integral
<1>2. SumFunctionOnSet(f, {y}) = f[y] + SumFunctionOnSet(f, {y} \ {y})
  BY <1>1, SumRemoves DEF Integral
<1>3. SumFunctionOnSet(f, {y} \ {y}) = 0
  BY <1>1, FS_EmptySet, SumOfZeros
<1> QED BY <1>2, <1>3

(* A sum all of whose terms but one are zero.                                *)
LEMMA SumOnly ==
    ASSUME NEW S, IsFiniteSet(S), NEW y \in S, NEW f,
           \A x \in S : f[x] \in Int /\ (x # y => f[x] = 0)
    PROVE  SumFunctionOnSet(f, S) = f[y]
<1>1. {y} \in SUBSET S /\ \A x \in S : f[x] \in Int /\ (x \notin {y} => f[x] = 0)
  OBVIOUS
<1>2. SumFunctionOnSet(f, S) = SumFunctionOnSet(f, {y})
  BY <1>1, SumSupport
<1> QED BY <1>2, SumOne

(* f is g plus h, term by term: so are the sums.                             *)
Joined(f, g, h, S) == \A x \in S : g[x] \in Int /\ h[x] \in Int /\ f[x] = g[x] + h[x]

LEMMA SumPlus ==
    ASSUME NEW S, IsFiniteSet(S), NEW f, NEW g, NEW h, Joined(f, g, h, S)
    PROVE  /\ SumFunctionOnSet(f, S) = SumFunctionOnSet(g, S) + SumFunctionOnSet(h, S)
           /\ SumFunctionOnSet(g, S) \in Int /\ SumFunctionOnSet(h, S) \in Int
<1>1. Linear(f, 1, g, h, S)
  BY DEF Linear, Joined
<1>2. SumFunctionOnSet(f, S) = 1 * SumFunctionOnSet(g, S) + SumFunctionOnSet(h, S)
  BY <1>1, SumLinear
<1>3. SumFunctionOnSet(g, S) \in Int /\ SumFunctionOnSet(h, S) \in Int
  BY SumUnfolds DEF Joined
<1> QED BY <1>2, <1>3

(* The sum over two sets that have nothing in common.                        *)
LEMMA SumUnion ==
    ASSUME NEW S, IsFiniteSet(S), NEW T, IsFiniteSet(T), S \cap T = {}, NEW f,
           \A x \in S \cup T : f[x] \in Int
    PROVE  /\ SumFunctionOnSet(f, S \cup T) = SumFunctionOnSet(f, S) + SumFunctionOnSet(f, T)
           /\ SumFunctionOnSet(f, S) \in Int /\ SumFunctionOnSet(f, T) \in Int
<1> DEFINE W == S \cup T
           g == [x \in W |-> IF x \in S THEN f[x] ELSE 0]
           h == [x \in W |-> IF x \in T THEN f[x] ELSE 0]
<1>1. IsFiniteSet(W)
  BY FS_Union
<1>2. Joined(f, g, h, W) /\ \A x \in W : g[x] \in Int /\ h[x] \in Int
  BY DEF Joined
<1>3. /\ \A x \in W : x \notin S => g[x] = 0
      /\ \A x \in W : x \notin T => h[x] = 0
      /\ \A x \in S : g[x] = f[x] /\ f[x] \in Int
      /\ \A x \in T : h[x] = f[x] /\ f[x] \in Int
      /\ S \in SUBSET W /\ T \in SUBSET W
  OBVIOUS
<1> HIDE DEF g, h, W
<1>4. SumFunctionOnSet(f, W) = SumFunctionOnSet(g, W) + SumFunctionOnSet(h, W)
  BY <1>1, <1>2, SumPlus
<1>5. SumFunctionOnSet(g, W) = SumFunctionOnSet(g, S) /\ SumFunctionOnSet(h, W) = SumFunctionOnSet(h, T)
  BY <1>1, <1>2, <1>3, SumSupport
<1>6. SumFunctionOnSet(f, S) = SumFunctionOnSet(g, S) /\ SumFunctionOnSet(f, T) = SumFunctionOnSet(h, T)
  BY <1>3, SumEqual
<1>7. SumFunctionOnSet(f, S) \in Int /\ SumFunctionOnSet(f, T) \in Int
  BY <1>3, SumUnfolds
<1> QED BY <1>4, <1>5, <1>6, <1>7 DEF W

(* h goes through S once: the sum is the same in any order.                  *)
Through(h, T, S) ==
    /\ \A y \in T : h[y] \in S
    /\ \A x \in S : \E y \in T : h[y] = x
    /\ \A y, z \in T : h[y] = h[z] => y = z

LEMMA SumThrough ==
    ASSUME NEW S, IsFiniteSet(S), NEW T, IsFiniteSet(T), NEW h, Through(h, T, S),
           NEW f, \A x \in S : f[x] \in Int, NEW g, \A y \in T : g[y] = f[h[y]]
    PROVE  SumFunctionOnSet(g, T) = SumFunctionOnSet(f, S)
<1> DEFINE F == [x \in S |-> [y \in T |-> IF h[y] = x THEN f[x] ELSE 0]]
           b == [y \in T |-> SumFunctionOnSet([x \in S |-> F[x][y]], S)]
<1>1. \A x \in S : \A y \in T : F[x][y] = IF h[y] = x THEN f[x] ELSE 0
  OBVIOUS
<1>2. ASSUME NEW x \in S PROVE f[x] = SumFunctionOnSet(F[x], T)
  <2>1. PICK y \in T : h[y] = x
    BY DEF Through
  <2>2. \A z \in T : F[x][z] \in Int /\ (z # y => F[x][z] = 0)
    BY <1>1, <2>1 DEF Through
  <2>3. F[x][y] = f[x]
    BY <1>1, <2>1
  <2> HIDE DEF F
  <2> QED BY <2>2, <2>3, SumOnly
<1>3. ASSUME NEW y \in T PROVE b[y] = g[y]
  <2> DEFINE c == [x \in S |-> F[x][y]]
  <2>1. h[y] \in S
    BY DEF Through
  <2>2. /\ \A x \in S : c[x] \in Int /\ (x # h[y] => c[x] = 0)
        /\ c[h[y]] = f[h[y]]
    BY <1>1, <2>1
  <2>3. b[y] = SumFunctionOnSet(c, S)
    OBVIOUS
  <2> HIDE DEF c, b
  <2>4. SumFunctionOnSet(c, S) = c[h[y]]
    BY <2>1, <2>2, SumOnly
  <2> QED BY <2>2, <2>3, <2>4
<1>4. Tallied(F, f, b, S, T)
  BY <1>1, <1>2 DEF Tallied
<1> HIDE DEF F, b
<1>5. SumFunctionOnSet(f, S) = SumFunctionOnSet(b, T)
  BY <1>4, SumSwap
<1>6. \A y \in T : g[y] \in Int
  BY DEF Through
<1>7. SumFunctionOnSet(g, T) = SumFunctionOnSet(b, T)
  BY <1>3, <1>6, SumEqual
<1> QED BY <1>5, <1>7

(* Sums over what is in a sequence, one end taken off.                       *)
LEMMA SumSnoc ==
    ASSUME NEW n \in Nat, NEW f, \A i \in 1..(n + 1) : f[i] \in Int,
           NEW g, \A i \in 1..n : g[i] = f[i]
    PROVE  SumFunctionOnSet(f, 1..(n + 1)) = SumFunctionOnSet(g, 1..n) + f[n + 1]
<1>1. IsFiniteSet(1..(n + 1)) /\ IsFiniteSet(1..n) /\ n + 1 \in 1..(n + 1)
  BY FS_Interval
<1>2. (1..(n + 1)) \ {n + 1} = 1..n
  OBVIOUS
<1> DEFINE S == 1..(n + 1)
           z == n + 1
<1>3. \A i \in 1..n : f[i] \in Int
  OBVIOUS
<1>4. SumFunctionOnSet(f, 1..n) = SumFunctionOnSet(g, 1..n)
  BY <1>1, <1>3, SumEqual
<1>5. SumFunctionOnSet(f, 1..n) \in Int /\ f[z] \in Int
  BY <1>1, <1>3, SumUnfolds
<1>6. IsFiniteSet(S) /\ z \in S /\ S \ {z} = 1..n /\ \A i \in S : f[i] \in Int
  BY <1>1, <1>2
<1> HIDE DEF S, z
<1>7. SumFunctionOnSet(f, S) = f[z] + SumFunctionOnSet(f, S \ {z})
  BY <1>6, SumRemoves
<1>8. SumFunctionOnSet(f, S) = f[z] + SumFunctionOnSet(g, 1..n)
  BY <1>4, <1>6, <1>7
<1>9. f[z] + SumFunctionOnSet(g, 1..n) = SumFunctionOnSet(g, 1..n) + f[z]
  BY <1>4, <1>5
<1> QED BY <1>8, <1>9 DEF S, z

LEMMA SumCons ==
    ASSUME NEW n \in Nat, NEW f, \A i \in 1..(n + 1) : f[i] \in Int,
           NEW g, \A i \in 1..n : g[i] = f[i + 1]
    PROVE  SumFunctionOnSet(f, 1..(n + 1)) = f[1] + SumFunctionOnSet(g, 1..n)
<1> DEFINE S == 1..(n + 1)
           T == 1..n
           R == S \ {1}
           h == [i \in T |-> i + 1]
<1>1. IsFiniteSet(S) /\ IsFiniteSet(T) /\ 1 \in S /\ IsFiniteSet(R)
  <2>1. IsFiniteSet(S) /\ IsFiniteSet(T)
    BY FS_Interval
  <2> QED BY <2>1, FS_Subset
<1>2. Through(h, T, R)
  <2>1. \A i \in T : h[i] \in R
    OBVIOUS
  <2>2. \A i \in R : i - 1 \in T /\ h[i - 1] = i
    OBVIOUS
  <2> QED BY <2>1, <2>2 DEF Through
<1>3. /\ \A i \in R : f[i] \in Int
      /\ \A i \in T : g[i] = f[h[i]]
      /\ \A i \in S : f[i] \in Int
  OBVIOUS
<1> HIDE DEF S, T, R, h
<1>4. SumFunctionOnSet(g, T) = SumFunctionOnSet(f, R)
  BY <1>1, <1>2, <1>3, SumThrough
<1>5. SumFunctionOnSet(f, S) = f[1] + SumFunctionOnSet(f, S \ {1})
  BY <1>1, <1>3, SumRemoves
<1> QED BY <1>4, <1>5 DEF R, S, T

-----------------------------------------------------------------------------
(* Fractions: quotients, common divisors, and one fraction for one value.    *)

(* Quotient and remainder.                                                   *)
LEMMA Remainder ==
    ASSUME NEW a \in Int, NEW b \in Nat \ {0}
    PROVE  /\ a \div b \in Int /\ a % b \in Int
           /\ a = b * (a \div b) + (a % b)
           /\ 0 <= a % b /\ a % b < b
           /\ a >= 0 => a \div b >= 0
<1>1. /\ a \div b \in Int /\ a % b \in Int
      /\ a = b * (a \div b) + (a % b)
      /\ 0 <= a % b /\ a % b < b
  OBVIOUS
<1>2. a >= 0 => a \div b >= 0
  OBVIOUS
<1> QED BY <1>1, <1>2

(* A multiple of b between -b and b.                                         *)
LEMMA SmallProduct ==
    ASSUME NEW b \in Nat \ {0}, NEW k \in Int, -b < b * k, b * k < b
    PROVE  k = 0
<1>1. CASE k >= 1
  BY <1>1
<1>2. CASE k <= -1
  BY <1>2
<1> QED BY <1>1, <1>2

(* Quotient and remainder are told by their range.                           *)
LEMMA DivisionUnique ==
    ASSUME NEW b \in Nat \ {0}, NEW q \in Int, NEW r \in Int, 0 <= r, r < b
    PROVE  (b * q + r) \div b = q /\ (b * q + r) % b = r
<1> DEFINE a == b * q + r
           u == a \div b
           v == a % b
<1>1. a \in Int
  OBVIOUS
<1>2. u \in Int /\ v \in Int /\ a = b * u + v /\ 0 <= v /\ v < b
  <2> HIDE DEF a
  <2> QED BY <1>1, Remainder
<1>3. b * q + r = b * u + v
  BY <1>2 DEF a
<1> HIDE DEF u, v, a
<1>4. b * (q - u) = v - r
  BY <1>2, <1>3
<1>5. q - u \in Int /\ -b < b * (q - u) /\ b * (q - u) < b
  BY <1>2, <1>4
<1>6. q - u = 0
  BY <1>5, SmallProduct
<1>7. q = u /\ v = r
  BY <1>2, <1>4, <1>6
<1> QED BY <1>7 DEF u, v, a

(* A factor that is not zero cancels.                                        *)
LEMMA Cancel ==
    ASSUME NEW k \in Int, k # 0, NEW a \in Int, NEW b \in Int, k * a = k * b
    PROVE  a = b
OBVIOUS

(* Products, for the solver to be given one at a time.                       *)
LEMMA Assoc ==
    ASSUME NEW a \in Int, NEW b \in Int, NEW c \in Int
    PROVE  /\ a * (b * c) = (a * b) * c
           /\ a * (b + c) = a * b + a * c
           /\ a * b = b * a
           /\ a * b \in Int
OBVIOUS

(* Products of positive numbers.                                             *)
LEMMA Positive ==
    ASSUME NEW a \in Nat \ {0}, NEW b \in Nat \ {0}
    PROVE  a * b \in Nat \ {0}
OBVIOUS

-----------------------------------------------------------------------------
(* Euclid's recursion has a solution: the second number falls.               *)
LEMMA GcdRecursion ==
    /\ Gcd \in [Nat \X Nat -> Nat]
    /\ \A a, b \in Nat : Gcd[<<a, b>>] = IF b = 0 THEN a ELSE Gcd[<<b, a % b>>]
<1> DEFINE D == Nat \X Nat
           rank == [p \in D |-> p[2]]
           base == [p \in D |-> p[2] = 0]
           start == [p \in D |-> p[1]]
           next == [p \in D |-> IF p[2] = 0 THEN p ELSE <<p[2], p[1] % p[2]>>]
           op == [z \in D \X Nat |-> z[2]]
           Body(f) == [p \in D |-> IF p[2] = 0 THEN p[1] ELSE f[<<p[2], p[1] % p[2]>>]]
<1>1. \A p \in D : p[2] # 0 => p[1] % p[2] \in Nat /\ p[1] % p[2] < p[2]
  BY Remainder
<1>2. /\ rank \in [D -> Nat] /\ base \in [D -> BOOLEAN] /\ start \in [D -> Nat]
      /\ op \in [D \X Nat -> Nat]
  OBVIOUS
<1>3. next \in [D -> D]
  BY <1>1
<1>4. \A p \in D : ~base[p] => rank[next[p]] < rank[p]
  BY <1>1
<1>5. PICK f \in [D -> Nat] : Recursion(f, D, base, start, next, op)
  <2> HIDE DEF D, rank, base, start, next, op
  <2> QED BY <1>2, <1>3, <1>4, RecursionHasSolution
<1>6. ASSUME NEW p \in D PROVE f[p] = IF p[2] = 0 THEN p[1] ELSE f[<<p[2], p[1] % p[2]>>]
  <2>1. f[p] = IF base[p] THEN start[p] ELSE op[<<p, f[next[p]]>>]
    BY <1>5 DEF Recursion
  <2>2. next[p] \in D /\ f[next[p]] \in Nat
    BY <1>3
  <2>3. op[<<p, f[next[p]]>>] = f[next[p]]
    BY <2>2
  <2> QED BY <2>1, <2>3
<1>7. f = Body(f)
  BY <1>6
<1>8. Gcd = CHOOSE g : g = Body(g)
  BY DEF Gcd
<1>9. Gcd = Body(Gcd)
  <2> HIDE DEF Body
  <2> QED BY <1>7, <1>8
<1>10. ASSUME NEW p \in D PROVE Gcd[p] = IF p[2] = 0 THEN p[1] ELSE Gcd[<<p[2], p[1] % p[2]>>]
  <2>1. Gcd[p] = Body(Gcd)[p]
    BY <1>9
  <2> QED BY <2>1
<1>11. \A p \in D : Gcd[p] \in Nat
  <2> DEFINE A == {p \in D : Gcd[p] \in Nat}
  <2>1. ASSUME NEW p \in D, \A q \in D : rank[q] < rank[p] => q \in A PROVE p \in A
    <3>1. CASE p[2] = 0
      BY <1>10, <3>1
    <3>2. CASE p[2] # 0
      <4>1. <<p[2], p[1] % p[2]>> \in A
        BY <1>1, <2>1, <3>2
      <4> QED BY <1>10, <3>2, <4>1
    <3> QED BY <3>1, <3>2
  <2> HIDE DEF A, rank, D
  <2>2. \A p \in D : p \in A
    BY <1>2, <2>1, RankInduction
  <2> QED BY <2>2 DEF A
<1>12. Gcd \in [Nat \X Nat -> Nat]
  <2>1. DOMAIN Body(Gcd) = D
    OBVIOUS
  <2>2. Body(Gcd) = [p \in D |-> Gcd[p]]
    BY <1>10
  <2>3. Gcd = [p \in D |-> Gcd[p]]
    <3> HIDE DEF Body
    <3> QED BY <1>9, <2>2
  <2> HIDE DEF Body
  <2> QED BY <1>11, <2>3
<1> QED BY <1>10, <1>12

(* What it computes divides both numbers.                                    *)
LEMMA GcdDivides ==
    ASSUME NEW a \in Nat, NEW b \in Nat
    PROVE  /\ Gcd[<<a, b>>] \in Nat
           /\ a # 0 \/ b # 0 => Gcd[<<a, b>>] # 0
           /\ \E k \in Nat : a = Gcd[<<a, b>>] * k
           /\ \E k \in Nat : b = Gcd[<<a, b>>] * k
<1> DEFINE D == Nat \X Nat
           rank == [p \in D |-> p[2]]
           A == {p \in D : /\ p[1] # 0 \/ p[2] # 0 => Gcd[p] # 0
                           /\ \E k \in Nat : p[1] = Gcd[p] * k
                           /\ \E k \in Nat : p[2] = Gcd[p] * k}
<1>1. rank \in [D -> Nat]
  OBVIOUS
<1>2. ASSUME NEW p \in D, \A q \in D : rank[q] < rank[p] => q \in A PROVE p \in A
  <2> PICK x \in Nat, y \in Nat : p = <<x, y>>
    OBVIOUS
  <2>0. p = <<x, y>> /\ p[1] = x /\ p[2] = y /\ x \in Nat /\ y \in Nat /\ Gcd[p] \in Nat
    BY GcdRecursion
  <2>1. CASE y = 0
    <3> \A u, v \in Nat : v = 0 => Gcd[<<u, v>>] = u
      BY GcdRecursion
    <3>1. Gcd[p] = x
      BY <2>0, <2>1
    <3>2. x = x * 1 /\ 0 = x * 0
      BY <2>0
    <3> QED BY <2>0, <2>1, <3>1, <3>2
  <2>2. CASE y # 0
    <3> DEFINE q == <<y, x % y>>
    <3>1. x \div y \in Int /\ x % y \in Int /\ x = y * (x \div y) + (x % y) /\ 0 <= x % y /\ x % y < y
      BY <2>0, <2>2, Remainder
    <3>2. q \in A
      BY <1>2, <2>0, <3>1
    <3>3. Gcd[p] = Gcd[q]
      BY <2>0, <2>2, GcdRecursion
    <3>4. PICK i \in Nat, j \in Nat : y = Gcd[q] * i /\ x % y = Gcd[q] * j
      BY <3>2
    <3>5. Gcd[q] # 0 /\ Gcd[q] \in Nat
      BY <2>2, <3>2, <3>3, <2>0
    <3> DEFINE g == Gcd[q]
               d == x \div y
    <3>6. d \in Nat
      BY <2>2, Remainder
    <3>7. x = g * (i * d + j)
      <4>1. x = (g * i) * d + g * j
        BY <3>1, <3>4
      <4>2. g \in Nat /\ d \in Int
        BY <3>1, <3>5
      <4> HIDE DEF g, d
      <4> QED BY <4>1, <4>2
    <3>8. i * d + j \in Nat
      <4> HIDE DEF d
      <4> QED BY <3>6
    <3> HIDE DEF d
    <3>9. \E k \in Nat : p[1] = Gcd[p] * k
      BY <3>3, <3>7, <3>8
    <3>10. \E k \in Nat : p[2] = Gcd[p] * k
      BY <3>3, <3>4
    <3> QED BY <3>3, <3>5, <3>9, <3>10
  <2> QED BY <2>1, <2>2
<1> HIDE DEF A, rank, D
<1>3. \A p \in D : p \in A
  BY <1>1, <1>2, RankInduction
<1>4. <<a, b>> \in A
  BY <1>3 DEF D
<1> QED BY <1>4, GcdRecursion DEF A

(* It scales with them.                                                      *)
LEMMA GcdScales ==
    ASSUME NEW a \in Nat, NEW b \in Nat, NEW k \in Nat \ {0}
    PROVE  Gcd[<<k * a, k * b>>] = k * Gcd[<<a, b>>]
<1> DEFINE D == Nat \X Nat
           rank == [p \in D |-> p[2]]
           A == {p \in D : Gcd[<<k * p[1], k * p[2]>>] = k * Gcd[p]}
<1>1. rank \in [D -> Nat]
  OBVIOUS
<1>2. ASSUME NEW p \in D, \A q \in D : rank[q] < rank[p] => q \in A PROVE p \in A
  <2> PICK x \in Nat, y \in Nat : p = <<x, y>>
    OBVIOUS
  <2>0. p = <<x, y>> /\ p[1] = x /\ p[2] = y /\ x \in Nat /\ y \in Nat /\ k * x \in Nat /\ k * y \in Nat
    OBVIOUS
  <2>1. CASE y = 0
    <3>1. k * y = 0
      BY <2>1
    <3>2. \A u, v \in Nat : v = 0 => Gcd[<<u, v>>] = u
      BY GcdRecursion
    <3>3. Gcd[<<k * x, k * y>>] = k * x
      BY <2>0, <3>1, <3>2
    <3>4. Gcd[p] = x
      BY <2>0, <2>1, <3>2
    <3> QED BY <3>3, <3>4
  <2>2. CASE y # 0
    <3>1. x \div y \in Int /\ x % y \in Int /\ x = y * (x \div y) + (x % y) /\ 0 <= x % y /\ x % y < y
      BY <2>0, <2>2, Remainder
    <3>2. Gcd[p] = Gcd[<<y, x % y>>]
      BY <2>0, <2>2, GcdRecursion
    <3>3. <<y, x % y>> \in A
      BY <1>2, <2>0, <3>1
    <3>4. (k * x) % (k * y) = k * (x % y)
      <4> DEFINE d == x \div y
                 r == x % y
      <4>1. d \in Int /\ r \in Int /\ x = y * d + r /\ 0 <= r /\ r < y
        BY <3>1
      <4> HIDE DEF d, r
      <4>2. k * x = (k * y) * d + k * r
        BY <2>0, <4>1
      <4>3. k * y \in Nat \ {0} /\ k * r \in Int /\ 0 <= k * r /\ k * r < k * y
        BY <2>0, <2>2, <4>1
      <4>4. ((k * y) * d + k * r) % (k * y) = k * r
        BY <4>1, <4>3, DivisionUnique
      <4> QED BY <4>2, <4>4 DEF r
    <3>5. k * y # 0
      BY <2>0, <2>2
    <3>6. Gcd[<<k * x, k * y>>] = Gcd[<<k * y, (k * x) % (k * y)>>]
      BY <2>0, <3>5, GcdRecursion
    <3>7. Gcd[<<k * y, k * (x % y)>>] = k * Gcd[<<y, x % y>>]
      BY <3>3
    <3> QED BY <3>2, <3>4, <3>6, <3>7
  <2> QED BY <2>1, <2>2
<1> HIDE DEF A, rank, D
<1>3. \A p \in D : p \in A
  BY <1>1, <1>2, RankInduction
<1>4. <<a, b>> \in A
  BY <1>3 DEF D
<1> QED BY <1>4 DEF A

-----------------------------------------------------------------------------
(* The fractions Fraction makes.                                             *)
Frac == [num : Int, den : Nat \ {0}]

(* The absolute value.                                                       *)
LEMMA MagnitudeIs ==
    ASSUME NEW n \in Int
    PROVE  /\ Magnitude(n) \in Nat
           /\ n >= 0 => Magnitude(n) = n
           /\ n < 0 => Magnitude(n) = -n
           /\ Magnitude(n) = 0 <=> n = 0
BY DEF Magnitude

(* n over d is g times k over g times l, and Fraction makes k over l of it.  *)
Reduced(n, d, g, k, l, sign) ==
    /\ g = Gcd[<<Magnitude(n), Magnitude(d)>>]
    /\ sign = IF d < 0 THEN -1 ELSE 1
    /\ sign * n = g * k /\ sign * d = g * l
    /\ Fraction(n, d) = [num |-> k, den |-> l]

(* What Fraction divides by divides both, and leaves nothing.                *)
LEMMA FractionParts ==
    ASSUME NEW n \in Int, NEW d \in Int \ {0}
    PROVE  \E g \in Nat \ {0}, k \in Int, l \in Nat \ {0}, sign \in {-1, 1} :
              Reduced(n, d, g, k, l, sign)
<1> DEFINE g == Gcd[<<Magnitude(n), Magnitude(d)>>]
           sign == IF d < 0 THEN -1 ELSE 1
<1>1. /\ Magnitude(n) \in Nat /\ Magnitude(d) \in Nat \ {0} /\ sign * d = Magnitude(d)
      /\ n >= 0 => Magnitude(n) = n
      /\ n < 0 => Magnitude(n) = -n
  BY MagnitudeIs
<1>2. g \in Nat \ {0}
  BY <1>1, GcdDivides
<1>3. PICK i \in Nat : Magnitude(n) = g * i
  BY <1>1, GcdDivides
<1>4. PICK l \in Nat : Magnitude(d) = g * l
  BY <1>1, GcdDivides
<1>5. Fraction(n, d) = [num |-> (sign * n) \div g, den |-> (sign * d) \div g]
  BY DEF Fraction
<1>6. sign \in {-1, 1}
  OBVIOUS
<1>7. sign = IF d < 0 THEN -1 ELSE 1
  OBVIOUS
<1> HIDE DEF g, sign
<1>8. l # 0
  BY <1>1, <1>2, <1>4
<1>9. \E k \in Int : sign * n = g * k
  <2>1. sign * n = Magnitude(n) \/ sign * n = -Magnitude(n)
    BY <1>1, <1>6
  <2>2. -(g * i) = g * (-i)
    BY <1>2
  <2>3. i \in Int /\ -i \in Int
    OBVIOUS
  <2> QED BY <1>3, <2>1, <2>2, <2>3
<1>10. PICK k \in Int : sign * n = g * k
  BY <1>9
<1>11. \A u \in Int : (g * u) \div g = u
  <2> TAKE u \in Int
  <2>1. (g * u + 0) \div g = u
    BY <1>2, DivisionUnique
  <2>2. g * u + 0 = g * u
    BY <1>2
  <2> QED BY <2>1, <2>2
<1>12. (sign * n) \div g = k /\ (sign * d) \div g = l
  BY <1>1, <1>4, <1>10, <1>11
<1> QED BY <1>1, <1>2, <1>4, <1>5, <1>6, <1>7, <1>8, <1>10, <1>12 DEF g, Reduced

(* A fraction has a positive denominator and the value it is made of.        *)
LEMMA FractionIs ==
    ASSUME NEW n \in Int, NEW d \in Int
    PROVE  /\ Fraction(n, d) \in Frac
           /\ d # 0 => Fraction(n, d).num * d = n * Fraction(n, d).den
<1>1. CASE d = 0
  BY <1>1 DEF Fraction, Whole, Frac
<1>2. CASE d # 0
  <2>0. PICK g \in Nat \ {0}, k \in Int, l \in Nat \ {0}, sign \in {-1, 1} :
            Reduced(n, d, g, k, l, sign)
    BY <1>2, FractionParts
  <2>1. /\ sign * n = g * k /\ sign * d = g * l
        /\ Fraction(n, d) = [num |-> k, den |-> l]
    BY <2>0 DEF Reduced
  <2>2. k * d = n * l
    <3>1. k * (g * l) = (g * k) * l
      OBVIOUS
    <3>2. k * (sign * d) = (sign * n) * l
      BY <2>1, <3>1
    <3>3. CASE sign = 1
      BY <3>2, <3>3
    <3>4. CASE sign = -1
      BY <3>2, <3>4
    <3> QED BY <3>3, <3>4
  <2> QED BY <2>1, <2>2 DEF Frac
<1> QED BY <1>1, <1>2

(* The same for a positive denominator, whose sign changes nothing.          *)
LEMMA PositiveParts ==
    ASSUME NEW n \in Int, NEW d \in Nat \ {0}
    PROVE  \E g \in Nat \ {0}, k \in Int, l \in Nat \ {0} : Reduced(n, d, g, k, l, 1)
<1>0. d \in Int \ {0}
  OBVIOUS
<1>1. PICK g \in Nat \ {0}, k \in Int, l \in Nat \ {0}, sign \in {-1, 1} :
         Reduced(n, d, g, k, l, sign)
  BY <1>0, FractionParts
<1>2. sign = 1
  BY <1>1 DEF Reduced
<1> QED BY <1>1, <1>2

(* A common factor changes nothing.                                          *)
LEMMA FractionScales ==
    ASSUME NEW n \in Int, NEW d \in Nat \ {0}, NEW m \in Nat \ {0}
    PROVE  Fraction(m * n, m * d) = Fraction(n, d)
<1>0. PICK g \in Nat \ {0}, k \in Int, l \in Nat \ {0} : Reduced(n, d, g, k, l, 1)
  BY PositiveParts
<1>1. /\ g = Gcd[<<Magnitude(n), Magnitude(d)>>]
      /\ n = g * k /\ d = g * l
      /\ Fraction(n, d) = [num |-> k, den |-> l]
  BY <1>0 DEF Reduced
<1>2. m * n \in Int /\ m * d \in Nat \ {0}
  OBVIOUS
<1> DEFINE mn == m * n
           md == m * d
<1>3. PICK h \in Nat \ {0}, i \in Int, j \in Nat \ {0} : Reduced(mn, md, h, i, j, 1)
  <2> HIDE DEF mn, md
  <2>1. mn \in Int /\ md \in Nat \ {0}
    BY <1>2 DEF mn, md
  <2> QED BY <2>1, PositiveParts
<1>13. /\ h = Gcd[<<Magnitude(m * n), Magnitude(m * d)>>]
       /\ m * n = h * i /\ m * d = h * j
       /\ Fraction(m * n, m * d) = [num |-> i, den |-> j]
  BY <1>2, <1>3 DEF Reduced
<1>4. h = m * g
  <2>1. Magnitude(m * n) = m * Magnitude(n) /\ Magnitude(m * d) = m * Magnitude(d)
    <3>1. n >= 0 => m * n >= 0
      OBVIOUS
    <3>2. n < 0 => m * n < 0
      OBVIOUS
    <3>3. m * (-n) = -(m * n)
      OBVIOUS
    <3>4. Magnitude(m * n) = m * Magnitude(n)
      BY <1>2, <3>1, <3>2, <3>3, MagnitudeIs
    <3>5. Magnitude(m * d) = m * d /\ Magnitude(d) = d
      BY <1>2, MagnitudeIs
    <3> QED BY <3>4, <3>5
  <2>2. Magnitude(n) \in Nat /\ Magnitude(d) \in Nat
    BY MagnitudeIs
  <2>3. Gcd[<<m * Magnitude(n), m * Magnitude(d)>>] = m * Gcd[<<Magnitude(n), Magnitude(d)>>]
    <3> DEFINE u == Magnitude(n)
               v == Magnitude(d)
    <3> HIDE DEF u, v
    <3>1. u \in Nat /\ v \in Nat
      BY <2>2 DEF u, v
    <3>2. Gcd[<<m * u, m * v>>] = m * Gcd[<<u, v>>]
      BY <3>1, GcdScales
    <3> QED BY <3>2 DEF u, v
  <2> QED BY <1>1, <1>13, <2>1, <2>3
<1>5. (m * g) * k = (m * g) * i /\ (m * g) * l = (m * g) * j
  <2>1. (m * g) * k = m * (g * k) /\ (m * g) * l = m * (g * l)
    OBVIOUS
  <2> QED BY <1>1, <1>13, <1>4, <2>1
<1>6. m * g \in Int /\ m * g # 0
  OBVIOUS
<1>7. k = i /\ l = j
  <2> DEFINE mg == m * g
  <2>1. mg \in Int /\ mg # 0 /\ mg * k = mg * i /\ mg * l = mg * j
    BY <1>5, <1>6
  <2> HIDE DEF mg
  <2> QED BY <2>1, Cancel
<1> QED BY <1>1, <1>13, <1>7

(* One value has one fraction.                                               *)
LEMMA SameFraction ==
    ASSUME NEW n \in Int, NEW d \in Nat \ {0}, NEW i \in Int, NEW j \in Nat \ {0}, n * j = i * d
    PROVE  Fraction(n, d) = Fraction(i, j)
<1>1. Fraction(n, d) = Fraction(j * n, j * d)
  BY FractionScales
<1>2. Fraction(i, j) = Fraction(d * i, d * j)
  BY FractionScales
<1>3. j * n = d * i /\ j * d = d * j
  OBVIOUS
<1> QED BY <1>1, <1>2, <1>3

-----------------------------------------------------------------------------
(* Fractions as whole numbers of parts of a common size: arithmetic on whole *)
(* numbers.                                                                  *)

(* The fraction a is v parts of which m make a whole.                        *)
Stands(a, m, v) == a \in Frac /\ v \in Int /\ a.num * m = v * a.den

(* Whole numbers in parts.                                                   *)
LEMMA StandsWhole ==
    ASSUME NEW n \in Int, NEW m \in Nat \ {0}
    PROVE  Stands(Whole(n), m, n * m)
BY DEF Stands, Whole, Frac

(* A fraction is so many parts and no other number of them.                  *)
LEMMA StandsUnique ==
    ASSUME NEW a, NEW m \in Nat \ {0}, NEW v, NEW w, Stands(a, m, v), Stands(a, m, w)
    PROVE  v = w
<1>1. v \in Int /\ w \in Int /\ a.den \in Nat \ {0} /\ v * a.den = w * a.den
  BY DEF Stands, Frac
<1>2. a.den * v = a.den * w
  BY <1>1
<1> QED BY <1>1, <1>2, Cancel

(* In smaller parts it is more of them.                                      *)
LEMMA StandsScales ==
    ASSUME NEW a, NEW m \in Nat \ {0}, NEW v, Stands(a, m, v), NEW k \in Nat \ {0}
    PROVE  Stands(a, k * m, k * v)
<1>1. v \in Int /\ a.den \in Nat \ {0} /\ a.num \in Int /\ a.num * m = v * a.den
  BY DEF Stands, Frac
<1>2. a.num * (k * m) = k * (a.num * m)
  BY <1>1
<1>3. (k * v) * a.den = k * (v * a.den)
  BY <1>1
<1> QED BY <1>1, <1>2, <1>3 DEF Stands

(* Fractions add as their parts do.                                          *)
LEMMA StandsPlus ==
    ASSUME NEW a, NEW b, NEW m \in Nat \ {0}, NEW v, NEW w, Stands(a, m, v), Stands(b, m, w)
    PROVE  Stands(Plus(a, b), m, v + w)
<1>1. /\ v \in Int /\ w \in Int
      /\ a.num \in Int /\ a.den \in Nat \ {0} /\ b.num \in Int /\ b.den \in Nat \ {0}
      /\ a.num * m = v * a.den /\ b.num * m = w * b.den
  BY DEF Stands, Frac
<1> DEFINE n == a.num * b.den + b.num * a.den
           d == a.den * b.den
           s == Fraction(n, d)
<1>2. n \in Int /\ d \in Nat \ {0}
  <2>1. \A x, z \in Int : \A y, u \in Nat \ {0} : x * y + z * u \in Int /\ y * u \in Nat \ {0}
    OBVIOUS
  <2> QED BY <1>1, <2>1
<1>3. n * m = (v + w) * d
  <2>1. \A p, q, y, u, V, W, M \in Int :
           p * M = V * y /\ q * M = W * u => (p * u + q * y) * M = (V + W) * (y * u)
    <3> TAKE p, q, y, u, V, W, M \in Int
    <3>1. (p * u + q * y) * M = (p * M) * u + (q * M) * y
      OBVIOUS
    <3>2. (V * y) * u + (W * u) * y = (V + W) * (y * u)
      OBVIOUS
    <3> QED BY <3>1, <3>2
  <2> DEFINE p == a.num
             q == b.num
             y == a.den
             u == b.den
  <2>2. /\ p \in Int /\ q \in Int /\ y \in Int /\ u \in Int /\ v \in Int /\ w \in Int /\ m \in Int
        /\ p * m = v * y /\ q * m = w * u
    BY <1>1
  <2> HIDE DEF p, q, y, u
  <2>3. (p * u + q * y) * m = (v + w) * (y * u)
    BY <2>1, <2>2
  <2> QED BY <2>3 DEF p, q, y, u
<1>4. Plus(a, b) = s
  BY DEF Plus
<1> HIDE DEF n, d
<1>5. s \in Frac /\ s.num * d = n * s.den
  BY <1>2, FractionIs
<1> HIDE DEF s
<1>6. s.num \in Int /\ s.den \in Int
  BY <1>5 DEF Frac
<1>7. d * (s.num * m) = d * ((v + w) * s.den)
  <2>1. d * (s.num * m) = (s.num * d) * m
    BY <1>2, <1>6
  <2>2. (n * s.den) * m = (n * m) * s.den
    BY <1>2, <1>6
  <2>3. ((v + w) * d) * s.den = d * ((v + w) * s.den)
    BY <1>1, <1>2, <1>6
  <2> QED BY <1>3, <1>5, <2>1, <2>2, <2>3
<1>8. s.num * m \in Int /\ (v + w) * s.den \in Int
  BY <1>1, <1>6
<1>9. s.num * m = (v + w) * s.den
  BY <1>2, <1>7, <1>8, Cancel
<1> QED BY <1>1, <1>4, <1>5, <1>9 DEF Stands

(* Finitely many fractions have a common denominator.                        *)
LEMMA CommonDenominator ==
    ASSUME NEW S, IsFiniteSet(S), NEW a, \A p \in S : a[p] \in Frac
    PROVE  \E m \in Nat \ {0} : \A p \in S : \E v \in Int : Stands(a[p], m, v)
<1> DEFINE Common(s) == \E m \in Nat \ {0} : \A p \in s : \E v \in Int : Stands(a[p], m, v)
           A == {s \in SUBSET S : Common(s)}
<1>1. ASSUME NEW s \in SUBSET S, \A x \in s : s \ {x} \in A PROVE s \in A
  <2>1. CASE s = {}
    <3>1. 1 \in Nat \ {0}
      OBVIOUS
    <3> QED BY <2>1, <3>1
  <2>2. CASE s # {}
    <3>1. PICK x \in s : TRUE
      BY <2>2
    <3>2. PICK m \in Nat \ {0} : \A p \in s \ {x} : \E v \in Int : Stands(a[p], m, v)
      BY <1>1, <3>1
    <3>3. a[x] \in Frac /\ a[x].den \in Nat \ {0} /\ a[x].num \in Int
      BY DEF Frac
    <3> DEFINE k == a[x].den
    <3>4. k * m \in Nat \ {0}
      BY <3>3
    <3>5. ASSUME NEW p \in s PROVE \E v \in Int : Stands(a[p], k * m, v)
      <4>1. CASE p = x
        <5>1. a[x].num * (k * m) = (m * a[x].num) * a[x].den
          BY <3>3
        <5>2. m * a[x].num \in Int
          BY <3>3
        <5> QED BY <3>3, <4>1, <5>1, <5>2 DEF Stands
      <4>2. CASE p # x
        <5>1. PICK v \in Int : Stands(a[p], m, v)
          BY <3>2, <4>2
        <5>2. k \in Nat \ {0}
          BY <3>3
        <5>3. Stands(a[p], k * m, k * v) /\ k * v \in Int
          <6> HIDE DEF k
          <6> QED BY <5>1, <5>2, StandsScales
        <5> QED BY <5>3
      <4> QED BY <4>1, <4>2
    <3> HIDE DEF k
    <3>6. Common(s)
      BY <3>4, <3>5
    <3> HIDE DEF Common
    <3> QED BY <3>6
  <2> QED BY <2>1, <2>2
<1>2. \A s \in SUBSET S : s \in A
  <2> HIDE DEF A
  <2> QED BY <1>1, SubsetInduction
<1>3. S \in A
  BY <1>2
<1> QED BY <1>3

-----------------------------------------------------------------------------
(* g solves the recursion of Total.                                          *)
Totals(g, a, S) ==
    g = [s \in SUBSET S |-> IF s = {} THEN Whole(0) ELSE Plus(a[Some(s)], g[s \ {Some(s)}])]

(* Total is the value of its recursion at all participants.                  *)
LEMMA TotalIs ==
    ASSUME NEW a
    PROVE  Total(a) = (CHOOSE g : Totals(g, a, DOMAIN a))[DOMAIN a]
BY DEF Total, FoldFunction, FoldFunctionOnSet, MapThenFoldSet, Totals, Some

(* A sum of fractions is a fraction.                                         *)
LEMMA PlusType ==
    ASSUME NEW a \in Frac, NEW b \in Frac
    PROVE  Plus(a, b) \in Frac
<1>1. a.num * b.den + b.num * a.den \in Int /\ a.den * b.den \in Int
  BY DEF Frac
<1> HIDE DEF Frac
<1> DEFINE n == a.num * b.den + b.num * a.den
           d == a.den * b.den
<1> HIDE DEF n, d
<1>2. n \in Int /\ d \in Int
  BY <1>1 DEF n, d
<1>3. Fraction(n, d) \in Frac
  BY <1>2, FractionIs
<1> QED BY <1>3 DEF Plus, n, d

(* The total of fractions in parts is the sum of the parts.                  *)
LEMMA TotalStands ==
    ASSUME NEW a, IsFiniteSet(DOMAIN a), NEW m \in Nat \ {0}, NEW v,
           \A p \in DOMAIN a : Stands(a[p], m, v[p])
    PROVE  Stands(Total(a), m, SumFunctionOnSet(v, DOMAIN a))
<1> DEFINE S == DOMAIN a
           o == [z \in S \X Frac |-> Plus(a[z[1]], z[2])]
           g == CHOOSE h : Totals(h, a, S)
           V(s) == SumFunctionOnSet(v, s)
           A == {s \in SUBSET S : Stands(g[s], m, V(s))}
<1>1. \A p \in S : a[p] \in Frac /\ v[p] \in Int
  BY DEF Stands
<1>2. o \in [S \X Frac -> Frac]
  BY <1>1, PlusType
<1>3. Whole(0) \in Frac
  BY DEF Whole, Frac
<1>4. PICK h \in [SUBSET S -> Frac] : Folding(h, S, Whole(0), o)
  <2> HIDE DEF o, S
  <2> QED BY <1>2, <1>3, FoldHasSolution DEF S
<1>5. \A s \in SUBSET S : s # {} => o[<<Some(s), h[s \ {Some(s)}]>>] = Plus(a[Some(s)], h[s \ {Some(s)}])
  BY SomeIn
<1>6. Totals(h, a, S)
  <2> HIDE DEF o, S
  <2> QED BY <1>4, <1>5 DEF Totals, Folding
<1>7. Totals(g, a, S)
  BY <1>6
<1>8. Stepwise(v, S)
  <2>1. Integral(v, S)
    BY <1>1 DEF Integral
  <2> QED BY <2>1, SumSteps
<1> HIDE DEF g
<1>9. ASSUME NEW s \in SUBSET S, \A x \in s : s \ {x} \in A PROVE s \in A
  <2>1. g[s] = IF s = {} THEN Whole(0) ELSE Plus(a[Some(s)], g[s \ {Some(s)}])
    BY <1>7 DEF Totals
  <2>2. CASE s = {}
    <3>1. V(s) = 0 * m
      BY <1>8, <2>2 DEF Stepwise
    <3>2. Stands(Whole(0), m, 0 * m)
      BY StandsWhole
    <3> QED BY <2>1, <2>2, <3>1, <3>2
  <2>3. CASE s # {}
    <3> DEFINE c == Some(s)
    <3>1. c \in s
      BY <2>3, SomeIn
    <3> HIDE DEF c
    <3>2. V(s) = v[c] + V(s \ {c})
      BY <1>8, <3>1 DEF Stepwise
    <3>3. Stands(a[c], m, v[c]) /\ Stands(g[s \ {c}], m, V(s \ {c}))
      BY <1>9, <3>1
    <3>4. Stands(Plus(a[c], g[s \ {c}]), m, v[c] + V(s \ {c}))
      BY <3>3, StandsPlus
    <3> QED BY <2>1, <2>3, <3>2, <3>4 DEF c
  <2> QED BY <2>2, <2>3
<1>10. \A s \in SUBSET S : s \in A
  <2> HIDE DEF A
  <2> QED BY <1>9, SubsetInduction
<1>11. Total(a) = g[S]
  BY TotalIs DEF g
<1>12. S \in A
  BY <1>10
<1> QED BY <1>11, <1>12

-----------------------------------------------------------------------------
(* Amounts by participant, added up over expenses.                           *)

(* Amounts of some of the participants in U.                                 *)
Shares(U) == UNION {[D -> Frac] : D \in SUBSET U}

(* Amounts added are amounts of the same participants.                       *)
LEMMA AddedType ==
    ASSUME NEW U, NEW one \in Shares(U), NEW two \in Shares(U)
    PROVE  Added(one, two) \in Shares(U)
<1>1. DOMAIN one \subseteq U /\ DOMAIN two \subseteq U
  BY DEF Shares
<1>2. \A p \in DOMAIN one : one[p] \in Frac
  BY DEF Shares
<1>3. \A p \in DOMAIN two : two[p] \in Frac
  BY DEF Shares
<1>4. Whole(0) \in Frac
  BY DEF Whole, Frac
<1>5. \A p : Of(one, p) \in Frac /\ Of(two, p) \in Frac
  BY <1>2, <1>3, <1>4 DEF Of
<1>6. Added(one, two) \in [DOMAIN one \cup DOMAIN two -> Frac]
  BY <1>5, PlusType DEF Added
<1> QED BY <1>1, <1>6 DEF Shares

(* So is the amount of nobody.                                               *)
LEMMA NobodyType ==
    ASSUME NEW U
    PROVE  Nobody \in Shares(U)
<1>1. Nobody \in [{} -> Frac]
  BY DEF Nobody
<1> QED BY <1>1 DEF Shares

(* Amounts in parts add up for each participant.                             *)
LEMMA AddedStands ==
    ASSUME NEW one, NEW two, NEW p, NEW m \in Nat \ {0}, NEW v, NEW w,
           Stands(Of(one, p), m, v), Stands(Of(two, p), m, w)
    PROVE  Stands(Of(Added(one, two), p), m, v + w)
<1>1. CASE p \in DOMAIN one \cup DOMAIN two
  <2>1. Of(Added(one, two), p) = Plus(Of(one, p), Of(two, p))
    BY <1>1 DEF Of, Added
  <2> QED BY <2>1, StandsPlus
<1>2. CASE p \notin DOMAIN one \cup DOMAIN two
  <2>1. Of(one, p) = Whole(0) /\ Of(two, p) = Whole(0) /\ Of(Added(one, two), p) = Whole(0)
    BY <1>2 DEF Of, Added
  <2>2. Stands(Whole(0), m, 0 * m) /\ 0 * m = 0
    BY StandsWhole
  <2>3. v = 0 /\ w = 0
    BY <2>1, <2>2, StandsUnique
  <2> QED BY <2>1, <2>2, <2>3
<1> QED BY <1>1, <1>2

(* g solves the recursion of the amounts of all expenses, which AllAdded     *)
(* sums up.                                                                  *)
AddsAll(g, a, S) ==
    g = [s \in SUBSET S |-> IF s = {} THEN Nobody ELSE Added(a[Some(s)], g[s \ {Some(s)}])]
AllAdded(a, S) == FoldFunctionOnSet(Added, Nobody, a, S)

(* AllAdded is the value of its recursion at all expenses.                   *)
LEMMA AllAddedIs ==
    ASSUME NEW a, NEW S
    PROVE  AllAdded(a, S) = (CHOOSE g : AddsAll(g, a, S))[S]
BY DEF AllAdded, FoldFunctionOnSet, MapThenFoldSet, AddsAll, Some

(* That recursion has a solution.                                            *)
LEMMA AddsAllSolution ==
    ASSUME NEW S, IsFiniteSet(S), NEW a, NEW U, \A i \in S : a[i] \in Shares(U)
    PROVE  \E g \in [SUBSET S -> Shares(U)] : AddsAll(g, a, S)
<1> DEFINE R == Shares(U)
           o == [z \in S \X R |-> Added(a[z[1]], z[2])]
<1>2. o \in [S \X R -> R]
  BY AddedType
<1>3. Nobody \in R
  BY NobodyType
<1>4. PICK h \in [SUBSET S -> R] : Folding(h, S, Nobody, o)
  <2> HIDE DEF o, R
  <2> QED BY <1>2, <1>3, FoldHasSolution
<1>5. \A s \in SUBSET S : s # {} => o[<<Some(s), h[s \ {Some(s)}]>>] = Added(a[Some(s)], h[s \ {Some(s)}])
  BY SomeIn
<1>6. AddsAll(h, a, S)
  <2> HIDE DEF o, R
  <2> QED BY <1>4, <1>5 DEF AddsAll, Folding
<1> QED BY <1>6

(* What a participant gets of all expenses is the sum of the parts of each.  *)
LEMMA AllAddedStands ==
    ASSUME NEW S, IsFiniteSet(S), NEW a, NEW U, \A i \in S : a[i] \in Shares(U),
           NEW p, NEW m \in Nat \ {0}, NEW w, \A i \in S : Stands(Of(a[i], p), m, w[i])
    PROVE  Stands(Of(AllAdded(a, S), p), m, SumFunctionOnSet(w, S))
<1> DEFINE g == CHOOSE h : AddsAll(h, a, S)
           V(s) == SumFunctionOnSet(w, s)
           A == {s \in SUBSET S : Stands(Of(g[s], p), m, V(s))}
<1>7. AddsAll(g, a, S)
  BY AddsAllSolution
<1>8. Stepwise(w, S)
  <2>1. Integral(w, S)
    BY DEF Integral, Stands
  <2> QED BY <2>1, SumSteps
<1> HIDE DEF g
<1>9. ASSUME NEW s \in SUBSET S, \A x \in s : s \ {x} \in A PROVE s \in A
  <2>1. g[s] = IF s = {} THEN Nobody ELSE Added(a[Some(s)], g[s \ {Some(s)}])
    BY <1>7 DEF AddsAll
  <2>2. CASE s = {}
    <3>1. V(s) = 0 * m
      BY <1>8, <2>2 DEF Stepwise
    <3>2. Stands(Whole(0), m, 0 * m)
      BY StandsWhole
    <3>3. Of(Nobody, p) = Whole(0)
      BY DEF Of, Nobody
    <3> QED BY <2>1, <2>2, <3>1, <3>2, <3>3
  <2>3. CASE s # {}
    <3> DEFINE c == Some(s)
    <3>1. c \in s
      BY <2>3, SomeIn
    <3> HIDE DEF c
    <3>2. V(s) = w[c] + V(s \ {c})
      BY <1>8, <3>1 DEF Stepwise
    <3>3. Stands(Of(a[c], p), m, w[c]) /\ Stands(Of(g[s \ {c}], p), m, V(s \ {c}))
      BY <1>9, <3>1
    <3>4. Stands(Of(Added(a[c], g[s \ {c}]), p), m, w[c] + V(s \ {c}))
      BY <3>3, AddedStands
    <3> QED BY <2>1, <2>3, <3>2, <3>4 DEF c
  <2> QED BY <2>2, <2>3
<1>10. \A s \in SUBSET S : s \in A
  <2> HIDE DEF A
  <2> QED BY <1>9, SubsetInduction
<1>11. AllAdded(a, S) = g[S]
  BY AllAddedIs DEF g
<1>12. S \in A
  BY <1>10
<1> QED BY <1>11, <1>12

(* And an amount of some of the participants.                                *)
LEMMA AllAddedType ==
    ASSUME NEW S, IsFiniteSet(S), NEW a, NEW U, \A i \in S : a[i] \in Shares(U)
    PROVE  AllAdded(a, S) \in Shares(U)
<1> DEFINE g == CHOOSE h : AddsAll(h, a, S)
           A == {s \in SUBSET S : g[s] \in Shares(U)}
<1>7. AddsAll(g, a, S)
  BY AddsAllSolution
<1> HIDE DEF g
<1>9. ASSUME NEW s \in SUBSET S, \A x \in s : s \ {x} \in A PROVE s \in A
  <2>1. g[s] = IF s = {} THEN Nobody ELSE Added(a[Some(s)], g[s \ {Some(s)}])
    BY <1>7 DEF AddsAll
  <2>2. CASE s = {}
    BY <2>1, <2>2, NobodyType
  <2>3. CASE s # {}
    <3>1. Some(s) \in s /\ g[s \ {Some(s)}] \in Shares(U) /\ a[Some(s)] \in Shares(U)
      BY <1>9, <2>3, SomeIn
    <3> QED BY <2>1, <2>3, <3>1, AddedType
  <2> QED BY <2>2, <2>3
<1>10. \A s \in SUBSET S : s \in A
  <2> HIDE DEF A
  <2> QED BY <1>9, SubsetInduction
<1>11. AllAdded(a, S) = g[S]
  BY AllAddedIs DEF g
<1>12. S \in A
  BY <1>10
<1> QED BY <1>11, <1>12

-----------------------------------------------------------------------------
(* The order in which left-over cents go round, on whole numbers: a          *)
(* permutation of the participants.                                          *)

(* The order in which left-over cents go round, on whole numbers.            *)
Ahead(S, r, p)  == {q \in S : r[p] < r[q]}
Level(S, r, p)  == {q \in S : r[q] = r[p]}
Before(S, r, p) == {q \in Level(S, r, p) : q < p}
TurnOf(S, r, seed, p)  == (Cardinality(Before(S, r, p)) - seed) % Cardinality(Level(S, r, p))
PlaceOf(S, r, seed, p) == Cardinality(Ahead(S, r, p)) + TurnOf(S, r, seed, p)

(* Numbers below n that are apart stay apart when n turns them by a seed.    *)
LEMMA SameRemainder ==
    ASSUME NEW n \in Nat \ {0}, NEW a \in 0..(n - 1), NEW b \in 0..(n - 1), NEW seed \in Int,
           (a - seed) % n = (b - seed) % n
    PROVE  a = b
<1> DEFINE x == a - seed
           y == b - seed
<1>1. x \in Int /\ y \in Int /\ x % n = y % n /\ x - y = a - b
  OBVIOUS
<1> HIDE DEF x, y
<1>2. /\ x \div n \in Int /\ x = n * (x \div n) + (x % n)
      /\ y \div n \in Int /\ y = n * (y \div n) + (y % n)
      /\ x % n \in Int
  BY <1>1, Remainder
<1> DEFINE k == (x \div n) - (y \div n)
<1>3. k \in Int /\ x - y = n * k
  BY <1>1, <1>2
<1> HIDE DEF k
<1>4. -n < n * k /\ n * k < n
  BY <1>1, <1>3
<1>5. k = 0
  BY <1>3, <1>4, SmallProduct
<1> QED BY <1>1, <1>3, <1>5

(* Those ahead, level and before are finitely many, and somebody is level.   *)
LEMMA Sizes ==
    ASSUME NEW S, IsFiniteSet(S), NEW r \in [S -> Int], NEW p \in S
    PROVE  /\ IsFiniteSet(Ahead(S, r, p)) /\ Cardinality(Ahead(S, r, p)) \in Nat
           /\ IsFiniteSet(Level(S, r, p)) /\ Cardinality(Level(S, r, p)) \in Nat \ {0}
           /\ IsFiniteSet(Before(S, r, p)) /\ Cardinality(Before(S, r, p)) \in Nat
           /\ IsFiniteSet(S) /\ Cardinality(S) \in Nat \ {0}
<1>1. Ahead(S, r, p) \in SUBSET S /\ Level(S, r, p) \in SUBSET S /\ Before(S, r, p) \in SUBSET S
  BY DEF Ahead, Level, Before
<1>2. p \in Level(S, r, p)
  BY DEF Level
<1>3. \A s \in SUBSET S : IsFiniteSet(s) /\ Cardinality(s) \in Nat /\ (Cardinality(s) = 0 <=> s = {})
  BY FS_Subset, FS_CardinalityType, FS_EmptySet
<1> QED BY <1>1, <1>2, <1>3

(* Of two that are level, the later one has more before it.                  *)
LEMMA BeforeGrows ==
    ASSUME NEW S \in SUBSET Int, IsFiniteSet(S), NEW r \in [S -> Int], NEW p \in S, NEW q \in S,
           r[p] = r[q], p < q
    PROVE  Cardinality(Before(S, r, p)) < Cardinality(Before(S, r, q))
<1>0. \A x \in S : x \in Int
  OBVIOUS
<1>1. Before(S, r, p) \cup {p} \in SUBSET Before(S, r, q) /\ p \notin Before(S, r, p)
  <2>1. p \in Before(S, r, q)
    BY DEF Before, Level
  <2>2. ASSUME NEW x \in Before(S, r, p) PROVE x \in Before(S, r, q)
    <3>1. x \in S /\ r[x] = r[q] /\ x < p
      BY DEF Before, Level
    <3>2. x < q
      BY <1>0, <3>1
    <3> QED BY <3>1, <3>2 DEF Before, Level
  <2>3. p \notin Before(S, r, p)
    BY <1>0 DEF Before
  <2> QED BY <2>1, <2>2, <2>3
<1>2. Cardinality(Before(S, r, p) \cup {p}) = Cardinality(Before(S, r, p)) + 1
  BY <1>1, Sizes, FS_AddElement
<1>3. Cardinality(Before(S, r, p) \cup {p}) <= Cardinality(Before(S, r, q))
  BY <1>1, Sizes, FS_Subset
<1>4. Cardinality(Before(S, r, p)) \in Nat /\ Cardinality(Before(S, r, q)) \in Nat
  BY Sizes
<1> QED BY <1>2, <1>3, <1>4

(* Fewer are before somebody than are level with them.                       *)
LEMMA BeforeLess ==
    ASSUME NEW S \in SUBSET Int, IsFiniteSet(S), NEW r \in [S -> Int], NEW p \in S
    PROVE  Cardinality(Before(S, r, p)) \in 0..(Cardinality(Level(S, r, p)) - 1)
<1>0. p \in Int
  OBVIOUS
<1>1. Before(S, r, p) \cup {p} \in SUBSET Level(S, r, p) /\ p \notin Before(S, r, p)
  BY <1>0 DEF Before, Level
<1>2. Cardinality(Before(S, r, p) \cup {p}) = Cardinality(Before(S, r, p)) + 1
  BY <1>1, Sizes, FS_AddElement
<1>3. Cardinality(Before(S, r, p) \cup {p}) <= Cardinality(Level(S, r, p))
  BY <1>1, Sizes, FS_Subset
<1>4. Cardinality(Before(S, r, p)) \in Nat /\ Cardinality(Level(S, r, p)) \in Nat
  BY Sizes
<1> QED BY <1>2, <1>3, <1>4

(* A turn is a place among those who are level.                              *)
LEMMA TurnRange ==
    ASSUME NEW S \in SUBSET Int, IsFiniteSet(S), NEW r \in [S -> Int], NEW seed \in Int, NEW p \in S
    PROVE  TurnOf(S, r, seed, p) \in 0..(Cardinality(Level(S, r, p)) - 1)
<1> DEFINE b == Cardinality(Before(S, r, p))
           n == Cardinality(Level(S, r, p))
<1>1. b \in Nat /\ n \in Nat \ {0}
  BY Sizes
<1> HIDE DEF b, n
<1>2. b - seed \in Int
  BY <1>1
<1>3. (b - seed) % n \in Int /\ 0 <= (b - seed) % n /\ (b - seed) % n < n
  BY <1>1, <1>2, Remainder
<1>4. (b - seed) % n \in 0..(n - 1)
  BY <1>1, <1>3
<1> QED BY <1>4 DEF TurnOf, b, n

(* Those with a larger remainder come first.                                 *)
LEMMA AheadFirst ==
    ASSUME NEW S \in SUBSET Int, IsFiniteSet(S), NEW r \in [S -> Int], NEW p \in S, NEW q \in S,
           r[p] < r[q]
    PROVE  Cardinality(Ahead(S, r, q)) + Cardinality(Level(S, r, q)) <= Cardinality(Ahead(S, r, p))
<1>0. \A x \in S : r[x] \in Int
  OBVIOUS
<1>1. /\ Ahead(S, r, q) \cup Level(S, r, q) \in SUBSET Ahead(S, r, p)
      /\ Ahead(S, r, q) \cap Level(S, r, q) = {}
  <2>1. \A x \in S : r[q] <= r[x] => r[p] < r[x]
    BY <1>0
  <2>2. \A x \in S : r[q] < r[x] => r[x] # r[q] /\ r[q] <= r[x]
    BY <1>0
  <2> QED BY <1>0, <2>1, <2>2 DEF Ahead, Level
<1>2. Cardinality(Ahead(S, r, q) \cup Level(S, r, q)) =
         Cardinality(Ahead(S, r, q)) + Cardinality(Level(S, r, q)) - Cardinality({})
  BY <1>1, Sizes, FS_Union
<1>3. Cardinality({}) = 0
  BY FS_EmptySet
<1>4. Cardinality(Ahead(S, r, q) \cup Level(S, r, q)) <= Cardinality(Ahead(S, r, p))
  BY <1>1, Sizes, FS_Subset
<1>5. Cardinality(Ahead(S, r, q)) \in Nat /\ Cardinality(Level(S, r, q)) \in Nat
  BY Sizes
<1> QED BY <1>2, <1>3, <1>4, <1>5

(* A place is one of as many as there are participants.                      *)
LEMMA PlaceRange ==
    ASSUME NEW S \in SUBSET Int, IsFiniteSet(S), NEW r \in [S -> Int], NEW seed \in Int, NEW p \in S
    PROVE  PlaceOf(S, r, seed, p) \in 0..(Cardinality(S) - 1)
<1>1. /\ Ahead(S, r, p) \cup Level(S, r, p) \in SUBSET S
      /\ Ahead(S, r, p) \cap Level(S, r, p) = {}
  BY DEF Ahead, Level
<1>2. Cardinality(Ahead(S, r, p) \cup Level(S, r, p)) =
         Cardinality(Ahead(S, r, p)) + Cardinality(Level(S, r, p)) - Cardinality({})
  BY <1>1, Sizes, FS_Union
<1>3. Cardinality({}) = 0
  BY FS_EmptySet
<1>4. Cardinality(Ahead(S, r, p) \cup Level(S, r, p)) <= Cardinality(S)
  BY <1>1, FS_Subset
<1>5. /\ Cardinality(Ahead(S, r, p)) \in Nat /\ Cardinality(Level(S, r, p)) \in Nat
      /\ Cardinality(S) \in Nat
  BY Sizes
<1>6. TurnOf(S, r, seed, p) \in 0..(Cardinality(Level(S, r, p)) - 1)
  BY TurnRange
<1> QED BY <1>2, <1>3, <1>4, <1>5, <1>6 DEF PlaceOf

(* No two participants have the same place.                                  *)
LEMMA PlaceInjective ==
    ASSUME NEW S \in SUBSET Int, IsFiniteSet(S), NEW r \in [S -> Int], NEW seed \in Int,
           NEW p \in S, NEW q \in S, PlaceOf(S, r, seed, p) = PlaceOf(S, r, seed, q)
    PROVE  p = q
<1>1. \A x \in S : /\ Cardinality(Ahead(S, r, x)) \in Nat /\ Cardinality(Level(S, r, x)) \in Nat \ {0}
                   /\ TurnOf(S, r, seed, x) \in 0..(Cardinality(Level(S, r, x)) - 1)
  BY Sizes, TurnRange
<1>2. ASSUME NEW x \in S, NEW y \in S, r[x] < r[y]
      PROVE  PlaceOf(S, r, seed, y) < PlaceOf(S, r, seed, x)
  <2>1. Cardinality(Ahead(S, r, y)) + Cardinality(Level(S, r, y)) <= Cardinality(Ahead(S, r, x))
    BY <1>2, AheadFirst
  <2> QED BY <1>1, <2>1 DEF PlaceOf
<1>3. \A x \in S : PlaceOf(S, r, seed, x) \in Int
  BY PlaceRange
<1>4. r[p] = r[q]
  BY <1>2, <1>3
<1>5. Ahead(S, r, p) = Ahead(S, r, q) /\ Level(S, r, p) = Level(S, r, q)
  BY <1>4 DEF Ahead, Level
<1>6. TurnOf(S, r, seed, p) = TurnOf(S, r, seed, q)
  BY <1>1, <1>5 DEF PlaceOf
<1> DEFINE n == Cardinality(Level(S, r, p))
           a == Cardinality(Before(S, r, p))
           b == Cardinality(Before(S, r, q))
<1>7. (a - seed) % n = (b - seed) % n
  BY <1>5, <1>6 DEF TurnOf
<1>8. n \in Nat \ {0} /\ a \in 0..(n - 1) /\ b \in 0..(n - 1)
  BY <1>1, <1>5, BeforeLess
<1>9. a = b
  <2> HIDE DEF a, b, n
  <2> QED BY <1>7, <1>8, SameRemainder
<1>10. ~(p < q) /\ ~(q < p)
  BY <1>4, <1>8, <1>9, BeforeGrows
<1> QED BY <1>10

(* Every place is taken, and the first k places are taken by k.              *)
LEMMA PlacesBelow ==
    ASSUME NEW S \in SUBSET Int, IsFiniteSet(S), NEW r \in [S -> Int], NEW seed \in Int,
           NEW k \in 0..Cardinality(S)
    PROVE  Cardinality({p \in S : PlaceOf(S, r, seed, p) < k}) = k
<1> DEFINE n == Cardinality(S)
           f == [p \in S |-> PlaceOf(S, r, seed, p)]
           X == {p \in S : PlaceOf(S, r, seed, p) < k}
           h == [p \in X |-> PlaceOf(S, r, seed, p)]
<1>1. n \in Nat
  BY FS_CardinalityType
<1>2. f \in [S -> 0..(n - 1)]
  BY PlaceRange
<1>3. f \in Injection(S, 0..(n - 1))
  BY <1>2, PlaceInjective DEF Injection, IsInjective
<1>4. IsFiniteSet(0..(n - 1)) /\ Cardinality(0..(n - 1)) = n
  <2>1. n - 1 \in Int /\ 0 \in Int
    BY <1>1
  <2> HIDE DEF n
  <2>2. IsFiniteSet(0..(n - 1)) /\ Cardinality(0..(n - 1)) = IF 0 > n - 1 THEN 0 ELSE n - 1 - 0 + 1
    BY <2>1, FS_Interval
  <2> QED BY <1>1, <2>2
<1>5. f \in Surjection(S, 0..(n - 1))
  <2> HIDE DEF f
  <2> QED BY <1>3, <1>4, FS_Injection DEF n
<1>6. \A i \in 0..(n - 1) : \E p \in S : PlaceOf(S, r, seed, p) = i
  BY <1>5 DEF Surjection
<1>7. \A p \in S : PlaceOf(S, r, seed, p) \in 0..(n - 1)
  BY PlaceRange
<1>8. h \in [X -> 0..(k - 1)]
  <2>1. k \in Nat
    BY <1>1
  <2>2. \A p \in X : PlaceOf(S, r, seed, p) \in 0..(k - 1)
    BY <1>7, <2>1
  <2> QED BY <2>2
<1>9. h \in Injection(X, 0..(k - 1))
  BY <1>8, PlaceInjective DEF Injection, IsInjective
<1>10. h \in Surjection(X, 0..(k - 1))
  <2>1. ASSUME NEW i \in 0..(k - 1) PROVE \E p \in X : h[p] = i
    <3>1. i \in 0..(n - 1)
      BY <1>1
    <3>2. PICK p \in S : PlaceOf(S, r, seed, p) = i
      BY <1>6, <3>1
    <3>3. p \in X
      BY <3>2
    <3> QED BY <3>2, <3>3
  <2> QED BY <1>8, <2>1 DEF Surjection
<1>11. ExistsBijection(X, 0..(k - 1))
  BY <1>9, <1>10 DEF ExistsBijection, Bijection
<1>12. IsFiniteSet(X)
  BY FS_Subset
<1>13. Cardinality(0..(k - 1)) = Cardinality(X)
  <2> HIDE DEF X
  <2> QED BY <1>11, <1>12, FS_Bijection
<1>14. Cardinality(0..(k - 1)) = k
  <2>1. k \in Nat /\ k - 1 \in Int /\ 0 \in Int
    BY <1>1
  <2>2. Cardinality(0..(k - 1)) = IF 0 > k - 1 THEN 0 ELSE k - 1 - 0 + 1
    BY <2>1, FS_Interval
  <2> QED BY <2>1, <2>2
<1> QED BY <1>13, <1>14

-----------------------------------------------------------------------------
(* Distribute, in terms of whole parts of a common denominator.              *)

(* Fractions of one denominator compare as their numerators do.              *)
LEMMA BelowFraction ==
    ASSUME NEW r \in Int, NEW s \in Int, NEW m \in Nat \ {0}
    PROVE  /\ Below(Fraction(r, m), Fraction(s, m)) <=> r < s
           /\ Fraction(r, m) = Fraction(s, m) <=> r = s
<1> DEFINE F == Fraction(r, m)
           G == Fraction(s, m)
           fn == F.num
           fd == F.den
           gn == G.num
           gd == G.den
<1>1. /\ fn \in Int /\ fd \in Nat \ {0} /\ gn \in Int /\ gd \in Nat \ {0}
      /\ fn * m = r * fd /\ gn * m = s * gd
  BY FractionIs DEF Frac
<1>2. F = G => fn = gn /\ fd = gd
  OBVIOUS
<1>3. Below(F, G) <=> fn * gd < gn * fd
  BY DEF Below
<1> HIDE DEF fn, fd, gn, gd
<1>4. (fn * gd) * m = r * (fd * gd) /\ (gn * fd) * m = s * (fd * gd)
  <2>1. (fn * gd) * m = (fn * m) * gd /\ (gn * fd) * m = (gn * m) * fd
    BY <1>1
  <2>2. (r * fd) * gd = r * (fd * gd) /\ (s * gd) * fd = s * (fd * gd)
    BY <1>1
  <2> QED BY <1>1, <2>1, <2>2
<1>5. fd * gd \in Nat \ {0} /\ fn * gd \in Int /\ gn * fd \in Int
  BY <1>1, Positive
<1>6. \A x, y \in Int : \A k \in Nat \ {0} : (x < y <=> x * k < y * k)
  <2> TAKE x, y \in Int
  <2> TAKE k \in Nat \ {0}
  <2>1. x < y => x * k < y * k
    OBVIOUS
  <2>2. y <= x => y * k <= x * k
    OBVIOUS
  <2> QED BY <2>1, <2>2
<1>7. fn * gd < gn * fd <=> r * (fd * gd) < s * (fd * gd)
  <2>1. fn * gd < gn * fd <=> (fn * gd) * m < (gn * fd) * m
    BY <1>5, <1>6
  <2> QED BY <1>4, <2>1
<1>8. r < s <=> r * (fd * gd) < s * (fd * gd)
  BY <1>5, <1>6
<1>9. F = G => r = s
  <2> SUFFICES ASSUME F = G PROVE r = s
    OBVIOUS
  <2>1. r * fd = s * fd
    BY <1>1, <1>2
  <2>2. fd * r = fd * s
    BY <1>1, <2>1
  <2> QED BY <1>1, <2>2, Cancel
<1> QED BY <1>3, <1>7, <1>8, <1>9

(* What truncation leaves of a, in parts of which m make a whole.            *)
Parts(a, m, v) == Magnitude(v - Truncated(a) * m)

(* What truncation leaves of a fraction, in parts.                           *)
LEMMA LeftoverIs ==
    ASSUME NEW a, NEW m \in Nat \ {0}, NEW v, Stands(a, m, v)
    PROVE  /\ Truncated(a) \in Int
           /\ Parts(a, m, v) \in Nat
           /\ Leftover(a) = Fraction(Parts(a, m, v), m)
<1> DEFINE n == a.num
           d == a.den
           t == Truncated(a)
<1>1. n \in Int /\ d \in Nat \ {0} /\ v \in Int /\ n * m = v * d
  BY DEF Stands, Frac
<1>2. t \in Int
  <2>1. \A x \in Int : x \div d \in Int
    BY <1>1, Remainder
  <2> QED BY <1>1, <2>1 DEF Truncated
<1> DEFINE e == n - t * d
           f == v - t * m
<1>3. Leftover(a) = Fraction(Magnitude(e), d) /\ Parts(a, m, v) = Magnitude(f)
  BY DEF Leftover, Parts
<1> HIDE DEF n, d, t
<1>4. e \in Int /\ f \in Int
  BY <1>1, <1>2
<1>5. e * m = f * d
  <2>1. e * m = n * m - (t * d) * m
    BY <1>1, <1>2
  <2>2. f * d = v * d - (t * m) * d
    BY <1>1, <1>2
  <2>3. (t * d) * m = (t * m) * d
    BY <1>1, <1>2
  <2> QED BY <1>1, <2>1, <2>2, <2>3
<1> HIDE DEF e, f
<1>6. Magnitude(e) * m = Magnitude(f) * d
  <2>1. e < 0 => e * m < 0
    BY <1>4
  <2>2. e >= 0 => e * m >= 0
    BY <1>4
  <2>3. f < 0 => f * d < 0
    BY <1>1, <1>4
  <2>4. f >= 0 => f * d >= 0
    BY <1>1, <1>4
  <2>5. (-e) * m = -(e * m) /\ (-f) * d = -(f * d)
    BY <1>1, <1>4
  <2>6. CASE e < 0
    BY <1>1, <1>4, <1>5, <2>1, <2>4, <2>5, <2>6, MagnitudeIs
  <2>7. CASE e >= 0
    BY <1>1, <1>4, <1>5, <2>2, <2>3, <2>5, <2>7, MagnitudeIs
  <2> QED BY <1>4, <2>6, <2>7
<1>7. Magnitude(e) \in Nat /\ Magnitude(f) \in Nat
  BY <1>4, MagnitudeIs
<1>8. Fraction(Magnitude(e), d) = Fraction(Magnitude(f), m)
  BY <1>1, <1>6, <1>7, SameFraction
<1> QED BY <1>2, <1>3, <1>7, <1>8 DEF t

(* Left-over fractions compare as their parts do.                            *)
LEMMA LeftoverOrder ==
    ASSUME NEW a, NEW b, NEW m \in Nat \ {0}, NEW v, NEW w, Stands(a, m, v), Stands(b, m, w)
    PROVE  /\ Below(Leftover(a), Leftover(b)) <=> Parts(a, m, v) < Parts(b, m, w)
           /\ Leftover(a) = Leftover(b) <=> Parts(a, m, v) = Parts(b, m, w)
<1> DEFINE r == Parts(a, m, v)
           s == Parts(b, m, w)
<1>1. r \in Int /\ s \in Int
  BY LeftoverIs
<1>2. Leftover(a) = Fraction(r, m) /\ Leftover(b) = Fraction(s, m)
  BY LeftoverIs
<1> HIDE DEF r, s
<1> QED BY <1>1, <1>2, BelowFraction DEF r, s

-----------------------------------------------------------------------------
(* The parts of Distribute: the cents kept, those left, and who gets how     *)
(* many of these.                                                            *)
Kept(exact) == [p \in DOMAIN exact |-> Truncated(exact[p])]
Gap(exact, amount) == amount - SumFunction(Kept(exact))
PartsOf(exact, m, v) == [p \in DOMAIN exact |-> Parts(exact[p], m, v[p])]
RoundsOf(gap, n, place) ==
    (Magnitude(gap) \div n) + (IF place < Magnitude(gap) % n THEN 1 ELSE 0)

(* Distribute in terms of whole parts of a common denominator.               *)
LEMMA DistributeIs ==
    ASSUME NEW exact, NEW amount \in Int, NEW seed \in Int, NEW m \in Nat \ {0}, NEW v,
           \A p \in DOMAIN exact : Stands(exact[p], m, v[p])
    PROVE  Distribute(exact, amount, seed) =
              [p \in DOMAIN exact |->
                 Kept(exact)[p] + (IF Gap(exact, amount) > 0 THEN 1 ELSE -1)
                     * RoundsOf(Gap(exact, amount), Cardinality(DOMAIN exact),
                                PlaceOf(DOMAIN exact, PartsOf(exact, m, v), seed, p))]
<1> DEFINE S == DOMAIN exact
           r == PartsOf(exact, m, v)
<1>1. \A p, q \in S : /\ Below(Leftover(exact[p]), Leftover(exact[q])) <=> r[p] < r[q]
                      /\ Leftover(exact[q]) = Leftover(exact[p]) <=> r[q] = r[p]
  BY LeftoverOrder DEF PartsOf
<1> DEFINE larger(p) == {q \in S : Below(Leftover(exact[p]), Leftover(exact[q]))}
           equal(p) == {q \in S : Leftover(exact[q]) = Leftover(exact[p])}
           turn(p) == (Cardinality({q \in equal(p) : q < p}) - seed) % Cardinality(equal(p))
           place(p) == Cardinality(larger(p)) + turn(p)
           kept == [p \in S |-> Truncated(exact[p])]
           gap == amount - SumFunction(kept)
           n == Cardinality(S)
           rounds(p) == (Magnitude(gap) \div n) + (IF place(p) < Magnitude(gap) % n THEN 1 ELSE 0)
           step == IF gap > 0 THEN 1 ELSE -1
<1>2. Distribute(exact, amount, seed) = [p \in S |-> kept[p] + step * rounds(p)]
  BY DEF Distribute
<1>3. ASSUME NEW p \in S PROVE place(p) = PlaceOf(S, r, seed, p)
  <2>1. larger(p) = Ahead(S, r, p)
    BY <1>1 DEF Ahead
  <2>2. equal(p) = Level(S, r, p)
    BY <1>1 DEF Level
  <2>3. {q \in equal(p) : q < p} = Before(S, r, p)
    BY <2>2 DEF Before
  <2> HIDE DEF larger, equal
  <2> QED BY <2>1, <2>2, <2>3 DEF PlaceOf, TurnOf
<1>4. kept = Kept(exact) /\ gap = Gap(exact, amount)
  BY DEF Kept, Gap
<1> HIDE DEF place, kept, gap, n
<1>5. \A p \in S : rounds(p) = RoundsOf(Gap(exact, amount), n, PlaceOf(S, r, seed, p))
  BY <1>3, <1>4 DEF RoundsOf
<1> HIDE DEF rounds, r
<1>6. step = IF Gap(exact, amount) > 0 THEN 1 ELSE -1
  BY <1>4
<1> HIDE DEF step
<1> QED BY <1>2, <1>4, <1>5, <1>6 DEF n, r

-----------------------------------------------------------------------------
(* The cents distributed add up.                                             *)

(* What is kept is whole, and so are the parts that are left.                *)
LEMMA KeptType ==
    ASSUME NEW exact, NEW m \in Nat \ {0}, NEW v,
           \A p \in DOMAIN exact : Stands(exact[p], m, v[p])
    PROVE  /\ Kept(exact) \in [DOMAIN exact -> Int]
           /\ PartsOf(exact, m, v) \in [DOMAIN exact -> Int]
           /\ \A p \in DOMAIN exact : Kept(exact)[p] = Truncated(exact[p])
           /\ \A p \in DOMAIN exact : PartsOf(exact, m, v)[p] = Parts(exact[p], m, v[p])
<1>1. \A p \in DOMAIN exact : Truncated(exact[p]) \in Int /\ Parts(exact[p], m, v[p]) \in Int
  BY LeftoverIs
<1> QED BY <1>1 DEF Kept, PartsOf

(* The cents that are left are what the amount exceeds the kept ones by.     *)
LEMMA GapType ==
    ASSUME NEW exact, IsFiniteSet(DOMAIN exact), NEW amount \in Int, NEW m \in Nat \ {0}, NEW v,
           \A p \in DOMAIN exact : Stands(exact[p], m, v[p])
    PROVE  /\ SumFunction(Kept(exact)) = SumFunctionOnSet(Kept(exact), DOMAIN exact)
           /\ SumFunction(Kept(exact)) \in Int
           /\ Gap(exact, amount) \in Int
           /\ amount = SumFunction(Kept(exact)) + Gap(exact, amount)
<1>1. DOMAIN Kept(exact) = DOMAIN exact
  BY DEF Kept
<1>2. SumFunction(Kept(exact)) = SumFunctionOnSet(Kept(exact), DOMAIN exact)
  BY <1>1 DEF SumFunction
<1>3. Integral(Kept(exact), DOMAIN exact)
  BY KeptType DEF Integral
<1>4. SumFunctionOnSet(Kept(exact), DOMAIN exact) \in Int
  BY <1>3, SumSteps DEF Stepwise
<1> QED BY <1>2, <1>4 DEF Gap

(* Everybody is handed a natural number of cents.                            *)
LEMMA RoundsType ==
    ASSUME NEW gap \in Int, NEW n \in Nat \ {0}, NEW place
    PROVE  RoundsOf(gap, n, place) \in Nat
<1>1. Magnitude(gap) \in Nat
  BY MagnitudeIs
<1>2. Magnitude(gap) \div n \in Nat
  BY <1>1, Remainder
<1> QED BY <1>2 DEF RoundsOf

(* f is what each of S is handed of the gap.                                 *)
Rounding(f, S, r, seed, gap) ==
    \A p \in S : f[p] = RoundsOf(gap, Cardinality(S), PlaceOf(S, r, seed, p))

(* All rounds together hand out the whole gap.                               *)
LEMMA RoundsAddUp ==
    ASSUME NEW S \in SUBSET Int, IsFiniteSet(S), S # {}, NEW r \in [S -> Int], NEW seed \in Int,
           NEW gap \in Int,
           NEW f, Rounding(f, S, r, seed, gap)
    PROVE  SumFunctionOnSet(f, S) = Magnitude(gap)
<1> DEFINE n == Cardinality(S)
           d == Magnitude(gap) \div n
           k == Magnitude(gap) % n
           X == {p \in S : PlaceOf(S, r, seed, p) < k}
           ones == [p \in S |-> 1]
           extra == [p \in S |-> IF p \in X THEN 1 ELSE 0]
<1>1. n \in Nat \ {0}
  BY FS_CardinalityType, FS_EmptySet
<1>2. Magnitude(gap) \in Nat
  BY MagnitudeIs
<1>3. d \in Int /\ k \in Int /\ Magnitude(gap) = n * d + k /\ 0 <= k /\ k < n
  <2> DEFINE g == Magnitude(gap)
  <2> HIDE DEF n, g
  <2>1. g \in Int /\ n \in Nat \ {0}
    BY <1>1, <1>2 DEF g
  <2>2. g \div n \in Int /\ g % n \in Int /\ g = n * (g \div n) + (g % n) /\ 0 <= g % n /\ g % n < n
    BY <2>1, Remainder
  <2> QED BY <2>2 DEF g
<1>4. \A p \in S : ones[p] \in Int /\ extra[p] \in Int /\ f[p] = d * ones[p] + extra[p]
  <2> TAKE p \in S
  <2>1. f[p] = d + (IF PlaceOf(S, r, seed, p) < k THEN 1 ELSE 0)
    BY DEF RoundsOf, Rounding
  <2>2. ones[p] = 1 /\ extra[p] = IF PlaceOf(S, r, seed, p) < k THEN 1 ELSE 0
    OBVIOUS
  <2> HIDE DEF d, k, ones, extra
  <2> QED BY <1>3, <2>1, <2>2
<1>5. Cardinality(X) = k
  <2>1. k \in 0..Cardinality(S)
    BY <1>1, <1>3
  <2> HIDE DEF k
  <2> QED BY <2>1, PlacesBelow
<1>6. SumFunctionOnSet(extra, S) = k
  <2>1. X \in SUBSET S /\ \A p \in S : extra[p] = IF p \in X THEN 1 ELSE 0
    OBVIOUS
  <2> HIDE DEF extra, X
  <2> QED BY <1>5, <2>1, SumCounts
<1>7. SumFunctionOnSet(ones, S) = n
  <2>1. S \in SUBSET S /\ \A p \in S : ones[p] = IF p \in S THEN 1 ELSE 0
    OBVIOUS
  <2> HIDE DEF ones
  <2> QED BY <2>1, SumCounts
<1> HIDE DEF ones, extra, d, k, X, n
<1>8. SumFunctionOnSet(f, S) = d * SumFunctionOnSet(ones, S) + SumFunctionOnSet(extra, S)
  <2>1. Linear(f, d, ones, extra, S)
    BY <1>4 DEF Linear
  <2> QED BY <1>3, <2>1, SumLinear
<1>9. SumFunctionOnSet(f, S) = d * n + k
  BY <1>6, <1>7, <1>8
<1> QED BY <1>1, <1>3, <1>9

(* remainder-distribution.ts: no cent is lost and none is made, whatever is  *)
(* distributed, among whomever and with whatever seed.                       *)
THEOREM DistributeAddsUp ==
    ASSUME NEW exact, NEW amount \in Int, NEW seed \in Int,
           DOMAIN exact \in SUBSET Int, IsFiniteSet(DOMAIN exact), DOMAIN exact # {},
           \A p \in DOMAIN exact : exact[p] \in Frac
    PROVE  /\ Distribute(exact, amount, seed) \in [DOMAIN exact -> Int]
           /\ SumFunction(Distribute(exact, amount, seed)) = amount
<1> DEFINE S == DOMAIN exact
<1>1. PICK m \in Nat \ {0} : \A p \in S : \E w \in Int : Stands(exact[p], m, w)
  BY CommonDenominator
<1> DEFINE v == [p \in S |-> CHOOSE w \in Int : Stands(exact[p], m, w)]
<1>2. \A p \in S : Stands(exact[p], m, v[p])
  BY <1>1
<1> HIDE DEF v
<1> DEFINE r == PartsOf(exact, m, v)
           gap == Gap(exact, amount)
           n == Cardinality(S)
           kept == Kept(exact)
           step == IF gap > 0 THEN 1 ELSE -1
           f == [p \in S |-> RoundsOf(gap, n, PlaceOf(S, r, seed, p))]
           cents == Distribute(exact, amount, seed)
<1>3. kept \in [S -> Int] /\ r \in [S -> Int]
  BY <1>2, KeptType
<1>4. /\ SumFunction(kept) = SumFunctionOnSet(kept, S) /\ SumFunction(kept) \in Int
      /\ gap \in Int /\ amount = SumFunction(kept) + gap
  BY <1>2, GapType
<1>5. n \in Nat \ {0}
  BY FS_CardinalityType, FS_EmptySet
<1>6. cents = [p \in S |-> kept[p] + step * RoundsOf(gap, n, PlaceOf(S, r, seed, p))]
  BY <1>2, DistributeIs
<1> HIDE DEF r, gap, n, kept, cents
<1>7. \A p \in S : f[p] \in Int /\ kept[p] \in Int /\ cents[p] = step * f[p] + kept[p]
  <2> TAKE p \in S
  <2>1. f[p] \in Nat
    BY <1>4, <1>5, RoundsType
  <2>2. cents[p] = kept[p] + step * f[p]
    BY <1>6
  <2>3. kept[p] \in Int /\ step \in Int
    BY <1>3
  <2> HIDE DEF step, f
  <2> QED BY <2>1, <2>2, <2>3
<1>8. step \in Int /\ gap = step * Magnitude(gap)
  BY <1>4, MagnitudeIs
<1>9. SumFunctionOnSet(f, S) = Magnitude(gap)
  <2>1. Rounding(f, S, r, seed, gap)
    BY DEF n, Rounding
  <2>2. S \in SUBSET Int /\ IsFiniteSet(S) /\ S # {}
    OBVIOUS
  <2> HIDE DEF f, S
  <2> QED BY <1>3, <1>4, <2>1, <2>2, RoundsAddUp
<1>10. cents \in [S -> Int] /\ DOMAIN cents = S
  <2>1. \A p \in S : kept[p] + step * RoundsOf(gap, n, PlaceOf(S, r, seed, p)) \in Int
    <3> TAKE p \in S
    <3>1. RoundsOf(gap, n, PlaceOf(S, r, seed, p)) \in Int /\ kept[p] \in Int
      BY <1>3, <1>4, <1>5, RoundsType
    <3> HIDE DEF step
    <3> QED BY <1>8, <3>1
  <2> QED BY <1>6, <2>1
<1> HIDE DEF f, step
<1>11. SumFunctionOnSet(cents, S) = step * SumFunctionOnSet(f, S) + SumFunctionOnSet(kept, S)
  <2>1. IsFiniteSet(S) /\ Linear(cents, step, f, kept, S)
    BY <1>7 DEF Linear
  <2> HIDE DEF S
  <2> QED BY <1>8, <2>1, SumLinear
<1>12. SumFunction(cents) = SumFunctionOnSet(cents, S)
  BY <1>10 DEF SumFunction
<1>13. SumFunction(cents) = amount
  BY <1>4, <1>8, <1>9, <1>11, <1>12
<1> QED BY <1>10, <1>13 DEF cents

-----------------------------------------------------------------------------
(* Nobody is more than a cent off.                                           *)

(* What is kept of an amount that is not negative, and what is left of it.   *)
LEMMA KeptOfAmount ==
    ASSUME NEW a, NEW m \in Nat \ {0}, NEW v, Stands(a, m, v), v >= 0
    PROVE  /\ v = m * Truncated(a) + Parts(a, m, v)
           /\ Parts(a, m, v) \in 0..(m - 1)
           /\ Below(a, Whole(Truncated(a) + 1))
           /\ Below(Whole(Truncated(a) - 1), a)
           /\ Parts(a, m, v) > 0 => Below(Whole(Truncated(a)), a)
<1> DEFINE n == a.num
           d == a.den
           t == n \div d
           e == n % d
<1>1. n \in Int /\ d \in Nat \ {0} /\ v \in Int /\ n * m = v * d
  BY DEF Stands, Frac
<1>2. t \in Int /\ e \in Int /\ n = d * t + e /\ 0 <= e /\ e < d
  <2> HIDE DEF n, d
  <2> QED BY <1>1, Remainder
<1>3. n >= 0
  <2> HIDE DEF n, d
  <2>1. n < 0 => n * m < 0
    BY <1>1
  <2>2. v * d >= 0
    BY <1>1
  <2> QED BY <1>1, <2>1, <2>2
<1>4. Truncated(a) = t
  BY <1>1, <1>3 DEF Truncated
<1> DEFINE f == v - t * m
<1>5. Parts(a, m, v) = Magnitude(f)
  BY <1>4 DEF Parts
<1>6. /\ Below(a, Whole(t + 1)) <=> n * 1 < (t + 1) * d
      /\ Below(Whole(t - 1), a) <=> (t - 1) * d < n * 1
      /\ Below(Whole(t), a) <=> t * d < n * 1
  BY DEF Below, Whole
<1> HIDE DEF n, d, t, e
<1>7. f \in Int /\ f * d = e * m
  <2>1. f * d = v * d - (t * m) * d
    BY <1>1, <1>2
  <2>2. n * m = (d * t) * m + e * m
    BY <1>1, <1>2
  <2>3. (d * t) * m = (t * m) * d
    BY <1>1, <1>2
  <2> QED BY <1>1, <1>2, <2>1, <2>2, <2>3
<1>8. v = m * t + f
  BY <1>1, <1>2
<1> HIDE DEF f
<1>9. f >= 0
  <2>1. f < 0 => f * d < 0
    BY <1>1, <1>7
  <2>2. e * m >= 0
    BY <1>2
  <2>3. f * d \in Int
    BY <1>1, <1>7
  <2> QED BY <1>7, <2>1, <2>2, <2>3
<1>10. f < m
  <2>1. f >= m => f * d >= m * d
    BY <1>1, <1>7
  <2>2. e * m < d * m
    BY <1>1, <1>2
  <2>3. m * d = d * m /\ f * d \in Int /\ m * d \in Int
    BY <1>1, <1>7
  <2> QED BY <1>7, <2>1, <2>2, <2>3
<1>11. Magnitude(f) = f
  BY <1>7, <1>9, MagnitudeIs
<1>12. n * 1 < (t + 1) * d /\ (t - 1) * d < n * 1
  <2>1. (t + 1) * d = d * t + d /\ (t - 1) * d = d * t - d /\ d * t \in Int
    BY <1>1, <1>2
  <2> QED BY <1>1, <1>2, <2>1
<1>13. f > 0 => t * d < n * 1
  <2>1. t * d = d * t /\ d * t \in Int
    BY <1>1, <1>2
  <2>2. e = 0 => f * d = 0
    BY <1>7
  <2>3. f > 0 => f * d > 0
    BY <1>1, <1>7
  <2> QED BY <1>1, <1>2, <2>1, <2>2, <2>3
<1> QED BY <1>4, <1>5, <1>6, <1>7, <1>8, <1>9, <1>10, <1>11, <1>12, <1>13

(* The amounts are v parts of which m make a whole, none of them negative.   *)
Split(exact, m, v) == \A p \in DOMAIN exact : Stands(exact[p], m, v[p]) /\ v[p] >= 0

(* If the exact amounts add up, fewer cents are left than participants have  *)
(* a part of one.                                                            *)
LEMMA GapIsSmall ==
    ASSUME NEW exact, NEW amount \in Int, NEW m \in Nat \ {0}, NEW v,
           IsFiniteSet(DOMAIN exact), Split(exact, m, v),
           SumFunctionOnSet(v, DOMAIN exact) = amount * m
    PROVE  LET gap == Gap(exact, amount)
               some == {p \in DOMAIN exact : PartsOf(exact, m, v)[p] > 0}
           IN  /\ gap \in Nat
               /\ Cardinality(some) \in Nat
               /\ gap <= Cardinality(some)
               /\ gap > 0 => gap < Cardinality(some)
<1> DEFINE S == DOMAIN exact
           r == PartsOf(exact, m, v)
           kept == Kept(exact)
           gap == Gap(exact, amount)
           some == {p \in S : r[p] > 0}
           one == [p \in S |-> IF p \in some THEN 1 ELSE 0]
           less == [p \in S |-> (m - 1) * one[p] - r[p]]
           c == Cardinality(some)
<1>0. IsFiniteSet(S)
  OBVIOUS
<1>1. \A p \in S : Stands(exact[p], m, v[p]) /\ v[p] >= 0 /\ v[p] \in Int
  BY DEF Split, Stands
<1>2. \A p \in S : kept[p] = Truncated(exact[p]) /\ kept[p] \in Int /\ r[p] = Parts(exact[p], m, v[p])
  BY <1>1, KeptType
<1>3. \A p \in S : v[p] = m * kept[p] + r[p] /\ r[p] \in 0..(m - 1)
  BY <1>1, <1>2, KeptOfAmount
<1>4. /\ SumFunction(kept) = SumFunctionOnSet(kept, S) /\ SumFunction(kept) \in Int
      /\ gap \in Int /\ amount = SumFunction(kept) + gap
  BY <1>1, GapType
<1> HIDE DEF kept, gap, r
<1>5. some \in SUBSET S /\ \A p \in S : one[p] = IF p \in some THEN 1 ELSE 0
  OBVIOUS
<1>6. c \in Nat
  BY FS_Subset, FS_CardinalityType
<1>7. SumFunctionOnSet(one, S) = c
  <2> HIDE DEF one, some, S
  <2> QED BY <1>0, <1>5, SumCounts
<1>8. Linear(v, m, kept, r, S)
  BY <1>2, <1>3 DEF Linear
<1>9. \A p \in S : one[p] \in Int /\ (r[p] > 0 => one[p] = 1) /\ (r[p] = 0 => one[p] = 0)
  BY <1>3
<1>10. \A p \in S : less[p] \in Nat /\ less[p] \in Int /\ r[p] \in Nat /\ r[p] \in Int
  <2> TAKE p \in S
  <2>1. r[p] \in 0..(m - 1) /\ m \in Nat \ {0}
    BY <1>3
  <2>2. less[p] = (m - 1) * one[p] - r[p]
    OBVIOUS
  <2> HIDE DEF less, one
  <2>3. CASE r[p] > 0
    BY <1>9, <2>1, <2>2, <2>3
  <2>4. CASE r[p] = 0
    BY <1>9, <2>1, <2>2, <2>4
  <2> QED BY <2>1, <2>3, <2>4
<1>11. \A p \in S : (m - 1) * one[p] = 1 * r[p] + less[p]
  <2> TAKE p \in S
  <2>1. less[p] = (m - 1) * one[p] - r[p]
    OBVIOUS
  <2>2. r[p] \in Int /\ one[p] \in Int /\ m - 1 \in Int
    BY <1>9, <1>10
  <2> HIDE DEF less, one
  <2>3. (m - 1) * one[p] \in Int
    BY <2>2
  <2> QED BY <2>1, <2>2, <2>3
<1> DEFINE all == [p \in S |-> (m - 1) * one[p]]
           none == [p \in S |-> 0]
<1>12. Linear(all, 1, r, less, S)
  BY <1>10, <1>11 DEF Linear
<1>13. Linear(all, m - 1, one, none, S)
  BY <1>9 DEF Linear
<1>14. SumFunctionOnSet(none, S) = 0
  BY <1>0, SumOfZeros
<1> HIDE DEF S, one, less, all, none, c, some
<1>15. SumFunctionOnSet(v, S) = m * SumFunctionOnSet(kept, S) + SumFunctionOnSet(r, S)
  BY <1>0, <1>8, SumLinear
<1>16. SumFunctionOnSet(all, S) = 1 * SumFunctionOnSet(r, S) + SumFunctionOnSet(less, S)
  BY <1>0, <1>12, SumLinear
<1>17. SumFunctionOnSet(all, S) = (m - 1) * SumFunctionOnSet(one, S) + SumFunctionOnSet(none, S)
  <2>1. m - 1 \in Int
    OBVIOUS
  <2> QED BY <1>0, <1>13, <2>1, SumLinear
<1>18. SumFunctionOnSet(r, S) \in Nat /\ SumFunctionOnSet(less, S) \in Nat
  BY <1>0, <1>10, SumNotNegative
<1> DEFINE R == SumFunctionOnSet(r, S)
<1>19. R = m * gap
  <2>1. amount * m = m * SumFunction(kept) + R
    BY <1>4, <1>15 DEF S
  <2>2. amount * m = m * SumFunction(kept) + m * gap
    BY <1>4
  <2> QED BY <1>4, <1>18, <2>1, <2>2
<1>20. R <= (m - 1) * c
  <2>1. (m - 1) * c + 0 = 1 * R + SumFunctionOnSet(less, S)
    BY <1>7, <1>14, <1>16, <1>17
  <2>2. (m - 1) * c \in Int
    BY <1>6
  <2> QED BY <1>18, <2>1, <2>2
<1>21. R \in Nat
  BY <1>18
<1> HIDE DEF R
<1>22. gap >= 0
  <2>1. gap < 0 => m * gap < 0
    BY <1>4
  <2> QED BY <1>4, <1>19, <1>21, <2>1
<1>23. m * gap <= m * c - c
  <2>1. (m - 1) * c = m * c - c
    BY <1>6
  <2> QED BY <1>19, <1>20, <2>1
<1>24. gap <= c
  <2>1. gap > c => m * gap > m * c
    BY <1>4, <1>6
  <2>2. m * c \in Int /\ m * gap \in Int
    BY <1>4, <1>6
  <2> QED BY <1>4, <1>6, <1>23, <2>1, <2>2
<1>25. gap > 0 => gap < c
  <2>1. gap = c /\ gap > 0 => m * gap = m * c /\ c > 0
    BY <1>4
  <2>2. m * c \in Int /\ m * gap \in Int
    BY <1>4, <1>6
  <2> QED BY <1>4, <1>6, <1>23, <1>24, <2>1, <2>2
<1> QED BY <1>4, <1>6, <1>22, <1>24, <1>25 DEF c, some, S, gap, r

(* If the exact amounts add up and none is negative, one cent each goes to   *)
(* as many as there are cents left, and only to those who have a part of one.*)
LEMMA CentsHanded ==
    ASSUME NEW exact, NEW amount \in Int, NEW seed \in Int, NEW m \in Nat \ {0}, NEW v,
           DOMAIN exact \in SUBSET Int, IsFiniteSet(DOMAIN exact), Split(exact, m, v),
           SumFunctionOnSet(v, DOMAIN exact) = amount * m,
           NEW p \in DOMAIN exact
    PROVE  LET place == PlaceOf(DOMAIN exact, PartsOf(exact, m, v), seed, p)
               gap == Gap(exact, amount)
           IN  /\ gap \in Nat
               /\ place < gap => PartsOf(exact, m, v)[p] > 0
               /\ Distribute(exact, amount, seed)[p] =
                     Truncated(exact[p]) + IF place < gap THEN 1 ELSE 0
<1> DEFINE S == DOMAIN exact
           r == PartsOf(exact, m, v)
           kept == Kept(exact)
           gap == Gap(exact, amount)
           some == {q \in S : r[q] > 0}
           n == Cardinality(S)
           place == PlaceOf(S, r, seed, p)
           cents == Distribute(exact, amount, seed)
           t == Truncated(exact[p])
<1>1. \A q \in S : Stands(exact[q], m, v[q]) /\ v[q] >= 0
  BY DEF Split
<1>2. /\ \A q \in S : kept[q] = Truncated(exact[q]) /\ r[q] = Parts(exact[q], m, v[q])
      /\ kept \in [S -> Int] /\ r \in [S -> Int]
  <2>1. \A q \in S : kept[q] = Truncated(exact[q]) /\ r[q] = Parts(exact[q], m, v[q])
    BY <1>1, KeptType
  <2>2. \A q \in S : Truncated(exact[q]) \in Int /\ Parts(exact[q], m, v[q]) \in Int
    BY <1>1, LeftoverIs
  <2> QED BY <2>1, <2>2 DEF Kept, PartsOf
<1>3. /\ gap \in Nat /\ Cardinality(some) \in Nat
      /\ gap <= Cardinality(some) /\ (gap > 0 => gap < Cardinality(some))
  BY GapIsSmall
<1>4. cents = [q \in S |-> kept[q] + (IF gap > 0 THEN 1 ELSE -1)
                              * RoundsOf(gap, n, PlaceOf(S, r, seed, q))]
  BY <1>1, DistributeIs
<1>5. n \in Nat \ {0} /\ Cardinality(some) <= n
  BY FS_CardinalityType, FS_EmptySet, FS_Subset
<1>6. \A q \in S : r[q] \in Nat
  BY <1>1, <1>2, LeftoverIs
<1>7. place < gap => r[p] > 0
  <2> SUFFICES ASSUME place < gap, ~(r[p] > 0) PROVE FALSE
    OBVIOUS
  <2>1. r[p] = 0
    BY <1>6
  <2>2. Ahead(S, r, p) = some
    BY <1>6, <2>1 DEF Ahead
  <2>3. TurnOf(S, r, seed, p) \in 0..(Cardinality(Level(S, r, p)) - 1)
    BY <1>2, TurnRange
  <2>4. Cardinality(Level(S, r, p)) \in Nat
    BY <1>2, Sizes
  <2>5. place = Cardinality(some) + TurnOf(S, r, seed, p)
    BY <2>2 DEF PlaceOf
  <2> HIDE DEF place, gap, some
  <2> QED BY <1>3, <2>3, <2>4, <2>5
<1>8. place \in Nat
  <2>1. place \in 0..(n - 1)
    BY <1>2, PlaceRange
  <2> QED BY <1>5, <2>1
<1>9. cents[p] = t + IF place < gap THEN 1 ELSE 0
  <2>1. cents[p] = t + (IF gap > 0 THEN 1 ELSE -1) * RoundsOf(gap, n, place)
    BY <1>2, <1>4
  <2>2. gap < n /\ Magnitude(gap) = gap
    <3> HIDE DEF gap, n, some
    <3>1. gap < n
      BY <1>3, <1>5
    <3> QED BY <1>3, <3>1, MagnitudeIs
  <2>3. gap \div n = 0 /\ gap % n = gap
    <3> HIDE DEF gap, n
    <3>1. (n * 0 + gap) \div n = 0 /\ (n * 0 + gap) % n = gap
      BY <1>3, <1>5, <2>2, DivisionUnique
    <3>2. n * 0 + gap = gap
      BY <1>3, <1>5
    <3> QED BY <3>1, <3>2
  <2>4. RoundsOf(gap, n, place) = IF place < gap THEN 1 ELSE 0
    <3> HIDE DEF gap, n, place
    <3> QED BY <1>3, <2>2, <2>3 DEF RoundsOf
  <2>5. t \in Int
    BY <1>1, LeftoverIs
  <2> HIDE DEF gap, n, place, t, cents
  <2>6. CASE place < gap
    BY <1>3, <1>8, <2>1, <2>4, <2>5, <2>6
  <2>7. CASE ~(place < gap)
    BY <1>3, <1>8, <2>1, <2>4, <2>5, <2>7
  <2> QED BY <2>6, <2>7
<1> QED BY <1>3, <1>7, <1>9

(* remainder-distribution.ts: if the exact amounts add up to the amount and  *)
(* none is negative, everybody gets theirs rounded up or down.               *)
THEOREM DistributeWithin ==
    ASSUME NEW exact, NEW amount \in Int, NEW seed \in Int, NEW m \in Nat \ {0}, NEW v,
           DOMAIN exact \in SUBSET Int, IsFiniteSet(DOMAIN exact), Split(exact, m, v),
           SumFunctionOnSet(v, DOMAIN exact) = amount * m,
           NEW p \in DOMAIN exact
    PROVE  LET cents == Distribute(exact, amount, seed)
           IN  /\ Below(exact[p], Whole(cents[p] + 1))
               /\ Below(Whole(cents[p] - 1), exact[p])
<1> DEFINE r == PartsOf(exact, m, v)
           gap == Gap(exact, amount)
           place == PlaceOf(DOMAIN exact, r, seed, p)
           cents == Distribute(exact, amount, seed)
           t == Truncated(exact[p])
<1>1. Stands(exact[p], m, v[p]) /\ v[p] >= 0
  BY DEF Split
<1>2. /\ place < gap => r[p] > 0
      /\ cents[p] = t + IF place < gap THEN 1 ELSE 0
  BY CentsHanded
<1>3. r[p] = Parts(exact[p], m, v[p])
  BY DEF PartsOf
<1>4. /\ Below(exact[p], Whole(t + 1)) /\ Below(Whole(t - 1), exact[p])
      /\ r[p] > 0 => Below(Whole(t), exact[p])
  BY <1>1, <1>3, KeptOfAmount
<1>5. t \in Int /\ exact[p].num \in Int /\ exact[p].den \in Nat \ {0}
  BY <1>1, LeftoverIs DEF Stands, Frac
<1>6. Below(exact[p], Whole(cents[p] + 1)) /\ Below(Whole(cents[p] - 1), exact[p])
  <2> HIDE DEF place, gap, r, cents
  <2>1. CASE place < gap
    <3>1. cents[p] = t + 1 /\ cents[p] - 1 = t
      BY <1>2, <1>5, <2>1
    <3>2. Below(Whole(cents[p] - 1), exact[p])
      BY <1>4, <1>2, <2>1, <3>1
    <3>3. exact[p].num * 1 < (t + 1) * exact[p].den
      BY <1>4 DEF Below, Whole
    <3>4. (t + 1) * exact[p].den <= (t + 2) * exact[p].den
      BY <1>5
    <3>5. exact[p].num * 1 < (t + 2) * exact[p].den
      BY <1>5, <3>3, <3>4
    <3>6. cents[p] + 1 = t + 2
      BY <1>5, <3>1
    <3> QED BY <3>2, <3>5, <3>6 DEF Below, Whole
  <2>2. CASE ~(place < gap)
    <3>1. cents[p] = t
      BY <1>2, <1>5, <2>2
    <3> QED BY <1>4, <3>1
  <2> QED BY <2>1, <2>2
<1> QED BY <1>6

-----------------------------------------------------------------------------
(* The same of what all the expenses of a ledger come to.                    *)

(* Sides of expenses among U: each adds up to its amount, in shares none of  *)
(* which is negative.                                                        *)
Sides(a, S, U, amount) ==
    \A i \in S : /\ a[i] \in Shares(U) /\ amount[i] \in Int
                 /\ Total(a[i]) = Whole(amount[i])
                 /\ \A p \in DOMAIN a[i] : a[i][p].num >= 0
(* V has what each of U gets of each side, in parts of which m make a whole. *)
Tabled(V, a, S, U, m) == \A i \in S : \A p \in U : Stands(Of(a[i], p), m, V[i][p])

(* Who has no part has nothing.                                              *)
LEMMA OfType ==
    ASSUME NEW U, NEW one \in Shares(U)
    PROVE  /\ DOMAIN one \subseteq U
           /\ \A p : Of(one, p) \in Frac
           /\ \A p : p \notin DOMAIN one => Of(one, p) = Whole(0)
           /\ \A p \in DOMAIN one : Of(one, p) = one[p]
<1>1. Whole(0) \in Frac
  BY DEF Whole, Frac
<1>2. DOMAIN one \subseteq U /\ \A p \in DOMAIN one : one[p] \in Frac
  BY DEF Shares
<1> QED BY <1>1, <1>2 DEF Of

(* The sides of finitely many expenses, in parts of one size.                *)
LEMMA TableOfParts ==
    ASSUME NEW S, IsFiniteSet(S), NEW U, IsFiniteSet(U), NEW a,
           \A i \in S : a[i] \in Shares(U)
    PROVE  \E m \in Nat \ {0} : \E V : Tabled(V, a, S, U, m)
<1> DEFINE b == [z \in S \X U |-> Of(a[z[1]], z[2])]
<1>1. IsFiniteSet(S \X U)
  BY FS_Product
<1>2. \A z \in S \X U : b[z] \in Frac
  BY OfType
<1>3. PICK m \in Nat \ {0} : \A z \in S \X U : \E v \in Int : Stands(b[z], m, v)
  <2> HIDE DEF b
  <2> QED BY <1>1, <1>2, CommonDenominator
<1> DEFINE V == [i \in S |-> [p \in U |-> CHOOSE v \in Int : Stands(b[<<i, p>>], m, v)]]
<1>4. ASSUME NEW i \in S, NEW p \in U PROVE Stands(Of(a[i], p), m, V[i][p])
  <2>1. <<i, p>> \in S \X U /\ b[<<i, p>>] = Of(a[i], p)
    OBVIOUS
  <2>2. V[i][p] = CHOOSE v \in Int : Stands(b[<<i, p>>], m, v)
    OBVIOUS
  <2> HIDE DEF b, V
  <2> QED BY <1>3, <2>1, <2>2
<1> HIDE DEF V
<1>5. Tabled(V, a, S, U, m)
  BY <1>4 DEF Tabled
<1> QED BY <1>5

(* Parts have the sign of their fraction.                                    *)
LEMMA StandsSigned ==
    ASSUME NEW a, NEW m \in Nat \ {0}, NEW v, Stands(a, m, v)
    PROVE  /\ a.num >= 0 => v \in Nat
           /\ a = Whole(0) => v = 0
<1>1. v \in Int /\ a.num \in Int /\ a.den \in Nat \ {0} /\ a.num * m = v * a.den
  BY DEF Stands, Frac
<1>2. a.num >= 0 => v \in Nat
  <2> SUFFICES ASSUME a.num >= 0 PROVE v \in Nat
    OBVIOUS
  <2>1. \A x, y \in Int : \A d, k \in Nat \ {0} : x >= 0 /\ x * k = y * d => y >= 0
    <3> TAKE x, y \in Int
    <3> TAKE d, k \in Nat \ {0}
    <3> HAVE x >= 0 /\ x * k = y * d
    <3>1. x * k >= 0
      OBVIOUS
    <3>2. y < 0 => y * d < 0
      OBVIOUS
    <3> QED BY <3>1, <3>2
  <2> DEFINE n == a.num
             d == a.den
  <2>2. n \in Int /\ d \in Nat \ {0} /\ n >= 0 /\ n * m = v * d
    BY <1>1
  <2> HIDE DEF n, d
  <2> QED BY <1>1, <2>1, <2>2
<1>3. a = Whole(0) => v = 0
  <2>1. Stands(Whole(0), m, 0 * m) /\ 0 * m = 0
    BY StandsWhole
  <2> QED BY <2>1, StandsUnique
<1> QED BY <1>2, <1>3

(* In parts, a row of the table adds up to the amount of its expense.        *)
LEMMA RowAddsUp ==
    ASSUME NEW one, NEW U, IsFiniteSet(U), one \in Shares(U), NEW n \in Int,
           Total(one) = Whole(n), \A p \in DOMAIN one : one[p].num >= 0,
           NEW m \in Nat \ {0}, NEW v, \A p \in U : Stands(Of(one, p), m, v[p])
    PROVE  /\ \A p \in U : v[p] \in Nat
           /\ SumFunctionOnSet(v, U) = n * m
<1>1. /\ DOMAIN one \subseteq U
      /\ \A p : p \notin DOMAIN one => Of(one, p) = Whole(0)
      /\ \A p \in DOMAIN one : Of(one, p) = one[p]
  BY OfType
<1>2. \A p \in U : p \notin DOMAIN one => v[p] = 0
  BY <1>1, StandsSigned
<1>3. \A p \in DOMAIN one : v[p] \in Nat
  BY <1>1, StandsSigned
<1>4. IsFiniteSet(DOMAIN one)
  BY <1>1, FS_Subset
<1>5. \A p \in DOMAIN one : Stands(one[p], m, v[p])
  BY <1>1
<1>6. Stands(Total(one), m, SumFunctionOnSet(v, DOMAIN one))
  BY <1>4, <1>5, TotalStands
<1>7. SumFunctionOnSet(v, DOMAIN one) = n * m
  BY <1>6, StandsWhole, StandsUnique
<1>8. \A p \in U : v[p] \in Nat
  BY <1>2, <1>3
<1>9. SumFunctionOnSet(v, U) = SumFunctionOnSet(v, DOMAIN one)
  <2>1. \A p \in U : v[p] \in Int /\ (p \notin DOMAIN one => v[p] = 0)
    BY <1>2, <1>8
  <2> QED BY <1>1, <2>1, SumSupport
<1> QED BY <1>7, <1>8, <1>9

(* The columns of the table: what all the sides come to for each of U.        *)
Columns(V, S, U) == [p \in U |-> SumFunctionOnSet([i \in S |-> V[i][p]], S)]

(* What is due in all, in parts, to the participants of the sides of some    *)
(* expenses.                                                                 *)
LEMMA ColumnsStand ==
    ASSUME NEW S, IsFiniteSet(S), NEW U, IsFiniteSet(U), NEW a, NEW amount, Sides(a, S, U, amount),
           NEW m \in Nat \ {0}, NEW V, Tabled(V, a, S, U, m)
    PROVE  /\ AllAdded(a, S) \in Shares(U)
           /\ SumFunctionOnSet(amount, S) \in Int
           /\ \A i \in S : \A p \in U : V[i][p] \in Nat
           /\ \A p \in U : /\ Columns(V, S, U)[p] \in Nat
                           /\ Stands(Of(AllAdded(a, S), p), m, Columns(V, S, U)[p])
           /\ SumFunctionOnSet(Columns(V, S, U), U) = SumFunctionOnSet(amount, S) * m
<1> DEFINE exact == AllAdded(a, S)
           sum == SumFunctionOnSet(amount, S)
<1>1. /\ \A i \in S : a[i] \in Shares(U)
      /\ \A i \in S : amount[i] \in Int
  BY DEF Sides
<1>2. exact \in Shares(U)
  BY <1>1, AllAddedType
<1>3. sum \in Int
  BY <1>1, SumUnfolds
<1> DEFINE b == Columns(V, S, U)
           c == [i \in S |-> amount[i] * m]
           zero == [i \in S |-> 0]
<1>4. ASSUME NEW i \in S PROVE (\A p \in U : V[i][p] \in Nat) /\ c[i] = SumFunctionOnSet(V[i], U)
  <2>1. /\ a[i] \in Shares(U) /\ amount[i] \in Int
        /\ Total(a[i]) = Whole(amount[i])
        /\ \A p \in DOMAIN a[i] : a[i][p].num >= 0
    BY DEF Sides
  <2>2. \A p \in U : Stands(Of(a[i], p), m, V[i][p])
    BY DEF Tabled
  <2>3. (\A p \in U : V[i][p] \in Nat) /\ SumFunctionOnSet(V[i], U) = amount[i] * m
    <3> HIDE DEF exact, sum, b, c, zero
    <3> QED BY <2>1, <2>2, RowAddsUp
  <2> QED BY <2>3
<1>5. SumFunctionOnSet(c, S) = SumFunctionOnSet(b, U)
  <2>1. \A i \in S : \A p \in U : V[i][p] \in Int
    BY <1>4
  <2>2. \A i \in S : c[i] = SumFunctionOnSet(V[i], U)
    BY <1>4
  <2>3. \A p \in U : b[p] = SumFunctionOnSet([i \in S |-> V[i][p]], S)
    BY DEF Columns
  <2>4. Tallied(V, c, b, S, U)
    BY <2>1, <2>2, <2>3 DEF Tallied
  <2> HIDE DEF c, b
  <2> QED BY <2>4, SumSwap
<1>6. SumFunctionOnSet(c, S) = sum * m
  <2>1. Linear(c, m, amount, zero, S)
    <3>1. \A i \in S : amount[i] * m = m * amount[i] + 0
      BY <1>1
    <3> QED BY <1>1, <3>1 DEF Linear
  <2>2. SumFunctionOnSet(zero, S) = 0
    BY SumOfZeros
  <2> HIDE DEF c, zero
  <2>3. SumFunctionOnSet(c, S) = m * SumFunctionOnSet(amount, S) + SumFunctionOnSet(zero, S)
    BY <2>1, SumLinear
  <2> HIDE DEF sum
  <2>4. SumFunctionOnSet(c, S) = m * sum + 0
    BY <2>2, <2>3 DEF sum
  <2> QED BY <1>3, <2>4
<1>7. ASSUME NEW p \in U PROVE Stands(Of(exact, p), m, b[p]) /\ b[p] \in Nat
  <2> DEFINE w == [i \in S |-> V[i][p]]
  <2>1. \A i \in S : Stands(Of(a[i], p), m, w[i]) /\ w[i] \in Nat
    BY <1>4 DEF Tabled
  <2>2. b[p] = SumFunctionOnSet(w, S)
    BY DEF Columns
  <2> HIDE DEF w, b
  <2>3. Stands(Of(exact, p), m, SumFunctionOnSet(w, S))
    BY <1>1, <2>1, AllAddedStands
  <2>4. SumFunctionOnSet(w, S) \in Nat
    BY <2>1, SumNotNegative
  <2> QED BY <2>2, <2>3, <2>4
<1> HIDE DEF exact, b, c, zero
<1> QED BY <1>2, <1>3, <1>4, <1>5, <1>6, <1>7 DEF exact, b, sum

(* So they split, in parts of some size.                                     *)
LEMMA SidesSplit ==
    ASSUME NEW S, IsFiniteSet(S), NEW U, IsFiniteSet(U), NEW a, NEW amount, Sides(a, S, U, amount)
    PROVE  /\ AllAdded(a, S) \in Shares(U)
           /\ SumFunctionOnSet(amount, S) \in Int
           /\ \E m \in Nat \ {0} : \E b :
                 /\ Split(AllAdded(a, S), m, b)
                 /\ SumFunctionOnSet(b, DOMAIN AllAdded(a, S)) = SumFunctionOnSet(amount, S) * m
<1> DEFINE exact == AllAdded(a, S)
           sum == SumFunctionOnSet(amount, S)
<1>1. \A i \in S : a[i] \in Shares(U)
  BY DEF Sides
<1>2. PICK m \in Nat \ {0} : \E V : Tabled(V, a, S, U, m)
  BY <1>1, TableOfParts
<1>3. PICK V : Tabled(V, a, S, U, m)
  BY <1>2
<1> DEFINE b == Columns(V, S, U)
<1>4. /\ exact \in Shares(U) /\ sum \in Int
      /\ \A p \in U : b[p] \in Nat /\ Stands(Of(exact, p), m, b[p])
      /\ SumFunctionOnSet(b, U) = sum * m
  BY <1>3, ColumnsStand
<1> HIDE DEF exact, b, sum
<1>5. /\ DOMAIN exact \subseteq U
      /\ \A p : p \notin DOMAIN exact => Of(exact, p) = Whole(0)
      /\ \A p \in DOMAIN exact : Of(exact, p) = exact[p]
  BY <1>4, OfType
<1>6. Split(exact, m, b)
  <2>1. \A p \in DOMAIN exact : Stands(exact[p], m, b[p]) /\ b[p] >= 0
    BY <1>4, <1>5
  <2> QED BY <2>1 DEF Split
<1>7. SumFunctionOnSet(b, U) = SumFunctionOnSet(b, DOMAIN exact)
  <2>1. \A p \in U : b[p] \in Int /\ (p \notin DOMAIN exact => b[p] = 0)
    BY <1>4, <1>5, StandsSigned
  <2> QED BY <1>5, <2>1, SumSupport
<1> QED BY <1>4, <1>6, <1>7 DEF exact, sum

(* balances.ts, paid and owed: what finitely many expenses come to for each  *)
(* participant adds up to what they come to in all, and nobody is more than  *)
(* a cent off.                                                               *)
THEOREM SharesWithinACent ==
    ASSUME NEW S, IsFiniteSet(S), NEW U \in SUBSET Int, IsFiniteSet(U), NEW a, NEW amount,
           Sides(a, S, U, amount), NEW seed \in Int
    PROVE  LET exact == AllAdded(a, S)
               sum == SumFunctionOnSet(amount, S)
               cents == Distribute(exact, sum, seed)
           IN  /\ SumFunction(cents) = sum
               /\ \A p \in DOMAIN exact : /\ Below(exact[p], Whole(cents[p] + 1))
                                         /\ Below(Whole(cents[p] - 1), exact[p])
<1> DEFINE exact == AllAdded(a, S)
           sum == SumFunctionOnSet(amount, S)
           cents == Distribute(exact, sum, seed)
<1>1. /\ exact \in Shares(U) /\ sum \in Int
      /\ \E m \in Nat \ {0} : \E b :
            /\ Split(exact, m, b)
            /\ SumFunctionOnSet(b, DOMAIN exact) = sum * m
  BY SidesSplit
<1>2. PICK m \in Nat \ {0} : \E b : /\ Split(exact, m, b)
                                    /\ SumFunctionOnSet(b, DOMAIN exact) = sum * m
  BY <1>1
<1>3. PICK b : /\ Split(exact, m, b)
               /\ SumFunctionOnSet(b, DOMAIN exact) = sum * m
  BY <1>2
<1> HIDE DEF exact, sum
<1>4. DOMAIN exact \in SUBSET Int /\ IsFiniteSet(DOMAIN exact) /\ \A p \in DOMAIN exact : exact[p] \in Frac
  <2>1. DOMAIN exact \subseteq U /\ \A p \in DOMAIN exact : exact[p] \in Frac
    BY <1>1, ZenonT(60) DEF Shares
  <2> QED BY <2>1, FS_Subset
<1>5. \A p \in DOMAIN exact : /\ Below(exact[p], Whole(cents[p] + 1))
                              /\ Below(Whole(cents[p] - 1), exact[p])
  BY <1>1, <1>3, <1>4, DistributeWithin
<1>6. CASE DOMAIN exact # {}
  <2>1. SumFunction(cents) = sum
    BY <1>1, <1>4, <1>6, DistributeAddsUp
  <2> QED BY <1>5, <2>1 DEF exact, sum
<1>7. CASE DOMAIN exact = {}
  <2>1. SumFunctionOnSet(b, {}) = 0
    BY FS_EmptySet, SumOfZeros
  <2>2. sum * m = 0
    BY <1>3, <1>7, <2>1
  <2>3. sum = 0
    <3>1. \A x \in Int : \A k \in Nat \ {0} : x * k = 0 => x = 0
      OBVIOUS
    <3> QED BY <1>1, <2>2, <3>1
  <2>4. DOMAIN cents = {}
    BY <1>7 DEF Distribute
  <2>5. SumFunction(cents) = 0
    <3> HIDE DEF cents
    <3>1. SumFunctionOnSet(cents, {}) = 0
      BY FS_EmptySet, SumOfZeros
    <3> QED BY <2>4, <3>1 DEF SumFunction
  <2> QED BY <1>5, <2>3, <2>5 DEF exact, sum
<1> QED BY <1>6, <1>7

-----------------------------------------------------------------------------
(* Queues and what is picked from a sequence: sort and filter.               *)

(* ahead tells, of each of S, those before it in one order of S.             *)
Orderly(S, ahead) ==
    /\ \A x \in S : ahead[x] \subseteq S \ {x}
    /\ \A x, y \in S : x # y => x \in ahead[y] \/ y \in ahead[x]
    /\ \A x \in S : \A y \in ahead[x] : ahead[y] \subseteq ahead[x]

(* A queue holds everybody, once.                                            *)
LEMMA QueueHolds ==
    ASSUME NEW S, IsFiniteSet(S), NEW ahead, Orderly(S, ahead)
    PROVE  /\ Cardinality(S) \in Nat
           /\ Queue(S, ahead) \in [1..Cardinality(S) -> S]
           /\ \A x \in S : Cardinality(ahead[x]) + 1 \in 1..Cardinality(S)
           /\ \A x \in S : Queue(S, ahead)[Cardinality(ahead[x]) + 1] = x
           /\ \A k \in 1..Cardinality(S) : Cardinality(ahead[Queue(S, ahead)[k]]) = k - 1
<1> DEFINE n == Cardinality(S)
           q == Queue(S, ahead)
           f == [x \in S |-> Cardinality(ahead[x])]
<1>1. n \in Nat
  BY FS_CardinalityType
<1>2. ASSUME NEW x \in S
      PROVE  IsFiniteSet(ahead[x]) /\ Cardinality(ahead[x]) \in 0..(n - 1)
  <2>1. ahead[x] \subseteq S \ {x}
    BY DEF Orderly
  <2>2. IsFiniteSet(S \ {x}) /\ Cardinality(S \ {x}) = n - 1
    BY FS_RemoveElement
  <2>3. IsFiniteSet(ahead[x]) /\ Cardinality(ahead[x]) <= n - 1
    BY <2>1, <2>2, FS_Subset
  <2>4. Cardinality(ahead[x]) \in Nat
    BY <2>3, FS_CardinalityType
  <2> HIDE DEF n
  <2> QED BY <1>1, <2>3, <2>4
<1>3. ASSUME NEW x \in S, NEW y \in S, x \in ahead[y]
      PROVE  Cardinality(ahead[x]) < Cardinality(ahead[y])
  <2>1. ahead[x] \subseteq ahead[y] \ {x}
    BY <1>3 DEF Orderly
  <2>2. IsFiniteSet(ahead[y] \ {x}) /\ Cardinality(ahead[y] \ {x}) = Cardinality(ahead[y]) - 1
    BY <1>2, <1>3, FS_RemoveElement
  <2>3. Cardinality(ahead[x]) <= Cardinality(ahead[y]) - 1
    BY <2>1, <2>2, FS_Subset
  <2>4. Cardinality(ahead[x]) \in Int /\ Cardinality(ahead[y]) \in Int
    BY <1>2
  <2> QED BY <2>3, <2>4
<1>4. \A x, y \in S : f[x] = f[y] => x = y
  <2> SUFFICES ASSUME NEW x \in S, NEW y \in S, f[x] = f[y], x # y PROVE FALSE
    OBVIOUS
  <2>1. Cardinality(ahead[x]) = Cardinality(ahead[y]) /\ Cardinality(ahead[x]) \in Int
    BY <1>2
  <2>2. x \in ahead[y] \/ y \in ahead[x]
    BY DEF Orderly
  <2> QED BY <1>3, <2>1, <2>2
<1>5. f \in Injection(S, 0..(n - 1))
  BY <1>2, <1>4 DEF Injection, IsInjective
<1>6. IsFiniteSet(0..(n - 1)) /\ Cardinality(0..(n - 1)) = n
  <2>1. n - 1 \in Int /\ 0 \in Int
    BY <1>1
  <2> HIDE DEF n
  <2>2. IsFiniteSet(0..(n - 1)) /\ Cardinality(0..(n - 1)) = IF 0 > n - 1 THEN 0 ELSE n - 1 - 0 + 1
    BY <2>1, FS_Interval
  <2> QED BY <1>1, <2>2
<1>7. f \in Surjection(S, 0..(n - 1))
  <2> HIDE DEF f
  <2> QED BY <1>5, <1>6, FS_Injection DEF n
<1>8. \A i \in 0..(n - 1) : \E x \in S : Cardinality(ahead[x]) = i
  BY <1>7 DEF Surjection
<1>9. ASSUME NEW k \in 1..n PROVE q[k] \in S /\ Cardinality(ahead[q[k]]) = k - 1
  <2>1. k - 1 \in 0..(n - 1)
    <3> HIDE DEF n
    <3> QED BY <1>1
  <2>2. \E x \in S : Cardinality(ahead[x]) = k - 1
    BY <1>8, <2>1
  <2>3. q[k] = CHOOSE x \in S : Cardinality(ahead[x]) = k - 1
    BY DEF Queue
  <2> HIDE DEF q
  <2> QED BY <2>2, <2>3
<1>10. q \in [1..n -> S]
  <2>1. q = [k \in 1..n |-> CHOOSE x \in S : Cardinality(ahead[x]) = k - 1]
    BY DEF Queue
  <2>2. DOMAIN q = 1..n /\ q = [k \in 1..n |-> q[k]]
    BY <2>1
  <2> HIDE DEF q, n
  <2> QED BY <1>9, <2>2
<1>11. ASSUME NEW x \in S
       PROVE  Cardinality(ahead[x]) + 1 \in 1..n /\ q[Cardinality(ahead[x]) + 1] = x
  <2> DEFINE c == Cardinality(ahead[x])
  <2>1. c \in 0..(n - 1)
    BY <1>2
  <2>2. c + 1 \in 1..n /\ (c + 1) - 1 = c
    <3> HIDE DEF c, n
    <3> QED BY <1>1, <2>1
  <2>3. q[c + 1] \in S /\ Cardinality(ahead[q[c + 1]]) = c
    <3> HIDE DEF c, q
    <3> QED BY <1>9, <2>2
  <2> HIDE DEF q
  <2> QED BY <1>4, <2>2, <2>3
<1> QED BY <1>1, <1>9, <1>10, <1>11

(* What is picked from a sequence: the elements at the indices, and no       *)
(* others.                                                                   *)
LEMMA PickedHolds ==
    ASSUME NEW T, NEW s \in Seq(T), NEW I \in SUBSET DOMAIN s
    PROVE  /\ Picked(s, I) \in Seq(T)
           /\ \A n \in DOMAIN Picked(s, I) : \E i \in I : Picked(s, I)[n] = s[i]
           /\ \A i \in I : \E n \in DOMAIN Picked(s, I) : Picked(s, I)[n] = s[i]
           /\ Len(Picked(s, I)) = Cardinality(I)
<1> DEFINE ahead == [i \in I |-> {j \in I : j < i}]
           at == Queue(I, ahead)
           n == Cardinality(I)
<1>1. I \subseteq Int /\ IsFiniteSet(I)
  <2>1. DOMAIN s = 1..Len(s) /\ Len(s) \in Int
    OBVIOUS
  <2>2. 1 \in Int
    OBVIOUS
  <2>3. IsFiniteSet(1..Len(s))
    BY <2>1, <2>2, FS_Interval
  <2> QED BY <2>1, <2>3, FS_Subset
<1>2. Orderly(I, ahead)
  BY <1>1 DEF Orderly
<1>3. /\ n \in Nat /\ at \in [1..n -> I]
      /\ \A i \in I : Cardinality(ahead[i]) + 1 \in 1..n
      /\ \A i \in I : at[Cardinality(ahead[i]) + 1] = i
  <2> HIDE DEF ahead
  <2> QED BY <1>1, <1>2, QueueHolds
<1>4. Picked(s, I) = [k \in 1..n |-> s[at[k]]]
  <2>1. Picked(s, I) = [k \in DOMAIN at |-> s[at[k]]]
    BY DEF Picked
  <2> HIDE DEF at
  <2> QED BY <1>3, <2>1
<1> HIDE DEF at, n, ahead
<1>5. \A i \in I : s[i] \in T
  OBVIOUS
<1>6. Picked(s, I) \in [1..n -> T]
  BY <1>3, <1>4, <1>5
<1>7. DOMAIN Picked(s, I) = 1..n
  BY <1>4
<1>8. Picked(s, I) \in Seq(T) /\ Len(Picked(s, I)) = n
  BY <1>3, <1>6
<1> QED BY <1>3, <1>4, <1>7, <1>8 DEF n

-----------------------------------------------------------------------------
(* The pairs of creditors and debtors.                                       *)

(* Those in line and the legs between them.                                  *)
Entries(D)  == [who : D, total : Int]
LegsAmong(D) == [from : D, to : D, amount : Int]

(* One round of the loop: a leg between two of the line, and one fewer in    *)
(* it.                                                                       *)
LEMMA RoundType ==
    ASSUME NEW D, NEW line \in Seq(Entries(D)), Len(line) >= 2
    PROVE  /\ Shortened(line) \in Seq(Entries(D))
           /\ Len(Shortened(line)) = Len(line) - 1
           /\ LegOf(line) \in LegsAmong(D)
<1> DEFINE E == Entries(D)
           n == Len(line)
<1>1. n \in Nat /\ n >= 2
  OBVIOUS
<1>2. Head(line) \in E /\ Last(line) \in E
  BY <1>1 DEF Last
<1>3. /\ Head(line).who \in D /\ Head(line).total \in Int
      /\ Last(line).who \in D /\ Last(line).total \in Int
  BY <1>2 DEF Entries
<1>4. Head(line).total + Last(line).total \in Int
  BY <1>3
<1>5. /\ [Head(line) EXCEPT !.total = Head(line).total + Last(line).total] \in E
      /\ [Last(line) EXCEPT !.total = Head(line).total + Last(line).total] \in E
  BY <1>2, <1>4 DEF Entries
<1>6. LegOf(line) \in LegsAmong(D)
  BY <1>3 DEF LegOf, LegsAmong
<1> HIDE DEF E
<1>7. line \in Seq(E)
  BY DEF E
<1>8. Front(line) \in Seq(E) /\ Len(Front(line)) = n - 1
  BY <1>1, <1>7 DEF Front
<1>9. Tail(Front(line)) \in Seq(E) /\ Len(Tail(Front(line))) = n - 2
  BY <1>1, <1>8
<1>10. Tail(line) \in Seq(E) /\ Len(Tail(line)) = n - 1
  BY <1>1, <1>7
<1>11. Front(Tail(line)) \in Seq(E) /\ Len(Front(Tail(line))) = n - 2
  BY <1>1, <1>10 DEF Front
<1> DEFINE a == [Head(line) EXCEPT !.total = Head(line).total + Last(line).total]
           b == [Last(line) EXCEPT !.total = Head(line).total + Last(line).total]
           s == Tail(Front(line))
           t == Front(Tail(line))
<1>12. <<a>> \o s \in Seq(E) /\ Len(<<a>> \o s) = n - 1
  <2> HIDE DEF a, s
  <2>1. a \in E /\ s \in Seq(E) /\ Len(s) = n - 2
    BY <1>5, <1>9 DEF a, s
  <2>2. <<a>> \in Seq(E) /\ Len(<<a>>) = 1
    BY <2>1
  <2> HIDE DEF n
  <2> QED BY <1>1, <2>1, <2>2
<1>13. t \o <<b>> \in Seq(E) /\ Len(t \o <<b>>) = n - 1
  <2> HIDE DEF b, t
  <2>1. b \in E /\ t \in Seq(E) /\ Len(t) = n - 2
    BY <1>5, <1>11 DEF b, t
  <2>2. <<b>> \in Seq(E) /\ Len(<<b>>) = 1
    BY <2>1
  <2> HIDE DEF n
  <2> QED BY <1>1, <2>1, <2>2
<1> QED BY <1>6, <1>12, <1>13 DEF Shortened, E

(* The pairs of a line, round by round.                                      *)
LEMMA PairsRecursion ==
    \A line \in Line :
       Pairs[line] = IF Len(line) < 2 THEN <<>> ELSE <<LegOf(line)>> \o Pairs[Shortened(line)]
<1> DEFINE L == Seq(Entries(Nat))
           R == Seq(LegsAmong(Nat))
           rank == [x \in L |-> Len(x)]
           base == [x \in L |-> Len(x) < 2]
           start == [x \in L |-> <<>>]
           next == [x \in L |-> IF Len(x) < 2 THEN x ELSE Shortened(x)]
           op == [z \in L \X R |-> IF Len(z[1]) < 2 THEN <<>> ELSE <<LegOf(z[1])>> \o z[2]]
           Body(f) == [x \in Line |-> IF Len(x) < 2 THEN <<>> ELSE <<LegOf(x)>> \o f[Shortened(x)]]
<1>0. Line = L
  BY DEF Line, Entries
<1>1. \A x \in L : Len(x) \in Nat
  OBVIOUS
<1>2. \A x \in L : ~(Len(x) < 2) => /\ Shortened(x) \in L
                                    /\ Len(Shortened(x)) = Len(x) - 1
                                    /\ LegOf(x) \in LegsAmong(Nat)
  BY <1>1, RoundType
<1>3. /\ rank \in [L -> Nat] /\ base \in [L -> BOOLEAN] /\ start \in [L -> R]
  BY <1>1
<1>4. next \in [L -> L]
  BY <1>2
<1>5. op \in [L \X R -> R]
  <2>1. ASSUME NEW x \in L, NEW r \in R, ~(Len(x) < 2) PROVE <<LegOf(x)>> \o r \in R
    <3> DEFINE g == LegOf(x)
               G == LegsAmong(Nat)
    <3>1. g \in G /\ r \in Seq(G)
      BY <1>2, <2>1
    <3> HIDE DEF g, G
    <3>2. <<g>> \o r \in Seq(G)
      BY <3>1
    <3> QED BY <3>2 DEF g, G
  <2>2. <<>> \in R
    OBVIOUS
  <2> HIDE DEF L, R
  <2> QED BY <2>1, <2>2
<1>6. ASSUME NEW x \in L, ~base[x] PROVE rank[next[x]] < rank[x]
  <2>1. ~(Len(x) < 2) /\ next[x] = Shortened(x) /\ Shortened(x) \in L
    BY <1>2, <1>6
  <2>2. rank[x] = Len(x) /\ rank[Shortened(x)] = Len(Shortened(x)) /\ Len(Shortened(x)) = Len(x) - 1
    BY <1>2, <2>1
  <2> HIDE DEF L, R, rank, next, base
  <2> QED BY <1>1, <2>1, <2>2
<1>7. PICK f \in [L -> R] : Recursion(f, L, base, start, next, op)
  <2> HIDE DEF L, R, rank, base, start, next, op
  <2> QED BY <1>3, <1>4, <1>5, <1>6, RecursionHasSolution
<1>8. ASSUME NEW x \in L
      PROVE  f[x] = IF Len(x) < 2 THEN <<>> ELSE <<LegOf(x)>> \o f[Shortened(x)]
  <2>1. f[x] = IF base[x] THEN start[x] ELSE op[<<x, f[next[x]]>>]
    BY <1>7 DEF Recursion
  <2>2. next[x] \in L /\ f[next[x]] \in R
    BY <1>4
  <2>3. base[x] = (Len(x) < 2) /\ start[x] = <<>>
    OBVIOUS
  <2>4. CASE Len(x) < 2
    BY <2>1, <2>3, <2>4
  <2>5. CASE ~(Len(x) < 2)
    <3>1. next[x] = Shortened(x)
      BY <2>5
    <3>2. op[<<x, f[next[x]]>>] = <<LegOf(x)>> \o f[next[x]]
      <4> DEFINE y == f[next[x]]
      <4>1. y \in R
        BY <2>2
      <4> HIDE DEF y, next, base, start, rank, L, R
      <4>2. <<x, y>> \in L \X R
        BY <4>1
      <4>3. op[<<x, y>>] = <<LegOf(x)>> \o y
        BY <2>5, <4>2
      <4> QED BY <4>3 DEF y
    <3> HIDE DEF next, base, op, start, rank, L, R
    <3> QED BY <2>1, <2>3, <2>5, <3>1, <3>2
  <2> QED BY <2>4, <2>5
<1>9. f = Body(f)
  <2>1. f = [x \in L |-> f[x]]
    BY <1>7
  <2> HIDE DEF R
  <2> QED BY <1>0, <1>8, <2>1
<1>10. Pairs = CHOOSE g : g = Body(g)
  BY DEF Pairs
<1>11. Pairs = Body(Pairs)
  <2> HIDE DEF Body
  <2> QED BY <1>9, <1>10
<1>12. ASSUME NEW line \in L
       PROVE  Pairs[line] = IF Len(line) < 2 THEN <<>> ELSE <<LegOf(line)>> \o Pairs[Shortened(line)]
  <2>1. Pairs[line] = Body(Pairs)[line]
    BY <1>11
  <2> HIDE DEF L
  <2> QED BY <1>0, <2>1
<1> QED BY <1>0, <1>12

(* The pairs of a line of some are legs between those.                       *)
LEMMA PairsType ==
    ASSUME NEW D \in SUBSET Nat, NEW line \in Seq(Entries(D))
    PROVE  Pairs[line] \in Seq(LegsAmong(D))
<1> DEFINE L == Seq(Entries(D))
           R == Seq(LegsAmong(D))
           rank == [x \in L |-> Len(x)]
           A == {x \in L : Pairs[x] \in R}
<1>1. rank \in [L -> Nat]
  OBVIOUS
<1>2. \A x \in L : x \in Line
  <2>1. Entries(D) \subseteq Entries(Nat)
    BY DEF Entries
  <2>2. Seq(Entries(D)) \subseteq Seq(Entries(Nat))
    <3> DEFINE X == Entries(D)
               Y == Entries(Nat)
    <3> HIDE DEF X, Y
    <3>1. X \subseteq Y
      BY <2>1 DEF X, Y
    <3>2. \A x \in Seq(X) : x \in Seq(Y)
      BY <3>1
    <3> QED BY <3>2 DEF X, Y
  <2> QED BY <2>2 DEF Line, Entries
<1>3. ASSUME NEW x \in L, \A y \in L : rank[y] < rank[x] => y \in A PROVE x \in A
  <2>1. Pairs[x] = IF Len(x) < 2 THEN <<>> ELSE <<LegOf(x)>> \o Pairs[Shortened(x)]
    BY <1>2, PairsRecursion
  <2>2. CASE Len(x) < 2
    <3>1. Pairs[x] = <<>>
      BY <2>1, <2>2
    <3>2. <<>> \in R
      OBVIOUS
    <3> QED BY <3>1, <3>2
  <2>3. CASE ~(Len(x) < 2)
    <3>1. Len(x) \in Nat /\ Len(x) >= 2
      BY <2>3
    <3>2. Shortened(x) \in L /\ Len(Shortened(x)) = Len(x) - 1 /\ LegOf(x) \in LegsAmong(D)
      BY <3>1, RoundType
    <3>3. Pairs[Shortened(x)] \in R
      BY <1>3, <3>1, <3>2
    <3> DEFINE g == LegOf(x)
               G == LegsAmong(D)
               r == Pairs[Shortened(x)]
    <3>4. g \in G /\ r \in Seq(G)
      BY <3>2, <3>3
    <3> HIDE DEF g, G, r
    <3>5. <<g>> \o r \in Seq(G)
      BY <3>4
    <3>6. Pairs[x] \in R
      BY <2>1, <2>3, <3>5 DEF g, G, r
    <3> QED BY <3>6
  <2> QED BY <2>2, <2>3
<1>4. \A x \in L : x \in A
  <2> HIDE DEF A, rank, L
  <2> QED BY <1>1, <1>3, RankInduction
<1> QED BY <1>4

-----------------------------------------------------------------------------
(* The settlements suggested for balances are legs between participants.     *)

(* Whole cents of some of the participants in U.                             *)
CentsOf(U) == UNION {[D -> Int] : D \in SUBSET U}

(* Those due something, or owing it, are finitely many, each once.           *)
LEMMA DueHolds ==
    ASSUME NEW U \in SUBSET Nat, IsFiniteSet(U), NEW balances \in CentsOf(U)
    PROVE  /\ Due(balances) \subseteq Entries(U)
           /\ \A x \in Due(balances) : x.total # 0 /\ x.total = balances[x.who] /\ x.who \in DOMAIN balances
           /\ \A x, y \in Due(balances) : x.who = y.who => x = y
           /\ IsFiniteSet(Due(balances))
<1> DEFINE E == {[who |-> p, total |-> balances[p]] : p \in DOMAIN balances}
<1>1. DOMAIN balances \subseteq U /\ \A p \in DOMAIN balances : balances[p] \in Int
  BY DEF CentsOf
<1>2. IsFiniteSet(DOMAIN balances)
  BY <1>1, FS_Subset
<1>3. IsFiniteSet(E)
  <2> DEFINE f == [p \in DOMAIN balances |-> [who |-> p, total |-> balances[p]]]
  <2>1. f \in Surjection(DOMAIN balances, E)
    BY DEF Surjection
  <2> HIDE DEF f, E
  <2> QED BY <1>2, <2>1, FS_Surjection
<1>4. Due(balances) = {x \in E : x.total # 0}
  BY DEF Due
<1>5. \A x \in E : /\ x \in Entries(U) /\ x.total = balances[x.who] /\ x.who \in DOMAIN balances
  BY <1>1 DEF Entries
<1>6. \A x, y \in E : x.who = y.who => x = y
  OBVIOUS
<1> HIDE DEF E
<1> QED BY <1>3, <1>4, <1>5, <1>6, FS_Subset

(* The legs made of a queue are legs between those in it, none of nothing.   *)
LEMMA LegsType ==
    ASSUME NEW D \in SUBSET Nat, NEW due \in SUBSET Entries(D), IsFiniteSet(due),
           NEW ahead, Orderly(due, ahead)
    PROVE  /\ Legs(due, ahead) \in Seq(LegsAmong(D))
           /\ \A i \in DOMAIN Legs(due, ahead) : Legs(due, ahead)[i].amount # 0
<1> DEFINE all == Pairs[Queue(due, ahead)]
           I == {i \in DOMAIN all : all[i].amount # 0}
<1>1. Queue(due, ahead) \in Seq(Entries(D))
  <2>1. Cardinality(due) \in Nat /\ Queue(due, ahead) \in [1..Cardinality(due) -> due]
    BY QueueHolds
  <2>2. Queue(due, ahead) \in [1..Cardinality(due) -> Entries(D)]
    BY <2>1
  <2> DEFINE n == Cardinality(due)
             E == Entries(D)
  <2> HIDE DEF n, E
  <2> QED BY <2>1, <2>2 DEF n, E
<1>2. all \in Seq(LegsAmong(D))
  BY <1>1, PairsType
<1>3. Legs(due, ahead) = Picked(all, I)
  BY DEF Legs
<1> HIDE DEF all
<1>4. I \in SUBSET DOMAIN all
  OBVIOUS
<1>5. /\ Picked(all, I) \in Seq(LegsAmong(D))
      /\ \A n \in DOMAIN Picked(all, I) : \E i \in I : Picked(all, I)[n] = all[i]
  <2> HIDE DEF I
  <2> QED BY <1>2, <1>4, PickedHolds
<1> QED BY <1>3, <1>5

(* Creditors before debtors, by id.                                          *)
Sooner(a, b) == \/ a.total > 0 /\ b.total < 0
                \/ (a.total > 0) = (b.total > 0) /\ a.who < b.who
Soonest(due) == [x \in due |-> {y \in due : Sooner(y, x)}]

(* It is an order of those with a balance, and that of the settlements       *)
(* suggested.                                                                *)
LEMMA SoonestOrders ==
    ASSUME NEW U \in SUBSET Nat, IsFiniteSet(U), NEW balances \in CentsOf(U)
    PROVE  LET due == Due(balances)
           IN  /\ due \in SUBSET Entries(U) /\ IsFiniteSet(due)
               /\ Orderly(due, Soonest(due))
               /\ SuggestedSettlements(balances) = Legs(due, Soonest(due))
               /\ \A x, y \in due : x \in Soonest(due)[y] =>
                     /\ x.total >= 0 \/ y.total <= 0
                     /\ x.who # y.who
                     /\ (x.total > 0 /\ y.total > 0) \/ (x.total < 0 /\ y.total < 0) => x.who < y.who
<1> DEFINE due == Due(balances)
           ahead == Soonest(due)
<1>1. /\ due \subseteq Entries(U) /\ IsFiniteSet(due)
      /\ \A x \in due : x.total \in Int /\ x.total # 0 /\ x.who \in Nat
      /\ \A x, y \in due : x.who = y.who => x = y
  <2>1. \A x \in Entries(U) : x.total \in Int /\ x.who \in Nat
    BY DEF Entries
  <2> QED BY <2>1, DueHolds
<1>2. SuggestedSettlements(balances) = Legs(due, ahead)
  BY DEF SuggestedSettlements, Soonest, Sooner
<1> HIDE DEF due
<1>3. \A x, y \in due : /\ ~Sooner(x, x)
                        /\ x # y => Sooner(x, y) \/ Sooner(y, x)
  BY <1>1 DEF Sooner
<1>4. \A x, y, z \in due : Sooner(x, y) /\ Sooner(y, z) => Sooner(x, z)
  <2>1. \A p, q, r \in Int : \A i, j, k \in Nat :
           /\ p # 0 /\ q # 0 /\ r # 0
           /\ (p > 0 /\ q < 0) \/ ((p > 0) = (q > 0) /\ i < j)
           /\ (q > 0 /\ r < 0) \/ ((q > 0) = (r > 0) /\ j < k)
           => (p > 0 /\ r < 0) \/ ((p > 0) = (r > 0) /\ i < k)
    OBVIOUS
  <2> QED BY <1>1, <2>1 DEF Sooner
<1>5. \A x, y \in due : x \in ahead[y] <=> Sooner(x, y)
  BY DEF Soonest
<1>6. \A x \in due : ahead[x] \subseteq due
  BY DEF Soonest
<1>7. \A x, y \in due : Sooner(x, y) =>
         /\ x.total >= 0 \/ y.total <= 0
         /\ x.who # y.who
         /\ (x.total > 0 /\ y.total > 0) \/ (x.total < 0 /\ y.total < 0) => x.who < y.who
  <2> TAKE x \in due, y \in due
  <2> HAVE Sooner(x, y)
  <2>1. x # y /\ x.who # y.who
    BY <1>1, <1>3
  <2> QED BY <1>1, <2>1 DEF Sooner
<1> HIDE DEF ahead
<1>8. Orderly(due, ahead)
  BY <1>3, <1>4, <1>5, <1>6 DEF Orderly
<1> QED BY <1>1, <1>2, <1>5, <1>7, <1>8 DEF ahead, due

(* What is suggested is settlements among those of the balances.             *)
LEMMA SuggestedType ==
    ASSUME NEW U \in SUBSET Nat, IsFiniteSet(U), NEW balances \in CentsOf(U)
    PROVE  /\ SuggestedSettlements(balances) \in Seq(LegsAmong(U))
           /\ \A i \in DOMAIN SuggestedSettlements(balances) :
                 SuggestedSettlements(balances)[i].amount # 0
BY SoonestOrders, LegsType

(* What settlements come to are whole cents of those between whom they are.  *)
LEMMA PublicType ==
    ASSUME NEW U, NEW legs \in Seq(LegsAmong(U))
    PROVE  PublicBalances(legs) \in CentsOf(U)
<1> DEFINE amounts == [i \in DOMAIN legs |-> legs[i].amount]
           to(p) == {i \in DOMAIN legs : legs[i].to = p}
           from(p) == {i \in DOMAIN legs : legs[i].from = p}
           D == {legs[i].from : i \in DOMAIN legs} \cup {legs[i].to : i \in DOMAIN legs}
<1>1. \A i \in DOMAIN legs : legs[i].from \in U /\ legs[i].to \in U /\ legs[i].amount \in Int
  <2>1. \A i \in DOMAIN legs : legs[i] \in LegsAmong(U)
    OBVIOUS
  <2> QED BY <2>1 DEF LegsAmong
<1>2. IsFiniteSet(DOMAIN legs)
  <2>1. DOMAIN legs = 1..Len(legs) /\ Len(legs) \in Int /\ 1 \in Int
    OBVIOUS
  <2> QED BY <2>1, FS_Interval
<1>3. ASSUME NEW s \in SUBSET DOMAIN legs PROVE SumFunctionOnSet(amounts, s) \in Int
  <2>1. IsFiniteSet(s) /\ \A i \in s : amounts[i] \in Int
    BY <1>1, <1>2, FS_Subset
  <2> HIDE DEF amounts
  <2> QED BY <2>1, SumUnfolds
<1>4. PublicBalances(legs) =
        [p \in D |-> SumFunctionOnSet(amounts, to(p)) - SumFunctionOnSet(amounts, from(p))]
  BY DEF PublicBalances
<1>5. \A p : SumFunctionOnSet(amounts, to(p)) \in Int /\ SumFunctionOnSet(amounts, from(p)) \in Int
  <2> TAKE p
  <2>1. to(p) \in SUBSET DOMAIN legs /\ from(p) \in SUBSET DOMAIN legs
    OBVIOUS
  <2> QED BY <1>3, <2>1
<1>6. D \subseteq U
  BY <1>1
<1> HIDE DEF D, amounts, to, from
<1>7. PublicBalances(legs) \in [D -> Int]
  BY <1>4, <1>5
<1> QED BY <1>6, <1>7 DEF CentsOf

-----------------------------------------------------------------------------
(* The shares in an expense are fractions of its participants.               *)

(* The parts of a fraction.                                                  *)
LEMMA FracParts ==
    ASSUME NEW a \in Frac
    PROVE  a.num \in Int /\ a.den \in Nat \ {0}
BY DEF Frac

(* Whole numbers, products and sums of fractions are fractions again.        *)
LEMMA WholeType ==
    ASSUME NEW n \in Int
    PROVE  Whole(n) \in Frac
BY DEF Whole, Frac

(* A multiple of a fraction.                                                 *)
LEMMA ScaledType ==
    ASSUME NEW a \in Frac, NEW n \in Int, NEW d \in Int
    PROVE  Scaled(a, n, d) \in Frac
<1>1. \A x, z, u \in Int : \A y \in Nat : x * z \in Int /\ y * u \in Int
  OBVIOUS
<1> DEFINE x == a.num * n
           y == a.den * d
<1>2. x \in Int /\ y \in Int
  BY <1>1, FracParts
<1> HIDE DEF x, y
<1>3. Fraction(x, y) \in Frac
  BY <1>2, FractionIs
<1> QED BY <1>3 DEF Scaled, x, y

(* A fraction rounds to a whole number.                                      *)
LEMMA RoundedType ==
    ASSUME NEW a \in Frac
    PROVE  Rounded(a) \in Int
<1> DEFINE x == 2 * a.num + a.den
           y == 2 * a.den
<1>1. x \in Int /\ y \in Nat \ {0}
  <2>1. \A u \in Int : \A w \in Nat \ {0} : 2 * u + w \in Int /\ 2 * w \in Nat \ {0}
    OBVIOUS
  <2> QED BY <2>1, FracParts
<1> HIDE DEF x, y
<1>2. x \div y \in Int
  BY <1>1, Remainder
<1> QED BY <1>2 DEF Rounded, x, y

(* A total is a fraction.                                                    *)
LEMMA TotalType ==
    ASSUME NEW U, IsFiniteSet(U), NEW exact \in Shares(U)
    PROVE  Total(exact) \in Frac
<1> DEFINE S == DOMAIN exact
<1>1. IsFiniteSet(S) /\ \A p \in S : exact[p] \in Frac
  BY OfType, FS_Subset DEF Shares
<1>2. PICK m \in Nat \ {0} : \A p \in S : \E w \in Int : Stands(exact[p], m, w)
  BY <1>1, CommonDenominator
<1> DEFINE v == [p \in S |-> CHOOSE w \in Int : Stands(exact[p], m, w)]
<1>3. \A p \in DOMAIN exact : Stands(exact[p], m, v[p])
  BY <1>2
<1> HIDE DEF v
<1>4. Stands(Total(exact), m, SumFunctionOnSet(v, DOMAIN exact))
  BY <1>1, <1>3, TotalStands
<1> QED BY <1>4 DEF Stands

(* What literal shares leave goes to a participant.                          *)
LEMMA ResidualType ==
    ASSUME NEW U, IsFiniteSet(U), NEW exact \in Shares(U), NEW amount \in Int, NEW payer \in U
    PROVE  Residual(exact, amount, payer) \in Shares(U)
<1> DEFINE gap == amount - Rounded(Total(exact))
           one == [p \in {payer} |-> Whole(gap)]
<1>1. gap \in Int
  BY TotalType, RoundedType
<1> HIDE DEF gap
<1>2. one \in [{payer} -> Frac]
  BY <1>1, WholeType
<1>3. one \in Shares(U)
  <2> HIDE DEF one
  <2>1. {payer} \in SUBSET U
    OBVIOUS
  <2> QED BY <1>2, <2>1 DEF Shares
<1>4. Added(exact, one) \in Shares(U)
  <2> HIDE DEF one
  <2> QED BY <1>3, AddedType
<1>5. Residual(exact, amount, payer) = IF gap = 0 THEN exact ELSE Added(exact, one)
  BY DEF Residual, gap, one
<1> QED BY <1>4, <1>5

(* Converted shares are shares of the same participants.                     *)
LEMMA ConvertedType ==
    ASSUME NEW U, NEW exact \in Shares(U), NEW e, e.amount \in Int, e.original \in Int
    PROVE  Converted(e, exact) \in Shares(U)
<1>1. DOMAIN exact \subseteq U /\ \A p \in DOMAIN exact : exact[p] \in Frac
  BY DEF Shares
<1>2. \A p \in DOMAIN exact : Whole(Rounded(Scaled(exact[p], e.amount, e.original))) \in Frac
  BY <1>1, ScaledType, RoundedType, WholeType
<1>3. Converted(e, exact) \in [DOMAIN exact -> Frac]
  BY <1>2 DEF Converted
<1> QED BY <1>1, <1>3 DEF Shares

(* The modes a split may have.                                               *)
Known == Modes \cup {"ITEMIZED"}

(* A split of an amount gives each of its participants a fraction.           *)
LEMMA ExactType ==
    ASSUME NEW U, IsFiniteSet(U), NEW amount \in Int, NEW split, IsSplit(split, Known, U)
    PROVE  ExactShares(amount, split) \in Shares(U)
<1> DEFINE s == split.shares
           D == DOMAIN s
           E(p) == CASE split.mode = "EVENLY" -> Fraction(amount, Cardinality(DOMAIN s))
                     [] split.mode = "BY_SHARES" -> Fraction(amount * s[p], SumFunction(s))
                     [] split.mode = "BY_PERCENTAGE" -> Fraction(amount * s[p], 10000)
                     [] split.mode \in {"BY_AMOUNT", "ITEMIZED"} -> Whole(s[p])
<1>1. D \subseteq U /\ IsFiniteSet(D) /\ \A p \in D : s[p] \in Int
  BY FS_Subset DEF IsSplit
<1>2. split.mode \in {"EVENLY", "BY_SHARES", "BY_PERCENTAGE", "BY_AMOUNT", "ITEMIZED"}
  BY DEF IsSplit, Known, Modes
<1>3. Cardinality(D) \in Int
  BY <1>1, FS_CardinalityType
<1>4. SumFunction(s) \in Int
  <2>1. SumFunctionOnSet(s, D) \in Int
    BY <1>1, SumUnfolds
  <2> QED BY <2>1 DEF SumFunction
<1>5. ASSUME NEW p \in D PROVE E(p) \in Frac
  <2> DEFINE part == amount * s[p]
             sum == SumFunction(s)
             size == Cardinality(D)
  <2>1. part \in Int /\ 10000 \in Int /\ sum \in Int /\ size \in Int
    BY <1>1, <1>3, <1>4
  <2>2. Fraction(part, sum) \in Frac /\ Fraction(part, 10000) \in Frac /\ Fraction(amount, size) \in Frac
    <3> HIDE DEF part, sum, size
    <3> QED BY <2>1, FractionIs
  <2>3. Whole(s[p]) \in Frac
    BY <1>1, WholeType
  <2>4. CASE split.mode = "EVENLY"
    <3>1. E(p) = Fraction(amount, size)
      BY <2>4
    <3> HIDE DEF E, part, sum, size
    <3> QED BY <2>2, <3>1
  <2>5. CASE split.mode = "BY_SHARES"
    <3>1. E(p) = Fraction(part, sum)
      BY <2>5
    <3> HIDE DEF E, part, sum, size
    <3> QED BY <2>2, <3>1
  <2>6. CASE split.mode = "BY_PERCENTAGE"
    <3>1. E(p) = Fraction(part, 10000)
      BY <2>6
    <3> HIDE DEF E, part, sum, size
    <3> QED BY <2>2, <3>1
  <2>7. CASE split.mode \in {"BY_AMOUNT", "ITEMIZED"}
    <3>1. E(p) = Whole(s[p])
      BY <2>7
    <3> HIDE DEF E, part, sum, size
    <3> QED BY <2>3, <3>1
  <2> QED BY <1>2, <2>4, <2>5, <2>6, <2>7
<1>6. Whole(0) \in Frac
  BY WholeType
<1>7. ExactShares(amount, split) = [p \in D |-> IF amount = 0 THEN Whole(0) ELSE E(p)]
  BY DEF ExactShares
<1> HIDE DEF E
<1>8. ExactShares(amount, split) \in [D -> Frac]
  BY <1>5, <1>6, <1>7
<1> QED BY <1>1, <1>8 DEF Shares

(* The items of an expense, as expenseApiSchema lets them through.           *)
AreItems(items, U) ==
    /\ IsFiniteSet(DOMAIN items)
    /\ \A i \in DOMAIN items : items[i].amount \in Int /\ IsSplit(items[i].split, Modes, U)

(* What the items come to for each participant.                              *)
LEMMA SubtotalsType ==
    ASSUME NEW U, IsFiniteSet(U), NEW items, AreItems(items, U)
    PROVE  Subtotals(items) \in Shares(U)
<1> DEFINE a == [i \in DOMAIN items |-> ExactShares(items[i].amount, items[i].split)]
           S == {i \in Assigned(items) : items[i].amount # 0}
<1>1. \A i \in DOMAIN items : a[i] \in Shares(U)
  <2> TAKE i \in DOMAIN items
  <2>1. items[i].amount \in Int /\ IsSplit(items[i].split, Known, U)
    BY DEF AreItems, IsSplit, Known
  <2>2. ExactShares(items[i].amount, items[i].split) \in Shares(U)
    BY <2>1, ExactType
  <2> QED BY <2>2
<1>2. S \subseteq DOMAIN items /\ IsFiniteSet(S)
  <2>1. S \subseteq DOMAIN items
    BY DEF Assigned
  <2> QED BY <2>1, FS_Subset DEF AreItems
<1>3. Subtotals(items) = AllAdded(a, S)
  BY DEF Subtotals, AllAdded
<1> HIDE DEF a, S
<1> QED BY <1>1, <1>2, <1>3, AllAddedType

(* What some of the items cost.                                              *)
LEMMA ItemsAmountType ==
    ASSUME NEW U, NEW items, AreItems(items, U), NEW indices \in SUBSET DOMAIN items
    PROVE  ItemsAmount(items, indices) \in Int
<1> DEFINE f == [i \in DOMAIN items |-> items[i].amount]
<1>1. IsFiniteSet(indices) /\ \A i \in indices : f[i] \in Int
  BY FS_Subset DEF AreItems
<1> HIDE DEF f
<1>2. SumFunctionOnSet(f, indices) \in Int
  BY <1>1, SumUnfolds
<1> QED BY <1>2 DEF ItemsAmount, f

(* The shares in an itemized expense, with what no item covers.              *)
LEMMA ItemSharesType ==
    ASSUME NEW U, IsFiniteSet(U), NEW items, AreItems(items, U), NEW members \in SUBSET U,
           NEW amount \in Int, NEW rest, IsSplit(rest, Modes \cup {"PROPORTIONAL"}, U)
    PROVE  ItemShares(items, members, amount, rest) \in Shares(U)
<1> DEFINE covered == ItemsAmount(items, Assigned(items))
           exact == Subtotals(items)
           filler == amount - covered
           custom == IF rest.shares = Nobody THEN [mode |-> rest.mode, shares |-> [p \in members |-> 1]]
                                             ELSE rest
<1>1. covered \in Int
  <2>1. Assigned(items) \subseteq DOMAIN items
    BY DEF Assigned
  <2> QED BY <2>1, ItemsAmountType
<1>2. filler \in Int
  BY <1>1
<1>3. exact \in Shares(U)
  BY SubtotalsType
<1>4. DOMAIN exact \subseteq U /\ \A p \in DOMAIN exact : exact[p] \in Frac
  BY <1>3 DEF Shares
<1>5. ASSUME rest.mode # "PROPORTIONAL" PROVE IsSplit(custom, Known, U)
  <2>1. rest.mode \in Known /\ IsSplit(rest, Known, U)
    BY <1>5 DEF IsSplit, Known
  <2>2. CASE rest.shares = Nobody
    <3> DEFINE c == [mode |-> rest.mode, shares |-> [p \in members |-> 1]]
    <3>1. /\ DOMAIN c = {"mode", "shares"} /\ c.mode \in Known
          /\ DOMAIN c.shares \subseteq U /\ \A p \in DOMAIN c.shares : c.shares[p] \in Int
      BY <2>1
    <3>2. custom = c
      BY <2>2
    <3> HIDE DEF c, custom
    <3> QED BY <3>1, <3>2 DEF IsSplit
  <2>3. CASE rest.shares # Nobody
    BY <2>1, <2>3
  <2> QED BY <2>2, <2>3
<1> HIDE DEF covered, filler, custom, exact
<1>6. CASE filler = 0
  <2>1. ItemShares(items, members, amount, rest) = exact
    BY <1>6 DEF ItemShares, covered, filler, custom, exact
  <2> QED BY <1>3, <2>1
<1>7. CASE filler # 0 /\ rest.mode = "PROPORTIONAL"
  <2> DEFINE g == [p \in DOMAIN exact |-> Plus(exact[p], Scaled(exact[p], filler, covered))]
  <2>1. ItemShares(items, members, amount, rest) = g
    BY <1>7 DEF ItemShares, covered, filler, custom, exact
  <2>2. \A p \in DOMAIN exact : Plus(exact[p], Scaled(exact[p], filler, covered)) \in Frac
    BY <1>1, <1>2, <1>4, ScaledType, PlusType
  <2>3. g \in [DOMAIN exact -> Frac]
    BY <2>2
  <2> HIDE DEF g
  <2> QED BY <1>4, <2>1, <2>3 DEF Shares
<1>8. CASE filler # 0 /\ rest.mode # "PROPORTIONAL"
  <2>1. ItemShares(items, members, amount, rest) = Added(exact, ExactShares(filler, custom))
    BY <1>8 DEF ItemShares, covered, filler, custom, exact
  <2>2. ExactShares(filler, custom) \in Shares(U)
    BY <1>2, <1>5, <1>8, ExactType
  <2> QED BY <1>3, <2>1, <2>2, AddedType
<1> QED BY <1>6, <1>7, <1>8

-----------------------------------------------------------------------------
(* Expenses, ledgers and their balances.                                     *)

(* What is said of an expense, part by part.                                 *)
LEMMA ExpenseParts ==
    ASSUME NEW U, NEW e, IsExpense(e, U)
    PROVE  /\ e.amount \in Int /\ e.original \in Int /\ e.payer \in U
           /\ IsSplit(e.paidBy, Known, U) /\ IsSplit(e.paidFor, Known, U)
           /\ IsSplit(e.rest, Modes \cup {"PROPORTIONAL"}, U)
           /\ AreItems(e.items, U)
           /\ Involved(e) \subseteq U
<1>1. /\ IsSplit(e.paidBy, Known, U) /\ IsSplit(e.paidFor, Known, U)
      /\ IsSplit(e.rest, Modes \cup {"PROPORTIONAL"}, U)
      /\ AreItems(e.items, U)
  BY DEF IsExpense, AreItems, Known
<1>2. Involved(e) \subseteq U
  <2>1. /\ DOMAIN e.paidBy.shares \subseteq U /\ DOMAIN e.paidFor.shares \subseteq U
        /\ DOMAIN e.rest.shares \subseteq U
    BY <1>1 DEF IsSplit
  <2>2. \A i \in DOMAIN e.items : DOMAIN e.items[i].split.shares \subseteq U
    BY <1>1 DEF AreItems, IsSplit
  <2> QED BY <2>1, <2>2 DEF Involved
<1> QED BY <1>1, <1>2 DEF IsExpense

(* What those who paid for an expense have paid.                             *)
LEMMA PaidSharesType ==
    ASSUME NEW U, IsFiniteSet(U), NEW e, IsExpense(e, U)
    PROVE  PaidShares(e) \in Shares(U)
<1> DEFINE exact == ExactShares(e.original, e.paidBy)
<1>1. /\ e.amount \in Int /\ e.original \in Int /\ e.payer \in U
      /\ IsSplit(e.paidBy, Known, U) /\ e.converted \in BOOLEAN
  BY ExpenseParts DEF IsExpense
<1>2. exact \in Shares(U)
  BY <1>1, ExactType
<1> HIDE DEF exact
<1>3. Converted(e, exact) \in Shares(U) /\ Residual(exact, e.amount, e.payer) \in Shares(U)
  BY <1>1, <1>2, ConvertedType, ResidualType
<1>4. PaidShares(e) \in {Converted(e, exact), Residual(exact, e.amount, e.payer), exact}
  BY <1>1 DEF PaidShares, exact
<1> QED BY <1>2, <1>3, <1>4

(* What those an expense is for owe.                                         *)
LEMMA OwedSharesType ==
    ASSUME NEW U, IsFiniteSet(U), NEW e, IsExpense(e, U)
    PROVE  OwedShares(e) \in Shares(U)
<1> DEFINE byShares == [e.paidFor EXCEPT !.mode = "BY_SHARES"]
<1>1. /\ e.amount \in Int /\ e.original \in Int /\ e.payer \in U
      /\ IsSplit(e.paidFor, Known, U) /\ IsSplit(e.rest, Modes \cup {"PROPORTIONAL"}, U)
      /\ AreItems(e.items, U) /\ Involved(e) \subseteq U
      /\ e.converted \in BOOLEAN
  BY ExpenseParts DEF IsExpense
<1>2. IsSplit(byShares, Known, U)
  <2>1. /\ DOMAIN byShares = {"mode", "shares"} /\ byShares.mode = "BY_SHARES"
        /\ byShares.shares = e.paidFor.shares
    BY <1>1 DEF IsSplit
  <2>2. "BY_SHARES" \in Known
    BY DEF Known, Modes
  <2> HIDE DEF byShares
  <2> QED BY <1>1, <2>1, <2>2 DEF IsSplit
<1>3. ItemShares(e.items, Involved(e), e.amount, e.rest) \in Shares(U)
  BY <1>1, ItemSharesType
<1>4. /\ ExactShares(e.amount, byShares) \in Shares(U)
      /\ ExactShares(e.original, e.paidFor) \in Shares(U)
      /\ ExactShares(e.amount, e.paidFor) \in Shares(U)
  <2> HIDE DEF byShares
  <2> QED BY <1>1, <1>2, ExactType
<1>5. /\ Converted(e, ExactShares(e.original, e.paidFor)) \in Shares(U)
      /\ Residual(ExactShares(e.amount, e.paidFor), e.amount, e.payer) \in Shares(U)
  BY <1>1, <1>4, ConvertedType, ResidualType
<1>6. OwedShares(e) \in {ItemShares(e.items, Involved(e), e.amount, e.rest),
                         ExactShares(e.amount, byShares),
                         Converted(e, ExactShares(e.original, e.paidFor)),
                         Residual(ExactShares(e.amount, e.paidFor), e.amount, e.payer),
                         ExactShares(e.amount, e.paidFor)}
  BY <1>1 DEF OwedShares, Itemized
<1> QED BY <1>3, <1>4, <1>5, <1>6

(* Cents distributed are whole, among those who have a part.                 *)
LEMMA DistributeType ==
    ASSUME NEW U \in SUBSET Int, IsFiniteSet(U), NEW exact \in Shares(U),
           NEW amount \in Int, NEW seed \in Int
    PROVE  /\ Distribute(exact, amount, seed) \in CentsOf(U)
           /\ DOMAIN Distribute(exact, amount, seed) = DOMAIN exact
<1>1. DOMAIN exact \subseteq U /\ \A p \in DOMAIN exact : exact[p] \in Frac
  BY DEF Shares
<1>2. DOMAIN exact \in SUBSET Int /\ IsFiniteSet(DOMAIN exact)
  BY <1>1, FS_Subset
<1>3. DOMAIN Distribute(exact, amount, seed) = DOMAIN exact
  BY DEF Distribute
<1>4. Distribute(exact, amount, seed) \in [DOMAIN exact -> Int]
  <2>1. CASE DOMAIN exact = {}
    <3> DEFINE F(p) == Distribute(exact, amount, seed)[p]
    <3>1. Distribute(exact, amount, seed) = [p \in DOMAIN exact |-> F(p)]
      BY DEF Distribute
    <3> HIDE DEF F
    <3> QED BY <2>1, <3>1
  <2>2. CASE DOMAIN exact # {}
    BY <1>1, <1>2, <2>2, DistributeAddsUp
  <2> QED BY <2>1, <2>2
<1> QED BY <1>1, <1>3, <1>4 DEF CentsOf

(* An expense is stored as the schema would let it through.                  *)
LEMMA StoredType ==
    ASSUME NEW U \in SUBSET Int, IsFiniteSet(U), NEW e, IsExpense(e, U),
           NEW members \in SUBSET U, NEW seed \in Int
    PROVE  IsExpense(Stored(e, members, seed), U)
<1>1. CASE ~Itemized(e)
  BY <1>1 DEF Stored
<1>2. CASE Itemized(e)
  <2> DEFINE shares == Distribute(ItemShares(e.items, members, e.original, e.rest), e.original, seed)
             f == [e EXCEPT !.paidFor.shares = shares]
  <2>1. shares \in CentsOf(U)
    <3>1. ItemShares(e.items, members, e.original, e.rest) \in Shares(U)
      BY ExpenseParts, ItemSharesType
    <3>2. e.original \in Int
      BY ExpenseParts
    <3> QED BY <3>1, <3>2, DistributeType
  <2> HIDE DEF shares
  <2>2. Stored(e, members, seed) = f
    BY <1>2 DEF Stored, shares
  <2>3. /\ DOMAIN f = DOMAIN e
        /\ f.amount = e.amount /\ f.original = e.original /\ f.converted = e.converted
        /\ f.payer = e.payer /\ f.paidBy = e.paidBy /\ f.items = e.items /\ f.rest = e.rest
        /\ f.paidFor = [e.paidFor EXCEPT !.shares = shares]
    BY DEF IsExpense
  <2>4. IsSplit(f.paidFor, Modes \cup {"ITEMIZED"}, U)
    <3> DEFINE g == [e.paidFor EXCEPT !.shares = shares]
    <3>1. IsSplit(e.paidFor, Modes \cup {"ITEMIZED"}, U)
      BY DEF IsExpense
    <3>2. DOMAIN g = {"mode", "shares"} /\ g.mode = e.paidFor.mode /\ g.shares = shares
      BY <3>1 DEF IsSplit
    <3>3. DOMAIN shares \subseteq U /\ \A p \in DOMAIN shares : shares[p] \in Int
      BY <2>1 DEF CentsOf
    <3>4. f.paidFor = g
      BY <2>3
    <3> HIDE DEF g, f
    <3> QED BY <3>1, <3>2, <3>3, <3>4 DEF IsSplit
  <2> HIDE DEF f
  <2> QED BY <2>2, <2>3, <2>4 DEF IsExpense
<1> QED BY <1>1, <1>2

(* A ledger of finitely many expenses among U.                               *)
Rows(rows, U) == IsFiniteSet(DOMAIN rows) /\ \A i \in DOMAIN rows : IsExpense(rows[i], U)

(* What each participant has paid, and owes, and what all comes to.          *)
LEMMA SidesType ==
    ASSUME NEW U, IsFiniteSet(U), NEW rows, Rows(rows, U)
    PROVE  /\ Paid(rows) \in Shares(U) /\ Owed(rows) \in Shares(U)
           /\ Amount(rows) \in Int
<1> DEFINE S == DOMAIN rows
           a == [i \in S |-> PaidShares(rows[i])]
           b == [i \in S |-> OwedShares(rows[i])]
           n == [i \in S |-> rows[i].amount]
<1>1. IsFiniteSet(S) /\ \A i \in S : IsExpense(rows[i], U)
  BY DEF Rows
<1>2. \A i \in S : a[i] \in Shares(U) /\ b[i] \in Shares(U)
  BY <1>1, PaidSharesType, OwedSharesType
<1>3. \A i \in S : n[i] \in Int
  BY <1>1 DEF IsExpense
<1>4. /\ Paid(rows) = AllAdded(a, S) /\ Owed(rows) = AllAdded(b, S)
      /\ Amount(rows) = SumFunctionOnSet(n, S)
  BY DEF Paid, Owed, Amount, AllAdded, FoldFunction, SumFunction
<1> HIDE DEF a, b, n, S
<1>5. AllAdded(a, S) \in Shares(U) /\ AllAdded(b, S) \in Shares(U)
  BY <1>1, <1>2, AllAddedType
<1>6. SumFunctionOnSet(n, S) \in Int
  BY <1>1, <1>3, SumUnfolds
<1> QED BY <1>4, <1>5, <1>6

(* Whole cents, participant by participant.                                  *)
LEMMA CentsParts ==
    ASSUME NEW U, NEW c \in CentsOf(U)
    PROVE  DOMAIN c \subseteq U /\ \A p \in DOMAIN c : c[p] \in Int
BY DEF CentsOf

(* Balances are whole cents of participants.                                 *)
LEMMA BalancesType ==
    ASSUME NEW U \in SUBSET Int, IsFiniteSet(U), NEW rows, Rows(rows, U)
    PROVE  GetBalances(rows) \in CentsOf(U)
<1> DEFINE paid == Distribute(Paid(rows), Amount(rows), 0)
           owed == Distribute(Owed(rows), Amount(rows), 0)
           Cents(c, p) == IF p \in DOMAIN c THEN c[p] ELSE 0
           D == DOMAIN paid \cup DOMAIN owed
<1>1. paid \in CentsOf(U) /\ owed \in CentsOf(U)
  BY SidesType, DistributeType
<1>2. GetBalances(rows) = [p \in D |-> Cents(paid, p) - Cents(owed, p)]
  BY DEF GetBalances, CentsIn
<1> HIDE DEF paid, owed
<1>3. D \subseteq U /\ \A p : Cents(paid, p) \in Int /\ Cents(owed, p) \in Int
  <2>1. /\ DOMAIN paid \subseteq U /\ \A p \in DOMAIN paid : paid[p] \in Int
        /\ DOMAIN owed \subseteq U /\ \A p \in DOMAIN owed : owed[p] \in Int
    BY <1>1, CentsParts
  <2> QED BY <2>1
<1> HIDE DEF Cents, D
<1>4. GetBalances(rows) \in [D -> Int]
  BY <1>2, <1>3
<1> QED BY <1>3, <1>4 DEF CentsOf

(* The sides of the expenses of a ledger.                                    *)
PaidOf(rows)   == [i \in DOMAIN rows |-> PaidShares(rows[i])]
OwedOf(rows)   == [i \in DOMAIN rows |-> OwedShares(rows[i])]
AmountOf(rows) == [i \in DOMAIN rows |-> rows[i].amount]

LEMMA SidesOfRows ==
    ASSUME NEW U, IsFiniteSet(U), NEW rows, Rows(rows, U), \A i \in DOMAIN rows : AddsUp(rows[i])
    PROVE  /\ Paid(rows) = AllAdded(PaidOf(rows), DOMAIN rows)
           /\ Owed(rows) = AllAdded(OwedOf(rows), DOMAIN rows)
           /\ Amount(rows) = SumFunctionOnSet(AmountOf(rows), DOMAIN rows)
           /\ Sides(PaidOf(rows), DOMAIN rows, U, AmountOf(rows))
           /\ Sides(OwedOf(rows), DOMAIN rows, U, AmountOf(rows))
<1> DEFINE S == DOMAIN rows
           a == PaidOf(rows)
           b == OwedOf(rows)
           n == AmountOf(rows)
<1>1. IsFiniteSet(S) /\ \A i \in S : IsExpense(rows[i], U)
  BY DEF Rows
<1>2. \A i \in S : a[i] \in Shares(U) /\ b[i] \in Shares(U)
  BY <1>1, PaidSharesType, OwedSharesType DEF PaidOf, OwedOf
<1>3. \A i \in S : n[i] \in Int
  BY <1>1 DEF IsExpense, AmountOf
<1>4. /\ Paid(rows) = AllAdded(a, S) /\ Owed(rows) = AllAdded(b, S)
      /\ Amount(rows) = SumFunctionOnSet(n, S)
  BY DEF Paid, Owed, Amount, AllAdded, FoldFunction, SumFunction, PaidOf, OwedOf, AmountOf
<1>5. Sides(a, S, U, n)
  <2>1. \A i \in S : /\ Total(a[i]) = Whole(n[i])
                     /\ \A p \in DOMAIN a[i] : a[i][p].num >= 0
    BY DEF AddsUp, PaidOf, AmountOf
  <2> HIDE DEF a, n, S
  <2> QED BY <1>2, <1>3, <2>1 DEF Sides
<1>6. Sides(b, S, U, n)
  <2>1. \A i \in S : /\ Total(b[i]) = Whole(n[i])
                     /\ \A p \in DOMAIN b[i] : b[i][p].num >= 0
    BY DEF AddsUp, OwedOf, AmountOf
  <2> HIDE DEF b, n, S
  <2> QED BY <1>2, <1>3, <2>1 DEF Sides
<1> QED BY <1>4, <1>5, <1>6

(* balances.ts and remainder-distribution.ts, the cents that are left over   *)
(* of a whole ledger: where the sides of every expense add up to it in       *)
(* shares none of which is negative, what each participant is said to have   *)
(* paid, and to owe, adds up to all that was spent and is the exact sum      *)
(* rounded up or down.                                                       *)
THEOREM BalancesWithinACent ==
    ASSUME NEW U \in SUBSET Int, IsFiniteSet(U), NEW rows, Rows(rows, U),
           \A i \in DOMAIN rows : AddsUp(rows[i]),
           NEW exact \in {Paid(rows), Owed(rows)}
    PROVE  LET cents == Distribute(exact, Amount(rows), 0)
           IN  /\ SumFunction(cents) = Amount(rows)
               /\ \A p \in DOMAIN exact : /\ Below(exact[p], Whole(cents[p] + 1))
                                         /\ Below(Whole(cents[p] - 1), exact[p])
<1> DEFINE S == DOMAIN rows
           a == PaidOf(rows)
           b == OwedOf(rows)
           n == AmountOf(rows)
           Fair(x, sum) == LET cents == Distribute(x, sum, 0)
                           IN  /\ SumFunction(cents) = sum
                               /\ \A p \in DOMAIN x : /\ Below(x[p], Whole(cents[p] + 1))
                                                     /\ Below(Whole(cents[p] - 1), x[p])
<1>1. IsFiniteSet(S)
  BY DEF Rows
<1>2. /\ Paid(rows) = AllAdded(a, S) /\ Owed(rows) = AllAdded(b, S)
      /\ Amount(rows) = SumFunctionOnSet(n, S)
      /\ Sides(a, S, U, n) /\ Sides(b, S, U, n)
  BY SidesOfRows
<1> HIDE DEF a, b, n, S
<1>3. Fair(AllAdded(a, S), SumFunctionOnSet(n, S)) /\ Fair(AllAdded(b, S), SumFunctionOnSet(n, S))
  <2>1. 0 \in Int
    OBVIOUS
  <2> QED BY <1>1, <1>2, <2>1, SharesWithinACent
<1>4. Fair(exact, Amount(rows))
  <2> HIDE DEF Fair
  <2> QED BY <1>2, <1>3
<1> QED BY <1>4

-----------------------------------------------------------------------------
(* What is handed out is a matter of the amounts alone: the wholes of each,  *)
(* and one more for those whose turn it is among the ones with an amount.    *)

(* Of b parts each, m of which make a whole: the wholes, and what is left.   *)
Wholes(b, m, U) == [p \in U |-> b[p] \div m]
Rests(b, m, U)  == [p \in U |-> b[p] % m]

(* Quotient and remainder of an amount in parts.                             *)
LEMMA PartsAreRests ==
    ASSUME NEW a, NEW m \in Nat \ {0}, NEW v, Stands(a, m, v), v >= 0
    PROVE  /\ Truncated(a) = v \div m
           /\ Parts(a, m, v) = v % m
<1>1. /\ v = m * Truncated(a) + Parts(a, m, v)
      /\ Parts(a, m, v) \in 0..(m - 1)
  BY KeptOfAmount
<1>2. Truncated(a) \in Int /\ Parts(a, m, v) \in Int
  BY LeftoverIs
<1> DEFINE q == Truncated(a)
           r == Parts(a, m, v)
<1> HIDE DEF q, r
<1>3. q \in Int /\ r \in Int /\ v = m * q + r /\ 0 <= r /\ r < m
  BY <1>1, <1>2 DEF q, r
<1> QED BY <1>3, DivisionUnique DEF q, r

(* Those without a part change nobody's place among those who have one.      *)
LEMMA SamePlace ==
    ASSUME NEW U, NEW D \in SUBSET U, NEW R \in [U -> Int], NEW r \in [D -> Int], NEW seed,
           \A q \in D : r[q] = R[q], \A q \in U : q \notin D => R[q] = 0,
           NEW p \in D, r[p] > 0
    PROVE  PlaceOf(D, r, seed, p) = PlaceOf(U, R, seed, p)
<1>0. R[p] = r[p] /\ p \in U /\ \A q \in U : R[q] \in Int
  OBVIOUS
<1>1. Ahead(D, r, p) = Ahead(U, R, p)
  <2>1. \A q \in U : q \in Ahead(U, R, p) => q \in D
    BY <1>0 DEF Ahead
  <2> QED BY <1>0, <2>1 DEF Ahead
<1>2. Level(D, r, p) = Level(U, R, p)
  <2>1. \A q \in U : q \in Level(U, R, p) => q \in D
    BY <1>0 DEF Level
  <2> QED BY <1>0, <2>1 DEF Level
<1>3. Before(D, r, p) = Before(U, R, p)
  BY <1>2 DEF Before
<1> QED BY <1>1, <1>2, <1>3 DEF PlaceOf, TurnOf

(* What is handed out is a matter of the amounts alone, not of who takes     *)
(* part without an amount.                                                   *)
Handed(b, m, U, amount, seed, p) ==
    LET gap == amount - SumFunctionOnSet(Wholes(b, m, U), U)
        r == Rests(b, m, U)
    IN  Wholes(b, m, U)[p] + IF r[p] > 0 /\ PlaceOf(U, r, seed, p) < gap THEN 1 ELSE 0

Dealt(b, exact, m, U) == \A q \in U : b[q] \in Nat /\ Stands(Of(exact, q), m, b[q])

LEMMA DistributeHands ==
    ASSUME NEW U \in SUBSET Int, IsFiniteSet(U), NEW exact \in Shares(U),
           NEW amount \in Int, NEW seed \in Int, NEW m \in Nat \ {0}, NEW b, Dealt(b, exact, m, U),
           SumFunctionOnSet(b, U) = amount * m,
           NEW p \in U
    PROVE  CentsIn(Distribute(exact, amount, seed), p) = Handed(b, m, U, amount, seed, p)
<1> DEFINE D == DOMAIN exact
           r == PartsOf(exact, m, b)
           R == Rests(b, m, U)
           W == Wholes(b, m, U)
           gap == Gap(exact, amount)
<1>1. /\ D \subseteq U
      /\ \A q : q \notin D => Of(exact, q) = Whole(0)
      /\ \A q \in D : Of(exact, q) = exact[q]
  BY OfType
<1>2. \A q \in U : b[q] \div m \in Int /\ b[q] % m \in Int
  <2>1. \A q \in U : b[q] \in Int
    BY DEF Dealt
  <2> QED BY <2>1, Remainder
<1>3. /\ W \in [U -> Int] /\ R \in [U -> Int]
      /\ \A q \in U : W[q] = b[q] \div m /\ R[q] = b[q] % m
  BY <1>2 DEF Wholes, Rests
<1>4. \A q \in U : q \notin D => b[q] = 0 /\ W[q] = 0 /\ R[q] = 0
  <2> TAKE q \in U
  <2> HAVE q \notin D
  <2>1. Stands(Of(exact, q), m, b[q]) /\ Of(exact, q) = Whole(0)
    BY <1>1 DEF Dealt
  <2>2. b[q] = 0
    BY <2>1, StandsSigned
  <2>3. (m * 0 + 0) \div m = 0 /\ (m * 0 + 0) % m = 0 /\ m * 0 + 0 = 0
    BY DivisionUnique
  <2> HIDE DEF W, R, D
  <2> QED BY <1>3, <2>2, <2>3
<1>5. \A q \in D : /\ Stands(exact[q], m, b[q]) /\ b[q] >= 0
                   /\ Truncated(exact[q]) = W[q] /\ Parts(exact[q], m, b[q]) = R[q]
  <2> TAKE q \in D
  <2>1. Stands(exact[q], m, b[q]) /\ b[q] >= 0 /\ q \in U
    <3>1. q \in U
      BY <1>1
    <3>2. Of(exact, q) = exact[q]
      BY <1>1
    <3>3. b[q] \in Nat /\ Stands(Of(exact, q), m, b[q])
      BY <3>1 DEF Dealt
    <3> QED BY <3>1, <3>2, <3>3
  <2> HIDE DEF W, R, D
  <2> QED BY <1>3, <2>1, PartsAreRests
<1>6. IsFiniteSet(D) /\ D \in SUBSET Int /\ Split(exact, m, b)
  BY <1>1, <1>5, FS_Subset DEF Split
<1>7. SumFunctionOnSet(b, D) = amount * m
  <2>1. SumFunctionOnSet(b, U) = SumFunctionOnSet(b, D)
    <3>1. D \in SUBSET U /\ \A q \in U : b[q] \in Int /\ (q \notin D => b[q] = 0)
      BY <1>1, <1>4 DEF Dealt
    <3> HIDE DEF D
    <3> QED BY <3>1, SumSupport
  <2> QED BY <2>1
<1>8. gap = amount - SumFunctionOnSet(W, U)
  <2>1. gap = amount - SumFunctionOnSet(Kept(exact), D)
    BY DEF Gap, SumFunction, Kept
  <2>2. \A q \in D : Kept(exact)[q] = W[q] /\ W[q] \in Int
    BY <1>1, <1>3, <1>5 DEF Kept
  <2>3. SumFunctionOnSet(W, U) = SumFunctionOnSet(W, D)
    <3> HIDE DEF D, W, R
    <3> QED BY <1>1, <1>3, <1>4, SumSupport, ZenonT(60)
  <2>4. SumFunctionOnSet(W, D) = SumFunctionOnSet(Kept(exact), D)
    <3> HIDE DEF D, W, R
    <3> QED BY <1>6, <2>2, SumEqual
  <2> QED BY <2>1, <2>3, <2>4
<1>9. r \in [D -> Int] /\ \A q \in D : r[q] = R[q]
  BY <1>1, <1>3, <1>5 DEF PartsOf
<1>10. CASE p \in D
  <2> DEFINE place == PlaceOf(D, r, seed, p)
             cents == Distribute(exact, amount, seed)
  <2>1. /\ place < gap => r[p] > 0
        /\ cents[p] = Truncated(exact[p]) + IF place < gap THEN 1 ELSE 0
    <3>1. Split(exact, m, b) /\ SumFunctionOnSet(b, D) = amount * m /\ IsFiniteSet(D) /\ D \in SUBSET Int
      BY <1>6, <1>7
    <3>2. p \in DOMAIN exact /\ DOMAIN exact \in SUBSET Int /\ IsFiniteSet(DOMAIN exact)
      BY <1>10, <3>1
    <3>3. SumFunctionOnSet(b, DOMAIN exact) = amount * m
      BY <3>1
    <3>4. LET pl == PlaceOf(DOMAIN exact, PartsOf(exact, m, b), seed, p)
              g == Gap(exact, amount)
          IN  /\ g \in Nat
              /\ pl < g => PartsOf(exact, m, b)[p] > 0
              /\ Distribute(exact, amount, seed)[p] = Truncated(exact[p]) + IF pl < g THEN 1 ELSE 0
      <4> HIDE DEF D, place, cents, r, R, W, gap
      <4> QED BY <3>1, <3>2, <3>3, CentsHanded
    <3> QED BY <3>4
  <2>2. p \in DOMAIN cents
    BY <1>10 DEF Distribute
  <2>3. CentsIn(cents, p) = W[p] + IF place < gap THEN 1 ELSE 0
    <3> HIDE DEF cents, place, gap, W
    <3> QED BY <1>5, <1>10, <2>1, <2>2 DEF CentsIn
  <2>4. r[p] > 0 => place = PlaceOf(U, R, seed, p)
    <3>1. /\ D \in SUBSET U /\ R \in [U -> Int] /\ r \in [D -> Int] /\ p \in D
          /\ \A q \in D : r[q] = R[q]
          /\ \A q \in U : q \notin D => R[q] = 0
      BY <1>1, <1>3, <1>4, <1>9, <1>10
    <3> SUFFICES ASSUME r[p] > 0 PROVE PlaceOf(D, r, seed, p) = PlaceOf(U, R, seed, p)
      OBVIOUS
    <3> HIDE DEF r, R, D
    <3> QED BY <3>1, SamePlace
  <2>5. r[p] = R[p]
    BY <1>9, <1>10
  <2>6. Handed(b, m, U, amount, seed, p) =
           W[p] + IF R[p] > 0 /\ PlaceOf(U, R, seed, p) < gap THEN 1 ELSE 0
    <3> HIDE DEF gap
    <3> QED BY <1>8 DEF Handed
  <2> HIDE DEF place, gap, r, R, W, cents
  <2>7. CASE R[p] > 0
    BY <2>3, <2>4, <2>5, <2>6, <2>7 DEF cents
  <2>8. CASE ~(R[p] > 0)
    BY <2>1, <2>3, <2>5, <2>6, <2>8 DEF cents
  <2> QED BY <2>7, <2>8
<1>11. CASE p \notin D
  <2>1. CentsIn(Distribute(exact, amount, seed), p) = 0
    BY <1>11 DEF CentsIn, Distribute
  <2>2. W[p] = 0 /\ ~(R[p] > 0)
    BY <1>4, <1>11
  <2> QED BY <2>1, <2>2 DEF Handed
<1> QED BY <1>10, <1>11

(* Whole cents added to what each has: everybody is handed theirs, and those *)
(* left over go where they went.                                             *)
Shifted(c, b, n, m, U, amount, total) ==
    /\ \A q \in U : b[q] \in Nat /\ n[q] \in Int /\ c[q] = b[q] + n[q] * m
    /\ total = amount + SumFunctionOnSet(n, U)

LEMMA HandsShift ==
    ASSUME NEW U \in SUBSET Int, IsFiniteSet(U), NEW amount \in Int, NEW seed, NEW m \in Nat \ {0},
           NEW b, NEW n, NEW c, NEW total, Shifted(c, b, n, m, U, amount, total),
           NEW p \in U
    PROVE  Handed(c, m, U, total, seed, p) = Handed(b, m, U, amount, seed, p) + n[p]
<1> DEFINE V == Wholes(b, m, U)
           W == Wholes(c, m, U)
           more == SumFunctionOnSet(n, U)
<1>1. ASSUME NEW q \in U
      PROVE  /\ b[q] \div m \in Int /\ b[q] % m \in Int
             /\ c[q] \div m = b[q] \div m + n[q] /\ c[q] % m = b[q] % m
  <2> DEFINE x == b[q] \div m
             y == b[q] % m
  <2>0. b[q] \in Int /\ n[q] \in Int /\ c[q] = b[q] + n[q] * m
    BY DEF Shifted
  <2>1. x \in Int /\ y \in Int /\ b[q] = m * x + y /\ 0 <= y /\ y < m
    BY <2>0, Remainder
  <2> HIDE DEF x, y
  <2>2. c[q] = m * (x + n[q]) + y
    <3>1. m * (x + n[q]) = m * x + m * n[q] /\ m * n[q] = n[q] * m
      BY <2>0, <2>1, Assoc
    <3>2. m * x \in Int /\ n[q] * m \in Int
      BY <2>0, <2>1, Assoc
    <3> QED BY <2>0, <2>1, <3>1, <3>2
  <2>3. c[q] \div m = x + n[q] /\ c[q] % m = y
    <3> DEFINE k == x + n[q]
    <3>1. k \in Int /\ c[q] = m * k + y
      BY <2>0, <2>1, <2>2
    <3> HIDE DEF k
    <3>2. (m * k + y) \div m = k /\ (m * k + y) % m = y
      BY <2>1, <3>1, DivisionUnique
    <3> QED BY <3>1, <3>2 DEF k
  <2> QED BY <2>1, <2>3 DEF x, y
<1>2. \A q \in U : V[q] \in Int /\ n[q] \in Int /\ W[q] = V[q] + n[q]
  BY <1>1 DEF Wholes, Shifted
<1>3. Rests(c, m, U) = Rests(b, m, U)
  BY <1>1 DEF Rests
<1> HIDE DEF V, W
<1>4. SumFunctionOnSet(W, U) = SumFunctionOnSet(V, U) + more /\ SumFunctionOnSet(V, U) \in Int
  <2>1. /\ SumFunctionOnSet(W, U) = SumFunctionOnSet(V, U) + SumFunctionOnSet(n, U)
        /\ SumFunctionOnSet(V, U) \in Int
    <3>1. Joined(W, V, n, U)
      BY <1>2 DEF Joined
    <3> QED BY <3>1, SumPlus
  <2> QED BY <2>1
<1>5. total - SumFunctionOnSet(W, U) = amount - SumFunctionOnSet(V, U)
  <2>1. total = amount + more /\ more \in Int
    <3>1. \A q \in U : n[q] \in Int
      BY <1>2
    <3> QED BY <3>1, SumUnfolds DEF Shifted
  <2> HIDE DEF more
  <2> QED BY <1>4, <2>1
<1>6. W[p] = V[p] + n[p] /\ V[p] \in Int /\ n[p] \in Int
  BY <1>2
<1> DEFINE r == Rests(b, m, U)
           gap == amount - SumFunctionOnSet(V, U)
           extra == IF r[p] > 0 /\ PlaceOf(U, r, seed, p) < gap THEN 1 ELSE 0
<1>7. Handed(b, m, U, amount, seed, p) = V[p] + extra
  BY DEF Handed, V
<1>8. Handed(c, m, U, total, seed, p) = W[p] + extra
  BY <1>3, <1>5 DEF Handed, W
<1>9. extra \in Int
  OBVIOUS
<1> HIDE DEF extra
<1> QED BY <1>6, <1>7, <1>8, <1>9

-----------------------------------------------------------------------------
(* An expense that one pays for others moves the cents of the two sides of it*)
(* by what it comes to, and nobody else's.                                   *)

(* The sides of some of the expenses.                                        *)
Part(b, n, a, amount, S) == \A i \in S : b[i] = a[i] /\ n[i] = amount[i]

(* Sides that are all one participant's, and what they come to for each.     *)
AllOf(a, T, x, amount, U) == \A i \in T : x[i] \in U /\ a[i] = [q \in {x[i]} |-> Whole(amount[i])]
Comes(x, amount, T, p)  == [i \in T |-> IF x[i] = p THEN amount[i] ELSE 0]
Came(x, amount, T, U)   == [p \in U |-> SumFunctionOnSet(Comes(x, amount, T, p), T)]

(* Among all of them they come to what the sides come to.                    *)
LEMMA ComesAddUp ==
    ASSUME NEW U, IsFiniteSet(U), NEW T, IsFiniteSet(T), NEW x, \A i \in T : x[i] \in U,
           NEW amount, \A i \in T : amount[i] \in Int
    PROVE  SumFunctionOnSet(Came(x, amount, T, U), U) = SumFunctionOnSet(amount, T)
<1> DEFINE F == [i \in T |-> [q \in U |-> IF q = x[i] THEN amount[i] ELSE 0]]
           am == [i \in T |-> amount[i]]
           n == Came(x, amount, T, U)
<1>1. \A i \in T : \A q \in U : F[i][q] \in Int
  OBVIOUS
<1>2. \A i \in T : am[i] = SumFunctionOnSet(F[i], U)
  <2> TAKE i \in T
  <2>1. x[i] \in U /\ F[i][x[i]] = amount[i] /\ am[i] = amount[i]
    OBVIOUS
  <2> DEFINE f == F[i]
             y == x[i]
  <2>2. \A q \in U : f[q] \in Int /\ (q # y => f[q] = 0)
    BY <1>1
  <2>3. y \in U /\ f[y] = am[i]
    BY <2>1
  <2> HIDE DEF F, f, y
  <2>4. SumFunctionOnSet(f, U) = f[y]
    BY <2>2, <2>3, SumOnly
  <2> QED BY <2>3, <2>4 DEF f
<1>3. \A q \in U : n[q] = SumFunctionOnSet([i \in T |-> F[i][q]], T)
  <2> TAKE q \in U
  <2> DEFINE g == [i \in T |-> F[i][q]]
             f == Comes(x, amount, T, q)
  <2>1. \A i \in T : g[i] = f[i] /\ f[i] \in Int
    BY DEF Comes
  <2>2. n[q] = SumFunctionOnSet(f, T)
    BY DEF Came
  <2> HIDE DEF f, g
  <2>3. SumFunctionOnSet(f, T) = SumFunctionOnSet(g, T)
    BY <2>1, SumEqual
  <2> QED BY <2>2, <2>3 DEF g
<1>4. Tallied(F, am, n, T, U)
  <2> HIDE DEF F, am, n
  <2> QED BY <1>1, <1>2, <1>3 DEF Tallied
<1>5. \A i \in T : amount[i] \in Int /\ am[i] = amount[i]
  OBVIOUS
<1> HIDE DEF F, am, n
<1>6. SumFunctionOnSet(am, T) = SumFunctionOnSet(n, U)
  BY <1>4, SumSwap
<1>7. SumFunctionOnSet(am, T) = SumFunctionOnSet(amount, T)
  BY <1>5, SumEqual
<1> QED BY <1>6, <1>7 DEF n

(* What is paid by one for others adds to their cents, to the cent: whoever  *)
(* had a cent more from those left over has it still.                        *)
LEMMA SidesGrow ==
    ASSUME NEW U \in SUBSET Int, IsFiniteSet(U), NEW S, IsFiniteSet(S), NEW T, IsFiniteSet(T),
           S \cap T = {}, NEW a, NEW amount, Sides(a, S \cup T, U, amount),
           NEW b0, NEW n0, Part(b0, n0, a, amount, S),
           NEW x, AllOf(a, T, x, amount, U), NEW seed \in Int, NEW p \in U
    PROVE  /\ CentsIn(Distribute(AllAdded(a, S \cup T), SumFunctionOnSet(amount, S \cup T), seed), p) =
                 CentsIn(Distribute(AllAdded(b0, S), SumFunctionOnSet(n0, S), seed), p)
                    + SumFunctionOnSet(Comes(x, amount, T, p), T)
           /\ SumFunctionOnSet(Comes(x, amount, T, p), T) \in Int
<1> DEFINE W == S \cup T
           n == Came(x, amount, T, U)
           sum == SumFunctionOnSet(n0, S)
           more == SumFunctionOnSet(amount, T)
<1>1. IsFiniteSet(W) /\ S \subseteq W /\ T \subseteq W
  BY FS_Union
<1>2. /\ \A i \in W : a[i] \in Shares(U)
      /\ \A i \in W : amount[i] \in Int
  BY DEF Sides
<1>3. Sides(b0, S, U, n0) /\ Sides(a, W, U, amount)
  BY DEF Sides, Part
<1>4. PICK m \in Nat \ {0} : \E V : Tabled(V, a, W, U, m)
  <2> HIDE DEF W
  <2> QED BY <1>1, <1>2, TableOfParts
<1>5. PICK V : Tabled(V, a, W, U, m)
  BY <1>4
<1>6. Tabled(V, b0, S, U, m)
  BY <1>5 DEF Tabled, Part
<1> DEFINE b == Columns(V, S, U)
           c == Columns(V, W, U)
<1>7. /\ AllAdded(b0, S) \in Shares(U) /\ sum \in Int
      /\ \A q \in U : b[q] \in Nat /\ Stands(Of(AllAdded(b0, S), q), m, b[q])
      /\ SumFunctionOnSet(b, U) = sum * m
  BY <1>3, <1>6, ColumnsStand
<1>8. /\ AllAdded(a, W) \in Shares(U) /\ SumFunctionOnSet(amount, W) \in Int
      /\ \A i \in W : \A q \in U : V[i][q] \in Nat
      /\ \A q \in U : c[q] \in Nat /\ Stands(Of(AllAdded(a, W), q), m, c[q])
      /\ SumFunctionOnSet(c, U) = SumFunctionOnSet(amount, W) * m
  <2> HIDE DEF W
  <2> QED BY <1>1, <1>3, <1>5, ColumnsStand
<1>9. SumFunctionOnSet(amount, W) = sum + more /\ more \in Int
  <2>1. /\ SumFunctionOnSet(amount, W) = SumFunctionOnSet(amount, S) + more
        /\ more \in Int
    BY <1>2, SumUnion
  <2>2. SumFunctionOnSet(amount, S) = sum
    BY <1>1, <1>2, SumEqual DEF Part
  <2> QED BY <2>1, <2>2
<1>10. \A i \in T : \A q \in U : Comes(x, amount, T, q)[i] \in Int
  BY <1>1, <1>2 DEF Comes
<1>11. \A q \in U : n[q] \in Int
  <2> TAKE q \in U
  <2> DEFINE f == Comes(x, amount, T, q)
  <2>1. \A i \in T : f[i] \in Int
    BY <1>10
  <2> HIDE DEF f
  <2>2. SumFunctionOnSet(f, T) \in Int
    BY <2>1, SumUnfolds
  <2> QED BY <2>2 DEF f, Came
<1>12. \A i \in T : \A q \in U : V[i][q] = m * Comes(x, amount, T, q)[i]
  <2> TAKE i \in T
  <2> TAKE q \in U
  <2>1. Stands(Of(a[i], q), m, V[i][q])
    BY <1>1, <1>5 DEF Tabled
  <2>2. a[i] = [z \in {x[i]} |-> Whole(amount[i])] /\ amount[i] \in Int
    BY <1>1, <1>2 DEF AllOf
  <2>3. Of(a[i], q) = IF x[i] = q THEN Whole(amount[i]) ELSE Whole(0)
    BY <2>2 DEF Of
  <2>4. Comes(x, amount, T, q)[i] = IF x[i] = q THEN amount[i] ELSE 0
    BY DEF Comes
  <2> DEFINE k == Comes(x, amount, T, q)[i]
  <2>5. k \in Int /\ Of(a[i], q) = Whole(k)
    BY <1>10, <2>3, <2>4
  <2> HIDE DEF k
  <2>6. Stands(Of(a[i], q), m, k * m)
    BY <2>5, StandsWhole
  <2>7. V[i][q] = k * m
    BY <2>1, <2>6, StandsUnique
  <2>8. k * m = m * k
    BY <2>5, Assoc
  <2> QED BY <2>7, <2>8 DEF k
<1>13. \A q \in U : c[q] = b[q] + n[q] * m
  <2> TAKE q \in U
  <2> DEFINE v == [i \in W |-> V[i][q]]
             w == [i \in S |-> V[i][q]]
             t == [i \in T |-> V[i][q]]
             f == Comes(x, amount, T, q)
             zero == [i \in T |-> 0]
  <2>1. c[q] = SumFunctionOnSet(v, W) /\ b[q] = SumFunctionOnSet(w, S) /\ n[q] = SumFunctionOnSet(f, T)
    BY DEF Columns, Came
  <2>2. /\ \A i \in W : v[i] \in Int
        /\ \A i \in S : w[i] = v[i]
        /\ \A i \in T : t[i] = v[i] /\ t[i] \in Int
    BY <1>8
  <2>3. SumFunctionOnSet(v, W) = SumFunctionOnSet(v, S) + SumFunctionOnSet(v, T)
    <3> HIDE DEF v
    <3> QED BY <2>2, SumUnion
  <2>4. SumFunctionOnSet(v, S) = SumFunctionOnSet(w, S) /\ SumFunctionOnSet(v, T) = SumFunctionOnSet(t, T)
    <3> HIDE DEF v, w, t, W
    <3>1. \A i \in S : v[i] \in Int
      BY <1>1, <2>2
    <3> QED BY <2>2, <3>1, SumEqual
  <2>5. Linear(t, m, f, zero, T)
    <3>1. \A i \in T : t[i] = m * f[i] + 0 /\ f[i] \in Int
      <4> TAKE i \in T
      <4>1. f[i] \in Int
        BY <1>10
      <4>2. t[i] = m * f[i]
        BY <1>12
      <4> HIDE DEF f, t
      <4>3. m * f[i] \in Int
        BY <4>1, Assoc
      <4> QED BY <4>1, <4>2, <4>3
    <3>2. \A i \in T : zero[i] = 0
      OBVIOUS
    <3> HIDE DEF f, t, zero
    <3> QED BY <3>1, <3>2 DEF Linear
  <2>6. SumFunctionOnSet(zero, T) = 0
    BY SumOfZeros
  <2>7. SumFunctionOnSet(t, T) = m * SumFunctionOnSet(f, T) + 0
    <3> HIDE DEF t, f, zero
    <3> QED BY <2>5, <2>6, SumLinear
  <2>8. n[q] \in Int /\ b[q] \in Int
    BY <1>7, <1>11
  <2> HIDE DEF v, w, t, f, zero, b, c, n, W
  <2>9. m * n[q] = n[q] * m /\ n[q] * m \in Int
    BY <2>8, Assoc
  <2> QED BY <2>1, <2>3, <2>4, <2>7, <2>8, <2>9
<1>14. SumFunctionOnSet(n, U) = more
  <2>1. \A i \in T : amount[i] \in Int /\ x[i] \in U
    BY <1>1, <1>2 DEF AllOf
  <2> QED BY <2>1, ComesAddUp
<1> HIDE DEF b, c, n, W, sum, more
<1> DEFINE total == SumFunctionOnSet(amount, W)
<1>15. CentsIn(Distribute(AllAdded(b0, S), sum, seed), p) = Handed(b, m, U, sum, seed, p)
  <2>1. Dealt(b, AllAdded(b0, S), m, U)
    BY <1>7 DEF Dealt
  <2> QED BY <1>7, <2>1, DistributeHands
<1>16. CentsIn(Distribute(AllAdded(a, W), total, seed), p) = Handed(c, m, U, total, seed, p)
  <2>1. Dealt(c, AllAdded(a, W), m, U)
    BY <1>8 DEF Dealt
  <2>2. total \in Int /\ SumFunctionOnSet(c, U) = total * m /\ AllAdded(a, W) \in Shares(U)
    BY <1>8
  <2> HIDE DEF total
  <2> QED BY <2>1, <2>2, DistributeHands
<1>17. Handed(c, m, U, total, seed, p) = Handed(b, m, U, sum, seed, p) + n[p]
  <2>1. total = sum + SumFunctionOnSet(n, U)
    BY <1>9, <1>14
  <2> HIDE DEF total
  <2>2. Shifted(c, b, n, m, U, sum, total)
    BY <1>7, <1>11, <1>13, <2>1 DEF Shifted
  <2>3. sum \in Int
    BY <1>7
  <2> QED BY <2>2, <2>3, HandsShift
<1>18. n[p] = SumFunctionOnSet(Comes(x, amount, T, p), T) /\ n[p] \in Int
  BY <1>11 DEF n, Came
<1> HIDE DEF total
<1> QED BY <1>15, <1>16, <1>17, <1>18 DEF W, sum, total

(* The balance of a participant, of all of them.                             *)
HasPaid(rows, p) == CentsIn(Distribute(Paid(rows), Amount(rows), 0), p)
HasOwed(rows, p) == CentsIn(Distribute(Owed(rows), Amount(rows), 0), p)

LEMMA BalanceIs ==
    ASSUME NEW U \in SUBSET Int, IsFiniteSet(U), NEW rows, Rows(rows, U), NEW p
    PROVE  /\ HasPaid(rows, p) \in Int /\ HasOwed(rows, p) \in Int
           /\ Balance(rows, p) = HasPaid(rows, p) - HasOwed(rows, p)
           /\ Balance(rows, p) \in Int
<1> DEFINE paid == Distribute(Paid(rows), Amount(rows), 0)
           owed == Distribute(Owed(rows), Amount(rows), 0)
           Cents(c, q) == IF q \in DOMAIN c THEN c[q] ELSE 0
           D == DOMAIN paid \cup DOMAIN owed
<1>1. paid \in CentsOf(U) /\ owed \in CentsOf(U)
  BY SidesType, DistributeType
<1>2. GetBalances(rows) = [q \in D |-> Cents(paid, q) - Cents(owed, q)]
  BY DEF GetBalances, CentsIn
<1> HIDE DEF paid, owed
<1>3. Cents(paid, p) \in Int /\ Cents(owed, p) \in Int
  BY <1>1, CentsParts
<1>4. HasPaid(rows, p) = Cents(paid, p) /\ HasOwed(rows, p) = Cents(owed, p)
  BY DEF HasPaid, HasOwed, CentsIn, paid, owed
<1>5. Balance(rows, p) = IF p \in D THEN Cents(paid, p) - Cents(owed, p) ELSE 0
  BY <1>2 DEF Balance, CentsIn
<1>6. p \notin D => Cents(paid, p) = 0 /\ Cents(owed, p) = 0
  OBVIOUS
<1> HIDE DEF Cents, D
<1> QED BY <1>3, <1>4, <1>5, <1>6

(* What all of them have paid is what all of them owe.                       *)
LEMMA BalancesCancel ==
    ASSUME NEW U \in SUBSET Int, IsFiniteSet(U), NEW rows, Rows(rows, U),
           \A i \in DOMAIN rows : AddsUp(rows[i])
    PROVE  SumFunctionOnSet([p \in U |-> Balance(rows, p)], U) = 0
<1> DEFINE all == [p \in U |-> Balance(rows, p)]
           paid == [p \in U |-> HasPaid(rows, p)]
           owed == [p \in U |-> HasOwed(rows, p)]
<1>1. ASSUME NEW exact \in {Paid(rows), Owed(rows)}
      PROVE  LET cents == Distribute(exact, Amount(rows), 0)
             IN  SumFunctionOnSet([p \in U |-> CentsIn(cents, p)], U) = Amount(rows)
  <2> DEFINE cents == Distribute(exact, Amount(rows), 0)
             f == [p \in U |-> CentsIn(cents, p)]
  <2>1. SumFunction(cents) = Amount(rows)
    BY BalancesWithinACent
  <2>2. cents \in CentsOf(U)
    BY SidesType, DistributeType
  <2>3. DOMAIN cents \subseteq U /\ \A p \in DOMAIN cents : cents[p] \in Int
    BY <2>2, CentsParts
  <2> DEFINE D == DOMAIN cents
  <2> HIDE DEF cents
  <2>4. /\ \A p \in U : f[p] \in Int /\ (p \notin D => f[p] = 0)
        /\ \A p \in D : f[p] = cents[p] /\ cents[p] \in Int
        /\ D \in SUBSET U /\ IsFiniteSet(D)
    BY <2>3, FS_Subset DEF CentsIn
  <2>5. SumFunction(cents) = SumFunctionOnSet(cents, D)
    BY DEF SumFunction
  <2> HIDE DEF f, D
  <2>6. SumFunctionOnSet(f, U) = SumFunctionOnSet(f, D)
    BY <2>4, SumSupport
  <2>7. SumFunctionOnSet(cents, D) = SumFunctionOnSet(f, D)
    BY <2>4, SumEqual
  <2> QED BY <2>1, <2>5, <2>6, <2>7 DEF f, cents
<1>2. SumFunctionOnSet(paid, U) = Amount(rows) /\ SumFunctionOnSet(owed, U) = Amount(rows)
  BY <1>1 DEF HasPaid, HasOwed
<1>3. Joined(paid, all, owed, U)
  <2>1. \A p \in U : /\ HasPaid(rows, p) \in Int /\ HasOwed(rows, p) \in Int
                     /\ Balance(rows, p) = HasPaid(rows, p) - HasOwed(rows, p)
                     /\ Balance(rows, p) \in Int
    BY BalanceIs
  <2> QED BY <2>1 DEF Joined
<1>4. Amount(rows) \in Int
  BY SidesType
<1> HIDE DEF all, paid, owed
<1>5. /\ SumFunctionOnSet(paid, U) = SumFunctionOnSet(all, U) + SumFunctionOnSet(owed, U)
      /\ SumFunctionOnSet(all, U) \in Int
  BY <1>3, SumPlus
<1> QED BY <1>2, <1>4, <1>5 DEF all

(* Expenses that one participant pays for another, the i-th of T for to[i]   *)
(* by from[i].                                                               *)
PaidOver(rows, T, from, to, U) ==
    \A i \in T : /\ from[i] \in U /\ to[i] \in U
                 /\ PaidShares(rows[i]) = [q \in {from[i]} |-> Whole(rows[i].amount)]
                 /\ OwedShares(rows[i]) = [q \in {to[i]} |-> Whole(rows[i].amount)]

(* balances.ts, the left-over cents of the whole ledger: whatever cents the  *)
(* other expenses leave over, expenses paid by one participant for another   *)
(* move the balances of the two, to the cent, and nobody else's.             *)
THEOREM BalancesMove ==
    ASSUME NEW U \in SUBSET Int, IsFiniteSet(U), NEW rows, Rows(rows, U),
           NEW all, Rows(all, U), \A i \in DOMAIN all : AddsUp(all[i]),
           NEW T, DOMAIN all = DOMAIN rows \cup T, DOMAIN rows \cap T = {},
           \A i \in DOMAIN rows : all[i] = rows[i],
           NEW from, NEW to, PaidOver(all, T, from, to, U), NEW p \in U
    PROVE  /\ Balance(all, p) = Balance(rows, p)
                 + SumFunctionOnSet(Comes(from, AmountOf(all), T, p), T)
                 - SumFunctionOnSet(Comes(to, AmountOf(all), T, p), T)
           /\ SumFunctionOnSet(Comes(from, AmountOf(all), T, p), T) \in Int
           /\ SumFunctionOnSet(Comes(to, AmountOf(all), T, p), T) \in Int
<1> DEFINE S == DOMAIN rows
           W == DOMAIN all
           n == AmountOf(all)
<1>1. IsFiniteSet(W) /\ IsFiniteSet(S) /\ IsFiniteSet(T) /\ W = S \cup T /\ S \cap T = {}
  <2>1. IsFiniteSet(W) /\ W = S \cup T
    BY DEF Rows
  <2> QED BY <2>1, FS_Subset
<1>2. \A i \in S : AddsUp(rows[i])
  BY <1>1
<1>3. /\ Paid(rows) = AllAdded(PaidOf(rows), S) /\ Owed(rows) = AllAdded(OwedOf(rows), S)
      /\ Amount(rows) = SumFunctionOnSet(AmountOf(rows), S)
  BY <1>2, SidesOfRows
<1>4. /\ Paid(all) = AllAdded(PaidOf(all), W) /\ Owed(all) = AllAdded(OwedOf(all), W)
      /\ Amount(all) = SumFunctionOnSet(n, W)
      /\ Sides(PaidOf(all), W, U, n) /\ Sides(OwedOf(all), W, U, n)
  BY SidesOfRows
<1>5. /\ Part(PaidOf(rows), AmountOf(rows), PaidOf(all), n, S)
      /\ Part(OwedOf(rows), AmountOf(rows), OwedOf(all), n, S)
  BY <1>1 DEF Part, PaidOf, OwedOf, AmountOf
<1>6. AllOf(PaidOf(all), T, from, n, U) /\ AllOf(OwedOf(all), T, to, n, U)
  BY <1>1 DEF PaidOver, AllOf, PaidOf, OwedOf, AmountOf
<1> DEFINE given == SumFunctionOnSet(Comes(from, n, T, p), T)
           taken == SumFunctionOnSet(Comes(to, n, T, p), T)
<1> HIDE DEF n, S, W
<1>7. HasPaid(all, p) = HasPaid(rows, p) + given /\ given \in Int
  <2>1. /\ CentsIn(Distribute(AllAdded(PaidOf(all), W), SumFunctionOnSet(n, W), 0), p) =
             CentsIn(Distribute(AllAdded(PaidOf(rows), S), SumFunctionOnSet(AmountOf(rows), S), 0), p) + given
        /\ given \in Int
    <3>1. 0 \in Int /\ Sides(PaidOf(all), S \cup T, U, n)
      BY <1>1, <1>4
    <3>2. /\ CentsIn(Distribute(AllAdded(PaidOf(all), S \cup T), SumFunctionOnSet(n, S \cup T), 0), p) =
                CentsIn(Distribute(AllAdded(PaidOf(rows), S), SumFunctionOnSet(AmountOf(rows), S), 0), p)
                   + SumFunctionOnSet(Comes(from, n, T, p), T)
          /\ SumFunctionOnSet(Comes(from, n, T, p), T) \in Int
      BY <3>1, <1>1, <1>5, <1>6, SidesGrow
    <3> QED BY <3>2, <1>1 DEF given
  <2> QED BY <1>3, <1>4, <2>1 DEF HasPaid
<1>8. HasOwed(all, p) = HasOwed(rows, p) + taken /\ taken \in Int
  <2>1. /\ CentsIn(Distribute(AllAdded(OwedOf(all), W), SumFunctionOnSet(n, W), 0), p) =
             CentsIn(Distribute(AllAdded(OwedOf(rows), S), SumFunctionOnSet(AmountOf(rows), S), 0), p) + taken
        /\ taken \in Int
    <3>1. 0 \in Int /\ Sides(OwedOf(all), S \cup T, U, n)
      BY <1>1, <1>4
    <3>2. /\ CentsIn(Distribute(AllAdded(OwedOf(all), S \cup T), SumFunctionOnSet(n, S \cup T), 0), p) =
                CentsIn(Distribute(AllAdded(OwedOf(rows), S), SumFunctionOnSet(AmountOf(rows), S), 0), p)
                   + SumFunctionOnSet(Comes(to, n, T, p), T)
          /\ SumFunctionOnSet(Comes(to, n, T, p), T) \in Int
      BY <3>1, <1>1, <1>5, <1>6, SidesGrow
    <3> QED BY <3>2, <1>1 DEF taken
  <2> QED BY <1>3, <1>4, <2>1 DEF HasOwed
<1> HIDE DEF given, taken
<1>9. /\ HasPaid(rows, p) \in Int /\ HasOwed(rows, p) \in Int
      /\ Balance(rows, p) = HasPaid(rows, p) - HasOwed(rows, p)
      /\ Balance(all, p) = HasPaid(all, p) - HasOwed(all, p)
  BY BalanceIs
<1> QED BY <1>7, <1>8, <1>9 DEF given, taken, n

-----------------------------------------------------------------------------
(* The ends of a line, and what those in it are due.                         *)

(* Sequences of the same elements are the same.                              *)
LEMMA SameSeq ==
    ASSUME NEW E, NEW s \in Seq(E), NEW t \in Seq(E), Len(s) = Len(t),
           \A i \in 1..Len(s) : s[i] = t[i]
    PROVE  s = t
OBVIOUS

(* A first and a last element, and those between them.                       *)
Middle(line) == Tail(Front(line))

LEMMA LineParts ==
    ASSUME NEW E, NEW line \in Seq(E), Len(line) >= 2
    PROVE  /\ Head(line) \in E /\ Last(line) \in E
           /\ Head(line) = line[1] /\ Last(line) = line[Len(line)]
           /\ Middle(line) \in Seq(E) /\ Len(Middle(line)) = Len(line) - 2
           /\ \A i \in 1..(Len(line) - 2) : Middle(line)[i] = line[i + 1]
           /\ Front(Tail(line)) = Middle(line)
<1> DEFINE n == Len(line)
<1>1. n \in Nat /\ n >= 2
  OBVIOUS
<1>2. Head(line) \in E /\ Last(line) \in E /\ Head(line) = line[1] /\ Last(line) = line[n]
  BY <1>1 DEF Last
<1> DEFINE f == Front(line)
           t == Tail(line)
<1>3. f \in Seq(E) /\ Len(f) = n - 1 /\ \A i \in 1..(n - 1) : f[i] = line[i]
  BY <1>1 DEF Front
<1>4. t \in Seq(E) /\ Len(t) = n - 1 /\ \A i \in 1..(n - 1) : t[i] = line[i + 1]
  BY <1>1
<1> HIDE DEF f, t
<1>5. Tail(f) \in Seq(E) /\ Len(Tail(f)) = n - 2 /\ \A i \in 1..(n - 2) : Tail(f)[i] = line[i + 1]
  <2>1. Tail(f) \in Seq(E) /\ Len(Tail(f)) = n - 2 /\ \A i \in 1..(n - 2) : Tail(f)[i] = f[i + 1]
    <3> HIDE DEF n
    <3> QED BY <1>1, <1>3
  <2>2. \A i \in 1..(n - 2) : f[i + 1] = line[i + 1]
    <3> HIDE DEF n
    <3>1. \A i \in 1..(n - 2) : i + 1 \in 1..(n - 1)
      BY <1>1
    <3> QED BY <1>3, <3>1
  <2> QED BY <2>1, <2>2
<1>6. Front(t) \in Seq(E) /\ Len(Front(t)) = n - 2 /\ \A i \in 1..(n - 2) : Front(t)[i] = line[i + 1]
  <2>1. Front(t) \in Seq(E) /\ Len(Front(t)) = n - 2 /\ \A i \in 1..(n - 2) : Front(t)[i] = t[i]
    <3> HIDE DEF n
    <3> QED BY <1>1, <1>4 DEF Front
  <2>2. \A i \in 1..(n - 2) : t[i] = line[i + 1]
    <3> HIDE DEF n
    <3>1. \A i \in 1..(n - 2) : i \in 1..(n - 1)
      BY <1>1
    <3> QED BY <1>4, <3>1
  <2> QED BY <2>1, <2>2
<1>7. Front(t) = Tail(f)
  <2> DEFINE x == Front(t)
             y == Tail(f)
  <2>1. x \in Seq(E) /\ y \in Seq(E) /\ Len(x) = Len(y) /\ \A i \in 1..Len(x) : x[i] = y[i]
    <3> HIDE DEF n
    <3> QED BY <1>5, <1>6
  <2> HIDE DEF x, y
  <2>2. x = y
    BY <2>1, SameSeq
  <2> QED BY <2>2 DEF x, y
<1> QED BY <1>2, <1>5, <1>7 DEF Middle, f, t

(* What those of P in line are due, in all, and what legs bring them.        *)
Within(x, P, n)  == IF x \in P THEN n ELSE 0
Owes(line, P)    == [i \in DOMAIN line |-> Within(line[i].who, P, line[i].total)]
OwedBy(line, P)  == SumFunctionOnSet(Owes(line, P), DOMAIN line)
Moves(leg, P)    == Within(leg.to, P, leg.amount) - Within(leg.from, P, leg.amount)
Nets(legs, P)    == [i \in DOMAIN legs |-> Moves(legs[i], P)]
Net(legs, P)     == SumFunctionOnSet(Nets(legs, P), DOMAIN legs)

(* They are whole cents.                                                     *)
LEMMA OwedType ==
    ASSUME NEW D, NEW line \in Seq(Entries(D)), NEW P
    PROVE  /\ \A i \in DOMAIN line : Owes(line, P)[i] \in Int
           /\ OwedBy(line, P) \in Int
<1>1. \A i \in DOMAIN line : line[i] \in Entries(D)
  OBVIOUS
<1>2. \A i \in DOMAIN line : Owes(line, P)[i] \in Int
  BY <1>1 DEF Owes, Within, Entries
<1>3. IsFiniteSet(DOMAIN line)
  <2>1. DOMAIN line = 1..Len(line) /\ Len(line) \in Int /\ 1 \in Int
    OBVIOUS
  <2> QED BY <2>1, FS_Interval
<1> QED BY <1>2, <1>3, SumUnfolds DEF OwedBy

LEMMA NetType ==
    ASSUME NEW D, NEW legs \in Seq(LegsAmong(D)), NEW P
    PROVE  /\ \A i \in DOMAIN legs : Nets(legs, P)[i] \in Int
           /\ Net(legs, P) \in Int
           /\ IsFiniteSet(DOMAIN legs)
<1>1. \A i \in DOMAIN legs : legs[i] \in LegsAmong(D)
  OBVIOUS
<1>2. \A i \in DOMAIN legs : Nets(legs, P)[i] \in Int
  BY <1>1 DEF Nets, Moves, Within, LegsAmong
<1>3. IsFiniteSet(DOMAIN legs)
  <2>1. DOMAIN legs = 1..Len(legs) /\ Len(legs) \in Int /\ 1 \in Int
    OBVIOUS
  <2> QED BY <2>1, FS_Interval
<1> QED BY <1>2, <1>3, SumUnfolds DEF Net

(* One more in front, or at the end.                                         *)
LEMMA ConsIs ==
    ASSUME NEW E, NEW x \in E, NEW s \in Seq(E)
    PROVE  /\ <<x>> \o s \in Seq(E) /\ Len(<<x>> \o s) = Len(s) + 1
           /\ DOMAIN (<<x>> \o s) = 1..(Len(s) + 1)
           /\ (<<x>> \o s)[1] = x
           /\ \A i \in 1..Len(s) : (<<x>> \o s)[i + 1] = s[i]
OBVIOUS

LEMMA SnocIs ==
    ASSUME NEW E, NEW x \in E, NEW s \in Seq(E)
    PROVE  /\ s \o <<x>> \in Seq(E) /\ Len(s \o <<x>>) = Len(s) + 1
           /\ DOMAIN (s \o <<x>>) = 1..(Len(s) + 1)
           /\ (s \o <<x>>)[Len(s) + 1] = x
           /\ \A i \in 1..Len(s) : (s \o <<x>>)[i] = s[i]
OBVIOUS

LEMMA OwedCons ==
    ASSUME NEW D, NEW x \in Entries(D), NEW s \in Seq(Entries(D)), NEW P
    PROVE  OwedBy(<<x>> \o s, P) = Within(x.who, P, x.total) + OwedBy(s, P)
<1> DEFINE E == Entries(D)
           t == <<x>> \o s
           n == Len(s)
           f == Owes(t, P)
           g == Owes(s, P)
<1>1. /\ t \in Seq(E) /\ DOMAIN t = 1..(n + 1) /\ t[1] = x
      /\ \A i \in 1..n : t[i + 1] = s[i]
  <2> HIDE DEF E
  <2>1. x \in E /\ s \in Seq(E)
    BY DEF E
  <2> QED BY <2>1, ConsIs
<1>2. n \in Nat /\ DOMAIN s = 1..n
  OBVIOUS
<1> HIDE DEF t, n
<1>3. \A i \in 1..(n + 1) : f[i] \in Int
  BY <1>1, OwedType
<1>4. \A i \in 1..n : g[i] = f[i + 1]
  <2>1. \A i \in 1..n : i + 1 \in 1..(n + 1)
    BY <1>2
  <2> QED BY <1>1, <1>2, <2>1 DEF Owes
<1>5. f[1] = Within(x.who, P, x.total)
  <2>1. 1 \in 1..(n + 1)
    BY <1>2
  <2> QED BY <1>1, <2>1 DEF Owes
<1>6. OwedBy(t, P) = SumFunctionOnSet(f, 1..(n + 1)) /\ OwedBy(s, P) = SumFunctionOnSet(g, 1..n)
  BY <1>1, <1>2 DEF OwedBy
<1> HIDE DEF f, g
<1>7. SumFunctionOnSet(f, 1..(n + 1)) = f[1] + SumFunctionOnSet(g, 1..n)
  BY <1>2, <1>3, <1>4, SumCons
<1> QED BY <1>5, <1>6, <1>7 DEF t

LEMMA OwedSnoc ==
    ASSUME NEW D, NEW x \in Entries(D), NEW s \in Seq(Entries(D)), NEW P
    PROVE  OwedBy(s \o <<x>>, P) = OwedBy(s, P) + Within(x.who, P, x.total)
<1> DEFINE E == Entries(D)
           t == s \o <<x>>
           n == Len(s)
           f == Owes(t, P)
           g == Owes(s, P)
<1>1. /\ t \in Seq(E) /\ DOMAIN t = 1..(n + 1) /\ t[n + 1] = x
      /\ \A i \in 1..n : t[i] = s[i]
  <2> HIDE DEF E
  <2>1. x \in E /\ s \in Seq(E)
    BY DEF E
  <2> QED BY <2>1, SnocIs
<1>2. n \in Nat /\ DOMAIN s = 1..n
  OBVIOUS
<1> HIDE DEF t, n
<1>3. \A i \in 1..(n + 1) : f[i] \in Int
  BY <1>1, OwedType
<1>4. \A i \in 1..n : g[i] = f[i]
  <2>1. \A i \in 1..n : i \in 1..(n + 1)
    BY <1>2
  <2> QED BY <1>1, <1>2, <2>1 DEF Owes
<1>5. f[n + 1] = Within(x.who, P, x.total)
  <2>1. n + 1 \in 1..(n + 1)
    BY <1>2
  <2> QED BY <1>1, <2>1 DEF Owes
<1>6. OwedBy(t, P) = SumFunctionOnSet(f, 1..(n + 1)) /\ OwedBy(s, P) = SumFunctionOnSet(g, 1..n)
  BY <1>1, <1>2 DEF OwedBy
<1> HIDE DEF f, g
<1>7. SumFunctionOnSet(f, 1..(n + 1)) = SumFunctionOnSet(g, 1..n) + f[n + 1]
  BY <1>2, <1>3, <1>4, SumSnoc
<1> QED BY <1>5, <1>6, <1>7 DEF t

LEMMA NetCons ==
    ASSUME NEW D, NEW x \in LegsAmong(D), NEW s \in Seq(LegsAmong(D)), NEW P
    PROVE  Net(<<x>> \o s, P) = Moves(x, P) + Net(s, P)
<1> DEFINE E == LegsAmong(D)
           t == <<x>> \o s
           n == Len(s)
           f == Nets(t, P)
           g == Nets(s, P)
<1>1. /\ t \in Seq(E) /\ DOMAIN t = 1..(n + 1) /\ t[1] = x
      /\ \A i \in 1..n : t[i + 1] = s[i]
  <2> HIDE DEF E
  <2>1. x \in E /\ s \in Seq(E)
    BY DEF E
  <2> QED BY <2>1, ConsIs
<1>2. n \in Nat /\ DOMAIN s = 1..n
  OBVIOUS
<1> HIDE DEF t, n
<1>3. \A i \in 1..(n + 1) : f[i] \in Int
  BY <1>1, NetType
<1>4. \A i \in 1..n : g[i] = f[i + 1]
  <2>1. \A i \in 1..n : i + 1 \in 1..(n + 1)
    BY <1>2
  <2> QED BY <1>1, <1>2, <2>1 DEF Nets
<1>5. f[1] = Moves(x, P)
  <2>1. 1 \in 1..(n + 1)
    BY <1>2
  <2> QED BY <1>1, <2>1 DEF Nets
<1>6. Net(t, P) = SumFunctionOnSet(f, 1..(n + 1)) /\ Net(s, P) = SumFunctionOnSet(g, 1..n)
  BY <1>1, <1>2 DEF Net
<1> HIDE DEF f, g
<1>7. SumFunctionOnSet(f, 1..(n + 1)) = f[1] + SumFunctionOnSet(g, 1..n)
  BY <1>2, <1>3, <1>4, SumCons
<1> QED BY <1>5, <1>6, <1>7 DEF t

(* The first and the last of a line, and those between them.                 *)
LEMMA LineJoins ==
    ASSUME NEW E, NEW line \in Seq(E), Len(line) >= 2
    PROVE  line = <<Head(line)>> \o (Middle(line) \o <<Last(line)>>)
<1> DEFINE n == Len(line)
           m == Middle(line)
           a == Head(line)
           z == Last(line)
           t == m \o <<z>>
           u == <<a>> \o t
<1>1. /\ a \in E /\ z \in E /\ a = line[1] /\ z = line[n]
      /\ m \in Seq(E) /\ Len(m) = n - 2
      /\ \A i \in 1..(n - 2) : m[i] = line[i + 1]
  BY LineParts
<1>2. n \in Nat /\ n >= 2
  OBVIOUS
<1> HIDE DEF m, a, z, n
<1>3. t \in Seq(E) /\ Len(t) = n - 1 /\ t[n - 1] = z /\ \A i \in 1..(n - 2) : t[i] = m[i]
  <2>1. t \in Seq(E) /\ Len(t) = Len(m) + 1 /\ t[Len(m) + 1] = z /\ \A i \in 1..Len(m) : t[i] = m[i]
    <3>1. z \in E /\ m \in Seq(E)
      BY <1>1
    <3> QED BY <3>1, SnocIs
  <2>2. Len(m) + 1 = n - 1
    BY <1>1, <1>2
  <2> QED BY <1>1, <2>1, <2>2
<1> HIDE DEF t
<1>4. u \in Seq(E) /\ Len(u) = Len(t) + 1 /\ u[1] = a /\ \A i \in 1..Len(t) : u[i + 1] = t[i]
  BY <1>1, <1>3, ConsIs
<1>5. ASSUME NEW i \in 1..n PROVE u[i] = line[i]
  <2>1. CASE i = 1
    BY <1>1, <1>4, <2>1
  <2>2. CASE i = n
    <3>1. n - 1 \in 1..Len(t) /\ (n - 1) + 1 = n
      BY <1>2, <1>3
    <3>2. u[(n - 1) + 1] = t[n - 1]
      BY <1>4, <3>1
    <3> QED BY <1>1, <1>3, <2>2, <3>1, <3>2
  <2>3. CASE i # 1 /\ i # n
    <3>1. i - 1 \in 1..(n - 2) /\ i - 1 \in 1..Len(t) /\ (i - 1) + 1 = i
      BY <1>2, <1>3, <2>3
    <3>2. u[(i - 1) + 1] = t[i - 1]
      BY <1>4, <3>1
    <3>3. t[i - 1] = m[i - 1] /\ m[i - 1] = line[(i - 1) + 1]
      BY <1>1, <1>3, <3>1
    <3> QED BY <3>1, <3>2, <3>3
  <2> QED BY <2>1, <2>2, <2>3
<1>6. Len(u) = Len(line) /\ n = Len(line)
  BY <1>2, <1>3, <1>4 DEF n
<1> HIDE DEF u
<1>7. u = line
  BY <1>4, <1>5, <1>6, SameSeq
<1> QED BY <1>7 DEF u, t, m, a, z

-----------------------------------------------------------------------------
(* A round of the pairing loop: what it settles, and where it leaves those   *)
(* still in line.                                                            *)

(* A round takes from those in line what its leg brings them.                *)
LEMMA RoundOwed ==
    ASSUME NEW D, NEW line \in Seq(Entries(D)), Len(line) >= 2, NEW P
    PROVE  /\ OwedBy(Shortened(line), P) = OwedBy(line, P) - Moves(LegOf(line), P)
           /\ Moves(LegOf(line), D) = 0
<1> DEFINE E == Entries(D)
           m == Middle(line)
           a == Head(line)
           z == Last(line)
           left == a.total + z.total
           aLeft == [a EXCEPT !.total = left]
           zLeft == [z EXCEPT !.total = left]
           u == Within(a.who, P, a.total)
           v == OwedBy(m, P)
           w == Within(z.who, P, z.total)
<1>1. a \in E /\ z \in E /\ m \in Seq(E) /\ Front(Tail(line)) = m
  <2> HIDE DEF E
  <2>1. line \in Seq(E)
    BY DEF E
  <2> QED BY <2>1, LineParts
<1>2. a.total \in Int /\ z.total \in Int /\ a.who \in D /\ z.who \in D /\ left \in Int
  BY <1>1 DEF Entries
<1>3. /\ aLeft \in E /\ aLeft.who = a.who /\ aLeft.total = left
      /\ zLeft \in E /\ zLeft.who = z.who /\ zLeft.total = left
  BY <1>1, <1>2 DEF Entries
<1>4. OwedBy(line, P) = u + (v + w)
  <2>1. line = <<a>> \o (m \o <<z>>)
    <3> HIDE DEF E
    <3>1. line \in Seq(E)
      BY DEF E
    <3> QED BY <3>1, LineJoins
  <2> DEFINE t == m \o <<z>>
  <2>2. t \in Seq(E)
    <3> HIDE DEF E, m, z
    <3>1. z \in E /\ m \in Seq(E)
      BY <1>1
    <3> QED BY <3>1, SnocIs
  <2>3. OwedBy(t, P) = v + w
    <3> HIDE DEF m, z
    <3> QED BY <1>1, OwedSnoc DEF z
  <2> HIDE DEF t, a
  <2>4. OwedBy(<<a>> \o t, P) = u + OwedBy(t, P)
    BY <1>1, <2>2, OwedCons
  <2> QED BY <2>1, <2>3, <2>4 DEF t
<1>5. v \in Int
  BY <1>1, OwedType
<1>6. Shortened(line) = IF CreditorLeft(line) THEN <<aLeft>> \o m ELSE m \o <<zLeft>>
  BY <1>1 DEF Shortened, Middle
<1>7. LegOf(line).from = z.who /\ LegOf(line).to = a.who
      /\ LegOf(line).amount = IF CreditorLeft(line) THEN -z.total ELSE a.total
  BY DEF LegOf
<1>8. OwedBy(<<aLeft>> \o m, P) = Within(a.who, P, left) + v
  <2> HIDE DEF aLeft, m, left
  <2>1. OwedBy(<<aLeft>> \o m, P) = Within(aLeft.who, P, aLeft.total) + OwedBy(m, P)
    BY <1>1, <1>3, OwedCons
  <2> QED BY <1>3, <2>1
<1>9. OwedBy(m \o <<zLeft>>, P) = v + Within(z.who, P, left)
  <2> HIDE DEF zLeft, m, left
  <2>1. OwedBy(m \o <<zLeft>>, P) = OwedBy(m, P) + Within(zLeft.who, P, zLeft.total)
    BY <1>1, <1>3, OwedSnoc
  <2> QED BY <1>3, <2>1
<1> HIDE DEF a, z, m, aLeft, zLeft, v
<1>10. CASE CreditorLeft(line)
  <2>1. OwedBy(Shortened(line), P) = Within(a.who, P, left) + v
    BY <1>6, <1>8, <1>10
  <2>2. Moves(LegOf(line), P) = Within(a.who, P, -z.total) - Within(z.who, P, -z.total)
    BY <1>7, <1>10 DEF Moves
  <2>3. Moves(LegOf(line), D) = 0
    BY <1>2, <1>7, <1>10 DEF Moves, Within
  <2> QED BY <1>2, <1>4, <1>5, <2>1, <2>2, <2>3 DEF Within
<1>11. CASE ~CreditorLeft(line)
  <2>1. OwedBy(Shortened(line), P) = v + Within(z.who, P, left)
    BY <1>6, <1>9, <1>11
  <2>2. Moves(LegOf(line), P) = Within(a.who, P, a.total) - Within(z.who, P, a.total)
    BY <1>7, <1>11 DEF Moves
  <2>3. Moves(LegOf(line), D) = 0
    BY <1>2, <1>7, <1>11 DEF Moves, Within
  <2> QED BY <1>2, <1>4, <1>5, <2>1, <2>2, <2>3 DEF Within
<1> QED BY <1>10, <1>11

(* A line of fewer than two where nothing is due in all: nothing is due.     *)
LEMMA ShortOwed ==
    ASSUME NEW D, NEW line \in Seq(Entries(D)), Len(line) < 2, OwedBy(line, D) = 0, NEW P
    PROVE  OwedBy(line, P) = 0
<1>1. CASE Len(line) = 0
  <2>1. DOMAIN line = {}
    BY <1>1
  <2>2. IsFiniteSet({}) /\ \A i \in {} : Owes(line, P)[i] = 0
    BY FS_EmptySet
  <2> QED BY <2>1, <2>2, SumOfZeros DEF OwedBy
<1>2. CASE Len(line) = 1
  <2>1. DOMAIN line = {1} /\ line[1] \in Entries(D)
    BY <1>2
  <2>2. line[1].who \in D /\ line[1].total \in Int
    BY <2>1 DEF Entries
  <2>3. ASSUME NEW Q PROVE OwedBy(line, Q) = Within(line[1].who, Q, line[1].total)
    <3> DEFINE f == Owes(line, Q)
    <3>1. f[1] = Within(line[1].who, Q, line[1].total)
      BY <2>1 DEF Owes
    <3>2. f[1] \in Int
      BY <2>2, <3>1 DEF Within
    <3>3. OwedBy(line, Q) = SumFunctionOnSet(f, {1})
      BY <2>1 DEF OwedBy
    <3> HIDE DEF f
    <3> QED BY <3>1, <3>2, <3>3, SumOne
  <2>4. line[1].total = 0
    BY <2>2, <2>3 DEF Within
  <2> QED BY <2>3, <2>4 DEF Within
<1>3. Len(line) = 0 \/ Len(line) = 1
  <2>1. Len(line) \in Nat /\ Len(line) < 2
    OBVIOUS
  <2> DEFINE n == Len(line)
  <2>2. n \in Nat /\ n < 2
    BY <2>1
  <2> HIDE DEF n
  <2>3. n = 0 \/ n = 1
    BY <2>2
  <2> QED BY <2>3 DEF n
<1> QED BY <1>1, <1>2, <1>3

(* When nothing is due in all, the pairs bring everybody what they are due.  *)
LEMMA PairsSettle ==
    ASSUME NEW D \in SUBSET Nat, NEW line \in Seq(Entries(D)), OwedBy(line, D) = 0, NEW P
    PROVE  Net(Pairs[line], P) = OwedBy(line, P)
<1> DEFINE L == Seq(Entries(D))
           rank == [x \in L |-> Len(x)]
           A == {x \in L : OwedBy(x, D) = 0 => Net(Pairs[x], P) = OwedBy(x, P)}
<1>1. rank \in [L -> Nat]
  OBVIOUS
<1>2. \A x \in L : x \in Line
  <2>1. Entries(D) \subseteq Entries(Nat)
    BY DEF Entries
  <2>2. Seq(Entries(D)) \subseteq Seq(Entries(Nat))
    <3> DEFINE X == Entries(D)
               Y == Entries(Nat)
    <3> HIDE DEF X, Y
    <3>1. X \subseteq Y
      BY <2>1 DEF X, Y
    <3>2. \A x \in Seq(X) : x \in Seq(Y)
      BY <3>1
    <3> QED BY <3>2 DEF X, Y
  <2> QED BY <2>2 DEF Line, Entries
<1>3. ASSUME NEW x \in L, \A y \in L : rank[y] < rank[x] => y \in A PROVE x \in A
  <2> SUFFICES ASSUME OwedBy(x, D) = 0 PROVE Net(Pairs[x], P) = OwedBy(x, P)
    OBVIOUS
  <2>1. Pairs[x] = IF Len(x) < 2 THEN <<>> ELSE <<LegOf(x)>> \o Pairs[Shortened(x)]
    BY <1>2, PairsRecursion
  <2>2. CASE Len(x) < 2
    <3>1. Pairs[x] = <<>>
      BY <2>1, <2>2
    <3>2. Net(<<>>, P) = 0
      <4>1. IsFiniteSet({}) /\ \A i \in {} : Nets(<<>>, P)[i] = 0
        BY FS_EmptySet
      <4>2. DOMAIN <<>> = {}
        OBVIOUS
      <4> QED BY <4>1, <4>2, SumOfZeros DEF Net
    <3>3. OwedBy(x, P) = 0
      BY <2>2, ShortOwed
    <3> QED BY <3>1, <3>2, <3>3
  <2>3. CASE ~(Len(x) < 2)
    <3> DEFINE y == Shortened(x)
               g == LegOf(x)
    <3>1. Len(x) \in Nat /\ Len(x) >= 2
      BY <2>3
    <3>2. y \in L /\ Len(y) = Len(x) - 1 /\ g \in LegsAmong(D)
      BY <3>1, RoundType
    <3>3. /\ OwedBy(y, P) = OwedBy(x, P) - Moves(g, P)
          /\ OwedBy(y, D) = OwedBy(x, D) - Moves(g, D) /\ Moves(g, D) = 0
      BY <3>1, RoundOwed
    <3>4. OwedBy(x, P) \in Int /\ OwedBy(y, D) = 0 /\ OwedBy(y, P) \in Int
      BY <3>2, <3>3, OwedType
    <3>5. Net(Pairs[y], P) = OwedBy(y, P)
      <4>1. rank[y] < rank[x]
        BY <3>1, <3>2
      <4> HIDE DEF y
      <4> QED BY <1>3, <3>2, <3>4, <4>1
    <3>6. Pairs[y] \in Seq(LegsAmong(D))
      BY <3>2, PairsType
    <3>7. Net(<<g>> \o Pairs[y], P) = Moves(g, P) + Net(Pairs[y], P)
      <4> HIDE DEF y, g
      <4> QED BY <3>2, <3>6, NetCons
    <3>8. Moves(g, P) \in Int
      <4> HIDE DEF g
      <4> QED BY <3>2 DEF Moves, Within, LegsAmong
    <3>9. Pairs[x] = <<g>> \o Pairs[y]
      BY <2>1, <2>3
    <3> HIDE DEF y, g
    <3> QED BY <3>3, <3>4, <3>5, <3>7, <3>8, <3>9
  <2> QED BY <2>2, <2>3
<1>4. \A x \in L : x \in A
  <2> HIDE DEF A, rank, L
  <2> QED BY <1>1, <1>3, RankInduction
<1> QED BY <1>4

(* A line where whoever is due something comes before whoever owes it.       *)
Falling(line) == \A i, j \in DOMAIN line : i < j => line[i].total >= 0 \/ line[j].total <= 0

(* Its first is due something, or nothing, and its last owes it, or nothing. *)
LEMMA FallingEnds ==
    ASSUME NEW D, NEW line \in Seq(Entries(D)), Len(line) >= 2, OwedBy(line, D) = 0, Falling(line)
    PROVE  Head(line).total >= 0 /\ Last(line).total <= 0
<1> DEFINE n == Len(line)
           f == Owes(line, D)
           S == DOMAIN line
<1>1. n \in Nat /\ n >= 2 /\ S = 1..n /\ IsFiniteSet(S) /\ 1 \in S /\ n \in S
  <2>1. n \in Nat /\ n >= 2 /\ S = 1..n
    OBVIOUS
  <2> HIDE DEF n, S
  <2>2. 1 \in S /\ n \in S /\ 1 \in Int /\ n \in Int
    BY <2>1
  <2> QED BY <2>1, <2>2, FS_Interval
<1>2. Head(line) = line[1] /\ Last(line) = line[n]
  BY <1>1 DEF Last
<1>3. \A i \in S : line[i].total \in Int /\ line[i].who \in D
  <2>1. \A i \in S : line[i] \in Entries(D)
    OBVIOUS
  <2> QED BY <2>1 DEF Entries
<1>4. \A i \in S : f[i] = line[i].total /\ f[i] \in Int
  BY <1>3 DEF Owes, Within
<1>5. SumFunctionOnSet(f, S) = 0
  BY DEF OwedBy
<1> HIDE DEF f, S, n
<1>6. ASSUME line[1].total < 0 PROVE FALSE
  <2> DEFINE g == [i \in S |-> -f[i]]
             zero == [i \in S |-> 0]
  <2>1. \A i \in S : i # 1 => f[i] <= 0
    BY <1>1, <1>3, <1>4, <1>6 DEF Falling, S
  <2>2. \A i \in S \ {1} : g[i] \in Nat
    BY <1>4, <2>1
  <2>3. SumFunctionOnSet(g, S \ {1}) \in Nat
    <3> HIDE DEF g
    <3>1. IsFiniteSet(S \ {1})
      BY <1>1, FS_Subset
    <3> QED BY <2>2, <3>1, SumNotNegative
  <2>4. SumFunctionOnSet(g, S) = g[1] + SumFunctionOnSet(g, S \ {1})
    <3>1. \A i \in S : g[i] \in Int
      BY <1>4
    <3> HIDE DEF g
    <3> QED BY <1>1, <3>1, SumRemoves
  <2>5. SumFunctionOnSet(g, S) = 0
    <3>1. Joined(zero, f, g, S)
      BY <1>4 DEF Joined
    <3>2. SumFunctionOnSet(zero, S) = 0
      BY <1>1, SumOfZeros
    <3> HIDE DEF g, zero
    <3>3. /\ SumFunctionOnSet(zero, S) = SumFunctionOnSet(f, S) + SumFunctionOnSet(g, S)
          /\ SumFunctionOnSet(g, S) \in Int
      BY <1>1, <3>1, SumPlus
    <3> QED BY <1>5, <3>2, <3>3
  <2>6. g[1] \in Int /\ g[1] > 0
    BY <1>1, <1>3, <1>4, <1>6
  <2> HIDE DEF g
  <2> QED BY <2>3, <2>4, <2>5, <2>6
<1>7. ASSUME line[n].total > 0 PROVE FALSE
  <2>1. \A i \in S : i # n => f[i] >= 0
    BY <1>1, <1>3, <1>4, <1>7 DEF Falling, S
  <2>2. \A i \in S \ {n} : f[i] \in Nat
    BY <1>4, <2>1
  <2>3. SumFunctionOnSet(f, S \ {n}) \in Nat
    <3>1. IsFiniteSet(S \ {n})
      BY <1>1, FS_Subset
    <3> QED BY <2>2, <3>1, SumNotNegative
  <2>4. SumFunctionOnSet(f, S) = f[n] + SumFunctionOnSet(f, S \ {n})
    BY <1>1, <1>4, SumRemoves, SMTT(60)
  <2>5. f[n] \in Int /\ f[n] > 0
    BY <1>1, <1>3, <1>4, <1>7
  <2> QED BY <1>5, <2>3, <2>4, <2>5
<1>8. line[1].total \in Int /\ line[n].total \in Int
  BY <1>1, <1>3
<1> QED BY <1>2, <1>6, <1>7, <1>8

(* Where those in line after a round were before it, and what is left of the *)
(* end that stays.                                                           *)
Shift(line) == IF CreditorLeft(line) THEN 0 ELSE 1

LEMMA RoundElements ==
    ASSUME NEW D, NEW line \in Seq(Entries(D)), Len(line) >= 2
    PROVE  /\ DOMAIN Shortened(line) = 1..(Len(line) - 1)
           /\ \A i \in 1..(Len(line) - 1) :
                 LET k == i + Shift(line)
                 IN  /\ k \in 1..Len(line)
                     /\ Shortened(line)[i].who = line[k].who
                     /\ Shortened(line)[i].total =
                           IF k \in {1, Len(line)} THEN Head(line).total + Last(line).total
                                                   ELSE line[k].total
<1> DEFINE E == Entries(D)
           n == Len(line)
           m == Middle(line)
           a == Head(line)
           z == Last(line)
           left == a.total + z.total
           aLeft == [a EXCEPT !.total = left]
           zLeft == [z EXCEPT !.total = left]
           y == Shortened(line)
<1>1. /\ a \in E /\ z \in E /\ m \in Seq(E) /\ Front(Tail(line)) = m /\ Len(m) = n - 2
      /\ a = line[1] /\ z = line[n] /\ \A i \in 1..(n - 2) : m[i] = line[i + 1]
  <2> HIDE DEF E
  <2>1. line \in Seq(E)
    BY DEF E
  <2> QED BY <2>1, LineParts
<1>2. a.total \in Int /\ z.total \in Int /\ a.who \in D /\ z.who \in D /\ left \in Int
  BY <1>1 DEF Entries
<1>3. /\ aLeft \in E /\ aLeft.who = a.who /\ aLeft.total = left
      /\ zLeft \in E /\ zLeft.who = z.who /\ zLeft.total = left
  BY <1>1, <1>2 DEF Entries
<1>4. y = IF CreditorLeft(line) THEN <<aLeft>> \o m ELSE m \o <<zLeft>>
  BY <1>1 DEF Shortened, Middle
<1>5. n \in Nat /\ n >= 2
  OBVIOUS
<1> HIDE DEF m, a, z, left, aLeft, zLeft, y, n
<1>6. CASE CreditorLeft(line)
  <2>1. /\ DOMAIN y = 1..(Len(m) + 1) /\ y[1] = aLeft
        /\ \A i \in 1..Len(m) : y[i + 1] = m[i]
    <3>1. aLeft \in E /\ m \in Seq(E) /\ y = <<aLeft>> \o m
      BY <1>1, <1>3, <1>4, <1>6
    <3> HIDE DEF E
    <3> QED BY <3>1, ConsIs
  <2>2. DOMAIN y = 1..(n - 1) /\ Shift(line) = 0
    <3>1. Len(m) + 1 = n - 1
      BY <1>1, <1>5
    <3> QED BY <1>6, <2>1, <3>1 DEF Shift
  <2>3. ASSUME NEW i \in 1..(n - 1), i # 1 PROVE y[i] = line[i] /\ i \notin {1, n}
    <3>1. i - 1 \in 1..(n - 2) /\ i - 1 \in 1..Len(m) /\ (i - 1) + 1 = i /\ i # n
      BY <1>1, <1>5, <2>3
    <3>2. y[(i - 1) + 1] = m[i - 1] /\ m[i - 1] = line[(i - 1) + 1]
      BY <1>1, <2>1, <3>1
    <3> QED BY <2>3, <3>1, <3>2
  <2>4. \A i \in 1..(n - 1) : i + 0 = i /\ i \in 1..n
    BY <1>5
  <2>5. y[1].who = line[1].who /\ y[1].total = left
    BY <1>1, <1>3, <2>1
  <2>6. \A i \in 1..(n - 1) :
           /\ i + Shift(line) \in 1..n
           /\ y[i].who = line[i + Shift(line)].who
           /\ y[i].total = IF i + Shift(line) \in {1, n} THEN left ELSE line[i + Shift(line)].total
    BY <2>2, <2>3, <2>4, <2>5
  <2> QED BY <2>2, <2>6 DEF y, n, left, a, z
<1>7. CASE ~CreditorLeft(line)
  <2>1. /\ DOMAIN y = 1..(Len(m) + 1) /\ y[Len(m) + 1] = zLeft
        /\ \A i \in 1..Len(m) : y[i] = m[i]
    <3>1. zLeft \in E /\ m \in Seq(E) /\ y = m \o <<zLeft>>
      BY <1>1, <1>3, <1>4, <1>7
    <3> HIDE DEF E
    <3> QED BY <3>1, SnocIs
  <2>2. DOMAIN y = 1..(n - 1) /\ Shift(line) = 1 /\ y[n - 1] = zLeft
    <3>1. Len(m) + 1 = n - 1
      BY <1>1, <1>5
    <3> QED BY <1>7, <2>1, <3>1 DEF Shift
  <2>3. ASSUME NEW i \in 1..(n - 1), i # n - 1 PROVE y[i] = line[i + 1] /\ i + 1 \notin {1, n}
    <3>1. i \in 1..(n - 2) /\ i \in 1..Len(m) /\ i + 1 # n /\ i + 1 # 1
      BY <1>1, <1>5, <2>3
    <3> QED BY <1>1, <2>1, <3>1
  <2>4. \A i \in 1..(n - 1) : i + 1 \in 1..n
    BY <1>5
  <2>5. y[n - 1].who = line[n].who /\ y[n - 1].total = left /\ (n - 1) + 1 = n
    BY <1>1, <1>3, <1>5, <2>2
  <2>6. \A i \in 1..(n - 1) :
           /\ i + Shift(line) \in 1..n
           /\ y[i].who = line[i + Shift(line)].who
           /\ y[i].total = IF i + Shift(line) \in {1, n} THEN left ELSE line[i + Shift(line)].total
    <3> TAKE i \in 1..(n - 1)
    <3>1. CASE i = n - 1
      BY <2>2, <2>4, <2>5, <3>1
    <3>2. CASE i # n - 1
      BY <2>2, <2>3, <2>4, <3>2
    <3> QED BY <3>1, <3>2
  <2> QED BY <2>2, <2>6 DEF y, n, left, a, z
<1> QED BY <1>6, <1>7

(* A line in order: creditors by id, then debtors by id, those in between    *)
(* are settled; nobody is in it twice.                                       *)
Lined(line) ==
    \A i, j \in DOMAIN line : i < j =>
       LET a == line[i].total
           b == line[j].total
       IN  /\ a >= 0 \/ b <= 0
           /\ a # 0 /\ b # 0 => line[i].who # line[j].who
           /\ (a > 0 /\ b > 0) \/ (a < 0 /\ b < 0) => line[i].who < line[j].who

(* Nobody changes sides in a round.                                          *)
Sided(line, i, k) ==
    /\ Shortened(line)[i].who = line[k].who
    /\ Shortened(line)[i].total > 0 => line[k].total > 0
    /\ Shortened(line)[i].total < 0 => line[k].total < 0
    /\ CreditorLeft(line) => k # Len(line)
    /\ ~CreditorLeft(line) => k # 1

LEMMA RoundSided ==
    ASSUME NEW D, NEW line \in Seq(Entries(D)), Len(line) >= 2,
           Head(line).total >= 0, Last(line).total <= 0
    PROVE  \A i \in 1..(Len(line) - 1) :
              i + Shift(line) \in 1..Len(line) /\ Sided(line, i, i + Shift(line))
<1> TAKE i \in 1..(Len(line) - 1)
<1> DEFINE n == Len(line)
           k == i + Shift(line)
           h == Head(line).total
           l == Last(line).total
           y == Shortened(line)[i]
<1>1. /\ k \in 1..n /\ y.who = line[k].who
      /\ y.total = IF k \in {1, n} THEN h + l ELSE line[k].total
  BY RoundElements
<1>2. Head(line) = line[1] /\ Last(line) = line[n] /\ Head(line) \in Entries(D) /\ Last(line) \in Entries(D)
  <2> DEFINE E == Entries(D)
  <2> HIDE DEF E
  <2>1. line \in Seq(E)
    BY DEF E
  <2> QED BY <2>1, LineParts DEF E
<1>3. h \in Int /\ l \in Int /\ h >= 0 /\ l <= 0
  BY <1>2 DEF Entries
<1>4. n \in Nat /\ n >= 2 /\ i \in 1..(n - 1)
  OBVIOUS
<1>5. CreditorLeft(line) <=> h > -l
  BY DEF CreditorLeft
<1>6. CASE CreditorLeft(line)
  <2>1. k = i
    BY <1>4, <1>6 DEF Shift
  <2>2. k # n
    BY <1>4, <2>1
  <2>3. k = 1 => line[k].total = h
    BY <1>2
  <2> HIDE DEF k, h, l, y, n
  <2> QED BY <1>1, <1>3, <1>5, <1>6, <2>2, <2>3 DEF Sided, y, n, k
<1>7. CASE ~CreditorLeft(line)
  <2>1. k = i + 1
    BY <1>4, <1>7 DEF Shift
  <2>2. k # 1
    BY <1>4, <2>1
  <2>3. k = n => line[k].total = l
    BY <1>2
  <2> HIDE DEF k, h, l, y, n
  <2> QED BY <1>1, <1>3, <1>5, <1>7, <2>2, <2>3 DEF Sided, y, n, k
<1> QED BY <1>6, <1>7

(* So the line stays in order.                                               *)
LEMMA RoundLined ==
    ASSUME NEW D \in SUBSET Nat, NEW line \in Seq(Entries(D)), Len(line) >= 2,
           Head(line).total >= 0, Last(line).total <= 0, Lined(line)
    PROVE  Lined(Shortened(line))
<1> DEFINE y == Shortened(line)
           n == Len(line)
           s == Shift(line)
<1>1. DOMAIN y = 1..(n - 1) /\ n \in Nat /\ DOMAIN line = 1..n
  BY RoundElements
<1>2. \A i \in 1..(n - 1) : i + s \in 1..n /\ Sided(line, i, i + s)
  BY RoundSided
<1>3. s \in {0, 1}
  BY DEF Shift
<1>4. y \in Seq(Entries(D))
  BY RoundType
<1>5. \A i \in DOMAIN y : y[i].total \in Int /\ y[i].who \in Nat
  <2>1. \A i \in DOMAIN y : y[i] \in Entries(D)
    BY <1>4
  <2> QED BY <2>1 DEF Entries
<1>6. \A i \in DOMAIN line : line[i].total \in Int
  <2>1. \A i \in DOMAIN line : line[i] \in Entries(D)
    OBVIOUS
  <2> QED BY <2>1 DEF Entries
<1> HIDE DEF s, n
<1>7. SUFFICES ASSUME NEW i \in DOMAIN y, NEW j \in DOMAIN y, i < j
               PROVE  LET a == y[i].total
                          b == y[j].total
                      IN  /\ a >= 0 \/ b <= 0
                          /\ a # 0 /\ b # 0 => y[i].who # y[j].who
                          /\ (a > 0 /\ b > 0) \/ (a < 0 /\ b < 0) => y[i].who < y[j].who
  BY DEF Lined
<1> DEFINE k == i + s
           m == j + s
<1>8. k \in DOMAIN line /\ m \in DOMAIN line /\ k < m
  BY <1>1, <1>2, <1>3, <1>7, SMTT(60)
<1>9. /\ y[i].who = line[k].who /\ y[j].who = line[m].who
      /\ y[i].total > 0 => line[k].total > 0
      /\ y[i].total < 0 => line[k].total < 0
      /\ y[j].total > 0 => line[m].total > 0
      /\ y[j].total < 0 => line[m].total < 0
  BY <1>1, <1>2 DEF Sided
<1> HIDE DEF k, m
<1>10. LET a == line[k].total
           b == line[m].total
       IN  /\ a >= 0 \/ b <= 0
           /\ a # 0 /\ b # 0 => line[k].who # line[m].who
           /\ (a > 0 /\ b > 0) \/ (a < 0 /\ b < 0) => line[k].who < line[m].who
  BY <1>8 DEF Lined
<1>11. /\ line[k].total \in Int /\ line[m].total \in Int
       /\ y[i].total \in Int /\ y[j].total \in Int
  BY <1>5, <1>6, <1>8
<1> HIDE DEF y
<1> QED BY <1>9, <1>10, <1>11

-----------------------------------------------------------------------------
(* The order of the settlements that the loop comes to.                      *)

(* Legs like a staircase: nobody who is paid pays, and from one leg to the   *)
(* next those who are paid go up and those who pay go down, one of them at   *)
(* least. Legs of nothing do not count.                                      *)
Above(legs, i, j) ==
    /\ legs[i].to # legs[j].from /\ legs[j].to # legs[i].from
    /\ legs[i].to <= legs[j].to /\ legs[j].from <= legs[i].from
    /\ legs[i].to # legs[j].to \/ legs[i].from # legs[j].from
Stairs(legs) ==
    /\ \A i \in DOMAIN legs : legs[i].amount >= 0
    /\ \A i \in DOMAIN legs : legs[i].amount # 0 => legs[i].to # legs[i].from
    /\ \A i, j \in DOMAIN legs :
          i < j /\ legs[i].amount # 0 /\ legs[j].amount # 0 => Above(legs, i, j)

(* A leg from a debtor in line to a creditor in it.                          *)
Between(line, leg) ==
    \E i, j \in DOMAIN line : /\ leg.to = line[i].who /\ line[i].total > 0
                              /\ leg.from = line[j].who /\ line[j].total < 0

(* The leg of a round, and a leg of those after it.                          *)
LEMMA RoundAbove ==
    ASSUME NEW D \in SUBSET Nat, NEW line \in Seq(Entries(D)), Len(line) >= 2,
           Head(line).total >= 0, Last(line).total <= 0, Lined(line)
    PROVE  /\ LegOf(line).amount >= 0
           /\ LegOf(line).amount # 0 => Between(line, LegOf(line)) /\ LegOf(line).to # LegOf(line).from
           /\ \A leg : Between(Shortened(line), leg) =>
                 /\ Between(line, leg)
                 /\ leg.to # leg.from
                 /\ LegOf(line).amount # 0 =>
                       /\ LegOf(line).to # leg.from /\ leg.to # LegOf(line).from
                       /\ LegOf(line).to <= leg.to /\ leg.from <= LegOf(line).from
                       /\ LegOf(line).to # leg.to \/ LegOf(line).from # leg.from
<1> DEFINE y == Shortened(line)
           n == Len(line)
           s == Shift(line)
           g == LegOf(line)
           h == line[1].total
           l == line[n].total
<1>1. DOMAIN y = 1..(n - 1) /\ n \in Nat /\ n >= 2 /\ DOMAIN line = 1..n
  BY RoundElements
<1>2. \A i \in 1..(n - 1) : i + s \in 1..n /\ Sided(line, i, i + s)
  BY RoundSided
<1>3. \A i \in DOMAIN line : line[i].total \in Int /\ line[i].who \in Nat
  <2>1. \A i \in DOMAIN line : line[i] \in Entries(D)
    OBVIOUS
  <2> QED BY <2>1 DEF Entries
<1>4. Head(line) = line[1] /\ Last(line) = line[n]
  <2> DEFINE E == Entries(D)
  <2> HIDE DEF E
  <2>1. line \in Seq(E)
    BY DEF E
  <2> QED BY <2>1, LineParts
<1>5. 1 \in DOMAIN line /\ n \in DOMAIN line /\ 1 < n
  <2> HIDE DEF n
  <2> QED BY <1>1
<1>6. /\ g.to = line[1].who /\ g.from = line[n].who
      /\ g.amount = IF CreditorLeft(line) THEN -l ELSE h
      /\ CreditorLeft(line) <=> h > -l
      /\ h >= 0 /\ l <= 0 /\ h \in Int /\ l \in Int
  BY <1>3, <1>4, <1>5 DEF LegOf, CreditorLeft
<1>7. g.amount >= 0 /\ (g.amount # 0 => h > 0 /\ l < 0)
  <2> HIDE DEF h, l, g
  <2> QED BY <1>6
<1>8. \A i, j \in DOMAIN line : line[i].total > 0 /\ line[j].total < 0 => line[i].who # line[j].who
  <2> TAKE i, j \in DOMAIN line
  <2> HAVE line[i].total > 0 /\ line[j].total < 0
  <2>1. i \in Int /\ j \in Int /\ i # j
    BY <1>1, <1>3
  <2>2. i < j => line[i].who # line[j].who
    BY <1>3 DEF Lined
  <2>3. j < i => line[j].who # line[i].who
    BY <1>3 DEF Lined
  <2> QED BY <2>1, <2>2, <2>3
<1>9. /\ \A i \in DOMAIN line : line[i].total > 0 /\ h > 0 /\ i # 1 => line[1].who < line[i].who
      /\ \A i \in DOMAIN line : line[i].total < 0 /\ l < 0 /\ i # n => line[i].who < line[n].who
  <2>1. \A i \in DOMAIN line : /\ i # 1 => 1 < i
                               /\ i # n => i < n
    <3> HIDE DEF n
    <3> QED BY <1>1
  <2> QED BY <1>3, <1>5, <2>1 DEF Lined
<1>10. g.amount # 0 => Between(line, g) /\ g.to # g.from
  <2> HAVE g.amount # 0
  <2>1. line[1].total > 0 /\ line[n].total < 0
    BY <1>7
  <2> HIDE DEF g, h, l, n
  <2> QED BY <1>5, <1>6, <1>8, <2>1 DEF Between
<1>11. ASSUME NEW leg, Between(y, leg)
       PROVE  /\ Between(line, leg)
              /\ leg.to # leg.from
              /\ g.amount # 0 => /\ g.to # leg.from /\ leg.to # g.from
                                 /\ g.to <= leg.to /\ leg.from <= g.from
                                 /\ g.to # leg.to \/ g.from # leg.from
  <2>1. PICK i \in DOMAIN y, j \in DOMAIN y : /\ leg.to = y[i].who /\ y[i].total > 0
                                              /\ leg.from = y[j].who /\ y[j].total < 0
    BY <1>11 DEF Between
  <2> DEFINE k == i + s
             m == j + s
  <2>2. k \in DOMAIN line /\ m \in DOMAIN line /\ Sided(line, i, k) /\ Sided(line, j, m)
    BY <1>1, <1>2
  <2>3. /\ leg.to = line[k].who /\ line[k].total > 0
        /\ leg.from = line[m].who /\ line[m].total < 0
        /\ CreditorLeft(line) => m # n
        /\ ~CreditorLeft(line) => k # 1
    BY <2>1, <2>2 DEF Sided
  <2> HIDE DEF k, m, y, n
  <2>4. Between(line, leg) /\ leg.to # leg.from
    BY <1>8, <2>2, <2>3 DEF Between
  <2>5. ASSUME g.amount # 0
        PROVE  /\ g.to # leg.from /\ leg.to # g.from
               /\ g.to <= leg.to /\ leg.from <= g.from
               /\ g.to # leg.to \/ g.from # leg.from
    <3> HIDE DEF g
    <3>1. line[1].total > 0 /\ line[n].total < 0
      BY <1>7, <2>5 DEF h, l
    <3>2. g.to # leg.from /\ leg.to # g.from
      BY <1>5, <1>6, <1>8, <2>2, <2>3, <3>1
    <3>3. k # 1 => line[1].who < line[k].who
      BY <1>9, <2>2, <2>3, <3>1
    <3>4. m # n => line[m].who < line[n].who
      BY <1>9, <2>2, <2>3, <3>1
    <3>5. /\ line[1].who \in Nat /\ line[n].who \in Nat
          /\ line[k].who \in Nat /\ line[m].who \in Nat
      BY <1>3, <1>5, <2>2
    <3>6. m # n \/ k # 1
      BY <2>3
    <3> QED BY <1>6, <2>3, <3>2, <3>3, <3>4, <3>5, <3>6
  <2> QED BY <2>4, <2>5
<1> QED BY <1>7, <1>10, <1>11

(* The pairs of a line in order where nothing is due in all are a staircase  *)
(* of debtors and creditors in it.                                           *)
LEMMA PairsStairs ==
    ASSUME NEW D \in SUBSET Nat, NEW line \in Seq(Entries(D)), OwedBy(line, D) = 0, Lined(line)
    PROVE  Stairs(Pairs[line])
<1> DEFINE L == Seq(Entries(D))
           rank == [x \in L |-> Len(x)]
           Fine(x) == /\ Stairs(Pairs[x])
                      /\ \A i \in DOMAIN Pairs[x] : Pairs[x][i].amount # 0 => Between(x, Pairs[x][i])
           A == {x \in L : OwedBy(x, D) = 0 /\ Lined(x) => Fine(x)}
<1>1. rank \in [L -> Nat]
  OBVIOUS
<1>2. \A x \in L : x \in Line
  <2>1. Entries(D) \subseteq Entries(Nat)
    BY DEF Entries
  <2>2. Seq(Entries(D)) \subseteq Seq(Entries(Nat))
    <3> DEFINE X == Entries(D)
               Y == Entries(Nat)
    <3> HIDE DEF X, Y
    <3>1. X \subseteq Y
      BY <2>1 DEF X, Y
    <3>2. \A x \in Seq(X) : x \in Seq(Y)
      BY <3>1
    <3> QED BY <3>2 DEF X, Y
  <2> QED BY <2>2 DEF Line, Entries
<1>3. ASSUME NEW x \in L, \A y \in L : rank[y] < rank[x] => y \in A PROVE x \in A
  <2> SUFFICES ASSUME OwedBy(x, D) = 0, Lined(x) PROVE Fine(x)
    OBVIOUS
  <2>1. Pairs[x] = IF Len(x) < 2 THEN <<>> ELSE <<LegOf(x)>> \o Pairs[Shortened(x)]
    BY <1>2, PairsRecursion
  <2>2. CASE Len(x) < 2
    <3>1. Pairs[x] = <<>>
      BY <2>1, <2>2
    <3>2. DOMAIN <<>> = {}
      OBVIOUS
    <3> QED BY <3>1, <3>2 DEF Stairs
  <2>3. CASE ~(Len(x) < 2)
    <3> DEFINE y == Shortened(x)
               g == LegOf(x)
               r == Pairs[y]
               p == <<g>> \o r
    <3>1. Len(x) \in Nat /\ Len(x) >= 2
      BY <2>3
    <3>2. y \in L /\ Len(y) = Len(x) - 1 /\ g \in LegsAmong(D)
      BY <3>1, RoundType
    <3>3. Head(x).total >= 0 /\ Last(x).total <= 0
      <4>1. \A i \in DOMAIN x : x[i].total \in Int
        <5>1. \A i \in DOMAIN x : x[i] \in Entries(D)
          OBVIOUS
        <5> QED BY <5>1 DEF Entries
      <4>2. Falling(x)
        BY <4>1 DEF Lined, Falling
      <4> QED BY <3>1, <4>2, FallingEnds
    <3>4. Lined(y) /\ OwedBy(y, D) = 0
      <4>1. Lined(y)
        BY <3>1, <3>3, RoundLined
      <4>2. OwedBy(y, D) = OwedBy(x, D) - Moves(g, D) /\ Moves(g, D) = 0
        BY <3>1, RoundOwed
      <4> QED BY <4>1, <4>2
    <3>5. Fine(y)
      <4>1. rank[y] < rank[x]
        BY <3>1, <3>2
      <4> HIDE DEF y, Fine
      <4> QED BY <1>3, <3>2, <3>4, <4>1
    <3>6. r \in Seq(LegsAmong(D))
      BY <3>2, PairsType
    <3>7. /\ DOMAIN p = 1..(Len(r) + 1) /\ p[1] = g
          /\ \A i \in 1..Len(r) : p[i + 1] = r[i]
          /\ Len(r) \in Nat /\ DOMAIN r = 1..Len(r)
      <4> DEFINE G == LegsAmong(D)
      <4>1. g \in G /\ r \in Seq(G)
        BY <3>2, <3>6
      <4> HIDE DEF g, r, G
      <4> QED BY <4>1, ConsIs
    <3>8. Pairs[x] = p
      BY <2>1, <2>3
    <3>9. /\ g.amount >= 0
          /\ g.amount # 0 => Between(x, g) /\ g.to # g.from
          /\ \A leg : Between(y, leg) =>
                /\ Between(x, leg)
                /\ leg.to # leg.from
                /\ g.amount # 0 => /\ g.to # leg.from /\ leg.to # g.from
                                   /\ g.to <= leg.to /\ leg.from <= g.from
                                   /\ g.to # leg.to \/ g.from # leg.from
      BY <3>1, <3>3, RoundAbove
    <3> HIDE DEF y, g, r, p
    <3>10. /\ Stairs(r)
           /\ \A i \in DOMAIN r : r[i].amount # 0 => Between(y, r[i])
      BY <3>5 DEF r
    <3> DEFINE n == Len(r)
    <3>11. \A i \in DOMAIN p : i = 1 \/ (i - 1 \in DOMAIN r /\ p[i] = r[i - 1] /\ i # 1)
      <4> SUFFICES ASSUME NEW i \in DOMAIN p, i # 1
                   PROVE  i - 1 \in DOMAIN r /\ p[i] = r[i - 1]
        OBVIOUS
      <4>0. n \in Nat /\ i \in 1..(n + 1)
        BY <3>7
      <4> HIDE DEF n
      <4>1. i - 1 \in 1..n /\ (i - 1) + 1 = i
        BY <4>0
      <4>2. p[(i - 1) + 1] = r[i - 1]
        BY <3>7, <4>1 DEF n
      <4>3. DOMAIN r = 1..n
        BY <3>7 DEF n
      <4> QED BY <4>1, <4>2, <4>3
    <3> HIDE DEF n
    <3>12. \A i \in DOMAIN p : p[i].amount >= 0
      BY <3>7, <3>9, <3>10, <3>11 DEF Stairs
    <3>13. \A i \in DOMAIN p : p[i].amount # 0 => Between(x, p[i]) /\ p[i].to # p[i].from
      BY <3>7, <3>9, <3>10, <3>11
    <3>14. ASSUME NEW i \in DOMAIN p, NEW j \in DOMAIN p, i < j, p[i].amount # 0, p[j].amount # 0
           PROVE  Above(p, i, j)
      <4>1. j # 1 /\ j - 1 \in DOMAIN r /\ p[j] = r[j - 1]
        BY <3>7, <3>11, <3>14
      <4>2. CASE i = 1
        <5>1. Between(y, p[j])
          BY <3>10, <3>14, <4>1
        <5> QED BY <3>7, <3>9, <3>14, <4>2, <5>1 DEF Above
      <4>3. CASE i # 1
        <5>1. i - 1 \in DOMAIN r /\ p[i] = r[i - 1] /\ i - 1 < j - 1
          BY <3>7, <3>11, <3>14, <4>3
        <5>2. Above(r, i - 1, j - 1)
          BY <3>10, <3>14, <4>1, <5>1 DEF Stairs
        <5> QED BY <4>1, <5>1, <5>2 DEF Above
      <4> QED BY <4>2, <4>3
    <3>15. Stairs(p)
      BY <3>12, <3>13, <3>14 DEF Stairs
    <3> QED BY <3>8, <3>13, <3>15
  <2> QED BY <2>2, <2>3
<1>4. \A x \in L : x \in A
  <2> HIDE DEF A, rank, L
  <2> QED BY <1>1, <1>3, RankInduction
<1> QED BY <1>4

(* A queue goes through everybody once, each after those ahead of it.        *)
LEMMA QueueOrdered ==
    ASSUME NEW S, IsFiniteSet(S), NEW ahead, Orderly(S, ahead)
    PROVE  /\ Through(Queue(S, ahead), 1..Cardinality(S), S)
           /\ \A k, l \in 1..Cardinality(S) :
                 k < l => Queue(S, ahead)[k] \in ahead[Queue(S, ahead)[l]]
<1> DEFINE n == Cardinality(S)
           q == Queue(S, ahead)
<1>1. /\ n \in Nat /\ q \in [1..n -> S]
      /\ \A x \in S : Cardinality(ahead[x]) + 1 \in 1..n
      /\ \A x \in S : q[Cardinality(ahead[x]) + 1] = x
      /\ \A k \in 1..n : Cardinality(ahead[q[k]]) = k - 1
  BY QueueHolds
<1> HIDE DEF n, q
<1>2. ASSUME NEW k \in 1..n, NEW l \in 1..n, q[k] = q[l] PROVE k = l
  <2>1. k - 1 = l - 1
    BY <1>1, <1>2
  <2> QED BY <1>1, <2>1
<1>3. ASSUME NEW k \in 1..n, NEW l \in 1..n, k < l PROVE q[k] \in ahead[q[l]]
  <2> DEFINE x == q[k]
             y == q[l]
  <2>1. x \in S /\ y \in S /\ x # y
    BY <1>1, <1>2, <1>3
  <2>2. Cardinality(ahead[x]) = k - 1 /\ Cardinality(ahead[y]) = l - 1
    BY <1>1
  <2> HIDE DEF x, y
  <2>3. ASSUME y \in ahead[x] PROVE FALSE
    <3>1. ahead[y] \subseteq ahead[x] /\ ahead[x] \subseteq S
      BY <2>1, <2>3 DEF Orderly
    <3>2. IsFiniteSet(ahead[x]) /\ Cardinality(ahead[y]) <= Cardinality(ahead[x])
      BY <3>1, FS_Subset
    <3>3. l - 1 <= k - 1
      BY <2>2, <3>2
    <3> QED BY <1>1, <1>3, <3>3
  <2> QED BY <2>1, <2>3 DEF Orderly, x, y
<1>4. Through(q, 1..n, S)
  <2>1. \A k \in 1..n : q[k] \in S
    BY <1>1
  <2> QED BY <1>1, <1>2, <2>1 DEF Through
<1> QED BY <1>3, <1>4 DEF n, q

(* Some of a sequence, in order: those at the indices in I.                  *)
Thinned(r, s, I) ==
    \E at : /\ Through(at, 1..Cardinality(I), I)
            /\ \A k, l \in 1..Cardinality(I) : k < l => at[k] < at[l]
            /\ r = [k \in 1..Cardinality(I) |-> s[at[k]]]

(* What is picked stays in order.                                            *)
LEMMA PickedThinned ==
    ASSUME NEW T, NEW s \in Seq(T), NEW I \in SUBSET DOMAIN s
    PROVE  Thinned(Picked(s, I), s, I)
<1> DEFINE ahead == [i \in I |-> {j \in I : j < i}]
           at == Queue(I, ahead)
           n == Cardinality(I)
<1>1. I \subseteq Int /\ IsFiniteSet(I)
  <2>1. DOMAIN s = 1..Len(s) /\ Len(s) \in Int
    OBVIOUS
  <2>2. 1 \in Int
    OBVIOUS
  <2>3. IsFiniteSet(1..Len(s))
    BY <2>1, <2>2, FS_Interval
  <2> QED BY <2>1, <2>3, FS_Subset
<1>2. Orderly(I, ahead)
  BY <1>1 DEF Orderly
<1>3. \A i \in I : \A j \in ahead[i] : j < i
  OBVIOUS
<1>4. Picked(s, I) = [k \in DOMAIN at |-> s[at[k]]]
  BY DEF Picked
<1> HIDE DEF ahead
<1>5. n \in Nat /\ at \in [1..n -> I]
  BY <1>1, <1>2, QueueHolds
<1>6. Through(at, 1..n, I) /\ \A k, l \in 1..n : k < l => at[k] \in ahead[at[l]]
  BY <1>1, <1>2, QueueOrdered
<1> HIDE DEF at, n
<1>7. \A k, l \in 1..n : k < l => at[k] < at[l]
  BY <1>3, <1>5, <1>6
<1>8. Picked(s, I) = [k \in 1..n |-> s[at[k]]]
  BY <1>4, <1>5
<1> QED BY <1>6, <1>7, <1>8 DEF n, Thinned

(* What some legs bring is the sum of what each of them brings.              *)
LEMMA ThinnedSum ==
    ASSUME NEW D, NEW legs \in Seq(LegsAmong(D)), NEW I \in SUBSET DOMAIN legs, NEW P,
           NEW r, Thinned(r, legs, I)
    PROVE  Net(r, P) = SumFunctionOnSet(Nets(legs, P), I)
<1> DEFINE n == Cardinality(I)
           f == Nets(legs, P)
           g == Nets(r, P)
           W == 1..n
<1>1. (\A i \in DOMAIN legs : f[i] \in Int) /\ IsFiniteSet(DOMAIN legs)
  BY NetType
<1>2. PICK at : Through(at, 1..n, I) /\ r = [k \in 1..n |-> legs[at[k]]]
  BY DEF Thinned
<1>3. IsFiniteSet(I) /\ IsFiniteSet(W)
  <2>1. IsFiniteSet(I)
    BY <1>1, FS_Subset
  <2>2. n \in Nat
    BY <2>1, FS_CardinalityType
  <2>3. 1 \in Int /\ n \in Int
    BY <2>2
  <2> HIDE DEF n
  <2> QED BY <2>1, <2>3, FS_Interval
<1>4. DOMAIN r = W
  BY <1>2
<1>5. Through(at, W, I) /\ \A k \in W : g[k] = f[at[k]]
  <2>1. \A k \in W : at[k] \in DOMAIN legs
    BY <1>2 DEF Through
  <2> QED BY <1>2, <1>4, <2>1 DEF Nets
<1> HIDE DEF f, g, n, W
<1>6. \A i \in I : f[i] \in Int
  BY <1>1
<1>7. SumFunctionOnSet(g, W) = SumFunctionOnSet(f, I)
  BY <1>3, <1>5, <1>6, SumThrough
<1>8. Net(r, P) = SumFunctionOnSet(g, W)
  BY <1>4 DEF Net, g
<1> QED BY <1>7, <1>8 DEF f

(* Those that bring those of P nothing can be left out.                      *)
LEMMA ThinnedNet ==
    ASSUME NEW D, NEW legs \in Seq(LegsAmong(D)), NEW I \in SUBSET DOMAIN legs, NEW P,
           \A i \in DOMAIN legs : i \notin I => Moves(legs[i], P) = 0,
           NEW r, Thinned(r, legs, I)
    PROVE  Net(r, P) = Net(legs, P)
<1> DEFINE f == Nets(legs, P)
<1>1. IsFiniteSet(DOMAIN legs) /\ \A i \in DOMAIN legs : f[i] \in Int
  BY NetType
<1>2. \A i \in DOMAIN legs : i \notin I => f[i] = 0
  BY DEF Nets
<1>3. Net(r, P) = SumFunctionOnSet(f, I) /\ Net(legs, P) = SumFunctionOnSet(f, DOMAIN legs)
  BY ThinnedSum DEF Net
<1> HIDE DEF f
<1>4. SumFunctionOnSet(f, DOMAIN legs) = SumFunctionOnSet(f, I)
  BY <1>1, <1>2, SumSupport
<1> QED BY <1>3, <1>4

(* Part of a staircase is one.                                               *)
LEMMA ThinnedStairs ==
    ASSUME NEW legs, NEW I \in SUBSET DOMAIN legs, Stairs(legs), NEW r, Thinned(r, legs, I)
    PROVE  Stairs(r)
<1> DEFINE n == Cardinality(I)
<1>1. PICK at : /\ Through(at, 1..n, I)
                /\ \A k, l \in 1..n : k < l => at[k] < at[l]
                /\ r = [k \in 1..n |-> legs[at[k]]]
  BY DEF Thinned
<1> HIDE DEF n
<1>2. DOMAIN r = 1..n /\ \A k \in 1..n : at[k] \in DOMAIN legs /\ r[k] = legs[at[k]]
  BY <1>1 DEF Through
<1>3. ASSUME NEW k \in 1..n, NEW l \in 1..n, k < l, r[k].amount # 0, r[l].amount # 0
      PROVE  Above(r, k, l)
  <2>1. Above(legs, at[k], at[l])
    BY <1>1, <1>2, <1>3 DEF Stairs
  <2> QED BY <1>2, <2>1 DEF Above
<1>4. \A k \in 1..n : r[k].amount >= 0 /\ (r[k].amount # 0 => r[k].to # r[k].from)
  BY <1>2 DEF Stairs
<1> QED BY <1>2, <1>3, <1>4 DEF Stairs

-----------------------------------------------------------------------------
(* The settlements suggested for balances that cancel.                       *)

(* What those of P are due, told of those due something, not of their queue. *)
LEMMA QueueOwed ==
    ASSUME NEW D, NEW due \in SUBSET Entries(D), IsFiniteSet(due),
           NEW ahead, Orderly(due, ahead), NEW P
    PROVE  /\ Queue(due, ahead) \in Seq(Entries(D))
           /\ OwedBy(Queue(due, ahead), P)
                 = SumFunctionOnSet([x \in due |-> Within(x.who, P, x.total)], due)
<1> DEFINE n == Cardinality(due)
           q == Queue(due, ahead)
           E == Entries(D)
           g == Owes(q, P)
           f == [x \in due |-> Within(x.who, P, x.total)]
<1>1. n \in Nat /\ q \in [1..n -> due] /\ Through(q, 1..n, due)
  BY QueueHolds, QueueOrdered
<1>2. q \in [1..n -> E]
  BY <1>1
<1>3. q \in Seq(E) /\ DOMAIN q = 1..n
  <2> HIDE DEF n, q, E
  <2> QED BY <1>1, <1>2
<1>4. \A x \in due : f[x] \in Int
  <2>1. \A x \in due : x.total \in Int
    BY DEF Entries
  <2> QED BY <2>1 DEF Within
<1>5. \A k \in 1..n : g[k] = f[q[k]]
  <2> HIDE DEF q, n
  <2>1. \A k \in 1..n : q[k] \in due
    BY <1>1
  <2> QED BY <1>3, <2>1 DEF Owes
<1>6. IsFiniteSet(1..n)
  <2> HIDE DEF n
  <2>1. 1 \in Int /\ n \in Int
    BY <1>1
  <2> QED BY <2>1, FS_Interval
<1>7. OwedBy(q, P) = SumFunctionOnSet(g, 1..n)
  BY <1>3 DEF OwedBy
<1> DEFINE W == 1..n
<1>8. Through(q, W, due) /\ IsFiniteSet(W) /\ \A k \in W : g[k] = f[q[k]]
  BY <1>1, <1>5, <1>6
<1> HIDE DEF W, f, g, q
<1>9. SumFunctionOnSet(g, W) = SumFunctionOnSet(f, due)
  BY <1>4, <1>8, SumThrough
<1> QED BY <1>3, <1>7, <1>9 DEF W, f, q, E

(* Those due something are due what the balances say; nobody else is.        *)
LEMMA DueOwed ==
    ASSUME NEW U \in SUBSET Nat, IsFiniteSet(U), NEW balances \in CentsOf(U), NEW P
    PROVE  SumFunctionOnSet([x \in Due(balances) |-> Within(x.who, P, x.total)], Due(balances))
              = SumFunctionOnSet([p \in U |-> Within(p, P, CentsIn(balances, p))], U)
<1> DEFINE due == Due(balances)
           f == [x \in due |-> Within(x.who, P, x.total)]
           g == [p \in U |-> Within(p, P, CentsIn(balances, p))]
           W == {x.who : x \in due}
           h == [x \in due |-> x.who]
<1>1. /\ \A x \in due : x.who \in U
      /\ \A x \in due : x.total # 0 /\ x.total = balances[x.who] /\ x.who \in DOMAIN balances
      /\ \A x, y \in due : x.who = y.who => x = y
      /\ IsFiniteSet(due)
  BY DueHolds DEF Entries
<1>2. \A p \in DOMAIN balances : balances[p] \in Int
  BY DEF CentsOf
<1>3. \A p \in U : g[p] \in Int /\ (p \notin W => g[p] = 0)
  <2> TAKE p \in U
  <2>1. g[p] \in Int
    BY <1>2 DEF CentsIn, Within
  <2>2. ASSUME p \in DOMAIN balances, balances[p] # 0 PROVE p \in W
    <3>1. [who |-> p, total |-> balances[p]] \in due
      BY <2>2 DEF Due
    <3> QED BY <3>1
  <2> QED BY <2>1, <2>2 DEF CentsIn, Within
<1>4. Through(h, due, W) /\ W \in SUBSET U
  BY <1>1 DEF Through
<1>5. \A x \in due : f[x] = g[h[x]]
  BY <1>1 DEF CentsIn, Within
<1>6. IsFiniteSet(W)
  BY <1>4, FS_Subset
<1> HIDE DEF f, g, h, W, due
<1>7. SumFunctionOnSet(g, U) = SumFunctionOnSet(g, W)
  BY <1>3, <1>4, SumSupport
<1>8. \A p \in W : g[p] \in Int
  BY <1>3, <1>4
<1>9. SumFunctionOnSet(f, due) = SumFunctionOnSet(g, W)
  <2>1. IsFiniteSet(due) /\ Through(h, due, W)
    BY <1>1, <1>4
  <2> QED BY <1>5, <1>6, <1>8, <2>1, SumThrough
<1> QED BY <1>7, <1>9 DEF f, g, due

(* The queue of those due something, creditors before debtors, by id.        *)
LEMMA SuggestedQueue ==
    ASSUME NEW U \in SUBSET Nat, IsFiniteSet(U), NEW balances \in CentsOf(U)
    PROVE  \E line \in Seq(Entries(U)) :
              /\ Lined(line)
              /\ \A P : OwedBy(line, P)
                          = SumFunctionOnSet([p \in U |-> Within(p, P, CentsIn(balances, p))], U)
              /\ SuggestedSettlements(balances)
                    = Picked(Pairs[line], {i \in DOMAIN Pairs[line] : Pairs[line][i].amount # 0})
<1> DEFINE due == Due(balances)
           ahead == Soonest(due)
           line == Queue(due, ahead)
           n == Cardinality(due)
<1>1. /\ due \in SUBSET Entries(U) /\ IsFiniteSet(due)
      /\ Orderly(due, ahead)
      /\ SuggestedSettlements(balances) = Legs(due, ahead)
      /\ \A x, y \in due : x \in ahead[y] =>
            /\ x.total >= 0 \/ y.total <= 0
            /\ x.who # y.who
            /\ (x.total > 0 /\ y.total > 0) \/ (x.total < 0 /\ y.total < 0) => x.who < y.who
  BY SoonestOrders
<1>2. \A P : SumFunctionOnSet([x \in due |-> Within(x.who, P, x.total)], due)
               = SumFunctionOnSet([p \in U |-> Within(p, P, CentsIn(balances, p))], U)
  BY DueOwed
<1> HIDE DEF due, ahead
<1>3. line \in Seq(Entries(U))
  BY <1>1, QueueOwed
<1>4. ASSUME NEW P
      PROVE  OwedBy(line, P) = SumFunctionOnSet([p \in U |-> Within(p, P, CentsIn(balances, p))], U)
  <2>1. OwedBy(line, P) = SumFunctionOnSet([x \in due |-> Within(x.who, P, x.total)], due)
    BY <1>1, QueueOwed
  <2> QED BY <1>2, <2>1
<1>5. /\ line \in [1..n -> due]
      /\ \A k, l \in 1..n : k < l => line[k] \in ahead[line[l]]
  BY <1>1, QueueHolds, QueueOrdered
<1>6. SuggestedSettlements(balances)
         = Picked(Pairs[line], {i \in DOMAIN Pairs[line] : Pairs[line][i].amount # 0})
  BY <1>1 DEF Legs
<1> HIDE DEF line, n
<1>7. Lined(line)
  <2>1. ASSUME NEW i \in DOMAIN line, NEW j \in DOMAIN line, i < j
        PROVE  line[i] \in due /\ line[j] \in due /\ line[i] \in ahead[line[j]]
    BY <1>5, <2>1
  <2> QED BY <1>1, <2>1 DEF Lined
<1> QED BY <1>3, <1>4, <1>6, <1>7

(* balances.ts, getSuggestedSettlements: when the balances of all cancel, the*)
(* settlements suggested are a staircase of payments that brings everybody   *)
(* what they are due.                                                        *)
THEOREM SuggestedSettle ==
    ASSUME NEW U \in SUBSET Nat, IsFiniteSet(U), NEW balances \in CentsOf(U),
           SumFunctionOnSet([p \in U |-> CentsIn(balances, p)], U) = 0
    PROVE  /\ Stairs(SuggestedSettlements(balances))
           /\ \A p \in U : Net(SuggestedSettlements(balances), {p}) = CentsIn(balances, p)
           /\ \A i \in DOMAIN SuggestedSettlements(balances) :
                 SuggestedSettlements(balances)[i].amount > 0
<1> DEFINE c == [p \in U |-> CentsIn(balances, p)]
           legs == SuggestedSettlements(balances)
<1>1. PICK line \in Seq(Entries(U)) :
         /\ Lined(line)
         /\ \A P : OwedBy(line, P)
                     = SumFunctionOnSet([p \in U |-> Within(p, P, CentsIn(balances, p))], U)
         /\ legs = Picked(Pairs[line], {i \in DOMAIN Pairs[line] : Pairs[line][i].amount # 0})
  BY SuggestedQueue
<1> DEFINE all == Pairs[line]
           I == {i \in DOMAIN all : all[i].amount # 0}
<1>2. \A p \in U : CentsIn(balances, p) \in Int
  <2>1. \A p \in DOMAIN balances : balances[p] \in Int
    BY DEF CentsOf
  <2> QED BY <2>1 DEF CentsIn
<1>3. OwedBy(line, U) = 0
  <2> DEFINE f == [p \in U |-> Within(p, U, CentsIn(balances, p))]
  <2>1. \A p \in U : f[p] \in Int /\ f[p] = c[p]
    BY <1>2 DEF Within
  <2>2. OwedBy(line, U) = SumFunctionOnSet(f, U)
    BY <1>1
  <2> HIDE DEF f, c
  <2>3. SumFunctionOnSet(f, U) = SumFunctionOnSet(c, U)
    BY <2>1, SumEqual
  <2> QED BY <2>2, <2>3 DEF c
<1>4. ASSUME NEW p \in U PROVE OwedBy(line, {p}) = CentsIn(balances, p)
  <2> DEFINE f == [q \in U |-> Within(q, {p}, CentsIn(balances, q))]
  <2>1. /\ \A q \in U : f[q] \in Int /\ (q # p => f[q] = 0)
        /\ f[p] = CentsIn(balances, p)
    BY <1>2 DEF Within
  <2>2. OwedBy(line, {p}) = SumFunctionOnSet(f, U)
    BY <1>1
  <2> HIDE DEF f
  <2>3. SumFunctionOnSet(f, U) = f[p]
    BY <2>1, SumOnly
  <2> QED BY <2>1, <2>2, <2>3
<1>5. all \in Seq(LegsAmong(U)) /\ Stairs(all) /\ \A P : Net(all, P) = OwedBy(line, P)
  BY <1>1, <1>3, PairsType, PairsStairs, PairsSettle
<1>6. legs = Picked(all, I)
  BY <1>1
<1> HIDE DEF all, legs
<1>7. Thinned(legs, all, I) /\ I \in SUBSET DOMAIN all /\ Stairs(legs)
  <2>1. I \in SUBSET DOMAIN all
    OBVIOUS
  <2> DEFINE G == LegsAmong(U)
  <2>2. all \in Seq(G)
    BY <1>5
  <2> HIDE DEF I, G
  <2>3. Thinned(legs, all, I)
    BY <1>6, <2>1, <2>2, PickedThinned
  <2> QED BY <1>5, <2>1, <2>3, ThinnedStairs
<1>8. ASSUME NEW p \in U PROVE Net(legs, {p}) = CentsIn(balances, p)
  <2>1. \A i \in DOMAIN all : i \notin I => Moves(all[i], {p}) = 0
    BY DEF Moves, Within
  <2> HIDE DEF I
  <2>2. Net(legs, {p}) = Net(all, {p})
    <3>1. all \in Seq(LegsAmong(U))
      BY <1>5
    <3> QED BY <1>7, <2>1, <3>1, ThinnedNet
  <2> QED BY <1>4, <1>5, <2>2
<1>9. \A i \in DOMAIN legs : legs[i].amount > 0
  <2>1. \A i \in DOMAIN legs : legs[i].amount # 0 /\ legs[i].amount \in Int
    <3>1. legs \in Seq(LegsAmong(U)) /\ \A i \in DOMAIN legs : legs[i].amount # 0
      BY SuggestedType DEF legs
    <3>2. \A i \in DOMAIN legs : legs[i] \in LegsAmong(U)
      BY <3>1
    <3> QED BY <3>1, <3>2 DEF LegsAmong
  <2> QED BY <1>7, <2>1 DEF Stairs
<1> QED BY <1>7, <1>8, <1>9 DEF legs

(* The settlements depend on who is due what alone.                          *)
LEMMA SuggestedSame ==
    ASSUME NEW U, NEW one \in CentsOf(U), NEW two \in CentsOf(U),
           \A p \in U : CentsIn(one, p) = CentsIn(two, p)
    PROVE  SuggestedSettlements(one) = SuggestedSettlements(two)
<1>1. ASSUME NEW b \in CentsOf(U)
      PROVE  Due(b) = {x \in {[who |-> p, total |-> CentsIn(b, p)] : p \in U} : x.total # 0}
  <2>1. DOMAIN b \subseteq U
    BY DEF CentsOf
  <2>2. \A p \in DOMAIN b : CentsIn(b, p) = b[p]
    BY DEF CentsIn
  <2>3. \A p \in U : p \notin DOMAIN b => CentsIn(b, p) = 0
    BY DEF CentsIn
  <2> QED BY <2>1, <2>2, <2>3 DEF Due
<1>2. Due(one) = Due(two)
  <2>1. {[who |-> p, total |-> CentsIn(one, p)] : p \in U} = {[who |-> p, total |-> CentsIn(two, p)] : p \in U}
    OBVIOUS
  <2> QED BY <1>1, <2>1
<1> QED BY <1>2 DEF SuggestedSettlements

(* What settlements come to, for each of those between whom they are.        *)
LEMMA PublicNet ==
    ASSUME NEW U, NEW legs \in Seq(LegsAmong(U)), NEW p
    PROVE  CentsIn(PublicBalances(legs), p) = Net(legs, {p})
<1> DEFINE S == DOMAIN legs
           amounts == [i \in S |-> legs[i].amount]
           to == {i \in S : legs[i].to = p}
           from == {i \in S : legs[i].from = p}
           D == {legs[i].from : i \in S} \cup {legs[i].to : i \in S}
           f == Nets(legs, {p})
           g == [i \in S |-> Within(legs[i].to, {p}, legs[i].amount)]
           h == [i \in S |-> Within(legs[i].from, {p}, legs[i].amount)]
<1>1. \A i \in S : legs[i].amount \in Int
  <2>1. \A i \in S : legs[i] \in LegsAmong(U)
    OBVIOUS
  <2> QED BY <2>1 DEF LegsAmong
<1>2. IsFiniteSet(S) /\ \A i \in S : f[i] \in Int
  BY NetType
<1>3. p \in D => CentsIn(PublicBalances(legs), p)
                   = SumFunctionOnSet(amounts, to) - SumFunctionOnSet(amounts, from)
  BY DEF PublicBalances, CentsIn
<1>4. p \notin D => CentsIn(PublicBalances(legs), p) = 0
  BY DEF PublicBalances, CentsIn
<1>5. /\ \A i \in S : g[i] \in Int /\ (i \notin to => g[i] = 0)
      /\ \A i \in S : h[i] \in Int /\ (i \notin from => h[i] = 0)
      /\ \A i \in to : g[i] = amounts[i] /\ g[i] \in Int
      /\ \A i \in from : h[i] = amounts[i] /\ h[i] \in Int
      /\ to \in SUBSET S /\ from \in SUBSET S
  BY <1>1 DEF Within
<1>6. Joined(g, f, h, S)
  <2>1. \A i \in S : f[i] = g[i] - h[i]
    BY DEF Nets, Moves
  <2>2. \A i \in S : f[i] \in Int /\ g[i] \in Int /\ h[i] \in Int
    BY <1>2, <1>5
  <2> HIDE DEF f, g, h, S
  <2>3. \A i \in S : g[i] = f[i] + h[i]
    BY <2>1, <2>2
  <2> QED BY <2>2, <2>3 DEF Joined
<1>7. p \notin D => \A i \in S : f[i] = 0
  BY DEF Nets, Moves, Within
<1>8. Net(legs, {p}) = SumFunctionOnSet(f, S)
  BY DEF Net
<1> HIDE DEF S, amounts, to, from, D, f, g, h
<1>9. /\ SumFunctionOnSet(g, S) = SumFunctionOnSet(f, S) + SumFunctionOnSet(h, S)
      /\ SumFunctionOnSet(f, S) \in Int /\ SumFunctionOnSet(h, S) \in Int
  BY <1>2, <1>6, SumPlus
<1>10. SumFunctionOnSet(g, S) = SumFunctionOnSet(amounts, to)
  <2>1. IsFiniteSet(to)
    BY <1>2, <1>5, FS_Subset
  <2>2. SumFunctionOnSet(g, S) = SumFunctionOnSet(g, to)
    BY <1>2, <1>5, SumSupport
  <2>3. SumFunctionOnSet(g, to) = SumFunctionOnSet(amounts, to)
    BY <1>5, <2>1, SumEqual
  <2> QED BY <2>2, <2>3
<1>11. SumFunctionOnSet(h, S) = SumFunctionOnSet(amounts, from)
  <2>1. IsFiniteSet(from)
    BY <1>2, <1>5, FS_Subset
  <2>2. SumFunctionOnSet(h, S) = SumFunctionOnSet(h, from)
    BY <1>2, <1>5, SumSupport
  <2>3. SumFunctionOnSet(h, from) = SumFunctionOnSet(amounts, from)
    BY <1>5, <2>1, SumEqual
  <2> QED BY <2>2, <2>3
<1>12. CASE p \in D
  BY <1>3, <1>8, <1>9, <1>10, <1>11, <1>12
<1>13. CASE p \notin D
  <2>1. SumFunctionOnSet(f, S) = 0
    BY <1>2, <1>7, <1>13, SumOfZeros
  <2> QED BY <1>4, <1>8, <1>13, <2>1
<1> QED BY <1>12, <1>13

(* A leg takes from one what it brings the other.                            *)
LEMMA MovesCancel ==
    ASSUME NEW U, IsFiniteSet(U), NEW leg \in LegsAmong(U)
    PROVE  SumFunctionOnSet([p \in U |-> Moves(leg, {p})], U) = 0
<1> DEFINE f == [p \in U |-> Moves(leg, {p})]
           g == [p \in U |-> Within(leg.to, {p}, leg.amount)]
           h == [p \in U |-> Within(leg.from, {p}, leg.amount)]
<1>1. leg.to \in U /\ leg.from \in U /\ leg.amount \in Int
  BY DEF LegsAmong
<1>2. /\ \A p \in U : g[p] \in Int /\ (p # leg.to => g[p] = 0)
      /\ \A p \in U : h[p] \in Int /\ (p # leg.from => h[p] = 0)
      /\ g[leg.to] = leg.amount /\ h[leg.from] = leg.amount
      /\ \A p \in U : f[p] = g[p] - h[p]
  BY <1>1 DEF Within, Moves
<1> HIDE DEF f, g, h
<1>3. Joined(g, f, h, U)
  BY <1>2 DEF Joined
<1>4. SumFunctionOnSet(g, U) = leg.amount /\ SumFunctionOnSet(h, U) = leg.amount
  BY <1>1, <1>2, SumOnly
<1>5. /\ SumFunctionOnSet(g, U) = SumFunctionOnSet(f, U) + SumFunctionOnSet(h, U)
      /\ SumFunctionOnSet(f, U) \in Int
  BY <1>3, SumPlus
<1>6. SumFunctionOnSet(f, U) = 0
  BY <1>1, <1>4, <1>5
<1> QED BY <1>6 DEF f

(* So the balances that any settlements come to add up to nothing, whatever  *)
(* the ledger they were suggested for.                                       *)
LEMMA PublicCancels ==
    ASSUME NEW U, IsFiniteSet(U), NEW legs \in Seq(LegsAmong(U))
    PROVE  SumFunctionOnSet([p \in U |-> CentsIn(PublicBalances(legs), p)], U) = 0
<1> DEFINE S == DOMAIN legs
           F == [i \in S |-> [p \in U |-> Moves(legs[i], {p})]]
           a == [i \in S |-> 0]
           b == [p \in U |-> CentsIn(PublicBalances(legs), p)]
<1>1. IsFiniteSet(S) /\ \A p : \A i \in S : Nets(legs, {p})[i] \in Int
  BY NetType
<1>2. \A i \in S : legs[i] \in LegsAmong(U)
  OBVIOUS
<1>3. \A i \in S : \A p \in U : F[i][p] \in Int
  BY <1>1 DEF Nets
<1>4. ASSUME NEW i \in S PROVE a[i] = SumFunctionOnSet(F[i], U)
  <2>1. legs[i] \in LegsAmong(U)
    BY <1>2
  <2>2. SumFunctionOnSet([p \in U |-> Moves(legs[i], {p})], U) = 0
    BY <2>1, MovesCancel
  <2>3. F[i] = [p \in U |-> Moves(legs[i], {p})] /\ a[i] = 0
    OBVIOUS
  <2> QED BY <2>2, <2>3
<1>5. ASSUME NEW p \in U PROVE b[p] = SumFunctionOnSet([i \in S |-> F[i][p]], S)
  <2>1. [i \in S |-> F[i][p]] = Nets(legs, {p})
    BY DEF Nets
  <2>2. b[p] = Net(legs, {p})
    <3>1. CentsIn(PublicBalances(legs), p) = Net(legs, {p})
      BY PublicNet
    <3> QED BY <3>1
  <2> QED BY <2>1, <2>2 DEF Net
<1>6. \A i \in S : a[i] = 0
  OBVIOUS
<1> HIDE DEF S, F, a
<1>7. Tallied(F, a, b, S, U)
  BY <1>3, <1>4, <1>5 DEF Tallied
<1> HIDE DEF b
<1>8. SumFunctionOnSet(a, S) = SumFunctionOnSet(b, U) /\ SumFunctionOnSet(a, S) = 0
  BY <1>1, <1>6, <1>7, SumSwap, SumOfZeros
<1>9. SumFunctionOnSet(b, U) = 0
  BY <1>8
<1> QED BY <1>9 DEF b

(* balances.ts, getPublicBalances, through which the group looks at its own  *)
(* balances: those that the settlements suggested come to are those they were*)
(* suggested for, and the same settlements are suggested for them.           *)
THEOREM PublicSame ==
    ASSUME NEW U \in SUBSET Nat, IsFiniteSet(U), NEW balances \in CentsOf(U),
           SumFunctionOnSet([p \in U |-> CentsIn(balances, p)], U) = 0
    PROVE  LET public == PublicBalances(SuggestedSettlements(balances))
           IN  /\ \A p \in U : CentsIn(public, p) = CentsIn(balances, p)
               /\ SuggestedSettlements(public) = SuggestedSettlements(balances)
<1> DEFINE legs == SuggestedSettlements(balances)
           public == PublicBalances(legs)
<1>1. legs \in Seq(LegsAmong(U))
  BY SuggestedType
<1>2. \A p \in U : Net(legs, {p}) = CentsIn(balances, p)
  BY SuggestedSettle
<1> HIDE DEF legs
<1>3. public \in CentsOf(U)
  BY <1>1, PublicType
<1>4. \A p \in U : CentsIn(public, p) = CentsIn(balances, p)
  BY <1>1, <1>2, PublicNet
<1>5. SuggestedSettlements(public) = legs
  <2> HIDE DEF public
  <2>1. SuggestedSettlements(public) = SuggestedSettlements(balances)
    BY <1>3, <1>4, SuggestedSame
  <2> QED BY <2>1 DEF legs
<1> QED BY <1>4, <1>5 DEF legs

-----------------------------------------------------------------------------
(* There is one staircase for what everybody is due.                         *)

(* Legs that pay somebody nothing, or take nothing from them.                *)
LEMMA NetSigns ==
    ASSUME NEW D, NEW legs \in Seq(LegsAmong(D)), \A i \in DOMAIN legs : legs[i].amount > 0, NEW p
    PROVE  /\ (\A i \in DOMAIN legs : legs[i].from # p) => Net(legs, {p}) >= 0
           /\ (\A i \in DOMAIN legs : legs[i].to # p) => Net(legs, {p}) <= 0
<1> DEFINE S == DOMAIN legs
           f == Nets(legs, {p})
           m == [i \in S |-> -f[i]]
           z == [i \in S |-> 0]
<1>1. IsFiniteSet(S) /\ \A i \in S : f[i] \in Int
  BY NetType
<1>2. \A i \in S : legs[i].amount \in Int /\ legs[i].amount > 0
  <2>1. \A i \in S : legs[i] \in LegsAmong(D)
    OBVIOUS
  <2> QED BY <2>1 DEF LegsAmong
<1>3. Net(legs, {p}) = SumFunctionOnSet(f, S)
  BY DEF Net
<1>4. ASSUME \A i \in S : legs[i].from # p
      PROVE  SumFunctionOnSet(f, S) \in Nat
  <2>1. \A i \in S : f[i] = Within(legs[i].to, {p}, legs[i].amount)
    BY <1>2, <1>4 DEF Nets, Moves, Within
  <2> HIDE DEF f, S
  <2>2. \A i \in S : f[i] \in Nat
    <3> TAKE i \in S
    <3>1. legs[i].amount \in Nat
      BY <1>2
    <3>2. f[i] = Within(legs[i].to, {p}, legs[i].amount)
      BY <2>1
    <3> QED BY <3>1, <3>2 DEF Within
  <2> QED BY <1>1, <2>2, SumNotNegative
<1>5. ASSUME \A i \in S : legs[i].to # p
      PROVE  SumFunctionOnSet(f, S) <= 0
  <2>1. \A i \in S : f[i] = -Within(legs[i].from, {p}, legs[i].amount)
    BY <1>2, <1>5 DEF Nets, Moves, Within
  <2>2. \A i \in S : m[i] = -f[i] /\ z[i] = 0
    OBVIOUS
  <2> HIDE DEF f, m, z, S
  <2>3. ASSUME NEW i \in S
        PROVE  m[i] \in Nat /\ f[i] \in Int /\ m[i] \in Int /\ z[i] = f[i] + m[i]
    <3> DEFINE w == Within(legs[i].from, {p}, legs[i].amount)
    <3>1. w \in Nat
      BY <1>2 DEF Within
    <3>2. f[i] = -w
      BY <2>1
    <3> HIDE DEF w
    <3>3. m[i] = -f[i] /\ z[i] = 0
      BY <2>2
    <3> QED BY <3>1, <3>2, <3>3
  <2>4. Joined(z, f, m, S)
    BY <2>3 DEF Joined
  <2>5. \A i \in S : z[i] = 0
    BY <2>2
  <2>6. SumFunctionOnSet(z, S) = 0
    BY <1>1, <2>5, SumOfZeros
  <2>7. /\ SumFunctionOnSet(z, S) = SumFunctionOnSet(f, S) + SumFunctionOnSet(m, S)
        /\ SumFunctionOnSet(f, S) \in Int
    BY <1>1, <2>4, SumPlus
  <2>8. SumFunctionOnSet(m, S) \in Nat
    BY <1>1, <2>3, SumNotNegative
  <2> QED BY <2>6, <2>7, <2>8
<1> HIDE DEF f, S
<1> QED BY <1>3, <1>4, <1>5 DEF S

(* Legs of some cents, like a staircase.                                     *)
Steps(legs) == Stairs(legs) /\ \A i \in DOMAIN legs : legs[i].amount > 0

(* All that can be told of the first leg by what the legs come to: the first *)
(* who is due something is paid by the last who owes it, one of them in      *)
(* full.                                                                     *)
Opens(g, legs, D) ==
    /\ Net(legs, {g.to}) >= g.amount /\ Net(legs, {g.from}) <= -g.amount
    /\ Net(legs, {g.to}) = g.amount \/ Net(legs, {g.from}) = -g.amount
    /\ \A p \in D : p < g.to => Net(legs, {p}) <= 0
    /\ \A p \in D : g.from < p => Net(legs, {p}) >= 0

LEMMA FirstOpens ==
    ASSUME NEW D \in SUBSET Nat, NEW g \in LegsAmong(D), NEW r \in Seq(LegsAmong(D)),
           Steps(<<g>> \o r)
    PROVE  /\ Opens(g, <<g>> \o r, D) /\ g.amount > 0
           /\ Steps(r)
           /\ \A p \in D : Net(<<g>> \o r, {p}) = Moves(g, {p}) + Net(r, {p})
<1> DEFINE a == <<g>> \o r
           n == Len(r)
           E == LegsAmong(D)
<1>1. /\ a \in Seq(E) /\ DOMAIN a = 1..(n + 1) /\ a[1] = g
      /\ \A i \in 1..n : a[i + 1] = r[i]
  <2> HIDE DEF E
  <2>1. g \in E /\ r \in Seq(E)
    BY DEF E
  <2> QED BY <2>1, ConsIs
<1>2. n \in Nat /\ DOMAIN r = 1..n
  OBVIOUS
<1>3. ASSUME NEW p PROVE Net(a, {p}) = Moves(g, {p}) + Net(r, {p}) /\ Net(r, {p}) \in Int
  BY NetCons, NetType
<1> HIDE DEF a, n
<1>4. \A i \in 1..n : i + 1 \in DOMAIN a /\ 1 \in DOMAIN a /\ 1 < i + 1
  BY <1>1, <1>2
<1>5. 1 \in DOMAIN a
  BY <1>1, <1>2
<1>6. g.amount > 0 /\ g.to # g.from /\ g.to \in Nat /\ g.from \in Nat /\ g.amount \in Int
  <2>1. g.amount \in Int /\ g.to \in Nat /\ g.from \in Nat
    BY DEF LegsAmong
  <2>2. g.amount > 0
    BY <1>1, <1>5 DEF Steps, a
  <2>3. g.amount # 0
    BY <2>1, <2>2
  <2> QED BY <1>1, <1>5, <2>1, <2>2, <2>3 DEF Steps, Stairs, a
<1>7. \A i \in 1..n : /\ r[i].to \in Nat /\ r[i].from \in Nat /\ r[i].amount \in Int
                      /\ r[i].amount > 0
  <2>1. \A i \in 1..n : r[i] \in E
    BY <1>2
  <2>2. \A i \in 1..n : r[i].amount > 0
    <3>1. \A i \in DOMAIN a : a[i].amount > 0
      BY DEF Steps, a
    <3> QED BY <1>1, <1>4, <3>1
  <2> QED BY <2>1, <2>2 DEF LegsAmong
<1>8. \A i, j \in DOMAIN a : i < j /\ a[i].amount # 0 /\ a[j].amount # 0 => Above(a, i, j)
  BY DEF Steps, Stairs, a
<1>9. ASSUME NEW i \in 1..n
      PROVE  /\ g.to # r[i].from /\ r[i].to # g.from
             /\ g.to <= r[i].to /\ r[i].from <= g.from
             /\ g.to # r[i].to \/ g.from # r[i].from
  <2> DEFINE j == i + 1
  <2>1. j \in DOMAIN a /\ 1 \in DOMAIN a /\ 1 < j /\ a[j] = r[i] /\ a[1] = g
    BY <1>1, <1>4
  <2>2. g.amount # 0 /\ r[i].amount # 0
    BY <1>6, <1>7
  <2> HIDE DEF j
  <2>3. Above(a, 1, j)
    BY <1>8, <2>1, <2>2
  <2> QED BY <2>1, <2>3 DEF Above
<1>10. Steps(r)
  <2>1. ASSUME NEW i \in 1..n, NEW k \in 1..n, i < k PROVE Above(r, i, k)
    <3>1. i + 1 \in DOMAIN a /\ k + 1 \in DOMAIN a /\ i + 1 < k + 1
      BY <1>4, <2>1
    <3>2. a[i + 1] = r[i] /\ a[k + 1] = r[k]
      BY <1>1
    <3> DEFINE i1 == i + 1
               k1 == k + 1
    <3>3. /\ i1 \in DOMAIN a /\ k1 \in DOMAIN a /\ i1 < k1 /\ a[i1] = r[i] /\ a[k1] = r[k]
          /\ r[i].amount # 0 /\ r[k].amount # 0
      BY <1>7, <3>1, <3>2
    <3> HIDE DEF i1, k1
    <3>4. Above(a, i1, k1)
      BY <1>8, <3>3
    <3> QED BY <3>3, <3>4 DEF Above
  <2>2. \A i \in 1..n : r[i].to # r[i].from
    <3> TAKE i \in 1..n
    <3>1. i + 1 \in DOMAIN a /\ a[i + 1] = r[i] /\ r[i].amount # 0
      BY <1>1, <1>4, <1>7
    <3> QED BY <3>1 DEF Steps, Stairs, a
  <2>3. \A i \in 1..n : r[i].amount >= 0
    BY <1>7
  <2> QED BY <1>2, <1>7, <2>1, <2>2, <2>3 DEF Steps, Stairs
<1>11. Moves(g, {g.to}) = g.amount /\ Moves(g, {g.from}) = -g.amount
  BY <1>6 DEF Moves, Within
<1>12. Net(r, {g.to}) >= 0 /\ Net(r, {g.from}) <= 0
  BY <1>2, <1>7, <1>9, NetSigns
<1>13. Net(r, {g.to}) = 0 \/ Net(r, {g.from}) = 0
  <2>1. CASE \A i \in 1..n : r[i].to # g.to
    <3>1. Net(r, {g.to}) <= 0
      BY <1>2, <1>7, <2>1, NetSigns
    <3>2. Net(r, {g.to}) \in Int
      BY <1>3, Zenon
    <3> QED BY <1>12, <3>1, <3>2
  <2>2. CASE \A i \in 1..n : r[i].from # g.from
    <3>1. Net(r, {g.from}) >= 0
      BY <1>2, <1>7, <2>2, NetSigns
    <3>2. Net(r, {g.from}) \in Int
      BY <1>3, Zenon
    <3> QED BY <1>12, <3>1, <3>2
  <2>3. ASSUME NEW i \in 1..n, NEW k \in 1..n, r[i].to = g.to, r[k].from = g.from PROVE FALSE
    <3>1. \A l, m \in 1..n : l < m => r[l].to <= r[m].to /\ r[m].from <= r[l].from
      <4> TAKE l \in 1..n, m \in 1..n
      <4> HAVE l < m
      <4>1. r[l].amount # 0 /\ r[m].amount # 0
        BY <1>7
      <4> QED BY <1>2, <1>10, <4>1 DEF Steps, Stairs, Above
    <3>2. i # k
      BY <1>9, <2>3
    <3>3. CASE i < k
      <4>1. r[k].from <= r[i].from
        BY <3>1, <3>3
      <4>2. r[i].from <= g.from /\ r[i].from # g.from
        BY <1>9, <2>3
      <4> QED BY <1>6, <1>7, <2>3, <4>1, <4>2
    <3>4. CASE k < i
      <4>1. r[k].to <= r[i].to
        BY <3>1, <3>4
      <4>2. g.to <= r[k].to /\ r[k].to # g.to
        BY <1>9, <2>3
      <4> QED BY <1>6, <1>7, <2>3, <4>1, <4>2
    <3> QED BY <1>2, <3>2, <3>3, <3>4
  <2> QED BY <2>1, <2>2, <2>3
<1>14. ASSUME NEW p \in D, p < g.to PROVE Net(a, {p}) <= 0
  <2>1. \A i \in 1..n : r[i].to # p
    BY <1>6, <1>7, <1>9, <1>14
  <2>2. Net(r, {p}) <= 0
    BY <1>2, <1>7, <2>1, NetSigns
  <2>3. Moves(g, {p}) \in Int /\ Moves(g, {p}) <= 0
    BY <1>6, <1>14 DEF Moves, Within
  <2>4. Net(a, {p}) = Moves(g, {p}) + Net(r, {p}) /\ Net(r, {p}) \in Int
    BY <1>3, Zenon
  <2> QED BY <2>2, <2>3, <2>4
<1>15. ASSUME NEW p \in D, g.from < p PROVE Net(a, {p}) >= 0
  <2>1. \A i \in 1..n : r[i].from # p
    BY <1>6, <1>7, <1>9, <1>15
  <2>2. Net(r, {p}) >= 0
    BY <1>2, <1>7, <2>1, NetSigns
  <2>3. Moves(g, {p}) \in Int /\ Moves(g, {p}) >= 0
    BY <1>6, <1>15 DEF Moves, Within
  <2>4. Net(a, {p}) = Moves(g, {p}) + Net(r, {p}) /\ Net(r, {p}) \in Int
    BY <1>3, Zenon
  <2> QED BY <2>2, <2>3, <2>4
<1>16. Opens(g, a, D)
  <2>1. /\ Net(a, {g.to}) = g.amount + Net(r, {g.to}) /\ Net(r, {g.to}) \in Int
        /\ Net(a, {g.from}) = -g.amount + Net(r, {g.from}) /\ Net(r, {g.from}) \in Int
    BY <1>3, <1>11
  <2>2. /\ Net(a, {g.to}) >= g.amount /\ Net(a, {g.from}) <= -g.amount
        /\ Net(a, {g.to}) = g.amount \/ Net(a, {g.from}) = -g.amount
    BY <1>6, <1>12, <1>13, <2>1
  <2> QED BY <1>14, <1>15, <2>2 DEF Opens
<1> QED BY <1>3, <1>6, <1>10, <1>16 DEF a

(* Legs that come to the same for everybody.                                 *)
Alike(a, b, D) == \A p \in D : Net(a, {p}) = Net(b, {p})

(* Two such first legs of what comes to the same are the same.               *)
LEMMA OpensSame ==
    ASSUME NEW D \in SUBSET Nat, NEW g \in LegsAmong(D), NEW h \in LegsAmong(D),
           g.amount > 0, h.amount > 0, NEW a \in Seq(LegsAmong(D)), NEW b,
           Opens(g, a, D), Opens(h, b, D), Alike(a, b, D)
    PROVE  g = h
<1>1. /\ g.to \in D /\ g.from \in D /\ h.to \in D /\ h.from \in D
      /\ g.to \in Nat /\ g.from \in Nat /\ h.to \in Nat /\ h.from \in Nat
      /\ g.amount \in Int /\ h.amount \in Int
  BY DEF LegsAmong
<1> DEFINE n == [p \in D |-> Net(a, {p})]
<1>2. \A p \in D : n[p] = Net(a, {p}) /\ n[p] = Net(b, {p}) /\ n[p] \in Int
  BY NetType DEF Alike
<1> HIDE DEF n
<1>3. /\ n[g.to] >= g.amount /\ n[g.from] <= -g.amount
      /\ n[g.to] = g.amount \/ n[g.from] = -g.amount
      /\ \A p \in D : p < g.to => n[p] <= 0
      /\ \A p \in D : g.from < p => n[p] >= 0
  BY <1>1, <1>2 DEF Opens
<1>4. /\ n[h.to] >= h.amount /\ n[h.from] <= -h.amount
      /\ n[h.to] = h.amount \/ n[h.from] = -h.amount
      /\ \A p \in D : p < h.to => n[p] <= 0
      /\ \A p \in D : h.from < p => n[p] >= 0
  BY <1>1, <1>2 DEF Opens
<1>5. n[g.to] \in Int /\ n[g.from] \in Int /\ n[h.to] \in Int /\ n[h.from] \in Int
  BY <1>1, <1>2
<1>6. g.to = h.to
  <2>1. ~(g.to < h.to)
    BY <1>1, <1>3, <1>4, <1>5
  <2>2. ~(h.to < g.to)
    BY <1>1, <1>3, <1>4, <1>5
  <2> QED BY <1>1, <2>1, <2>2
<1>7. g.from = h.from
  <2>1. ~(g.from < h.from)
    BY <1>1, <1>3, <1>4, <1>5
  <2>2. ~(h.from < g.from)
    BY <1>1, <1>3, <1>4, <1>5
  <2> QED BY <1>1, <2>1, <2>2
<1>8. g.amount = h.amount
  BY <1>1, <1>3, <1>4, <1>5, <1>6, <1>7
<1> QED BY <1>6, <1>7, <1>8 DEF LegsAmong

(* So what they come to tells the legs of a staircase.                       *)
LEMMA StepsUnique ==
    ASSUME NEW D \in SUBSET Nat, NEW a \in Seq(LegsAmong(D)), NEW b \in Seq(LegsAmong(D)),
           Steps(a), Steps(b), Alike(a, b, D)
    PROVE  a = b
<1> DEFINE E == LegsAmong(D)
           L == Seq(E)
           A == {x \in L : \A y \in L : Steps(x) /\ Steps(y) /\ Alike(x, y, D) => x = y}
           rank == [x \in L |-> Len(x)]
<1>1. rank \in [L -> Nat]
  OBVIOUS
<1>2. ASSUME NEW s \in L PROVE s = <<>> \/ \E g \in E, r \in L : s = <<g>> \o r /\ Len(r) < Len(s)
  <2>1. CASE s # <<>>
    <3>1. Head(s) \in E /\ Tail(s) \in L /\ s = <<Head(s)>> \o Tail(s)
      <4> HIDE DEF E
      <4> QED BY <2>1
    <3>2. Len(Tail(s)) < Len(s)
      <4> HIDE DEF E
      <4> QED BY <2>1
    <3> QED BY <3>1, <3>2
  <2> QED BY <2>1
<1>3. ASSUME NEW g \in E, NEW r \in L, Steps(<<g>> \o r)
      PROVE  /\ Opens(g, <<g>> \o r, D) /\ g.amount > 0 /\ Steps(r)
             /\ \A p \in D : Net(<<g>> \o r, {p}) = Moves(g, {p}) + Net(r, {p})
  BY <1>3, FirstOpens
<1>4. \A x \in L : \A p \in D : Net(x, {p}) \in Int
  BY NetType
<1>5. \A p \in D : Net(<<>>, {p}) = 0
  <2>1. DOMAIN <<>> = {} /\ IsFiniteSet({})
    BY FS_EmptySet
  <2>2. \A f : SumFunctionOnSet(f, {}) = 0
    <3> TAKE f
    <3>1. \A i \in {} : f[i] = 0
      OBVIOUS
    <3> QED BY <2>1, <3>1, SumOfZeros
  <2> QED BY <2>1, <2>2 DEF Net
<1>6. ASSUME NEW g \in E, NEW r \in L, Steps(<<g>> \o r), Alike(<<g>> \o r, <<>>, D) PROVE FALSE
  <2>1. Net(<<g>> \o r, {g.to}) >= g.amount /\ g.amount > 0
    BY <1>3, <1>6 DEF Opens
  <2>2. g.to \in D /\ g.amount \in Int
    BY DEF LegsAmong
  <2>3. Net(<<g>> \o r, {g.to}) = 0
    BY <1>5, <1>6, <2>2 DEF Alike
  <2> QED BY <2>1, <2>2, <2>3
<1>7. ASSUME NEW x \in L, \A z \in L : rank[z] < rank[x] => z \in A PROVE x \in A
  <2> SUFFICES ASSUME NEW y \in L, Steps(x), Steps(y), Alike(x, y, D) PROVE x = y
    OBVIOUS
  <2>1. CASE x = <<>>
    <3> SUFFICES ASSUME y # <<>> PROVE FALSE
      BY <2>1
    <3>1. PICK g \in E, r \in L : y = <<g>> \o r
      BY <1>2
    <3>2. Alike(<<g>> \o r, <<>>, D)
      BY <2>1, <3>1 DEF Alike
    <3> QED BY <1>6, <3>1, <3>2
  <2>2. CASE y = <<>> /\ x # <<>>
    <3>1. PICK g \in E, r \in L : x = <<g>> \o r
      BY <1>2, <2>2
    <3>2. Alike(<<g>> \o r, <<>>, D)
      BY <2>2, <3>1
    <3> QED BY <1>6, <3>1, <3>2
  <2>3. CASE x # <<>> /\ y # <<>>
    <3>1. PICK g \in E, r \in L : x = <<g>> \o r /\ Len(r) < Len(x)
      BY <1>2, <2>3
    <3>2. PICK h \in E, t \in L : y = <<h>> \o t
      BY <1>2, <2>3
    <3>3. /\ Opens(g, x, D) /\ g.amount > 0 /\ Steps(r)
          /\ \A p \in D : Net(x, {p}) = Moves(g, {p}) + Net(r, {p})
      BY <1>3, <3>1
    <3>4. /\ Opens(h, y, D) /\ h.amount > 0 /\ Steps(t)
          /\ \A p \in D : Net(y, {p}) = Moves(h, {p}) + Net(t, {p})
      BY <1>3, <3>2
    <3>5. \A p \in D : Net(x, {p}) = Net(y, {p}) /\ Net(x, {p}) \in Int
      BY <1>4 DEF Alike
    <3>6. g = h
      <4> HIDE DEF L, A, rank
      <4>1. g \in LegsAmong(D) /\ h \in LegsAmong(D) /\ x \in Seq(LegsAmong(D))
        BY DEF L
      <4>2. Opens(g, x, D) /\ g.amount > 0 /\ Opens(h, y, D) /\ h.amount > 0 /\ Alike(x, y, D)
        BY <3>3, <3>4
      <4> HIDE DEF E
      <4> QED BY <4>1, <4>2, OpensSame
    <3>7. Alike(r, t, D)
      <4> SUFFICES ASSUME NEW p \in D PROVE Net(r, {p}) = Net(t, {p})
        BY DEF Alike
      <4>1. Net(r, {p}) \in Int /\ Net(t, {p}) \in Int
        BY <1>4, Zenon
      <4>2. Moves(g, {p}) \in Int
        BY DEF Moves, Within, LegsAmong
      <4>3. Moves(g, {p}) + Net(r, {p}) = Moves(g, {p}) + Net(t, {p})
        BY <3>3, <3>4, <3>5, <3>6
      <4> QED BY <4>1, <4>2, <4>3
    <3>8. r \in A
      <4>1. rank[r] < rank[x]
        BY <3>1
      <4> HIDE DEF A, rank
      <4> QED BY <1>7, <4>1
    <3>9. r = t
      <4> HIDE DEF L, rank, E
      <4> QED BY <3>3, <3>4, <3>7, <3>8
    <3> QED BY <3>1, <3>2, <3>6, <3>9
  <2> QED BY <2>1, <2>2, <2>3
<1>8. \A x \in L : x \in A
  <2> HIDE DEF A, rank, L
  <2> QED BY <1>1, <1>7, RankInduction
<1> QED BY <1>8

(* One sequence after another.                                               *)
LEMMA JoinIs ==
    ASSUME NEW E, NEW b \in Seq(E), NEW c \in Seq(E)
    PROVE  /\ b \o c \in Seq(E) /\ Len(b \o c) = Len(b) + Len(c)
           /\ \A k \in 1..(Len(b) + Len(c)) :
                 (b \o c)[k] = IF k <= Len(b) THEN b[k] ELSE c[k - Len(b)]
OBVIOUS

(* A sequence without its i-th.                                              *)
LEMMA RemoveThins ==
    ASSUME NEW E, NEW s \in Seq(E), NEW i \in DOMAIN s
    PROVE  /\ RemoveAt(s, i) \in Seq(E)
           /\ Thinned(RemoveAt(s, i), s, DOMAIN s \ {i})
<1> DEFINE n == Len(s)
           r == RemoveAt(s, i)
           I == DOMAIN s \ {i}
           at == [k \in 1..(n - 1) |-> IF k < i THEN k ELSE k + 1]
<1>1. n \in Nat /\ DOMAIN s = 1..n /\ i \in 1..n
  OBVIOUS
<1>2. r = [k \in 1..(n - 1) |-> s[at[k]]] /\ r \in Seq(E)
  <2> DEFINE b == SubSeq(s, 1, i - 1)
             c == SubSeq(s, i + 1, n)
  <2>1. /\ b \in Seq(E) /\ Len(b) = i - 1 /\ \A k \in 1..(i - 1) : b[k] = s[k]
        /\ c \in Seq(E) /\ Len(c) = n - i /\ \A k \in 1..(n - i) : c[k] = s[i + k]
    BY <1>1
  <2>2. r = b \o c
    BY DEF RemoveAt
  <2> HIDE DEF b, c
  <2> HIDE DEF r, n
  <2>3. /\ r \in Seq(E) /\ Len(r) = n - 1
        /\ \A k \in 1..(n - 1) : r[k] = IF k < i THEN b[k] ELSE c[k - (i - 1)]
    <3>1. /\ r \in Seq(E) /\ Len(r) = Len(b) + Len(c)
          /\ \A k \in 1..(Len(b) + Len(c)) : r[k] = IF k <= Len(b) THEN b[k] ELSE c[k - Len(b)]
      BY <2>1, <2>2, JoinIs
    <3>2. Len(b) = i - 1 /\ Len(b) + Len(c) = n - 1
      BY <1>1, <2>1
    <3>3. \A k \in 1..(n - 1) : k <= i - 1 <=> k < i
      BY <1>1
    <3> QED BY <3>1, <3>2, <3>3
  <2>4. ASSUME NEW k \in 1..(n - 1) PROVE r[k] = s[at[k]]
    <3>1. CASE k < i
      BY <1>1, <2>1, <2>3, <3>1
    <3>2. CASE ~(k < i)
      <4>1. k - (i - 1) \in 1..(n - i) /\ i + (k - (i - 1)) = k + 1
        BY <1>1, <3>2
      <4>2. r[k] = c[k - (i - 1)]
        BY <2>3, <3>2
      <4>3. c[k - (i - 1)] = s[i + (k - (i - 1))]
        BY <2>1, <4>1
      <4> QED BY <3>2, <4>1, <4>2, <4>3
    <3> QED BY <3>1, <3>2
  <2>5. DOMAIN r = 1..(n - 1) /\ r = [k \in 1..(n - 1) |-> r[k]]
    BY <2>3
  <2> QED BY <2>3, <2>4, <2>5
<1> HIDE DEF r, n
<1>3. Cardinality(I) = n - 1
  <2>1. 1 \in Int /\ n \in Int
    BY <1>1
  <2>2. IsFiniteSet(1..n) /\ Cardinality(1..n) = n
    <3>1. Cardinality(1..n) = IF 1 > n THEN 0 ELSE n - 1 + 1
      BY <2>1, FS_Interval
    <3> QED BY <1>1, <2>1, <3>1, FS_Interval
  <2>3. Cardinality((1..n) \ {i}) = Cardinality(1..n) - 1
    BY <1>1, <2>2, FS_RemoveElement
  <2> QED BY <1>1, <2>2, <2>3
<1>4. Through(at, 1..(n - 1), I) /\ \A k, l \in 1..(n - 1) : k < l => at[k] < at[l]
  <2>1. \A k \in 1..(n - 1) : at[k] = (IF k < i THEN k ELSE k + 1)
    OBVIOUS
  <2> HIDE DEF at
  <2>2. \A k \in 1..(n - 1) : at[k] \in I
    BY <1>1, <2>1
  <2>3. \A k, l \in 1..(n - 1) : k < l => at[k] < at[l]
    BY <1>1, <2>1
  <2>4. \A k, l \in 1..(n - 1) : at[k] = at[l] => k = l
    BY <1>1, <2>1
  <2>5. ASSUME NEW x \in I PROVE \E k \in 1..(n - 1) : at[k] = x
    <3>1. x \in 1..n /\ x # i
      BY <1>1
    <3>2. CASE x < i
      <4>1. x \in 1..(n - 1) /\ at[x] = x
        BY <1>1, <2>1, <3>1, <3>2
      <4> QED BY <4>1
    <3>3. CASE ~(x < i)
      <4>1. x - 1 \in 1..(n - 1) /\ ~(x - 1 < i) /\ (x - 1) + 1 = x
        BY <1>1, <3>1, <3>3
      <4>2. at[x - 1] = x
        BY <2>1, <4>1
      <4> QED BY <4>1, <4>2
    <3> QED BY <3>2, <3>3
  <2> QED BY <2>2, <2>3, <2>4, <2>5 DEF Through
<1> QED BY <1>2, <1>3, <1>4 DEF Thinned, r

-----------------------------------------------------------------------------
(* Legs one at a time.                                                       *)

(* No legs bring nobody anything.                                            *)
LEMMA NoLegs ==
    ASSUME NEW P
    PROVE  Net(<<>>, P) = 0
<1>1. DOMAIN <<>> = {} /\ IsFiniteSet({}) /\ \A i \in {} : Nets(<<>>, P)[i] = 0
  BY FS_EmptySet
<1> QED BY <1>1, SumOfZeros DEF Net

(* One leg on its own.                                                       *)
LEMMA OneLeg ==
    ASSUME NEW D, NEW leg \in LegsAmong(D), NEW P
    PROVE  <<leg>> \in Seq(LegsAmong(D)) /\ Net(<<leg>>, P) = Moves(leg, P)
<1> DEFINE f == Nets(<<leg>>, P)
<1>1. DOMAIN <<leg>> = {1} /\ <<leg>>[1] = leg
  OBVIOUS
<1>2. f[1] = Moves(leg, P) /\ f[1] \in Int
  BY <1>1 DEF Nets, Moves, Within, LegsAmong
<1>3. Net(<<leg>>, P) = SumFunctionOnSet(f, {1})
  BY <1>1 DEF Net
<1> HIDE DEF f
<1>4. SumFunctionOnSet(f, {1}) = f[1]
  BY <1>2, SumOne
<1> QED BY <1>2, <1>3, <1>4

(* The legs without one of them bring as much as all do, but for that one.   *)
LEMMA RemovedNet ==
    ASSUME NEW D, NEW legs \in Seq(LegsAmong(D)), NEW i \in DOMAIN legs, Steps(legs), NEW P
    PROVE  /\ RemoveAt(legs, i) \in Seq(LegsAmong(D)) /\ Steps(RemoveAt(legs, i))
           /\ Net(RemoveAt(legs, i), P) = Net(legs, P) - Moves(legs[i], P)
<1> DEFINE E == LegsAmong(D)
           r == RemoveAt(legs, i)
           I == DOMAIN legs \ {i}
           f == Nets(legs, P)
           S == DOMAIN legs
<1>1. r \in Seq(E) /\ Thinned(r, legs, I) /\ I \in SUBSET S
  <2> HIDE DEF E
  <2>1. legs \in Seq(E)
    BY DEF E
  <2> QED BY <2>1, RemoveThins
<1> HIDE DEF r
<1>2. Stairs(r)
  BY <1>1, ThinnedStairs DEF Steps
<1>3. \A k \in DOMAIN r : r[k].amount > 0
  <2>1. \A k \in DOMAIN r : \E j \in DOMAIN legs : r[k] = legs[j]
    BY <1>1 DEF Thinned, Through
  <2> QED BY <2>1 DEF Steps
<1>4. Net(r, P) = SumFunctionOnSet(f, I)
  BY <1>1, ThinnedSum
<1>5. IsFiniteSet(S) /\ (\A j \in S : f[j] \in Int) /\ Net(legs, P) = SumFunctionOnSet(f, S)
  BY NetType DEF Net
<1>6. f[i] = Moves(legs[i], P)
  BY DEF Nets
<1> HIDE DEF f
<1>7. SumFunctionOnSet(f, S) = f[i] + SumFunctionOnSet(f, I)
  <2> HIDE DEF S
  <2>1. i \in S
    BY DEF S
  <2> QED BY <1>5, <2>1, SumRemoves DEF S
<1>8. SumFunctionOnSet(f, I) \in Int
  <2>1. IsFiniteSet(I) /\ \A j \in I : f[j] \in Int
    BY <1>1, <1>5, FS_Subset
  <2> HIDE DEF I
  <2> QED BY <2>1, SumUnfolds
<1>9. f[i] \in Int
  BY <1>5
<1>10. Net(r, P) = Net(legs, P) - f[i]
  <2> HIDE DEF I, S
  <2> QED BY <1>4, <1>5, <1>7, <1>8, <1>9
<1> QED BY <1>1, <1>2, <1>3, <1>6, <1>10 DEF Steps, r

-----------------------------------------------------------------------------
(* The sides of what is paid in whole cents by one for one.                  *)

(* A whole number over one.                                                  *)
LEMMA WholeFraction ==
    ASSUME NEW n \in Int
    PROVE  Fraction(n, 1) = Whole(n)
<1>1. PICK g \in Nat \ {0}, k \in Int, l \in Nat \ {0} : Reduced(n, 1, g, k, l, 1)
  <2>1. 1 \in Nat \ {0}
    OBVIOUS
  <2> QED BY <2>1, PositiveParts
<1>2. g * l = 1 /\ n = g * k
  BY <1>1 DEF Reduced
<1>3. g = 1
  BY <1>2
<1>4. l = 1 /\ k = n
  BY <1>2, <1>3
<1> QED BY <1>1, <1>4 DEF Reduced, Whole

(* A total of one whole number, and that number rounded.                     *)
LEMMA TotalOfOne ==
    ASSUME NEW y, NEW n \in Int
    PROVE  /\ Total([q \in {y} |-> Whole(n)]) = Whole(n)
           /\ Rounded(Whole(n)) = n
<1> DEFINE a == [q \in {y} |-> Whole(n)]
           S == {y}
           h == [s \in SUBSET S |-> IF s = {} THEN Whole(0) ELSE Plus(Whole(n), Whole(0))]
           g == CHOOSE f : Totals(f, a, S)
<1>1. Some(S) = y /\ S # {} /\ S \ {y} = {} /\ {} \in SUBSET S /\ S \in SUBSET S
  BY SomeIn
<1>2. \A s \in SUBSET S : s = {} \/ s = S
  OBVIOUS
<1>3. a[y] = Whole(n) /\ DOMAIN a = S
  OBVIOUS
<1>4. Totals(h, a, S)
  <2>1. \A s \in SUBSET S : h[s] = IF s = {} THEN Whole(0) ELSE Plus(a[Some(s)], h[s \ {Some(s)}])
    BY <1>1, <1>2, <1>3
  <2>2. h = [s \in SUBSET S |-> h[s]]
    OBVIOUS
  <2> HIDE DEF h, a, S
  <2> QED BY <2>1, <2>2 DEF Totals
<1> HIDE DEF a, S, h
<1>5. Totals(g, a, S)
  BY <1>4
<1> HIDE DEF g
<1>6. g[{}] = Whole(0) /\ g[S] = Plus(a[y], g[{}])
  BY <1>1, <1>5 DEF Totals
<1>7. Total(a) = g[S]
  BY <1>3, TotalIs DEF g
<1>8. Plus(Whole(n), Whole(0)) = Fraction(n, 1)
  BY DEF Plus, Whole
<1>9. Rounded(Whole(n)) = n
  <2>1. (2 * n + 1) \div 2 = n
    OBVIOUS
  <2> QED BY <2>1 DEF Rounded, Whole
<1> QED BY <1>3, <1>6, <1>7, <1>8, <1>9, WholeFraction DEF a
=============================================================================
