----------------------------- MODULE SumTheorems ------------------------------
(***************************************************************************)
(* What the proofs of the components need to know of sums: of no elements, *)
(* of one more element, of a value that changes, and of two functions that *)
(* compare.                                                                *)
(***************************************************************************)
EXTENDS Sums, Integers, FiniteSetTheorems, TLAPS

(* The pairs of an element and one of its shares.                          *)
LEMMA SharesElements ==
  ASSUME NEW f, NEW p
  PROVE  p \in Shares(f) <=> \E x \in DOMAIN f : \E k \in 1 .. f[x] : p = <<x, k>>
BY DEF Shares

(* A sum over a finite set is a number.                                    *)
THEOREM SumIsNat ==
  ASSUME NEW S, IsFiniteSet(S), NEW f \in [S -> Nat]
  PROVE  IsFiniteSet(Shares(f)) /\ SumOf(f) \in Nat
<1>1. \A x \in S : IsFiniteSet({x} \X (1 .. f[x]))
  <2> TAKE x \in S
  <2>1. f[x] \in Int /\ 1 \in Int
    OBVIOUS
  <2>2. IsFiniteSet({x}) /\ IsFiniteSet(1 .. f[x])
    BY <2>1, FS_Singleton, FS_Interval
  <2> QED BY <2>2, FS_Product
<1>2. IsFiniteSet({{x} \X (1 .. f[x]) : x \in S})
  <2> DEFINE T == {{x} \X (1 .. f[x]) : x \in S}
             g == [x \in S |-> {x} \X (1 .. f[x])]
  <2>1. g \in Surjection(S, T)
    BY DEF Surjection, Range
  <2>2. IsFiniteSet(T)
    <3> HIDE DEF T, g
    <3> QED BY <2>1, FS_Surjection
  <2> QED BY <2>2
<1>3. IsFiniteSet(Shares(f))
  BY <1>1, <1>2, FS_UNION DEF Shares
<1> QED BY <1>3, FS_CardinalityType DEF SumOf

(* A sum of nothing is 0.                                                  *)
THEOREM SumOfNothing ==
  ASSUME NEW f, DOMAIN f = {}
  PROVE  SumOf(f) = 0
<1>1. Shares(f) = {}
  BY SharesElements
<1> QED BY <1>1, FS_EmptySet DEF SumOf

(* A sum over one element is its value.                                    *)
THEOREM SumOfOne ==
  ASSUME NEW f, NEW a, DOMAIN f = {a}, f[a] \in Nat
  PROVE  SumOf(f) = f[a]
<1>1. Shares(f) = {a} \X (1 .. f[a])
  BY DEF Shares
<1>2. IsFiniteSet({a}) /\ Cardinality({a}) = 1
  BY FS_Singleton
<1>3. f[a] \in Int /\ 1 \in Int
  OBVIOUS
<1>4. IsFiniteSet(1 .. f[a]) /\ Cardinality(1 .. f[a]) = f[a]
  BY <1>3, FS_Interval
<1>5. Cardinality({a} \X (1 .. f[a])) = 1 * f[a]
  BY <1>2, <1>4, FS_Product
<1> QED BY <1>1, <1>5 DEF SumOf

(* A sum over two sets that have no element in common is the sum of their  *)
(* sums.                                                                   *)
THEOREM SumOfTwo ==
  ASSUME NEW S, NEW T, IsFiniteSet(S), IsFiniteSet(T), S \cap T = {},
         NEW f \in [S \cup T -> Nat],
         NEW g \in [S -> Nat], \A x \in S : g[x] = f[x],
         NEW h \in [T -> Nat], \A x \in T : h[x] = f[x]
  PROVE  SumOf(f) = SumOf(g) + SumOf(h)
<1>2. IsFiniteSet(Shares(g)) /\ IsFiniteSet(Shares(h))
  BY SumIsNat
<1>3. Shares(f) = Shares(g) \cup Shares(h)
  <2>1. \A p \in Shares(f) : p \in Shares(g) \cup Shares(h)
    BY SharesElements
  <2>2. \A p \in Shares(g) \cup Shares(h) : p \in Shares(f)
    BY SharesElements
  <2> QED BY <2>1, <2>2
<1>4. Shares(g) \cap Shares(h) = {}
  BY SharesElements
<1>5. Cardinality(Shares(g) \cap Shares(h)) = 0
  BY <1>4, FS_EmptySet
<1>6. Cardinality(Shares(g)) \in Nat /\ Cardinality(Shares(h)) \in Nat
  BY <1>2, FS_CardinalityType
<1>7. Cardinality(Shares(g) \cup Shares(h)) = Cardinality(Shares(g)) + Cardinality(Shares(h)) - 0
  BY <1>2, <1>5, FS_Union
<1>8. Cardinality(Shares(f)) = Cardinality(Shares(g)) + Cardinality(Shares(h))
  BY <1>3, <1>6, <1>7
<1> QED BY <1>8 DEF SumOf

(* One more element adds its value.                                        *)
THEOREM SumWithOneMore ==
  ASSUME NEW S, IsFiniteSet(S), NEW a, a \notin S,
         NEW f \in [S \cup {a} -> Nat],
         NEW g \in [S -> Nat], \A x \in S : g[x] = f[x]
  PROVE  SumOf(f) = SumOf(g) + f[a]
<1> DEFINE h == [x \in {a} |-> f[x]]
<1>1. h \in [{a} -> Nat] /\ DOMAIN h = {a} /\ h[a] = f[a] /\ \A x \in {a} : h[x] = f[x]
  OBVIOUS
<1> HIDE DEF h
<1>2. SumOf(h) = f[a]
  BY <1>1, SumOfOne
<1> DEFINE A == {a}
<1>3. /\ IsFiniteSet(A) /\ S \cap A = {}
      /\ f \in [S \cup A -> Nat] /\ h \in [A -> Nat] /\ \A x \in A : h[x] = f[x]
  <2>1. IsFiniteSet(A)
    BY FS_Singleton
  <2>2. S \cap A = {}
    OBVIOUS
  <2> QED BY <1>1, <2>1, <2>2
<1> HIDE DEF A
<1>4. SumOf(f) = SumOf(g) + SumOf(h)
  BY <1>3, SumOfTwo
<1> QED BY <1>2, <1>4

(* When one value changes, the sum changes by as much.                     *)
THEOREM SumOfChanged ==
  ASSUME NEW S, IsFiniteSet(S), NEW a \in S,
         NEW f \in [S -> Nat], NEW g \in [S -> Nat], \A x \in S \ {a} : g[x] = f[x]
  PROVE  SumOf(g) + f[a] = SumOf(f) + g[a]
<1> DEFINE R == S \ {a}
           h == [x \in R |-> f[x]]
<1>1. IsFiniteSet(R) /\ a \notin R /\ S = R \cup {a}
  BY FS_RemoveElement
<1>2. h \in [R -> Nat] /\ \A x \in R : h[x] = f[x] /\ h[x] = g[x]
  OBVIOUS
<1> HIDE DEF R, h
<1>3. f \in [R \cup {a} -> Nat] /\ g \in [R \cup {a} -> Nat]
  BY <1>1
<1>4. SumOf(f) = SumOf(h) + f[a]
  BY <1>1, <1>2, <1>3, SumWithOneMore
<1>5. SumOf(g) = SumOf(h) + g[a]
  BY <1>1, <1>2, <1>3, SumWithOneMore
<1>6. SumOf(h) \in Nat
  BY <1>1, <1>2, SumIsNat
<1> QED BY <1>4, <1>5, <1>6

(* A sum of values that are at most as large, of at most as many elements, *)
(* is at most as large; when the sums are equal, so are the values.        *)
THEOREM SumOfLess ==
  ASSUME NEW S, NEW T, S \subseteq T, IsFiniteSet(T),
         NEW f \in [S -> Nat], NEW g \in [T -> Nat], \A x \in S : f[x] <= g[x]
  PROVE  /\ SumOf(f) <= SumOf(g)
         /\ SumOf(f) = SumOf(g) =>
              /\ \A x \in S : f[x] = g[x]
              /\ \A x \in T \ S : g[x] = 0
<1>1. Shares(f) \subseteq Shares(g)
  <2> SUFFICES ASSUME NEW x \in S, NEW k \in 1 .. f[x] PROVE <<x, k>> \in Shares(g)
    BY SharesElements
  <2>1. k \in 1 .. g[x]
    OBVIOUS
  <2> QED BY <2>1, SharesElements
<1>2. IsFiniteSet(Shares(g))
  BY SumIsNat
<1>3. Cardinality(Shares(f)) <= Cardinality(Shares(g))
  BY <1>1, <1>2, FS_Subset
<1>4. ASSUME Cardinality(Shares(f)) = Cardinality(Shares(g))
      PROVE  /\ \A x \in S : f[x] = g[x]
             /\ \A x \in T \ S : g[x] = 0
  <2>1. Shares(f) = Shares(g)
    BY <1>1, <1>2, <1>4, FS_Subset
  <2>2. \A x \in T : g[x] > 0 => <<x, g[x]>> \in Shares(f)
    <3> SUFFICES ASSUME NEW x \in T, g[x] > 0 PROVE <<x, g[x]>> \in Shares(g)
      BY <2>1
    <3>1. g[x] \in 1 .. g[x]
      OBVIOUS
    <3> QED BY <3>1, SharesElements
  <2>3. ASSUME NEW x \in T, g[x] > 0 PROVE x \in S /\ g[x] <= f[x]
    <3>1. PICK y \in DOMAIN f : \E k \in 1 .. f[y] : <<x, g[x]>> = <<y, k>>
      BY <2>2, <2>3, SharesElements
    <3>2. y = x /\ y \in S /\ g[x] \in 1 .. f[x]
      BY <3>1
    <3> QED BY <3>2
  <2> QED BY <2>3
<1> QED BY <1>3, <1>4 DEF SumOf

(* A sum is 0 exactly when all of its values are.                          *)
THEOREM SumIsNothing ==
  ASSUME NEW S, IsFiniteSet(S), NEW f \in [S -> Nat]
  PROVE  SumOf(f) = 0 <=> \A x \in S : f[x] = 0
<1>1. IsFiniteSet(Shares(f))
  BY SumIsNat
<1>2. SumOf(f) = 0 <=> Shares(f) = {}
  BY <1>1, FS_EmptySet DEF SumOf
<1>3. ASSUME NEW x \in S, f[x] # 0 PROVE Shares(f) # {}
  <2>1. 1 \in 1 .. f[x] /\ x \in DOMAIN f
    BY <1>3
  <2> QED BY <2>1, SharesElements
<1>4. ASSUME NEW p \in Shares(f) PROVE \E x \in S : f[x] # 0
  <2>1. PICK x \in DOMAIN f : \E k \in 1 .. f[x] : p = <<x, k>>
    BY SharesElements
  <2> QED BY <2>1
<1> QED BY <1>2, <1>3, <1>4

(* A sum of equal values.                                                  *)
THEOREM SumOfSame ==
  ASSUME NEW S, IsFiniteSet(S), NEW c \in Nat, NEW f, DOMAIN f = S, \A x \in S : f[x] = c
  PROVE  SumOf(f) = c * Cardinality(S)
<1>1. Shares(f) = S \X (1 .. c)
  <2>1. \A p \in Shares(f) : p \in S \X (1 .. c)
    BY SharesElements
  <2>2. \A p \in S \X (1 .. c) : p \in Shares(f)
    BY SharesElements
  <2> QED BY <2>1, <2>2
<1>2. IsFiniteSet(1 .. c) /\ Cardinality(1 .. c) = c
  <2>1. 1 \in Int /\ c \in Int
    OBVIOUS
  <2> QED BY <2>1, FS_Interval
<1>3. Cardinality(S \X (1 .. c)) = Cardinality(S) * c
  BY <1>2, FS_Product
<1>4. Cardinality(S) \in Nat
  BY FS_CardinalityType
<1> QED BY <1>1, <1>3, <1>4 DEF SumOf

(* A sum of values of at most c; when it is the largest there can be, all  *)
(* the values are.                                                         *)
THEOREM SumOfAtMost ==
  ASSUME NEW S, IsFiniteSet(S), NEW c \in Nat, NEW f \in [S -> 0 .. c]
  PROVE  /\ SumOf(f) \in 0 .. c * Cardinality(S)
         /\ SumOf(f) = c * Cardinality(S) => \A x \in S : f[x] = c
<1> DEFINE g == [x \in S |-> c]
<1>1. /\ g \in [S -> Nat] /\ DOMAIN g = S /\ \A x \in S : g[x] = c
      /\ f \in [S -> Nat] /\ \A x \in S : f[x] <= g[x]
  OBVIOUS
<1> HIDE DEF g
<1>2. SumOf(g) = c * Cardinality(S)
  BY <1>1, SumOfSame
<1>3. SumOf(f) <= SumOf(g) /\ (SumOf(f) = SumOf(g) => \A x \in S : f[x] = g[x])
  BY <1>1, SumOfLess
<1>4. SumOf(f) \in Nat /\ SumOf(g) \in Nat
  BY <1>1, SumIsNat
<1> QED BY <1>1, <1>2, <1>3, <1>4
===============================================================================
