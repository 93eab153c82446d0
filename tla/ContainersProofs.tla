-------------------------- MODULE ContainersProofs --------------------------
(***************************************************************************)
(* The one budget of hash tables, string buffers and the token list, and   *)
(* the stacks of values the tables are: proofs for every limit, every      *)
(* size, every hash function and every text.                               *)
(***************************************************************************)
EXTENDS Containers, TLAPS, FiniteSetTheorems, WellFoundedInduction, SequenceTheorems

-----------------------------------------------------------------------------
(* Numbers.                                                                *)

LEMMA MinOfNats ==
    ASSUME NEW S, S \subseteq Nat, S # {}
    PROVE  Min(S) \in S /\ \A y \in S : Min(S) <= y
<1> DEFINE Less == {ss \in Nat \X Nat : ss[1] < ss[2]}
<1>1. IsWellFoundedOn(Less, Nat)
  BY NatLessThanWellFounded DEF OpToRel
<1>2. \A x, y \in Nat : y < x => <<y, x>> \in Less
  OBVIOUS
<1> HIDE DEF Less
<1>3. PICK x \in S : \A y \in S : ~ (<<y, x>> \in Less)
  BY <1>1, WFMin
<1>4. x \in Nat /\ \A y \in S : y \in Nat /\ ~ (y < x)
  BY <1>2, <1>3
<1>5. \A y \in S : x <= y
  BY <1>4
<1> QED
  BY <1>5 DEF Min

\* A set of numbers up to n has a greatest.
LEMMA MaxOfNats ==
    ASSUME NEW n \in Nat, NEW S, S \subseteq 0 .. n, S # {}
    PROVE  Max(S) \in S /\ \A y \in S : y <= Max(S)
<1> DEFINE below == {n - x : x \in S}
<1>1. below \subseteq Nat /\ below # {}
  <2>1. \A x \in S : n - x \in Nat
    OBVIOUS
  <2> QED
    BY <2>1
<1>2. Min(below) \in below
  BY <1>1, MinOfNats
<1>3. \A y \in below : Min(below) <= y
  BY <1>1, MinOfNats
<1>4. PICK x \in S : n - x = Min(below)
  BY <1>2
<1>5. \A y \in S : n - y \in below
  OBVIOUS
<1> HIDE DEF below
<1>6. \A y \in S : x >= y
  BY <1>3, <1>4, <1>5
<1> QED
  BY <1>6 DEF Max

-----------------------------------------------------------------------------
(* The sum of the values of f at the elements of a set, as a number of     *)
(* bytes.                                                                  *)

Total(f, S) == Cardinality(BytesOf(f, S))

LEMMA TotalFinite ==
    ASSUME NEW S, IsFiniteSet(S), NEW f, \A i \in S : f[i] \in Nat
    PROVE  IsFiniteSet(BytesOf(f, S)) /\ Total(f, S) \in Nat
<1> DEFINE Family == {{i} \X (1 .. f[i]) : i \in S}
           g == [i \in S |-> {i} \X (1 .. f[i])]
<1>1. g \in Surjection(S, Family)
  BY DEF Surjection
<1>2. \A i \in S : IsFiniteSet({i} \X (1 .. f[i]))
  <2> TAKE i \in S
  <2>0. PICK n \in Nat : n = f[i]
    OBVIOUS
  <2>1. IsFiniteSet({i}) /\ IsFiniteSet(1 .. n)
    <3>1. IsFiniteSet(1 .. n)
      BY FS_Interval
    <3> QED
      BY <3>1, FS_Singleton
  <2> QED
    BY <2>0, <2>1, FS_Product
<1>3. \A F \in Family : IsFiniteSet(F)
  BY <1>2
<1> HIDE DEF Family, g
<1>4. IsFiniteSet(Family)
  BY <1>1, FS_Surjection
<1>5. IsFiniteSet(UNION Family)
  BY <1>3, <1>4, FS_UNION
<1> QED
  BY <1>5, FS_CardinalityType DEF BytesOf, Total, Family

LEMMA TotalOfNone ==
    ASSUME NEW f
    PROVE  Total(f, {}) = 0
<1>1. BytesOf(f, {}) = {}
  BY DEF BytesOf
<1> QED
  BY <1>1, FS_EmptySet DEF Total

LEMMA TotalOfOne ==
    ASSUME NEW f, NEW i, f[i] \in Nat
    PROVE  Total(f, {i}) = f[i]
<1> DEFINE one == {i}
<1>1. PICK n \in Nat : n = f[i]
  OBVIOUS
<1>2. BytesOf(f, {i}) = one \X (1 .. n)
  BY <1>1 DEF BytesOf
<1>3. IsFiniteSet(one) /\ Cardinality(one) = 1
  BY FS_Singleton
<1>4. IsFiniteSet(1 .. n) /\ Cardinality(1 .. n) = n
  BY FS_Interval
<1>5. Total(f, {i}) = Cardinality(one \X (1 .. n))
  BY <1>2 DEF Total
<1> HIDE DEF one
<1>6. Cardinality(one \X (1 .. n)) = 1 * n
  BY <1>3, <1>4, FS_Product
<1>7. 1 * n = n
  OBVIOUS
<1> QED
  BY <1>1, <1>5, <1>6, <1>7

LEMMA TotalOfTwo ==
    ASSUME NEW A, NEW B, IsFiniteSet(A), IsFiniteSet(B), A \cap B = {},
           NEW f, \A i \in A \cup B : f[i] \in Nat
    PROVE  Total(f, A \cup B) = Total(f, A) + Total(f, B)
<1> DEFINE X == BytesOf(f, A)
           Y == BytesOf(f, B)
<1>1. BytesOf(f, A \cup B) = X \cup Y
  BY DEF BytesOf
<1>2. X \cap Y = {}
  <2>1. \A x \in X : x[1] \in A
    BY DEF BytesOf
  <2>2. \A y \in Y : y[1] \in B
    BY DEF BytesOf
  <2> HIDE DEF X, Y
  <2> QED
    BY <2>1, <2>2
<1>3. IsFiniteSet(X) /\ IsFiniteSet(Y) /\ Cardinality(X) \in Nat /\ Cardinality(Y) \in Nat
  BY TotalFinite DEF Total
<1> HIDE DEF X, Y
<1>4. Cardinality(X \cup Y) = Cardinality(X) + Cardinality(Y) - Cardinality({})
  BY <1>2, <1>3, FS_Union
<1>5. Cardinality(X \cup Y) = Cardinality(X) + Cardinality(Y)
  BY <1>3, <1>4, FS_EmptySet
<1> QED
  BY <1>1, <1>5 DEF Total, X, Y

\* The sum of a set without one of its elements.
LEMMA TotalWithout ==
    ASSUME NEW S, IsFiniteSet(S), NEW x \in S, NEW f, \A i \in S : f[i] \in Nat
    PROVE  /\ Total(f, S) = Total(f, S \ {x}) + f[x]
           /\ Total(f, S \ {x}) \in Nat
<1> DEFINE R == S \ {x}
           X == {x}
<1>1. IsFiniteSet(R) /\ IsFiniteSet(X) /\ R \cap X = {} /\ S = R \cup X
  BY FS_Subset, FS_Singleton
<1>2. Total(f, X) = f[x]
  BY TotalOfOne
<1>3. Total(f, R) \in Nat
  BY <1>1, TotalFinite
<1> HIDE DEF R, X
<1>4. Total(f, R \cup X) = Total(f, R) + Total(f, X)
  BY <1>1, TotalOfTwo
<1> QED
  BY <1>1, <1>2, <1>3, <1>4 DEF R

LEMMA TotalSame ==
    ASSUME NEW S, NEW f, NEW g, \A i \in S : f[i] = g[i]
    PROVE  Total(f, S) = Total(g, S)
<1>1. {{i} \X (1 .. f[i]) : i \in S} = {{i} \X (1 .. g[i]) : i \in S}
  OBVIOUS
<1> QED
  BY <1>1 DEF Total, BytesOf

\* A one-to-one map between two sets carries the sum along.
LEMMA TotalMapped ==
    ASSUME NEW A, NEW B, IsFiniteSet(A), NEW f, NEW g, NEW p \in Bijection(A, B),
           \A i \in A : f[i] \in Nat /\ g[p[i]] = f[i]
    PROVE  Total(f, A) = Total(g, B)
<1> DEFINE X == BytesOf(f, A)
           Y == BytesOf(g, B)
           move == [c \in X |-> <<p[c[1]], c[2]>>]
<1>1. p \in [A -> B] /\ (\A b \in B : \E a \in A : p[a] = b)
      /\ \A a1, a2 \in A : p[a1] = p[a2] => a1 = a2
  BY DEF Bijection, Injection, Surjection, IsInjective
<1>2. \A c : c \in X <=> \E i \in A : \E k \in 1 .. f[i] : c = <<i, k>>
  BY DEF BytesOf
<1>3. \A c : c \in Y <=> \E i \in B : \E k \in 1 .. g[i] : c = <<i, k>>
  BY DEF BytesOf
<1>4. IsFiniteSet(X)
  BY TotalFinite
<1> HIDE DEF X, Y
<1>5. move \in [X -> Y]
  <2> SUFFICES ASSUME NEW c \in X PROVE <<p[c[1]], c[2]>> \in Y
    OBVIOUS
  <2>1. PICK i \in A, k \in Int : k \in 1 .. f[i] /\ c = <<i, k>>
    BY <1>2
  <2>2. p[i] \in B /\ k \in 1 .. g[p[i]]
    BY <1>1, <2>1
  <2> QED
    BY <1>3, <2>1, <2>2
<1>6. \A y \in Y : \E c \in X : move[c] = y
  <2> TAKE y \in Y
  <2>1. PICK b \in B, k \in Int : k \in 1 .. g[b] /\ y = <<b, k>>
    BY <1>3
  <2>2. PICK a \in A : p[a] = b
    BY <1>1
  <2>3. <<a, k>> \in X
    BY <1>2, <2>1, <2>2
  <2>4. move[<<a, k>>] = y
    BY <2>1, <2>2, <2>3
  <2> QED
    BY <2>3, <2>4
<1>7. \A c, d \in X : move[c] = move[d] => c = d
  <2> SUFFICES ASSUME NEW c \in X, NEW d \in X, move[c] = move[d] PROVE c = d
    OBVIOUS
  <2>1. PICK i \in A, k \in Int : k \in 1 .. f[i] /\ c = <<i, k>>
    BY <1>2
  <2>2. PICK j \in A, l \in Int : l \in 1 .. f[j] /\ d = <<j, l>>
    BY <1>2
  <2>3. p[i] = p[j] /\ k = l
    BY <2>1, <2>2
  <2> QED
    BY <1>1, <2>1, <2>2, <2>3
<1> HIDE DEF move
<1>8. move \in Bijection(X, Y)
  BY <1>5, <1>6, <1>7 DEF Bijection, Injection, Surjection, IsInjective
<1>9. Cardinality(Y) = Cardinality(X)
  BY <1>4, <1>8, FS_Bijection DEF ExistsBijection
<1> QED
  BY <1>9 DEF Total, X, Y

Carries(p, f, g, A) == \A i \in A : f[i] \in Nat /\ g[p[i]] = f[i]

LEMMA TotalCarried ==
    ASSUME NEW A, NEW B, IsFiniteSet(A), NEW f, NEW g, NEW p \in Bijection(A, B), Carries(p, f, g, A)
    PROVE  Total(f, A) = Total(g, B)
BY TotalMapped DEF Carries

LEMMA TotalOfZeros ==
    ASSUME NEW S, NEW f, \A i \in S : f[i] = 0
    PROVE  Total(f, S) = 0
<1>1. BytesOf(f, S) = {}
  BY DEF BytesOf
<1> QED
  BY <1>1, FS_EmptySet DEF Total

\* What each element of a set adds on top of f, and what f sums up to, fit in the sum of g.
LEMMA TotalOnTop ==
    ASSUME NEW n \in Nat, NEW c \in Nat, NEW f, NEW g,
           \A i \in 1 .. n : f[i] \in Nat /\ g[i] \in Nat /\ f[i] + c <= g[i]
    PROVE  n * c + Total(f, 1 .. n) <= Total(g, 1 .. n)
<1> DEFINE S == 1 .. n
           X == BytesOf(f, S)
           Y == BytesOf(g, S)
           R == S \X (1 .. c)
           up == [r \in R |-> <<r[1], f[r[1]] + r[2]>>]
           U == {<<i, f[i] + k>> : i \in S, k \in 1 .. c}
<1>1. IsFiniteSet(S) /\ Cardinality(S) = n
  BY FS_Interval
<1>2. IsFiniteSet(1 .. c) /\ Cardinality(1 .. c) = c
  BY FS_Interval
<1>0. \A i \in S : f[i] \in Nat /\ g[i] \in Nat /\ f[i] + c <= g[i]
  OBVIOUS
<1>3. \A x : x \in X <=> \E i \in S : \E k \in 1 .. f[i] : x = <<i, k>>
  BY DEF BytesOf
<1>4. \A x : x \in Y <=> \E i \in S : \E k \in 1 .. g[i] : x = <<i, k>>
  BY DEF BytesOf
<1> HIDE DEF S, X, Y
<1>5. IsFiniteSet(X) /\ IsFiniteSet(Y) /\ Cardinality(X) \in Nat /\ Cardinality(Y) \in Nat
  BY <1>0, <1>1, TotalFinite, FS_CardinalityType DEF X, Y, Total
<1>6. IsFiniteSet(R) /\ Cardinality(R) = n * c
  BY <1>1, <1>2, FS_Product
<1>7. up \in Surjection(R, U) /\ up \in Injection(R, U)
  <2>1. up \in [R -> U]
    OBVIOUS
  <2>2. \A u \in U : \E r \in R : up[r] = u
    <3> TAKE u \in U
    <3>1. PICK i \in S, k \in 1 .. c : u = <<i, f[i] + k>>
      OBVIOUS
    <3>2. <<i, k>> \in R /\ up[<<i, k>>] = u
      BY <3>1
    <3> QED
      BY <3>2
  <2>3. \A r, s \in R : up[r] = up[s] => r = s
    <3> SUFFICES ASSUME NEW r \in R, NEW s \in R, up[r] = up[s] PROVE r = s
      OBVIOUS
    <3>1. PICK i \in S, k \in 1 .. c : r = <<i, k>>
      OBVIOUS
    <3>2. PICK j \in S, l \in 1 .. c : s = <<j, l>>
      OBVIOUS
    <3>3. i = j /\ f[i] + k = f[j] + l
      BY <3>1, <3>2
    <3>4. k = l
      BY <1>0, <3>3
    <3> QED
      BY <3>1, <3>2, <3>3, <3>4
  <2> HIDE DEF up, U, R
  <2> QED
    BY <2>1, <2>2, <2>3 DEF Injection, Surjection, IsInjective
<1>8. IsFiniteSet(U) /\ Cardinality(U) = n * c
  <2> HIDE DEF up, U, R
  <2> QED
    BY <1>6, <1>7, FS_Surjection
<1>9. X \cap U = {}
  <2> SUFFICES ASSUME NEW x \in X, x \in U PROVE FALSE
    OBVIOUS
  <2>1. PICK i \in S, k \in Int : k \in 1 .. f[i] /\ x = <<i, k>>
    BY <1>3
  <2>2. PICK j \in S, l \in 1 .. c : x = <<j, f[j] + l>>
    OBVIOUS
  <2> QED
    BY <1>0, <2>1, <2>2
<1>10. X \cup U \subseteq Y
  <2>1. ASSUME NEW x \in X PROVE x \in Y
    <3>1. PICK i \in S, k \in Int : k \in 1 .. f[i] /\ x = <<i, k>>
      BY <1>3
    <3>2. k \in 1 .. g[i]
      BY <1>0, <3>1
    <3> QED
      BY <1>4, <3>1, <3>2
  <2>2. ASSUME NEW x \in U PROVE x \in Y
    <3>1. PICK i \in S, k \in 1 .. c : x = <<i, f[i] + k>>
      BY <2>2
    <3>2. f[i] + k \in 1 .. g[i]
      BY <1>0, <3>1
    <3> QED
      BY <1>4, <3>1, <3>2
  <2> QED
    BY <2>1, <2>2
<1> HIDE DEF U, R, up
<1>11. Cardinality(X \cup U) = Cardinality(X) + Cardinality(U) - Cardinality({})
  BY <1>5, <1>8, <1>9, FS_Union
<1>12. Cardinality(X \cup U) <= Cardinality(Y)
  BY <1>5, <1>10, FS_Subset
<1>13. n * c \in Nat
  OBVIOUS
<1>14. n * c + Cardinality(X) <= Cardinality(Y)
  BY <1>5, <1>8, <1>11, <1>12, <1>13, FS_EmptySet
<1> QED
  BY <1>14 DEF Total, X, Y, S

-----------------------------------------------------------------------------
(* The sum of a function.                                                  *)

LEMMA SumNat ==
    ASSUME NEW D, IsFiniteSet(D), NEW f \in [D -> Nat]
    PROVE  SumOf(f) = Total(f, D) /\ SumOf(f) \in Nat
<1>1. SumOf(f) = Total(f, D)
  BY DEF SumOf, Total
<1> QED
  BY <1>1, TotalFinite

LEMMA SumOfNone ==
    ASSUME NEW f, DOMAIN f = {}
    PROVE  SumOf(f) = 0
BY TotalOfNone DEF SumOf, Total

\* One value is exchanged.
LEMMA SumReplaced ==
    ASSUME NEW D, IsFiniteSet(D), NEW f \in [D -> Nat], NEW g \in [D -> Nat], NEW x \in D,
           \A i \in D : i # x => g[i] = f[i]
    PROVE  /\ SumOf(g) = SumOf(f) - f[x] + g[x]
           /\ f[x] <= SumOf(f) /\ SumOf(f) \in Nat /\ SumOf(g) \in Nat
<1>1. Total(f, D \ {x}) = Total(g, D \ {x})
  BY TotalSame
<1>2. Total(f, D) = Total(f, D \ {x}) + f[x] /\ Total(f, D \ {x}) \in Nat
  BY TotalWithout
<1>3. Total(g, D) = Total(g, D \ {x}) + g[x]
  BY TotalWithout
<1>4. f[x] \in Nat /\ g[x] \in Nat
  OBVIOUS
<1>5. SumOf(f) = Total(f, D) /\ SumOf(g) = Total(g, D)
  BY SumNat
<1> QED
  BY <1>1, <1>2, <1>3, <1>4, <1>5

\* Nothing is added by zeros at the end.
LEMMA SumExtended ==
    ASSUME NEW n \in Nat, NEW m \in Nat, n <= m, NEW f \in [1 .. n -> Nat], NEW g \in [1 .. m -> Nat],
           \A i \in 1 .. n : g[i] = f[i], \A i \in 1 .. m : i > n => g[i] = 0
    PROVE  SumOf(g) = SumOf(f)
<1> DEFINE A == 1 .. n
           B == n + 1 .. m
<1>1. IsFiniteSet(A) /\ IsFiniteSet(B) /\ IsFiniteSet(1 .. m)
  BY FS_Interval
<1>2. A \cup B = 1 .. m /\ A \cap B = {}
  OBVIOUS
<1>3. Total(g, B) = 0
  <2>1. \A i \in B : g[i] = 0
    OBVIOUS
  <2> HIDE DEF B
  <2> QED
    BY <2>1, TotalOfZeros
<1>4. Total(g, A) = Total(f, A)
  BY TotalSame
<1>5. SumOf(f) = Total(f, A) /\ SumOf(f) \in Nat /\ SumOf(g) = Total(g, 1 .. m)
  BY <1>1, SumNat
<1>6. \A i \in A \cup B : g[i] \in Nat
  BY <1>2
<1> HIDE DEF A, B
<1>7. Total(g, A \cup B) = Total(g, A) + Total(g, B)
  BY <1>1, <1>2, <1>6, TotalOfTwo
<1>8. Total(g, 1 .. m) = Total(f, A) + 0
  BY <1>2, <1>3, <1>4, <1>7
<1> QED
  BY <1>5, <1>8

\* Two sequences, one after the other.
Joined(h, f, g, n, m) ==
    (\A i \in 1 .. n : h[i] = f[i]) /\ \A i \in 1 .. m : h[n + i] = g[i]

LEMMA SumJoined ==
    ASSUME NEW n \in Nat, NEW m \in Nat, NEW f \in [1 .. n -> Nat], NEW g \in [1 .. m -> Nat],
           NEW h \in [1 .. n + m -> Nat], Joined(h, f, g, n, m)
    PROVE  /\ SumOf(h) = SumOf(f) + SumOf(g)
           /\ SumOf(f) \in Nat /\ SumOf(g) \in Nat /\ SumOf(h) \in Nat
<1> DEFINE A == 1 .. n
           B == n + 1 .. n + m
           C == 1 .. m
           p == [i \in C |-> n + i]
<1>0. (\A i \in A : h[i] = f[i]) /\ \A i \in C : h[n + i] = g[i]
  BY DEF Joined
<1>1. IsFiniteSet(A) /\ IsFiniteSet(B) /\ IsFiniteSet(C) /\ IsFiniteSet(1 .. n + m)
  BY FS_Interval
<1>2. A \cup B = 1 .. n + m /\ A \cap B = {}
  OBVIOUS
<1>3. p \in [C -> B]
  OBVIOUS
<1>4. \A b \in B : \E a \in C : p[a] = b
  <2> TAKE b \in B
  <2>1. b - n \in C /\ p[b - n] = b
    OBVIOUS
  <2> QED
    BY <2>1
<1>5. \A a, b \in C : p[a] = p[b] => a = b
  OBVIOUS
<1>6. \A i \in C : g[i] \in Nat /\ h[p[i]] = g[i]
  BY <1>0
<1>7. \A i \in A \cup B : h[i] \in Nat
  BY <1>2
<1>8. Total(h, A) = Total(f, A)
  BY <1>0, TotalSame
<1>9. /\ SumOf(f) = Total(f, A) /\ SumOf(f) \in Nat /\ SumOf(g) = Total(g, C) /\ SumOf(g) \in Nat
      /\ SumOf(h) = Total(h, 1 .. n + m) /\ SumOf(h) \in Nat
  BY <1>1, SumNat
<1> HIDE DEF A, B, C, p
<1>10. p \in Bijection(C, B)
  BY <1>3, <1>4, <1>5 DEF Bijection, Injection, Surjection, IsInjective
<1>11. Total(g, C) = Total(h, B)
  <2>1. Carries(p, g, h, C)
    BY <1>6 DEF Carries
  <2> QED
    BY <1>1, <1>10, <2>1, TotalCarried
<1>12. Total(h, A \cup B) = Total(h, A) + Total(h, B)
  BY <1>1, <1>2, <1>7, TotalOfTwo
<1> QED
  BY <1>2, <1>8, <1>9, <1>11, <1>12

LEMMA SumAppended ==
    ASSUME NEW n \in Nat, NEW f \in [1 .. n -> Nat], NEW g \in [1 .. n + 1 -> Nat],
           \A i \in 1 .. n : g[i] = f[i]
    PROVE  SumOf(g) = SumOf(f) + g[n + 1] /\ SumOf(f) \in Nat /\ SumOf(g) \in Nat
<1> DEFINE A == 1 .. n
           D == 1 .. n + 1
           x == n + 1
<1>1. IsFiniteSet(A) /\ IsFiniteSet(D)
  BY FS_Interval
<1>2. x \in D /\ D \ {x} = A /\ \A i \in D : g[i] \in Nat
  OBVIOUS
<1>3. SumOf(f) = Total(f, A) /\ SumOf(f) \in Nat /\ SumOf(g) = Total(g, D) /\ SumOf(g) \in Nat
  BY <1>1, SumNat
<1>4. Total(g, A) = Total(f, A)
  BY TotalSame
<1> HIDE DEF A, D, x
<1>5. Total(g, D) = Total(g, D \ {x}) + g[x]
  BY <1>1, <1>2, TotalWithout
<1> QED
  BY <1>2, <1>3, <1>4, <1>5 DEF x

\* The value at x is taken out.
LEMMA SumRemoved ==
    ASSUME NEW n \in Nat, NEW f \in [1 .. n -> Nat], NEW x \in 1 .. n, NEW g \in [1 .. n - 1 -> Nat],
           \A i \in 1 .. n - 1 : g[i] = IF i < x THEN f[i] ELSE f[i + 1]
    PROVE  /\ SumOf(g) = SumOf(f) - f[x]
           /\ f[x] <= SumOf(f) /\ SumOf(f) \in Nat /\ SumOf(g) \in Nat
<1> DEFINE A == 1 .. n - 1
           B == (1 .. n) \ {x}
           p == [i \in A |-> IF i < x THEN i ELSE i + 1]
<1>1. IsFiniteSet(A) /\ IsFiniteSet(1 .. n)
  BY FS_Interval
<1>2. p \in [A -> B]
  OBVIOUS
<1>3. \A b \in B : \E a \in A : p[a] = b
  <2> TAKE b \in B
  <2>1. CASE b < x
    <3>1. b \in A /\ p[b] = b
      BY <2>1
    <3> QED
      BY <3>1
  <2>2. CASE ~(b < x)
    <3>1. b - 1 \in A /\ p[b - 1] = b
      BY <2>2
    <3> QED
      BY <3>1
  <2> QED
    BY <2>1, <2>2
<1>4. \A a, b \in A : p[a] = p[b] => a = b
  OBVIOUS
<1>5. \A i \in A : g[i] \in Nat /\ f[p[i]] = g[i]
  OBVIOUS
<1>6. SumOf(g) = Total(g, A) /\ SumOf(g) \in Nat
  BY <1>1, SumNat
<1>7. SumOf(f) = Total(f, 1 .. n) /\ SumOf(f) \in Nat /\ f[x] \in Nat
  BY <1>1, SumNat
<1>8. Total(f, 1 .. n) = Total(f, B) + f[x]
  BY <1>1, TotalWithout
<1> HIDE DEF A, B, p
<1>9. p \in Bijection(A, B)
  BY <1>2, <1>3, <1>4 DEF Bijection, Injection, Surjection, IsInjective
<1>10. Total(g, A) = Total(f, B)
  <2>1. Carries(p, g, f, A)
    BY <1>5 DEF Carries
  <2> QED
    BY <1>1, <1>9, <2>1, TotalCarried
<1> QED
  BY <1>6, <1>7, <1>8, <1>10

\* The values that are not zero, in any order.
Arranged(g, f, p, S, n) ==
    /\ S \subseteq 1 .. n /\ \A i \in 1 .. n : i \notin S => f[i] = 0
    /\ p \in [1 .. Cardinality(S) -> S] /\ Range(p) = S
    /\ \A i \in 1 .. Cardinality(S) : g[i] = f[p[i]]

LEMMA SumArranged ==
    ASSUME NEW n \in Nat, NEW f \in [1 .. n -> Nat], NEW S, NEW p,
           NEW g \in [1 .. Cardinality(S) -> Nat], Arranged(g, f, p, S, n)
    PROVE  SumOf(g) = SumOf(f) /\ SumOf(f) \in Nat
<1>0. /\ S \subseteq 1 .. n /\ \A i \in 1 .. n : i \notin S => f[i] = 0
      /\ p \in [1 .. Cardinality(S) -> S] /\ Range(p) = S
      /\ \A i \in 1 .. Cardinality(S) : g[i] = f[p[i]]
  BY DEF Arranged
<1> DEFINE A == 1 .. Cardinality(S)
           R == (1 .. n) \ S
<1>1. IsFiniteSet(1 .. n) /\ Cardinality(1 .. n) = n
  BY FS_Interval
<1>2. IsFiniteSet(S) /\ IsFiniteSet(R) /\ Cardinality(S) \in Nat /\ Cardinality(S) <= n
  <2>1. S \in SUBSET (1 .. n) /\ R \in SUBSET (1 .. n)
    BY <1>0
  <2> HIDE DEF R
  <2>2. IsFiniteSet(S) /\ IsFiniteSet(R) /\ Cardinality(S) <= Cardinality(1 .. n)
    BY <1>1, <2>1, FS_Subset
  <2> QED
    BY <1>1, <2>2, FS_CardinalityType
<1>3. IsFiniteSet(A) /\ Cardinality(A) = Cardinality(S)
  BY <1>2, FS_Interval
<1>4. p \in Surjection(A, S)
  BY <1>0 DEF Surjection, Range
<1>5. p \in Injection(A, S)
  <2> HIDE DEF A
  <2> QED
    BY <1>3, <1>4, FS_SurjSameCardinalityImpliesInj
<1>6. p \in Bijection(A, S)
  BY <1>4, <1>5 DEF Bijection
<1>7. Total(g, A) = Total(f, S)
  <2>1. \A i \in A : g[i] \in Nat /\ f[p[i]] = g[i]
    BY <1>0
  <2> HIDE DEF A
  <2> QED
    <3>1. Carries(p, g, f, A)
      BY <2>1 DEF Carries
    <3> QED
      BY <1>3, <1>6, <3>1, TotalCarried
<1>8. Total(f, R) = 0
  <2>1. \A i \in R : f[i] = 0
    BY <1>0
  <2> HIDE DEF R
  <2> QED
    BY <2>1, TotalOfZeros
<1>9. Total(f, S \cup R) = Total(f, S) + Total(f, R)
  <2>1. S \cap R = {} /\ \A i \in S \cup R : f[i] \in Nat
    BY <1>0
  <2> HIDE DEF R
  <2> QED
    BY <1>2, <2>1, TotalOfTwo
<1>10. S \cup R = 1 .. n
  BY <1>0
<1>11. /\ SumOf(g) = Total(g, A)
       /\ SumOf(f) = Total(f, 1 .. n) /\ SumOf(f) \in Nat
  BY <1>1, <1>3, SumNat
<1>12. Total(f, S) \in Nat
  BY <1>0, <1>2, TotalFinite
<1> QED
  <2>1. Total(f, 1 .. n) = Total(f, S) + 0
    BY <1>8, <1>9, <1>10
  <2> HIDE DEF A
  <2> QED
    BY <1>2, <1>7, <1>11, <1>12, <2>1

-----------------------------------------------------------------------------
(* The slots of Tables and Buffers, and what they are charged.             *)

Charge(v) == IF v = None THEN 0 ELSE v.bytes
Chargeable(seq) == \A i \in DOMAIN seq : Charge(seq[i]) \in Nat

LEMMA ChargesOf ==
    ASSUME NEW V, NEW seq \in Seq(V), Chargeable(seq)
    PROVE  /\ DOMAIN seq = 1 .. Len(seq) /\ Len(seq) \in Nat
           /\ [i \in DOMAIN seq |-> Charge(seq[i])] \in [1 .. Len(seq) -> Nat]
           /\ ChargedTo(seq) = SumOf([i \in DOMAIN seq |-> Charge(seq[i])])
           /\ ChargedTo(seq) \in Nat
<1>1. DOMAIN seq = 1 .. Len(seq) /\ Len(seq) \in Nat
  OBVIOUS
<1>2. \A i \in DOMAIN seq : Charge(seq[i]) \in Nat
  BY DEF Chargeable, Charge
<1>3. ChargedTo(seq) = SumOf([i \in DOMAIN seq |-> Charge(seq[i])])
  BY DEF ChargedTo, Charge
<1>4. IsFiniteSet(1 .. Len(seq))
  BY <1>1, FS_Interval
<1> DEFINE f == [i \in DOMAIN seq |-> Charge(seq[i])]
<1>5. f \in [1 .. Len(seq) -> Nat]
  BY <1>1, <1>2
<1> HIDE DEF f
<1>6. SumOf(f) \in Nat
  BY <1>4, <1>5, SumNat
<1> QED
  BY <1>1, <1>3, <1>5, <1>6 DEF f

\* seq with v at h.
Placed(new, seq, h, v) ==
    Len(new) = Len(seq) /\ new[h] = v /\ \A i \in 1 .. Len(seq) : i # h => new[i] = seq[i]

LEMMA ExceptPlaces ==
    ASSUME NEW V, NEW seq \in Seq(V), NEW h \in DOMAIN seq, NEW v \in V
    PROVE  [seq EXCEPT ![h] = v] \in Seq(V) /\ Placed([seq EXCEPT ![h] = v], seq, h, v)
BY DEF Placed

\* A slot holds something else.
LEMMA SlotReplaced ==
    ASSUME NEW V, NEW seq \in Seq(V), Chargeable(seq), NEW h \in DOMAIN seq,
           NEW v, Charge(v) \in Nat, NEW new \in Seq(V), Placed(new, seq, h, v)
    PROVE  /\ Chargeable(new)
           /\ ChargedTo(new) = ChargedTo(seq) - Charge(seq[h]) + Charge(v)
           /\ ChargedTo(seq) \in Nat /\ Charge(seq[h]) \in 0 .. ChargedTo(seq)
<1> DEFINE f == [i \in DOMAIN seq |-> Charge(seq[i])]
           g == [i \in DOMAIN new |-> Charge(new[i])]
           D == 1 .. Len(seq)
<1>1. /\ DOMAIN new = DOMAIN seq /\ DOMAIN seq = D /\ Len(new) = Len(seq)
      /\ new[h] = v /\ \A i \in DOMAIN seq : i # h => new[i] = seq[i]
  BY DEF Placed
<1>2. Chargeable(new)
  BY <1>1 DEF Chargeable
<1>3. f \in [D -> Nat] /\ ChargedTo(seq) = SumOf(f) /\ Len(seq) \in Nat
  BY ChargesOf
<1>4. g \in [D -> Nat] /\ ChargedTo(new) = SumOf(g)
  BY <1>1, <1>2, ChargesOf
<1>5. IsFiniteSet(D) /\ h \in D
  <2>1. IsFiniteSet(1 .. Len(seq))
    BY <1>3, FS_Interval
  <2> QED
    BY <1>1, <2>1
<1>6. f[h] = Charge(seq[h]) /\ g[h] = Charge(v) /\ \A i \in D : i # h => g[i] = f[i]
  BY <1>1
<1> HIDE DEF f, g, D
<1>7. SumOf(g) = SumOf(f) - f[h] + g[h] /\ f[h] <= SumOf(f) /\ SumOf(f) \in Nat
  BY <1>3, <1>4, <1>5, <1>6, SumReplaced
<1>8. f[h] \in Nat /\ g[h] \in Nat
  BY <1>3, <1>4, <1>5
<1> QED
  BY <1>1, <1>2, <1>3, <1>4, <1>6, <1>7, <1>8

LEMMA FreeSlot ==
    ASSUME NEW V, NEW seq \in Seq(V)
    PROVE  /\ FirstFree(seq) \in 1 .. Len(seq) + 1
           /\ FirstFree(seq) <= Len(seq) => seq[FirstFree(seq)] = None
           /\ FirstFree(seq) > Len(seq) => \A i \in DOMAIN seq : seq[i] # None
<1> DEFINE free == {i \in DOMAIN seq : seq[i] = None}
<1>1. DOMAIN seq = 1 .. Len(seq) /\ Len(seq) \in Nat /\ free \subseteq Nat
  OBVIOUS
<1>2. FirstFree(seq) = IF free = {} THEN Len(seq) + 1 ELSE Min(free)
  BY DEF FirstFree
<1>3. CASE free = {}
  BY <1>1, <1>2, <1>3
<1>4. CASE free # {}
  <2>1. Min(free) \in free
    <3> HIDE DEF free
    <3> QED
      BY <1>1, <1>4, MinOfNats
  <2> QED
    BY <1>1, <1>2, <1>4, <2>1
<1> QED
  BY <1>3, <1>4

\* Something new takes the first free slot, or a new one.
LEMMA SlotTaken ==
    ASSUME NEW V, NEW seq \in Seq(V), Chargeable(seq), NEW v \in V, Charge(v) \in Nat
    PROVE  /\ InSlot(seq, v) \in Seq(V) /\ Chargeable(InSlot(seq, v))
           /\ ChargedTo(InSlot(seq, v)) = ChargedTo(seq) + Charge(v)
           /\ ChargedTo(seq) \in Nat
<1> DEFINE k == FirstFree(seq)
           f == [i \in DOMAIN seq |-> Charge(seq[i])]
           n == Len(seq)
<1>1. k \in 1 .. n + 1 /\ n \in Nat /\ DOMAIN seq = 1 .. n /\ (k <= n => seq[k] = None)
  BY FreeSlot
<1>2. InSlot(seq, v) = IF k > n THEN Append(seq, v) ELSE [seq EXCEPT ![k] = v]
  BY DEF InSlot
<1> HIDE DEF k
<1>4. CASE k <= n
  <2>0. k \in DOMAIN seq /\ seq[k] = None /\ ~(k > n)
    BY <1>1, <1>4
  <2>1. k \in DOMAIN seq /\ Charge(seq[k]) = 0 /\ InSlot(seq, v) = [seq EXCEPT ![k] = v]
    <3>1. Charge(seq[k]) = 0
      BY <2>0 DEF Charge
    <3>2. InSlot(seq, v) = [seq EXCEPT ![k] = v]
      BY <1>2, <2>0, Zenon
    <3> QED
      BY <2>0, <3>1, <3>2
  <2> DEFINE new == [seq EXCEPT ![k] = v]
  <2>2. new \in Seq(V) /\ Placed(new, seq, k, v)
    BY <2>1, ExceptPlaces
  <2> HIDE DEF n, new
  <2>3. /\ Chargeable(new)
        /\ ChargedTo(new) = ChargedTo(seq) - Charge(seq[k]) + Charge(v)
        /\ ChargedTo(seq) \in Nat
    BY <2>1, <2>2, SlotReplaced
  <2> QED
    BY <2>1, <2>2, <2>3 DEF new
<1>5. CASE k > n
  <2> DEFINE new == Append(seq, v)
             g == [i \in DOMAIN new |-> Charge(new[i])]
  <2>1. /\ new \in Seq(V) /\ DOMAIN new = 1 .. n + 1 /\ Len(new) = n + 1
        /\ \A i \in 1 .. n : new[i] = seq[i]
        /\ new[n + 1] = v
    BY <1>1
  <2> HIDE DEF new
  <2>2. Chargeable(new)
    BY <1>1, <2>1 DEF Chargeable
  <2>3. f \in [1 .. n -> Nat] /\ ChargedTo(seq) = SumOf(f)
    BY ChargesOf
  <2>4. g \in [1 .. n + 1 -> Nat] /\ ChargedTo(new) = SumOf(g)
    BY <2>1, <2>2, ChargesOf
  <2>5. g[n + 1] = Charge(v) /\ \A i \in 1 .. n : g[i] = f[i]
    BY <1>1, <2>1
  <2> HIDE DEF f, g, n
  <2>6. SumOf(g) = SumOf(f) + g[n + 1] /\ SumOf(f) \in Nat
    BY <1>1, <2>3, <2>4, <2>5, SumAppended
  <2> QED
    BY <1>1, <1>2, <1>5, <2>1, <2>2, <2>3, <2>4, <2>5, <2>6 DEF new
<1> QED
  BY <1>1, <1>4, <1>5

-----------------------------------------------------------------------------
(* Entries, buckets and tables.                                            *)

Entry == [key : Keys \ {<< >>}, ty : Types \cup {StringType, DefaultType}, val : Texts]

TableValues ==
    {t \in [ty : Types \cup {StringType, DefaultType}, buckets : Seq(Seq(Entry)), bytes : Nat] :
        Len(t.buckets) > 0}

\* A table that is charged what it holds.
Balanced(t) == t \in TableValues /\ t.bytes = TableCost(t)

LEMMA TableShape ==
    ASSUME NEW t \in TableValues
    PROVE  /\ t # None /\ t.bytes \in Nat /\ Charge(t) = t.bytes
           /\ t.ty \in Types \cup {StringType, DefaultType}
           /\ t.buckets \in Seq(Seq(Entry))
           /\ Len(t.buckets) \in Nat /\ Len(t.buckets) > 0
<1>1. /\ t \in [ty : Types \cup {StringType, DefaultType}, buckets : Seq(Seq(Entry)), bytes : Nat]
      /\ Len(t.buckets) > 0
  BY DEF TableValues
<1>2. "bytes" \in DOMAIN t /\ ~("bytes" \in DOMAIN None)
  BY <1>1 DEF None
<1>3. t # None
  BY <1>2
<1> QED
  BY <1>1, <1>3 DEF Charge

LEMMA EntryCosts ==
    ASSUME NEW e \in Entry
    PROVE  EntryCost(e) \in Nat
<1>1. e.key \in Seq(Nat) /\ e.val \in Seq(Nat)
  BY ContainersAssumption DEF Entry
<1>2. Len(e.key) \in Nat /\ Len(e.val) \in Nat /\ EntryBytes \in Nat
  BY <1>1, ContainersAssumption
<1>3. EntryCost(e) = EntryBytes + Len(e.key) + (IF e.ty = StringType THEN Len(e.val) ELSE 0)
  BY DEF EntryCost
<1>4. PICK v \in Nat : v = (IF e.ty = StringType THEN Len(e.val) ELSE 0)
  BY <1>2
<1>5. EntryCost(e) = EntryBytes + Len(e.key) + v
  BY <1>3, <1>4, Zenon
<1> QED
  BY <1>2, <1>5

LEMMA BucketCosts ==
    ASSUME NEW c \in Seq(Entry)
    PROVE  /\ DOMAIN c = 1 .. Len(c) /\ Len(c) \in Nat /\ IsFiniteSet(DOMAIN c)
           /\ [i \in DOMAIN c |-> EntryCost(c[i])] \in [1 .. Len(c) -> Nat]
           /\ BucketCost(c) = SumOf([i \in DOMAIN c |-> EntryCost(c[i])])
           /\ BucketCost(c) \in Nat
<1> DEFINE f == [i \in DOMAIN c |-> EntryCost(c[i])]
<1>1. DOMAIN c = 1 .. Len(c) /\ Len(c) \in Nat /\ \A i \in DOMAIN c : c[i] \in Entry
  OBVIOUS
<1>2. \A i \in DOMAIN c : EntryCost(c[i]) \in Nat
  BY <1>1, EntryCosts
<1>3. IsFiniteSet(1 .. Len(c))
  BY <1>1, FS_Interval
<1>4. f \in [1 .. Len(c) -> Nat] /\ BucketCost(c) = SumOf(f)
  BY <1>1, <1>2 DEF BucketCost
<1> HIDE DEF f
<1>5. SumOf(f) \in Nat
  BY <1>3, <1>4, SumNat
<1> QED
  BY <1>1, <1>3, <1>4, <1>5 DEF f

LEMMA BucketGrows ==
    ASSUME NEW c \in Seq(Entry), NEW e \in Entry
    PROVE  /\ Append(c, e) \in Seq(Entry)
           /\ BucketCost(Append(c, e)) = BucketCost(c) + EntryCost(e)
<1> DEFINE d == Append(c, e)
           f == [i \in DOMAIN c |-> EntryCost(c[i])]
           g == [i \in DOMAIN d |-> EntryCost(d[i])]
           n == Len(c)
<1>1. /\ d \in Seq(Entry) /\ Len(d) = n + 1 /\ d[n + 1] = e
      /\ \A i \in 1 .. n : d[i] = c[i]
  OBVIOUS
<1> HIDE DEF d
<1>2. n \in Nat /\ DOMAIN c = 1 .. n /\ f \in [1 .. n -> Nat] /\ BucketCost(c) = SumOf(f)
  BY BucketCosts
<1>3. DOMAIN d = 1 .. n + 1 /\ g \in [1 .. n + 1 -> Nat] /\ BucketCost(d) = SumOf(g)
  BY <1>1, BucketCosts
<1>4. g[n + 1] = EntryCost(e) /\ \A i \in 1 .. n : g[i] = f[i]
  BY <1>1, <1>2, <1>3
<1> HIDE DEF f, g, n
<1>5. SumOf(g) = SumOf(f) + g[n + 1]
  BY <1>2, <1>3, <1>4, SumAppended
<1> QED
  BY <1>1, <1>2, <1>3, <1>4, <1>5 DEF d

\* What is left when an element is removed.
LEMMA RemoveAtFacts ==
    ASSUME NEW S, NEW s \in Seq(S), NEW i \in DOMAIN s
    PROVE  /\ RemoveAt(s, i) \in Seq(S) /\ Len(RemoveAt(s, i)) = Len(s) - 1
           /\ \A j \in 1 .. Len(s) - 1 : RemoveAt(s, i)[j] = IF j < i THEN s[j] ELSE s[j + 1]
<1>1. DOMAIN s = 1 .. Len(s) /\ Len(s) \in Nat /\ \A j \in 1 .. Len(s) : s[j] \in S
  OBVIOUS
<1> DEFINE a == SubSeq(s, 1, i - 1)
           b == SubSeq(s, i + 1, Len(s))
<1>2. a \in Seq(S) /\ Len(a) = i - 1 /\ \A j \in 1 .. i - 1 : a[j] = s[j]
  BY <1>1, SubSeqProperties
<1>3. b \in Seq(S) /\ Len(b) = Len(s) - i /\ \A j \in 1 .. Len(s) - i : b[j] = s[i + j]
  BY <1>1, SubSeqProperties
<1>4. RemoveAt(s, i) = a \o b
  BY DEF RemoveAt
<1> HIDE DEF a, b
<1>5. /\ a \o b \in Seq(S) /\ Len(a \o b) = Len(a) + Len(b)
      /\ \A j \in 1 .. Len(a) + Len(b) : (a \o b)[j] = IF j <= Len(a) THEN a[j] ELSE b[j - Len(a)]
  BY <1>2, <1>3, ConcatProperties
<1>6. ASSUME NEW j \in 1 .. Len(s) - 1
      PROVE  (a \o b)[j] = IF j < i THEN s[j] ELSE s[j + 1]
  <2>1. j \in 1 .. Len(a) + Len(b)
    BY <1>1, <1>2, <1>3
  <2>2. CASE j < i
    BY <1>1, <1>2, <1>5, <2>1, <2>2
  <2>3. CASE ~(j < i)
    <3>1. (a \o b)[j] = b[j - (i - 1)]
      BY <1>1, <1>2, <1>5, <2>1, <2>3
    <3>2. j - (i - 1) \in 1 .. Len(s) - i
      BY <1>1, <2>3
    <3>3. b[j - (i - 1)] = s[i + (j - (i - 1))]
      BY <1>3, <3>2
    <3>4. i + (j - (i - 1)) = j + 1
      BY <1>1
    <3> QED
      BY <2>3, <3>1, <3>3, <3>4
  <2> QED
    BY <2>2, <2>3
<1> QED
  BY <1>1, <1>2, <1>3, <1>4, <1>5, <1>6

LEMMA BucketShrinks ==
    ASSUME NEW c \in Seq(Entry), NEW i \in DOMAIN c
    PROVE  /\ RemoveAt(c, i) \in Seq(Entry)
           /\ BucketCost(RemoveAt(c, i)) = BucketCost(c) - EntryCost(c[i])
           /\ EntryCost(c[i]) \in 0 .. BucketCost(c)
<1> DEFINE d == RemoveAt(c, i)
           f == [j \in DOMAIN c |-> EntryCost(c[j])]
           g == [j \in DOMAIN d |-> EntryCost(d[j])]
           n == Len(c)
<1>1. /\ d \in Seq(Entry) /\ Len(d) = n - 1
      /\ \A j \in 1 .. n - 1 : d[j] = IF j < i THEN c[j] ELSE c[j + 1]
  BY RemoveAtFacts
<1> HIDE DEF d
<1>2. n \in Nat /\ DOMAIN c = 1 .. n /\ f \in [1 .. n -> Nat] /\ BucketCost(c) = SumOf(f)
  BY BucketCosts
<1>3. DOMAIN d = 1 .. n - 1 /\ g \in [1 .. n - 1 -> Nat] /\ BucketCost(d) = SumOf(g)
  BY <1>1, BucketCosts
<1>4. f[i] = EntryCost(c[i]) /\ i \in 1 .. n /\ f[i] \in Nat
  BY <1>2
<1>5. \A j \in 1 .. n - 1 : g[j] = IF j < i THEN f[j] ELSE f[j + 1]
  <2> TAKE j \in 1 .. n - 1
  <2>1. g[j] = EntryCost(d[j]) /\ j \in 1 .. n /\ j + 1 \in 1 .. n
    BY <1>2, <1>3
  <2>2. f[j] = EntryCost(c[j]) /\ f[j + 1] = EntryCost(c[j + 1])
    BY <1>2, <2>1
  <2> QED
    BY <1>1, <2>1, <2>2
<1> HIDE DEF f, g, n
<1>6. SumOf(g) = SumOf(f) - f[i] /\ f[i] <= SumOf(f) /\ SumOf(f) \in Nat
  BY <1>2, <1>3, <1>4, <1>5, SumRemoved
<1> QED
  BY <1>1, <1>2, <1>3, <1>4, <1>6 DEF d

LEMMA TableCosts ==
    ASSUME NEW t \in TableValues
    PROVE  /\ DOMAIN t.buckets = 1 .. Len(t.buckets) /\ IsFiniteSet(1 .. Len(t.buckets))
           /\ [b \in DOMAIN t.buckets |-> BucketCost(t.buckets[b])] \in [1 .. Len(t.buckets) -> Nat]
           /\ EntriesCost(t) = SumOf([b \in DOMAIN t.buckets |-> BucketCost(t.buckets[b])])
           /\ EntriesCost(t) \in Nat /\ Len(t.buckets) * BucketBytes \in Nat
<1> DEFINE f == [b \in DOMAIN t.buckets |-> BucketCost(t.buckets[b])]
<1>1. /\ t.buckets \in Seq(Seq(Entry)) /\ Len(t.buckets) \in Nat
      /\ DOMAIN t.buckets = 1 .. Len(t.buckets)
      /\ \A b \in DOMAIN t.buckets : t.buckets[b] \in Seq(Entry)
  BY TableShape
<1>2. \A b \in DOMAIN t.buckets : BucketCost(t.buckets[b]) \in Nat
  BY <1>1, BucketCosts
<1>3. f \in [1 .. Len(t.buckets) -> Nat] /\ EntriesCost(t) = SumOf(f)
  BY <1>1, <1>2 DEF EntriesCost
<1>4. IsFiniteSet(1 .. Len(t.buckets))
  BY <1>1, FS_Interval
<1>5. Len(t.buckets) * BucketBytes \in Nat
  BY <1>1, ContainersAssumption
<1> HIDE DEF f
<1>6. SumOf(f) \in Nat
  BY <1>3, <1>4, SumNat
<1> QED
  BY <1>1, <1>3, <1>4, <1>5, <1>6 DEF f

\* One bucket of a table is another.
LEMMA BucketReplaced ==
    ASSUME NEW t \in TableValues, NEW u \in TableValues, NEW b \in DOMAIN t.buckets, NEW c \in Seq(Entry),
           Placed(u.buckets, t.buckets, b, c)
    PROVE  /\ EntriesCost(u) = EntriesCost(t) - BucketCost(t.buckets[b]) + BucketCost(c)
           /\ BucketCost(t.buckets[b]) \in 0 .. EntriesCost(t) /\ EntriesCost(t) \in Nat
           /\ BucketCost(c) \in Nat
<1> DEFINE f == [i \in DOMAIN t.buckets |-> BucketCost(t.buckets[i])]
           g == [i \in DOMAIN u.buckets |-> BucketCost(u.buckets[i])]
           D == 1 .. Len(t.buckets)
<1>1. /\ f \in [D -> Nat] /\ EntriesCost(t) = SumOf(f) /\ IsFiniteSet(D) /\ DOMAIN t.buckets = D
      /\ b \in D
  BY TableCosts
<1>2. /\ Len(u.buckets) = Len(t.buckets) /\ u.buckets[b] = c
      /\ \A i \in D : i # b => u.buckets[i] = t.buckets[i]
  BY DEF Placed
<1>3. g \in [D -> Nat] /\ EntriesCost(u) = SumOf(g) /\ DOMAIN u.buckets = D
  BY <1>2, TableCosts
<1>4. f[b] = BucketCost(t.buckets[b]) /\ g[b] = BucketCost(c) /\ \A i \in D : i # b => g[i] = f[i]
  BY <1>1, <1>2, <1>3
<1> HIDE DEF f, g, D
<1>5. SumOf(g) = SumOf(f) - f[b] + g[b] /\ f[b] <= SumOf(f) /\ SumOf(f) \in Nat
  <2>1. f \in [D -> Nat] /\ g \in [D -> Nat] /\ IsFiniteSet(D) /\ b \in D
    BY <1>1, <1>3
  <2>2. \A i \in D : i # b => g[i] = f[i]
    BY <1>4
  <2> QED
    BY ONLY <2>1, <2>2, SumReplaced
<1>6. f[b] \in Nat /\ g[b] \in Nat
  BY <1>1, <1>3
<1> QED
  BY <1>1, <1>3, <1>4, <1>5, <1>6

LEMMA BucketFound ==
    ASSUME NEW t \in TableValues, NEW key \in Keys
    PROVE  /\ BucketOf(t, key) \in DOMAIN t.buckets
           /\ t.buckets[BucketOf(t, key)] \in Seq(Entry)
           /\ Matches(t, key) \subseteq DOMAIN t.buckets[BucketOf(t, key)]
<1>1. /\ t.buckets \in Seq(Seq(Entry)) /\ Len(t.buckets) \in Nat \ {0}
      /\ DOMAIN t.buckets = 1 .. Len(t.buckets)
  BY TableShape
<1>2. HashOf[key] \in Nat
  BY ContainersAssumption
<1>3. PICK n \in Nat \ {0} : n = Len(t.buckets)
  BY <1>1
<1>4. PICK h \in Nat : h = HashOf[key]
  BY <1>2
<1>5. h % n \in 0 .. n - 1
  OBVIOUS
<1>6. BucketOf(t, key) \in 1 .. Len(t.buckets)
  BY <1>3, <1>4, <1>5 DEF BucketOf
<1> QED
  BY <1>1, <1>6 DEF Matches

\* A table with another bucket, charged the difference.
LEMMA TableChanged ==
    ASSUME NEW t, Balanced(t), NEW b \in DOMAIN t.buckets, NEW c \in Seq(Entry),
           NEW buckets \in Seq(Seq(Entry)), Placed(buckets, t.buckets, b, c), NEW bytes,
           bytes = t.bytes - BucketCost(t.buckets[b]) + BucketCost(c),
           NEW u, u = [ty |-> t.ty, buckets |-> buckets, bytes |-> bytes]
    PROVE  /\ Balanced(u)
           /\ EntriesCost(u) = EntriesCost(t) - BucketCost(t.buckets[b]) + BucketCost(c)
           /\ BucketCost(t.buckets[b]) \in 0 .. EntriesCost(t) /\ EntriesCost(t) \in Nat
           /\ BucketCost(c) \in Nat
<1>1. /\ t \in TableValues /\ t.bytes = Len(t.buckets) * BucketBytes + EntriesCost(t)
      /\ Len(t.buckets) * BucketBytes \in Nat /\ EntriesCost(t) \in Nat
  BY TableCosts DEF Balanced, TableCost
<1>2. t.ty \in Types \cup {StringType, DefaultType} /\ Len(t.buckets) > 0
  BY <1>1, TableShape
<1>3. Len(buckets) = Len(t.buckets)
  BY DEF Placed
<1>4. b \in 1 .. Len(t.buckets) /\ BucketCost(t.buckets[b]) \in Nat /\ BucketCost(c) \in Nat
  <2>1. t.buckets \in Seq(Seq(Entry))
    BY <1>1, TableShape
  <2>2. t.buckets[b] \in Seq(Entry) /\ b \in 1 .. Len(t.buckets)
    BY <2>1
  <2> QED
    BY <2>2, BucketCosts
<1>5. BucketCost(t.buckets[b]) <= EntriesCost(t)
  <2> DEFINE f == [i \in DOMAIN t.buckets |-> BucketCost(t.buckets[i])]
             D == 1 .. Len(t.buckets)
  <2>1. f \in [D -> Nat] /\ EntriesCost(t) = SumOf(f) /\ IsFiniteSet(D) /\ DOMAIN t.buckets = D
    BY <1>1, TableCosts
  <2>2. f[b] = BucketCost(t.buckets[b]) /\ b \in D
    BY <2>1
  <2> HIDE DEF f, D
  <2>3. f[b] <= SumOf(f)
    <3>1. \A i \in D : i # b => f[i] = f[i]
      OBVIOUS
    <3> QED
      BY <2>1, <2>2, <3>1, SumReplaced
  <2> QED
    BY <2>1, <2>2, <2>3
<1>6. bytes \in Nat
  BY <1>1, <1>4, <1>5
<1>7. u \in TableValues /\ u.buckets = buckets /\ u.bytes = bytes
  BY <1>2, <1>3, <1>6 DEF TableValues
<1>8. /\ EntriesCost(u) = EntriesCost(t) - BucketCost(t.buckets[b]) + BucketCost(c)
      /\ BucketCost(t.buckets[b]) \in 0 .. EntriesCost(t)
  BY <1>1, <1>7, BucketReplaced
<1>9. u.bytes = Len(u.buckets) * BucketBytes + EntriesCost(u)
  BY <1>1, <1>3, <1>4, <1>7, <1>8
<1> QED
  BY <1>1, <1>4, <1>7, <1>8, <1>9 DEF Balanced, TableCost

\* A table with other buckets and bytes, field by field.
LEMMA FieldsChanged ==
    ASSUME NEW T, NEW S, NEW t \in [ty : T, buckets : S, bytes : Int], NEW B \in S, NEW n \in Int
    PROVE  [t EXCEPT !.buckets = B, !.bytes = n] = [ty |-> t.ty, buckets |-> B, bytes |-> n]
<1>1. [t EXCEPT !.buckets = B, !.bytes = n] \in [ty : T, buckets : S, bytes : Int]
  OBVIOUS
<1>2. \A u, w \in [ty : T, buckets : S, bytes : Int] :
        u.ty = w.ty /\ u.buckets = w.buckets /\ u.bytes = w.bytes => u = w
  OBVIOUS
<1>3. [ty |-> t.ty, buckets |-> B, bytes |-> n] \in [ty : T, buckets : S, bytes : Int]
  OBVIOUS
<1> QED
  BY <1>1, <1>2, <1>3

\* The table hash_add leaves, once it has taken out what it replaces.
Pushed(t, b, e) == [t EXCEPT !.buckets[b] = Append(@, e), !.bytes = @ + EntryCost(e)]

LEMMA PushFacts ==
    ASSUME NEW t, Balanced(t), NEW b \in DOMAIN t.buckets, NEW e \in Entry
    PROVE  /\ Balanced(Pushed(t, b, e)) /\ EntriesCost(t) \in Nat
           /\ EntriesCost(Pushed(t, b, e)) = EntriesCost(t) + EntryCost(e)
           /\ Placed(Pushed(t, b, e).buckets, t.buckets, b, Append(t.buckets[b], e))
<1> DEFINE u == Pushed(t, b, e)
           c == Append(t.buckets[b], e)
           buckets == [t.buckets EXCEPT ![b] = c]
           bytes == t.bytes + EntryCost(e)
<1>1. /\ t \in [ty : Types \cup {StringType, DefaultType}, buckets : Seq(Seq(Entry)), bytes : Nat]
      /\ t.buckets \in Seq(Seq(Entry)) /\ t.bytes \in Nat
  BY DEF Balanced, TableValues
<1>2. t.buckets[b] \in Seq(Entry)
  BY <1>1
<1>3. c \in Seq(Entry) /\ BucketCost(c) = BucketCost(t.buckets[b]) + EntryCost(e)
  BY <1>2, BucketGrows
<1>4. buckets \in Seq(Seq(Entry)) /\ Placed(buckets, t.buckets, b, c)
  BY <1>1, <1>3, ExceptPlaces
<1>5. BucketCost(t.buckets[b]) \in Nat /\ EntryCost(e) \in Nat
  BY <1>2, BucketCosts, EntryCosts
<1>6. u = [ty |-> t.ty, buckets |-> buckets, bytes |-> bytes]
  <2>1. u = [t EXCEPT !.buckets = buckets, !.bytes = bytes]
    BY DEF Pushed
  <2>2. bytes \in Int /\ t \in [ty : Types \cup {StringType, DefaultType}, buckets : Seq(Seq(Entry)), bytes : Int]
    BY <1>1, <1>3, <1>5
  <2> HIDE DEF u, buckets, bytes
  <2> QED
    BY <1>4, <2>1, <2>2, FieldsChanged
<1>7. u.buckets = buckets
  BY <1>6
<1> HIDE DEF u, c, buckets
<1>8. bytes = t.bytes - BucketCost(t.buckets[b]) + BucketCost(c)
  BY <1>1, <1>3, <1>5
<1> HIDE DEF bytes
<1>9. /\ Balanced(u) /\ EntriesCost(t) \in Nat
      /\ EntriesCost(u) = EntriesCost(t) - BucketCost(t.buckets[b]) + BucketCost(c)
  BY <1>6, <1>3, <1>4, <1>8, TableChanged
<1>10. EntriesCost(u) = EntriesCost(t) + EntryCost(e)
  BY <1>3, <1>5, <1>9
<1> QED
  BY <1>4, <1>7, <1>9, <1>10 DEF u, c

LEMMA WithoutFacts ==
    ASSUME NEW t, Balanced(t), NEW b \in DOMAIN t.buckets, NEW i \in DOMAIN t.buckets[b]
    PROVE  /\ Balanced(Without(t, b, i)) /\ EntriesCost(t) \in Nat
           /\ EntriesCost(Without(t, b, i)) = EntriesCost(t) - EntryCost(t.buckets[b][i])
           /\ EntryCost(t.buckets[b][i]) \in 0 .. EntriesCost(t)
           /\ Placed(Without(t, b, i).buckets, t.buckets, b, RemoveAt(t.buckets[b], i))
           /\ Without(t, b, i).ty = t.ty
<1> DEFINE u == Without(t, b, i)
           c == RemoveAt(t.buckets[b], i)
           cost == EntryCost(t.buckets[b][i])
           buckets == [t.buckets EXCEPT ![b] = c]
           bytes == t.bytes - cost
<1>1. /\ t \in [ty : Types \cup {StringType, DefaultType}, buckets : Seq(Seq(Entry)), bytes : Nat]
      /\ t.buckets \in Seq(Seq(Entry)) /\ t.bytes \in Nat
  BY DEF Balanced, TableValues
<1>2. t.buckets[b] \in Seq(Entry)
  BY <1>1
<1>3. c \in Seq(Entry) /\ BucketCost(c) = BucketCost(t.buckets[b]) - cost /\ cost \in 0 .. BucketCost(t.buckets[b])
  BY <1>2, BucketShrinks
<1>4. buckets \in Seq(Seq(Entry)) /\ Placed(buckets, t.buckets, b, c)
  BY <1>1, <1>3, ExceptPlaces
<1>5. BucketCost(t.buckets[b]) \in Nat
  BY <1>2, BucketCosts
<1>6. u = [ty |-> t.ty, buckets |-> buckets, bytes |-> bytes]
  <2>1. u = [t EXCEPT !.buckets = buckets, !.bytes = bytes]
    BY DEF Without
  <2>2. bytes \in Int /\ t \in [ty : Types \cup {StringType, DefaultType}, buckets : Seq(Seq(Entry)), bytes : Int]
    BY <1>1, <1>3, <1>5
  <2> HIDE DEF u, buckets, bytes
  <2> QED
    BY <1>4, <2>1, <2>2, FieldsChanged
<1>7. u.buckets = buckets /\ u.ty = t.ty
  BY <1>6
<1> HIDE DEF u, c, buckets, cost
<1>8. bytes = t.bytes - BucketCost(t.buckets[b]) + BucketCost(c)
  BY <1>1, <1>3, <1>5
<1> HIDE DEF bytes
<1>9. /\ Balanced(u) /\ EntriesCost(t) \in Nat
      /\ EntriesCost(u) = EntriesCost(t) - BucketCost(t.buckets[b]) + BucketCost(c)
      /\ BucketCost(t.buckets[b]) \in 0 .. EntriesCost(t)
  BY <1>6, <1>3, <1>4, <1>8, TableChanged
<1>10. EntriesCost(u) = EntriesCost(t) - cost /\ cost \in 0 .. EntriesCost(t)
  BY <1>3, <1>5, <1>9
<1> QED
  BY <1>4, <1>7, <1>9, <1>10 DEF u, c, cost

LEMMA NewTableFacts ==
    ASSUME NEW n \in Nat \ {0}, NEW ty \in Types \cup {StringType, DefaultType}
    PROVE  /\ Balanced(NewTable(n, ty)) /\ EntriesCost(NewTable(n, ty)) = 0
           /\ \A key \in Keys : Matches(NewTable(n, ty), key) = {}
<1> DEFINE t == NewTable(n, ty)
<1>1. << >> \in Seq(Entry)
  OBVIOUS
<1>6. n * BucketBytes \in Nat
  BY ContainersAssumption
<1>2. /\ t.buckets = [b \in 1 .. n |-> << >>] /\ t.bytes = n * BucketBytes
      /\ DOMAIN t.buckets = 1 .. n /\ \A b \in 1 .. n : t.buckets[b] = << >>
  BY DEF NewTable
<1>3. t.buckets \in [1 .. n -> Seq(Entry)]
  BY <1>1, <1>2
<1>4. t.buckets \in Seq(Seq(Entry)) /\ Len(t.buckets) = n
  <2>1. \A B \in [1 .. n -> Seq(Entry)] : B \in Seq(Seq(Entry)) /\ Len(B) = n
    OBVIOUS
  <2> QED
    BY <1>3, <2>1, Zenon
<1>5. t \in TableValues
  <2>1. t = [ty |-> ty, buckets |-> t.buckets, bytes |-> n * BucketBytes]
    BY DEF NewTable
  <2> HIDE DEF t
  <2> QED
    BY <1>6, <1>4, <2>1 DEF TableValues
<1> HIDE DEF t
<1>7. EntriesCost(t) = 0
  <2> DEFINE f == [b \in DOMAIN t.buckets |-> BucketCost(t.buckets[b])]
  <2>1. BucketCost(<< >>) = 0
    <3>1. BucketCost(<< >>) = SumOf([i \in DOMAIN << >> |-> EntryCost(<< >>[i])])
      BY DEF BucketCost
    <3>2. DOMAIN [i \in DOMAIN << >> |-> EntryCost(<< >>[i])] = {}
      OBVIOUS
    <3> QED
      BY <3>1, <3>2, SumOfNone
  <2>2. f \in [1 .. n -> Nat] /\ EntriesCost(t) = SumOf(f) /\ IsFiniteSet(1 .. n)
    BY <1>4, <1>5, TableCosts
  <2>3. \A b \in 1 .. n : f[b] = 0
    BY <1>2, <2>1
  <2> HIDE DEF f
  <2>4. SumOf(f) = Total(f, 1 .. n)
    BY <2>2, SumNat
  <2> QED
    BY <2>2, <2>3, <2>4, TotalOfZeros
<1>8. t.bytes = TableCost(t)
  BY <1>6, <1>2, <1>4, <1>7 DEF TableCost
<1>9. \A key \in Keys : Matches(t, key) = {}
  <2> TAKE key \in Keys
  <2>1. BucketOf(t, key) \in 1 .. n
    BY <1>2, <1>5, BucketFound
  <2>2. t.buckets[BucketOf(t, key)] = << >>
    BY <1>2, <2>1
  <2>3. DOMAIN t.buckets[BucketOf(t, key)] = {}
    BY <2>2
  <2> QED
    BY <2>3 DEF Matches
<1> QED
  BY <1>5, <1>7, <1>8, <1>9 DEF Balanced, t

-----------------------------------------------------------------------------
(* The inductive invariant: every table, buffer and token list is charged  *)
(* what it holds, and used is the sum of the charges.                      *)

BufferValues == [strings : Seq(Seq(Nat) \cup {Hole}), bytes : Nat]
Weighed(c) == c \in BufferValues /\ c.bytes = Contents(c.strings).bytes

TablesOK(ts) ==
    /\ ts \in Seq(TableValues \cup {None}) /\ Len(ts) <= TablesLimit
    /\ \A i \in DOMAIN ts : ts[i] # None => Balanced(ts[i])
BufsOK(bs) ==
    /\ bs \in Seq(BufferValues \cup {None})
    /\ \A i \in DOMAIN bs : bs[i] # None => Weighed(bs[i])
GamestateOK(g) == g = None \/ Balanced(g)
TokensOK(tk) ==
    tk \in [list : Seq(Seq(Nat)), bytes : Nat] /\ tk.bytes = ListBytes(tk.list)

EntriesOf(g) == IF g = None THEN 0 ELSE EntriesCost(g)

ContainersInv ==
    /\ TablesOK(tables) /\ BufsOK(bufs) /\ GamestateOK(gamestate) /\ TokensOK(tokens)
    /\ used = ChargedTo(tables) + ChargedTo(bufs) + EntriesOf(gamestate) + tokens.bytes
    /\ used <= ContainerLimit

LEMMA BufferShape ==
    ASSUME NEW c \in BufferValues
    PROVE  /\ c # None /\ c.bytes \in Nat /\ Charge(c) = c.bytes
           /\ c.strings \in Seq(Seq(Nat) \cup {Hole})
<1>1. c \in [strings : Seq(Seq(Nat) \cup {Hole}), bytes : Nat]
  BY DEF BufferValues
<1>2. "bytes" \in DOMAIN c /\ ~("bytes" \in DOMAIN None)
  BY <1>1 DEF None
<1>3. c # None
  BY <1>2
<1> QED
  BY <1>1, <1>3 DEF Charge

LEMMA TablesCharged ==
    ASSUME NEW ts, TablesOK(ts)
    PROVE  ts \in Seq(TableValues \cup {None}) /\ Chargeable(ts) /\ ChargedTo(ts) \in Nat
<1>1. ts \in Seq(TableValues \cup {None})
  BY DEF TablesOK
<1>2. ASSUME NEW i \in DOMAIN ts PROVE Charge(ts[i]) \in Nat
  <2>1. ts[i] = None \/ ts[i] \in TableValues
    BY <1>1
  <2> QED
    BY <2>1, TableShape DEF Charge
<1>3. Chargeable(ts)
  BY <1>2 DEF Chargeable
<1> QED
  BY <1>1, <1>3, ChargesOf

LEMMA BufsCharged ==
    ASSUME NEW bs, BufsOK(bs)
    PROVE  bs \in Seq(BufferValues \cup {None}) /\ Chargeable(bs) /\ ChargedTo(bs) \in Nat
<1>1. bs \in Seq(BufferValues \cup {None})
  BY DEF BufsOK
<1>2. ASSUME NEW i \in DOMAIN bs PROVE Charge(bs[i]) \in Nat
  <2>1. bs[i] = None \/ bs[i] \in BufferValues
    BY <1>1
  <2> QED
    BY <2>1, BufferShape DEF Charge
<1>3. Chargeable(bs)
  BY <1>2 DEF Chargeable
<1> QED
  BY <1>1, <1>3, ChargesOf

LEMMA EntriesOfNat ==
    ASSUME NEW g, GamestateOK(g)
    PROVE  EntriesOf(g) \in Nat
BY TableCosts DEF GamestateOK, Balanced, EntriesOf

LEMMA Charges ==
    ASSUME ContainersInv
    PROVE  /\ ChargedTo(tables) \in Nat /\ ChargedTo(bufs) \in Nat /\ EntriesOf(gamestate) \in Nat
           /\ tokens.bytes \in Nat /\ used \in Nat
           /\ used = ChargedTo(tables) + ChargedTo(bufs) + EntriesOf(gamestate) + tokens.bytes
           /\ used <= ContainerLimit
<1>1. ChargedTo(tables) \in Nat /\ ChargedTo(bufs) \in Nat /\ EntriesOf(gamestate) \in Nat
  BY TablesCharged, BufsCharged, EntriesOfNat DEF ContainersInv
<1>2. tokens.bytes \in Nat
  BY DEF ContainersInv, TokensOK
<1>3. /\ used = ChargedTo(tables) + ChargedTo(bufs) + EntriesOf(gamestate) + tokens.bytes
      /\ used <= ContainerLimit
  BY DEF ContainersInv
<1> QED
  BY <1>1, <1>2, <1>3

LEMMA TableFound ==
    ASSUME ContainersInv, NEW h, IsTable(h)
    PROVE  /\ Balanced(Table(h))
           /\ h = 0 => EntriesCost(Table(h)) = EntriesOf(gamestate)
           /\ h # 0 => h \in DOMAIN tables /\ tables[h] # None /\ Table(h) = tables[h]
<1>1. CASE h = 0
  <2>1. Table(h) = Gamestate
    BY <1>1 DEF Table
  <2>2. CASE gamestate = None
    <3>1. Gamestate = NewTable(GamestateBuckets, StringType)
      BY <2>2 DEF Gamestate
    <3>2. GamestateBuckets \in Nat \ {0}
      BY ContainersAssumption
    <3>3. Balanced(Gamestate) /\ EntriesCost(Gamestate) = 0
      BY <3>1, <3>2, NewTableFacts
    <3>4. EntriesOf(gamestate) = 0
      BY <2>2 DEF EntriesOf
    <3> QED
      BY <1>1, <2>1, <3>3, <3>4
  <2>3. CASE gamestate # None
    BY <1>1, <2>1, <2>3 DEF ContainersInv, GamestateOK, Gamestate, EntriesOf
  <2> QED
    BY <2>2, <2>3
<1>2. CASE h # 0
  <2>1. h \in DOMAIN tables /\ tables[h] # None /\ Table(h) = tables[h]
    BY <1>2 DEF IsTable, Table
  <2>2. Balanced(tables[h])
    BY <2>1 DEF ContainersInv, TablesOK
  <2> QED
    BY <1>2, <2>1, <2>2
<1> QED
  BY <1>1, <1>2

\* A table is exchanged for one with as many buckets, and charged the difference.
LEMMA PutTable ==
    ASSUME ContainersInv, NEW h, IsTable(h), NEW t, Balanced(t), Put(h, t),
           Len(t.buckets) = Len(Table(h).buckets),
           used' = used + EntriesCost(t) - EntriesCost(Table(h)), used' <= ContainerLimit,
           UNCHANGED <<bufs, tokens>>
    PROVE  ContainersInv'
<1>1. /\ ChargedTo(tables) \in Nat /\ ChargedTo(bufs) \in Nat /\ EntriesOf(gamestate) \in Nat
      /\ tokens.bytes \in Nat /\ used \in Nat
      /\ used = ChargedTo(tables) + ChargedTo(bufs) + EntriesOf(gamestate) + tokens.bytes
  BY Charges
<1>2. t \in TableValues /\ t.bytes = Len(t.buckets) * BucketBytes + EntriesCost(t)
  BY DEF Balanced, TableCost
<1>3. EntriesCost(t) \in Nat /\ t # None /\ Charge(t) = t.bytes /\ t.bytes \in Nat
  BY <1>2, TableCosts, TableShape
<1>4. /\ Balanced(Table(h))
      /\ h = 0 => EntriesCost(Table(h)) = EntriesOf(gamestate)
      /\ h # 0 => h \in DOMAIN tables /\ tables[h] # None /\ Table(h) = tables[h]
  BY TableFound
<1>5. bufs' = bufs /\ tokens' = tokens
  OBVIOUS
<1>6. BufsOK(bufs') /\ TokensOK(tokens')
  BY <1>5 DEF ContainersInv
<1>7. CASE h = 0
  <2>1. gamestate' = t /\ tables' = tables
    BY <1>7 DEF Put
  <2>2. GamestateOK(gamestate') /\ TablesOK(tables')
    BY <2>1 DEF GamestateOK, ContainersInv
  <2>3. EntriesOf(gamestate') = EntriesCost(t)
    BY <1>3, <2>1 DEF EntriesOf
  <2>4. used' = ChargedTo(tables') + ChargedTo(bufs') + EntriesOf(gamestate') + tokens'.bytes
    BY <1>1, <1>3, <1>4, <1>5, <1>7, <2>1, <2>3
  <2> QED
    BY <1>6, <2>2, <2>4 DEF ContainersInv
<1>8. CASE h # 0
  <2>1. tables' = [tables EXCEPT ![h] = t] /\ gamestate' = gamestate
    BY <1>8 DEF Put
  <2>2. tables \in Seq(TableValues \cup {None}) /\ Chargeable(tables) /\ Len(tables) <= TablesLimit
    BY TablesCharged DEF ContainersInv, TablesOK
  <2>3. h \in DOMAIN tables /\ tables[h] # None
    BY <1>4, <1>8
  <2>4. tables' \in Seq(TableValues \cup {None}) /\ Placed(tables', tables, h, t)
    BY <1>2, <2>1, <2>2, <2>3, ExceptPlaces
  <2>5. /\ ChargedTo(tables') = ChargedTo(tables) - Charge(tables[h]) + Charge(t)
        /\ Charge(tables[h]) \in 0 .. ChargedTo(tables)
    BY <1>3, <2>2, <2>3, <2>4, SlotReplaced
  <2>6. Charge(tables[h]) = Len(t.buckets) * BucketBytes + EntriesCost(Table(h)) /\ EntriesCost(Table(h)) \in Nat
    <3>1. tables[h] \in TableValues /\ tables[h].bytes = Len(t.buckets) * BucketBytes + EntriesCost(Table(h))
      BY <1>4, <1>8 DEF Balanced, TableCost
    <3> QED
      BY <1>4, <1>8, <3>1, TableShape, TableCosts
  <2>7. TablesOK(tables')
    <3>1. DOMAIN tables' = 1 .. Len(tables) /\ Len(tables') = Len(tables)
      BY <2>4 DEF Placed
    <3>2. \A i \in DOMAIN tables' : tables'[i] # None => Balanced(tables'[i])
      <4> TAKE i \in DOMAIN tables'
      <4>1. CASE i = h
        BY <2>4, <4>1 DEF Placed
      <4>2. CASE i # h
        <5>1. tables'[i] = tables[i] /\ i \in DOMAIN tables
          BY <2>2, <2>4, <3>1, <4>2 DEF Placed
        <5> QED
          BY <5>1 DEF ContainersInv, TablesOK
      <4> QED
        BY <4>1, <4>2
    <3> QED
      BY <2>2, <2>4, <3>1, <3>2 DEF TablesOK
  <2>8. PICK k \in Nat : k = Len(t.buckets) * BucketBytes
    BY <1>2, TableCosts
  <2>9. used' = ChargedTo(tables') + ChargedTo(bufs') + EntriesOf(gamestate') + tokens'.bytes
    <3>0. EntriesCost(Table(h)) \in Nat
      BY <2>6
    <3>1. Charge(t) = k + EntriesCost(t) /\ Charge(tables[h]) = k + EntriesCost(Table(h))
      BY <1>2, <1>3, <2>6, <2>8
    <3>2. ChargedTo(tables') = ChargedTo(tables) - EntriesCost(Table(h)) + EntriesCost(t)
      BY <1>1, <1>3, <2>5, <3>0, <3>1
    <3>3. EntriesOf(gamestate') = EntriesOf(gamestate) /\ ChargedTo(bufs') = ChargedTo(bufs)
      BY <1>5, <2>1
    <3> QED
      BY <1>1, <1>3, <1>5, <3>0, <3>2, <3>3
  <2>10. GamestateOK(gamestate')
    BY <2>1 DEF ContainersInv
  <2> QED
    BY <1>6, <2>7, <2>9, <2>10 DEF ContainersInv
<1> QED
  BY <1>7, <1>8

-----------------------------------------------------------------------------
(* The steps of the tables.                                                *)

LEMMA BucketsOfSize ==
    ASSUME NEW size \in Int
    PROVE  Buckets(size) \in Nat \ {0}
<1>1. MinBuckets \in Nat \ {0} /\ MaxBuckets \in Nat \ {0} /\ DefaultBuckets \in Nat \ {0}
  BY ContainersAssumption
<1> QED
  BY <1>1 DEF Buckets, Lesser

\* more is seq with v in the slot a new table or buffer takes.
Took(more, seq, v) ==
    /\ Len(more) = Len(seq) \/ (Len(more) = Len(seq) + 1 /\ LiveIn(seq) = Len(seq))
    /\ FirstFree(seq) \in 1 .. Len(more)
    /\ DOMAIN more = DOMAIN seq \cup {FirstFree(seq)}
    /\ more[FirstFree(seq)] = v
    /\ \A i \in DOMAIN seq : i # FirstFree(seq) => more[i] = seq[i]
    /\ FirstFree(seq) \in DOMAIN seq => seq[FirstFree(seq)] = None

LEMMA SlotTook ==
    ASSUME NEW V, NEW seq \in Seq(V), NEW v \in V, v # None, NEW more, more = InSlot(seq, v)
    PROVE  Took(more, seq, v)
<1> DEFINE k == FirstFree(seq)
           n == Len(seq)
           live == {i \in DOMAIN seq : seq[i] # None}
<1>1. /\ k \in 1 .. n + 1 /\ n \in Nat /\ DOMAIN seq = 1 .. n /\ (k <= n => seq[k] = None)
      /\ k > n => \A i \in DOMAIN seq : seq[i] # None
  BY FreeSlot
<1>2. InSlot(seq, v) = IF k > n THEN Append(seq, v) ELSE [seq EXCEPT ![k] = v]
  BY DEF InSlot
<1>3. LiveIn(seq) = Cardinality(live)
  BY DEF LiveIn
<1>4. CASE k > n
  <2>1. live = 1 .. n
    BY <1>1, <1>4
  <2> HIDE DEF k, n, live
  <2>2. Cardinality(1 .. n) = n
    BY <1>1, FS_Interval
  <2>9. LiveIn(seq) = n
    BY <1>3, <2>1, <2>2
  <2>3. k = n + 1
    BY <1>1, <1>4
  <2>4. InSlot(seq, v) = Append(seq, v)
    BY <1>2, <1>4, Zenon
  <2> DEFINE new == Append(seq, v)
  <2> USE DEF n
  <2>5. Len(new) = n + 1 /\ DOMAIN new = 1 .. n + 1 /\ new[n + 1] = v /\ \A i \in 1 .. n : new[i] = seq[i]
    OBVIOUS
  <2> HIDE DEF new
  <2>6. InSlot(seq, v) = new
    BY <2>4 DEF new
  <2> HIDE DEF n
  <2>7. 1 .. n + 1 = (1 .. n) \cup {k}
    BY <1>1, <2>3
  <2>8. Len(more) = Len(seq) + 1 /\ LiveIn(seq) = Len(seq) /\ k \in 1 .. Len(more)
    BY <1>1, <2>3, <2>5, <2>6, <2>9 DEF n
  <2>10. DOMAIN more = DOMAIN seq \cup {k} /\ more[k] = v /\ ~(k \in DOMAIN seq)
    BY <1>1, <2>3, <2>5, <2>6, <2>7
  <2>11. \A i \in DOMAIN seq : i # k => more[i] = seq[i]
    BY <1>1, <2>5, <2>6
  <2> QED
    BY <2>8, <2>10, <2>11 DEF k, Took
<1>5. CASE k <= n
  <2>1. k \in DOMAIN seq /\ ~(k > n)
    BY <1>1, <1>5
  <2> HIDE DEF k
  <2> DEFINE new == [seq EXCEPT ![k] = v]
  <2>2. InSlot(seq, v) = new
    BY <1>2, <2>1, Zenon
  <2>3. new \in Seq(V) /\ Placed(new, seq, k, v)
    BY <2>1, ExceptPlaces
  <2> HIDE DEF new
  <2>4. /\ Len(new) = n /\ DOMAIN new = DOMAIN seq /\ new[k] = v
        /\ \A i \in DOMAIN seq : i # k => new[i] = seq[i]
    BY <1>1, <2>3 DEF Placed
  <2> QED
    BY <1>1, <1>5, <2>1, <2>2, <2>4 DEF k, Took
<1> QED
  BY <1>1, <1>4, <1>5

LEMMA CreatetabKeepsInv ==
    ASSUME ContainersInv, NEW size \in Int, NEW type \in Types \cup {StringType, DefaultType},
           hash_createtab(size, type)
    PROVE  ContainersInv'
<1> DEFINE t == NewTable(Buckets(size), type)
<1>1. Balanced(t) /\ EntriesCost(t) = 0
  BY BucketsOfSize, NewTableFacts
<1>2. t \in TableValues /\ t # None /\ Charge(t) = t.bytes /\ t.bytes \in Nat
  BY <1>1, TableShape DEF Balanced
<1>3. /\ LiveIn(tables) < TablesLimit /\ CanCharge(t.bytes) /\ tables' = InSlot(tables, t)
      /\ used' = used + t.bytes
      /\ gamestate' = gamestate /\ bufs' = bufs /\ tokens' = tokens
  BY DEF hash_createtab
<1> HIDE DEF t
<1>4. /\ tables \in Seq(TableValues \cup {None}) /\ Chargeable(tables) /\ Len(tables) <= TablesLimit
      /\ \A i \in DOMAIN tables : tables[i] # None => Balanced(tables[i])
  BY TablesCharged DEF ContainersInv, TablesOK
<1>5. /\ tables' \in Seq(TableValues \cup {None}) /\ ChargedTo(tables') = ChargedTo(tables) + Charge(t)
  BY <1>2, <1>3, <1>4, SlotTaken
<1>6. TablesLimit \in Nat
  BY ContainersAssumption
<1>7. /\ Len(tables') <= TablesLimit
      /\ DOMAIN tables' = DOMAIN tables \cup {FirstFree(tables)}
      /\ tables'[FirstFree(tables)] = t
      /\ \A i \in DOMAIN tables : i # FirstFree(tables) => tables'[i] = tables[i]
  <2>1. t \in TableValues \cup {None}
    BY <1>2
  <2>2. Took(tables', tables, t)
    BY <1>2, <1>3, <1>4, <2>1, SlotTook
  <2>3. Len(tables) \in Nat
    BY <1>4
  <2>4. Len(tables') = Len(tables) \/ (Len(tables') = Len(tables) + 1 /\ LiveIn(tables) = Len(tables))
    BY <2>2 DEF Took
  <2>5. LiveIn(tables) < TablesLimit /\ Len(tables) <= TablesLimit
    BY <1>3, <1>4
  <2>6. Len(tables') <= TablesLimit
    BY <1>6, <2>3, <2>4, <2>5
  <2> QED
    BY <2>2, <2>6 DEF Took
<1>8. \A i \in DOMAIN tables' : tables'[i] # None => Balanced(tables'[i])
  BY <1>1, <1>4, <1>7
<1>9. TablesOK(tables')
  BY <1>5, <1>7, <1>8 DEF TablesOK
<1>10. /\ used' = ChargedTo(tables') + ChargedTo(bufs') + EntriesOf(gamestate') + tokens'.bytes
       /\ used' <= ContainerLimit
  <2>1. ChargedTo(tables') = ChargedTo(tables) + t.bytes /\ used' = used + t.bytes
    BY <1>2, <1>3, <1>5
  <2>2. ChargedTo(bufs') = ChargedTo(bufs) /\ EntriesOf(gamestate') = EntriesOf(gamestate) /\ tokens'.bytes = tokens.bytes
    BY <1>3
  <2>3. used + t.bytes <= ContainerLimit
    BY <1>3 DEF CanCharge
  <2>4. t.bytes \in Nat
    BY <1>2
  <2> QED
    BY <2>1, <2>2, <2>3, <2>4, Charges
<1> QED
  BY <1>3, <1>9, <1>10 DEF ContainersInv

LEMMA DestroytabKeepsInv ==
    ASSUME ContainersInv, NEW h, hash_destroytab(h)
    PROVE  ContainersInv'
<1>1. IsTable(h) /\ bufs' = bufs /\ tokens' = tokens
  BY DEF hash_destroytab
<1>2. CASE h = 0
  <2>1. Put(h, Gamestate) /\ used' = used /\ Table(h) = Gamestate
    BY <1>2 DEF hash_destroytab, Table
  <2>2. Balanced(Gamestate) /\ EntriesCost(Gamestate) \in Nat
    BY <1>1, <2>1, TableFound, TableCosts DEF Balanced
  <2>3. used' = used + EntriesCost(Gamestate) - EntriesCost(Table(h)) /\ used' <= ContainerLimit
    BY <2>1, <2>2, Charges
  <2>4. Len(Gamestate.buckets) = Len(Table(h).buckets) /\ UNCHANGED <<bufs, tokens>>
    BY <1>1, <2>1
  <2> QED
    BY <1>1, <2>1, <2>2, <2>3, <2>4, PutTable
<1>3. CASE h # 0
  <2>1. /\ tables' = [tables EXCEPT ![h] = None] /\ gamestate' = gamestate
        /\ used' = used - tables[h].bytes
    BY <1>3 DEF hash_destroytab, Put
  <2>2. h \in DOMAIN tables /\ tables[h] # None
    BY <1>1, <1>3, TableFound
  <2>3. /\ tables \in Seq(TableValues \cup {None}) /\ Chargeable(tables) /\ Len(tables) <= TablesLimit
        /\ \A i \in DOMAIN tables : tables[i] # None => Balanced(tables[i])
    BY TablesCharged DEF ContainersInv, TablesOK
  <2>4. None \in TableValues \cup {None} /\ Charge(None) = 0 /\ Charge(tables[h]) = tables[h].bytes
    BY <2>2 DEF Charge
  <2>5. tables' \in Seq(TableValues \cup {None}) /\ Placed(tables', tables, h, None)
    BY <2>1, <2>2, <2>3, <2>4, ExceptPlaces
  <2>6. /\ ChargedTo(tables') = ChargedTo(tables) - Charge(tables[h]) + Charge(None)
        /\ Charge(tables[h]) \in 0 .. ChargedTo(tables)
    BY <2>2, <2>3, <2>4, <2>5, SlotReplaced
  <2>7. TablesOK(tables')
    <3>1. /\ DOMAIN tables' = DOMAIN tables /\ Len(tables') = Len(tables) /\ tables'[h] = None
          /\ \A i \in DOMAIN tables : i # h => tables'[i] = tables[i]
      BY <2>3, <2>5 DEF Placed
    <3>2. \A i \in DOMAIN tables' : tables'[i] # None => Balanced(tables'[i])
      BY <2>3, <3>1
    <3> QED
      BY <2>3, <2>5, <3>1, <3>2 DEF TablesOK
  <2>8. /\ used' = ChargedTo(tables') + ChargedTo(bufs') + EntriesOf(gamestate') + tokens'.bytes
        /\ used' <= ContainerLimit
    <3>1. ChargedTo(bufs') = ChargedTo(bufs) /\ EntriesOf(gamestate') = EntriesOf(gamestate) /\ tokens'.bytes = tokens.bytes
      BY <1>1, <2>1
    <3>2. PICK c \in Nat : c = tables[h].bytes
      BY <2>4, <2>6, Charges
    <3>3. ChargedTo(tables') = ChargedTo(tables) - c /\ used' = used - c
      BY <2>1, <2>4, <2>6, <3>2, Charges
    <3>4. ContainerLimit \in Nat
      BY ContainersAssumption
    <3> QED
      BY <3>1, <3>3, <3>4, Charges
  <2> QED
    BY <1>1, <2>1, <2>7, <2>8 DEF ContainersInv
<1> QED
  BY <1>2, <1>3

LEMMA RechargedFits ==
    ASSUME ContainersInv, NEW old \in Nat, NEW new \in Nat, CanRecharge(old, new)
    PROVE  used + new - old <= ContainerLimit
<1>1. ContainerLimit \in Nat
  BY ContainersAssumption
<1> QED
  BY <1>1, Charges DEF CanRecharge, CanCharge

LEMMA MaxOfOne ==
    ASSUME NEW x \in Nat
    PROVE  Max({x}) = x
BY DEF Max

\* The newest entry of a key that has any.
LEMMA NewestFound ==
    ASSUME NEW t \in TableValues, NEW key \in Keys, Matches(t, key) # {}
    PROVE  /\ Max(Matches(t, key)) \in Matches(t, key)
           /\ Max(Matches(t, key)) \in DOMAIN t.buckets[BucketOf(t, key)]
           /\ \A i \in Matches(t, key) : i <= Max(Matches(t, key))
<1>1. t.buckets[BucketOf(t, key)] \in Seq(Entry) /\ Matches(t, key) \subseteq DOMAIN t.buckets[BucketOf(t, key)]
  BY BucketFound
<1>2. Len(t.buckets[BucketOf(t, key)]) \in Nat /\ Matches(t, key) \subseteq 0 .. Len(t.buckets[BucketOf(t, key)])
  BY <1>1
<1>3. Max(Matches(t, key)) \in Matches(t, key) /\ \A i \in Matches(t, key) : i <= Max(Matches(t, key))
  BY <1>2, MaxOfNats
<1> QED
  BY <1>1, <1>3

\* What hash_add does to the table: the entry replaced goes, and the new one comes last.
OldCost(t, key, stacked) ==
    IF Replaced(t, key, stacked) = {} THEN 0
    ELSE EntryCost(t.buckets[BucketOf(t, key)][Max(Replaced(t, key, stacked))])
Rest(t, key, stacked) ==
    IF Replaced(t, key, stacked) = {} THEN t
    ELSE Without(t, BucketOf(t, key), Max(Replaced(t, key, stacked)))

LEMMA ReplacedIsNewest ==
    ASSUME NEW t \in TableValues, NEW key \in Keys, NEW stacked, Replaced(t, key, stacked) # {}
    PROVE  /\ ~stacked /\ Matches(t, key) # {}
           /\ Max(Replaced(t, key, stacked)) = Max(Matches(t, key))
           /\ Max(Matches(t, key)) \in DOMAIN t.buckets[BucketOf(t, key)]
<1>1. ~stacked /\ Matches(t, key) # {} /\ Replaced(t, key, stacked) = {Max(Matches(t, key))}
  BY DEF Replaced
<1>2. Max(Matches(t, key)) \in DOMAIN t.buckets[BucketOf(t, key)]
  BY <1>1, NewestFound
<1>3. t.buckets[BucketOf(t, key)] \in Seq(Entry)
  BY BucketFound
<1>4. Max(Matches(t, key)) \in Nat
  BY <1>2, <1>3
<1> QED
  BY <1>1, <1>2, <1>4, MaxOfOne

LEMMA RestFacts ==
    ASSUME NEW t, Balanced(t), NEW key \in Keys, NEW stacked
    PROVE  /\ Balanced(Rest(t, key, stacked)) /\ Rest(t, key, stacked).ty = t.ty
           /\ Len(Rest(t, key, stacked).buckets) = Len(t.buckets)
           /\ EntriesCost(Rest(t, key, stacked)) = EntriesCost(t) - OldCost(t, key, stacked)
           /\ OldCost(t, key, stacked) \in 0 .. EntriesCost(t) /\ EntriesCost(t) \in Nat
<1> DEFINE b == BucketOf(t, key)
           i == Max(Replaced(t, key, stacked))
<1>1. t \in TableValues /\ b \in DOMAIN t.buckets /\ EntriesCost(t) \in Nat
  BY BucketFound, TableCosts DEF Balanced
<1>2. CASE Replaced(t, key, stacked) = {}
  <2>1. Rest(t, key, stacked) = t /\ OldCost(t, key, stacked) = 0
    BY <1>2 DEF Rest, OldCost
  <2> QED
    BY <1>1, <2>1
<1>3. CASE Replaced(t, key, stacked) # {}
  <2>1. i \in DOMAIN t.buckets[b]
    BY <1>1, <1>3, ReplacedIsNewest
  <2>2. Rest(t, key, stacked) = Without(t, b, i) /\ OldCost(t, key, stacked) = EntryCost(t.buckets[b][i])
    BY <1>3 DEF Rest, OldCost
  <2> HIDE DEF b, i
  <2>3. /\ Balanced(Without(t, b, i))
        /\ EntriesCost(Without(t, b, i)) = EntriesCost(t) - EntryCost(t.buckets[b][i])
        /\ EntryCost(t.buckets[b][i]) \in 0 .. EntriesCost(t)
        /\ Placed(Without(t, b, i).buckets, t.buckets, b, RemoveAt(t.buckets[b], i))
        /\ Without(t, b, i).ty = t.ty
    BY <1>1, <2>1, WithoutFacts
  <2>4. Len(Without(t, b, i).buckets) = Len(t.buckets)
    BY <2>3 DEF Placed
  <2> QED
    BY <1>1, <2>2, <2>3, <2>4
<1> QED
  BY <1>2, <1>3

LEMMA AddFacts ==
    ASSUME NEW t, Balanced(t), NEW key \in Keys, NEW stacked, NEW e \in Entry,
           NEW u, u = Pushed(Rest(t, key, stacked), BucketOf(t, key), e)
    PROVE  /\ Balanced(u) /\ Len(u.buckets) = Len(t.buckets)
           /\ EntriesCost(u) = EntriesCost(t) - OldCost(t, key, stacked) + EntryCost(e)
<1> DEFINE rest == Rest(t, key, stacked)
           b == BucketOf(t, key)
           old == OldCost(t, key, stacked)
<1>1. /\ Balanced(rest) /\ Len(rest.buckets) = Len(t.buckets)
      /\ EntriesCost(rest) = EntriesCost(t) - old /\ old \in 0 .. EntriesCost(t)
      /\ EntriesCost(t) \in Nat
  BY RestFacts
<1>2. EntryCost(e) \in Nat
  BY EntryCosts
<1>3. t \in TableValues /\ rest \in TableValues
  BY <1>1 DEF Balanced
<1>4. b \in DOMAIN t.buckets
  BY <1>3, BucketFound
<1> HIDE DEF rest, b, old
<1>5. b \in DOMAIN rest.buckets
  <2>1. rest.buckets \in Seq(Seq(Entry)) /\ t.buckets \in Seq(Seq(Entry))
    BY <1>3, TableShape
  <2> QED
    BY <1>1, <1>4, <2>1
<1>6. /\ Balanced(Pushed(rest, b, e))
      /\ EntriesCost(Pushed(rest, b, e)) = EntriesCost(rest) + EntryCost(e)
      /\ Placed(Pushed(rest, b, e).buckets, rest.buckets, b, Append(rest.buckets[b], e))
  BY <1>1, <1>5, PushFacts
<1>7. u = Pushed(rest, b, e)
  BY DEF rest, b
<1>8. Len(Pushed(rest, b, e).buckets) = Len(rest.buckets)
  BY <1>6 DEF Placed
<1>9. EntriesCost(u) = EntriesCost(t) - old + EntryCost(e)
  BY <1>1, <1>2, <1>6, <1>7
<1> QED
  BY <1>1, <1>6, <1>7, <1>8, <1>9 DEF old

LEMMA AddKeepsInv ==
    ASSUME ContainersInv, NEW h, NEW key \in Keys, NEW val \in Texts, NEW type \in Types, NEW stacked,
           hash_add(h, key, val, type, stacked)
    PROVE  ContainersInv'
<1> DEFINE t == Table(h)
           b == BucketOf(t, key)
           e == [key |-> key, ty |-> IF type = 0 THEN t.ty ELSE type, val |-> val]
           old == OldCost(t, key, stacked)
           u == Pushed(Rest(t, key, stacked), b, e)
<1>1. IsTable(h) /\ bufs' = bufs /\ tokens' = tokens /\ UNCHANGED <<bufs, tokens>>
  BY DEF hash_add
<1>2. Balanced(t) /\ EntriesCost(t) \in Nat
  BY <1>1, TableFound, TableCosts DEF Balanced
<1>3. CASE key # << >> /\ CanRecharge(old, EntryCost(e))
  <2>1. Put(h, u) /\ used' = used + EntryCost(e) - old
    BY <1>3 DEF hash_add, Pushed, Rest, OldCost
  <2>2. t.ty \in Types \cup {StringType, DefaultType}
    BY <1>2, TableShape DEF Balanced
  <2>3. e \in Entry
    BY <1>3, <2>2 DEF Entry
  <2>4. EntryCost(e) \in Nat
    BY <2>3, EntryCosts
  <2>5. u = Pushed(Rest(t, key, stacked), BucketOf(t, key), e)
    OBVIOUS
  <2> HIDE DEF e, t, b, u
  <2>6. /\ Balanced(u) /\ Len(u.buckets) = Len(t.buckets)
        /\ EntriesCost(u) = EntriesCost(t) - old + EntryCost(e)
    BY <1>2, <2>3, <2>5, AddFacts
  <2>7. old \in 0 .. EntriesCost(t)
    BY <1>2, RestFacts
  <2> HIDE DEF old
  <2>8. used' <= ContainerLimit /\ used \in Nat /\ old \in Nat
    BY <1>2, <1>3, <2>1, <2>4, <2>7, RechargedFits, Charges
  <2>9. used' = used + EntriesCost(u) - EntriesCost(t)
    BY <1>2, <2>1, <2>4, <2>6, <2>8
  <2> QED
    BY <1>1, <2>1, <2>6, <2>8, <2>9, PutTable DEF t
<1>4. CASE ~(key # << >> /\ CanRecharge(old, EntryCost(e)))
  <2>1. Put(h, t) /\ used' = used
    BY <1>4 DEF hash_add, OldCost
  <2>2. used' = used + EntriesCost(t) - EntriesCost(Table(h)) /\ used' <= ContainerLimit
    BY <1>2, <2>1, Charges
  <2>3. Len(t.buckets) = Len(Table(h).buckets)
    OBVIOUS
  <2> HIDE DEF t
  <2> QED
    BY <1>1, <1>2, <2>1, <2>2, <2>3, PutTable
<1> QED
  BY <1>3, <1>4

LEMMA DeleteKeepsInv ==
    ASSUME ContainersInv, NEW h, NEW key \in Keys, hash_delete(h, key)
    PROVE  ContainersInv'
<1> DEFINE t == Table(h)
           b == BucketOf(t, key)
           i == Max(Matches(t, key))
<1>1. IsTable(h) /\ bufs' = bufs /\ tokens' = tokens /\ UNCHANGED <<bufs, tokens>>
  BY DEF hash_delete
<1>2. Balanced(t) /\ EntriesCost(t) \in Nat /\ t \in TableValues
  BY <1>1, TableFound, TableCosts DEF Balanced
<1>3. CASE Matches(t, key) # {}
  <2>1. Put(h, Without(t, b, i)) /\ used' = used - EntryCost(t.buckets[b][i])
    BY <1>3 DEF hash_delete
  <2>2. i \in DOMAIN t.buckets[b] /\ b \in DOMAIN t.buckets
    BY <1>2, <1>3, NewestFound, BucketFound
  <2>3. t.buckets \in Seq(Seq(Entry))
    BY <1>2, TableShape
  <2> HIDE DEF t, i, b
  <2>4. /\ Balanced(Without(t, b, i))
        /\ EntriesCost(Without(t, b, i)) = EntriesCost(t) - EntryCost(t.buckets[b][i])
        /\ EntryCost(t.buckets[b][i]) \in 0 .. EntriesCost(t)
        /\ Placed(Without(t, b, i).buckets, t.buckets, b, RemoveAt(t.buckets[b], i))
    BY <1>2, <2>2, WithoutFacts
  <2>5. Len(Without(t, b, i).buckets) = Len(t.buckets)
    BY <2>4 DEF Placed
  <2>6. used' = used + EntriesCost(Without(t, b, i)) - EntriesCost(t) /\ used' <= ContainerLimit
    <3>1. PICK c \in Nat : c = EntryCost(t.buckets[b][i])
      BY <1>2, <2>4
    <3>2. used' = used - c /\ EntriesCost(Without(t, b, i)) = EntriesCost(t) - c
      BY <2>1, <2>4, <3>1
    <3>3. ContainerLimit \in Nat
      BY ContainersAssumption
    <3> QED
      BY <1>2, <3>2, <3>3, Charges
  <2> QED
    BY <1>1, <2>1, <2>4, <2>5, <2>6, PutTable DEF t
<1>4. CASE Matches(t, key) = {}
  <2>1. Put(h, t) /\ used' = used
    BY <1>4 DEF hash_delete
  <2>2. used' = used + EntriesCost(t) - EntriesCost(Table(h)) /\ used' <= ContainerLimit
    BY <1>2, <2>1, Charges
  <2>3. Len(t.buckets) = Len(Table(h).buckets)
    OBVIOUS
  <2> HIDE DEF t
  <2> QED
    BY <1>1, <1>2, <2>1, <2>2, <2>3, PutTable
<1> QED
  BY <1>3, <1>4

-----------------------------------------------------------------------------
(* The steps of the buffers.                                               *)

Strings == Seq(Seq(Nat) \cup {Hole})
Costs(strings) == [i \in DOMAIN strings |-> TextCost(strings[i])]

LEMMA TextCosts ==
    ASSUME NEW text \in Seq(Nat)
    PROVE  TextCost(text) = Len(text) /\ text # Hole /\ Len(text) \in Nat
<1>1. text # Hole
  <2> SUFFICES ASSUME text = Hole PROVE FALSE
    OBVIOUS
  <2>1. Len(text) = 1 /\ text[1] = -1
    BY DEF Hole
  <2>2. text[1] \in Nat
    BY <2>1
  <2> QED
    BY <2>1, <2>2
<1>2. Len(text) \in Nat
  OBVIOUS
<1> QED
  BY <1>1, <1>2 DEF TextCost

LEMMA CostsTyped ==
    ASSUME NEW strings \in Strings
    PROVE  /\ DOMAIN strings = 1 .. Len(strings) /\ Len(strings) \in Nat /\ IsFiniteSet(1 .. Len(strings))
           /\ Costs(strings) \in [1 .. Len(strings) -> Nat]
           /\ \A i \in 1 .. Len(strings) : Costs(strings)[i] = TextCost(strings[i])
           /\ SumOf(Costs(strings)) \in Nat
<1>1. /\ DOMAIN strings = 1 .. Len(strings) /\ Len(strings) \in Nat
      /\ \A i \in DOMAIN strings : strings[i] \in Seq(Nat) \cup {Hole}
  BY DEF Strings
<1>2. \A i \in DOMAIN strings : TextCost(strings[i]) \in Nat
  <2> TAKE i \in DOMAIN strings
  <2>1. CASE strings[i] = Hole
    BY <2>1 DEF TextCost
  <2>2. CASE strings[i] \in Seq(Nat)
    BY <2>2, TextCosts
  <2> QED
    BY <1>1, <2>1, <2>2
<1>3. IsFiniteSet(1 .. Len(strings))
  BY <1>1, FS_Interval
<1>4. Costs(strings) \in [1 .. Len(strings) -> Nat]
  BY <1>1, <1>2 DEF Costs
<1>5. \A i \in 1 .. Len(strings) : Costs(strings)[i] = TextCost(strings[i])
  BY <1>1 DEF Costs
<1> QED
  BY <1>1, <1>3, <1>4, <1>5, SumNat

LEMMA ContentsFacts ==
    ASSUME NEW strings \in Strings
    PROVE  /\ Weighed(Contents(strings)) /\ Contents(strings).strings = strings
           /\ Contents(strings).bytes = Len(strings) * SlotBytes + SumOf(Costs(strings))
           /\ Contents(strings).bytes \in Nat /\ Len(strings) * SlotBytes \in Nat
<1>1. Contents(strings) = [strings |-> strings, bytes |-> Len(strings) * SlotBytes + SumOf(Costs(strings))]
  BY DEF Contents, Costs
<1>2. SumOf(Costs(strings)) \in Nat /\ Len(strings) \in Nat /\ SlotBytes \in Nat
  BY CostsTyped, ContainersAssumption
<1>3. Len(strings) * SlotBytes \in Nat
  BY <1>2
<1>4. PICK n \in Nat : n = Len(strings) * SlotBytes + SumOf(Costs(strings))
  BY <1>2, <1>3
<1>5. /\ Contents(strings).strings = strings /\ Contents(strings).bytes = n
      /\ Contents(strings) \in BufferValues
  BY <1>1, <1>4 DEF BufferValues, Strings
<1>6. Weighed(Contents(strings))
  BY <1>5 DEF Weighed
<1> QED
  BY <1>3, <1>4, <1>5, <1>6

LEMMA WeighedShape ==
    ASSUME NEW c, Weighed(c)
    PROVE  /\ c \in BufferValues /\ c # None /\ c.bytes \in Nat /\ Charge(c) = c.bytes
           /\ c.strings \in Strings
           /\ c.bytes = Len(c.strings) * SlotBytes + SumOf(Costs(c.strings))
<1>1. c \in BufferValues /\ c.bytes = Contents(c.strings).bytes
  BY DEF Weighed
<1>2. c # None /\ c.bytes \in Nat /\ Charge(c) = c.bytes /\ c.strings \in Strings
  BY <1>1, BufferShape DEF Strings
<1> QED
  BY <1>1, <1>2, ContentsFacts

LEMMA BufFound ==
    ASSUME ContainersInv, NEW b, IsBuf(b)
    PROVE  b \in DOMAIN bufs /\ Weighed(bufs[b])
BY DEF IsBuf, ContainersInv, BufsOK

\* Something else is in a slot of a buffer, and used changes with its charge.
LEMMA BufPut ==
    ASSUME ContainersInv, NEW b, IsBuf(b), NEW c, c = None \/ Weighed(c),
           bufs' = [bufs EXCEPT ![b] = c],
           used' = used + Charge(c) - bufs[b].bytes, used' <= ContainerLimit,
           UNCHANGED <<tables, gamestate, tokens>>
    PROVE  ContainersInv'
<1>1. b \in DOMAIN bufs /\ bufs[b] # None /\ Charge(bufs[b]) = bufs[b].bytes
  BY BufFound, WeighedShape
<1>2. c \in BufferValues \cup {None} /\ Charge(c) \in Nat
  <2>1. CASE c = None
    BY <2>1 DEF Charge
  <2>2. CASE Weighed(c)
    BY <2>2, WeighedShape
  <2> QED
    BY <2>1, <2>2
<1>3. /\ bufs \in Seq(BufferValues \cup {None}) /\ Chargeable(bufs)
      /\ \A i \in DOMAIN bufs : bufs[i] # None => Weighed(bufs[i])
  BY BufsCharged DEF ContainersInv, BufsOK
<1>4. bufs' \in Seq(BufferValues \cup {None}) /\ Placed(bufs', bufs, b, c)
  BY <1>1, <1>2, <1>3, ExceptPlaces
<1>5. /\ ChargedTo(bufs') = ChargedTo(bufs) - Charge(bufs[b]) + Charge(c)
      /\ Charge(bufs[b]) \in 0 .. ChargedTo(bufs)
  <2>1. /\ bufs \in Seq(BufferValues \cup {None}) /\ Chargeable(bufs) /\ b \in DOMAIN bufs
        /\ Charge(c) \in Nat /\ bufs' \in Seq(BufferValues \cup {None}) /\ Placed(bufs', bufs, b, c)
    BY <1>1, <1>2, <1>3, <1>4
  <2> QED
    BY ONLY <2>1, SlotReplaced
<1>6. BufsOK(bufs')
  <2>1. /\ DOMAIN bufs' = DOMAIN bufs /\ bufs'[b] = c
        /\ \A i \in DOMAIN bufs : i # b => bufs'[i] = bufs[i]
    BY <1>3, <1>4 DEF Placed
  <2>2. \A i \in DOMAIN bufs' : bufs'[i] # None => Weighed(bufs'[i])
    BY <1>3, <2>1
  <2> QED
    BY <1>4, <2>2 DEF BufsOK
<1>7. used' = ChargedTo(tables') + ChargedTo(bufs') + EntriesOf(gamestate') + tokens'.bytes
  <2>1. ChargedTo(tables') = ChargedTo(tables) /\ EntriesOf(gamestate') = EntriesOf(gamestate) /\ tokens'.bytes = tokens.bytes
    OBVIOUS
  <2>2. PICK k \in Nat : k = bufs[b].bytes
    BY <1>1, <1>5, Charges
  <2>3. ChargedTo(bufs') = ChargedTo(bufs) - k + Charge(c) /\ used' = used + Charge(c) - k
    BY <1>1, <1>5, <2>2
  <2> QED
    BY <1>2, <2>1, <2>3, Charges
<1>8. TablesOK(tables') /\ GamestateOK(gamestate') /\ TokensOK(tokens')
  BY DEF ContainersInv
<1> QED
  BY <1>6, <1>7, <1>8 DEF ContainersInv

LEMMA ExchangeKeepsInv ==
    ASSUME ContainersInv, NEW b, IsBuf(b), NEW c, Weighed(c), Exchange(b, c)
    PROVE  ContainersInv'
<1>1. /\ CanRecharge(bufs[b].bytes, c.bytes) /\ bufs' = [bufs EXCEPT ![b] = c]
      /\ used' = used + c.bytes - bufs[b].bytes
      /\ UNCHANGED <<tables, gamestate, tokens>>
  BY DEF Exchange
<1>2. c.bytes \in Nat /\ Charge(c) = c.bytes /\ bufs[b].bytes \in Nat
  BY BufFound, WeighedShape
<1>3. used' <= ContainerLimit /\ used' = used + Charge(c) - bufs[b].bytes
  BY <1>1, <1>2, RechargedFits
<1> QED
  BY <1>1, <1>3, BufPut

LEMMA DelKeepsInv ==
    ASSUME ContainersInv, NEW b, buf_del(b)
    PROVE  ContainersInv'
<1>1. /\ IsBuf(b) /\ bufs' = [bufs EXCEPT ![b] = None] /\ used' = used - bufs[b].bytes
      /\ UNCHANGED <<tables, gamestate, tokens>>
  BY DEF buf_del
<1>2. Charge(None) = 0 /\ bufs[b].bytes \in Nat
  BY <1>1, BufFound, WeighedShape DEF Charge
<1>3. ContainerLimit \in Nat
  BY ContainersAssumption
<1>4. used' = used + Charge(None) - bufs[b].bytes /\ used' <= ContainerLimit
  BY <1>1, <1>2, <1>3, Charges
<1> QED
  BY <1>1, <1>4, BufPut

LEMMA CreateKeepsInv ==
    ASSUME ContainersInv, buf_create
    PROVE  ContainersInv'
<1> DEFINE c == Contents(<< >>)
<1>1. << >> \in Strings
  BY DEF Strings
<1>2. Weighed(c) /\ c.bytes = 0
  <2>1. SumOf(Costs(<< >>)) = 0
    <3>1. DOMAIN Costs(<< >>) = {}
      BY DEF Costs
    <3> QED
      BY <3>1, SumOfNone
  <2>2. Len(<< >>) * SlotBytes = 0
    BY ContainersAssumption
  <2>3. Weighed(Contents(<< >>)) /\ Contents(<< >>).bytes = Len(<< >>) * SlotBytes + SumOf(Costs(<< >>))
    BY <1>1, ContentsFacts
  <2> QED
    BY <2>1, <2>2, <2>3
<1>3. c \in BufferValues \cup {None} /\ c # None /\ Charge(c) = 0
  BY <1>2, WeighedShape
<1>4. bufs' = InSlot(bufs, c) /\ used' = used /\ UNCHANGED <<tables, gamestate, tokens>>
  BY DEF buf_create
<1> HIDE DEF c
<1>5. /\ bufs \in Seq(BufferValues \cup {None}) /\ Chargeable(bufs)
      /\ \A i \in DOMAIN bufs : bufs[i] # None => Weighed(bufs[i])
  BY BufsCharged DEF ContainersInv, BufsOK
<1>6. bufs' \in Seq(BufferValues \cup {None}) /\ ChargedTo(bufs') = ChargedTo(bufs) + Charge(c)
  BY <1>3, <1>4, <1>5, SlotTaken
<1>7. Took(bufs', bufs, c)
  BY <1>3, <1>4, <1>5, SlotTook
<1>8. BufsOK(bufs')
  BY <1>2, <1>5, <1>6, <1>7 DEF Took, BufsOK
<1>9. /\ used' = ChargedTo(tables') + ChargedTo(bufs') + EntriesOf(gamestate') + tokens'.bytes
      /\ used' <= ContainerLimit
  <2>1. /\ ChargedTo(tables') = ChargedTo(tables) /\ EntriesOf(gamestate') = EntriesOf(gamestate)
        /\ tokens'.bytes = tokens.bytes /\ ChargedTo(bufs') = ChargedTo(bufs) + 0
    BY <1>3, <1>4, <1>6
  <2> QED
    BY <1>4, <2>1, Charges
<1>10. TablesOK(tables') /\ GamestateOK(gamestate') /\ TokensOK(tokens')
  BY <1>4 DEF ContainersInv
<1> QED
  BY <1>8, <1>9, <1>10 DEF ContainersInv

LEMMA CopyKeepsInv ==
    ASSUME ContainersInv, NEW from, NEW to, buf_copy(from, to)
    PROVE  ContainersInv'
<1>1. IsBuf(from) /\ IsBuf(to) /\ Exchange(to, bufs[from])
  BY DEF buf_copy
<1>2. Weighed(bufs[from])
  BY <1>1, BufFound
<1> QED
  BY <1>1, <1>2, ExchangeKeepsInv

\* Products of sizes.
LEMMA Products ==
    ASSUME NEW a \in Int, NEW b \in Int, NEW c \in Int
    PROVE  (a + b) * c = a * c + b * c
OBVIOUS

LEMMA ProductsOrdered ==
    ASSUME NEW a \in Nat, NEW b \in Nat, a <= b, NEW c \in Nat
    PROVE  a * c <= b * c /\ a * c \in Nat
<1>1. PICK d \in Nat : b = a + d
  OBVIOUS
<1>2. b * c = a * c + d * c
  BY <1>1, Products
<1>3. d * c \in Nat /\ a * c \in Nat
  OBVIOUS
<1> QED
  BY <1>2, <1>3

\* set: the buffer grows with holes, and the entry's text is exchanged.
LEMMA WithTextFacts ==
    ASSUME NEW buf, Weighed(buf), NEW i \in Nat, NEW text \in Seq(Nat)
    PROVE  Weighed(WithText(buf, i, text)) /\ WithText(buf, i, text).bytes = BytesAfterSet(buf, i, text)
<1> DEFINE strings == buf.strings
           m == Len(strings)
           n == IF i < m THEN m ELSE i + 1
           grown == [k \in 1 .. n |-> TextAt(buf, k - 1)]
           new == [k \in 1 .. n |-> IF k = i + 1 THEN text ELSE TextAt(buf, k - 1)]
           f == Costs(strings)
           h == Costs(grown)
           g == Costs(new)
<1>1. strings \in Strings /\ buf.bytes = m * SlotBytes + SumOf(f) /\ buf.bytes \in Nat
  BY WeighedShape
<1>2. m \in Nat /\ DOMAIN strings = 1 .. m /\ \A k \in 1 .. m : strings[k] \in Seq(Nat) \cup {Hole}
  BY <1>1 DEF Strings
<1>3. n \in Nat /\ m <= n /\ i + 1 \in 1 .. n /\ (i < m => n = m) /\ (~(i < m) => n = i + 1)
  BY <1>2
<1>4. \A k \in 1 .. n : TextAt(buf, k - 1) = IF k <= m THEN strings[k] ELSE Hole
  BY <1>2, <1>3 DEF TextAt
<1> HIDE DEF strings, m, n
<1>5. grown \in Strings /\ Len(grown) = n /\ \A k \in 1 .. n : grown[k] = IF k <= m THEN strings[k] ELSE Hole
  <2>1. ASSUME NEW k \in 1 .. n PROVE TextAt(buf, k - 1) \in Seq(Nat) \cup {Hole}
    <3>1. k <= m => k \in 1 .. m
      BY <1>2, <1>3
    <3> QED
      BY <1>2, <1>4, <3>1
  <2>2. grown \in [1 .. n -> Seq(Nat) \cup {Hole}]
    BY <2>1
  <2>3. \A k \in 1 .. n : grown[k] = TextAt(buf, k - 1)
    OBVIOUS
  <2> HIDE DEF grown
  <2>4. grown \in Strings /\ Len(grown) = n
    BY <1>3, <2>2 DEF Strings
  <2> QED
    BY <1>4, <2>3, <2>4
<1>6. new \in Strings /\ Len(new) = n /\ \A k \in 1 .. n : new[k] = IF k = i + 1 THEN text ELSE grown[k]
  <2>1. ASSUME NEW k \in 1 .. n PROVE TextAt(buf, k - 1) \in Seq(Nat) \cup {Hole}
    <3>1. k <= m => k \in 1 .. m
      BY <1>2, <1>3
    <3> QED
      BY <1>2, <1>4, <3>1
  <2>2. new \in [1 .. n -> Seq(Nat) \cup {Hole}]
    BY <2>1
  <2>3. \A k \in 1 .. n : new[k] = IF k = i + 1 THEN text ELSE grown[k]
    OBVIOUS
  <2> HIDE DEF new
  <2>4. new \in Strings /\ Len(new) = n
    BY <1>3, <2>2 DEF Strings
  <2> QED
    BY <2>3, <2>4
<1>7. WithText(buf, i, text) = [strings |-> new, bytes |-> BytesAfterSet(buf, i, text)]
  BY DEF WithText, n, m, strings
<1>8. TextAt(buf, i) = grown[i + 1]
  <2>1. i + 1 - 1 = i
    OBVIOUS
  <2>2. grown[i + 1] = TextAt(buf, i + 1 - 1)
    BY <1>3
  <2> QED
    BY <2>1, <2>2
<1> HIDE DEF grown, new
<1>9. f \in [1 .. m -> Nat] /\ (\A k \in 1 .. m : f[k] = TextCost(strings[k])) /\ SumOf(f) \in Nat
  BY <1>1, CostsTyped DEF m
<1>10. h \in [1 .. n -> Nat] /\ (\A k \in 1 .. n : h[k] = TextCost(grown[k])) /\ IsFiniteSet(1 .. n)
  BY <1>5, CostsTyped
<1>11. g \in [1 .. n -> Nat] /\ (\A k \in 1 .. n : g[k] = TextCost(new[k]))
  BY <1>6, CostsTyped
<1>12. SumOf(h) = SumOf(f)
  <2>1. \A k \in 1 .. m : h[k] = f[k]
    BY <1>2, <1>3, <1>5, <1>9, <1>10
  <2>2. \A k \in 1 .. n : k > m => h[k] = 0
    <3>1. TextCost(Hole) = 0
      BY DEF TextCost
    <3> QED
      BY <1>2, <1>3, <1>5, <1>10, <3>1
  <2> HIDE DEF f, h
  <2> QED
    BY <1>2, <1>3, <1>9, <1>10, <2>1, <2>2, SumExtended
<1>13. SumOf(g) = SumOf(h) - h[i + 1] + g[i + 1] /\ h[i + 1] <= SumOf(h)
  <2>1. \A k \in 1 .. n : k # i + 1 => g[k] = h[k]
    BY <1>6, <1>10, <1>11
  <2> HIDE DEF g, h
  <2>2. PICK x \in 1 .. n : x = i + 1
    BY <1>3
  <2>3. IsFiniteSet(1 .. n) /\ h \in [1 .. n -> Nat] /\ g \in [1 .. n -> Nat]
    BY <1>10, <1>11
  <2>4. \A k \in 1 .. n : k # x => g[k] = h[k]
    BY <2>1, <2>2
  <2>5. SumOf(g) = SumOf(h) - h[x] + g[x] /\ h[x] <= SumOf(h)
    BY <2>3, <2>4, SumReplaced
  <2> QED
    BY <2>2, <2>5
<1>14. h[i + 1] = TextCost(TextAt(buf, i)) /\ g[i + 1] = Len(text) /\ h[i + 1] \in Nat /\ g[i + 1] \in Nat
  BY <1>3, <1>6, <1>8, <1>10, <1>11, TextCosts
<1>15. Contents(new).bytes = n * SlotBytes + SumOf(g) /\ Weighed(Contents(new)) /\ Contents(new).strings = new
       /\ Contents(new).bytes \in Nat
  BY <1>6, ContentsFacts
<1>16. BytesAfterSet(buf, i, text) = Contents(new).bytes
  <2>1. BytesAfterSet(buf, i, text) =
          buf.bytes + (n - m) * SlotBytes + Len(text) - TextCost(TextAt(buf, i))
    <3>1. BytesAfterSet(buf, i, text) = buf.bytes + (IF i < m THEN 0 ELSE i + 1 - m) * SlotBytes
            + Len(text) - TextCost(TextAt(buf, i))
      BY DEF BytesAfterSet, m, strings
    <3>2. (IF i < m THEN 0 ELSE i + 1 - m) = n - m
      BY <1>2, <1>3
    <3> QED
      BY <3>1, <3>2
  <2>2. (n - m) * SlotBytes + m * SlotBytes = n * SlotBytes
    <3>1. SlotBytes \in Int /\ n - m \in Int /\ m \in Int /\ (n - m) + m = n
      BY <1>2, <1>3, ContainersAssumption
    <3> QED
      BY <3>1, Products
  <2>3. PICK x \in Int : x = (n - m) * SlotBytes
    BY <1>2, <1>3, ContainersAssumption
  <2>4. PICK y \in Int : y = m * SlotBytes
    BY <1>2, ContainersAssumption
  <2>5. PICK z \in Int : z = n * SlotBytes
    BY <1>3, ContainersAssumption
  <2> HIDE DEF f, g, h
  <2>6. BytesAfterSet(buf, i, text) = y + SumOf(f) + x + g[i + 1] - h[i + 1]
    BY <1>1, <1>14, <2>1, <2>3, <2>4
  <2>7. Contents(new).bytes = z + (SumOf(f) - h[i + 1] + g[i + 1])
    BY <1>12, <1>13, <1>15, <2>5
  <2>8. x + y = z
    BY <2>2, <2>3, <2>4, <2>5
  <2>9. PICK p, q, a \in Int : p = h[i + 1] /\ q = g[i + 1] /\ a = SumOf(f)
    BY <1>9, <1>14
  <2>10. BytesAfterSet(buf, i, text) = y + a + x + q - p /\ Contents(new).bytes = z + (a - p + q)
    BY <2>6, <2>7, <2>9
  <2>11. y + a + x + q - p = z + (a - p + q)
    BY <2>8
  <2> QED
    BY <2>10, <2>11
<1>17. WithText(buf, i, text) = Contents(new)
  <2>1. Contents(new) = [strings |-> Contents(new).strings, bytes |-> Contents(new).bytes]
    BY DEF Contents
  <2> QED
    BY <1>7, <1>15, <1>16, <2>1
<1> QED
  BY <1>15, <1>16, <1>17

LEMMA StoreKeepsInv ==
    ASSUME ContainersInv, NEW b, IsBuf(b), NEW i \in Nat, NEW text \in Texts, Store(b, i, text)
    PROVE  ContainersInv'
<1> DEFINE c == WithText(bufs[b], i, text)
<1>1. text \in Seq(Nat)
  BY ContainersAssumption
<1>2. Weighed(bufs[b])
  BY BufFound
<1>3. Weighed(c) /\ c.bytes = BytesAfterSet(bufs[b], i, text)
  BY <1>1, <1>2, WithTextFacts
<1>4. Exchange(b, c)
  BY <1>3 DEF Store, Exchange
<1> HIDE DEF c
<1> QED
  BY <1>3, <1>4, ExchangeKeepsInv

LEMMA SetKeepsInv ==
    ASSUME ContainersInv, NEW b, NEW i \in Nat, NEW text \in Texts, bufstr_set(b, i, text)
    PROVE  ContainersInv'
BY StoreKeepsInv DEF bufstr_set

LEMMA AddStrKeepsInv ==
    ASSUME ContainersInv, NEW b, NEW text \in Texts, NEW ordered, bufstr_add(b, text, ordered)
    PROVE  ContainersInv'
<1> DEFINE i == AddIndex(bufs[b], ordered)
           strings == bufs[b].strings
           holes == {k \in DOMAIN strings : strings[k] = Hole}
<1>1. IsBuf(b) /\ Store(b, i, text)
  BY DEF bufstr_add
<1>2. strings \in Strings
  BY <1>1, BufFound, WeighedShape
<1>3. Len(strings) \in Nat /\ holes \subseteq 1 .. Len(strings)
  BY <1>2 DEF Strings
<1>4. i = IF ordered \/ holes = {} THEN Len(strings) ELSE Min(holes) - 1
  BY DEF AddIndex
<1>5. i \in Nat
  <2>1. CASE ordered \/ holes = {}
    BY <1>3, <1>4, <2>1
  <2>2. CASE ~(ordered \/ holes = {})
    <3> HIDE DEF holes, strings, i
    <3>1. holes \subseteq Nat /\ holes # {}
      BY <1>3, <2>2
    <3>2. Min(holes) \in holes
      BY <3>1, MinOfNats
    <3>4. PICK k \in 1 .. Len(strings) : k = Min(holes)
      BY <1>3, <3>2
    <3>3. Min(holes) - 1 \in Nat
      BY <1>3, <3>4
    <3> QED
      BY <1>4, <2>2, <3>3
  <2> QED
    BY <2>1, <2>2
<1> HIDE DEF i
<1> QED
  BY <1>1, <1>5, StoreKeepsInv

LEMMA FreeKeepsInv ==
    ASSUME ContainersInv, NEW b, NEW i \in Nat, bufstr_free(b, i)
    PROVE  ContainersInv'
<1> DEFINE buf == bufs[b]
           strings == buf.strings
           cost == TextCost(TextAt(buf, i))
           new == [strings EXCEPT ![i + 1] = Hole]
           f == Costs(strings)
           g == Costs(new)
           n == Len(strings)
           c == [buf EXCEPT !.strings = new, !.bytes = buf.bytes - cost]
<1>1. /\ IsBuf(b) /\ i < n
      /\ bufs' = [bufs EXCEPT ![b].strings[i + 1] = Hole, ![b].bytes = @ - cost]
      /\ used' = used - cost /\ UNCHANGED <<tables, gamestate, tokens>>
  BY DEF bufstr_free
<1>2. Weighed(buf)
  BY <1>1, BufFound
<1>3. /\ strings \in Strings /\ buf.bytes \in Nat /\ buf \in BufferValues
      /\ buf.bytes = n * SlotBytes + SumOf(f)
  BY <1>2, WeighedShape
<1>4. /\ n \in Nat /\ i + 1 \in DOMAIN strings /\ DOMAIN strings = 1 .. n
      /\ strings \in Seq(Seq(Nat) \cup {Hole})
  BY <1>1, <1>3 DEF Strings
<1>5. cost = TextCost(strings[i + 1])
  BY <1>1 DEF TextAt
<1>6. new \in Strings /\ Placed(new, strings, i + 1, Hole)
  <2>1. Hole \in Seq(Nat) \cup {Hole}
    OBVIOUS
  <2> HIDE DEF new, strings
  <2> QED
    BY <1>4, <2>1, ExceptPlaces DEF Strings, new
<1>7. bufs' = [bufs EXCEPT ![b] = c]
  BY <1>1
<1>8. c \in [strings : Strings, bytes : Int] /\ c.strings = new /\ c.bytes = buf.bytes - cost
  <2>1. cost \in Int
    <3>1. f \in [1 .. n -> Nat] /\ f[i + 1] = TextCost(strings[i + 1])
      BY <1>3, <1>4, CostsTyped
    <3> HIDE DEF f, n, strings, cost
    <3> QED
      BY <1>4, <1>5, <3>1
  <2>2. buf \in [strings : Strings, bytes : Int]
    BY <1>3 DEF BufferValues, Strings
  <2>3. PICK left \in Int : left = buf.bytes - cost
    BY <1>3, <2>1
  <2>4. new \in Strings
    BY <1>6
  <2> HIDE DEF cost, new, buf
  <2>5. c = [buf EXCEPT !.strings = new, !.bytes = left]
    BY <2>3
  <2> HIDE DEF c
  <2> QED
    BY ONLY <2>2, <2>3, <2>4, <2>5
<1> HIDE DEF c, new, cost, strings, buf
<1>9. f \in [1 .. n -> Nat] /\ (\A k \in 1 .. n : f[k] = TextCost(strings[k])) /\ IsFiniteSet(1 .. n)
  BY <1>3, CostsTyped
<1>10. /\ Len(new) = n /\ new[i + 1] = Hole
       /\ \A k \in 1 .. n : k # i + 1 => new[k] = strings[k]
  BY <1>6 DEF Placed
<1>11. g \in [1 .. n -> Nat] /\ (\A k \in 1 .. n : g[k] = TextCost(new[k]))
  BY <1>6, <1>10, CostsTyped
<1>12. g[i + 1] = 0 /\ f[i + 1] = cost /\ i + 1 \in 1 .. n
  <2>1. TextCost(Hole) = 0
    BY DEF TextCost
  <2> QED
    BY <1>4, <1>5, <1>9, <1>10, <1>11, <2>1
<1>13. SumOf(g) = SumOf(f) - cost /\ cost \in Nat /\ cost <= SumOf(f) /\ SumOf(f) \in Nat
  <2>1. \A k \in 1 .. n : k # i + 1 => g[k] = f[k]
    BY <1>9, <1>10, <1>11
  <2> HIDE DEF f, g
  <2>4. PICK x \in 1 .. n : x = i + 1
    BY <1>12
  <2>5. \A k \in 1 .. n : k # x => g[k] = f[k]
    BY <2>1, <2>4
  <2>6. SumOf(g) = SumOf(f) - f[x] + g[x] /\ f[x] <= SumOf(f) /\ SumOf(f) \in Nat /\ SumOf(g) \in Nat
    <3>1. IsFiniteSet(1 .. n) /\ f \in [1 .. n -> Nat] /\ g \in [1 .. n -> Nat]
      BY <1>9, <1>11
    <3> QED
      BY <2>5, <3>1, SumReplaced
  <2>2. SumOf(g) = SumOf(f) - f[i + 1] + g[i + 1] /\ f[i + 1] <= SumOf(f) /\ SumOf(f) \in Nat /\ SumOf(g) \in Nat
    BY <2>4, <2>6
  <2>3. f[i + 1] \in Nat
    BY <1>9, <1>12
  <2> QED
    BY <1>12, <2>2, <2>3
<1> HIDE DEF f, g
<1>14. Contents(new).bytes = n * SlotBytes + SumOf(Costs(new)) /\ Contents(new).bytes \in Nat
  BY <1>6, <1>10, ContentsFacts
<1>15. c.bytes = Contents(new).bytes
  <2>1. PICK x \in Int : x = n * SlotBytes
    BY <1>4, ContainersAssumption
  <2>2. buf.bytes = x + SumOf(f) /\ Contents(new).bytes = x + SumOf(g)
    BY <1>3, <1>14, <2>1 DEF g
  <2> QED
    BY <1>8, <1>13, <2>1, <2>2
<1>16. Weighed(c)
  <2>1. c.strings = new /\ c \in [strings : Strings, bytes : Nat]
    BY <1>8, <1>14, <1>15
  <2> QED
    BY <1>15, <2>1 DEF Weighed, BufferValues, Strings
<1>17. used' = used + Charge(c) - buf.bytes /\ used' <= ContainerLimit
  <2>1. Charge(c) = c.bytes
    BY <1>16, WeighedShape
  <2>2. ContainerLimit \in Nat
    BY ContainersAssumption
  <2> QED
    <3>1. PICK k \in Nat, d \in Nat : k = buf.bytes /\ d = cost
      BY <1>3, <1>13
    <3>2. Charge(c) = k - d /\ used' = used - d
      BY <1>1, <1>8, <2>1, <3>1
    <3> QED
      BY <2>2, <3>1, <3>2, Charges
<1> QED
  BY <1>1, <1>7, <1>16, <1>17, BufPut DEF buf

LEMMA LinesAreStrings ==
    ASSUME NEW lines \in Seq(Seq(Nat))
    PROVE  lines \in Strings
<1>1. Seq(Nat) \subseteq Seq(Nat) \cup {Hole}
  OBVIOUS
<1> QED
  BY <1>1, SeqMonotonic DEF Strings

\* An order is a list of the places, each once.
LEMMA OrderShape ==
    ASSUME NEW texts, NEW places, NEW prefix, NEW backward, NEW p \in Orders(texts, places, prefix, backward)
    PROVE  p \in [1 .. Cardinality(places) -> places] /\ Range(p) = places
BY DEF Orders

LEMMA OrderedTexts ==
    ASSUME NEW strings \in Strings, NEW S, S \subseteq {i \in DOMAIN strings : strings[i] # Hole},
           NEW p \in [1 .. Cardinality(S) -> S], Range(p) = S,
           \A i \in DOMAIN strings : i \notin S => strings[i] = Hole
    PROVE  /\ Ordered(strings, p) \in Seq(Seq(Nat))
           /\ Len(Ordered(strings, p)) = Cardinality(S) /\ Cardinality(S) \in Nat /\ Cardinality(S) <= Len(strings)
           /\ SumOf(Costs(Ordered(strings, p))) = SumOf(Costs(strings))
<1> DEFINE n == Len(strings)
           m == Cardinality(S)
           new == Ordered(strings, p)
           f == Costs(strings)
           g == Costs(new)
<1>1. /\ DOMAIN strings = 1 .. n /\ n \in Nat /\ IsFiniteSet(1 .. n) /\ f \in [1 .. n -> Nat]
      /\ \A i \in 1 .. n : f[i] = TextCost(strings[i])
  BY CostsTyped
<1>2. m \in Nat /\ m <= n
  <2>1. S \in SUBSET (1 .. n) /\ Cardinality(1 .. n) = n
    BY <1>1, FS_Interval
  <2>2. IsFiniteSet(S) /\ Cardinality(S) <= Cardinality(1 .. n)
    BY <1>1, <2>1, FS_Subset
  <2> QED
    BY <2>1, <2>2, FS_CardinalityType
<1>3. \A i \in S : strings[i] \in Seq(Nat)
  BY DEF Strings
<1>4. new \in [1 .. m -> Seq(Nat)] /\ \A i \in 1 .. m : new[i] = strings[p[i]]
  BY <1>3 DEF Ordered
<1> HIDE DEF new, m
<1>5. new \in Seq(Seq(Nat)) /\ Len(new) = m
  BY <1>2, <1>4
<1>6. new \in Strings
  BY <1>5, LinesAreStrings
<1>7. g \in [1 .. m -> Nat] /\ \A i \in 1 .. m : g[i] = TextCost(new[i])
  BY <1>5, <1>6, CostsTyped
<1>8. \A i \in 1 .. m : g[i] = f[p[i]]
  BY <1>1, <1>4, <1>7 DEF m
<1>9. \A i \in 1 .. n : i \notin S => f[i] = 0
  <2>1. TextCost(Hole) = 0
    BY DEF TextCost
  <2> QED
    BY <1>1, <2>1
<1>10. SumOf(g) = SumOf(f)
  <2> HIDE DEF f, g
  <2>1. S \subseteq 1 .. n
    BY <1>1
  <2> HIDE DEF n
  <2>2. n \in Nat /\ f \in [1 .. n -> Nat] /\ g \in [1 .. Cardinality(S) -> Nat]
    BY <1>1, <1>7 DEF m
  <2>3. Arranged(g, f, p, S, n)
    BY <1>8, <1>9, <2>1 DEF m, Arranged
  <2> QED
    BY <2>2, <2>3, SumArranged
<1> QED
  BY <1>2, <1>5, <1>10 DEF m, new

LEMMA SortKeepsInv ==
    ASSUME ContainersInv, NEW b, NEW prefix, NEW backward, buf_sort(b, prefix, backward)
    PROVE  ContainersInv'
<1> DEFINE strings == bufs[b].strings
           texts == {i \in DOMAIN strings : strings[i] # Hole}
<1>1. IsBuf(b)
  BY DEF buf_sort
<1>2. PICK p \in Orders(strings, texts, prefix, backward) :
        LET contents == Contents(Ordered(strings, p)) IN
        IF CanRecharge(bufs[b].bytes, contents.bytes) THEN Exchange(b, contents)
        ELSE /\ bufs' = [bufs EXCEPT ![b].strings = << >>]
             /\ UNCHANGED <<tables, gamestate, tokens, used>>
  BY DEF buf_sort
<1>3. /\ strings \in Strings /\ bufs[b].bytes = Len(strings) * SlotBytes + SumOf(Costs(strings))
      /\ bufs[b].bytes \in Nat
  BY <1>1, BufFound, WeighedShape
<1>4. p \in [1 .. Cardinality(texts) -> texts] /\ Range(p) = texts
  <2> HIDE DEF texts, strings
  <2> QED
    BY OrderShape
<1>5. \A i \in DOMAIN strings : i \notin texts => strings[i] = Hole
  OBVIOUS
<1>6. texts \subseteq {i \in DOMAIN strings : strings[i] # Hole}
  OBVIOUS
<1> DEFINE new == Ordered(strings, p)
           contents == Contents(new)
<1>7. IF CanRecharge(bufs[b].bytes, contents.bytes) THEN Exchange(b, contents)
      ELSE /\ bufs' = [bufs EXCEPT ![b].strings = << >>]
           /\ UNCHANGED <<tables, gamestate, tokens, used>>
  BY <1>2
<1> HIDE DEF texts, strings, new, contents
<1>8. /\ new \in Seq(Seq(Nat)) /\ Len(new) = Cardinality(texts) /\ Cardinality(texts) \in Nat
      /\ Cardinality(texts) <= Len(strings)
      /\ SumOf(Costs(new)) = SumOf(Costs(strings))
  BY <1>3, <1>4, <1>5, <1>6, OrderedTexts DEF new
<1>9. new \in Strings
  BY <1>8, LinesAreStrings
<1>10. /\ Weighed(contents) /\ contents.bytes \in Nat
       /\ contents.bytes = Len(new) * SlotBytes + SumOf(Costs(new))
  BY <1>9, ContentsFacts DEF contents
<1>11. contents.bytes <= bufs[b].bytes
  <2>1. Len(strings) \in Nat /\ SumOf(Costs(strings)) \in Nat
    BY <1>3, CostsTyped
  <2>2. SlotBytes \in Nat /\ Len(new) \in Nat /\ Len(new) <= Len(strings)
    BY <1>8, ContainersAssumption
  <2>3. Len(new) * SlotBytes <= Len(strings) * SlotBytes
    BY <2>1, <2>2, ProductsOrdered
  <2>4. PICK x, y \in Int : x = Len(new) * SlotBytes /\ y = Len(strings) * SlotBytes
    BY <2>1, <2>2
  <2>5. contents.bytes = x + SumOf(Costs(strings)) /\ bufs[b].bytes = y + SumOf(Costs(strings)) /\ x <= y
    BY <1>3, <1>8, <1>10, <2>3, <2>4
  <2> QED
    BY <2>1, <2>5
<1>12. CanRecharge(bufs[b].bytes, contents.bytes)
  <2>1. used \in Nat /\ used <= ContainerLimit
    BY Charges
  <2>2. contents.bytes < bufs[b].bytes \/ contents.bytes - bufs[b].bytes = 0
    BY <1>3, <1>10, <1>11
  <2> QED
    BY <2>1, <2>2 DEF CanRecharge, CanCharge
<1>13. Exchange(b, contents)
  BY <1>7, <1>12
<1> QED
  BY <1>1, <1>10, <1>13, ExchangeKeepsInv

LEMMA CvarlistKeepsInv ==
    ASSUME ContainersInv, NEW b, NEW names \in Lines, buf_cvarlist(b, names)
    PROVE  ContainersInv'
<1>1. IsBuf(b)
  BY DEF buf_cvarlist
<1>2. PICK p \in Orders(names, DOMAIN names, 0, FALSE) :
        Exchange(b, Contents(SubSeq(Ordered(names, p), 1, Lesser(Len(names), EntriesLimit))))
  BY DEF buf_cvarlist
<1>3. names \in Seq(Seq(Nat)) /\ EntriesLimit \in Nat
  BY ContainersAssumption
<1>4. p \in [1 .. Cardinality(DOMAIN names) -> DOMAIN names]
  BY OrderShape
<1>5. Cardinality(DOMAIN names) = Len(names) /\ Len(names) \in Nat /\ DOMAIN names = 1 .. Len(names)
  <2>1. DOMAIN names = 1 .. Len(names) /\ Len(names) \in Nat
    BY <1>3
  <2>3. PICK n \in Nat : n = Len(names)
    BY <2>1
  <2>4. Cardinality(1 .. n) = n
    BY FS_Interval
  <2>2. Cardinality(1 .. Len(names)) = Len(names)
    BY <2>3, <2>4
  <2> QED
    BY <2>1, <2>2
<1> DEFINE list == Ordered(names, p)
           k == Lesser(Len(names), EntriesLimit)
           kept == SubSeq(list, 1, k)
<1>6. list \in [1 .. Len(names) -> Seq(Nat)]
  BY <1>3, <1>4, <1>5 DEF Ordered
<1>7. k \in Int /\ k <= Len(names)
  BY <1>3, <1>5 DEF Lesser
<1> HIDE DEF list, k
<1>8. \A i \in 1 .. k : list[i] \in Seq(Nat)
  BY <1>5, <1>6, <1>7
<1>9. kept \in Seq(Seq(Nat))
  BY <1>7, <1>8, SubSeqProperties
<1>10. Exchange(b, Contents(kept))
  BY <1>2 DEF list, k
<1> HIDE DEF kept
<1>11. Weighed(Contents(kept))
  BY <1>9, LinesAreStrings, ContentsFacts
<1> QED
  BY <1>1, <1>10, <1>11, ExchangeKeepsInv

LEMMA WithLinesFacts ==
    ASSUME NEW buf, Weighed(buf), NEW lines \in Seq(Seq(Nat)), NEW n \in 0 .. Len(lines)
    PROVE  Weighed(WithLines(buf, lines, n))
<1> DEFINE strings == buf.strings
           more == SubSeq(lines, 1, n)
           new == strings \o more
           m == Len(strings)
           f == Costs(strings)
           g == [i \in 1 .. n |-> Len(lines[i])]
           h == Costs(new)
<1>1. strings \in Strings /\ buf.bytes = m * SlotBytes + SumOf(f) /\ buf.bytes \in Nat
  BY WeighedShape
<1>2. /\ f \in [1 .. m -> Nat] /\ (\A i \in 1 .. m : f[i] = TextCost(strings[i])) /\ SumOf(f) \in Nat
      /\ m \in Nat
  BY <1>1, CostsTyped
<1>3. Len(lines) \in Nat /\ \A i \in 1 .. Len(lines) : lines[i] \in Seq(Nat)
  OBVIOUS
<1>4. n \in Nat /\ \A i \in 1 .. n : lines[i] \in Seq(Nat)
  BY <1>3
<1>5. more \in Seq(Seq(Nat)) /\ Len(more) = n /\ \A i \in 1 .. n : more[i] = lines[i]
  <2>1. 1 \in Int /\ n \in Int
    BY <1>4
  <2>2. /\ more \in Seq(Seq(Nat)) /\ Len(more) = (IF 1 <= n THEN n - 1 + 1 ELSE 0)
        /\ \A i \in 1 .. n - 1 + 1 : more[i] = lines[1 + i - 1]
    BY <1>4, <2>1, SubSeqProperties
  <2> HIDE DEF more
  <2>3. Len(more) = n
    BY <1>4, <2>2
  <2>4. ASSUME NEW i \in 1 .. n PROVE more[i] = lines[i]
    <3>1. i \in 1 .. n - 1 + 1 /\ 1 + i - 1 = i
      BY <1>4
    <3> QED
      BY <2>2, <3>1
  <2> QED
    BY <2>2, <2>3, <2>4
<1>6. \A i \in 1 .. n : TextCost(more[i]) = Len(lines[i]) /\ Len(lines[i]) \in Nat
  BY <1>4, <1>5, TextCosts
<1>7. g \in [1 .. n -> Nat] /\ \A i \in 1 .. n : g[i] = TextCost(more[i])
  BY <1>6
<1> HIDE DEF more, g
<1>8. /\ new \in Strings /\ Len(new) = m + n
      /\ \A i \in 1 .. m : new[i] = strings[i]
      /\ \A i \in 1 .. n : new[m + i] = more[i]
  <2>1. more \in Strings /\ strings \in Strings
    BY <1>1, <1>5, LinesAreStrings
  <2> HIDE DEF strings
  <2>2. /\ strings \o more \in Seq(Seq(Nat) \cup {Hole}) /\ Len(strings \o more) = Len(strings) + Len(more)
        /\ \A i \in 1 .. Len(strings) + Len(more) : (strings \o more)[i] =
                 IF i <= Len(strings) THEN strings[i] ELSE more[i - Len(strings)]
    BY <2>1, ConcatProperties DEF Strings
  <2>3. ASSUME NEW i \in 1 .. n PROVE new[m + i] = more[i]
    <3>1. m + i \in 1 .. Len(strings) + Len(more) /\ ~(m + i <= Len(strings)) /\ m + i - Len(strings) = i
      BY <1>2, <1>4, <1>5
    <3> QED
      BY <2>2, <3>1
  <2>4. ASSUME NEW i \in 1 .. m PROVE new[i] = strings[i]
    <3>1. i \in 1 .. Len(strings) + Len(more) /\ i <= Len(strings)
      BY <1>2, <1>4, <1>5
    <3> QED
      BY <2>2, <3>1
  <2> QED
    BY <1>5, <2>2, <2>3, <2>4 DEF Strings
<1>9. WithLines(buf, lines, n) = [strings |-> new, bytes |-> buf.bytes + n * SlotBytes + SumOf(g)]
  BY DEF WithLines, g, more
<1> HIDE DEF new, strings, m
<1>10. h \in [1 .. m + n -> Nat] /\ \A i \in 1 .. m + n : h[i] = TextCost(new[i])
  BY <1>8, CostsTyped
<1>11. SumOf(h) = SumOf(f) + SumOf(g) /\ SumOf(g) \in Nat
  <2>1. \A i \in 1 .. m : h[i] = f[i]
    <3> TAKE i \in 1 .. m
    <3>1. i \in 1 .. m + n
      BY <1>2, <1>4
    <3> QED
      BY <1>2, <1>8, <1>10, <3>1
  <2>2. \A i \in 1 .. n : h[m + i] = g[i]
    <3> TAKE i \in 1 .. n
    <3>1. m + i \in 1 .. m + n
      BY <1>2, <1>4
    <3> QED
      BY <1>7, <1>8, <1>10, <3>1
  <2>3. m \in Nat /\ n \in Nat /\ f \in [1 .. m -> Nat] /\ g \in [1 .. n -> Nat] /\ h \in [1 .. m + n -> Nat]
    BY <1>2, <1>4, <1>7, <1>10
  <2>4. Joined(h, f, g, m, n)
    BY <2>1, <2>2 DEF Joined
  <2> HIDE DEF f, h
  <2> QED
    BY <2>3, <2>4, SumJoined
<1>12. /\ Weighed(Contents(new)) /\ Contents(new).strings = new
       /\ Contents(new).bytes = (m + n) * SlotBytes + SumOf(h)
  BY <1>8, ContentsFacts
<1>13. WithLines(buf, lines, n) = Contents(new)
  <2>1. (m + n) * SlotBytes = m * SlotBytes + n * SlotBytes
    BY <1>2, <1>4, ContainersAssumption, Products
  <2>7. SlotBytes \in Nat
    BY ContainersAssumption
  <2>2. PICK x, y \in Int : x = m * SlotBytes /\ y = n * SlotBytes
    BY <1>2, <1>4, <2>7
  <2> HIDE DEF f, h
  <2>3. Contents(new).bytes = x + y + (SumOf(f) + SumOf(g))
    BY <1>11, <1>12, <2>1, <2>2
  <2>4. buf.bytes + n * SlotBytes + SumOf(g) = x + SumOf(f) + y + SumOf(g)
    BY <1>1, <2>2
  <2>5. x + SumOf(f) + y + SumOf(g) = x + y + (SumOf(f) + SumOf(g))
    BY <1>2, <1>11
  <2>6. Contents(new) = [strings |-> Contents(new).strings, bytes |-> Contents(new).bytes]
    BY DEF Contents
  <2> QED
    BY <1>9, <1>12, <2>3, <2>4, <2>5, <2>6
<1> QED
  BY <1>12, <1>13

LEMMA LoadfileKeepsInv ==
    ASSUME ContainersInv, NEW b, NEW lines \in Lines, buf_loadfile(b, lines)
    PROVE  ContainersInv'
<1>1. IsBuf(b)
  BY DEF buf_loadfile
<1>2. PICK n \in 0 .. Len(lines) : Exchange(b, WithLines(bufs[b], lines, n))
  BY DEF buf_loadfile
<1>3. lines \in Seq(Seq(Nat))
  BY ContainersAssumption
<1>4. Weighed(bufs[b])
  BY <1>1, BufFound
<1>5. Weighed(WithLines(bufs[b], lines, n))
  BY <1>3, <1>4, WithLinesFacts
<1> QED
  BY <1>1, <1>2, <1>5, ExchangeKeepsInv

-----------------------------------------------------------------------------
(* The token list.                                                         *)

Lengths(list) == [i \in DOMAIN list |-> Len(list[i])]
Spent(list, n) == SumOf([i \in 1 .. n |-> 2 * TokenBytes + Len(list[i])])
Paid(list) == {n \in 0 .. Len(list) : Spent(list, n) <= TokenBudget}

\* What a list of tokens is charged.
LEMMA ListCosts ==
    ASSUME NEW list \in Seq(Seq(Nat))
    PROVE  /\ ListBytes(list) = Len(list) * TokenBytes + SumOf(Lengths(list)) /\ ListBytes(list) \in Nat
           /\ Lengths(list) \in [1 .. Len(list) -> Nat] /\ IsFiniteSet(1 .. Len(list))
           /\ \A i \in 1 .. Len(list) : Lengths(list)[i] = Len(list[i])
           /\ SumOf(Lengths(list)) = Total(Lengths(list), 1 .. Len(list)) /\ SumOf(Lengths(list)) \in Nat
<1>1. /\ Len(list) \in Nat /\ DOMAIN list = 1 .. Len(list)
      /\ \A i \in 1 .. Len(list) : Len(list[i]) \in Nat
  OBVIOUS
<1>2. /\ Lengths(list) \in [1 .. Len(list) -> Nat]
      /\ \A i \in 1 .. Len(list) : Lengths(list)[i] = Len(list[i])
  BY <1>1 DEF Lengths
<1>3. IsFiniteSet(1 .. Len(list))
  BY <1>1, FS_Interval
<1>4. /\ SumOf(Lengths(list)) = Total(Lengths(list), 1 .. Len(list))
      /\ SumOf(Lengths(list)) \in Nat
  BY <1>2, <1>3, SumNat
<1>5. ListBytes(list) = Len(list) * TokenBytes + SumOf(Lengths(list))
  BY DEF ListBytes, Lengths
<1>6. TokenBytes \in Nat
  BY ContainersAssumption
<1>7. PICK x \in Nat : x = Len(list) * TokenBytes
  BY <1>1, <1>6
<1>8. ListBytes(list) \in Nat
  BY <1>4, <1>5, <1>7
<1> QED
  BY <1>2, <1>3, <1>4, <1>5, <1>8

LEMMA EmptyListCosts == ListBytes(<< >>) = 0
<1>1. Len(<< >>) = 0 /\ DOMAIN Lengths(<< >>) = {}
  BY DEF Lengths
<1>2. SumOf(Lengths(<< >>)) = 0
  BY <1>1, SumOfNone
<1>3. TokenBytes \in Nat
  BY ContainersAssumption
<1>4. 0 * TokenBytes = 0
  BY <1>3
<1> QED
  BY <1>1, <1>2, <1>4 DEF ListBytes, Lengths

\* The tokens a list is cut to cost no more than is left.
LEMMA AffordableFacts ==
    ASSUME ContainersInv, NEW texts \in Seq(Seq(Nat))
    PROVE  /\ Affordable(texts) \in Seq(Seq(Nat))
           /\ used - tokens.bytes + ListBytes(Affordable(texts)) <= ContainerLimit
<1> DEFINE paid == Paid(texts)
           m == Max(paid)
           list == SubSeq(texts, 1, m)
<1>1. Affordable(texts) = list
  BY DEF Affordable, Paid, Spent
<1>2. ContainerLimit \in Nat /\ TokenBytes \in Nat
  BY ContainersAssumption
<1>3. TokenBudget \in Nat /\ TokenBudget = ContainerLimit - (used - tokens.bytes)
  <2>1. TokenBudget = ContainerLimit - (used - tokens.bytes)
    BY DEF TokenBudget
  <2>2. PICK u, k \in Nat : u = used /\ k = tokens.bytes
    BY Charges
  <2>3. u - k <= ContainerLimit
    BY <1>2, <2>2, Charges
  <2> QED
    BY <1>2, <2>1, <2>2, <2>3
<1>4. Len(texts) \in Nat /\ DOMAIN texts = 1 .. Len(texts) /\ \A i \in 1 .. Len(texts) : texts[i] \in Seq(Nat)
  OBVIOUS
<1>5. 0 \in paid
  <2>1. DOMAIN [i \in 1 .. 0 |-> 2 * TokenBytes + Len(texts[i])] = {}
    OBVIOUS
  <2>2. Spent(texts, 0) = 0
    BY <2>1, SumOfNone DEF Spent
  <2> QED
    BY <1>3, <1>4, <2>2 DEF Paid
<1>6. paid \subseteq 0 .. Len(texts)
  BY DEF Paid
<1> HIDE DEF paid
<1>7. m \in paid
  BY <1>4, <1>5, <1>6, MaxOfNats
<1>8. m \in 0 .. Len(texts) /\ Spent(texts, m) <= TokenBudget
  BY <1>7 DEF paid, Paid
<1> HIDE DEF m
<1>9. m \in Nat /\ \A i \in 1 .. m : texts[i] \in Seq(Nat)
  BY <1>4, <1>8
<1>10. list \in Seq(Seq(Nat)) /\ Len(list) = m /\ \A i \in 1 .. m : list[i] = texts[i]
  <2>1. 1 \in Int /\ m \in Int
    BY <1>9
  <2>2. /\ list \in Seq(Seq(Nat)) /\ Len(list) = (IF 1 <= m THEN m - 1 + 1 ELSE 0)
        /\ \A i \in 1 .. m - 1 + 1 : list[i] = texts[1 + i - 1]
    BY <1>9, <2>1, SubSeqProperties
  <2> HIDE DEF list
  <2>3. Len(list) = m
    BY <1>9, <2>2
  <2>4. ASSUME NEW i \in 1 .. m PROVE list[i] = texts[i]
    <3>1. i \in 1 .. m - 1 + 1 /\ 1 + i - 1 = i
      BY <1>9
    <3> QED
      BY <2>2, <3>1
  <2> QED
    BY <2>2, <2>3, <2>4
<1> HIDE DEF list
<1> DEFINE f == Lengths(list)
           g == [i \in 1 .. m |-> 2 * TokenBytes + Len(texts[i])]
<1>11. /\ ListBytes(list) = m * TokenBytes + SumOf(f) /\ ListBytes(list) \in Nat
       /\ f \in [1 .. m -> Nat] /\ IsFiniteSet(1 .. m)
       /\ \A i \in 1 .. m : f[i] = Len(list[i])
       /\ SumOf(f) = Total(f, 1 .. m)
  BY <1>10, ListCosts
<1>12. \A i \in 1 .. m : Len(texts[i]) \in Nat
  BY <1>9
<1>13. \A i \in 1 .. m : f[i] \in Nat /\ g[i] \in Nat /\ f[i] + TokenBytes <= g[i]
  <2> TAKE i \in 1 .. m
  <2>1. f[i] = Len(texts[i]) /\ g[i] = 2 * TokenBytes + Len(texts[i]) /\ Len(texts[i]) \in Nat
    BY <1>10, <1>11, <1>12
  <2>2. PICK l, c \in Nat : l = Len(texts[i]) /\ c = TokenBytes
    BY <1>2, <2>1
  <2> HIDE DEF f, g
  <2>3. f[i] = l /\ g[i] = 2 * c + l
    BY <2>1, <2>2
  <2>4. 2 * c + l \in Nat /\ l + c <= 2 * c + l
    OBVIOUS
  <2> HIDE DEF f, g
  <2>5. f[i] \in Nat /\ g[i] \in Nat
    BY <2>3, <2>4
  <2>6. f[i] + TokenBytes <= g[i]
    BY <2>2, <2>3, <2>4
  <2> QED
    BY <2>5, <2>6
<1>14. g \in [1 .. m -> Nat]
  BY <1>13
<1>15. SumOf(g) = Total(g, 1 .. m) /\ Spent(texts, m) = SumOf(g) /\ SumOf(g) \in Nat
  <2>1. Spent(texts, m) = SumOf(g)
    BY DEF Spent
  <2> HIDE DEF g
  <2> QED
    BY <1>11, <1>14, <2>1, SumNat
<1> HIDE DEF f, g
<1>16. m * TokenBytes + Total(f, 1 .. m) <= Total(g, 1 .. m)
  BY <1>2, <1>9, <1>13, TotalOnTop
<1>17. ListBytes(list) <= TokenBudget
  <2>1. ListBytes(list) <= SumOf(g)
    BY <1>11, <1>15, <1>16
  <2> QED
    BY <1>3, <1>8, <1>11, <1>15, <2>1
<1>18. used - tokens.bytes + ListBytes(list) <= ContainerLimit
  <2>1. PICK u, k \in Nat : u = used /\ k = tokens.bytes
    BY Charges
  <2>2. TokenBudget = ContainerLimit - (u - k)
    BY <1>3, <2>1
  <2>3. PICK l \in Nat : l = ListBytes(list)
    BY <1>11
  <2>4. u - k + l <= ContainerLimit
    BY <1>2, <1>17, <2>2, <2>3
  <2> QED
    BY <2>1, <2>3, <2>4
<1> QED
  BY <1>1, <1>10, <1>18

LEMMA TokenizeKeepsInv ==
    ASSUME ContainersInv, NEW texts \in Lines, Tokenize(texts)
    PROVE  ContainersInv'
<1> DEFINE list == Affordable(texts)
           others == used - tokens.bytes
<1>1. texts \in Seq(Seq(Nat))
  BY ContainersAssumption
<1>2. list \in Seq(Seq(Nat)) /\ others + ListBytes(list) <= ContainerLimit
  BY <1>1, AffordableFacts
<1>3. /\ tokens' = [list |-> list, bytes |-> ListBytes(list)] /\ used' = others + ListBytes(list)
      /\ tables' = tables /\ gamestate' = gamestate /\ bufs' = bufs
  BY <1>2 DEF Tokenize
<1> HIDE DEF list
<1>4. ListBytes(list) \in Nat
  BY <1>2, ListCosts
<1>5. TokensOK(tokens') /\ tokens'.bytes = ListBytes(list)
  BY <1>2, <1>3, <1>4 DEF TokensOK
<1>6. used' = ChargedTo(tables') + ChargedTo(bufs') + EntriesOf(gamestate') + tokens'.bytes
  <2>1. /\ ChargedTo(tables') = ChargedTo(tables) /\ ChargedTo(bufs') = ChargedTo(bufs)
        /\ EntriesOf(gamestate') = EntriesOf(gamestate)
    BY <1>3
  <2> QED
    BY <1>3, <1>4, <1>5, <2>1, Charges
<1>7. TablesOK(tables') /\ GamestateOK(gamestate') /\ BufsOK(bufs')
  BY <1>3 DEF ContainersInv
<1> QED
  BY <1>2, <1>3, <1>5, <1>6, <1>7 DEF ContainersInv

-----------------------------------------------------------------------------
(* The invariant holds throughout.                                         *)

LEMMA ContainersInitOK ==
    Init => ContainersInv
<1> SUFFICES ASSUME Init PROVE ContainersInv
  OBVIOUS
<1>1. /\ tables = << >> /\ gamestate = None /\ bufs = << >>
      /\ tokens = [list |-> << >>, bytes |-> 0] /\ used = 0
  BY DEF Init
<1>2. ChargedTo(<< >>) = 0
  <2>1. DOMAIN [i \in DOMAIN << >> |-> IF << >>[i] = None THEN 0 ELSE << >>[i].bytes] = {}
    OBVIOUS
  <2> QED
    BY <2>1, SumOfNone DEF ChargedTo
<1>3. EntriesOf(gamestate) = 0
  BY <1>1 DEF EntriesOf
<1>4. TablesOK(<< >>) /\ BufsOK(<< >>)
  BY ContainersAssumption DEF TablesOK, BufsOK
<1>5. TokensOK(tokens)
  BY <1>1, EmptyListCosts DEF TokensOK
<1>6. ContainerLimit \in Nat
  BY ContainersAssumption
<1> QED
  BY <1>1, <1>2, <1>3, <1>4, <1>5, <1>6 DEF ContainersInv, GamestateOK

LEMMA ContainersStepOK ==
    ContainersInv /\ [Next]_vars => ContainersInv'
<1> SUFFICES ASSUME ContainersInv, [Next]_vars PROVE ContainersInv'
  OBVIOUS
<1> USE DEF Handles, BufHandles, Indices
<1>1. ASSUME NEW size \in Sizes, NEW type \in Types,
             hash_createtab(size, IF type = 0 THEN DefaultType ELSE type)
      PROVE  ContainersInv'
  <2>1. size \in Int
    BY ContainersAssumption
  <2>2. PICK ty \in Types \cup {StringType, DefaultType} : ty = (IF type = 0 THEN DefaultType ELSE type)
    OBVIOUS
  <2> QED
    BY <1>1, <2>1, <2>2, CreatetabKeepsInv
<1>2. ASSUME NEW h \in Handles, hash_destroytab(h) PROVE ContainersInv'
  BY <1>2, DestroytabKeepsInv
<1>3. ASSUME NEW h \in Handles, NEW key \in Keys, NEW val \in Texts, NEW type \in Types,
             NEW stacked \in BOOLEAN, hash_add(h, key, val, type, stacked)
      PROVE  ContainersInv'
  BY <1>3, AddKeepsInv
<1>4. ASSUME NEW h \in Handles, NEW key \in Keys, hash_delete(h, key) PROVE ContainersInv'
  BY <1>4, DeleteKeepsInv
<1>5. ASSUME TableStep PROVE ContainersInv'
  BY <1>1, <1>2, <1>3, <1>4, <1>5 DEF TableStep
<1>6. CASE buf_create
  BY <1>6, CreateKeepsInv
<1>7. ASSUME NEW b \in BufHandles, buf_del(b) PROVE ContainersInv'
  BY <1>7, DelKeepsInv
<1>8. ASSUME NEW from \in BufHandles, NEW to \in BufHandles, buf_copy(from, to) PROVE ContainersInv'
  BY <1>8, CopyKeepsInv
<1>9. ASSUME NEW b \in BufHandles, NEW i \in Indices, NEW text \in Texts, bufstr_set(b, i, text)
      PROVE  ContainersInv'
  BY <1>9, SetKeepsInv
<1>10. ASSUME NEW b \in BufHandles, NEW text \in Texts, NEW ordered \in BOOLEAN, bufstr_add(b, text, ordered)
       PROVE  ContainersInv'
  BY <1>10, AddStrKeepsInv
<1>11. ASSUME NEW b \in BufHandles, NEW i \in Indices, bufstr_free(b, i) PROVE ContainersInv'
  BY <1>11, FreeKeepsInv
<1>12. ASSUME NEW b \in BufHandles, NEW prefix \in 0 .. 1, NEW backward \in BOOLEAN, buf_sort(b, prefix, backward)
       PROVE  ContainersInv'
  BY <1>12, SortKeepsInv
<1>13. ASSUME NEW b \in BufHandles, NEW names \in Lines, buf_cvarlist(b, names) PROVE ContainersInv'
  BY <1>13, CvarlistKeepsInv
<1>14. ASSUME NEW b \in BufHandles, NEW lines \in Lines, buf_loadfile(b, lines) PROVE ContainersInv'
  BY <1>14, LoadfileKeepsInv
<1>15. ASSUME BufferStep PROVE ContainersInv'
  BY <1>6, <1>7, <1>8, <1>9, <1>10, <1>11, <1>12, <1>13, <1>14, <1>15 DEF BufferStep
<1>16. ASSUME NEW texts \in Lines, Tokenize(texts) PROVE ContainersInv'
  BY <1>16, TokenizeKeepsInv
<1>17. CASE UNCHANGED vars
  BY <1>17 DEF vars, ContainersInv
<1> QED
  BY <1>5, <1>15, <1>16, <1>17 DEF Next

\* Every table, buffer and token list is of its shape and charged what it holds, and all
\* of them together are charged no more than the limit (charge, release, recharge).
THEOREM ContainersInvariance == Spec => []ContainersInv
BY ContainersInitOK, ContainersStepOK, PTL DEF Spec

\* What the invariant says of the property the run checks.
LEMMA InvBalances ==
    ContainersInv => BudgetBalances
<1> SUFFICES ASSUME ContainersInv PROVE BudgetBalances
  OBVIOUS
<1>1. \A t \in ToSet(tables) : t # None => t.bytes = TableCost(t)
  BY DEF ContainersInv, TablesOK, Balanced, ToSet
<1>2. \A b \in ToSet(bufs) : b # None => b.bytes = Contents(b.strings).bytes
  BY DEF ContainersInv, BufsOK, Weighed, ToSet
<1>3. /\ used = ChargedTo(tables) + ChargedTo(bufs)
                + (IF gamestate = None THEN 0 ELSE EntriesCost(gamestate))
                + ListBytes(tokens.list)
      /\ used <= ContainerLimit
  BY DEF ContainersInv, EntriesOf, TokensOK
<1>4. TokensAffordable
  <2> SUFFICES ASSUME NEW texts \in Lines
               PROVE  used - tokens.bytes + ListBytes(Affordable(texts)) <= ContainerLimit
    BY DEF TokensAffordable
  <2>1. texts \in Seq(Seq(Nat))
    BY ContainersAssumption
  <2> QED
    BY <2>1, AffordableFacts
<1> QED
  BY <1>1, <1>2, <1>3, <1>4 DEF BudgetBalances, ChargedExactly

\* The one storage budget of all containers balances after any sequence of calls, refused
\* and partly failed ones included, and a token list cut to the budget can be charged
\* (charge, release, recharge, Budget::take, set_tokens).
THEOREM BudgetAlwaysBalances == Spec => []BudgetBalances
BY ContainersInvariance, InvBalances, PTL

-----------------------------------------------------------------------------
(* Ranks: the n-th smallest of a set of places.                            *)

UpTo(S, i) == {j \in S : j <= i}
RankOf(S, i) == Cardinality(UpTo(S, i))

LEMMA RankFacts ==
    ASSUME NEW S, S \subseteq Nat, IsFiniteSet(S)
    PROVE  /\ \A i \in S : RankOf(S, i) \in 1 .. Cardinality(S)
           /\ \A i, j \in S : i < j => RankOf(S, i) < RankOf(S, j)
           /\ \A n \in 1 .. Cardinality(S) : \E i \in S : RankOf(S, i) = n
           /\ Cardinality(S) \in Nat
<1>1. Cardinality(S) \in Nat
  BY FS_CardinalityType
<1>2. ASSUME NEW i \in S
      PROVE  IsFiniteSet(UpTo(S, i)) /\ RankOf(S, i) \in 1 .. Cardinality(S)
  <2>1. UpTo(S, i) \in SUBSET S /\ {i} \in SUBSET UpTo(S, i)
    BY DEF UpTo
  <2>2. IsFiniteSet(UpTo(S, i)) /\ Cardinality(UpTo(S, i)) <= Cardinality(S)
    BY <2>1, FS_Subset
  <2>3. Cardinality({i}) <= Cardinality(UpTo(S, i))
    BY <2>1, <2>2, FS_Subset
  <2>4. Cardinality({i}) = 1
    BY FS_Singleton
  <2>5. Cardinality(UpTo(S, i)) \in Nat
    BY <2>2, FS_CardinalityType
  <2> QED
    BY <1>1, <2>2, <2>3, <2>4, <2>5 DEF RankOf
<1>3. ASSUME NEW i \in S, NEW j \in S, i < j
      PROVE  RankOf(S, i) < RankOf(S, j)
  <2>0. i \in Int /\ j \in Int /\ \A y \in S : y \in Int
    OBVIOUS
  <2>1. UpTo(S, i) \in SUBSET UpTo(S, j) /\ j \in UpTo(S, j) /\ ~(j \in UpTo(S, i))
    <3>1. \A y \in S : y <= i => y <= j
      BY <1>3, <2>0
    <3>2. j <= j /\ ~(j <= i)
      BY <1>3, <2>0
    <3> QED
      BY <3>1, <3>2 DEF UpTo
  <2>2. IsFiniteSet(UpTo(S, j))
    BY <1>2
  <2>3. /\ Cardinality(UpTo(S, i)) <= Cardinality(UpTo(S, j))
        /\ Cardinality(UpTo(S, i)) # Cardinality(UpTo(S, j))
    BY <2>1, <2>2, FS_Subset
  <2>4. RankOf(S, i) \in Nat /\ RankOf(S, j) \in Nat
    BY <1>1, <1>2
  <2> QED
    BY <2>3, <2>4 DEF RankOf
<1> DEFINE r == [i \in S |-> RankOf(S, i)]
           N == 1 .. Cardinality(S)
<1>4. r \in [S -> N]
  BY <1>2
<1>5. \A i, j \in S : r[i] = r[j] => i = j
  <2> SUFFICES ASSUME NEW i \in S, NEW j \in S, r[i] = r[j] PROVE i = j
    OBVIOUS
  <2>1. RankOf(S, i) = RankOf(S, j) /\ RankOf(S, i) \in Int /\ RankOf(S, j) \in Int
    BY <1>1, <1>2
  <2>2. ~(i < j) /\ ~(j < i)
    BY <1>3, <2>1
  <2> QED
    BY <2>2
<1>6. IsFiniteSet(N) /\ Cardinality(N) = Cardinality(S)
  BY <1>1, FS_Interval
<1>7. \A i \in S : r[i] = RankOf(S, i)
  OBVIOUS
<1> HIDE DEF r, N
<1>8. r \in Injection(S, N)
  BY <1>4, <1>5 DEF Injection, IsInjective
<1>9. r \in Surjection(S, N)
  BY <1>6, <1>8, FS_Injection
<1>10. \A n \in N : \E i \in S : RankOf(S, i) = n
  <2>1. \A n \in N : \E i \in S : r[i] = n
    BY <1>9 DEF Surjection
  <2> QED
    BY <1>7, <2>1
<1> QED
  BY <1>1, <1>2, <1>3, <1>10 DEF N

\* Nth and RankOf undo one another.
LEMMA NthFacts ==
    ASSUME NEW S, S \subseteq Nat, IsFiniteSet(S), NEW n \in 1 .. Cardinality(S)
    PROVE  /\ Nth(S, n) \in S /\ RankOf(S, Nth(S, n)) = n
           /\ \A i \in S : RankOf(S, i) = n => Nth(S, n) = i
<1>1. PICK x \in S : RankOf(S, x) = n
  BY RankFacts
<1>2. Nth(S, n) = CHOOSE i \in S : RankOf(S, i) = n
  BY DEF Nth, RankOf, UpTo
<1>3. Nth(S, n) \in S /\ RankOf(S, Nth(S, n)) = n
  BY <1>1, <1>2
<1>4. ASSUME NEW i \in S, RankOf(S, i) = n PROVE Nth(S, n) = i
  <2> DEFINE j == Nth(S, n)
  <2>1. j \in S /\ RankOf(S, j) = RankOf(S, i) /\ RankOf(S, i) \in Int /\ RankOf(S, j) \in Int
    BY <1>3, <1>4
  <2> HIDE DEF j
  <2>2. ~(RankOf(S, i) < RankOf(S, j)) /\ ~(RankOf(S, j) < RankOf(S, i))
    BY <2>1
  <2>3. ~(i < j) /\ ~(j < i)
    BY <2>1, <2>2, RankFacts
  <2>4. i \in Int /\ j \in Int
    BY <2>1
  <2>5. i = j
    BY <2>3, <2>4
  <2> QED
    BY <2>5 DEF j
<1> QED
  BY <1>3, <1>4

\* What an order-preserving map of places does to ranks.
Climbs(p, S, T) ==
    /\ p \in Bijection(S, T)
    /\ \A i, j \in S : i <= j <=> p[i] <= p[j]

LEMMA RankMapped ==
    ASSUME NEW S, IsFiniteSet(S), NEW T, NEW p, Climbs(p, S, T), NEW i \in S
    PROVE  RankOf(T, p[i]) = RankOf(S, i)
<1> DEFINE A == UpTo(S, i)
           B == UpTo(T, p[i])
           q == [j \in A |-> p[j]]
<1>1. p \in [S -> T] /\ (\A t \in T : \E s \in S : p[s] = t) /\ (\A a, b \in S : p[a] = p[b] => a = b)
      /\ \A a, b \in S : a <= b <=> p[a] <= p[b]
  BY DEF Climbs, Bijection, Injection, Surjection, IsInjective
<1>2. A \in SUBSET S /\ (\A j : j \in A <=> j \in S /\ j <= i) /\ \A t : t \in B <=> t \in T /\ t <= p[i]
  BY DEF UpTo
<1> HIDE DEF A, B
<1>3. q \in [A -> B]
  BY <1>1, <1>2
<1>4. \A t \in B : \E j \in A : q[j] = t
  <2> TAKE t \in B
  <2>1. PICK s \in S : p[s] = t
    BY <1>1, <1>2
  <2>2. s \in A
    BY <1>1, <1>2, <2>1
  <2> QED
    BY <2>1, <2>2
<1>5. \A a, b \in A : q[a] = q[b] => a = b
  BY <1>1, <1>2
<1> HIDE DEF q
<1>6. q \in Bijection(A, B)
  BY <1>3, <1>4, <1>5 DEF Bijection, Injection, Surjection, IsInjective
<1>7. IsFiniteSet(A)
  BY <1>2, FS_Subset
<1>8. Cardinality(B) = Cardinality(A)
  BY <1>6, <1>7, FS_Bijection DEF ExistsBijection
<1> QED
  BY <1>8 DEF A, B, RankOf

-----------------------------------------------------------------------------
(* The entries of a key in one bucket, newest last.                        *)

Stack(c, S) == [n \in 1 .. Cardinality(S) |-> c[Nth(S, n)]]
Places(c, k) == {i \in DOMAIN c : c[i].key = k}

LEMMA StackFacts ==
    ASSUME NEW c \in Seq(Entry), NEW S, S \subseteq DOMAIN c
    PROVE  /\ IsFiniteSet(S) /\ S \subseteq Nat /\ Cardinality(S) \in Nat
           /\ Stack(c, S) \in Seq(Entry) /\ Len(Stack(c, S)) = Cardinality(S)
           /\ \A n \in 1 .. Cardinality(S) : Stack(c, S)[n] = c[Nth(S, n)]
<1>1. DOMAIN c = 1 .. Len(c) /\ Len(c) \in Nat
  OBVIOUS
<1>2. IsFiniteSet(1 .. Len(c))
  BY <1>1, FS_Interval
<1>3. S \in SUBSET (1 .. Len(c)) /\ S \subseteq Nat
  BY <1>1
<1>4. IsFiniteSet(S)
  BY <1>2, <1>3, FS_Subset
<1>5. Cardinality(S) \in Nat
  BY <1>4, FS_CardinalityType
<1>6. \A n \in 1 .. Cardinality(S) : c[Nth(S, n)] \in Entry
  <2> TAKE n \in 1 .. Cardinality(S)
  <2>1. Nth(S, n) \in S
    BY <1>3, <1>4, NthFacts
  <2> QED
    BY <1>1, <1>3, <2>1
<1>7. Stack(c, S) \in [1 .. Cardinality(S) -> Entry]
  BY <1>6 DEF Stack
<1>8. \A n \in 1 .. Cardinality(S) : Stack(c, S)[n] = c[Nth(S, n)]
  BY DEF Stack
<1>9. Stack(c, S) \in Seq(Entry) /\ Len(Stack(c, S)) = Cardinality(S)
  BY <1>5, <1>7
<1> QED
  BY <1>3, <1>4, <1>5, <1>8, <1>9

\* The same entries at other places, in the same order.
LEMMA StackMoved ==
    ASSUME NEW c \in Seq(Entry), NEW S, S \subseteq DOMAIN c,
           NEW d \in Seq(Entry), NEW T, T \subseteq DOMAIN d,
           NEW p, Climbs(p, S, T), \A i \in S : d[p[i]] = c[i]
    PROVE  Stack(d, T) = Stack(c, S)
<1>1. /\ IsFiniteSet(S) /\ S \subseteq Nat
      /\ Stack(c, S) \in Seq(Entry) /\ Len(Stack(c, S)) = Cardinality(S)
      /\ \A n \in 1 .. Cardinality(S) : Stack(c, S)[n] = c[Nth(S, n)]
  BY StackFacts
<1>2. /\ IsFiniteSet(T) /\ T \subseteq Nat
      /\ Stack(d, T) \in Seq(Entry) /\ Len(Stack(d, T)) = Cardinality(T)
      /\ \A n \in 1 .. Cardinality(T) : Stack(d, T)[n] = d[Nth(T, n)]
  BY StackFacts
<1>3. p \in Bijection(S, T)
  BY DEF Climbs
<1>4. Cardinality(T) = Cardinality(S)
  BY <1>1, <1>3, FS_Bijection DEF ExistsBijection
<1>5. ASSUME NEW n \in 1 .. Cardinality(S)
      PROVE  Stack(d, T)[n] = Stack(c, S)[n]
  <2>1. Nth(S, n) \in S /\ RankOf(S, Nth(S, n)) = n
    BY <1>1, NthFacts
  <2>2. p[Nth(S, n)] \in T
    BY <1>3, <2>1 DEF Bijection, Injection
  <2>3. RankOf(T, p[Nth(S, n)]) = n
    BY <1>1, <2>1, RankMapped
  <2>4. Nth(T, n) = p[Nth(S, n)]
    BY <1>2, <1>4, <2>2, <2>3, NthFacts
  <2>5. d[p[Nth(S, n)]] = c[Nth(S, n)]
    BY <2>1
  <2> QED
    BY <1>1, <1>2, <1>4, <2>4, <2>5
<1> QED
  BY <1>1, <1>2, <1>4, <1>5, SeqEqual

\* A newest entry on top.
LEMMA StackTopped ==
    ASSUME NEW c \in Seq(Entry), NEW S, S \subseteq DOMAIN c, NEW x \in DOMAIN c, \A i \in S : i < x
    PROVE  Stack(c, S \cup {x}) = Append(Stack(c, S), c[x])
<1> DEFINE T == S \cup {x}
           m == Cardinality(S)
<1>1. /\ IsFiniteSet(S) /\ S \subseteq Nat /\ m \in Nat
      /\ Stack(c, S) \in Seq(Entry) /\ Len(Stack(c, S)) = m
      /\ \A n \in 1 .. m : Stack(c, S)[n] = c[Nth(S, n)]
  BY StackFacts
<1>2. x \in Nat /\ ~(x \in S) /\ T \subseteq DOMAIN c /\ c[x] \in Entry
  BY <1>1
<1>3. Cardinality(T) = m + 1
  BY <1>1, <1>2, FS_AddElement
<1> HIDE DEF T
<1>4. /\ IsFiniteSet(T) /\ T \subseteq Nat
      /\ Stack(c, T) \in Seq(Entry) /\ Len(Stack(c, T)) = Cardinality(T)
      /\ \A n \in 1 .. Cardinality(T) : Stack(c, T)[n] = c[Nth(T, n)]
  BY <1>2, StackFacts
<1>5. ASSUME NEW n \in 1 .. m PROVE Nth(T, n) = Nth(S, n)
  <2>1. Nth(S, n) \in S /\ RankOf(S, Nth(S, n)) = n
    BY <1>1, NthFacts
  <2>2. UpTo(T, Nth(S, n)) = UpTo(S, Nth(S, n))
    BY <1>1, <1>2, <2>1 DEF UpTo, T
  <2>3. RankOf(T, Nth(S, n)) = n /\ Nth(S, n) \in T /\ n \in 1 .. Cardinality(T)
    BY <1>1, <1>3, <2>1, <2>2 DEF RankOf, T
  <2> QED
    BY <1>4, <2>3, NthFacts
<1>6. Nth(T, m + 1) = x
  <2>1. UpTo(T, x) = T
    BY <1>1, <1>2 DEF UpTo, T
  <2>2. RankOf(T, x) = Cardinality(T) /\ x \in T
    BY <2>1 DEF RankOf, T
  <2>3. PICK n \in 1 .. Cardinality(T) : n = m + 1
    BY <1>1, <1>3
  <2> HIDE DEF m
  <2>4. Nth(T, n) = x
    BY <1>3, <1>4, <2>2, <2>3, NthFacts
  <2> QED
    BY <2>3, <2>4
<1> DEFINE more == Append(Stack(c, S), c[x])
<1>7. /\ more \in Seq(Entry) /\ Len(more) = m + 1 /\ more[m + 1] = c[x]
      /\ \A n \in 1 .. m : more[n] = c[Nth(S, n)]
  <2>1. /\ more \in Seq(Entry) /\ Len(more) = Len(Stack(c, S)) + 1
        /\ \A i \in 1 .. Len(Stack(c, S)) : more[i] = Stack(c, S)[i]
        /\ more[Len(Stack(c, S)) + 1] = c[x]
    BY <1>1, <1>2, AppendProperties
  <2> QED
    BY <1>1, <2>1
<1> HIDE DEF more
<1>8. \A n \in 1 .. m + 1 : Stack(c, T)[n] = more[n]
  <2> TAKE n \in 1 .. m + 1
  <2>1. CASE n \in 1 .. m
    BY <1>1, <1>3, <1>4, <1>5, <1>7, <2>1
  <2>2. CASE n = m + 1
    BY <1>1, <1>3, <1>4, <1>6, <1>7, <2>2
  <2> QED
    BY <1>1, <2>1, <2>2
<1>9. Stack(c, T) = more
  BY <1>3, <1>4, <1>7, <1>8, SeqEqual
<1> QED
  BY <1>9 DEF T, more

\* What an appended entry does to the stacks of its bucket.
LEMMA StackPushed ==
    ASSUME NEW c \in Seq(Entry), NEW e \in Entry, NEW k
    PROVE  Stack(Append(c, e), Places(Append(c, e), k)) =
             IF k = e.key THEN Append(Stack(c, Places(c, k)), e) ELSE Stack(c, Places(c, k))
<1> DEFINE d == Append(c, e)
           n == Len(c)
           S == Places(c, k)
<1>1. /\ n \in Nat /\ d \in Seq(Entry) /\ DOMAIN c = 1 .. n /\ DOMAIN d = 1 .. n + 1
      /\ d[n + 1] = e /\ \A i \in 1 .. n : d[i] = c[i]
  OBVIOUS
<1>2. S \subseteq DOMAIN c
  BY DEF Places
<1> HIDE DEF d
<1>3. S \subseteq DOMAIN d /\ n + 1 \in DOMAIN d /\ \A i \in S : i < n + 1 /\ d[i] = c[i]
  BY <1>1, <1>2
<1>4. Stack(d, S) = Stack(c, S)
  <2>1. \A m \in 1 .. Cardinality(S) : d[Nth(S, m)] = c[Nth(S, m)]
    <3> TAKE m \in 1 .. Cardinality(S)
    <3>1. IsFiniteSet(S) /\ S \subseteq Nat
      BY <1>2, StackFacts
    <3>2. Nth(S, m) \in S
      BY <3>1, NthFacts
    <3> QED
      BY <1>3, <3>2
  <2> QED
    BY <2>1 DEF Stack
<1>5. CASE k = e.key
  <2>1. Places(d, k) = S \cup {n + 1}
    BY <1>1, <1>5 DEF Places
  <2>2. Stack(d, S \cup {n + 1}) = Append(Stack(d, S), d[n + 1])
    <3>1. PICK x \in DOMAIN d : x = n + 1
      BY <1>3
    <3>2. \A i \in S : i < x
      BY <1>3, <3>1
    <3> HIDE DEF S
    <3>3. Stack(d, S \cup {x}) = Append(Stack(d, S), d[x])
      BY <1>1, <1>3, <3>2, StackTopped
    <3> QED
      BY <3>1, <3>3
  <2> QED
    BY <1>1, <1>4, <1>5, <2>1, <2>2 DEF d
<1>6. CASE k # e.key
  <2>1. Places(d, k) = S
    BY <1>1, <1>6 DEF Places
  <2> QED
    BY <1>4, <1>6, <2>1 DEF d
<1> QED
  BY <1>5, <1>6

\* What an entry taken out of a bucket, the newest of its key, does to the stacks.
Shortened(d, c, x) ==
    Len(d) = Len(c) - 1 /\ \A j \in 1 .. Len(d) : d[j] = IF j < x THEN c[j] ELSE c[j + 1]
Newest(c, x) == \A i \in DOMAIN c : c[i].key = c[x].key => i <= x

LEMMA StackRemoved ==
    ASSUME NEW c \in Seq(Entry), NEW d \in Seq(Entry), NEW x \in DOMAIN c, NEW k,
           Shortened(d, c, x), Newest(c, x)
    PROVE  Stack(d, Places(d, k)) = Stack(c, Places(c, k) \ {x})
<1> DEFINE S == Places(c, k) \ {x}
           T == Places(d, k)
           p == [i \in S |-> IF i < x THEN i ELSE i - 1]
           n == Len(c)
<1>1. n \in Nat /\ DOMAIN c = 1 .. n /\ DOMAIN d = 1 .. n - 1 /\ x \in 1 .. n /\ Len(d) = n - 1
  BY DEF Shortened
<1>2. \A i : i \in S <=> i \in 1 .. n /\ i # x /\ c[i].key = k
  BY <1>1 DEF Places
<1>3. \A j : j \in T <=> j \in 1 .. n - 1 /\ d[j].key = k
  BY <1>1 DEF Places
<1>4. \A i \in S : p[i] = IF i < x THEN i ELSE i - 1
  OBVIOUS
<1>5. DOMAIN p = S
  OBVIOUS
<1>6. \A j \in 1 .. n - 1 : d[j] = IF j < x THEN c[j] ELSE c[j + 1]
  BY <1>1 DEF Shortened
<1> HIDE DEF S, T, p, n
<1>7. \A i \in S : p[i] \in 1 .. n - 1 /\ d[p[i]] = c[i]
  <2> TAKE i \in S
  <2>1. i \in 1 .. n /\ i # x
    BY <1>2
  <2>2. CASE i < x
    <3>1. p[i] = i /\ i \in 1 .. n - 1
      BY <1>1, <1>4, <2>1, <2>2
    <3> QED
      BY <1>6, <2>2, <3>1
  <2>3. CASE ~(i < x)
    <3>1. PICK j \in 1 .. n - 1 : j = i - 1
      BY <1>1, <2>1, <2>3
    <3>2. ~(j < x) /\ j + 1 = i
      BY <1>1, <2>1, <2>3, <3>1
    <3>3. d[j] = c[i]
      BY <1>6, <3>2
    <3> QED
      BY <1>4, <2>3, <3>1, <3>3
  <2> QED
    BY <2>2, <2>3
<1>8. p \in [S -> T]
  <2>1. \A i \in S : p[i] \in T
    BY <1>2, <1>3, <1>7
  <2>2. p = [i \in S |-> p[i]]
    BY DEF p
  <2> QED
    BY <2>1, <2>2
<1>9. \A i, j \in S : i <= j <=> p[i] <= p[j]
  <2> SUFFICES ASSUME NEW i \in S, NEW j \in S PROVE i <= j <=> p[i] <= p[j]
    OBVIOUS
  <2>1. i \in Int /\ j \in Int /\ i # x /\ j # x /\ x \in Int
    BY <1>1, <1>2
  <2> QED
    BY <1>4, <2>1
<1>10. \A a, b \in S : p[a] = p[b] => a = b
  <2> SUFFICES ASSUME NEW a \in S, NEW b \in S, p[a] = p[b] PROVE a = b
    OBVIOUS
  <2>1. a \in Int /\ b \in Int /\ a # x /\ b # x /\ x \in Int
    BY <1>1, <1>2
  <2> QED
    BY <1>4, <2>1
<1>11. \A t \in T : \E i \in S : p[i] = t
  <2> TAKE t \in T
  <2>1. t \in 1 .. n - 1 /\ d[t].key = k
    BY <1>3
  <2>2. CASE t < x
    <3>1. t \in S
      BY <1>1, <1>2, <1>6, <2>1, <2>2
    <3> QED
      BY <1>4, <2>2, <3>1
  <2>3. CASE ~(t < x)
    <3>1. PICK i \in 1 .. n : i = t + 1
      BY <1>1, <2>1
    <3>2. i # x /\ ~(i < x) /\ i - 1 = t
      BY <1>1, <2>1, <2>3, <3>1
    <3>3. c[i].key = k
      BY <1>6, <2>1, <2>3, <3>1
    <3>4. i \in S
      BY <1>2, <3>2, <3>3
    <3> QED
      BY <1>4, <3>2, <3>4
  <2> QED
    BY <2>2, <2>3
<1>12. Climbs(p, S, T)
  BY <1>8, <1>9, <1>10, <1>11 DEF Climbs, Bijection, Injection, Surjection, IsInjective
<1>13. S \subseteq DOMAIN c /\ T \subseteq DOMAIN d
  BY <1>1, <1>2, <1>3
<1>14. \A i \in S : d[p[i]] = c[i]
  BY <1>7
<1>15. Stack(d, T) = Stack(c, S)
  BY <1>12, <1>13, <1>14, StackMoved
<1> QED
  BY <1>15 DEF S, T

\* Popping what was pushed.
LEMMA PopOfAppend ==
    ASSUME NEW V, NEW st \in Seq(V), NEW v \in V
    PROVE  /\ KeyStacks!Pop(Append(st, v)) = st
           /\ Append(st, v) \in Seq(V) /\ Append(st, v) # st /\ Append(st, v) # << >>
           /\ Append(st, v)[Len(Append(st, v))] = v
<1> DEFINE more == Append(st, v)
           n == Len(st)
<1>1. /\ more \in Seq(V) /\ Len(more) = n + 1 /\ n \in Nat
      /\ more[n + 1] = v /\ \A i \in 1 .. n : more[i] = st[i]
  BY AppendProperties
<1> HIDE DEF more
<1>2. KeyStacks!Pop(more) = SubSeq(more, 1, n)
  BY <1>1 DEF KeyStacks!Pop
<1>3. /\ SubSeq(more, 1, n) \in Seq(V) /\ Len(SubSeq(more, 1, n)) = n
      /\ \A i \in 1 .. n : SubSeq(more, 1, n)[i] = more[i]
  BY <1>1
<1>4. SubSeq(more, 1, n) = st
  BY <1>1, <1>3, SeqEqual
<1>5. more # st /\ more # << >>
  BY <1>1
<1>6. more[Len(more)] = v
  BY <1>1, Zenon
<1> QED
  BY <1>1, <1>2, <1>4, <1>5, <1>6, Zenon DEF more

\* The newest entry of a key is the top of its stack.
LEMMA StackPopped ==
    ASSUME NEW c \in Seq(Entry), NEW x \in DOMAIN c, NEW k, k = c[x].key, Newest(c, x)
    PROVE  /\ Stack(c, Places(c, k) \ {x}) = KeyStacks!Pop(Stack(c, Places(c, k)))
           /\ Stack(c, Places(c, k)) # << >>
<1> DEFINE S == Places(c, k) \ {x}
<1>1. S \subseteq DOMAIN c /\ Places(c, k) = S \cup {x}
  BY DEF Places
<1>2. \A i \in S : i < x
  <2> TAKE i \in S
  <2>1. i \in DOMAIN c /\ c[i].key = c[x].key /\ i # x
    BY DEF Places
  <2>2. i <= x
    BY <2>1 DEF Newest
  <2> QED
    BY <2>1, <2>2
<1> HIDE DEF S
<1>3. Stack(c, S \cup {x}) = Append(Stack(c, S), c[x])
  BY <1>1, <1>2, StackTopped
<1>4. Stack(c, S) \in Seq(Entry) /\ c[x] \in Entry
  BY <1>1, StackFacts
<1>5. /\ KeyStacks!Pop(Append(Stack(c, S), c[x])) = Stack(c, S)
      /\ Append(Stack(c, S), c[x]) # << >>
  BY <1>4, PopOfAppend
<1> QED
  BY <1>1, <1>3, <1>5 DEF S

-----------------------------------------------------------------------------
(* The stacks of a table.                                                  *)

NamedKeys == Keys \ {<< >>}
View(t) == [k \in NamedKeys |-> StackOf(t, k)]

LEMMA StackOfKey ==
    ASSUME NEW t \in TableValues, NEW k \in NamedKeys
    PROVE  /\ StackOf(t, k) = Stack(t.buckets[BucketOf(t, k)], Places(t.buckets[BucketOf(t, k)], k))
           /\ StackOf(t, k) \in Seq(Entry)
<1> DEFINE c == t.buckets[BucketOf(t, k)]
<1>1. c \in Seq(Entry)
  BY BucketFound DEF NamedKeys
<1>2. StackOf(t, k) = Stack(c, Places(c, k))
  BY DEF StackOf, Stack, Matches, Places
<1> HIDE DEF c
<1>3. Places(c, k) \subseteq DOMAIN c
  BY DEF Places
<1>4. Stack(c, Places(c, k)) \in Seq(Entry)
  BY <1>1, <1>3, StackFacts
<1> QED
  BY <1>2, <1>4 DEF c

\* A key of a table whose bucket b has become c.
LEMMA StackIn ==
    ASSUME NEW t \in TableValues, NEW u \in TableValues, NEW b \in DOMAIN t.buckets,
           NEW c, Placed(u.buckets, t.buckets, b, c), NEW k \in NamedKeys
    PROVE  /\ BucketOf(t, k) # b => StackOf(u, k) = StackOf(t, k)
           /\ BucketOf(t, k) = b => StackOf(u, k) = Stack(c, Places(c, k))
<1>1. /\ Len(u.buckets) = Len(t.buckets) /\ u.buckets[b] = c
      /\ \A i \in DOMAIN t.buckets : i # b => u.buckets[i] = t.buckets[i]
  <2>1. t.buckets \in Seq(Seq(Entry))
    BY TableShape
  <2>2. DOMAIN t.buckets = 1 .. Len(t.buckets)
    BY <2>1
  <2> QED
    BY <2>2 DEF Placed
<1>2. BucketOf(u, k) = BucketOf(t, k)
  BY <1>1 DEF BucketOf
<1>3. BucketOf(t, k) \in DOMAIN t.buckets
  BY BucketFound DEF NamedKeys
<1>4. StackOf(u, k) = Stack(u.buckets[BucketOf(u, k)], Places(u.buckets[BucketOf(u, k)], k))
  BY StackOfKey
<1>5. StackOf(t, k) = Stack(t.buckets[BucketOf(t, k)], Places(t.buckets[BucketOf(t, k)], k))
  BY StackOfKey
<1> QED
  BY <1>1, <1>2, <1>3, <1>4, <1>5

LEMMA PushedView ==
    ASSUME NEW t \in TableValues, NEW u \in TableValues, NEW e \in Entry,
           NEW b, b = BucketOf(t, e.key),
           Placed(u.buckets, t.buckets, b, Append(t.buckets[b], e)), NEW k \in NamedKeys
    PROVE  StackOf(u, k) = IF k = e.key THEN Append(StackOf(t, k), e) ELSE StackOf(t, k)
<1>1. e.key \in Keys
  BY DEF Entry
<1>2. b \in DOMAIN t.buckets /\ t.buckets[b] \in Seq(Entry)
  BY <1>1, BucketFound
<1> DEFINE c == t.buckets[b]
<1>3. Stack(Append(c, e), Places(Append(c, e), k)) =
        IF k = e.key THEN Append(Stack(c, Places(c, k)), e) ELSE Stack(c, Places(c, k))
  BY <1>2, StackPushed
<1>4. /\ BucketOf(t, k) # b => StackOf(u, k) = StackOf(t, k)
      /\ BucketOf(t, k) = b => StackOf(u, k) = Stack(Append(c, e), Places(Append(c, e), k))
  BY <1>2, StackIn
<1>5. BucketOf(t, k) = b => StackOf(t, k) = Stack(c, Places(c, k))
  BY StackOfKey
<1>6. k = e.key => BucketOf(t, k) = b
  OBVIOUS
<1> HIDE DEF c
<1> QED
  BY <1>3, <1>4, <1>5, <1>6

LEMMA RemovedView ==
    ASSUME NEW t \in TableValues, NEW u \in TableValues, NEW key \in NamedKeys, Matches(t, key) # {},
           NEW b, b = BucketOf(t, key), NEW x, x = Max(Matches(t, key)),
           Placed(u.buckets, t.buckets, b, RemoveAt(t.buckets[b], x)), NEW k \in NamedKeys
    PROVE  /\ StackOf(u, k) = IF k = key THEN KeyStacks!Pop(StackOf(t, k)) ELSE StackOf(t, k)
           /\ StackOf(t, key) # << >>
<1> DEFINE c == t.buckets[b]
           d == RemoveAt(c, x)
<1>0. key \in Keys
  BY DEF NamedKeys
<1>1. b \in DOMAIN t.buckets /\ c \in Seq(Entry)
  BY <1>0, BucketFound
<1>2. x \in DOMAIN c /\ x \in Matches(t, key) /\ \A i \in Matches(t, key) : i <= x
  BY <1>0, NewestFound
<1>3. \A i : i \in Matches(t, key) <=> i \in DOMAIN c /\ c[i].key = key
  BY DEF Matches
<1>4. c[x].key = key /\ Newest(c, x)
  BY <1>2, <1>3 DEF Newest
<1>5. /\ BucketOf(t, k) # b => StackOf(u, k) = StackOf(t, k)
      /\ BucketOf(t, k) = b => StackOf(u, k) = Stack(d, Places(d, k))
  BY <1>1, StackIn
<1>6. /\ BucketOf(t, k) = b => StackOf(t, k) = Stack(c, Places(c, k))
      /\ StackOf(t, key) = Stack(c, Places(c, key))
  BY StackOfKey
<1>7. k = key => BucketOf(t, k) = b
  OBVIOUS
<1> HIDE DEF c
<1>8. /\ d \in Seq(Entry) /\ Len(d) = Len(c) - 1
      /\ \A j \in 1 .. Len(c) - 1 : d[j] = IF j < x THEN c[j] ELSE c[j + 1]
  BY <1>1, <1>2, RemoveAtFacts
<1> HIDE DEF d
<1>9. Shortened(d, c, x)
  BY <1>8 DEF Shortened
<1>10. Stack(d, Places(d, k)) = Stack(c, Places(c, k) \ {x})
  BY <1>1, <1>2, <1>4, <1>8, <1>9, StackRemoved
<1>11. /\ Stack(c, Places(c, key) \ {x}) = KeyStacks!Pop(Stack(c, Places(c, key)))
       /\ Stack(c, Places(c, key)) # << >>
  BY <1>1, <1>2, <1>4, StackPopped
<1>12. k # key => Places(c, k) \ {x} = Places(c, k)
  BY <1>4 DEF Places
<1> QED
  BY <1>5, <1>6, <1>7, <1>10, <1>11, <1>12

LEMMA EmptyView ==
    ASSUME NEW n \in Nat \ {0}, NEW ty \in Types \cup {StringType, DefaultType}
    PROVE  View(NewTable(n, ty)) = [k \in NamedKeys |-> << >>]
<1> DEFINE t == NewTable(n, ty)
<1>1. \A k \in NamedKeys : Matches(t, k) = {}
  BY NewTableFacts DEF NamedKeys
<1> HIDE DEF t
<1>2. ASSUME NEW k \in NamedKeys PROVE StackOf(t, k) = << >>
  <2>1. Cardinality({}) = 0
    BY FS_EmptySet
  <2> DEFINE c == t.buckets[BucketOf(t, k)]
             entry(i) == c[Nth({}, i)]
  <2>2. StackOf(t, k) = [i \in 1 .. 0 |-> entry(i)]
    BY <1>1, <2>1 DEF StackOf
  <2> HIDE DEF entry
  <2>3. [i \in 1 .. 0 |-> entry(i)] = << >>
    OBVIOUS
  <2> QED
    BY <2>2, <2>3
<1>3. View(t) = [k \in NamedKeys |-> << >>]
  BY <1>2 DEF View
<1> QED
  BY <1>3 DEF t

-----------------------------------------------------------------------------
(* What the steps do to the stacks.                                        *)

LEMMA StacksNow ==
    /\ TableStacks = [h \in Named |-> View(Table(h))]
    /\ TableStacks' = [h \in Named' |-> View(Table(h)')]
BY DEF TableStacks, View, NamedKeys

LEMMA StacksKept ==
    ASSUME Named' = Named, \A g \in Named : Table(g)' = Table(g)
    PROVE  UNCHANGED TableStacks
<1>1. [g \in Named' |-> View(Table(g)')] = [g \in Named |-> View(Table(g))]
  OBVIOUS
<1> QED
  BY <1>1, StacksNow

\* A handle that was given another table, the others being as they were.
LEMMA PutShows ==
    ASSUME NEW h \in Named, NEW t \in TableValues, Put(h, t)
    PROVE  /\ Named' = Named /\ Table(h)' = t
           /\ \A g \in Named : g # h => Table(g)' = Table(g)
<1>0. t # None
  BY TableShape
<1>1. IsTable(h)
  BY DEF Named
<1>2. CASE h = 0
  <2>1. gamestate' = t /\ tables' = tables
    BY <1>2 DEF Put
  <2>2. Table(h)' = t
    BY <1>0, <1>2, <2>1 DEF Table, Gamestate
  <2>3. Named' = Named
    BY <2>1 DEF Named, IsTable, Handles
  <2>4. \A g \in Named : g # h => Table(g)' = Table(g)
    BY <1>2, <2>1 DEF Table
  <2> QED
    BY <2>2, <2>3, <2>4
<1>3. CASE h # 0
  <2>1. tables' = [tables EXCEPT ![h] = t] /\ gamestate' = gamestate /\ h \in DOMAIN tables /\ tables[h] # None
    BY <1>1, <1>3 DEF Put, IsTable
  <2>2. /\ DOMAIN tables' = DOMAIN tables /\ tables'[h] = t
        /\ \A g \in DOMAIN tables : g # h => tables'[g] = tables[g]
    BY <2>1
  <2>3. Table(h)' = t
    BY <1>3, <2>2 DEF Table
  <2>4. \A g : IsTable(g)' <=> IsTable(g)
    BY <1>0, <2>1, <2>2 DEF IsTable
  <2>5. Named' = Named
    BY <2>4 DEF Named, Handles
  <2>6. ASSUME NEW g \in Named, g # h PROVE Table(g)' = Table(g)
    <3>1. g = 0 \/ g \in DOMAIN tables
      BY DEF Named, IsTable
    <3>2. Gamestate' = Gamestate
      BY <2>1 DEF Gamestate
    <3>3. g # 0 => tables'[g] = tables[g]
      BY <2>2, <2>6, <3>1
    <3> QED
      BY <3>2, <3>3 DEF Table
  <2> QED
    BY <2>3, <2>5, <2>6
<1> QED
  BY <1>2, <1>3

\* The stack of one key becomes new.
Became(u, t, key, new) ==
    \A k \in NamedKeys : StackOf(u, k) = IF k = key THEN new ELSE StackOf(t, k)

LEMMA StacksChange ==
    ASSUME NEW h \in Named, NEW u \in TableValues, Put(h, u),
           NEW key \in NamedKeys, NEW new, Became(u, Table(h), key, new)
    PROVE  /\ TableStacks' = [TableStacks EXCEPT ![h][key] = new]
           /\ h \in DOMAIN TableStacks /\ h \in DOMAIN TableStacks'
           /\ TableStacks[h][key] = StackOf(Table(h), key) /\ TableStacks'[h][key] = new
<1>1. /\ Named' = Named /\ Table(h)' = u
      /\ \A g \in Named : g # h => Table(g)' = Table(g)
  BY PutShows
<1>2. View(u) = [View(Table(h)) EXCEPT ![key] = new]
  <2>1. \A k \in NamedKeys : View(u)[k] = IF k = key THEN new ELSE View(Table(h))[k]
    BY DEF View, Became
  <2>2. View(u) = [k \in NamedKeys |-> View(u)[k]] /\ View(Table(h)) = [k \in NamedKeys |-> View(Table(h))[k]]
    BY DEF View
  <2> QED
    BY <2>1, <2>2
<1> DEFINE now == [g \in Named |-> View(Table(g))]
           next == [g \in Named |-> View(Table(g)')]
<1>3. TableStacks = now /\ TableStacks' = next
  BY <1>1, StacksNow
<1>4. \A g \in Named : next[g] = IF g = h THEN [now[h] EXCEPT ![key] = new] ELSE now[g]
  BY <1>1, <1>2
<1>5. DOMAIN now = Named /\ DOMAIN next = Named /\ now[h][key] = StackOf(Table(h), key)
      /\ now[h] = View(Table(h))
  BY DEF View
<1>6. next = [g \in Named |-> next[g]] /\ now = [g \in Named |-> now[g]]
  OBVIOUS
<1>7. key \in DOMAIN now[h]
  BY DEF View
<1> HIDE DEF now, next
<1>8. next = [now EXCEPT ![h] = [now[h] EXCEPT ![key] = new]]
  BY <1>4, <1>5, <1>6
<1>9. next[h][key] = new
  BY <1>4, <1>7
<1> QED
  BY <1>3, <1>5, <1>8, <1>9

\* A table put back as it is: gamestate may be made.
LEMMA StacksPutBack ==
    ASSUME NEW h \in Named, Table(h) \in TableValues, Put(h, Table(h))
    PROVE  UNCHANGED TableStacks
<1>1. /\ Named' = Named /\ Table(h)' = Table(h)
      /\ \A g \in Named : g # h => Table(g)' = Table(g)
  BY PutShows
<1> QED
  BY <1>1, StacksKept

\* A changed stack is a step of the stacks.
LEMMA ChangeIsStep ==
    ASSUME NEW h \in Named, NEW u \in TableValues, Put(h, u),
           NEW key \in NamedKeys, NEW new, Became(u, Table(h), key, new),
           NEW old, old = StackOf(Table(h), key), new # old,
           \/ new # << >> /\ new[Len(new)] \in [key : Keys, ty : Types \cup {StringType, DefaultType}, val : Texts]
                 /\ KeyStacks!Pop(new) \in {old, KeyStacks!Pop(old)}
           \/ old # << >> /\ new = KeyStacks!Pop(old)
    PROVE  KeyStacks!Next
<1>1. /\ TableStacks' = [TableStacks EXCEPT ![h][key] = new]
      /\ h \in DOMAIN TableStacks /\ h \in DOMAIN TableStacks'
      /\ TableStacks[h][key] = old /\ TableStacks'[h][key] = new
  BY StacksChange
<1>2. KeyStacks!Change(h, key)
  BY <1>1 DEF KeyStacks!Change
<1>3. key \in Keys \ {<< >>}
  BY DEF NamedKeys
<1> QED
  BY <1>1, <1>2, <1>3 DEF KeyStacks!Next

LEMMA SameIsStutter ==
    ASSUME NEW h \in Named, NEW u \in TableValues, Put(h, u),
           NEW key \in NamedKeys, Became(u, Table(h), key, StackOf(Table(h), key))
    PROVE  UNCHANGED TableStacks
<1> DEFINE new == StackOf(Table(h), key)
<1>1. /\ TableStacks' = [TableStacks EXCEPT ![h][key] = new]
      /\ TableStacks[h][key] = new
  BY StacksChange
<1>2. TableStacks = [g \in Named |-> View(Table(g))]
  BY StacksNow
<1>3. TableStacks[h] \in [NamedKeys -> {StackOf(Table(h), k) : k \in NamedKeys}]
  BY <1>2 DEF View
<1> HIDE DEF new
<1>4. [TableStacks[h] EXCEPT ![key] = new] = TableStacks[h]
  BY <1>1, <1>3
<1>5. [TableStacks EXCEPT ![h] = TableStacks[h]] = TableStacks
  BY <1>2
<1> QED
  BY <1>1, <1>4, <1>5

\* The table hash_add pushes to: the newest entry of the key is popped, or it is the table.
LEMMA RestView ==
    ASSUME NEW t, Balanced(t), NEW key \in NamedKeys, NEW stacked, NEW rest, rest = Rest(t, key, stacked)
    PROVE  /\ StackOf(rest, key) \in {StackOf(t, key), KeyStacks!Pop(StackOf(t, key))}
           /\ \A k \in NamedKeys : k # key => StackOf(rest, k) = StackOf(t, k)
<1> DEFINE b == BucketOf(t, key)
           x == Max(Matches(t, key))
<1>1. t \in TableValues /\ key \in Keys
  BY DEF Balanced, NamedKeys
<1>2. CASE Replaced(t, key, stacked) = {}
  <2>1. rest = t
    BY <1>2 DEF Rest
  <2> QED
    BY <2>1
<1>3. CASE Replaced(t, key, stacked) # {}
  <2>1. /\ Matches(t, key) # {} /\ Max(Replaced(t, key, stacked)) = x
        /\ x \in DOMAIN t.buckets[b] /\ b \in DOMAIN t.buckets
    BY <1>1, <1>3, ReplacedIsNewest, BucketFound
  <2>2. rest = Without(t, b, x)
    BY <1>3, <2>1 DEF Rest
  <2>3. b = BucketOf(t, key) /\ x = Max(Matches(t, key))
    OBVIOUS
  <2> HIDE DEF b, x
  <2>4. Balanced(rest) /\ Placed(rest.buckets, t.buckets, b, RemoveAt(t.buckets[b], x))
    BY <2>1, <2>2, WithoutFacts
  <2>5. rest \in TableValues
    BY <2>4 DEF Balanced
  <2>6. \A k \in NamedKeys : StackOf(rest, k) = IF k = key THEN KeyStacks!Pop(StackOf(t, k)) ELSE StackOf(t, k)
    BY <1>1, <2>1, <2>3, <2>4, <2>5, RemovedView
  <2> QED
    BY <2>6
<1> QED
  BY <1>2, <1>3

LEMMA AddView ==
    ASSUME NEW t, Balanced(t), NEW e \in Entry, NEW key, key = e.key, NEW stacked,
           NEW u, u = Pushed(Rest(t, key, stacked), BucketOf(t, key), e)
    PROVE  /\ u \in TableValues
           /\ \E base \in Seq(Entry) : /\ base \in {StackOf(t, key), KeyStacks!Pop(StackOf(t, key))}
                                       /\ Became(u, t, key, Append(base, e))
<1> DEFINE rest == Rest(t, key, stacked)
           b == BucketOf(t, key)
<1>1. key \in Keys /\ key \in NamedKeys
  BY DEF Entry, NamedKeys
<1>2. Balanced(rest) /\ Len(rest.buckets) = Len(t.buckets)
  BY <1>1, RestFacts
<1>3. t \in TableValues /\ rest \in TableValues
  BY <1>2 DEF Balanced
<1>4. /\ StackOf(rest, key) \in {StackOf(t, key), KeyStacks!Pop(StackOf(t, key))}
      /\ \A k \in NamedKeys : k # key => StackOf(rest, k) = StackOf(t, k)
  BY <1>1, RestView
<1>5. u = Pushed(rest, b, e)
  OBVIOUS
<1>6. b = BucketOf(rest, key)
  BY <1>2 DEF BucketOf
<1> HIDE DEF rest, b
<1>7. b \in DOMAIN rest.buckets
  BY <1>1, <1>3, <1>6, BucketFound
<1>8. /\ Balanced(Pushed(rest, b, e))
      /\ Placed(Pushed(rest, b, e).buckets, rest.buckets, b, Append(rest.buckets[b], e))
  BY <1>2, <1>7, PushFacts
<1>9. u \in TableValues /\ Placed(u.buckets, rest.buckets, b, Append(rest.buckets[b], e))
  BY <1>5, <1>8 DEF Balanced
<1>10. b = BucketOf(rest, e.key)
  BY <1>6
<1>11. ASSUME NEW k \in NamedKeys
       PROVE  StackOf(u, k) = IF k = e.key THEN Append(StackOf(rest, k), e) ELSE StackOf(rest, k)
  <2>1. /\ rest \in TableValues /\ u \in TableValues /\ e \in Entry /\ b = BucketOf(rest, e.key)
        /\ Placed(u.buckets, rest.buckets, b, Append(rest.buckets[b], e)) /\ k \in NamedKeys
    BY <1>3, <1>9, <1>10
  <2> QED
    BY ONLY <2>1, PushedView
<1>12. Became(u, t, key, Append(StackOf(rest, key), e))
  BY <1>4, <1>11 DEF Became
<1>13. StackOf(rest, key) \in Seq(Entry)
  BY <1>1, <1>3, StackOfKey
<1> QED
  BY <1>4, <1>9, <1>12, <1>13

\* The steps of the abstract specification, and those it does not see.
StacksStep == KeyStacks!Next \/ UNCHANGED TableStacks

LEMMA AddShows ==
    ASSUME ContainersInv, NEW h \in Handles, NEW key \in Keys, NEW val \in Texts, NEW type \in Types,
           NEW stacked, hash_add(h, key, val, type, stacked)
    PROVE  StacksStep
<1> DEFINE t == Table(h)
           b == BucketOf(t, key)
           e == [key |-> key, ty |-> IF type = 0 THEN t.ty ELSE type, val |-> val]
           u == Pushed(Rest(t, key, stacked), b, e)
<1>1. IsTable(h) /\ h \in Named
  BY DEF hash_add, Named
<1>2. Balanced(t) /\ t \in TableValues
  BY <1>1, TableFound DEF Balanced
<1>3. CASE key # << >> /\ CanRecharge(OldCost(t, key, stacked), EntryCost(e))
  <2>1. Put(h, u)
    BY <1>3 DEF hash_add, Pushed, Rest, OldCost
  <2>2. t.ty \in Types \cup {StringType, DefaultType}
    BY <1>2, TableShape
  <2>3. e \in Entry /\ e.key = key
    BY <1>3, <2>2 DEF Entry
  <2>4. u = Pushed(Rest(t, key, stacked), BucketOf(t, key), e)
    OBVIOUS
  <2> DEFINE old == StackOf(Table(h), key)
  <2> HIDE DEF e, b, u
  <2>5. PICK base \in Seq(Entry) : /\ base \in {StackOf(t, key), KeyStacks!Pop(StackOf(t, key))}
                                   /\ Became(u, t, key, Append(base, e))
    BY <1>2, <2>3, <2>4, AddView
  <2>6. u \in TableValues
    BY <1>2, <2>3, <2>4, AddView
  <2>7. key \in NamedKeys
    BY <2>3 DEF Entry, NamedKeys
  <2> DEFINE new == Append(base, e)
  <2>8. /\ KeyStacks!Pop(new) = base /\ new # << >> /\ new[Len(new)] = e
    BY <2>3, PopOfAppend
  <2>9. e \in [key : Keys, ty : Types \cup {StringType, DefaultType}, val : Texts]
    BY <2>3 DEF Entry
  <2>10. base \in {old, KeyStacks!Pop(old)} /\ Became(u, Table(h), key, new)
    BY <2>5
  <2>11. old = StackOf(Table(h), key)
    OBVIOUS
  <2> HIDE DEF new, old, t
  <2>12. CASE new = old
    BY <1>1, <2>1, <2>6, <2>7, <2>10, <2>11, <2>12, SameIsStutter DEF StacksStep
  <2>13. CASE new # old
    <3>1. KeyStacks!Next
      BY <1>1, <2>1, <2>6, <2>7, <2>8, <2>9, <2>10, <2>11, <2>13, ChangeIsStep
    <3> QED
      BY <3>1 DEF StacksStep
  <2> QED
    BY <2>12, <2>13
<1>4. CASE ~(key # << >> /\ CanRecharge(OldCost(t, key, stacked), EntryCost(e)))
  <2>1. Put(h, t)
    BY <1>4 DEF hash_add, OldCost
  <2> QED
    BY <1>1, <1>2, <2>1, StacksPutBack DEF StacksStep
<1> QED
  BY <1>3, <1>4

LEMMA DeleteShows ==
    ASSUME ContainersInv, NEW h \in Handles, NEW key \in Keys, hash_delete(h, key)
    PROVE  StacksStep
<1> DEFINE t == Table(h)
           b == BucketOf(t, key)
           x == Max(Matches(t, key))
           u == Without(t, b, x)
<1>1. IsTable(h) /\ h \in Named
  BY DEF hash_delete, Named
<1>2. Balanced(t) /\ t \in TableValues
  BY <1>1, TableFound DEF Balanced
<1>3. CASE Matches(t, key) # {} /\ key # << >>
  <2>1. Put(h, u)
    BY <1>3 DEF hash_delete
  <2>2. key \in NamedKeys
    BY <1>3 DEF NamedKeys
  <2>3. x \in DOMAIN t.buckets[b] /\ b \in DOMAIN t.buckets
    BY <1>2, <1>3, NewestFound, BucketFound
  <2>4. b = BucketOf(t, key) /\ x = Max(Matches(t, key))
    OBVIOUS
  <2> DEFINE old == StackOf(Table(h), key)
             new == KeyStacks!Pop(old)
  <2> HIDE DEF b, x
  <2>5. Balanced(u) /\ Placed(u.buckets, t.buckets, b, RemoveAt(t.buckets[b], x))
    BY <1>2, <2>3, WithoutFacts
  <2>6. u \in TableValues
    BY <2>5 DEF Balanced
  <2> HIDE DEF u
  <2>7. /\ \A k \in NamedKeys : StackOf(u, k) = IF k = key THEN KeyStacks!Pop(StackOf(t, k)) ELSE StackOf(t, k)
        /\ StackOf(t, key) # << >>
    <3> HIDE DEF t
    <3> QED
      BY <1>2, <1>3, <2>2, <2>4, <2>5, <2>6, RemovedView
  <2>8. Became(u, Table(h), key, new) /\ old # << >>
    BY <2>7 DEF Became
  <2>9. old = StackOf(Table(h), key) /\ new = KeyStacks!Pop(old)
    OBVIOUS
  <2> HIDE DEF new, old, t
  <2>10. CASE new = old
    BY <1>1, <2>1, <2>2, <2>6, <2>8, <2>9, <2>10, SameIsStutter DEF StacksStep
  <2>11. CASE new # old
    <3>1. KeyStacks!Next
      BY <1>1, <2>1, <2>2, <2>6, <2>8, <2>9, <2>11, ChangeIsStep
    <3> QED
      BY <3>1 DEF StacksStep
  <2> QED
    BY <2>10, <2>11
<1>4. CASE Matches(t, key) = {}
  <2>1. Put(h, t)
    BY <1>4 DEF hash_delete
  <2> QED
    BY <1>1, <1>2, <2>1, StacksPutBack DEF StacksStep
<1>5. CASE key = << >>
  <2>1. Matches(t, key) = {}
    <3>1. t.buckets[BucketOf(t, key)] \in Seq(Entry)
      BY <1>2, BucketFound
    <3> DEFINE c == t.buckets[BucketOf(t, key)]
    <3>2. Matches(t, key) = {i \in DOMAIN c : c[i].key = key}
      BY DEF Matches
    <3> HIDE DEF c, t
    <3>3. \A i \in DOMAIN c : c[i] \in Entry
      BY <3>1 DEF c
    <3>4. \A v \in Entry : v.key # << >>
      BY DEF Entry
    <3> QED
      BY <1>5, <3>2, <3>3, <3>4
  <2> QED
    BY <1>4, <2>1
<1> QED
  BY <1>3, <1>4, <1>5

\* A new table appears with no stack of any height.
LEMMA CreatetabShows ==
    ASSUME ContainersInv, NEW size \in Int, NEW type \in Types \cup {StringType, DefaultType},
           hash_createtab(size, type)
    PROVE  StacksStep
<1> DEFINE t == NewTable(Buckets(size), type)
<1>1. Balanced(t) /\ View(t) = [k \in NamedKeys |-> << >>]
  BY BucketsOfSize, NewTableFacts, EmptyView
<1>2. t \in TableValues /\ t # None
  BY <1>1, TableShape DEF Balanced
<1>3. tables' = InSlot(tables, t) /\ gamestate' = gamestate
  BY DEF hash_createtab
<1>4. tables \in Seq(TableValues \cup {None})
  BY DEF ContainersInv, TablesOK
<1>0. PICK h : h = FirstFree(tables)
  OBVIOUS
<1> HIDE DEF t
<1>5. Took(tables', tables, t)
  <2>1. t \in TableValues \cup {None}
    BY <1>2
  <2> QED
    BY <1>2, <1>3, <1>4, <2>1, SlotTook
<1>6. /\ DOMAIN tables' = DOMAIN tables \cup {h} /\ tables'[h] = t /\ h \in 1 .. Len(tables')
      /\ \A i \in DOMAIN tables : i # h => tables'[i] = tables[i]
      /\ h \in DOMAIN tables => tables[h] = None
  BY <1>0, <1>5 DEF Took
<1>7. Len(tables') <= TablesLimit /\ Len(tables') \in Nat
  <2>1. ContainersInv'
    BY CreatetabKeepsInv
  <2> QED
    BY <2>1 DEF ContainersInv, TablesOK
<1>8. h \in Handles /\ h # 0
  BY <1>6, <1>7, ContainersAssumption DEF Handles
<1>9. \A g : IsTable(g)' <=> IsTable(g) \/ g = h
  BY <1>2, <1>6, <1>8 DEF IsTable
<1>10. Named' = Named \cup {h} /\ ~(h \in Named)
  <2>1. ~IsTable(h)
    BY <1>6, <1>8 DEF IsTable
  <2> QED
    BY <1>8, <1>9, <2>1 DEF Named, Handles
<1>11. Table(h)' = t
  BY <1>6, <1>8 DEF Table
<1>12. ASSUME NEW g \in Named PROVE Table(g)' = Table(g)
  <2>1. g = 0 \/ g \in DOMAIN tables
    BY DEF Named, IsTable
  <2>2. Gamestate' = Gamestate
    BY <1>3 DEF Gamestate
  <2>3. g # 0 => tables'[g] = tables[g]
    BY <1>6, <1>10, <2>1
  <2> QED
    BY <2>2, <2>3 DEF Table
<1>13. /\ TableStacks = [g \in Named |-> View(Table(g))]
       /\ TableStacks' = [g \in Named' |-> View(Table(g)')]
  BY StacksNow
<1>14. DOMAIN TableStacks = Named /\ DOMAIN TableStacks' = Named'
  BY <1>13
<1>15. TableStacks' = [g \in Named \cup {h} |-> IF g = h THEN [k \in NamedKeys |-> << >>] ELSE TableStacks[g]]
  <2>1. \A g \in Named : TableStacks[g] = View(Table(g))
    BY <1>13
  <2>2. \A g \in Named \cup {h} : View(Table(g)') = IF g = h THEN [k \in NamedKeys |-> << >>] ELSE TableStacks[g]
    BY <1>1, <1>10, <1>11, <1>12, <2>1
  <2>3. TableStacks' = [g \in Named \cup {h} |-> View(Table(g)')]
    BY <1>10, <1>13
  <2> QED
    BY <2>2, <2>3
<1>16. KeyStacks!Appear(h)
  BY <1>10, <1>14, <1>15 DEF KeyStacks!Appear, NamedKeys
<1> QED
  BY <1>8, <1>16 DEF StacksStep, KeyStacks!Next

LEMMA DestroytabShows ==
    ASSUME ContainersInv, NEW h \in Handles, hash_destroytab(h)
    PROVE  StacksStep
<1>1. IsTable(h) /\ h \in Named
  BY DEF hash_destroytab, Named
<1>2. CASE h = 0
  <2>1. Put(h, Table(h))
    BY <1>2 DEF hash_destroytab, Table
  <2>2. Table(h) \in TableValues
    BY <1>1, TableFound DEF Balanced
  <2> QED
    BY <1>1, <2>1, <2>2, StacksPutBack DEF StacksStep
<1>3. CASE h # 0
  <2>1. tables' = [tables EXCEPT ![h] = None] /\ gamestate' = gamestate
    BY <1>3 DEF hash_destroytab, Put
  <2>2. h \in DOMAIN tables
    BY <1>1, <1>3 DEF IsTable
  <2>3. /\ DOMAIN tables' = DOMAIN tables /\ tables'[h] = None
        /\ \A g \in DOMAIN tables : g # h => tables'[g] = tables[g]
    BY <2>1, <2>2
  <2>4. \A g : IsTable(g)' <=> IsTable(g) /\ g # h
    BY <1>3, <2>3 DEF IsTable
  <2>5. Named' = Named \ {h}
    BY <2>4 DEF Named, Handles
  <2>6. ASSUME NEW g \in Named, g # h PROVE Table(g)' = Table(g)
    <3>1. g = 0 \/ g \in DOMAIN tables
      BY DEF Named, IsTable
    <3>2. Gamestate' = Gamestate
      BY <2>1 DEF Gamestate
    <3>3. g # 0 => tables'[g] = tables[g]
      BY <2>3, <2>6, <3>1
    <3> QED
      BY <3>2, <3>3 DEF Table
  <2>7. /\ TableStacks = [g \in Named |-> View(Table(g))]
        /\ TableStacks' = [g \in Named' |-> View(Table(g)')]
    BY StacksNow
  <2>8. TableStacks' = [g \in Named \ {h} |-> TableStacks[g]] /\ DOMAIN TableStacks = Named /\ DOMAIN TableStacks' = Named'
    <3>1. \A g \in Named \ {h} : View(Table(g)') = TableStacks[g]
      BY <2>6, <2>7
    <3>2. TableStacks' = [g \in Named \ {h} |-> View(Table(g)')]
      BY <2>5, <2>7
    <3> QED
      BY <2>7, <3>1, <3>2
  <2>9. KeyStacks!Vanish(h)
    BY <1>1, <1>3, <2>5, <2>8 DEF KeyStacks!Vanish
  <2> QED
    BY <2>9 DEF StacksStep, KeyStacks!Next
<1> QED
  BY <1>2, <1>3

\* The steps that leave the tables alone.
LEMMA OthersShow ==
    ASSUME UNCHANGED <<tables, gamestate>>
    PROVE  StacksStep
<1>1. Named' = Named
  BY DEF Named, IsTable, Handles
<1>2. \A g \in Named : Table(g)' = Table(g)
  BY DEF Table, Gamestate
<1> QED
  BY <1>1, <1>2, StacksKept DEF StacksStep

LEMMA BufferStepLeaves ==
    BufferStep => UNCHANGED <<tables, gamestate>>
BY DEF BufferStep, buf_create, buf_del, buf_copy, bufstr_set, bufstr_add, bufstr_free,
       buf_sort, buf_cvarlist, buf_loadfile, Store, Exchange

LEMMA StacksStepOK ==
    ContainersInv /\ [Next]_vars => [KeyStacks!Next]_TableStacks
<1> SUFFICES ASSUME ContainersInv, [Next]_vars PROVE StacksStep
  BY DEF StacksStep
<1>1. ASSUME NEW size \in Sizes, NEW type \in Types,
             hash_createtab(size, IF type = 0 THEN DefaultType ELSE type)
      PROVE  StacksStep
  <2>1. size \in Int
    BY ContainersAssumption
  <2>2. PICK ty \in Types \cup {StringType, DefaultType} : ty = (IF type = 0 THEN DefaultType ELSE type)
    OBVIOUS
  <2> QED
    BY <1>1, <2>1, <2>2, CreatetabShows
<1>2. ASSUME NEW h \in Handles, hash_destroytab(h) PROVE StacksStep
  BY <1>2, DestroytabShows
<1>3. ASSUME NEW h \in Handles, NEW key \in Keys, NEW val \in Texts, NEW type \in Types,
             NEW stacked \in BOOLEAN, hash_add(h, key, val, type, stacked)
      PROVE  StacksStep
  BY <1>3, AddShows
<1>4. ASSUME NEW h \in Handles, NEW key \in Keys, hash_delete(h, key) PROVE StacksStep
  BY <1>4, DeleteShows
<1>5. CASE TableStep
  BY <1>1, <1>2, <1>3, <1>4, <1>5 DEF TableStep
<1>6. CASE BufferStep
  BY <1>6, BufferStepLeaves, OthersShow
<1>7. ASSUME NEW texts \in Lines, Tokenize(texts) PROVE StacksStep
  BY <1>7, OthersShow DEF Tokenize
<1>8. CASE UNCHANGED vars
  BY <1>8, OthersShow DEF vars
<1> QED
  BY <1>5, <1>6, <1>7, <1>8 DEF Next

LEMMA StacksInitOK ==
    Init => KeyStacks!Init
<1> SUFFICES ASSUME Init PROVE KeyStacks!Init
  OBVIOUS
<1>1. tables = << >> /\ gamestate = None /\ DOMAIN tables = {}
  BY DEF Init
<1>2. Named = {0}
  BY <1>1, ContainersAssumption DEF Named, IsTable, Handles
<1>3. Table(0) = NewTable(GamestateBuckets, StringType)
  BY <1>1 DEF Table, Gamestate
<1>4. View(Table(0)) = [k \in NamedKeys |-> << >>]
  BY <1>3, EmptyView, ContainersAssumption
<1>5. TableStacks = [h \in {0} |-> [k \in NamedKeys |-> << >>]]
  BY <1>2, <1>4, StacksNow
<1> QED
  BY <1>5 DEF KeyStacks!Init, NamedKeys

\* The tables are stacks of values, one for each table and key, whatever keys share a
\* bucket: hash_add pushes or exchanges the newest entry of its key, hash_delete pops it,
\* and no other stack changes (hash_createtab, hash_destroytab, hash_add, hash_delete).
THEOREM TablesImplementStacks == Spec => TablesAreStacks
BY ContainersInvariance, StacksInitOK, StacksStepOK, PTL DEF Spec, TablesAreStacks, KeyStacks!Spec

=============================================================================
