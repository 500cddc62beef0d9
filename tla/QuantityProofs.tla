--------------------------- MODULE QuantityProofs ---------------------------
(***************************************************************************)
(* What the stock proofs need to know about SumOver: it is a natural       *)
(* number, it depends only on the rows it sums, one row can be split off,  *)
(* and it is linear in a row-by-row difference.  Everything follows from   *)
(* the theorems on the cardinality of finite sets.  And about Rounded: it  *)
(* leaves whole numbers alone, and a whole number may be taken off before  *)
(* the rounding or after it.                                               *)
(***************************************************************************)
EXTENDS Quantities, FiniteSetTheorems, FunctionTheorems, TLAPS

\* f gives every row of S a natural number of units.
IsQty(S, f) == \A d \in S : f[d] \in Nat

\* The units of finitely many rows are finitely many.
LEMMA UnitsFinite ==
  ASSUME NEW S, IsFiniteSet(S), NEW f, IsQty(S, f)
  PROVE  IsFiniteSet(Units(S, f))
<1> DEFINE T == {{d} \X (1 .. f[d]) : d \in S}
           g == [d \in S |-> {d} \X (1 .. f[d])]
<1>1. g \in Surjection(S, T)
  BY DEF Surjection
<1>2. IsFiniteSet(T)
  BY <1>1, FS_Surjection
<1>3. ASSUME NEW d \in S PROVE IsFiniteSet({d} \X (1 .. f[d]))
  <2>1. f[d] \in Nat
    BY DEF IsQty
  <2>2. IsFiniteSet({d})
    BY FS_Singleton
  <2>3. IsFiniteSet(1 .. f[d])
    BY <2>1, FS_Interval
  <2> QED BY <2>2, <2>3, FS_Product
<1>4. \A X \in T : IsFiniteSet(X)
  BY <1>3
<1> QED BY <1>2, <1>4, FS_UNION DEF Units

\* A sum of natural numbers is a natural number.
LEMMA SumType ==
  ASSUME NEW S, IsFiniteSet(S), NEW f, IsQty(S, f)
  PROVE  SumOver(S, f) \in Nat
BY UnitsFinite, FS_CardinalityType DEF SumOver

\* The sum depends on the rows of S only.
LEMMA SumSame ==
  ASSUME NEW S, NEW f, NEW g, \A d \in S : f[d] = g[d]
  PROVE  SumOver(S, f) = SumOver(S, g)
<1>1. Units(S, f) = Units(S, g)
  BY DEF Units
<1> QED BY <1>1 DEF SumOver

\* No rows, no units.
LEMMA SumZero ==
  ASSUME NEW S, NEW f, \A d \in S : f[d] = 0
  PROVE  SumOver(S, f) = 0
<1>1. \A d \in S : 1 .. f[d] = {}
  OBVIOUS
<1>2. Units(S, f) = {}
  BY <1>1 DEF Units
<1> QED BY <1>2, FS_EmptySet DEF SumOver

\* One row contributes its own quantity.
LEMMA SumSplit ==
  ASSUME NEW S, IsFiniteSet(S), NEW f, IsQty(S, f), NEW d \in S
  PROVE  SumOver(S, f) = SumOver(S \ {d}, f) + f[d]
<1> DEFINE R == Units(S \ {d}, f)
           O == {d} \X (1 .. f[d])
<1>1. f[d] \in Nat
  BY DEF IsQty
<1>2. Units(S, f) = R \cup O
  BY DEF Units
<1>3. R \cap O = {}
  BY DEF Units
<1>4. IsFiniteSet(S \ {d}) /\ IsQty(S \ {d}, f)
  BY FS_RemoveElement DEF IsQty
<1>5. IsFiniteSet(R)
  BY <1>4, UnitsFinite
<1>6. IsFiniteSet({d}) /\ Cardinality({d}) = 1
  BY FS_Singleton
<1>7. IsFiniteSet(1 .. f[d]) /\ Cardinality(1 .. f[d]) = f[d]
  BY <1>1, FS_Interval
<1>8. IsFiniteSet(O) /\ Cardinality(O) = Cardinality({d}) * Cardinality(1 .. f[d])
  BY <1>6, <1>7, FS_Product
<1>9. Cardinality(O) = f[d]
  BY <1>1, <1>6, <1>7, <1>8
<1>10. Cardinality(R \cup O) = Cardinality(R) + Cardinality(O) - Cardinality(R \cap O)
  BY <1>5, <1>8, FS_Union
<1>11. Cardinality(R \cap O) = 0
  BY <1>3, FS_EmptySet
<1>12. Cardinality(R) \in Nat
  BY <1>5, FS_CardinalityType
<1> QED BY <1>1, <1>2, <1>9, <1>10, <1>11, <1>12 DEF SumOver

\* Changing one row moves the sum by the change of that row.
LEMMA SumUpdate ==
  ASSUME NEW S, IsFiniteSet(S), NEW f, IsQty(S, f), NEW g, IsQty(S, g),
         NEW d \in S, \A e \in S \ {d} : f[e] = g[e]
  PROVE  SumOver(S, g) = SumOver(S, f) - f[d] + g[d]
<1>1. SumOver(S, f) = SumOver(S \ {d}, f) + f[d]
  BY SumSplit
<1>2. SumOver(S, g) = SumOver(S \ {d}, g) + g[d]
  BY SumSplit
<1>3. SumOver(S \ {d}, f) = SumOver(S \ {d}, g)
  BY SumSame
<1>4. IsFiniteSet(S \ {d}) /\ IsQty(S \ {d}, f)
  BY FS_RemoveElement DEF IsQty
<1>5. SumOver(S \ {d}, f) \in Nat /\ f[d] \in Nat /\ g[d] \in Nat
  BY <1>4, SumType DEF IsQty
<1> QED BY <1>1, <1>2, <1>3, <1>5

\* A row holds at most the total.
LEMMA SumMember ==
  ASSUME NEW S, IsFiniteSet(S), NEW f, IsQty(S, f), NEW d \in S
  PROVE  f[d] <= SumOver(S, f)
<1>1. SumOver(S, f) = SumOver(S \ {d}, f) + f[d]
  BY SumSplit
<1>2. IsFiniteSet(S \ {d}) /\ IsQty(S \ {d}, f)
  BY FS_RemoveElement DEF IsQty
<1>3. SumOver(S \ {d}, f) \in Nat /\ f[d] \in Nat
  BY <1>2, SumType DEF IsQty
<1> QED BY <1>1, <1>3

\* Taking g from f row by row takes the sum of g from the sum of f.
LEMMA SumDifference ==
  ASSUME NEW S, IsFiniteSet(S), NEW f, IsQty(S, f), NEW g, IsQty(S, g),
         NEW h, \A d \in S : g[d] <= f[d] /\ h[d] = f[d] - g[d]
  PROVE  SumOver(S, h) = SumOver(S, f) - SumOver(S, g)
<1> DEFINE F == Units(S, f)
           G == Units(S, g)
           H == Units(S, h)
           D == F \ G
           s == [u \in H |-> <<u[1], u[2] + g[u[1]]>>]
<1>1. \A d \in S : f[d] \in Nat /\ g[d] \in Nat /\ h[d] \in Nat
  BY DEF IsQty
<1>2. \A d, k : <<d, k>> \in F <=> d \in S /\ k \in 1 .. f[d]
  BY DEF Units
<1>3. \A d, k : <<d, k>> \in G <=> d \in S /\ k \in 1 .. g[d]
  BY DEF Units
<1>4. \A d, k : <<d, k>> \in H <=> d \in S /\ k \in 1 .. h[d]
  BY DEF Units
<1>5. \A u \in F \cup G \cup H : u = <<u[1], u[2]>>
  BY DEF Units
<1>6. G \subseteq F
  BY <1>1, <1>2, <1>3, <1>5
<1>7. s \in Bijection(H, D)
  <2>1. ASSUME NEW u \in H PROVE s[u] \in D
    <3>1. u[1] \in S /\ u[2] \in 1 .. h[u[1]]
      BY <1>4, <1>5
    <3>2. u[2] + g[u[1]] \in 1 .. f[u[1]] /\ ~(u[2] + g[u[1]] \in 1 .. g[u[1]])
      BY <1>1, <3>1
    <3> QED BY <1>2, <1>3, <3>1, <3>2
  <2>2. ASSUME NEW u \in H, NEW v \in H, s[u] = s[v] PROVE u = v
    <3>1. u[1] \in S /\ v[1] \in S /\ u[2] \in Int /\ v[2] \in Int
      BY <1>1, <1>4, <1>5
    <3>2. u[1] = v[1] /\ u[2] + g[u[1]] = v[2] + g[v[1]]
      BY <2>2
    <3>3. u[2] = v[2]
      BY <1>1, <3>1, <3>2
    <3> QED BY <1>5, <3>2, <3>3
  <2>3. ASSUME NEW w \in D PROVE \E u \in H : s[u] = w
    <3>1. w = <<w[1], w[2]>> /\ w[1] \in S /\ w[2] \in 1 .. f[w[1]] /\ ~(w[2] \in 1 .. g[w[1]])
      BY <1>2, <1>3, <1>5
    <3>2. w[2] - g[w[1]] \in 1 .. h[w[1]]
      BY <1>1, <3>1
    <3> DEFINE u == <<w[1], w[2] - g[w[1]]>>
    <3>3. u \in H
      BY <1>4, <3>1, <3>2
    <3>4. s[u] = <<w[1], (w[2] - g[w[1]]) + g[w[1]]>>
      BY <3>3
    <3>5. (w[2] - g[w[1]]) + g[w[1]] = w[2]
      BY <1>1, <3>1
    <3> QED BY <3>1, <3>3, <3>4, <3>5
  <2>4. s \in [H -> D]
    BY <2>1
  <2> HIDE DEF s
  <2>5. IsInjective(s)
    BY <2>2, <2>4 DEF IsInjective
  <2> QED BY <2>3, <2>4, <2>5 DEF Bijection, Injection, Surjection
<1>8. IsQty(S, h)
  BY <1>1 DEF IsQty
<1>9. IsFiniteSet(F) /\ IsFiniteSet(G) /\ IsFiniteSet(H)
  BY <1>8, UnitsFinite
<1>10. Cardinality(D) = Cardinality(H)
  BY <1>7, <1>9, FS_Bijection DEF ExistsBijection
<1>11. Cardinality(D) = Cardinality(F) - Cardinality(F \cap G)
  BY <1>9, FS_Difference
<1>12. F \cap G = G
  BY <1>6
<1> QED BY <1>10, <1>11, <1>12 DEF SumOver

\* A quantity that two others cover row by row is covered by their sums.
LEMMA SumCovered ==
  ASSUME NEW S, IsFiniteSet(S), NEW f, IsQty(S, f), NEW g, IsQty(S, g), NEW h, IsQty(S, h),
         \A d \in S : f[d] <= g[d] + h[d]
  PROVE  SumOver(S, f) <= SumOver(S, g) + SumOver(S, h)
<1> DEFINE t == [d \in S |-> g[d] + h[d]]
           e == [d \in S |-> t[d] - f[d]]
<1>1. \A d \in S : f[d] \in Nat /\ g[d] \in Nat /\ h[d] \in Nat
  BY DEF IsQty
<1>2. \A d \in S : /\ t[d] \in Nat /\ g[d] <= t[d] /\ h[d] = t[d] - g[d]
                   /\ e[d] \in Nat /\ f[d] <= t[d] /\ e[d] = t[d] - f[d]
  BY <1>1
<1> HIDE DEF t, e
<1>3. IsQty(S, t) /\ IsQty(S, e)
  BY <1>2 DEF IsQty
<1>4. SumOver(S, h) = SumOver(S, t) - SumOver(S, g)
  BY <1>2, <1>3, SumDifference
<1>5. SumOver(S, e) = SumOver(S, t) - SumOver(S, f)
  BY <1>2, <1>3, SumDifference
<1>6. /\ SumOver(S, e) \in Nat /\ SumOver(S, t) \in Nat /\ SumOver(S, f) \in Nat
      /\ SumOver(S, g) \in Nat /\ SumOver(S, h) \in Nat
  BY <1>3, SumType
<1> QED BY <1>4, <1>5, <1>6

-----------------------------------------------------------------------------
(* Rounding.                                                               *)

\* Multiplication distributes over addition.
LEMMA Distributes ==
  ASSUME NEW s \in Int, NEW a \in Int, NEW b \in Int
  PROVE  s * (a + b) = s * a + s * b
OBVIOUS

\* Quotient and remainder.
LEMMA DivMod ==
  ASSUME NEW n \in Nat, NEW s \in Nat \ {0}
  PROVE  /\ n = s * (n \div s) + (n % s) /\ n \div s \in Nat
         /\ (n % s) \in 0 .. s - 1 /\ (n % s) <= n
OBVIOUS

\* The same, with names for the two.
LEMMA Division ==
  ASSUME NEW n \in Nat, NEW s \in Nat \ {0}
  PROVE  \E q \in Int : \E r \in 0 .. (s - 1) : n = s * q + r /\ r = n % s
<1>1. n = s * (n \div s) + (n % s) /\ n \div s \in Int /\ (n % s) \in 0 .. (s - 1)
  BY DivMod
<1> WITNESS n \div s \in Int
<1> WITNESS (n % s) \in 0 .. (s - 1)
<1> QED BY <1>1

\* The remainder is unique.
LEMMA RemainderUnique ==
  ASSUME NEW s \in Nat \ {0}, NEW q \in Int, NEW t \in Int,
         NEW r \in 0 .. (s - 1), NEW u \in 0 .. (s - 1), s * q + r = s * t + u
  PROVE  r = u /\ q = t
<1>1. CASE q = t
  BY <1>1
<1>2. CASE q > t
  <2>1. s * q >= s * t + s
    BY <1>2
  <2> QED BY <2>1
<1>3. CASE q < t
  <2>1. s * t >= s * q + s
    BY <1>3
  <2> QED BY <2>1
<1> QED BY <1>1, <1>2, <1>3

\* Taking a whole number off leaves the remainder.
LEMMA RemainderShift ==
  ASSUME NEW n \in Nat, NEW k \in Nat, NEW s \in Nat \ {0}, Whole(k, s), k <= n
  PROVE  (n - k) % s = n % s
<1>1. PICK m \in Nat : m = n - k
  OBVIOUS
<1>2. PICK c \in Int : \E r \in 0 .. (s - 1) : n = s * c + r /\ r = n % s
  BY Division
<1>3. PICK r \in 0 .. (s - 1) : n = s * c + r /\ r = n % s
  BY <1>2
<1>4. PICK a \in Int : \E u \in 0 .. (s - 1) : m = s * a + u /\ u = m % s
  BY Division
<1>5. PICK u \in 0 .. (s - 1) : m = s * a + u /\ u = m % s
  BY <1>4
<1>6. PICK b \in Int : \E v \in 0 .. (s - 1) : k = s * b + v /\ v = k % s
  BY Division
<1>7. k = s * b
  <2>1. PICK v \in 0 .. (s - 1) : k = s * b + v /\ v = k % s
    BY <1>6
  <2>2. v = 0
    BY <2>1 DEF Whole
  <2>3. s * b \in Int
    OBVIOUS
  <2>4. k = s * b + 0
    BY <2>1, <2>2
  <2> QED BY <2>3, <2>4
<1>8. s * (a + b) = s * a + s * b
  BY Distributes
<1>9. s * (a + b) + u = s * c + r
  BY <1>1, <1>3, <1>5, <1>7, <1>8
<1>10. u = r
  BY <1>9, RemainderUnique
<1> QED BY <1>1, <1>3, <1>5, <1>10

\* A rounded quantity is a natural number.
LEMMA RoundedType ==
  ASSUME NEW n \in Nat, NEW s \in Nat \ {0}
  PROVE  Rounded(n, s) \in Nat
BY DivMod DEF Rounded

\* Whole numbers are stored as they are.
LEMMA RoundedWhole ==
  ASSUME NEW n \in Nat, NEW s \in Nat \ {0}, Whole(n, s)
  PROVE  Rounded(n, s) = n
BY DEF Rounded, Whole

\* Rounding and taking a whole number off commute.
LEMMA RoundedShift ==
  ASSUME NEW n \in Nat, NEW k \in Nat, NEW s \in Nat \ {0}, Whole(k, s), k <= n
  PROVE  Rounded(n - k, s) = Rounded(n, s) - k
<1>1. (n - k) % s = n % s
  BY RemainderShift
<1>2. n % s \in Nat
  BY DivMod
<1> QED BY <1>1, <1>2 DEF Rounded

\* A positive whole number is at least the unit.
LEMMA WholePositive ==
  ASSUME NEW n \in Nat \ {0}, NEW s \in Nat \ {0}, Whole(n, s)
  PROVE  s <= n
BY DEF Whole

\* What is stored is a whole number.
LEMMA RoundedIsWhole ==
  ASSUME NEW n \in Nat, NEW s \in Nat \ {0}
  PROVE  Whole(Rounded(n, s), s)
<1>1. PICK q \in Int : \E r \in 0 .. (s - 1) : n = s * q + r /\ r = n % s
  BY Division
<1>2. PICK r \in 0 .. (s - 1) : n = s * q + r /\ r = n % s
  BY <1>1
<1>3. PICK m \in Nat : m = Rounded(n, s)
  BY RoundedType
<1>4. n - r = s * q
  BY <1>2
<1>5. m = s * q + (IF 2 * r >= s THEN s ELSE 0)
  BY <1>2, <1>3, <1>4 DEF Rounded
<1>6. s * (q + 1) = s * q + s * 1 /\ s * 1 = s
  BY Distributes
<1>7. \E t \in Int : m = s * t
  <2>1. CASE 2 * r >= s
    <3>1. m = s * (q + 1) /\ q + 1 \in Int
      BY <1>5, <1>6, <2>1
    <3> QED BY <3>1
  <2>2. CASE ~(2 * r >= s)
    <3>1. m = s * q
      BY <1>5, <2>2
    <3> QED BY <3>1
  <2> QED BY <2>1, <2>2
<1>8. PICK t \in Int : m = s * t
  BY <1>7
<1>9. PICK a \in Int : \E u \in 0 .. (s - 1) : m = s * a + u /\ u = m % s
  BY Division
<1>10. PICK u \in 0 .. (s - 1) : m = s * a + u /\ u = m % s
  BY <1>9
<1>11. 0 \in 0 .. (s - 1) /\ s * t + 0 = s * a + u
  BY <1>8, <1>10
<1>12. u = 0
  BY <1>11, RemainderUnique
<1> QED BY <1>3, <1>10, <1>12 DEF Whole
=============================================================================
