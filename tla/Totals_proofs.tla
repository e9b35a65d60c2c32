---------------------------- MODULE Totals_proofs ----------------------------
(* Totals of natural numbers over finite sets, what the conservation laws  *)
(* of the models rest on; and the first of a finite set, by a number or by *)
(* an order, what their choices rest on.                                   *)
EXTENDS Totals, FiniteSetTheorems, WellFoundedInduction, TLAPS

Counts(f, S) == \A x \in S : f[x] \in Nat

LEMMA UnitOf ==
  ASSUME NEW f, NEW S, NEW u
  PROVE  u \in Units(f, S) <=> \E x \in S : \E i \in 1..f[x] : u = <<x, i>>
  BY DEF Units

LEMMA PileOf ==
  ASSUME NEW x, NEW n \in Nat
  PROVE  IsFiniteSet({x} \X (1..n)) /\ Cardinality({x} \X (1..n)) = n
<1>1. IsFiniteSet(1..n) /\ Cardinality(1..n) = n
  BY FS_Interval
<1>2. IsFiniteSet({x}) /\ Cardinality({x}) = 1
  BY FS_Singleton
<1>3. /\ IsFiniteSet({x} \X (1..n))
      /\ Cardinality({x} \X (1..n)) = Cardinality({x}) * Cardinality(1..n)
  BY <1>1, <1>2, FS_Product
<1> QED BY <1>1, <1>2, <1>3

LEMMA UnitsFinite ==
  ASSUME NEW f, NEW S, IsFiniteSet(S), Counts(f, S)
  PROVE  IsFiniteSet(Units(f, S))
<1> DEFINE pile == [x \in S |-> {x} \X (1..f[x])]
           T == {{x} \X (1..f[x]) : x \in S}
<1>1. pile \in Surjection(S, T)
  BY DEF Surjection
<1>2. IsFiniteSet(T)
  <2> HIDE DEF pile, T
  <2> QED BY <1>1, FS_Surjection
<1>3. \A P \in T : IsFiniteSet(P)
  <2> SUFFICES ASSUME NEW x \in S PROVE IsFiniteSet({x} \X (1..f[x]))
    OBVIOUS
  <2>1. f[x] \in Nat
    BY DEF Counts
  <2> QED BY <2>1, PileOf
<1> QED BY <1>2, <1>3, FS_UNION DEF Units

(* The total is a natural number.                                          *)
LEMMA TotalType ==
  ASSUME NEW f, NEW S, IsFiniteSet(S), Counts(f, S)
  PROVE  Total(f, S) \in Nat
  BY UnitsFinite, FS_CardinalityType DEF Total

LEMMA TotalEmpty == \A f : Total(f, {}) = 0
  BY FS_EmptySet DEF Total, Units

(* It only depends on what the function gives there.                       *)
LEMMA TotalSame ==
  ASSUME NEW f, NEW g, NEW S, \A x \in S : f[x] = g[x]
  PROVE  Total(f, S) = Total(g, S)
<1>1. Units(f, S) = Units(g, S)
  BY DEF Units
<1> QED BY <1>1 DEF Total

(* One more element adds what the function gives for it.                   *)
LEMMA TotalAdd ==
  ASSUME NEW f, NEW S, IsFiniteSet(S), Counts(f, S), NEW a, a \notin S, f[a] \in Nat
  PROVE  Total(f, S \union {a}) = Total(f, S) + f[a]
<1> DEFINE P == {a} \X (1..f[a])
<1>1. Units(f, S \union {a}) = Units(f, S) \union P
  BY DEF Units
<1>2. Units(f, S) \intersect P = {}
  BY DEF Units
<1>3. IsFiniteSet(P) /\ Cardinality(P) = f[a]
  BY PileOf
<1>4. IsFiniteSet(Units(f, S)) /\ Cardinality(Units(f, S)) \in Nat
  BY UnitsFinite, FS_CardinalityType
<1> HIDE DEF P
<1>5. Cardinality(Units(f, S) \union P) =
        Cardinality(Units(f, S)) + Cardinality(P) - Cardinality(Units(f, S) \intersect P)
  BY <1>3, <1>4, FS_Union
<1>6. Cardinality(Units(f, S) \intersect P) = 0
  BY <1>2, FS_EmptySet
<1>7. Cardinality(Units(f, S \union {a})) = Cardinality(Units(f, S)) + f[a]
  <2>1. Cardinality(Units(f, S) \union P) = Cardinality(Units(f, S)) + f[a] - 0
    BY <1>3, <1>5, <1>6
  <2>2. f[a] \in Int /\ Cardinality(Units(f, S)) \in Int
    BY <1>4
  <2>3. Cardinality(Units(f, S) \union P) = Cardinality(Units(f, S)) + f[a]
    BY <2>1, <2>2
  <2> QED BY <1>1, <2>3
<1> QED BY <1>7 DEF Total

LEMMA TotalSplit ==
  ASSUME NEW f, NEW S, IsFiniteSet(S), Counts(f, S), NEW a \in S
  PROVE  /\ Total(f, S) = Total(f, S \ {a}) + f[a]
         /\ Total(f, S \ {a}) \in Nat
<1>1. IsFiniteSet(S \ {a}) /\ Counts(f, S \ {a}) /\ f[a] \in Nat
  BY FS_RemoveElement DEF Counts
<1>2. (S \ {a}) \union {a} = S
  OBVIOUS
<1> QED BY <1>1, <1>2, TotalAdd, TotalType

(* One cell of the function changes.                                       *)
LEMMA TotalChange ==
  ASSUME NEW f, NEW g, NEW S, IsFiniteSet(S), Counts(f, S), Counts(g, S),
         NEW a \in S, \A x \in S \ {a} : g[x] = f[x]
  PROVE  Total(g, S) = Total(f, S) - f[a] + g[a]
<1>1. Total(f, S) = Total(f, S \ {a}) + f[a] /\ Total(f, S \ {a}) \in Nat
  BY TotalSplit
<1>2. Total(g, S) = Total(g, S \ {a}) + g[a]
  BY TotalSplit
<1>3. Total(g, S \ {a}) = Total(f, S \ {a})
  BY TotalSame
<1> QED BY <1>1, <1>2, <1>3 DEF Counts

(* Two cells change.                                                       *)
LEMMA TotalMove ==
  ASSUME NEW f, NEW g, NEW S, IsFiniteSet(S), Counts(f, S), Counts(g, S),
         NEW a \in S, NEW b \in S, a # b, \A x \in S \ {a, b} : g[x] = f[x]
  PROVE  Total(g, S) = Total(f, S) - f[a] - f[b] + g[a] + g[b]
<1> DEFINE T == S \ {a}
<1>1. IsFiniteSet(T) /\ Counts(f, T) /\ Counts(g, T) /\ b \in T
  BY FS_RemoveElement DEF Counts
<1>2. Total(f, S) = Total(f, T) + f[a] /\ Total(f, T) \in Nat
  BY TotalSplit
<1>3. Total(g, S) = Total(g, T) + g[a]
  BY TotalSplit
<1>4. \A x \in T \ {b} : g[x] = f[x]
  OBVIOUS
<1> HIDE DEF T
<1>5. Total(g, T) = Total(f, T) - f[b] + g[b]
  BY <1>1, <1>4, TotalChange
<1> QED BY <1>1, <1>2, <1>3, <1>5 DEF Counts

(* A smaller function, and a smaller set, have a smaller total.            *)
LEMMA TotalLess ==
  ASSUME NEW f, NEW g, NEW S, NEW T, T \subseteq S, IsFiniteSet(S), Counts(g, S),
         \A x \in T : f[x] \in Nat /\ f[x] <= g[x]
  PROVE  Total(f, T) <= Total(g, S)
<1>1. Units(f, T) \subseteq Units(g, S)
  <2> SUFFICES ASSUME NEW x \in T, NEW i \in 1..f[x] PROVE <<x, i>> \in Units(g, S)
    BY UnitOf
  <2>1. i \in 1..g[x]
    BY DEF Counts
  <2> QED BY <2>1, UnitOf
<1>2. IsFiniteSet(Units(g, S))
  BY UnitsFinite
<1> QED BY <1>1, <1>2, FS_Subset DEF Total

LEMMA TotalZero ==
  ASSUME NEW f, NEW S, \A x \in S : f[x] = 0
  PROVE  Total(f, S) = 0
<1>1. Units(f, S) = {}
  BY DEF Units
<1> QED BY <1>1, FS_EmptySet DEF Total

(* A total of natural numbers is at least each of them.                    *)
LEMMA TotalAtLeast ==
  ASSUME NEW f, NEW S, IsFiniteSet(S), Counts(f, S), NEW a \in S
  PROVE  f[a] <= Total(f, S)
<1>1. Total(f, S) = Total(f, S \ {a}) + f[a] /\ Total(f, S \ {a}) \in Nat
  BY TotalSplit
<1> QED BY <1>1 DEF Counts

(* Of two sets with nothing in common.                                     *)
LEMMA TotalUnion ==
  ASSUME NEW f, NEW S, NEW T, IsFiniteSet(S), IsFiniteSet(T), Counts(f, S), Counts(f, T), S \intersect T = {}
  PROVE  Total(f, S \union T) = Total(f, S) + Total(f, T)
<1>1. Units(f, S \union T) = Units(f, S) \union Units(f, T)
  BY DEF Units
<1>2. Units(f, S) \intersect Units(f, T) = {}
  BY DEF Units
<1>3. IsFiniteSet(Units(f, S)) /\ IsFiniteSet(Units(f, T))
  BY UnitsFinite
<1> DEFINE A == Units(f, S)
           B == Units(f, T)
<1> HIDE DEF A, B
<1>4. Cardinality(A \union B) = Cardinality(A) + Cardinality(B) - Cardinality(A \intersect B)
  BY <1>3, FS_Union DEF A, B
<1>5. Cardinality(A \intersect B) = 0
  BY <1>2, FS_EmptySet DEF A, B
<1>6. Cardinality(A) \in Nat /\ Cardinality(B) \in Nat
  BY <1>3, FS_CardinalityType DEF A, B
<1>7. Cardinality(A \union B) = Cardinality(A) + Cardinality(B)
  BY <1>4, <1>5, <1>6
<1> QED BY <1>1, <1>7 DEF Total, A, B

(* No more anywhere but at one, and there no more than n more.             *)
LEMMA TotalGain ==
  ASSUME NEW f, NEW g, NEW S, IsFiniteSet(S), Counts(f, S), Counts(g, S),
         NEW a \in S, NEW n \in Nat, g[a] <= f[a] + n, \A x \in S \ {a} : g[x] <= f[x]
  PROVE  Total(g, S) <= Total(f, S) + n
<1> DEFINE R == S \ {a}
<1>1. /\ Total(f, S) = Total(f, R) + f[a] /\ Total(f, R) \in Nat
      /\ Total(g, S) = Total(g, R) + g[a] /\ Total(g, R) \in Nat
  BY TotalSplit
<1>2. IsFiniteSet(R) /\ Counts(f, R) /\ Counts(g, R)
  BY FS_RemoveElement DEF Counts
<1>3. Total(g, R) <= Total(f, R)
  <2>1. \A x \in R : g[x] \in Nat /\ g[x] <= f[x]
    BY <1>2 DEF Counts
  <2> QED BY <1>2, <2>1, TotalLess
<1>4. f[a] \in Nat /\ g[a] \in Nat
  BY DEF Counts
<1> HIDE DEF R
<1> QED BY <1>1, <1>3, <1>4

(* A multiple of each is at most that multiple of the total.               *)
LEMMA TotalScaled ==
  ASSUME NEW f, NEW g, NEW S, NEW c \in Nat, IsFiniteSet(S), Counts(f, S), \A x \in S : g[x] = c * f[x]
  PROVE  Total(g, S) <= c * Total(f, S)
<1>1. CASE c = 0
  <2>1. \A x \in S : g[x] = 0
    BY <1>1 DEF Counts
  <2> QED BY <1>1, <2>1, TotalZero, TotalType
<1>2. CASE c > 0
  <2> DEFINE low(k)  == ((k - 1) % c) + 1
             high(k) == ((k - 1) \div c) + 1
             T == (1..c) \X Units(f, S)
             m == [u \in Units(g, S) |-> <<low(u[2]), <<u[1], high(u[2])>>>>]
  <2>1. /\ IsFiniteSet(1..c) /\ Cardinality(1..c) = c /\ IsFiniteSet(Units(f, S))
        /\ Cardinality(Units(f, S)) \in Nat
    <3>1. IsFiniteSet(1..c) /\ Cardinality(1..c) = c
      BY <1>2, FS_Interval
    <3>2. IsFiniteSet(Units(f, S))
      BY UnitsFinite
    <3> QED BY <3>1, <3>2, FS_CardinalityType
  <2>2. IsFiniteSet(T) /\ Cardinality(T) = c * Cardinality(Units(f, S))
    BY <2>1, FS_Product
  <2>3. ASSUME NEW x \in S, NEW k \in 1..g[x]
        PROVE  low(k) \in 1..c /\ high(k) \in 1..f[x]
    <3> DEFINE q == (k - 1) \div c
               r == (k - 1) % c
    <3>1. f[x] \in Nat /\ g[x] = c * f[x] /\ g[x] \in Nat /\ k \in Nat /\ k >= 1 /\ k <= g[x]
      BY DEF Counts
    <3>2. q \in Nat /\ r \in 0..(c - 1) /\ k - 1 = c * q + r
      BY <1>2, <3>1
    <3> HIDE DEF q, r
    <3>3. c * q < c * f[x] /\ c * q \in Nat
      BY <1>2, <3>1, <3>2
    <3>4. q < f[x]
      BY <1>2, <3>1, <3>2, <3>3
    <3> QED BY <1>2, <3>1, <3>2, <3>4 DEF q, r
  <2>4. ASSUME NEW j \in Nat, NEW k \in Nat, j > 0, k > 0, low(j) = low(k), high(j) = high(k)
        PROVE  j = k
    <3>1. (j - 1) \div c \in Int /\ (k - 1) \div c \in Int /\ (j - 1) % c \in Int /\ (k - 1) % c \in Int
      BY <1>2
    <3>2. (j - 1) \div c = (k - 1) \div c /\ (j - 1) % c = (k - 1) % c
      BY <2>4, <3>1
    <3>3. j - 1 = c * ((j - 1) \div c) + ((j - 1) % c) /\ k - 1 = c * ((k - 1) \div c) + ((k - 1) % c)
      BY <1>2
    <3> QED BY <3>2, <3>3
  <2> HIDE DEF low, high
  <2>5. m \in Injection(Units(g, S), T)
    <3>1. ASSUME NEW u \in Units(g, S) PROVE m[u] \in T
      <4>1. PICK x \in S : \E i \in 1..g[x] : u = <<x, i>>
        BY UnitOf
      <4>2. PICK i \in 1..g[x] : u = <<x, i>>
        BY <4>1
      <4>3. <<x, high(i)>> \in Units(f, S) /\ low(i) \in 1..c
        BY <2>3, UnitOf
      <4> QED BY <4>2, <4>3
    <3>2. ASSUME NEW u \in Units(g, S), NEW v \in Units(g, S), m[u] = m[v]
          PROVE  u = v
      <4>1. PICK x \in S : \E i \in 1..g[x] : u = <<x, i>>
        BY UnitOf
      <4>2. PICK i \in 1..g[x] : u = <<x, i>>
        BY <4>1
      <4>3. PICK y \in S : \E j \in 1..g[y] : v = <<y, j>>
        BY UnitOf
      <4>4. PICK j \in 1..g[y] : v = <<y, j>>
        BY <4>3
      <4>5. x = y /\ low(i) = low(j) /\ high(i) = high(j)
        BY <3>2, <4>2, <4>4
      <4>6. g[x] \in Nat /\ g[y] \in Nat
        BY DEF Counts
      <4>7. i \in Nat /\ j \in Nat /\ i > 0 /\ j > 0
        BY <4>6
      <4> QED BY <2>4, <4>2, <4>4, <4>5, <4>7
    <3> HIDE DEF m, T
    <3>3. m \in [Units(g, S) -> T]
      BY <3>1 DEF m
    <3> QED BY <3>2, <3>3 DEF Injection, IsInjective
  <2> HIDE DEF m, T
  <2> QED BY <2>2, <2>5, FS_Injection DEF Total
<1> QED BY <1>1, <1>2

(* It is the same under other names.                                       *)
LEMMA TotalRenamed ==
  ASSUME NEW f, NEW g, NEW S, NEW T, IsFiniteSet(S), Counts(f, S),
         NEW h \in Bijection(S, T), \A x \in S : g[h[x]] = f[x]
  PROVE  Total(g, T) = Total(f, S)
<1> DEFINE m == [u \in Units(f, S) |-> <<h[u[1]], u[2]>>]
<1>1. /\ \A x \in S : h[x] \in T
      /\ \A x, y \in S : h[x] = h[y] => x = y
      /\ \A t \in T : \E x \in S : h[x] = t
  BY DEF Bijection, Injection, Surjection, IsInjective
<1>2. ASSUME NEW u \in Units(f, S) PROVE m[u] \in Units(g, T)
  <2>1. PICK x \in S : \E i \in 1..f[x] : u = <<x, i>>
    BY UnitOf
  <2>2. PICK i \in 1..f[x] : u = <<x, i>>
    BY <2>1
  <2>3. m[u] = <<h[x], i>> /\ h[x] \in T /\ i \in 1..g[h[x]]
    BY <1>1, <2>2
  <2> QED BY <2>3, UnitOf
<1>3. ASSUME NEW u \in Units(f, S), NEW v \in Units(f, S), m[u] = m[v] PROVE u = v
  <2>1. PICK x \in S : \E i \in 1..f[x] : u = <<x, i>>
    BY UnitOf
  <2>2. PICK i \in 1..f[x] : u = <<x, i>>
    BY <2>1
  <2>3. PICK y \in S : \E i_1 \in 1..f[y] : v = <<y, i_1>>
    BY UnitOf
  <2>4. PICK j \in 1..f[y] : v = <<y, j>>
    BY <2>3
  <2>5. h[x] = h[y] /\ i = j
    BY <1>3, <2>2, <2>4
  <2> QED BY <1>1, <2>2, <2>4, <2>5
<1>4. ASSUME NEW v \in Units(g, T) PROVE \E u \in Units(f, S) : m[u] = v
  <2>1. PICK t \in T : \E i \in 1..g[t] : v = <<t, i>>
    BY UnitOf
  <2>2. PICK i \in 1..g[t] : v = <<t, i>>
    BY <2>1
  <2>3. PICK x \in S : h[x] = t
    BY <1>1
  <2>4. <<x, i>> \in Units(f, S)
    BY <2>2, <2>3, UnitOf
  <2> QED BY <2>2, <2>3, <2>4
<1> HIDE DEF m
<1>5. m \in [Units(f, S) -> Units(g, T)]
  BY <1>2 DEF m
<1>6. m \in Bijection(Units(f, S), Units(g, T))
  BY <1>3, <1>4, <1>5 DEF Bijection, Injection, Surjection, IsInjective
<1>7. ExistsBijection(Units(f, S), Units(g, T))
  BY <1>6 DEF ExistsBijection
<1> QED BY <1>7, UnitsFinite, FS_Bijection DEF Total

-----------------------------------------------------------------------------
(* Totals of integers: what there is less what is owed.                    *)
Signed(f, S) == \A x \in S : f[x] \in Int

Over(f, S) == [x \in S |-> IF f[x] > 0 THEN f[x] ELSE 0]
Under(f, S) == [x \in S |-> IF f[x] < 0 THEN -f[x] ELSE 0]

LEMMA NetParts ==
  ASSUME NEW f, NEW S, IsFiniteSet(S), Signed(f, S)
  PROVE  /\ Counts(Over(f, S), S) /\ Counts(Under(f, S), S)
         /\ \A x \in S : f[x] = Over(f, S)[x] - Under(f, S)[x]
         /\ Total(Over(f, S), S) \in Nat /\ Total(Under(f, S), S) \in Nat
         /\ Net(f, S) = Total(Over(f, S), S) - Total(Under(f, S), S)
<1>1. /\ Counts(Over(f, S), S) /\ Counts(Under(f, S), S)
      /\ \A x \in S : f[x] = Over(f, S)[x] - Under(f, S)[x]
  BY DEF Counts, Signed, Over, Under
<1>2. Total(Over(f, S), S) \in Nat /\ Total(Under(f, S), S) \in Nat
  BY <1>1, TotalType
<1>3. Total(f, S) = Total(Over(f, S), S)
  <2>1. \A x \in S : 1..f[x] = 1..Over(f, S)[x]
    BY DEF Signed, Over
  <2>2. Units(f, S) = Units(Over(f, S), S)
    BY <2>1 DEF Units
  <2> QED BY <2>2 DEF Total
<1>4. Total([x \in S |-> -f[x]], S) = Total(Under(f, S), S)
  <2> DEFINE g == [x \in S |-> -f[x]]
  <2>1. \A x \in S : 1..g[x] = 1..Under(f, S)[x]
    BY DEF Signed, Under
  <2> HIDE DEF g
  <2>2. Units(g, S) = Units(Under(f, S), S)
    BY <2>1 DEF Units
  <2>3. Total(g, S) = Total(Under(f, S), S)
    BY <2>2 DEF Total
  <2> QED BY <2>3 DEF g
<1> QED BY <1>1, <1>2, <1>3, <1>4 DEF Net

LEMMA NetType ==
  ASSUME NEW f, NEW S, IsFiniteSet(S), Signed(f, S)
  PROVE  Net(f, S) \in Int
  BY NetParts

LEMMA NetSame ==
  ASSUME NEW f, NEW g, NEW S, \A x \in S : f[x] = g[x]
  PROVE  Net(f, S) = Net(g, S)
<1>1. [x \in S |-> -f[x]] = [x \in S |-> -g[x]]
  OBVIOUS
<1>2. Total(f, S) = Total(g, S)
  BY TotalSame
<1> QED BY <1>1, <1>2 DEF Net

(* One cell of the function changes.                                       *)
LEMMA NetChange ==
  ASSUME NEW f, NEW g, NEW S, IsFiniteSet(S), Signed(f, S), Signed(g, S),
         NEW a \in S, \A x \in S \ {a} : g[x] = f[x]
  PROVE  Net(g, S) = Net(f, S) - f[a] + g[a]
<1> DEFINE p == Over(f, S)
           q == Over(g, S)
           m == Under(f, S)
           n == Under(g, S)
<1>1. /\ \A x \in S \ {a} : q[x] = p[x]
      /\ \A x \in S \ {a} : n[x] = m[x]
  BY DEF Over, Under
<1>2. /\ Counts(p, S) /\ Counts(m, S) /\ f[a] = p[a] - m[a]
      /\ Total(p, S) \in Nat /\ Total(m, S) \in Nat /\ Net(f, S) = Total(p, S) - Total(m, S)
  BY NetParts
<1>3. /\ Counts(q, S) /\ Counts(n, S) /\ g[a] = q[a] - n[a]
      /\ Net(g, S) = Total(q, S) - Total(n, S)
  BY NetParts
<1> HIDE DEF p, q, m, n
<1>4. /\ Total(q, S) = Total(p, S) - p[a] + q[a]
      /\ Total(n, S) = Total(m, S) - m[a] + n[a]
  BY <1>1, <1>2, <1>3, TotalChange
<1>5. p[a] \in Nat /\ q[a] \in Nat /\ m[a] \in Nat /\ n[a] \in Nat
  BY <1>2, <1>3 DEF Counts
<1> QED BY <1>2, <1>3, <1>4, <1>5

(* Two cells change.                                                       *)
LEMMA NetMove ==
  ASSUME NEW f, NEW g, NEW S, IsFiniteSet(S), Signed(f, S), Signed(g, S),
         NEW a \in S, NEW b \in S, a # b, \A x \in S \ {a, b} : g[x] = f[x]
  PROVE  Net(g, S) = Net(f, S) - f[a] - f[b] + g[a] + g[b]
<1> DEFINE h == [x \in S |-> IF x = a THEN g[a] ELSE f[x]]
<1>1. /\ Signed(h, S) /\ h[a] = g[a] /\ h[b] = f[b]
      /\ \A x \in S \ {a} : h[x] = f[x]
      /\ \A x \in S \ {b} : g[x] = h[x]
  BY DEF Signed
<1>2. f[a] \in Int /\ f[b] \in Int /\ g[a] \in Int /\ g[b] \in Int /\ Net(f, S) \in Int
  BY NetType DEF Signed
<1> HIDE DEF h
<1>3. Net(h, S) = Net(f, S) - f[a] + h[a]
  BY <1>1, NetChange
<1>4. Net(g, S) = Net(h, S) - h[b] + g[b]
  BY <1>1, NetChange
<1> QED BY <1>1, <1>2, <1>3, <1>4

LEMMA NetLess ==
  ASSUME NEW f, NEW g, NEW S, IsFiniteSet(S), Signed(f, S), Signed(g, S), \A x \in S : f[x] <= g[x]
  PROVE  Net(f, S) <= Net(g, S)
<1> DEFINE p == Over(f, S)
           q == Over(g, S)
           m == Under(f, S)
           n == Under(g, S)
<1>1. \A x \in S : p[x] <= q[x] /\ n[x] <= m[x]
  BY DEF Over, Under, Signed
<1>2. /\ Counts(p, S) /\ Counts(m, S)
      /\ Total(p, S) \in Nat /\ Total(m, S) \in Nat /\ Net(f, S) = Total(p, S) - Total(m, S)
  BY NetParts
<1>3. /\ Counts(q, S) /\ Counts(n, S)
      /\ Total(q, S) \in Nat /\ Total(n, S) \in Nat /\ Net(g, S) = Total(q, S) - Total(n, S)
  BY NetParts
<1> HIDE DEF p, q, m, n
<1>4. Total(p, S) <= Total(q, S) /\ Total(n, S) <= Total(m, S)
  <2>1. \A x \in S : p[x] \in Nat /\ n[x] \in Nat
    BY <1>2, <1>3 DEF Counts
  <2> QED BY <1>1, <1>2, <1>3, <2>1, TotalLess
<1> QED BY <1>2, <1>3, <1>4

-----------------------------------------------------------------------------
(* Firsts and ranks: what queues and medians rest on.                      *)
LEMMA LessIsWellFounded ==
  \E R : IsWellFoundedOn(R, Nat) /\ \A x, y \in Nat : x < y => <<x, y>> \in R
<1>1. \A x, y \in Nat : x < y => <<x, y>> \in OpToRel(<, Nat)
  BY DEF OpToRel
<1> QED BY <1>1, NatLessThanWellFounded, Zenon

LEMMA LeastOf ==
  ASSUME NEW T, T \subseteq Nat, T # {}
  PROVE  \E t \in T : \A u \in T : t <= u
<1>1. PICK R : IsWellFoundedOn(R, Nat) /\ \A x, y \in Nat : x < y => <<x, y>> \in R
  BY LessIsWellFounded
<1>2. IsWellFoundedOn(R, Nat)
  BY <1>1
<1>3. PICK t \in T : \A u \in T : ~(<<u, t>> \in R)
  BY <1>2, WFMin
<1>4. ASSUME NEW u \in T PROVE t <= u
  <2>1. t \in Nat /\ u \in Nat
    OBVIOUS
  <2>2. ~(u < t)
    BY <1>1, <1>3, <2>1
  <2> QED BY <2>1, <2>2
<1> QED BY <1>4

(* A finite queue has a foremost.                                          *)
LEMMA Foremost ==
  ASSUME NEW S, IsFiniteSet(S), S # {}, NEW R,
         \A x \in S : <<x, x>> \notin R,
         \A x, y, z \in S : <<x, y>> \in R /\ <<y, z>> \in R => <<x, z>> \in R
  PROVE  \E x \in S : \A y \in S : <<y, x>> \notin R
<1> DEFINE ahead(x) == {y \in S : <<y, x>> \in R}
           T == {Cardinality(ahead(x)) : x \in S}
<1>1. \A x \in S : IsFiniteSet(ahead(x)) /\ Cardinality(ahead(x)) \in Nat
  <2> TAKE x \in S
  <2>1. ahead(x) \in SUBSET S
    OBVIOUS
  <2> QED BY <2>1, FS_Subset, FS_CardinalityType
<1>2. T \subseteq Nat /\ T # {}
  <2>1. \A x \in S : Cardinality(ahead(x)) \in Nat
    BY <1>1
  <2> HIDE DEF ahead
  <2> QED BY <2>1
<1>3. PICK t \in T : \A u \in T : t <= u
  <2> HIDE DEF T
  <2> QED BY <1>2, LeastOf
<1>4. PICK x \in S : t = Cardinality(ahead(x))
  BY <1>3
<1>5. ASSUME NEW y \in S, <<y, x>> \in R PROVE FALSE
  <2>1. ahead(y) \in SUBSET ahead(x) /\ y \in ahead(x) /\ y \notin ahead(y)
    BY <1>5
  <2> HIDE DEF ahead
  <2>2. Cardinality(ahead(x)) <= Cardinality(ahead(y))
    BY <1>3, <1>4
  <2>3. Cardinality(ahead(y)) <= Cardinality(ahead(x)) /\ Cardinality(ahead(y)) # Cardinality(ahead(x))
    BY <1>1, <2>1, FS_Subset
  <2> QED BY <1>1, <2>2, <2>3
<1> QED BY <1>5

(* The members of a finite set of numbers are its first, its second, ...   *)
LEMMA Ranks ==
  ASSUME NEW S, S \subseteq Nat, IsFiniteSet(S)
  PROVE  [i \in S |-> Cardinality({j \in S : j <= i})] \in Bijection(S, 1..Cardinality(S))
<1> DEFINE upto(i) == {j \in S : j <= i}
           n == Cardinality(S)
           rank == [i \in S |-> Cardinality(upto(i))]
<1>1. n \in Nat /\ IsFiniteSet(1..n) /\ Cardinality(1..n) = n
  <2>1. n \in Nat
    BY FS_CardinalityType
  <2> HIDE DEF n
  <2> QED BY <2>1, FS_Interval
<1>2. \A i \in S : i \in upto(i) /\ upto(i) \in SUBSET S
  OBVIOUS
<1>3. \A i \in S : IsFiniteSet(upto(i)) /\ Cardinality(upto(i)) \in 1..n
  <2> TAKE i \in S
  <2> HIDE DEF upto
  <2>1. IsFiniteSet(upto(i)) /\ Cardinality(upto(i)) <= n
    BY <1>2, FS_Subset
  <2>2. Cardinality(upto(i)) \in Nat /\ Cardinality(upto(i)) # 0
    BY <1>2, <2>1, FS_CardinalityType, FS_EmptySet
  <2> HIDE DEF n
  <2> QED BY <1>1, <2>1, <2>2
<1>4. ASSUME NEW i \in S, NEW j \in S, i < j PROVE Cardinality(upto(i)) # Cardinality(upto(j))
  <2>1. i \in Nat /\ j \in Nat
    OBVIOUS
  <2>2. j \in upto(j) /\ j \notin upto(i)
    BY <1>4, <2>1
  <2>3. \A h \in S : h \in Nat
    OBVIOUS
  <2>4. upto(i) \in SUBSET upto(j)
    <3> SUFFICES ASSUME NEW h \in S, h <= i PROVE h <= j
      OBVIOUS
    <3> QED BY <1>4, <2>1, <2>3
  <2> HIDE DEF upto
  <2> QED BY <1>3, <2>2, <2>4, FS_Subset
<1>5. ASSUME NEW i \in S, NEW j \in S, rank[i] = rank[j] PROVE i = j
  <2>1. i \in Nat /\ j \in Nat
    OBVIOUS
  <2>2. i < j \/ j < i \/ i = j
    BY <2>1
  <2>3. Cardinality(upto(i)) = Cardinality(upto(j))
    BY <1>5
  <2> HIDE DEF upto, rank
  <2> QED BY <1>4, <2>2, <2>3
<1>6. rank \in [S -> 1..n]
  BY <1>3
<1>7. rank \in Injection(S, 1..n)
  <2> HIDE DEF rank, n
  <2> QED BY <1>5, <1>6 DEF Injection, IsInjective
<1>8. rank \in Surjection(S, 1..n)
  <2> HIDE DEF rank
  <2> QED BY <1>1, <1>7, FS_Injection
<1>9. rank \in Bijection(S, 1..n)
  <2> HIDE DEF rank, n
  <2> QED BY <1>7, <1>8 DEF Bijection
<1> QED BY <1>9
=============================================================================
