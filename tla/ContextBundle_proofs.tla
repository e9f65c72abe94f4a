------------------------ MODULE ContextBundle_proofs ------------------------
(***************************************************************************)
(* Proofs about ContextBundle, for every set of memories, texts and        *)
(* signals, every window, top_k and skew of the clocks, and every hashing  *)
(* and weighting.                                                          *)
(***************************************************************************)
EXTENDS ContextBundle, SequenceTheorems, FiniteSetTheorems,
        WellFoundedInduction, TLAPS

(* Induction over sets of numbers: the theorems of the library are about   *)
(* operators, these about sets, which can be instantiated.                 *)
LEMMA LeastNumber ==
  ASSUME NEW T, T \subseteq Nat, T # {}
  PROVE  \E n \in T : \A m \in T : n <= m
<1> DEFINE less == OpToRel(<, Nat)
<1>1. IsWellFoundedOn(less, Nat)
  BY NatLessThanWellFounded
<1>2. \A m, n \in Nat : m < n => <<m, n>> \in less
  BY DEF OpToRel
<1> HIDE DEF less
<1>3. PICK n \in T : \A m \in T : <<m, n>> \notin less
  BY <1>1, WFMin
<1>4. ASSUME NEW m \in T PROVE n <= m
  <2>1. ~(m < n)
    BY <1>2, <1>3, Zenon
  <2> QED
    BY <2>1
<1> QED
  BY <1>4

LEMMA Induction ==
  ASSUME NEW T, 0 \in T, \A n \in T \cap Nat : n + 1 \in T
  PROVE  Nat \subseteq T
<1> SUFFICES ASSUME Nat \ T # {} PROVE FALSE
  OBVIOUS
<1>1. PICK n \in Nat \ T : \A m \in Nat \ T : n <= m
  BY LeastNumber
<1>2. n - 1 \in Nat /\ n - 1 \in T /\ (n - 1) + 1 = n
  BY <1>1
<1> QED
  BY <1>1, <1>2, Zenon

(* f is defined up to k by recursion from base with step.                  *)
Recurs(f, k, A, base, step) ==
  /\ f \in [0..k -> A] /\ f[0] = base
  /\ \A i \in 1..k : f[i] = step[i][f[i - 1]]

(* Recursion defines a function up to N, only one, and one on Nat.         *)
LEMMA RecursionTo ==
  ASSUME NEW A, NEW base \in A, NEW N \in Nat, NEW step \in [1..N -> [A -> A]]
  PROVE  \E f : Recurs(f, N, A, base, step)
<1> DEFINE T == {k \in Nat : k <= N => \E f : Recurs(f, k, A, base, step)}
<1>1. 0 \in T
  <2> DEFINE f == [i \in 0..0 |-> base]
  <2>1. Recurs(f, 0, A, base, step)
    BY DEF Recurs
  <2> QED
    BY <2>1
<1>2. ASSUME NEW k \in T PROVE k + 1 \in T
  <2> SUFFICES ASSUME k + 1 <= N PROVE \E g : Recurs(g, k + 1, A, base, step)
    OBVIOUS
  <2>1. PICK f : Recurs(f, k, A, base, step)
    OBVIOUS
  <2> DEFINE g == [i \in 0..k + 1 |-> IF i <= k THEN f[i] ELSE step[k + 1][f[k]]]
  <2>2. step[k + 1][f[k]] \in A
    <3>1. k \in 0..k /\ k + 1 \in 1..N
      OBVIOUS
    <3>2. f[k] \in A
      BY <2>1, <3>1, Zenon DEF Recurs
    <3> QED
      BY <3>1, <3>2
  <2>3. g \in [0..k + 1 -> A] /\ g[0] = base
    <3>1. \A i \in 0..k : f[i] \in A
      BY <2>1 DEF Recurs
    <3>2. \A i \in 0..k + 1 : i <= k => i \in 0..k
      OBVIOUS
    <3>3. f[0] = base
      BY <2>1 DEF Recurs
    <3> QED
      BY <2>2, <3>1, <3>2, <3>3
  <2>4. ASSUME NEW i \in 1..k + 1 PROVE g[i] = step[i][g[i - 1]]
    <3>1. CASE i <= k
      <4>1. g[i] = f[i] /\ g[i - 1] = f[i - 1] /\ i \in 1..k
        BY <3>1
      <4> HIDE DEF g
      <4> QED
        BY <4>1, <2>1 DEF Recurs
    <3>2. CASE i = k + 1
      BY <3>2
    <3> QED
      BY <3>1, <3>2
  <2> HIDE DEF g
  <2>5. Recurs(g, k + 1, A, base, step)
    BY <2>3, <2>4 DEF Recurs
  <2> QED
    BY <2>5
<1> HIDE DEF T
<1>3. N \in T
  BY <1>1, <1>2, Induction
<1> QED
  BY <1>3 DEF T

LEMMA RecursionUnique ==
  ASSUME NEW A, NEW base, NEW step, NEW k \in Nat, NEW l \in Nat, k <= l,
         NEW f, NEW g, Recurs(f, k, A, base, step), Recurs(g, l, A, base, step)
  PROVE  \A i \in 0..k : f[i] = g[i]
<1> DEFINE T == {i \in Nat : i <= k => f[i] = g[i]}
<1>1. 0 \in T
  BY DEF Recurs
<1>2. ASSUME NEW i \in T PROVE i + 1 \in T
  <2> SUFFICES ASSUME i + 1 <= k PROVE f[i + 1] = g[i + 1]
    OBVIOUS
  <2>1. i + 1 \in 1..k /\ i + 1 \in 1..l /\ (i + 1) - 1 = i /\ f[i] = g[i]
    OBVIOUS
  <2>2. f[i + 1] = step[i + 1][f[(i + 1) - 1]] /\ g[i + 1] = step[i + 1][g[(i + 1) - 1]]
    BY <2>1 DEF Recurs
  <2> QED
    BY <2>1, <2>2
<1> HIDE DEF T
<1>3. Nat \subseteq T
  BY <1>1, <1>2, Induction
<1> QED
  BY <1>3 DEF T

RecursForever(f, A, base, step) ==
  /\ f \in [Nat -> A] /\ f[0] = base
  /\ \A i \in Nat \ {0} : f[i] = step[i][f[i - 1]]

LEMMA RecursionOnNat ==
  ASSUME NEW A, NEW base \in A, NEW step \in [Nat -> [A -> A]]
  PROVE  \E f : RecursForever(f, A, base, step)
<1> DEFINE h(k) == CHOOSE f : Recurs(f, k, A, base, step)
           f == [k \in Nat |-> h(k)[k]]
<1>1. ASSUME NEW k \in Nat PROVE Recurs(h(k), k, A, base, step)
  <2> DEFINE upto == [i \in 1..k |-> step[i]]
  <2>1. upto \in [1..k -> [A -> A]]
    OBVIOUS
  <2>2. \A i \in 1..k : upto[i] = step[i]
    OBVIOUS
  <2> HIDE DEF upto
  <2>3. PICK g : Recurs(g, k, A, base, upto)
    BY <2>1, RecursionTo
  <2>4. \A i \in 1..k : g[i - 1] \in A
    BY <2>3 DEF Recurs
  <2>5. Recurs(g, k, A, base, step)
    BY <2>2, <2>3, <2>4 DEF Recurs
  <2> QED
    BY <2>5
<1> HIDE DEF h
<1>2. f \in [Nat -> A] /\ f[0] = base
  BY <1>1 DEF Recurs
<1>3. ASSUME NEW i \in Nat \ {0} PROVE f[i] = step[i][f[i - 1]]
  <2>1. i - 1 \in Nat /\ i - 1 <= i /\ i - 1 \in 0..i - 1
    OBVIOUS
  <2>2. \A j \in 0..i - 1 : h(i - 1)[j] = h(i)[j]
    BY <1>1, <2>1, RecursionUnique
  <2>3. h(i)[i] = step[i][h(i)[i - 1]]
    BY <1>1 DEF Recurs
  <2> QED
    BY <2>1, <2>2, <2>3
<1>4. RecursForever(f, A, base, step)
  BY <1>2, <1>3 DEF RecursForever
<1> QED
  BY <1>4

(* The recursive functions of the model are what their equations say.      *)
LEMMA HalvedEquations ==
  /\ Halved \in [Nat -> Nat] /\ Halved[0] = One
  /\ \A age \in Nat \ {0} : Halved[age] = Halved[age - 1] \div 2
<1> DEFINE step == [age \in Nat |-> [h \in Nat |-> h \div 2]]
           body(g) == [age \in Nat |-> IF age = 0 THEN One ELSE g[age - 1] \div 2]
<1>1. One \in Nat
  BY HashingAssumption
<1>2. step \in [Nat -> [Nat -> Nat]]
  OBVIOUS
<1>3. \A age, h \in Nat : step[age][h] = h \div 2
  OBVIOUS
<1> HIDE DEF step, body
<1>4. PICK f : RecursForever(f, Nat, One, step)
  BY <1>1, <1>2, RecursionOnNat
<1>5. f = body(f)
  <2> USE DEF body
  <2>1. \A age \in Nat \ {0} : age - 1 \in Nat
    OBVIOUS
  <2>2. \A age \in Nat \ {0} : f[age] = f[age - 1] \div 2
    BY <1>3, <1>4, <2>1 DEF RecursForever
  <2> QED
    BY <1>4, <2>2 DEF RecursForever
<1>6. Halved = CHOOSE g : g = body(g)
  BY Zenon DEF Halved, body
<1>7. Halved = body(Halved)
  BY <1>5, <1>6, Zenon
<1> USE DEF body
<1> DEFINE T == {age \in Nat : Halved[age] \in Nat}
<1>8. Nat \subseteq T
  <2>1. 0 \in T
    BY <1>1, <1>7
  <2>2. ASSUME NEW age \in T PROVE age + 1 \in T
    <3>1. Halved[age + 1] = Halved[(age + 1) - 1] \div 2 /\ (age + 1) - 1 = age
      BY <1>7
    <3> QED
      BY <3>1
  <2> HIDE DEF T
  <2> QED
    BY <2>1, <2>2, Induction
<1> QED
  BY <1>1, <1>7, <1>8

(* The older, the less is left of 1.                                       *)
LEMMA HalvedFalls ==
  /\ \A age \in Nat : Halved[age] \in 0..One
  /\ \A young, old \in Nat : young <= old => Halved[old] <= Halved[young]
<1>1. ASSUME NEW age \in Nat PROVE Halved[age + 1] <= Halved[age]
  <2>1. Halved[age + 1] = Halved[(age + 1) - 1] \div 2 /\ (age + 1) - 1 = age
    BY HalvedEquations
  <2> QED
    BY <2>1, HalvedEquations
<1>2. ASSUME NEW young \in Nat, NEW old \in Nat, young <= old
      PROVE  Halved[old] <= Halved[young]
  <2> DEFINE T == {n \in Nat : Halved[young + n] <= Halved[young]}
  <2>1. 0 \in T
    BY HalvedEquations
  <2>2. ASSUME NEW n \in T PROVE n + 1 \in T
    <3>1. Halved[(young + n) + 1] <= Halved[young + n] /\ (young + n) + 1 = young + (n + 1)
      BY <1>1
    <3> QED
      BY <3>1, HalvedEquations
  <2> HIDE DEF T
  <2>3. old - young \in T
    BY <1>2, <2>1, <2>2, Induction
  <2> QED
    BY <1>2, <2>3 DEF T
<1>3. ASSUME NEW age \in Nat PROVE Halved[age] \in 0..One
  BY <1>2, HalvedEquations, HashingAssumption
<1> QED
  BY <1>2, <1>3

(* The factor is between 0 and 1, and no greater for what is older.        *)
LEMMA RecencyFacts ==
  ASSUME NEW now \in Nat
  PROVE  /\ \A created_at \in Nat : RecencyFactor(created_at, now) \in 0..One
         /\ \A older, newer \in Nat :
              older <= newer => RecencyFactor(older, now) <= RecencyFactor(newer, now)
<1>1. ASSUME NEW created_at \in Nat PROVE RecencyFactor(created_at, now) \in 0..One
  BY HalvedFalls, HashingAssumption DEF RecencyFactor
<1>2. ASSUME NEW older \in Nat, NEW newer \in Nat, older <= newer
      PROVE  RecencyFactor(older, now) <= RecencyFactor(newer, now)
  <2>1. CASE now <= newer
    BY <1>1, <2>1, HashingAssumption DEF RecencyFactor
  <2>2. CASE ~(now <= newer)
    <3>1. /\ now - newer \in Nat /\ now - older \in Nat /\ now - newer <= now - older
          /\ ~(now <= older)
      BY <1>2, <2>2
    <3> QED
      BY <2>2, <3>1, HalvedFalls DEF RecencyFactor
  <2> QED
    BY <2>1, <2>2
<1> QED
  BY <1>1, <1>2

(* Sums and squares of vectors.                                            *)
Vectors == [1..Dim -> Int]

LEMMA DotEquations ==
  ASSUME NEW v \in Vectors, NEW w \in Vectors
  PROVE  \E sum \in [0..Dim -> Int] :
           /\ sum[0] = 0
           /\ \A i \in 1..Dim : sum[i] = sum[i - 1] + v[i] * w[i]
           /\ Dot(v, w) = sum[Dim]
<1> DEFINE step == [i \in 1..Dim |-> [s \in Int |-> s + v[i] * w[i]]]
           body(g) == [i \in 0..Dim |-> IF i = 0 THEN 0 ELSE g[i - 1] + v[i] * w[i]]
<1>1. Dim \in Nat /\ 0 \in Int
  BY HashingAssumption
<1>2. \A i \in 1..Dim : v[i] * w[i] \in Int
  BY DEF Vectors
<1>3. step \in [1..Dim -> [Int -> Int]]
  BY <1>2
<1>4. \A i \in 1..Dim, s \in Int : step[i][s] = s + v[i] * w[i]
  OBVIOUS
<1> HIDE DEF step, body
<1>5. PICK f : Recurs(f, Dim, Int, 0, step)
  BY <1>1, <1>3, RecursionTo
<1>6. /\ f \in [0..Dim -> Int] /\ f[0] = 0
      /\ \A i \in 1..Dim : f[i] = f[i - 1] + v[i] * w[i]
  <2>1. /\ f \in [0..Dim -> Int] /\ f[0] = 0
        /\ \A i \in 1..Dim : f[i] = step[i][f[i - 1]]
    BY <1>5 DEF Recurs
  <2>2. \A i \in 1..Dim : f[i - 1] \in Int
    BY <1>1, <2>1
  <2> QED
    BY <1>4, <2>1, <2>2
<1>7. f = body(f)
  BY <1>1, <1>6 DEF body
<1> DEFINE sum == CHOOSE g : g = body(g)
<1>8. Dot(v, w) = sum[Dim]
  BY Zenon DEF Dot, body
<1>9. sum = body(sum)
  BY <1>7, Zenon
<1> HIDE DEF sum
<1> USE DEF body
<1>10. sum[0] = 0 /\ \A i \in 1..Dim : sum[i] = sum[i - 1] + v[i] * w[i]
  BY <1>1, <1>9
<1>11. sum \in [0..Dim -> Int]
  <2> DEFINE T == {i \in Nat : i <= Dim => sum[i] \in Int}
  <2>1. 0 \in T
    BY <1>10
  <2>2. ASSUME NEW i \in T PROVE i + 1 \in T
    <3> SUFFICES ASSUME i + 1 <= Dim PROVE sum[i + 1] \in Int
      OBVIOUS
    <3>1. i + 1 \in 1..Dim /\ (i + 1) - 1 = i /\ sum[i] \in Int
      BY <1>1
    <3> QED
      BY <1>2, <1>10, <3>1
  <2> HIDE DEF T
  <2>3. Nat \subseteq T
    BY <2>1, <2>2, Induction
  <2>4. \A i \in 0..Dim : sum[i] \in Int
    BY <1>1, <2>3 DEF T
  <2> QED
    BY <1>9, <2>4
<1> HIDE DEF body
<1> QED
  BY <1>8, <1>10, <1>11

(* A square is not negative, and zero of the zero vector only.             *)
LEMMA DotFacts ==
  /\ \A v, w \in Vectors : Dot(v, w) \in Int
  /\ \A v \in Vectors : Dot(v, v) \in Nat
  /\ \A v \in Vectors, i \in 1..Dim : v[i] # 0 => Dot(v, v) > 0
<1>0. Dim \in Nat
  BY HashingAssumption
<1>1. \A v, w \in Vectors : Dot(v, w) \in Int
  BY <1>0, DotEquations
<1>2. ASSUME NEW v \in Vectors
      PROVE  /\ Dot(v, v) \in Nat
             /\ \A i \in 1..Dim : v[i] # 0 => Dot(v, v) > 0
  <2>1. PICK sum \in [0..Dim -> Int] :
          /\ sum[0] = 0
          /\ \A i \in 1..Dim : sum[i] = sum[i - 1] + v[i] * v[i]
          /\ Dot(v, v) = sum[Dim]
    BY DotEquations
  <2>2. \A i \in 1..Dim : v[i] \in Int /\ v[i] * v[i] \in Nat /\ (v[i] # 0 => v[i] * v[i] > 0)
    <3>1. \A a \in Int : a * a \in Nat /\ (a # 0 => a * a > 0)
      OBVIOUS
    <3> QED
      BY <3>1 DEF Vectors
  <2> DEFINE T == {i \in Nat : i <= Dim => /\ sum[i] \in Nat
                                           /\ \A j \in 1..i : v[j] # 0 => sum[i] > 0}
  <2>3. 0 \in T
    BY <2>1
  <2>4. ASSUME NEW i \in T PROVE i + 1 \in T
    <3> SUFFICES ASSUME i + 1 <= Dim
                 PROVE  /\ sum[i + 1] \in Nat
                        /\ \A j \in 1..i + 1 : v[j] # 0 => sum[i + 1] > 0
      OBVIOUS
    <3>1. /\ i + 1 \in 1..Dim /\ (i + 1) - 1 = i
          /\ sum[i] \in Nat /\ \A j \in 1..i : v[j] # 0 => sum[i] > 0
      BY <1>0
    <3>2. sum[i + 1] = sum[i] + v[i + 1] * v[i + 1]
      BY <2>1, <3>1
    <3> DEFINE square == v[i + 1] * v[i + 1]
    <3>3. square \in Nat /\ (v[i + 1] # 0 => square > 0) /\ sum[i + 1] = sum[i] + square
      BY <2>2, <3>1, <3>2
    <3> HIDE DEF square
    <3>4. ASSUME NEW j \in 1..i + 1, v[j] # 0 PROVE sum[i + 1] > 0
      <4>1. CASE j \in 1..i
        BY <3>1, <3>3, <3>4, <4>1
      <4>2. CASE j = i + 1
        BY <3>1, <3>3, <3>4, <4>2
      <4> QED
        BY <4>1, <4>2
    <3> QED
      BY <3>1, <3>3, <3>4
  <2> HIDE DEF T
  <2>5. Dim \in T
    BY <1>0, <2>3, <2>4, Induction
  <2> QED
    BY <1>0, <2>1, <2>5 DEF T
<1> QED
  BY <1>1, <1>2
-----------------------------------------------------------------------------
(* The tokens of a text add up to a vector.                                *)
LEMMA HashedIsVector ==
  ASSUME NEW text \in Seq(DOMAIN Bucket)
  PROVE  Hashed(text) \in Vectors
<1> DEFINE N == Len(text)
           zero == [i \in 1..Dim |-> 0]
           plus(v, n) == [v EXCEPT ![Bucket[text[n]]] = @ + Sign[text[n]]]
           step == [n \in 1..N |-> [v \in Vectors |-> plus(v, n)]]
           body(g) == [n \in 0..N |-> IF n = 0 THEN zero ELSE plus(g[n - 1], n)]
<1>1. N \in Nat /\ zero \in Vectors
  BY DEF Vectors
<1>2. ASSUME NEW n \in 1..N, NEW v \in Vectors PROVE plus(v, n) \in Vectors
  <2>1. text[n] \in DOMAIN Bucket
    OBVIOUS
  <2>2. Bucket[text[n]] \in 1..Dim /\ Sign[text[n]] \in Int
    BY <2>1, HashingAssumption
  <2> QED
    BY <2>2 DEF Vectors
<1> HIDE DEF N, zero, plus
<1>3. /\ step \in [1..N -> [Vectors -> Vectors]]
      /\ \A n \in 1..N, v \in Vectors : step[n][v] = plus(v, n)
  BY <1>2
<1> HIDE DEF step, body
<1>4. PICK f : Recurs(f, N, Vectors, zero, step)
  BY <1>1, <1>3, RecursionTo
<1>5. f = body(f)
  <2>1. /\ f \in [0..N -> Vectors] /\ f[0] = zero
        /\ \A n \in 1..N : f[n] = step[n][f[n - 1]]
    BY <1>4 DEF Recurs
  <2>2. \A n \in 1..N : f[n - 1] \in Vectors
    BY <1>1, <2>1
  <2>3. \A n \in 1..N : f[n] = plus(f[n - 1], n)
    BY <1>3, <2>1, <2>2
  <2> QED
    BY <1>1, <2>1, <2>3 DEF body
<1> DEFINE vec == CHOOSE g : g = body(g)
<1>6. Hashed(text) = vec[N]
  BY Zenon DEF Hashed, body, plus, zero, N
<1>7. vec = body(vec)
  BY <1>5, Zenon
<1> HIDE DEF vec
<1>8. vec[0] = zero /\ \A n \in 1..N : vec[n] = plus(vec[n - 1], n)
  BY <1>1, <1>7 DEF body
<1> DEFINE T == {n \in Nat : n <= N => vec[n] \in Vectors}
<1>9. 0 \in T
  BY <1>1, <1>8
<1>10. ASSUME NEW n \in T PROVE n + 1 \in T
  <2> SUFFICES ASSUME n + 1 <= N PROVE vec[n + 1] \in Vectors
    OBVIOUS
  <2>1. n + 1 \in 1..N /\ (n + 1) - 1 = n /\ vec[n] \in Vectors
    BY <1>1
  <2>2. vec[n + 1] = plus(vec[n], n + 1)
    BY <1>8, <2>1
  <2> QED
    BY <1>2, <2>1, <2>2
<1> HIDE DEF T
<1>11. N \in T
  BY <1>1, <1>9, <1>10, Induction
<1> QED
  BY <1>1, <1>6, <1>11 DEF T

(* What is stored is no zero vector.                                       *)
LEMMA EmbeddingFacts ==
  ASSUME NEW text \in Seq(DOMAIN Bucket)
  PROVE  EmbedOne(text) \in Vectors /\ Dot(EmbedOne(text), EmbedOne(text)) > 0
<1> DEFINE v == Hashed(text)
           unit == [v EXCEPT ![1] = 1]
<1>1. v \in Vectors
  BY HashedIsVector
<1> HIDE DEF v
<1>2. unit \in Vectors /\ 1 \in 1..Dim /\ unit[1] # 0
  BY <1>1, HashingAssumption DEF Vectors
<1>3. EmbedOne(text) = IF Dot(v, v) = 0 THEN unit ELSE v
  BY DEF EmbedOne, v
<1>4. Dot(v, v) \in Nat /\ Dot(unit, unit) > 0
  <2> HIDE DEF unit
  <2> QED
    BY <1>1, <1>2, DotFacts
<1> HIDE DEF unit
<1> QED
  BY <1>1, <1>2, <1>3, <1>4

(* The integer square root exists.                                         *)
LEMMA RootFacts ==
  ASSUME NEW n \in Nat
  PROVE  Root(n) \in 0..n /\ Root(n) * Root(n) <= n /\ n < (Root(n) + 1) * (Root(n) + 1)
<1> DEFINE T == {k \in Nat : n < k * k}
<1>1. n + 1 \in T
  <2>1. (n + 1) * (n + 1) = n * n + n + n + 1 /\ n * n >= 0
    OBVIOUS
  <2> QED
    BY <2>1
<1>2. PICK k \in T : \A j \in T : k <= j
  BY <1>1, LeastNumber
<1>3. k \in Nat /\ n < k * k /\ k # 0 /\ k <= n + 1
  BY <1>1, <1>2
<1>4. k - 1 \in 0..n /\ (k - 1) * (k - 1) <= n /\ ((k - 1) + 1) * ((k - 1) + 1) = k * k
  <2>1. k - 1 \in Nat /\ k - 1 \notin T
    BY <1>2, <1>3
  <2>2. (k - 1) * (k - 1) \in Nat
    BY <2>1
  <2> QED
    BY <1>3, <2>1, <2>2
<1> QED
  BY <1>3, <1>4 DEF Root

(* The similarity of vectors that are not zero is a number.                *)
LEMMA CosineFacts ==
  ASSUME NEW v \in Vectors, NEW w \in Vectors, Dot(v, v) > 0, Dot(w, w) > 0
  PROVE  Cosine(v, w) \in Int
<1> DEFINE d == Dot(v, w)
           n == (One * One * d * d) \div (Dot(v, v) * Dot(w, w))
<1>1. d \in Int /\ Dot(v, v) \in Nat /\ Dot(w, w) \in Nat /\ One \in Nat
  BY DotFacts, HashingAssumption
<1>2. n \in Nat
  <2> DEFINE a == One * One * d * d
             b == Dot(v, v) * Dot(w, w)
  <2>1. a \in Nat
    <3>1. d * d \in Nat /\ One * One \in Nat
      <4>1. \A x \in Int : x * x \in Nat
        OBVIOUS
      <4> QED
        BY <1>1, <4>1
    <3>2. \A x, y \in Nat : x * y \in Nat
      OBVIOUS
    <3>3. (One * One) * (d * d) \in Nat
      BY <3>1, <3>2
    <3>4. a = (One * One) * (d * d)
      BY <1>1
    <3> QED
      BY <3>3, <3>4
  <2>2. b \in Nat /\ b > 0
    <3>1. \A x, y \in Nat : x > 0 /\ y > 0 => x * y \in Nat /\ x * y > 0
      OBVIOUS
    <3> QED
      BY <1>1, <3>1
  <2> HIDE DEF a, b
  <2>3. a \div b \in Nat
    BY <2>1, <2>2
  <2> QED
    BY <2>3 DEF a, b
<1>3. Cosine(v, w) = IF d < 0 THEN -Root(n) ELSE Root(n)
  BY Zenon DEF Cosine
<1> HIDE DEF d, n
<1>4. Root(n) \in Int
  BY <1>2, RootFacts
<1> QED
  BY <1>3, <1>4
-----------------------------------------------------------------------------
(* A strict total order of 1..N sorts it in exactly one way.               *)
TotallyOrders(R, N) ==
  /\ \A a \in 1..N : <<a, a>> \notin R
  /\ \A a, b, c \in 1..N : <<a, b>> \in R /\ <<b, c>> \in R => <<a, c>> \in R
  /\ \A a, b \in 1..N : a = b \/ <<a, b>> \in R \/ <<b, a>> \in R

Sorts(p, k, R) ==
  /\ p \in [1..k -> 1..k]
  /\ \A i, j \in 1..k : i < j => <<p[i], p[j]>> \in R

LEMMA SortingExists ==
  ASSUME NEW N \in Nat, NEW R, TotallyOrders(R, N)
  PROVE  \E p : Sorts(p, N, R)
<1> DEFINE T == {k \in Nat : k <= N => \E p : Sorts(p, k, R)}
<1>1. 0 \in T
  <2>1. Sorts([i \in 1..0 |-> i], 0, R)
    BY DEF Sorts
  <2> QED
    BY <2>1
<1>2. ASSUME NEW k \in T PROVE k + 1 \in T
  <2> SUFFICES ASSUME k + 1 <= N PROVE \E q : Sorts(q, k + 1, R)
    OBVIOUS
  <2>1. PICK p : Sorts(p, k, R)
    OBVIOUS
  <2>2. p \in [1..k -> 1..k] /\ \A i, j \in 1..k : i < j => <<p[i], p[j]>> \in R
    BY <2>1 DEF Sorts
  <2> DEFINE n == k + 1
             behind == {i \in 1..k : <<n, p[i]>> \in R} \cup {n}
  <2>3. n \in Nat /\ 1..k \subseteq 1..N /\ n \in 1..N /\ n \notin 1..k
    OBVIOUS
  <2>4. PICK pos \in behind : \A i \in behind : pos <= i
    <3>1. behind \subseteq Nat /\ behind # {}
      BY <2>3
    <3> HIDE DEF behind
    <3> QED
      BY <3>1, LeastNumber
  <2>5. pos \in 1..n /\ pos \in behind
    BY <2>3, <2>4
  <2>6. ASSUME NEW i \in 1..k PROVE IF i < pos THEN <<p[i], n>> \in R ELSE <<n, p[i]>> \in R
    <3>1. p[i] \in 1..k /\ p[i] \in 1..N /\ p[i] # n
      BY <2>2, <2>3
    <3>2. CASE i < pos
      <4>1. i \notin behind
        BY <2>4, <2>5, <3>2
      <4>2. <<n, p[i]>> \notin R
        BY <4>1
      <4> QED
        BY <2>3, <3>1, <3>2, <4>2 DEF TotallyOrders
    <3>3. CASE ~(i < pos)
      <4>1. pos \in 1..k /\ <<n, p[pos]>> \in R /\ p[pos] \in 1..N
        BY <2>2, <2>3, <2>5, <3>3
      <4>2. i = pos \/ <<p[pos], p[i]>> \in R
        BY <2>2, <3>3, <4>1
      <4> QED
        BY <2>3, <3>1, <3>3, <4>1, <4>2 DEF TotallyOrders
    <3> QED
      BY <3>2, <3>3
  <2> HIDE DEF behind, n
  <2> DEFINE q == [i \in 1..n |-> IF i < pos THEN p[i] ELSE IF i = pos THEN n ELSE p[i - 1]]
  <2>7. n = k + 1
    BY DEF n
  <2>8. ASSUME NEW i \in 1..n
        PROVE  /\ i < pos => i \in 1..k /\ q[i] = p[i]
               /\ i = pos => q[i] = n
               /\ i > pos => i - 1 \in 1..k /\ q[i] = p[i - 1] /\ ~(i - 1 < pos)
               /\ i < pos \/ i = pos \/ i > pos
    BY <2>3, <2>5, <2>7
  <2> HIDE DEF q
  <2>9. q \in [1..n -> 1..n]
    <3>1. \A i \in 1..n : q[i] \in 1..n
      <4>1. \A i \in 1..k : p[i] \in 1..n
        BY <2>2, <2>7
      <4>2. n \in 1..n
        BY <2>7
      <4> QED
        BY <2>8, <4>1, <4>2
    <3> QED
      BY <3>1 DEF q
  <2>10. ASSUME NEW i \in 1..n, NEW j \in 1..n, i < j PROVE <<q[i], q[j]>> \in R
    <3>1. CASE i < pos /\ j < pos
      BY <2>2, <2>8, <2>10, <3>1
    <3>2. CASE i < pos /\ j = pos
      BY <2>6, <2>8, <3>2
    <3>3. CASE i < pos /\ j > pos
      <4>1. i < j - 1
        BY <2>5, <3>3
      <4>2. i \in 1..k /\ q[i] = p[i] /\ j - 1 \in 1..k /\ q[j] = p[j - 1]
        BY <2>8, <3>3
      <4> QED
        BY <2>2, <4>1, <4>2
    <3>4. CASE i = pos
      <4>1. j > pos
        BY <2>10, <3>4
      <4> QED
        BY <2>6, <2>8, <3>4, <4>1
    <3>5. CASE i > pos
      <4>1. j > pos /\ i - 1 < j - 1
        BY <2>5, <2>10, <3>5
      <4>2. i - 1 \in 1..k /\ q[i] = p[i - 1] /\ j - 1 \in 1..k /\ q[j] = p[j - 1]
        BY <2>8, <3>5, <4>1
      <4> QED
        BY <2>2, <4>1, <4>2
    <3> QED
      BY <2>5, <3>1, <3>2, <3>3, <3>4, <3>5
  <2>11. Sorts(q, n, R)
    BY <2>9, <2>10 DEF Sorts
  <2> QED
    BY <2>7, <2>11
<1> HIDE DEF T
<1>3. N \in T
  BY <1>1, <1>2, Induction
<1> QED
  BY <1>3 DEF T

(* For two ways to sort, take the first place at which they differ.        *)
LEMMA SortingUnique ==
  ASSUME NEW N \in Nat, NEW R, TotallyOrders(R, N), NEW p, Sorts(p, N, R), NEW q, Sorts(q, N, R)
  PROVE  p = q
<1> DEFINE T == {i \in 1..N : p[i] # q[i]}
<1> SUFFICES ASSUME p # q PROVE FALSE
  OBVIOUS
<1>1. T # {}
  <2>1. p \in [1..N -> 1..N] /\ q \in [1..N -> 1..N]
    BY Zenon DEF Sorts
  <2>2. ASSUME \A i \in 1..N : p[i] = q[i] PROVE p = q
    <3>1. p = [i \in 1..N |-> p[i]] /\ q = [i \in 1..N |-> q[i]]
      BY <2>1
    <3>2. [i \in 1..N |-> p[i]] = [i \in 1..N |-> q[i]]
      BY <2>2
    <3> HIDE DEF T
    <3> QED
      BY <3>1, <3>2, Zenon
  <2> QED
    BY <2>2
<1>2. PICK i \in T : \A j \in T : i <= j
  <2>1. T \subseteq Nat
    OBVIOUS
  <2> HIDE DEF T
  <2> QED
    BY <1>1, <2>1, LeastNumber
<1>3. i \in 1..N /\ p[i] # q[i] /\ \A j \in 1..N : j < i => p[j] = q[j]
  BY <1>2
<1> HIDE DEF T
<1>4. ASSUME NEW f, Sorts(f, N, R)
      PROVE  /\ \A a \in 1..N : \E j \in 1..N : f[j] = a
             /\ \A j \in 1..N : f[j] \in 1..N
             /\ \A j, k \in 1..N : j < k => <<f[j], f[k]>> \in R
  <2>1. f \in [1..N -> 1..N] /\ \A j, k \in 1..N : j < k => <<f[j], f[k]>> \in R
    BY <1>4 DEF Sorts
  <2>2. ASSUME NEW j \in 1..N, NEW k \in 1..N, f[j] = f[k] PROVE j = k
    <3>1. f[j] \in 1..N /\ <<f[j], f[j]>> \notin R
      BY <2>1 DEF TotallyOrders
    <3>2. ~(j < k) /\ ~(k < j)
      BY <2>1, <2>2, <3>1
    <3> QED
      BY <3>2
  <2>3. f \in Injection(1..N, 1..N)
    BY <2>1, <2>2 DEF Injection, IsInjective
  <2>4. IsFiniteSet(1..N)
    BY FS_Interval
  <2>5. f \in Surjection(1..N, 1..N)
    BY <2>3, <2>4, FS_Injection
  <2> QED
    BY <2>1, <2>5 DEF Surjection
<1>5. ASSUME NEW f, Sorts(f, N, R), NEW g, Sorts(g, N, R), <<f[i], g[i]>> \in R,
             \A j \in 1..N : j < i => f[j] = g[j]
      PROVE  FALSE
  <2>1. f[i] \in 1..N /\ g[i] \in 1..N
    BY <1>3, <1>4, <1>5
  <2>2. PICK k \in 1..N : g[k] = f[i]
    BY <1>4, <1>5, <2>1
  <2>3. CASE k < i
    <3>1. f[k] = f[i] /\ <<f[k], f[i]>> \in R
      <4>1. \A j, l \in 1..N : j < l => <<f[j], f[l]>> \in R
        BY <1>4, <1>5
      <4>2. k < i /\ i \in 1..N
        BY <1>3, <2>3
      <4>3. f[k] = g[k]
        BY <1>5, <4>2
      <4> QED
        BY <2>2, <4>1, <4>2, <4>3
    <3> QED
      BY <2>1, <3>1 DEF TotallyOrders
  <2>4. CASE k = i
    BY <1>5, <2>1, <2>2, <2>4 DEF TotallyOrders
  <2>5. CASE k > i
    <3>1. <<g[i], f[i]>> \in R
      <4>1. \A j, l \in 1..N : j < l => <<g[j], g[l]>> \in R
        BY <1>4, <1>5
      <4>2. i < k /\ i \in 1..N
        BY <1>3, <2>5
      <4>3. <<g[i], g[k]>> \in R
        BY <4>1, <4>2
      <4> QED
        BY <2>2, <4>3
    <3>2. <<f[i], f[i]>> \in R
      BY <1>5, <2>1, <3>1 DEF TotallyOrders
    <3> QED
      BY <2>1, <3>2 DEF TotallyOrders
  <2> QED
    BY <1>3, <2>3, <2>4, <2>5
<1>6. p[i] \in 1..N /\ q[i] \in 1..N
  BY <1>3, <1>4
<1>7. <<p[i], q[i]>> \in R \/ <<q[i], p[i]>> \in R
  BY <1>3, <1>6 DEF TotallyOrders
<1> QED
  BY <1>3, <1>5, <1>7

(* ORDER BY has an answer for every finite set of rows.                    *)
LEMMA AnswersExist ==
  ASSUME NEW rows, IsFiniteSet(rows), NEW limit \in Nat, NEW value \in [rows -> Int],
         NEW before, before = {x \in rows \X rows : value[x[1]] > value[x[2]]}
  PROVE  \E s : s \in Answers(rows, limit, before)
<1>0. \A r, t \in rows : <<r, t>> \in before <=> value[r] > value[t]
  OBVIOUS
<1>1. PICK N \in Nat : ExistsBijection(1..N, rows)
  BY FS_NatBijection
<1>2. PICK e : e \in Bijection(1..N, rows)
  BY <1>1 DEF ExistsBijection
<1>3. /\ e \in [1..N -> rows]
      /\ \A a, b \in 1..N : e[a] = e[b] => a = b
      /\ \A r \in rows : \E a \in 1..N : e[a] = r
  BY <1>2 DEF Bijection, Injection, Surjection, IsInjective
<1> DEFINE R == {x \in (1..N) \X (1..N) : \/ value[e[x[1]]] > value[e[x[2]]]
                                          \/ value[e[x[1]]] = value[e[x[2]]] /\ x[1] < x[2]}
<1>4. \A a, b \in 1..N : <<a, b>> \in R <=> \/ value[e[a]] > value[e[b]]
                                            \/ value[e[a]] = value[e[b]] /\ a < b
  OBVIOUS
<1>5. \A a \in 1..N : e[a] \in rows /\ value[e[a]] \in Int
  BY <1>3
<1> HIDE DEF R
<1>6. TotallyOrders(R, N)
  <2>1. \A a \in 1..N : <<a, a>> \notin R
    BY <1>4, <1>5
  <2>2. ASSUME NEW a \in 1..N, NEW b \in 1..N, NEW c \in 1..N, <<a, b>> \in R, <<b, c>> \in R
        PROVE  <<a, c>> \in R
    BY <1>4, <1>5, <2>2
  <2>3. ASSUME NEW a \in 1..N, NEW b \in 1..N, a # b PROVE <<a, b>> \in R \/ <<b, a>> \in R
    BY <1>4, <1>5, <2>3
  <2> QED
    BY <2>1, <2>2, <2>3 DEF TotallyOrders
<1>7. PICK p : Sorts(p, N, R)
  BY <1>6, SortingExists
<1>8. p \in [1..N -> 1..N] /\ \A i, j \in 1..N : i < j => <<p[i], p[j]>> \in R
  BY <1>7 DEF Sorts
<1>9. /\ \A i, j \in 1..N : p[i] = p[j] => i = j
      /\ \A a \in 1..N : \E i \in 1..N : p[i] = a
  <2>1. ASSUME NEW i \in 1..N, NEW j \in 1..N, p[i] = p[j] PROVE i = j
    <3>1. p[i] \in 1..N /\ <<p[i], p[i]>> \notin R
      BY <1>6, <1>8 DEF TotallyOrders
    <3>2. ~(i < j) /\ ~(j < i)
      BY <1>8, <2>1, <3>1
    <3> QED
      BY <3>2
  <2>2. p \in Injection(1..N, 1..N)
    BY <1>8, <2>1 DEF Injection, IsInjective
  <2>3. IsFiniteSet(1..N)
    BY FS_Interval
  <2>4. p \in Surjection(1..N, 1..N)
    BY <2>2, <2>3, FS_Injection
  <2> QED
    BY <2>1, <2>4 DEF Surjection
<1> DEFINE n == IF N <= limit THEN N ELSE limit
           s == [i \in 1..n |-> e[p[i]]]
<1>10. n \in 0..limit /\ 1..n \subseteq 1..N /\ (n = limit \/ n = N) /\ n \in Nat
  OBVIOUS
<1> HIDE DEF n
<1>11. \A i \in 1..N : p[i] \in 1..N /\ e[p[i]] \in rows
  BY <1>3, <1>8
<1>12. s \in [1..n -> rows] /\ DOMAIN s = 1..n /\ Len(s) = n /\ \A i \in 1..n : s[i] = e[p[i]]
  <2>1. s \in Seq(rows)
    BY <1>10, <1>11
  <2> QED
    BY <1>10, <1>11, <2>1
<1> HIDE DEF s
<1>13. \A i, j \in 1..N : i < j => <<e[p[j]], e[p[i]]>> \notin before
  <2>1. ASSUME NEW i \in 1..N, NEW j \in 1..N, i < j PROVE <<e[p[j]], e[p[i]]>> \notin before
    <3>1. <<p[i], p[j]>> \in R
      BY <1>8, <2>1
    <3>2. /\ p[i] \in 1..N /\ p[j] \in 1..N
          /\ value[e[p[i]]] \in Int /\ value[e[p[j]]] \in Int
          /\ e[p[i]] \in rows /\ e[p[j]] \in rows
      BY <1>5, <1>11
    <3>3. ~(value[e[p[j]]] > value[e[p[i]]])
      BY <1>4, <3>1, <3>2
    <3> QED
      BY <1>0, <3>2, <3>3
  <2> QED
    BY <2>1
<1>14. IsInjective(s)
  <2>1. ASSUME NEW i \in 1..n, NEW j \in 1..n, s[i] = s[j] PROVE i = j
    <3>1. i \in 1..N /\ j \in 1..N /\ e[p[i]] = e[p[j]]
      BY <1>10, <1>12, <2>1
    <3>2. p[i] = p[j]
      BY <1>3, <1>11, <3>1
    <3> QED
      BY <1>9, <3>1, <3>2
  <2> QED
    BY <1>12, <2>1 DEF IsInjective
<1>15. ASSUME NEW i \in 1..n, NEW j \in 1..n, i < j PROVE <<s[j], s[i]>> \notin before
  <2>1. i \in 1..N /\ j \in 1..N
    BY <1>10
  <2> QED
    BY <1>12, <1>13, <1>15, <2>1
<1>16. ASSUME NEW r \in rows \ ToSet(s)
       PROVE  n = limit /\ \A i \in 1..n : <<r, s[i]>> \notin before
  <2>1. PICK a \in 1..N : e[a] = r
    BY <1>3
  <2>2. PICK m \in 1..N : p[m] = a
    BY <1>9
  <2>3. m \notin 1..n
    <3>1. m \in 1..n => r \in ToSet(s)
      BY <1>12, <2>1, <2>2 DEF ToSet
    <3> QED
      BY <3>1
  <2>4. n < m /\ n = limit
    BY <1>10, <2>3
  <2>5. \A i \in 1..n : i \in 1..N /\ i < m
    BY <1>10, <2>4
  <2>6. \A i \in 1..n : <<e[p[m]], e[p[i]]>> \notin before
    BY <1>13, <2>5
  <2> QED
    BY <1>12, <2>1, <2>2, <2>4, <2>6
<1>17. s \in SeqOf(rows, limit)
  BY <1>10, <1>12 DEF SeqOf
<1>18. s \in Answers(rows, limit, before)
  BY <1>12, <1>14, <1>15, <1>16, <1>17, Zenon DEF Answers
<1> QED
  BY <1>18
-----------------------------------------------------------------------------
(* Hits as Search answers them.                                            *)
IsHits(hits) ==
  /\ Len(hits) \in Nat /\ DOMAIN hits = 1..Len(hits)
  /\ \A i \in 1..Len(hits) : hits[i].similarity \in Int /\ hits[i].created_at \in Nat
  /\ \A i, j \in 1..Len(hits) : i < j => hits[j].similarity <= hits[i].similarity

(* Of two hits, the one further down is not more similar unless older, nor *)
(* by more than recency can make up for (OrderIsBalanced).                 *)
Balanced(hits) ==
  \A i, j \in DOMAIN hits : i < j =>
    /\ hits[j].similarity > hits[i].similarity => hits[j].created_at < hits[i].created_at
    /\ WeightSimilarity * (hits[j].similarity - hits[i].similarity) <= WeightRecency * One

(* The score of a hit is a number.                                         *)
LEMMA ScoreFacts ==
  ASSUME NEW hit, hit.similarity \in Int, hit.created_at \in Nat, NEW now \in Nat
  PROVE  Score(hit, now) \in Int
<1>1. RecencyFactor(hit.created_at, now) \in 0..One
  BY RecencyFacts
<1> HIDE DEF RecencyFactor
<1> QED
  BY <1>1, RankingAssumption DEF Score

(* Who is ahead is more similar, or more recent by enough.                 *)
LEMMA AheadIsBalanced ==
  ASSUME NEW hits, IsHits(hits), NEW now \in Nat,
         NEW a \in 1..Len(hits), NEW b \in 1..Len(hits), Ahead(hits, now, a, b)
  PROVE  /\ hits[b].similarity > hits[a].similarity =>
              hits[b].created_at < hits[a].created_at
         /\ WeightSimilarity * (hits[b].similarity - hits[a].similarity)
              <= WeightRecency * One
<1> DEFINE ra == RecencyFactor(hits[a].created_at, now)
           rb == RecencyFactor(hits[b].created_at, now)
           sa == hits[a].similarity
           sb == hits[b].similarity
<1>1. sa \in Int /\ sb \in Int /\ hits[a].created_at \in Nat /\ hits[b].created_at \in Nat
  BY DEF IsHits
<1>2. ra \in 0..One /\ rb \in 0..One
  BY <1>1, RecencyFacts
<1>3. /\ Score(hits[a], now) = WeightSimilarity * sa + WeightRecency * ra
      /\ Score(hits[b], now) = WeightSimilarity * sb + WeightRecency * rb
  BY DEF Score
<1>4. hits[a].created_at <= hits[b].created_at => ra <= rb
  BY <1>1, RecencyFacts
<1>5. a < b => sb <= sa
  BY DEF IsHits
<1>c. WeightSimilarity \in Nat /\ WeightRecency \in Nat /\ One \in Nat
  BY RankingAssumption, HashingAssumption
<1> HIDE DEF ra, rb, sa, sb
<1>6. ASSUME sb > sa PROVE hits[b].created_at < hits[a].created_at
  <2> SUFFICES ASSUME hits[a].created_at <= hits[b].created_at PROVE FALSE
    BY <1>1
  <2>1. ra <= rb /\ ~(a < b)
    BY <1>1, <1>4, <1>5, <1>6
  <2>2. /\ WeightSimilarity * sa <= WeightSimilarity * sb
        /\ WeightRecency * ra <= WeightRecency * rb
    <3>1. \A w \in Nat, x, y \in Int : x <= y => w * x <= w * y
      OBVIOUS
    <3> QED
      BY <1>1, <1>2, <1>6, <1>c, <2>1, <3>1
  <2>3. Score(hits[a], now) > Score(hits[b], now)
    BY <2>1 DEF Ahead
  <2> DEFINE wsa == WeightSimilarity * sa
             wsb == WeightSimilarity * sb
             wra == WeightRecency * ra
             wrb == WeightRecency * rb
  <2>4. wsa \in Int /\ wsb \in Int /\ wra \in Int /\ wrb \in Int
    BY <1>1, <1>2, <1>c
  <2>5. wsa + wra > wsb + wrb /\ wsa <= wsb /\ wra <= wrb
    BY <1>3, <2>2, <2>3
  <2> HIDE DEF wsa, wsb, wra, wrb
  <2> QED
    BY <2>4, <2>5
<1>7. WeightSimilarity * (sb - sa) <= WeightRecency * One
  <2> DEFINE wsa == WeightSimilarity * sa
             wsb == WeightSimilarity * sb
             wra == WeightRecency * ra
             wrb == WeightRecency * rb
             one == WeightRecency * One
  <2>1. wsa \in Int /\ wsb \in Int /\ wra \in Int /\ wrb \in Int /\ one \in Int
    BY <1>1, <1>2, <1>c
  <2>2. wra <= one /\ wrb >= 0
    <3>1. \A w, x, y \in Nat : x <= y => w * x <= w * y /\ w * x >= 0
      OBVIOUS
    <3> QED
      BY <1>2, <1>c, <3>1
  <2>3. WeightSimilarity * (sb - sa) = wsb - wsa
    BY <1>1, <1>c
  <2>4. wsa + wra >= wsb + wrb
    <3>1. Score(hits[a], now) >= Score(hits[b], now)
      <4>1. Score(hits[a], now) \in Int /\ Score(hits[b], now) \in Int
        BY <1>1, ScoreFacts DEF sa, sb
      <4> QED
        BY <4>1 DEF Ahead
    <3> QED
      BY <1>3, <3>1
  <2> HIDE DEF wsa, wsb, wra, wrb, one
  <2>5. wsb - wsa <= one
    BY <2>1, <2>2, <2>4
  <2> QED
    BY <2>3, <2>5 DEF one
<1> QED
  BY <1>6, <1>7 DEF sa, sb
(* Hits are ranked in one way and no other.                                *)
LEMMA RankDetermined ==
  ASSUME NEW hits, IsHits(hits), NEW now \in Nat
  PROVE  \E s : Rank(hits, now) = {s}
<1> DEFINE N == Len(hits)
           R == {x \in (1..N) \X (1..N) : Ahead(hits, now, x[1], x[2])}
<1>1. N \in Nat /\ DOMAIN hits = 1..N
  BY DEF IsHits
<1>2. \A a, b \in 1..N : <<a, b>> \in R <=> Ahead(hits, now, a, b)
  OBVIOUS
<1>3. \A a \in 1..N : Score(hits[a], now) \in Int
  BY ScoreFacts DEF IsHits
<1> HIDE DEF N, R
<1>4. TotallyOrders(R, N)
  <2>1. \A a, b \in 1..N : Ahead(hits, now, a, b)
          <=> \/ Score(hits[a], now) > Score(hits[b], now)
              \/ Score(hits[a], now) = Score(hits[b], now) /\ a < b
    BY DEF Ahead
  <2>2. \A a \in 1..N : <<a, a>> \notin R
    BY <1>2, <1>3, <2>1
  <2>3. ASSUME NEW a \in 1..N, NEW b \in 1..N, NEW c \in 1..N, <<a, b>> \in R, <<b, c>> \in R
        PROVE  <<a, c>> \in R
    BY <1>2, <1>3, <2>1, <2>3
  <2>4. ASSUME NEW a \in 1..N, NEW b \in 1..N, a # b PROVE <<a, b>> \in R \/ <<b, a>> \in R
    BY <1>2, <1>3, <2>1, <2>4
  <2> QED
    BY <2>2, <2>3, <2>4 DEF TotallyOrders
<1>5. PICK p : Sorts(p, N, R)
  BY <1>1, <1>4, SortingExists
<1>6. \A q : Sorts(q, N, R)
        <=> q \in [1..N -> 1..N] /\ \A i, j \in 1..N : i < j => Ahead(hits, now, q[i], q[j])
  BY <1>2 DEF Sorts
<1>7. \A q : Sorts(q, N, R) <=> q = p
  BY <1>1, <1>4, <1>5, SortingUnique
<1>8. {q \in [1..N -> 1..N] : \A i, j \in 1..N : i < j => Ahead(hits, now, q[i], q[j])} = {p}
  BY <1>6, <1>7
<1>9. Rank(hits, now) = {[i \in 1..N |-> hits[q[i]]] : q \in {p}}
  BY <1>1, <1>8, Zenon DEF Rank
<1> DEFINE s == [i \in 1..N |-> hits[p[i]]]
<1>10. Rank(hits, now) = {s}
  BY <1>9
<1> QED
  BY <1>10
-----------------------------------------------------------------------------
USE BundleAssumption

(* What a list of memories may be: rows, the most recent first, and all of *)
(* them or a full page.                                                    *)
LEMMA ListFacts ==
  ASSUME NEW rows, NEW limit \in Nat, NEW s \in ListByUser(rows, limit)
  PROVE  /\ s \in Seq(rows) /\ Len(s) <= limit /\ ToSet(s) \subseteq rows
         /\ \A i, j \in 1..Len(s) : i < j => ~(s[j].created_at > s[i].created_at)
         /\ \A r \in rows \ ToSet(s) :
              Len(s) = limit /\ \A i \in 1..Len(s) : ~(r.created_at > s[i].created_at)
<1> DEFINE newer == {p \in rows \X rows : p[1].created_at > p[2].created_at}
<1>1. PICK n \in 0..limit : s \in [1..n -> rows]
  BY DEF ListByUser, Answers, SeqOf
<1>2. s \in Seq(rows) /\ Len(s) = n /\ DOMAIN s = 1..n
  BY <1>1
<1>3. ToSet(s) \subseteq rows /\ \A i \in 1..n : s[i] \in rows
  BY <1>1 DEF ToSet
<1>4. \A a, b \in rows : <<a, b>> \notin newer => ~(a.created_at > b.created_at)
  OBVIOUS
<1>5. /\ \A i, j \in 1..n : i < j => <<s[j], s[i]>> \notin newer
      /\ \A r \in rows \ ToSet(s) :
           Len(s) = limit /\ \A i \in 1..n : <<r, s[i]>> \notin newer
  BY <1>2 DEF ListByUser, Answers
<1> HIDE DEF newer
<1>6. ASSUME NEW i \in 1..n, NEW j \in 1..n, i < j
      PROVE  ~(s[j].created_at > s[i].created_at)
  <2>1. s[i] \in rows /\ s[j] \in rows /\ <<s[j], s[i]>> \notin newer
    BY <1>3, <1>5, <1>6
  <2> QED
    BY <1>4, <2>1, Zenon
<1>7. ASSUME NEW r \in rows \ ToSet(s)
      PROVE  Len(s) = limit /\ \A i \in 1..n : ~(r.created_at > s[i].created_at)
  <2>1. ASSUME NEW i \in 1..n PROVE ~(r.created_at > s[i].created_at)
    <3>1. s[i] \in rows /\ <<r, s[i]>> \notin newer
      BY <1>3, <1>5
    <3> QED
      BY <1>4, <3>1, Zenon
  <2> QED
    BY <1>5, <2>1
<1>8. n \in Nat /\ n <= limit
  OBVIOUS
<1> QED
  BY <1>2, <1>3, <1>6, <1>7, <1>8

(* Rows whose embeddings can be compared with the query's.                 *)
Comparable(r, query) == r.created_at \in Nat /\ Cosine(r.embedding, query) \in Int

(* What a search may find: rows, the most similar first, and no more than  *)
(* top_k of them.                                                          *)
LEMMA SearchFacts ==
  ASSUME NEW rows, NEW query, \A r \in rows : Comparable(r, query),
         NEW top_k \in Nat, NEW s \in Search(rows, query, top_k)
  PROVE  /\ IsHits(s) /\ Len(s) <= top_k
         /\ \A i \in 1..Len(s) : \E r \in rows :
              s[i].id = r.id /\ s[i].created_at = r.created_at
<1> DEFINE hits == {[id |-> r.id, created_at |-> r.created_at,
                     similarity |-> Cosine(r.embedding, query)] : r \in rows}
           closer == {p \in hits \X hits : p[1].similarity > p[2].similarity}
<1>1. s \in Answers(hits, top_k, closer)
  BY Zenon DEF Search
<1>2. \A h \in hits : /\ h.similarity \in Int /\ h.created_at \in Nat
                      /\ \E r \in rows : h.id = r.id /\ h.created_at = r.created_at
  BY DEF Comparable
<1>3. \A g, h \in hits : <<h, g>> \notin closer => ~(h.similarity > g.similarity)
  OBVIOUS
<1> HIDE DEF hits, closer
<1>4. PICK n \in 0..top_k : s \in [1..n -> hits]
  BY <1>1 DEF Answers, SeqOf
<1>5. s \in Seq(hits) /\ Len(s) = n /\ DOMAIN s = 1..n /\ n \in Nat
  BY <1>4
<1>6. \A i \in 1..n : s[i] \in hits
  BY <1>4
<1>7. ASSUME NEW i \in 1..n, NEW j \in 1..n, i < j
      PROVE  s[j].similarity <= s[i].similarity
  <2>1. <<s[j], s[i]>> \notin closer
    BY <1>1, <1>5, <1>7 DEF Answers
  <2>2. ~(s[j].similarity > s[i].similarity)
    BY <1>3, <1>6, <2>1, Zenon
  <2> QED
    BY <1>2, <1>6, <2>2
<1>8. \A i \in 1..n : s[i].similarity \in Int /\ s[i].created_at \in Nat
  BY <1>2, <1>6
<1>9. IsHits(s)
  BY <1>5, <1>7, <1>8 DEF IsHits
<1> QED
  BY <1>2, <1>4, <1>5, <1>6, <1>9

(* Ranking permutes the hits, and puts none ahead of a better one.         *)
LEMMA RankFacts ==
  ASSUME NEW hits, IsHits(hits), NEW now \in Nat, NEW s \in Rank(hits, now)
  PROVE  /\ Len(s) = Len(hits)
         /\ \A h \in ToSet(s) : \E i \in 1..Len(hits) : h = hits[i]
         /\ Balanced(s)
<1>1. PICK p \in [1..Len(hits) -> 1..Len(hits)] :
        /\ \A i, j \in 1..Len(hits) : i < j => Ahead(hits, now, p[i], p[j])
        /\ s = [i \in 1..Len(hits) |-> hits[p[i]]]
  <2>1. DOMAIN hits = 1..Len(hits)
    BY DEF IsHits
  <2> QED
    BY <2>1 DEF Rank
<1>2. Len(s) = Len(hits) /\ DOMAIN s = 1..Len(hits)
  BY <1>1 DEF IsHits
<1>3. ASSUME NEW i \in 1..Len(hits), NEW j \in 1..Len(hits), i < j
      PROVE  /\ s[j].similarity > s[i].similarity => s[j].created_at < s[i].created_at
             /\ WeightSimilarity * (s[j].similarity - s[i].similarity)
                  <= WeightRecency * One
  <2>1. /\ p[i] \in 1..Len(hits) /\ p[j] \in 1..Len(hits)
        /\ s[i] = hits[p[i]] /\ s[j] = hits[p[j]]
    BY <1>1
  <2>2. Ahead(hits, now, p[i], p[j])
    BY <1>1, <1>3
  <2> QED
    BY <2>1, <2>2, AheadIsBalanced
<1>4. Balanced(s)
  BY <1>2, <1>3, Zenon DEF Balanced
<1> QED
  BY <1>1, <1>2, <1>4 DEF ToSet
-----------------------------------------------------------------------------
(* A page accounts for a time if a memory of that time is on it, or it is  *)
(* full of memories that are no older.                                     *)
Accounts(page, time) ==
  \/ \E i \in 1..Len(page) : time = page[i].created_at
  \/ Len(page) = Window /\ \A i \in 1..Len(page) : time <= page[i].created_at

(* So does the profile built from it, of which this is what is left.       *)
Spans(aProfile, time) ==
  /\ aProfile.memory_count > 0 /\ time <= aProfile.last_seen
  /\ time < aProfile.first_seen => aProfile.memory_count = Window

(* Pages as the memory service lists them.                                 *)
IsPage(page) ==
  /\ page \in Seq(Records) /\ Len(page) <= Window
  /\ \A i, j \in 1..Len(page) : i < j => ~(page[j].created_at > page[i].created_at)

LEMMA RecordTypes ==
  \A r \in Records : /\ r.id \in Memories
                     /\ r.created_at \in 0..MaxClock + Skew /\ r.created_at \in Nat
<1> DEFINE vectors == {EmbedOne(t) : t \in Texts} \cup {None}
<1>1. Records = [id : Memories, created_at : 0..MaxClock + Skew, embedding : vectors]
  BY DEF Records
<1> HIDE DEF vectors
<1> QED
  BY <1>1

LEMMA ProfileSpans ==
  ASSUME NEW page, IsPage(page), NEW signals, NEW time \in Nat, Accounts(page, time)
  PROVE  Spans(BuildProfile(page, signals), time)
<1> DEFINE created == {m.created_at : m \in ToSet(page)}
           n == Len(page)
<1>1. n \in Nat /\ DOMAIN page = 1..n /\ n > 0
  BY DEF IsPage, Accounts
<1>2. \A i \in 1..n : page[i].created_at \in Nat /\ page[i].created_at \in created
  <2>1. ASSUME NEW i \in 1..n PROVE page[i] \in Records /\ page[i] \in ToSet(page)
    BY <1>1 DEF IsPage, ToSet
  <2> QED
    BY <2>1, RecordTypes
<1>3. \A c \in created : \E i \in 1..n : c = page[i].created_at
  BY <1>1 DEF ToSet
<1>s. \A i, j \in 1..n : i < j => ~(page[j].created_at > page[i].created_at)
  BY DEF IsPage
<1> HIDE DEF n
<1>4. ASSUME NEW i \in 1..n
      PROVE  /\ page[i].created_at <= page[1].created_at
             /\ page[i].created_at >= page[n].created_at
  <2>1. 1 \in 1..n /\ n \in 1..n /\ (i = 1 \/ 1 < i) /\ (i = n \/ i < n)
    BY <1>1
  <2>2. ~(page[i].created_at > page[1].created_at) /\ ~(page[n].created_at > page[i].created_at)
    BY <1>2, <1>s, <2>1
  <2> QED
    BY <1>2, <2>1, <2>2
<1>5. /\ page[1].created_at \in created /\ page[n].created_at \in created
      /\ \A c \in created : c \in Nat /\ c <= page[1].created_at /\ c >= page[n].created_at
  <2>1. 1 \in 1..n /\ n \in 1..n
    BY <1>1
  <2> HIDE DEF created
  <2> QED
    BY <1>2, <1>3, <1>4, <2>1
<1> HIDE DEF created
<1>6. Max(created) \in created /\ \A c \in created : Max(created) >= c
  BY <1>5 DEF Max
<1>7. Min(created) \in created /\ \A c \in created : Min(created) <= c
  BY <1>5 DEF Min
<1>8. /\ BuildProfile(page, signals).memory_count = n
      /\ BuildProfile(page, signals).first_seen = Min(created)
      /\ BuildProfile(page, signals).last_seen = Max(created)
  BY <1>5 DEF BuildProfile, created, n
<1>9. CASE \E i \in 1..n : time = page[i].created_at
  BY <1>1, <1>2, <1>5, <1>6, <1>7, <1>8, <1>9 DEF Spans
<1>10. CASE n = Window /\ \A i \in 1..n : time <= page[i].created_at
  <2>1. time <= page[1].created_at
    BY <1>1, <1>10
  <2> QED
    BY <1>1, <1>2, <1>5, <1>6, <1>7, <1>8, <1>10, <2>1 DEF Spans
<1> QED
  BY <1>9, <1>10 DEF Accounts, n

(* The preferences of a profile are those of the rows, one for each key.   *)
Preference(aProfile, k) ==
  IF k \in DOMAIN aProfile.preferences THEN aProfile.preferences[k] ELSE None

Value(row) == IF row = None THEN None ELSE row.value

LEMMA ProfilePrefers ==
  ASSUME NEW page, \A k \in Keys : signal[k] # None => signal[k].key = k, NEW k \in Keys
  PROVE  Preference(BuildProfile(page, {signal[i] : i \in Keys} \ {None}), k)
           = Value(signal[k])
<1> DEFINE rows == {signal[i] : i \in Keys} \ {None}
           chosen(i) == CHOOSE s \in rows : s.key = i
<1>1. BuildProfile(page, rows).preferences
        = [i \in {s.key : s \in rows} |-> chosen(i).value]
  BY DEF BuildProfile
<1>2. CASE signal[k] = None
  <2>1. \A s \in rows : s.key # k
    BY <1>2
  <2> QED
    BY <1>1, <1>2, <2>1 DEF Preference, Value
<1>3. CASE signal[k] # None
  <2>1. signal[k] \in rows /\ signal[k].key = k
    BY <1>3
  <2>2. \A s \in rows : s.key = k => s = signal[k]
    OBVIOUS
  <2>3. chosen(k) = signal[k]
    BY <2>1, <2>2
  <2>4. k \in {s.key : s \in rows}
    BY <2>1
  <2> HIDE DEF chosen, rows
  <2>5. /\ k \in DOMAIN BuildProfile(page, rows).preferences
        /\ BuildProfile(page, rows).preferences[k] = signal[k].value
    BY <1>1, <2>3, <2>4
  <2> QED
    BY <1>3, <2>5 DEF Preference, Value, rows
<1> QED
  BY <1>2, <1>3
-----------------------------------------------------------------------------
(* The inductive invariant, by what it is about.                           *)

(* A memory exists from its POST on until the embedding fails or it is     *)
(* deleted, and one that was deleted never comes back.                     *)
Held(m) ==
  IF post[m] = "embedding" \/ m \in table
  THEN /\ memory[m] \in Records /\ memory[m].id = m
       /\ memory[m].embedding = None <=> m \notin table
  ELSE memory[m] = None

TablesOK ==
  /\ clock \in 0..MaxClock
  /\ post \in [Memories -> {"new", "embedding", "stored", "failed"}]
  /\ DOMAIN memory = Memories
  /\ \A m \in Memories : Held(m)
  /\ table \subseteq {m \in Memories : post[m] = "stored"}
  /\ deleted \subseteq {m \in Memories : post[m] = "stored" /\ m \notin table}

Current(k) == IF given[k] = {} THEN {None} ELSE given[k]

SignalsOK ==
  /\ DOMAIN signal = Keys
  /\ \A k \in Keys : signal[k] # None => signal[k] \in Signals /\ signal[k].key = k
  /\ given \in [Keys -> SUBSET Values]
  /\ \A k \in Keys : Value(signal[k]) \in Current(k)

(* What context_bundle() holds at each of its awaits.                      *)
ReaderOK ==
  /\ reader \in {"idle", "recent", "signals", "search", "answered"}
  /\ IsPage(recent) /\ Len(bundle) <= TopK
  /\ reader # "signals" => recent = <<>>
  /\ reader \notin {"search", "answered"} => profile = NoProfile
  /\ reader # "answered" => bundle = <<>>
  /\ profile.memory_count \in 0..Window

HistoryOK ==
  /\ forgotten \subseteq deleted /\ since \subseteq Memories
  /\ degraded \in BOOLEAN
  /\ lately \in [Keys -> SUBSET (Values \cup {None})]

(* A row that was there when the recent memories were listed is accounted  *)
(* for by the page, then by the profile, then by the bundle.               *)
Coherent ==
  /\ reader = "signals" /\ ~degraded
       => \A m \in table \ since : Accounts(recent, memory[m].created_at)
  /\ reader = "search" /\ ~degraded
       => \A m \in table \ since : Spans(profile, memory[m].created_at)
  /\ BundleIsCoherent

Preferring ==
  /\ Reading => \A k \in Keys : Value(signal[k]) \in lately[k]
  /\ reader \in {"search", "answered"} => \A k \in Keys : Preference(profile, k) \in lately[k]

IInv ==
  /\ TablesOK /\ SignalsOK /\ ReaderOK /\ HistoryOK
  /\ ForgottenStaysForgotten /\ Coherent /\ Preferring /\ OrderIsBalanced

LEMMA EmptyFacts ==
  /\ IsPage(<<>>) /\ Len(<<>>) = 0 /\ ToSet(<<>>) = {}
  /\ NoProfile.memory_count = 0 /\ Balanced(<<>>)
BY DEF IsPage, ToSet, NoProfile, BuildProfile, Balanced

LEMMA InitIInv == Init => IInv
<1> SUFFICES ASSUME Init PROVE IInv
  OBVIOUS
<1>1. TablesOK
  BY DEF Init, TablesOK, Held
<1>2. SignalsOK
  BY DEF Init, SignalsOK, Value, Current
<1>3. ReaderOK
  BY EmptyFacts DEF Init, ReaderOK
<1>4. HistoryOK
  BY DEF Init, HistoryOK
<1>5. ForgottenStaysForgotten
  BY EmptyFacts DEF Init, ForgottenStaysForgotten, Shown
<1>6. Coherent
  BY DEF Init, Coherent, BundleIsCoherent
<1>7. Preferring
  BY DEF Init, Preferring, Reading
<1>8. OrderIsBalanced
  BY EmptyFacts, Zenon DEF Init, OrderIsBalanced, Balanced
<1> QED
  BY <1>1, <1>2, <1>3, <1>4, <1>5, <1>6, <1>7, <1>8 DEF IInv

(* The rows that the memory service answers from.                          *)
LEMMA RowFacts ==
  ASSUME TablesOK
  PROVE  /\ Rows \subseteq Records
         /\ \A r \in Rows : r.id \in table /\ r = memory[r.id]
         /\ \A m \in table : memory[m] \in Rows /\ memory[m].created_at \in Nat
<1>1. ASSUME NEW m \in table PROVE memory[m] \in Records /\ memory[m].id = m
  BY DEF TablesOK, Held
<1> QED
  BY <1>1, RecordTypes DEF Rows

(* Each row has a vector, and it can be compared with that of any text.    *)
LEMMA RowVectors ==
  ASSUME TablesOK
  PROVE  \A r \in Rows : /\ Dot(r.embedding, r.embedding) > 0
                         /\ \A query \in Texts : Comparable(r, EmbedOne(query))
<1>1. ASSUME NEW m \in table
      PROVE  memory[m] \in Records /\ memory[m].embedding # None
  BY DEF TablesOK, Held
<1> DEFINE vectors == {EmbedOne(t) : t \in Texts}
<1>2. \A m \in table : memory[m].embedding \in vectors
  <2>1. Records = [id : Memories, created_at : 0..MaxClock + Skew,
                   embedding : vectors \cup {None}]
    BY DEF Records
  <2> HIDE DEF vectors
  <2> QED
    BY <1>1, <2>1
<1>3. \A v \in vectors : v \in Vectors /\ Dot(v, v) > 0
  BY EmbeddingFacts
<1>4. ASSUME NEW r \in Rows PROVE r.created_at \in Nat /\ r.embedding \in vectors
  <2> HIDE DEF vectors
  <2> QED
    BY <1>2, RowFacts DEF Rows
<1> QED
  BY <1>3, <1>4, CosineFacts DEF Comparable
-----------------------------------------------------------------------------
(* The steps of the tables: a bundle under way keeps what it has read, and *)
(* no row changes but by being removed.                                    *)
Kept ==
  /\ table' \subseteq table \cup since'
  /\ \A m \in table' : m \notin since' => memory'[m] = memory[m]
  /\ since \subseteq since'

LEMMA TableStep ==
  ASSUME IInv, TablesOK', deleted \subseteq deleted',
         UNCHANGED <<signal, reading, forgotten, degraded, given, lately>>,
         since' \subseteq Memories,
         reader \in {"signals", "search"} => Kept,
         since \subseteq since'
  PROVE  IInv'
<1> USE DEF IInv
<1>0. UNCHANGED <<reader, recent, profile, bundle>>
  BY DEF reading
<1>1. SignalsOK' /\ ReaderOK'
  BY <1>0, Zenon DEF SignalsOK, Current, ReaderOK
<1>2. HistoryOK'
  BY DEF HistoryOK
<1>3. ForgottenStaysForgotten'
  BY <1>0, Zenon DEF ForgottenStaysForgotten, Shown
<1>4. Coherent'
  <2>1. BundleIsCoherent'
    BY <1>0 DEF Coherent, BundleIsCoherent
  <2>2. ASSUME reader = "signals", ~degraded, NEW m \in table' \ since'
        PROVE  Accounts(recent', memory'[m].created_at)
    BY <1>0, <2>2 DEF Coherent, Kept
  <2>3. ASSUME reader = "search", ~degraded, NEW m \in table' \ since'
        PROVE  Spans(profile', memory'[m].created_at)
    BY <1>0, <2>3 DEF Coherent, Kept
  <2> QED
    BY <1>0, <2>1, <2>2, <2>3 DEF Coherent
<1>5. Preferring' /\ OrderIsBalanced'
  BY <1>0, Zenon DEF Preferring, Reading, Preference, OrderIsBalanced
<1> QED
  BY <1>1, <1>2, <1>3, <1>4, <1>5

LEMMA StoreIInv == ASSUME IInv, NEW m \in Memories, Store(m) PROVE IInv'
<1> USE DEF IInv
<1>1. PICK now \in clock..clock + Skew :
        memory' = [memory EXCEPT ![m] = [id |-> m, created_at |-> now, embedding |-> None]]
  BY DEF Store
<1>2. [id |-> m, created_at |-> now, embedding |-> None] \in Records
  <2>1. now \in 0..MaxClock + Skew
    BY DEF TablesOK
  <2> QED
    BY <2>1, Zenon DEF Records
<1>3. /\ post[m] = "new" /\ post' = [post EXCEPT ![m] = "embedding"]
      /\ UNCHANGED <<clock, table, signal, reading, deleted, forgotten, since, degraded,
                     given, lately>>
  BY DEF Store, history
<1>4. m \notin table /\ m \notin deleted
  BY <1>3 DEF TablesOK
<1>5. TablesOK'
  <2>1. ASSUME NEW i \in Memories PROVE Held(i)'
    BY <1>1, <1>2, <1>3, <1>4 DEF TablesOK, Held
  <2> QED
    BY <1>1, <1>3, <1>4, <2>1 DEF TablesOK
<1>6. Kept
  BY <1>1, <1>3, <1>4 DEF Kept, TablesOK
<1>7. since' \subseteq Memories
  BY <1>3 DEF HistoryOK
<1> QED
  BY <1>3, <1>5, <1>6, <1>7, TableStep

LEMMA InsertIInv ==
  ASSUME IInv, NEW m \in Memories, NEW text \in Texts, Insert(m, text) PROVE IInv'
<1> USE DEF IInv
<1>1. /\ post[m] = "embedding" /\ post' = [post EXCEPT ![m] = "stored"]
      /\ memory' = [memory EXCEPT ![m].embedding = EmbedOne(text)]
      /\ table' = table \cup {m}
      /\ since' = IF reader \in {"signals", "search"} THEN since \cup {m} ELSE since
      /\ UNCHANGED <<clock, signal, reading, deleted, forgotten, degraded, given, lately>>
  BY DEF Insert
<1>2. m \notin table /\ m \notin deleted
  BY <1>1 DEF TablesOK
<1>3. memory[m] \in Records /\ memory[m].id = m
  BY <1>1 DEF TablesOK, Held
<1>4. /\ memory'[m] \in Records /\ memory'[m].id = m /\ memory'[m].embedding # None
      /\ \A i \in Memories \ {m} : memory'[i] = memory[i]
  <2> DEFINE v == EmbedOne(text)
  <2>1. v \in {EmbedOne(t) : t \in Texts} /\ v # None
    OBVIOUS
  <2>2. memory'[m] = [memory[m] EXCEPT !.embedding = v]
    BY <1>1 DEF TablesOK
  <2>3. \A i \in Memories \ {m} : memory'[i] = memory[i]
    BY <1>1 DEF TablesOK
  <2> DEFINE vectors == {EmbedOne(t) : t \in Texts}
  <2> HIDE DEF v, vectors
  <2>4. v \in vectors
    BY <2>1 DEF vectors
  <2> QED
    BY <1>3, <2>1, <2>2, <2>3, <2>4 DEF Records, vectors
<1>5. TablesOK'
  <2>1. ASSUME NEW i \in Memories PROVE Held(i)'
    BY <1>1, <1>2, <1>4 DEF TablesOK, Held
  <2>2. DOMAIN memory' = Memories
    BY <1>1 DEF TablesOK
  <2> QED
    BY <1>1, <1>2, <2>1, <2>2 DEF TablesOK
<1>6. reader \in {"signals", "search"} => Kept
  BY <1>1, <1>4 DEF Kept, TablesOK
<1>7. since' \subseteq Memories
  BY <1>1 DEF HistoryOK
<1> QED
  BY <1>1, <1>5, <1>6, <1>7, TableStep

(* Whichever memories are removed.                                         *)
LEMMA RemoveIInv ==
  ASSUME IInv, NEW gone \in SUBSET table,
         table' = table \ gone, deleted' = deleted \cup gone,
         DOMAIN memory' = Memories,
         \A m \in Memories : memory'[m] = IF m \in gone THEN None ELSE memory[m],
         UNCHANGED <<clock, post, signal, reading, forgotten, since, degraded, given, lately>>
  PROVE  IInv'
<1> USE DEF IInv
<1>1. \A m \in gone : post[m] = "stored" /\ m \in Memories
  BY DEF TablesOK
<1>2. TablesOK'
  <2>1. ASSUME NEW i \in Memories PROVE Held(i)'
    BY <1>1 DEF TablesOK, Held
  <2> QED
    BY <1>1, <2>1 DEF TablesOK
<1>3. Kept
  BY DEF Kept, TablesOK
<1>4. since' \subseteq Memories
  BY DEF HistoryOK
<1> QED
  BY <1>2, <1>3, <1>4, TableStep
LEMMA EmbedFailsIInv == ASSUME IInv, NEW m \in Memories, EmbedFails(m) PROVE IInv'
<1> USE DEF IInv
<1>1. /\ post[m] = "embedding" /\ post' = [post EXCEPT ![m] = "failed"]
      /\ memory' = [memory EXCEPT ![m] = None]
      /\ UNCHANGED <<clock, table, signal, reading, deleted, forgotten, since, degraded,
                     given, lately>>
  BY DEF EmbedFails, history
<1>2. m \notin table /\ m \notin deleted
  BY <1>1 DEF TablesOK
<1>3. TablesOK'
  <2>1. ASSUME NEW i \in Memories PROVE Held(i)'
    BY <1>1, <1>2 DEF TablesOK, Held
  <2> QED
    BY <1>1, <1>2, <2>1 DEF TablesOK
<1>4. Kept
  BY <1>1, <1>2 DEF Kept, TablesOK
<1>5. since' \subseteq Memories
  BY <1>1 DEF HistoryOK
<1> QED
  BY <1>1, <1>3, <1>4, <1>5, TableStep

(* The steps of the signals: a bundle that has not read them yet sees what *)
(* becomes of each of them.                                                *)
LEMMA SignalStep ==
  ASSUME IInv, SignalsOK',
         UNCHANGED <<clock, post, memory, table, reading, deleted, forgotten, since, degraded>>,
         lately' \in [Keys -> SUBSET (Values \cup {None})],
         Reading => \A k \in Keys : Value(signal'[k]) \in lately'[k],
         ~Reading => UNCHANGED lately
  PROVE  IInv'
<1> USE DEF IInv
<1>0. UNCHANGED <<reader, recent, profile, bundle>>
  BY DEF reading
<1>1. TablesOK' /\ ReaderOK'
  BY <1>0, Zenon DEF TablesOK, Held, ReaderOK
<1>2. HistoryOK'
  BY DEF HistoryOK
<1>3. ForgottenStaysForgotten'
  BY <1>0, Zenon DEF ForgottenStaysForgotten, Shown
<1>4. Coherent'
  BY <1>0, Zenon DEF Coherent, BundleIsCoherent
<1>5. Preferring'
  <2>1. Reading' => \A k \in Keys : Value(signal'[k]) \in lately'[k]
    BY <1>0, Zenon DEF Reading
  <2>2. reader \in {"search", "answered"} => ~Reading
    BY DEF Reading
  <2>3. reader' \in {"search", "answered"}
          => \A k \in Keys : Preference(profile', k) \in lately'[k]
    BY <1>0, <2>2 DEF Preferring
  <2> QED
    BY <2>1, <2>3, Zenon DEF Preferring, Preference
<1>6. OrderIsBalanced'
  BY <1>0, Zenon DEF OrderIsBalanced
<1> QED
  BY <1>1, <1>2, <1>3, <1>4, <1>5, <1>6

LEMMA SignalIInv == ASSUME IInv, NEW s \in Signals, Signal(s) PROVE IInv'
<1> USE DEF IInv
<1>1. /\ signal' = [signal EXCEPT ![s.key] = s]
      /\ given' = [given EXCEPT ![s.key] = given[s.key] \cup {s.value}]
      /\ lately' = IF Reading THEN [lately EXCEPT ![s.key] = lately[s.key] \cup {s.value}]
                   ELSE lately
      /\ UNCHANGED <<clock, post, memory, table, reading, deleted, forgotten, since, degraded>>
  BY Zenon DEF Signal, Upsert
<1>2. s.key \in Keys /\ s.value \in Values /\ s # None
  BY DEF Keys, Values
<1>3. lately \in [Keys -> SUBSET (Values \cup {None})]
  BY DEF HistoryOK
<1>4. SignalsOK'
  <2>1. \A k \in Keys : signal'[k] = IF k = s.key THEN s ELSE signal[k]
    BY <1>1, <1>2 DEF SignalsOK
  <2>2. given' \in [Keys -> SUBSET Values]
    BY <1>1, <1>2 DEF SignalsOK
  <2>3. \A k \in Keys : Value(signal'[k]) \in IF given'[k] = {} THEN {None} ELSE given'[k]
    BY <1>1, <1>2, <2>1 DEF SignalsOK, Value, Current
  <2>4. DOMAIN signal' = Keys
    BY <1>1 DEF SignalsOK
  <2>5. \A k \in Keys : signal'[k] # None => signal'[k] \in Signals /\ signal'[k].key = k
    BY <1>2, <2>1 DEF SignalsOK
  <2> QED
    BY <2>2, <2>3, <2>4, <2>5 DEF SignalsOK, Current, Value
<1>5. lately' \in [Keys -> SUBSET (Values \cup {None})]
  BY <1>1, <1>2, <1>3
<1>6. Reading => \A k \in Keys : Value(signal'[k]) \in lately'[k]
  BY <1>1, <1>2, <1>3 DEF Preferring, SignalsOK, Value
<1> QED
  BY <1>1, <1>4, <1>5, <1>6, SignalStep

LEMMA ClearIInv == ASSUME IInv, Clear PROVE IInv'
<1> USE DEF IInv
<1>1. /\ signal' = [k \in Keys |-> None] /\ given' = [k \in Keys |-> {}]
      /\ lately' = IF Reading THEN [k \in Keys |-> lately[k] \cup {None}] ELSE lately
      /\ UNCHANGED <<clock, post, memory, table, reading, deleted, forgotten, since, degraded>>
  BY Zenon DEF Clear, ClearSignals
<1>2. lately \in [Keys -> SUBSET (Values \cup {None})]
  BY DEF HistoryOK
<1>3. SignalsOK'
  BY <1>1 DEF SignalsOK, Value, Current
<1>4. lately' \in [Keys -> SUBSET (Values \cup {None})]
  BY <1>1, <1>2
<1>5. Reading => \A k \in Keys : Value(signal'[k]) \in lately'[k]
  BY <1>1, <1>2 DEF Value
<1> QED
  BY <1>1, <1>3, <1>4, <1>5, SignalStep
-----------------------------------------------------------------------------
(* The steps of context_bundle().                                          *)
LEMMA BeginIInv == ASSUME IInv, Begin PROVE IInv'
<1> USE DEF IInv
<1>1. /\ reader = "idle" /\ reader' = "recent"
      /\ forgotten' = deleted /\ lately' = [k \in Keys |-> Current(k)]
      /\ UNCHANGED <<clock, post, memory, table, signal, recent, profile, bundle, deleted,
                     since, degraded, given>>
  BY DEF Begin, stored, Current
<1>2. TablesOK' /\ SignalsOK'
  BY <1>1, Zenon DEF TablesOK, Held, SignalsOK, Current
<1>3. ReaderOK'
  BY <1>1 DEF ReaderOK, IsPage, Records
<1>4. \A k \in Keys : Current(k) \subseteq Values \cup {None}
  BY DEF SignalsOK, Current
<1>5. HistoryOK'
  BY <1>1, <1>4 DEF HistoryOK
<1>6. ForgottenStaysForgotten'
  BY <1>1, EmptyFacts DEF ReaderOK, ForgottenStaysForgotten, Shown
<1>7. Coherent' /\ Preferring'
  BY <1>1 DEF Coherent, BundleIsCoherent, Preferring, Reading, SignalsOK
<1>8. OrderIsBalanced'
  BY <1>1, Zenon DEF OrderIsBalanced
<1> QED
  BY <1>2, <1>3, <1>5, <1>6, <1>7, <1>8
(* A page of rows shows nothing deleted and accounts for every row.        *)
LEMMA PageFacts ==
  ASSUME TablesOK, NEW page \in ListMemories
  PROVE  /\ IsPage(page)
         /\ \A r \in ToSet(page) : r.id \in table
         /\ \A m \in table : Accounts(page, memory[m].created_at)
<1>1. /\ page \in Seq(Rows) /\ Len(page) <= Window /\ ToSet(page) \subseteq Rows
      /\ \A i, j \in 1..Len(page) : i < j => ~(page[j].created_at > page[i].created_at)
      /\ \A r \in Rows \ ToSet(page) :
           Len(page) = Window /\ \A i \in 1..Len(page) : ~(r.created_at > page[i].created_at)
  BY ListFacts DEF ListMemories
<1>2. IsPage(page)
  BY <1>1, RowFacts DEF IsPage
<1>3. \A r \in ToSet(page) : r.id \in table
  BY <1>1, RowFacts
<1>4. ASSUME NEW m \in table PROVE Accounts(page, memory[m].created_at)
  <2>1. memory[m] \in Rows /\ memory[m].created_at \in Nat
    BY RowFacts
  <2>2. CASE memory[m] \in ToSet(page)
    BY <1>1, <2>2 DEF ToSet, Accounts
  <2>3. CASE memory[m] \notin ToSet(page)
    <3>1. \A i \in 1..Len(page) : page[i].created_at \in Nat
      BY <1>2, RecordTypes DEF IsPage
    <3> QED
      BY <1>1, <2>1, <2>3, <3>1 DEF Accounts
  <2> QED
    BY <2>2, <2>3
<1> QED
  BY <1>2, <1>3, <1>4

LEMMA ReadRecentIInv == ASSUME IInv, NEW answered \in BOOLEAN, ReadRecent(answered) PROVE IInv'
<1> USE DEF IInv
<1>1. /\ reader = "recent" /\ reader' = "signals"
      /\ recent' \in IF answered THEN ListMemories ELSE {<<>>}
      /\ degraded' = ~answered /\ since' = {}
      /\ UNCHANGED <<clock, post, memory, table, signal, profile, bundle, deleted, forgotten,
                     given, lately>>
  BY Zenon DEF ReadRecent, stored
<1>2. TablesOK' /\ SignalsOK'
  BY <1>1, Zenon DEF TablesOK, Held, SignalsOK, Current
<1>3. IsPage(recent') /\ \A r \in ToSet(recent') : r.id \in table
  BY <1>1, PageFacts, EmptyFacts
<1>4. ~degraded' => \A m \in table : Accounts(recent', memory[m].created_at)
  BY <1>1, PageFacts
<1>5. ReaderOK'
  <2>1. IsPage(recent)'
    BY <1>3 DEF IsPage, Records
  <2> QED
    BY <1>1, <2>1 DEF ReaderOK
<1>6. HistoryOK'
  BY <1>1 DEF HistoryOK
<1>7. ForgottenStaysForgotten'
  <2>1. bundle' = <<>> /\ \A m \in forgotten' : m \notin table
    BY <1>1 DEF ReaderOK, HistoryOK, TablesOK
  <2> QED
    BY <1>3, <2>1, EmptyFacts DEF ForgottenStaysForgotten, Shown
<1>8. Coherent'
  <2>1. reader' = "signals" /\ ~degraded'
          => \A m \in table' \ since' : Accounts(recent', memory'[m].created_at)
    BY <1>1, <1>4
  <2> QED
    BY <1>1, <2>1, Zenon DEF Coherent, Accounts, BundleIsCoherent
<1>9. Preferring'
  BY <1>1 DEF Preferring, Reading
<1>10. OrderIsBalanced'
  BY <1>1, Zenon DEF OrderIsBalanced
<1> QED
  BY <1>2, <1>5, <1>6, <1>7, <1>8, <1>9, <1>10

LEMMA ReadSignalsIInv == ASSUME IInv, ReadSignals PROVE IInv'
<1> USE DEF IInv
<1>1. /\ reader = "signals" /\ reader' = "search"
      /\ profile' = BuildProfile(recent, {signal[k] : k \in Keys} \ {None})
      /\ recent' = <<>>
      /\ UNCHANGED <<clock, post, memory, table, signal, bundle, deleted, forgotten, since,
                     degraded, given, lately>>
  BY Zenon DEF ReadSignals, stored, history
<1>2. TablesOK' /\ SignalsOK' /\ HistoryOK'
  BY <1>1, Zenon DEF TablesOK, Held, SignalsOK, Current, HistoryOK
<1>3. ReaderOK'
  <2>1. profile'.memory_count = Len(recent)
    BY <1>1 DEF BuildProfile
  <2>2. Len(recent) \in 0..Window
    BY DEF ReaderOK, IsPage
  <2>3. IsPage(recent)'
    BY <1>1 DEF IsPage
  <2> QED
    BY <1>1, <2>1, <2>2, <2>3 DEF ReaderOK
<1>4. ForgottenStaysForgotten'
  BY <1>1, EmptyFacts DEF ForgottenStaysForgotten, Shown
<1>5. Coherent'
  <2>1. ASSUME ~degraded, NEW m \in table \ since PROVE Spans(profile', memory[m].created_at)
    <3>1. memory[m].created_at \in Nat
      BY RowFacts
    <3>2. Accounts(recent, memory[m].created_at)
      BY <1>1, <2>1 DEF Coherent
    <3> QED
      BY <1>1, <3>1, <3>2, ProfileSpans DEF ReaderOK
  <2> QED
    BY <1>1, <2>1 DEF Coherent, BundleIsCoherent
<1>6. Preferring'
  <2>1. \A k \in Keys : Preference(profile', k) = Value(signal[k])
    BY <1>1, ProfilePrefers DEF SignalsOK
  <2>2. \A k \in Keys : Value(signal[k]) \in lately[k]
    BY <1>1 DEF Preferring, Reading, SignalsOK
  <2> QED
    BY <1>1, <2>1, <2>2 DEF Preferring, Reading
<1>7. OrderIsBalanced'
  BY <1>1, Zenon DEF OrderIsBalanced
<1> QED
  BY <1>2, <1>3, <1>4, <1>5, <1>6, <1>7

(* The memories of a bundle are rows, and no more than the reader asks for.*)
LEMMA BundleFacts ==
  ASSUME TablesOK, NEW query \in Texts, NEW hits \in ContextSearch(query)
  PROVE  /\ Len(hits) <= TopK /\ Balanced(hits)
         /\ \A h \in ToSet(hits) : h.id \in table /\ h.created_at = memory[h.id].created_at
<1> DEFINE ranked(rows) == UNION {Rank(found, clock) :
                                   found \in Search(rows, EmbedOne(query), TopK)}
<1>1. PICK rows \in SUBSET Rows : hits \in ranked(rows)
  BY DEF ContextSearch
<1>2. PICK found \in Search(rows, EmbedOne(query), TopK) : hits \in Rank(found, clock)
  BY <1>1
<1> HIDE DEF ranked
<1>3. /\ IsHits(found) /\ Len(found) <= TopK
      /\ \A i \in 1..Len(found) : \E r \in rows :
           found[i].id = r.id /\ found[i].created_at = r.created_at
  <2> DEFINE v == EmbedOne(query)
  <2>1. (\A r \in rows : Comparable(r, v)) /\ TopK \in Nat /\ found \in Search(rows, v, TopK)
    BY <1>2, RowVectors
  <2> HIDE DEF v
  <2>2. IsHits(found) /\ Len(found) <= TopK
    BY <2>1, SearchFacts
  <2>3. \A i \in 1..Len(found) : \E r \in rows :
          found[i].id = r.id /\ found[i].created_at = r.created_at
    BY <2>1, SearchFacts
  <2> QED
    BY <2>2, <2>3
<1>4. /\ Len(hits) = Len(found) /\ Balanced(hits)
      /\ \A h \in ToSet(hits) : \E i \in 1..Len(found) : h = found[i]
  <2>1. clock \in Nat
    BY DEF TablesOK
  <2> QED
    BY <1>2, <1>3, <2>1, RankFacts
<1>5. \A r \in rows : r.id \in table /\ r = memory[r.id]
  BY <1>1, RowFacts
<1> QED
  BY <1>3, <1>4, <1>5

LEMMA SearchIInv ==
  ASSUME IInv, NEW query \in Texts, NEW answered \in BOOLEAN, SearchContext(query, answered)
  PROVE  IInv'
<1> USE DEF IInv
<1>1. /\ reader = "search" /\ reader' = "answered"
      /\ bundle' \in IF answered THEN ContextSearch(query) ELSE {<<>>}
      /\ UNCHANGED <<clock, post, memory, table, signal, recent, profile, deleted, forgotten,
                     since, degraded, given, lately>>
  BY Zenon DEF SearchContext, stored, history
<1>2. TablesOK' /\ SignalsOK' /\ HistoryOK'
  BY <1>1, Zenon DEF TablesOK, Held, SignalsOK, Current, HistoryOK
<1>3. /\ Len(bundle') <= TopK /\ Balanced(bundle')
      /\ \A h \in ToSet(bundle') : h.id \in table /\ h.created_at = memory[h.id].created_at
  BY <1>1, BundleFacts, EmptyFacts
<1>4. ReaderOK'
  <2>1. IsPage(recent)'
    BY <1>1, EmptyFacts DEF ReaderOK, IsPage
  <2> QED
    BY <1>1, <1>3, <2>1 DEF ReaderOK
<1>5. ForgottenStaysForgotten'
  <2>1. recent' = <<>> /\ \A m \in forgotten' : m \notin table
    BY <1>1 DEF ReaderOK, HistoryOK, TablesOK
  <2> QED
    BY <1>3, <2>1, EmptyFacts DEF ForgottenStaysForgotten, Shown
<1>6. Coherent'
  <2>1. ASSUME ~degraded, NEW h \in ToSet(bundle'), h.id \notin since
        PROVE  Spans(profile, h.created_at)
    BY <1>1, <1>3, <2>1 DEF Coherent
  <2>2. BundleIsCoherent'
    BY <1>1, <2>1 DEF BundleIsCoherent, Spans
  <2> QED
    BY <1>1, <2>2 DEF Coherent
<1>7. Preferring'
  BY <1>1 DEF Preferring, Reading, Preference
<1>8. OrderIsBalanced'
  BY <1>3, Zenon DEF Balanced, OrderIsBalanced
<1> QED
  BY <1>2, <1>4, <1>5, <1>6, <1>7, <1>8

LEMMA ReturnIInv == ASSUME IInv, Return PROVE IInv'
<1> USE DEF IInv
<1>1. /\ reader' = "idle"
      /\ recent' = <<>> /\ profile' = NoProfile /\ bundle' = <<>>
      /\ forgotten' = {} /\ since' = {} /\ degraded' = FALSE
      /\ lately' = [k \in Keys |-> {}]
      /\ UNCHANGED <<clock, post, memory, table, signal, deleted, given>>
  BY Zenon DEF Return, stored
<1>2. TablesOK' /\ SignalsOK'
  BY <1>1, Zenon DEF TablesOK, Held, SignalsOK, Current
<1>3. ReaderOK'
  <2>1. IsPage(recent)'
    BY <1>1 DEF IsPage
  <2> QED
    BY <1>1, <2>1, EmptyFacts DEF ReaderOK
<1>4. HistoryOK'
  BY <1>1 DEF HistoryOK
<1>5. ForgottenStaysForgotten'
  BY <1>1 DEF ForgottenStaysForgotten
<1>6. Coherent' /\ Preferring'
  BY <1>1 DEF Coherent, BundleIsCoherent, Preferring, Reading
<1>7. OrderIsBalanced'
  BY <1>1, EmptyFacts, Zenon DEF Balanced, OrderIsBalanced
<1> QED
  BY <1>2, <1>3, <1>4, <1>5, <1>6, <1>7

LEMMA NextIInv == IInv /\ [Next]_vars => IInv'
<1> SUFFICES ASSUME IInv, [Next]_vars PROVE IInv'
  OBVIOUS
<1> USE DEF IInv
<1>1. CASE Tick
  <2>1. /\ clock < MaxClock /\ clock' = clock + 1
        /\ UNCHANGED <<post, memory, table, signal, reading, deleted, forgotten, since,
                       degraded, given, lately>>
    BY <1>1 DEF Tick, history
  <2>2. TablesOK'
    BY <2>1 DEF TablesOK, Held
  <2>3. Kept /\ since' \subseteq Memories
    BY <2>1 DEF Kept, HistoryOK
  <2> QED
    BY <2>1, <2>2, <2>3, TableStep
<1>2. ASSUME NEW m \in Memories, Delete(m) PROVE IInv'
  <2>1. /\ m \in table /\ table' = table \ {m} /\ deleted' = deleted \cup {m}
        /\ memory' = [memory EXCEPT ![m] = None]
        /\ UNCHANGED <<clock, post, signal, reading, forgotten, since, degraded, given, lately>>
    BY <1>2 DEF Delete
  <2>2. /\ DOMAIN memory' = Memories
        /\ \A i \in Memories : memory'[i] = IF i \in {m} THEN None ELSE memory[i]
    BY <2>1 DEF TablesOK
  <2>3. {m} \subseteq table
    BY <2>1
  <2> QED
    BY <2>1, <2>2, <2>3, RemoveIInv, Zenon
<1>3. CASE Wipe
  <2>1. /\ table' = {} /\ deleted' = deleted \cup table
        /\ memory' = [m \in Memories |-> IF m \in table \ table' THEN None ELSE memory[m]]
        /\ UNCHANGED <<clock, post, signal, reading, forgotten, since, degraded, given, lately>>
    BY <1>3, Zenon DEF Wipe, DeleteAll
  <2>2. /\ DOMAIN memory' = Memories
        /\ \A i \in Memories : memory'[i] = IF i \in table THEN None ELSE memory[i]
    BY <2>1
  <2> QED
    BY <2>1, <2>2, RemoveIInv
<1>4. CASE Answer \/ Break
  BY <1>4, ReturnIInv DEF Answer, Break
<1>5. CASE UNCHANGED vars
  <2>1. UNCHANGED <<clock, post, memory, table, signal, reading, deleted, forgotten, since,
                    degraded, given, lately>>
    BY <1>5 DEF vars, stored, history
  <2>2. TablesOK'
    BY <2>1, Zenon DEF TablesOK, Held
  <2>3. Kept /\ since' \subseteq Memories
    BY <2>1 DEF Kept, HistoryOK
  <2> QED
    BY <2>1, <2>2, <2>3, TableStep
<1> QED
  BY <1>1, <1>2, <1>3, <1>4, <1>5, StoreIInv, InsertIInv, EmbedFailsIInv, SignalIInv,
     ClearIInv, BeginIInv, ReadRecentIInv, ReadSignalsIInv, SearchIInv, Zenon DEF Next

(* In every behaviour, whatever is stored, deleted and signalled while a   *)
(* bundle is put together.                                                 *)
THEOREM Invariance == Spec => []IInv
  BY InitIInv, NextIInv, PTL DEF Spec

(* Tables, reader and history keep their types: a stored memory has its    *)
(* vector, a page its window and a bundle its top_k.                       *)
THEOREM TypeCorrect == Spec => []TypeOK
<1>1. IInv => TypeOK
  <2> SUFFICES ASSUME IInv PROVE TypeOK
    OBVIOUS
  <2>1. ToSet(recent) \subseteq Records
    BY DEF IInv, ReaderOK, IsPage, ToSet
  <2>2. given \in [Keys -> SUBSET Values]
    BY DEF IInv, SignalsOK
  <2>3. recent = <<>> \/ profile = NoProfile
    BY DEF IInv, ReaderOK
  <2>4. deleted \subseteq Memories
    BY DEF IInv, TablesOK
  <2>5. \A m \in Memories :
          IF post[m] = "embedding" \/ m \in table
          THEN memory[m] \in Records /\ (memory[m].embedding = None <=> m \notin table)
          ELSE memory[m] = None
    BY Zenon DEF IInv, TablesOK, Held
  <2>6. Len(recent) <= Window
    BY Zenon DEF IInv, ReaderOK, IsPage
  <2> QED
    BY <2>1, <2>2, <2>3, <2>4, <2>5, <2>6, Zenon
       DEF IInv, TablesOK, SignalsOK, ReaderOK, HistoryOK, TypeOK
<1> QED
  BY <1>1, Invariance, PTL

(* A bundle shows and counts no memory that was deleted before it was      *)
(* asked for (context_bundle, delete_all).                                 *)
THEOREM NothingForgottenShown == Spec => []ForgottenStaysForgotten
<1>1. IInv => ForgottenStaysForgotten
  BY DEF IInv
<1> QED
  BY <1>1, Invariance, PTL

(* A memory that a bundle shows is one that its profile accounts for,      *)
(* unless it was stored between the two reads (_profile, context_bundle).  *)
THEOREM HalvesAgree == Spec => []BundleIsCoherent
<1>1. IInv => BundleIsCoherent
  BY DEF IInv, Coherent
<1> QED
  BY <1>1, Invariance, PTL

(* A preference of the bundle was signalled and not cleared, and none is   *)
(* missing, unless that changed before the signals were read (upsert,      *)
(* clear, build_profile).                                                  *)
THEOREM PreferencesUpheld == Spec => []PreferencesHonoured
<1>1. IInv => PreferencesHonoured
  BY Zenon DEF IInv, Preferring, Preference, PreferencesHonoured
<1> QED
  BY <1>1, Invariance, PTL

(* Of two memories in a bundle the second is neither more similar nor more *)
(* recent by more than the other weight can make up for (rank,             *)
(* recency_factor).                                                        *)
THEOREM OrderBalanced == Spec => []OrderIsBalanced
<1>1. IInv => OrderIsBalanced
  BY DEF IInv
<1> QED
  BY <1>1, Invariance, PTL

(* No row has the zero vector, also when the tokens of a text cancel each  *)
(* other out (_embed_one).                                                 *)
THEOREM VectorsNeverZero == Spec => []NoZeroVector
<1>1. IInv => NoZeroVector
  BY RowVectors DEF IInv, NoZeroVector
<1> QED
  BY <1>1, Invariance, PTL
-----------------------------------------------------------------------------
(* What the reads may answer is never empty, and leaves the order of a     *)
(* bundle open only where the order of the hits is.                        *)
ReadsAnswered ==
  /\ ListMemories # {}
  /\ \A query \in Texts, rows \in SUBSET Rows :
       /\ Search(rows, EmbedOne(query), TopK) # {}
       /\ \A hits \in Search(rows, EmbedOne(query), TopK) :
            \E ranked : Rank(hits, clock) = {ranked}

(* Every finite set of rows can be listed, and searched.                   *)
LEMMA ListExists ==
  ASSUME NEW rows, IsFiniteSet(rows), \A r \in rows : r.created_at \in Int, NEW limit \in Nat
  PROVE  ListByUser(rows, limit) # {}
<1> DEFINE value == [r \in rows |-> r.created_at]
           before == {p \in rows \X rows : p[1].created_at > p[2].created_at}
<1>1. value \in [rows -> Int] /\ before = {x \in rows \X rows : value[x[1]] > value[x[2]]}
  OBVIOUS
<1>2. ListByUser(rows, limit) = Answers(rows, limit, before)
  BY Zenon DEF ListByUser
<1> HIDE DEF value, before
<1> QED
  BY <1>1, <1>2, AnswersExist

LEMMA SearchExists ==
  ASSUME NEW rows, IsFiniteSet(rows), NEW query, \A r \in rows : Comparable(r, query),
         NEW top_k \in Nat
  PROVE  Search(rows, query, top_k) # {}
<1> DEFINE hit(r) == [id |-> r.id, created_at |-> r.created_at,
                      similarity |-> Cosine(r.embedding, query)]
           hits == {hit(r) : r \in rows}
           value == [h \in hits |-> h.similarity]
           before == {p \in hits \X hits : p[1].similarity > p[2].similarity}
<1>1. \A r \in rows : hit(r).similarity \in Int
  BY DEF Comparable
<1>2. Search(rows, query, top_k) = Answers(hits, top_k, before)
  BY Zenon DEF Search
<1>3. IsFiniteSet(hits)
  <2> HIDE DEF hit
  <2> DEFINE f == [r \in rows |-> hit(r)]
  <2>1. f \in Surjection(rows, hits)
    BY DEF Surjection
  <2> QED
    BY <2>1, FS_Surjection
<1>4. \A h \in hits : h.similarity \in Int
  BY <1>1
<1> HIDE DEF hits
<1>5. value \in [hits -> Int] /\ before = {x \in hits \X hits : value[x[1]] > value[x[2]]}
  BY <1>4
<1> HIDE DEF value, before
<1> QED
  BY <1>2, <1>3, <1>5, AnswersExist

(* There are never more than finitely many rows, whatever Memories is.     *)
LEMMA TableFinite == Spec => []IsFiniteSet(table)
<1>1. Init => IsFiniteSet(table)
  BY FS_EmptySet DEF Init
<1>2. IsFiniteSet(table) /\ [Next]_vars => IsFiniteSet(table)'
  <2> SUFFICES ASSUME IsFiniteSet(table), [Next]_vars PROVE IsFiniteSet(table')
    OBVIOUS
  <2>1. \/ table' = table \/ \E m \in Memories : table' = table \cup {m}
        \/ table' \in SUBSET table
    <3>1. CASE UNCHANGED vars
      BY <3>1 DEF vars, stored
    <3>2. CASE Tick \/ Wipe \/ Clear
      BY <3>2 DEF Tick, Wipe, DeleteAll, Clear
    <3>3. ASSUME NEW m \in Memories,
                 \/ Store(m) \/ (\E text \in Texts : Insert(m, text))
                 \/ EmbedFails(m) \/ Delete(m)
          PROVE  table' = table \/ table' = table \cup {m} \/ table' \in SUBSET table
      BY <3>3 DEF Store, Insert, EmbedFails, Delete
    <3>4. ASSUME NEW s \in Signals, Signal(s) PROVE table' = table
      BY <3>4 DEF Signal
    <3>5. CASE Begin \/ ReadSignals \/ Answer \/ Break
      BY <3>5 DEF Begin, ReadSignals, Answer, Break, Return, stored
    <3>6. ASSUME NEW answered \in BOOLEAN,
                 ReadRecent(answered) \/ \E query \in Texts : SearchContext(query, answered)
          PROVE  table' = table
      BY <3>6 DEF ReadRecent, SearchContext, stored
    <3> QED
      BY <3>1, <3>2, <3>3, <3>4, <3>5, <3>6, Zenon DEF Next
  <2> QED
    BY <2>1, FS_AddElement, FS_Subset
<1> QED
  BY <1>1, <1>2, PTL DEF Spec

(* No read of context_bundle() is left without an answer, so that what is  *)
(* proved of bundles is not proved of none; and sorted() has one result    *)
(* for the hits of a search (list_by_user, search, rank).                  *)
THEOREM ReadsHaveAnswers == Spec => []ReadsAnswered
<1>1. IInv /\ IsFiniteSet(table) => ReadsAnswered
  <2> SUFFICES ASSUME TablesOK, IsFiniteSet(table) PROVE ReadsAnswered
    BY DEF IInv
  <2>1. IsFiniteSet(Rows)
    <3> DEFINE f == [m \in table |-> memory[m]]
    <3>1. f \in Surjection(table, Rows)
      BY DEF Surjection, Rows
    <3> QED
      BY <3>1, FS_Surjection
  <2>2. ListMemories # {}
    <3>1. \A r \in Rows : r.created_at \in Int
      BY RowFacts, RecordTypes
    <3>2. Window \in Nat
      OBVIOUS
    <3> QED
      BY <2>1, <3>1, <3>2, ListExists DEF ListMemories
  <2>3. ASSUME NEW query \in Texts, NEW rows \in SUBSET Rows
        PROVE  /\ Search(rows, EmbedOne(query), TopK) # {}
               /\ \A hits \in Search(rows, EmbedOne(query), TopK) :
                    \E ranked : Rank(hits, clock) = {ranked}
    <3> DEFINE v == EmbedOne(query)
    <3>1. (\A r \in rows : Comparable(r, v)) /\ TopK \in Nat /\ clock \in Nat
      BY RowVectors DEF TablesOK
    <3>2. IsFiniteSet(rows)
      BY <2>1, FS_Subset
    <3> HIDE DEF v
    <3>3. Search(rows, v, TopK) # {}
      BY <3>1, <3>2, SearchExists
    <3>4. ASSUME NEW hits \in Search(rows, v, TopK) PROVE \E ranked : Rank(hits, clock) = {ranked}
      <4>1. IsHits(hits)
        BY <3>1, SearchFacts
      <4> QED
        BY <3>1, <4>1, RankDetermined
    <3> QED
      BY <3>3, <3>4 DEF v
  <2> QED
    BY <2>2, <2>3 DEF ReadsAnswered
<1> QED
  BY <1>1, Invariance, TableFinite, PTL
=============================================================================
