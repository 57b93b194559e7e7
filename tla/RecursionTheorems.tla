------------------------- MODULE RecursionTheorems -------------------------
(***************************************************************************)
(* Induction over the natural numbers, and recursion along a sequence, in  *)
(* a form the provers can use: what holds of a number is a set of numbers, *)
(* a step of a recursion is a function.                                    *)
(***************************************************************************)
EXTENDS Integers, WellFoundedInduction, TLAPS

\* A set of natural numbers that is not empty has a least element.
LEMMA LeastNumber ==
    ASSUME NEW T, T \subseteq Nat, T # {}
    PROVE  \E x \in T : \A y \in T : x <= y
<1> DEFINE R == OpToRel(<, Nat)
<1>1. IsWellFoundedOn(R, Nat)
  BY NatLessThanWellFounded
<1>2. \A x, y \in Nat : x < y => <<x, y>> \in R
  BY DEF OpToRel
<1> HIDE DEF R
<1>3. PICK x \in T : \A y \in T : ~(<<y, x>> \in R)
  BY <1>1, WFMin
<1>4. ASSUME NEW y \in T
      PROVE  x <= y
  <2>1. x \in Nat /\ y \in Nat /\ ~(<<y, x>> \in R)
    BY <1>3
  <2>2. ~(y < x)
    BY <1>2, <2>1, Zenon
  <2> QED
    BY <2>1, <2>2
<1> QED
  BY <1>4

\* A set that has 0 and, with every number, the next one, has all of them.
LEMMA SetInduction ==
    ASSUME NEW T, 0 \in T, \A n \in Nat : n \in T => n + 1 \in T
    PROVE  \A n \in Nat : n \in T
<1> DEFINE D == Nat \ T
<1>1. SUFFICES ASSUME D # {} PROVE FALSE
  OBVIOUS
<1>2. PICK x \in D : \A y \in D : x <= y
  <2>1. D \subseteq Nat
    OBVIOUS
  <2> QED
    BY <1>1, <2>1, LeastNumber
<1>3. x - 1 \in Nat /\ x - 1 + 1 = x /\ ~(x <= x - 1)
  BY <1>2
<1>4. x - 1 \in T
  BY <1>2, <1>3
<1> QED
  BY <1>2, <1>3, <1>4

\* A recursion of N steps that begins with b and takes G[k] as its step k.
LEMMA RecursionExists ==
    ASSUME NEW S, NEW b \in S, NEW N \in Nat, NEW G \in [1 .. N -> [S -> S]]
    PROVE  \E f \in [0 .. N -> S] : f[0] = b /\ \A k \in 1 .. N : f[k] = G[k][f[k - 1]]
<1> DEFINE Up(n) == \E f \in [0 .. n -> S] :
                      f[0] = b /\ \A k \in 1 .. n : f[k] = G[k][f[k - 1]]
           T == {n \in Nat : n <= N => Up(n)}
<1>1. 0 \in T
  <2>1. [k \in 0 .. 0 |-> b] \in [0 .. 0 -> S] /\ [k \in 0 .. 0 |-> b][0] = b
    OBVIOUS
  <2>2. 1 .. 0 = {}
    OBVIOUS
  <2>3. Up(0)
    BY <2>1, <2>2
  <2> QED
    BY <2>3
<1>2. ASSUME NEW n \in Nat, n \in T
      PROVE  n + 1 \in T
  <2> SUFFICES ASSUME n + 1 <= N PROVE Up(n + 1)
    OBVIOUS
  <2>1. Up(n) /\ n + 1 \in 1 .. N /\ n \in 0 .. n
    BY <1>2
  <2>2. PICK f \in [0 .. n -> S] : f[0] = b /\ \A k \in 1 .. n : f[k] = G[k][f[k - 1]]
    BY <2>1
  <2> DEFINE g == [k \in 0 .. n + 1 |-> IF k = n + 1 THEN G[n + 1][f[n]] ELSE f[k]]
  <2>3. \A k \in 0 .. n + 1 : k = n + 1 \/ k \in 0 .. n
    OBVIOUS
  <2>4. g \in [0 .. n + 1 -> S]
    BY <2>1, <2>3
  <2>5. g[0] = b
    BY <2>2
  <2>6. ASSUME NEW k \in 1 .. n + 1
        PROVE  g[k] = G[k][g[k - 1]]
    <3>1. CASE k = n + 1
      <4>1. k - 1 = n /\ n \in 0 .. n + 1 /\ n # n + 1
        BY <3>1
      <4>2. g[k - 1] = f[n] /\ g[k] = G[n + 1][f[n]]
        BY <3>1, <4>1
      <4> QED
        BY <3>1, <4>2
    <3>2. CASE k # n + 1
      <4>1. k \in 1 .. n /\ k - 1 \in 0 .. n /\ k - 1 # n + 1 /\ k - 1 \in 0 .. n + 1
        BY <3>2
      <4>2. g[k] = f[k] /\ g[k - 1] = f[k - 1]
        BY <3>2, <4>1
      <4> QED
        BY <2>2, <4>1, <4>2
    <3> QED
      BY <3>1, <3>2
  <2> HIDE DEF g
  <2> QED
    BY <2>4, <2>5, <2>6
<1> HIDE DEF T
<1>3. N \in T
  BY <1>1, <1>2, SetInduction
<1> QED
  BY <1>3 DEF T

\* A set that has a number whenever it has all smaller ones has all of them.
LEMMA StrongSetInduction ==
    ASSUME NEW T, \A n \in Nat : (\A m \in Nat : m < n => m \in T) => n \in T
    PROVE  \A n \in Nat : n \in T
<1> DEFINE D == Nat \ T
<1>1. SUFFICES ASSUME D # {} PROVE FALSE
  OBVIOUS
<1>2. PICK x \in D : \A y \in D : x <= y
  <2>1. D \subseteq Nat
    OBVIOUS
  <2> QED
    BY <1>1, <2>1, LeastNumber
<1>3. ASSUME NEW m \in Nat, m < x
      PROVE  m \in T
  BY <1>2, <1>3
<1> QED
  BY <1>2, <1>3

\* A recursion from n down to d[n], with G as its step, to b where d goes no
\* further down.
IsDescent(S, b, d, G) == b \in [Nat -> S] /\ d \in [Nat -> Nat] /\ G \in [Nat -> [S -> S]]

Descends(f, S, b, d, G) ==
    f \in [Nat -> S] /\ \A n \in Nat : f[n] = IF d[n] < n THEN G[n][f[d[n]]] ELSE b[n]

\* Such a recursion defines a function, however far it goes down at once.
LEMMA DescentExists ==
    ASSUME NEW S, NEW b, NEW d, NEW G, IsDescent(S, b, d, G)
    PROVE  \E f : Descends(f, S, b, d, G)
<1> USE DEF IsDescent
<1> DEFINE Step(f, k) == IF d[k] < k THEN G[k][f[d[k]]] ELSE b[k]
           Is(f, n) == f \in [0 .. n -> S] /\ \A k \in 0 .. n : f[k] = Step(f, k)
           Same(n) == \A m \in Nat, p \in Nat : \A f, g :
                        n <= m /\ n <= p /\ Is(f, m) /\ Is(g, p) => f[n] = g[n]
           U == {n \in Nat : Same(n)}
           E == {n \in Nat : \E f : Is(f, n)}
<1>1. \A n \in Nat : Same(n)
  <2>1. ASSUME NEW n \in Nat, \A i \in Nat : i < n => i \in U
        PROVE  n \in U
    <3>1. SUFFICES ASSUME NEW m \in Nat, NEW p \in Nat, NEW f, NEW g, n <= m, n <= p,
                          Is(f, m), Is(g, p)
                   PROVE  f[n] = g[n]
      <4> HIDE DEF Is
      <4> QED
        OBVIOUS
    <3>2. n \in 0 .. m /\ n \in 0 .. p
      BY <3>1
    <3>3. f[n] = Step(f, n) /\ g[n] = Step(g, n)
      BY <3>1, <3>2
    <3>4. ASSUME d[n] < n PROVE f[d[n]] = g[d[n]]
      <4>1. d[n] \in Nat /\ d[n] <= m /\ d[n] <= p
        <5>1. d[n] \in Nat
          OBVIOUS
        <5>2. n \in Nat /\ m \in Nat /\ p \in Nat /\ n <= m /\ n <= p
          BY <3>1
        <5> HIDE DEF Is, Same, U, E
        <5> QED
          BY <3>4, <5>1, <5>2
      <4>2. Same(d[n])
        <5> HIDE DEF Same
        <5> QED
          BY <2>1, <3>4, <4>1
      <4> HIDE DEF Is
      <4> QED
        BY <3>1, <4>1, <4>2
    <3> HIDE DEF Is
    <3> QED
      BY <3>3, <3>4
  <2>2. \A n \in Nat : n \in U
    <3> HIDE DEF U
    <3> QED
      BY <2>1, StrongSetInduction
  <2> HIDE DEF Same
  <2> QED
    BY <2>2
<1>4. 0 \in E
  <2> DEFINE f == [k \in 0 .. 0 |-> b[0]]
  <2>1. ~(d[0] < 0) /\ 0 .. 0 = {0}
    OBVIOUS
  <2>2. f \in [0 .. 0 -> S] /\ f[0] = b[0]
    BY <2>1
  <2>3. \A k \in 0 .. 0 : k = 0
    OBVIOUS
  <2> HIDE DEF f
  <2>4. Is(f, 0)
    BY <2>1, <2>2, <2>3
  <2> QED
    BY <2>4
<1>5. ASSUME NEW n \in Nat, n \in E
      PROVE  n + 1 \in E
  <2>1. PICK f : Is(f, n)
    BY <1>5
  <2> DEFINE e == Step(f, n + 1)
             g == [k \in 0 .. n + 1 |-> IF k = n + 1 THEN e ELSE f[k]]
  <2>2. \A k \in 0 .. n + 1 : k = n + 1 \/ k \in 0 .. n
    OBVIOUS
  <2>3. \A k \in 0 .. n : k \in 0 .. n + 1 /\ k # n + 1 /\ k \in Nat
    OBVIOUS
  <2>4. e \in S
    <3>1. d[n + 1] \in Nat /\ (d[n + 1] < n + 1 => d[n + 1] \in 0 .. n)
      OBVIOUS
    <3>2. d[n + 1] < n + 1 => f[d[n + 1]] \in S
      BY <2>1, <3>1
    <3> QED
      BY <3>2
  <2> HIDE DEF e
  <2>5. g \in [0 .. n + 1 -> S]
    BY <2>1, <2>2, <2>4
  <2>6. g[n + 1] = e /\ \A k \in 0 .. n : g[k] = f[k]
    <3>1. n + 1 \in 0 .. n + 1
      OBVIOUS
    <3> QED
      BY <2>3, <3>1
  <2> HIDE DEF g
  <2>7. ASSUME NEW k \in 0 .. n + 1
        PROVE  g[k] = Step(g, k)
    <3>1. d[k] < k => d[k] \in 0 .. n
      OBVIOUS
    <3>2. Step(g, k) = Step(f, k)
      BY <2>6, <3>1
    <3>3. CASE k = n + 1
      BY <2>6, <3>2, <3>3 DEF e
    <3>4. CASE k # n + 1
      <4>1. k \in 0 .. n
        BY <3>4
      <4>2. f[k] = Step(f, k)
        BY <2>1, <4>1
      <4> QED
        BY <2>6, <3>2, <4>1, <4>2
    <3> QED
      BY <3>3, <3>4
  <2>8. Is(g, n + 1)
    BY <2>5, <2>7
  <2>9. n + 1 \in Nat
    OBVIOUS
  <2> HIDE DEF Is
  <2> QED
    BY <2>8, <2>9
<1>6. \A n \in Nat : \E f : Is(f, n)
  <2> HIDE DEF E
  <2>1. \A n \in Nat : n \in E
    BY <1>4, <1>5, SetInduction
  <2> QED
    BY <2>1 DEF E
<1> DEFINE h == [n \in Nat |-> CHOOSE f : Is(f, n)]
           r == [n \in Nat |-> h[n][n]]
<1>7. \A n \in Nat : Is(h[n], n)
  BY <1>6
<1> HIDE DEF h
<1>8. \A n \in Nat : r[n] = h[n][n] /\ n \in 0 .. n
  OBVIOUS
<1>9. r \in [Nat -> S]
  BY <1>7, <1>8
<1> HIDE DEF r
<1>10. ASSUME NEW n \in Nat
       PROVE  r[n] = Step(r, n)
  <2>1. r[n] = Step(h[n], n)
    BY <1>7, <1>8
  <2>2. CASE d[n] < n
    <3>1. d[n] \in Nat /\ d[n] <= d[n] /\ d[n] <= n
      BY <2>2
    <3>2. Is(h[d[n]], d[n]) /\ Is(h[n], n)
      <4> HIDE DEF Is
      <4> QED
        BY <1>7, <3>1
    <3>3. Same(d[n])
      <4> HIDE DEF Same
      <4> QED
        BY <1>1, <3>1
    <3>4. h[d[n]][d[n]] = h[n][d[n]]
      <4> DEFINE i == d[n]
                 f == h[i]
                 g == h[n]
      <4>1. i \in Nat /\ i <= i /\ i <= n /\ Is(f, i) /\ Is(g, n) /\ Same(i)
        BY <3>1, <3>2, <3>3
      <4> HIDE DEF Is, i, f, g
      <4>2. f[i] = g[i]
        BY <4>1
      <4> QED
        BY <4>2 DEF i, f, g
    <3> QED
      BY <1>8, <2>1, <3>1, <3>4
  <2>3. CASE ~(d[n] < n)
    BY <2>1, <2>3
  <2> QED
    BY <2>2, <2>3
<1> QED
  BY <1>9, <1>10 DEF Descends
=============================================================================
