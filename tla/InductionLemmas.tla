--------------------------- MODULE InductionLemmas ---------------------------
(***************************************************************************)
(* Induction over the natural numbers and the existence of functions that  *)
(* are defined by recursion, stated with sets and functions in the place   *)
(* of predicates and operators, so that first-order provers can use them.  *)
(* Both rest on the library's theorem that a set with a well-founded       *)
(* relation has a minimal element.                                         *)
(***************************************************************************)
EXTENDS Integers, Sequences, FiniteSetTheorems, SequenceTheorems,
        WellFoundedInduction, TLAPS

(* Every set of natural numbers that has an element has a smallest one. *)
LEMMA Smallest ==
    ASSUME NEW T \in SUBSET Nat, T # {}
    PROVE  \E n \in T : \A m \in T : n <= m
<1> DEFINE R == OpToRel(<, Nat)
<1>1. IsWellFoundedOn(R, Nat)
  BY NatLessThanWellFounded
<1>2. \A x, y \in Nat : <<x, y>> \in R <=> x < y
  BY Zenon DEF OpToRel
<1> HIDE DEF R
<1>3. PICK n \in T : \A m \in T : ~(<<m, n>> \in R)
  BY <1>1, WFMin
<1>4. ASSUME NEW m \in T PROVE n <= m
  <2>1. m \in Nat /\ n \in Nat
    BY <1>3
  <2>2. ~(<<m, n>> \in R)
    BY <1>3
  <2>3. ~(m < n)
    BY <1>2, <2>1, <2>2
  <2> QED
    BY <2>1, <2>3
<1> QED
  BY <1>3, <1>4

(* Induction up to N: a set with 0 that has, with each number below N, the *)
(* next one too, has all numbers up to N.                                  *)
LEMMA UpTo ==
    ASSUME NEW N \in Nat, NEW P, 0 \in P,
           \A i \in Nat : i < N /\ i \in P => i + 1 \in P
    PROVE  0..N \subseteq P
<1> DEFINE T == {i \in 0..N : i \notin P}
<1> SUFFICES ASSUME T # {} PROVE FALSE
  OBVIOUS
<1>1. T \in SUBSET Nat
  OBVIOUS
<1>2. PICK n \in T : \A m \in T : n <= m
  <2> HIDE DEF T
  <2> QED
    BY <1>1, Smallest
<1>3. n \in Nat /\ n <= N /\ n # 0 /\ n \notin P
  BY <1>2
<1>4. n - 1 \in Nat /\ n - 1 < N /\ n - 1 \in P
  BY <1>2, <1>3
<1>5. (n - 1) + 1 \in P
  BY <1>4
<1> QED
  BY <1>3, <1>5

(* A function that is defined by what it is at 0 and by the step from each *)
(* number to the next exists.                                              *)
Iterates(f, a, F, N) == f[0] = a /\ \A i \in 1..N : f[i] = F[i][f[i - 1]]

LEMMA Iteration ==
    ASSUME NEW S, NEW N \in Nat, NEW a \in S, NEW F \in [Nat -> [S -> S]]
    PROVE  \E f \in [0..N -> S] : Iterates(f, a, F, N)
<1> DEFINE P == {k \in Nat : \E f \in [0..k -> S] : Iterates(f, a, F, k)}
<1>1. 0 \in P
  <2> DEFINE f == [i \in 0..0 |-> a]
  <2>1. f \in [0..0 -> S] /\ Iterates(f, a, F, 0)
    BY DEF Iterates
  <2> HIDE DEF f
  <2> QED
    BY <2>1
<1>2. ASSUME NEW k \in Nat, k \in P PROVE k + 1 \in P
  <2>1. PICK f \in [0..k -> S] : Iterates(f, a, F, k)
    BY <1>2
  <2> DEFINE g == [i \in 0..(k + 1) |-> IF i = k + 1 THEN F[k + 1][f[k]] ELSE f[i]]
  <2>2. k \in 0..k /\ k + 1 \in Nat /\ \A i \in 0..(k + 1) : i = k + 1 \/ i \in 0..k
    OBVIOUS
  <2>3. F[k + 1] \in [S -> S] /\ f[k] \in S
    BY <2>1, <2>2
  <2>4. g \in [0..(k + 1) -> S]
    BY <2>1, <2>2, <2>3
  <2>5. g[0] = a
    BY <2>1 DEF Iterates
  <2>6. ASSUME NEW i \in 1..(k + 1) PROVE g[i] = F[i][g[i - 1]]
    <3>1. CASE i = k + 1
      BY <3>1
    <3>2. CASE i # k + 1
      <4>1. i \in 1..k /\ i \in 0..k /\ i - 1 \in 0..k /\ i - 1 # k + 1
        BY <3>2
      <4>2. f[i] = F[i][f[i - 1]]
        BY <2>1, <4>1 DEF Iterates
      <4> QED
        BY <3>2, <4>1, <4>2
    <3> QED
      BY <3>1, <3>2
  <2> HIDE DEF g
  <2>7. Iterates(g, a, F, k + 1)
    BY <2>5, <2>6 DEF Iterates
  <2> QED
    BY <2>2, <2>4, <2>7
<1> HIDE DEF P
<1>3. 0..N \subseteq P
  BY <1>1, <1>2, UpTo
<1>4. N \in P
  BY <1>3
<1> QED
  BY <1>4 DEF P

(* A function on sets that gives no less for a set than for those in it    *)
(* has added all that it ever will after as many rounds as there are       *)
(* elements: in every round that is not the last there is one more.        *)
Repeated(f, a, R, N) == f[0] = a /\ \A i \in 1..N : f[i] = R[f[i - 1]]

Grows(a, R, U) ==
    /\ a \in SUBSET U /\ R \in [SUBSET U -> SUBSET U] /\ a \subseteq R[a]
    /\ \A x, y \in SUBSET U : x \subseteq y => R[x] \subseteq R[y]

IsLeast(z, a, R, U) ==
    /\ z \in SUBSET U /\ a \subseteq z /\ R[z] = z
    /\ \A x \in SUBSET U : a \subseteq x /\ R[x] \subseteq x => z \subseteq x

LEMMA LeastFixedPoint ==
    ASSUME NEW U, IsFiniteSet(U), NEW a, NEW R, Grows(a, R, U),
           NEW f, Repeated(f, a, R, Cardinality(U))
    PROVE  IsLeast(f[Cardinality(U)], a, R, U)
<1> USE DEF Grows, Repeated
<1> DEFINE N == Cardinality(U)
           P == {n \in Nat : /\ f[n] \in SUBSET U
                             /\ a \subseteq f[n] /\ f[n] \subseteq R[f[n]]
                             /\ R[f[n]] = f[n] \/ Cardinality(f[n]) >= n}
<1>1. N \in Nat
  BY FS_CardinalityType
<1> HIDE DEF N
<1>2. \A i \in 1..N : f[i] = R[f[i - 1]]
  BY DEF N
<1>3. 0 \in P
  <2>1. IsFiniteSet(a)
    BY FS_Subset
  <2>2. Cardinality(a) \in Nat
    BY <2>1, FS_CardinalityType
  <2> QED
    BY <2>2
<1>4. ASSUME NEW n \in Nat, n < N, n \in P PROVE n + 1 \in P
  <2> DEFINE x == f[n]
             y == f[n + 1]
  <2>1. n + 1 \in 1..N /\ (n + 1) - 1 = n /\ n + 1 \in Nat
    BY <1>1, <1>4
  <2>2. y = R[x]
    BY <1>2, <2>1
  <2>3. /\ x \in SUBSET U /\ a \subseteq x /\ x \subseteq R[x]
        /\ R[x] = x \/ Cardinality(x) >= n
    BY <1>4
  <2> HIDE DEF x, y
  <2>4. y \in SUBSET U /\ a \subseteq y /\ y \subseteq R[y]
    BY <2>2, <2>3
  <2>5. ASSUME y # x PROVE Cardinality(y) >= n + 1
    <3>1. IsFiniteSet(y)
      BY <2>4, FS_Subset
    <3>2. /\ IsFiniteSet(x) /\ Cardinality(x) <= Cardinality(y)
          /\ Cardinality(y) = Cardinality(x) => y = x
      BY <2>2, <2>3, <3>1, FS_Subset
    <3>3. Cardinality(x) \in Nat /\ Cardinality(y) \in Nat
      BY <3>1, <3>2, FS_CardinalityType
    <3>4. Cardinality(x) >= n
      BY <2>2, <2>3, <2>5
    <3> QED
      BY <2>5, <3>2, <3>3, <3>4
  <2>6. R[y] = y \/ Cardinality(y) >= n + 1
    BY <2>2, <2>5
  <2> QED
    BY <2>1, <2>4, <2>6 DEF y
<1> HIDE DEF P
<1>5. N \in P
  <2>1. 0..N \subseteq P
    BY <1>1, <1>3, <1>4, UpTo
  <2> QED
    BY <1>1, <2>1
<1> DEFINE z == f[N]
<1>6. z \in SUBSET U /\ a \subseteq z /\ z \subseteq R[z] /\ (R[z] = z \/ Cardinality(z) >= N)
  BY <1>5 DEF P
<1> HIDE DEF z
<1>7. ASSUME Cardinality(z) >= N PROVE R[z] = z
  <2>1. /\ IsFiniteSet(z) /\ Cardinality(z) <= Cardinality(U)
        /\ Cardinality(U) = Cardinality(z) => U = z
    BY <1>6, FS_Subset
  <2>2. Cardinality(z) \in Nat
    BY <2>1, FS_CardinalityType
  <2>3. U = z
    BY <1>1, <1>7, <2>1, <2>2 DEF N
  <2> QED
    BY <1>6, <2>3
<1>8. ASSUME NEW x \in SUBSET U, a \subseteq x, R[x] \subseteq x PROVE z \subseteq x
  <2> DEFINE Q == {n \in Nat : f[n] \in SUBSET U /\ f[n] \subseteq x}
  <2>1. 0 \in Q
    BY <1>8
  <2>2. ASSUME NEW n \in Nat, n < N, n \in Q PROVE n + 1 \in Q
    <3>1. n + 1 \in 1..N /\ (n + 1) - 1 = n /\ n + 1 \in Nat
      BY <1>1, <2>2
    <3>2. f[n + 1] = R[f[n]]
      BY <1>2, <3>1
    <3>3. f[n] \in SUBSET U /\ f[n] \subseteq x
      BY <2>2
    <3>4. R[f[n]] \subseteq R[x] /\ R[f[n]] \in SUBSET U
      BY <3>3
    <3> QED
      BY <1>8, <3>1, <3>2, <3>4
  <2> HIDE DEF Q
  <2>3. 0..N \subseteq Q
    BY <1>1, <2>1, <2>2, UpTo
  <2>4. N \in Q
    BY <1>1, <2>3
  <2> QED
    BY <2>4 DEF Q, z
<1> QED
  BY <1>6, <1>7, <1>8 DEF z, N, IsLeast
=============================================================================
