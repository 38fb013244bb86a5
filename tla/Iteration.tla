------------------------------ MODULE Iteration ------------------------------
(***************************************************************************)
(* Induction and recursion over the natural numbers, stated for sets and   *)
(* functions instead of operators, and what the folds of the components    *)
(* need of them: loops over a list and walks along pointers.               *)
(***************************************************************************)
EXTENDS Integers, Sequences, FiniteSets, FiniteSetTheorems, FunctionTheorems, TLAPS

-----------------------------------------------------------------------------
(* Induction.                                                              *)

(* A set that has 0 and the successor of each of its numbers has them all:
   otherwise adding one maps its numbers below a missing one into a proper
   part of themselves.                                                     *)
LEMMA NatSetInduction ==
  ASSUME NEW S, 0 \in S, \A n \in Nat : n \in S => n + 1 \in S
  PROVE  \A n \in Nat : n \in S
<1> SUFFICES ASSUME NEW n \in Nat, n \notin S
             PROVE  FALSE
  OBVIOUS
<1> DEFINE T == {m \in 0 .. n : m \in S}
           U == T \ {0}
           f == [m \in T |-> m + 1]
<1>1. IsFiniteSet(T)
  <2>1. IsFiniteSet(0 .. n)
    BY FS_Interval
  <2> QED
    BY <2>1, FS_Subset
<1>2. IsFiniteSet(U) /\ Cardinality(U) = Cardinality(T) - 1 /\ Cardinality(T) \in Nat
  <2>1. 0 \in T
    OBVIOUS
  <2> HIDE DEF T
  <2> QED
    BY <1>1, <2>1, FS_RemoveElement, FS_CardinalityType
<1>3. \A m \in T : m + 1 \in U
  OBVIOUS
<1>4. f \in Injection(T, U)
  <2>1. \A x, y \in T : x + 1 = y + 1 => x = y
    OBVIOUS
  <2> HIDE DEF T, U
  <2> QED
    BY <1>3, <2>1 DEF Injection, IsInjective
<1>5. Cardinality(T) <= Cardinality(U)
  <2> HIDE DEF T, U, f
  <2> QED
    BY <1>2, <1>4, FS_Injection
<1> QED
  BY <1>2, <1>5

(* Every set of naturals that is not empty has a least element.            *)
LEMMA LeastNat ==
  ASSUME NEW S, S \subseteq Nat, S # {}
  PROVE  \E m \in S : \A n \in S : m <= n
<1> SUFFICES ASSUME \A m \in S : \E n \in S : n < m
             PROVE  FALSE
  OBVIOUS
<1> DEFINE T == {n \in Nat : \A m \in 0 .. n : m \notin S}
<1>1. 0 \in T
  OBVIOUS
<1>2. \A n \in Nat : n \in T => n + 1 \in T
  OBVIOUS
<1> HIDE DEF T
<1>3. \A n \in Nat : n \in T
  BY <1>1, <1>2, NatSetInduction
<1>4. PICK m \in S : TRUE
  OBVIOUS
<1>5. m \in Nat /\ m \in 0 .. m
  BY <1>4
<1> QED
  BY <1>3, <1>4, <1>5 DEF T

-----------------------------------------------------------------------------
(* Recursion.                                                              *)

(* The values of the first n rounds.                                       *)
Rounds(A, a, g, n) ==
  {h \in [0 .. n -> A] : h[0] = a /\ \A k \in 0 .. n - 1 : h[k + 1] = g[h[k]]}

LEMMA RoundsExist ==
  ASSUME NEW A, NEW a \in A, NEW g \in [A -> A]
  PROVE  \A n \in Nat : Rounds(A, a, g, n) # {}
<1> DEFINE S == {n \in Nat : Rounds(A, a, g, n) # {}}
<1>1. 0 \in S
  <2>1. [k \in 0 .. 0 |-> a] \in Rounds(A, a, g, 0)
    BY DEF Rounds
  <2> QED
    BY <2>1
<1>2. ASSUME NEW n \in Nat, n \in S
      PROVE  n + 1 \in S
  <2>1. PICK h \in [0 .. n -> A] : h[0] = a /\ \A k \in 0 .. n - 1 : h[k + 1] = g[h[k]]
    BY <1>2 DEF Rounds
  <2> DEFINE e == [k \in 0 .. n + 1 |-> IF k <= n THEN h[k] ELSE g[h[n]]]
  <2>2. e \in [0 .. n + 1 -> A]
    BY <2>1
  <2>3. e[0] = a
    BY <2>1
  <2>4. ASSUME NEW k \in 0 .. n
        PROVE  e[k + 1] = g[e[k]]
    <3>1. CASE k < n
      BY <2>1, <3>1
    <3>2. CASE k = n
      BY <2>1, <3>2
    <3> QED
      BY <3>1, <3>2
  <2> HIDE DEF e
  <2>5. e \in Rounds(A, a, g, n + 1)
    BY <2>2, <2>3, <2>4 DEF Rounds
  <2> QED
    BY <2>5
<1> HIDE DEF S
<1>3. \A n \in Nat : n \in S
  BY <1>1, <1>2, NatSetInduction
<1> QED
  BY <1>3 DEF S

LEMMA RoundsUnique ==
  ASSUME NEW A, NEW a \in A, NEW g \in [A -> A],
         NEW m \in Nat, NEW n \in Nat,
         NEW h \in Rounds(A, a, g, m), NEW e \in Rounds(A, a, g, n)
  PROVE  \A k \in Nat : k <= m /\ k <= n => h[k] = e[k]
<1> DEFINE S == {k \in Nat : k <= m /\ k <= n => h[k] = e[k]}
<1>1. 0 \in S
  BY DEF Rounds
<1>2. ASSUME NEW k \in Nat, k \in S
      PROVE  k + 1 \in S
  <2> SUFFICES ASSUME k + 1 <= m, k + 1 <= n
               PROVE  h[k + 1] = e[k + 1]
    OBVIOUS
  <2>1. h[k] = e[k]
    BY <1>2
  <2>2. k \in 0 .. m - 1 /\ k \in 0 .. n - 1
    OBVIOUS
  <2> QED
    BY <2>1, <2>2 DEF Rounds
<1> HIDE DEF S
<1>3. \A k \in Nat : k \in S
  BY <1>1, <1>2, NatSetInduction
<1> QED
  BY <1>3 DEF S

(* A function of a set into itself can be iterated for ever.               *)
LEMMA IterationExists ==
  ASSUME NEW A, NEW a \in A, NEW g \in [A -> A]
  PROVE  \E f \in [Nat -> A] : f[0] = a /\ \A n \in Nat : f[n + 1] = g[f[n]]
<1> DEFINE h(n) == CHOOSE e \in Rounds(A, a, g, n) : TRUE
           f == [n \in Nat |-> h(n)[n]]
<1>1. \A n \in Nat : h(n) \in Rounds(A, a, g, n)
  BY RoundsExist
<1> HIDE DEF h
<1>2. f \in [Nat -> A]
  BY <1>1 DEF Rounds
<1>3. f[0] = a
  BY <1>1 DEF Rounds
<1>4. ASSUME NEW n \in Nat
      PROVE  f[n + 1] = g[f[n]]
  <2>1. h(n) \in Rounds(A, a, g, n) /\ h(n + 1) \in Rounds(A, a, g, n + 1)
    BY <1>1
  <2>2. h(n)[n] = h(n + 1)[n]
    BY <2>1, RoundsUnique
  <2>3. n \in 0 .. (n + 1) - 1
    OBVIOUS
  <2>4. h(n + 1)[n + 1] = g[h(n + 1)[n]]
    BY <2>1, <2>3 DEF Rounds
  <2> QED
    BY <2>2, <2>4
<1> HIDE DEF f
<1> QED
  BY <1>2, <1>3, <1>4

(* The same by name, for proofs about text.                                *)
Iterated(A, a, g) ==
  \E f \in [Nat -> A] : f[0] = a /\ \A n \in Nat : f[n + 1] = g[f[n]]

LEMMA Iterates ==
  ASSUME NEW A, NEW a \in A, NEW g \in [A -> A]
  PROVE  Iterated(A, a, g)
BY IterationExists DEF Iterated

=============================================================================
