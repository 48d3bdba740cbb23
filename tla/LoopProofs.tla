----------------------------- MODULE LoopProofs -----------------------------
(***************************************************************************)
(* What a loop computes: a recursive function over 0..n, each of whose     *)
(* values is a step from the one before.                                   *)
(***************************************************************************)
EXTENDS Integers, FiniteSetTheorems, WellFoundedInduction, TLAPS

(* A nonempty set of natural numbers has a least element. *)
LEMMA Least ==
  ASSUME NEW T \in SUBSET Nat, T # {}
  PROVE  \E k \in T : \A j \in T : k <= j
<1> DEFINE U == {0..k : k \in T}
<1>1. U \subseteq FiniteSubsetsOf(Nat)
  <2>1. \A k \in T : 0..k \subseteq Nat /\ IsFiniteSet(0..k)
    BY FS_Interval
  <2>2. QED
    BY <2>1 DEF FiniteSubsetsOf
<1>2. IsWellFoundedOn(StrictSubsetOrdering(Nat), FiniteSubsetsOf(Nat))
  BY FS_StrictSubsetOrderingWellFounded
<1>3. U # {}
  OBVIOUS
<1> HIDE DEF U
<1>4. PICK x \in U : \A y \in U : <<y, x>> \notin StrictSubsetOrdering(Nat)
  BY <1>1, <1>2, <1>3, WFMin
<1>5. PICK k \in T : x = 0..k
  BY DEF U
<1>6. ASSUME NEW j \in T, ~ (k <= j)
      PROVE  FALSE
  <2>1. 0..j \in U
    BY DEF U
  <2>2. 0..j \subseteq 0..k /\ k \in 0..k /\ k \notin 0..j
    BY <1>6
  <2>3. 0..j \in SUBSET Nat /\ 0..k \in SUBSET Nat
    OBVIOUS
  <2>4. 0..j # 0..k
    BY <2>2
  <2>5. <<0..j, 0..k>> \in StrictSubsetOrdering(Nat)
    BY <2>2, <2>3, <2>4, Zenon DEF StrictSubsetOrdering
  <2>6. QED
    BY <1>4, <1>5, <2>1, <2>5
<1>7. QED
  BY <1>6

(* Induction up to n, for a set. *)
LEMMA Induction ==
  ASSUME NEW n \in Nat, NEW I, 0 \in I, \A i \in I : i \in 0..(n - 1) => i + 1 \in I
  PROVE  0..n \subseteq I
<1> DEFINE T == (0..n) \ I
<1>1. SUFFICES ASSUME T # {} PROVE FALSE
  OBVIOUS
<1>2. T \in SUBSET Nat
  OBVIOUS
<1> HIDE DEF T
<1>3. PICK k \in T : \A j \in T : k <= j
  BY <1>1, <1>2, Least
<1>4. k \in 1..n /\ k \notin I
  BY DEF T
<1>5. k - 1 \in 0..(n - 1) /\ k - 1 \notin T
  BY <1>2, <1>3, <1>4
<1>6. k - 1 \in I
  BY <1>5 DEF T
<1>7. (k - 1) + 1 \in I
  BY <1>5, <1>6
<1>8. QED
  BY <1>4, <1>7

AreSteps(F, n, S) == F \in [1..n -> [S -> S]]

Iterates(f, x, F, n, S) ==
  f \in [0..n -> S] /\ f[0] = x /\ \A i \in 1..n : f[i] = F[i][f[i - 1]]

(* n steps, the i-th by the i-th function, are the values of a function. *)
LEMMA Iteration ==
  ASSUME NEW S, NEW x \in S, NEW n \in Nat, NEW F, AreSteps(F, n, S)
  PROVE  \E f : Iterates(f, x, F, n, S)
<1> DEFINE Upto(m) == \E f : Iterates(f, x, F, m, S)
           I == {m \in 0..n : Upto(m)}
<1>1. 0 \in I
  <2> DEFINE f0 == [i \in 0..0 |-> x]
  <2>1. f0 \in [0..0 -> S] /\ f0[0] = x /\ \A i \in 1..0 : f0[i] = F[i][f0[i - 1]]
    OBVIOUS
  <2> HIDE DEF f0
  <2>2. Upto(0)
    BY <2>1 DEF Iterates
  <2>3. QED
    BY <2>2
<1>2. ASSUME NEW m \in I, m \in 0..(n - 1)
      PROVE  m + 1 \in I
  <2>1. PICK f : Iterates(f, x, F, m, S)
    BY <1>2
  <2>2. m + 1 \in 1..n /\ f[m] \in S /\ F[m + 1] \in [S -> S]
    BY <1>2, <2>1 DEF AreSteps, Iterates
  <2> DEFINE g == [i \in 0..(m + 1) |-> IF i = m + 1 THEN F[m + 1][f[m]] ELSE f[i]]
  <2>3. g \in [0..(m + 1) -> S]
    <3>1. F[m + 1][f[m]] \in S
      BY <2>2
    <3>2. \A i \in 0..(m + 1) : i # m + 1 => i \in 0..m
      BY <1>2
    <3> QED BY <2>1, <3>1, <3>2 DEF Iterates
  <2>4. g[0] = x
    BY <1>2, <2>1 DEF Iterates
  <2>5. \A i \in 1..(m + 1) : g[i] = F[i][g[i - 1]]
    BY <1>2, <2>1 DEF Iterates
  <2> HIDE DEF g
  <2>6. Upto(m + 1)
    BY <2>3, <2>4, <2>5 DEF Iterates
  <2>7. QED
    BY <2>2, <2>6
<1> HIDE DEF I
<1>3. 0..n \subseteq I
  BY <1>1, <1>2, Induction
<1>4. QED
  BY <1>3 DEF I
=============================================================================
