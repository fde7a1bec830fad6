----------------------------- MODULE FoldProofs ------------------------------
(***************************************************************************)
(* What a loop keeps.  The loops of the code are written with FoldLeft and *)
(* FoldSet; these lemmas say that the recursive definitions of these have  *)
(* a value, and are what each proof about such a loop starts from.         *)
(***************************************************************************)
EXTENDS Integers, Sequences, FiniteSets, SequencesExt, FiniteSetTheorems,
        WellFoundedInduction, TLAPS

\* A set of naturals that has an element has a least one.
LEMMA LeastNatural ==
    ASSUME NEW T \in SUBSET Nat, T # {}
    PROVE  \E x \in T : \A y \in T : x <= y
<1>1. \E x \in T : \A y \in T : ~ (<< y, x >> \in OpToRel(<, Nat))
  BY WFMin, NatLessThanWellFounded
<1>2. PICK x \in T : \A y \in T : ~ (<< y, x >> \in OpToRel(<, Nat))
  BY <1>1
<1>3. \A y \in T : ~ (y < x)
  BY <1>2 DEF OpToRel
<1> QED
  BY <1>3

\* What holds of 0 and passes from each number below n to the next holds of n.
LEMMA UpTo ==
    ASSUME NEW n \in Nat, NEW P \in SUBSET Nat, 0 \in P,
           \A k \in P : k < n => k + 1 \in P
    PROVE  \A k \in 0..n : k \in P
<1> DEFINE T == {k \in 0..n : k \notin P}
<1> SUFFICES ASSUME T # {} PROVE FALSE
  OBVIOUS
<1>1. T \in SUBSET Nat
  OBVIOUS
<1>2. PICK x \in T : \A y \in T : x <= y
  <2> HIDE DEF T
  <2> QED BY <1>1, LeastNatural
<1>3. x # 0 /\ x \in 0..n
  OBVIOUS
<1>4. x - 1 \in 0..n /\ x - 1 \notin T
  BY <1>2, <1>3
<1>5. x - 1 \in P
  BY <1>4
<1> QED
  BY <1>3, <1>4, <1>5, x \in T

\* The maximum of a set of numbers up to n + 1 that has n + 1 in it.
LEMMA MaxIsLast ==
    ASSUME NEW n \in Nat, NEW s \in SUBSET (1..(n + 1)), n + 1 \in s
    PROVE  Max(s) = n + 1
<1>1. \A y \in s : n + 1 >= y
  OBVIOUS
<1>2. \A x \in s : (\A y \in s : x >= y) => x = n + 1
  BY <1>1
<1> QED
  BY <1>1, <1>2 DEF Max

\* The least element of a set of naturals.
LEMMA MinIsLeast ==
    ASSUME NEW T \in SUBSET Nat, T # {}
    PROVE  Min(T) \in T /\ \A y \in T : Min(T) <= y
<1>1. PICK x \in T : \A y \in T : x <= y
  BY LeastNatural
<1> QED
  BY <1>1 DEF Min

\* The greatest element of a set of numbers up to n.
LEMMA MaxIsGreatest ==
    ASSUME NEW n \in Nat, NEW T \in SUBSET (1..n), T # {}
    PROVE  Max(T) \in T /\ \A y \in T : y <= Max(T)
<1> DEFINE D == {d \in 0..n : n - d \in T}
<1>1. D \in SUBSET Nat
  OBVIOUS
<1>2. \A x \in T : n - x \in D
  OBVIOUS
<1>3. PICK d \in D : \A y \in D : d <= y
  <2> HIDE DEF D
  <2> QED BY <1>1, <1>2, LeastNatural
<1>4. n - d \in T /\ \A y \in T : n - d >= y
  <2>1. d \in 0..n /\ n - d \in T
    OBVIOUS
  <2>2. \A y \in T : d <= n - y
    <3> HIDE DEF D
    <3> QED BY <1>2, <1>3
  <2> QED
    BY <2>1, <2>2
<1>5. Max(T) \in T /\ \A y \in T : Max(T) >= y
  BY <1>4 DEF Max
<1> QED
  BY <1>5

\* f is what a fold of 1..k by step from base defines.
IsFold(f, base, step, k) ==
    \A s \in SUBSET (1..k) :
        f[s] = IF s = {} THEN base ELSE step[Max(s)][f[s \ {Max(s)}]]

\* The function in FoldLeft's definition exists.
LEMMA FoldExists ==
    ASSUME NEW St, NEW base \in St, NEW n \in Nat,
           NEW step \in [1..n -> [St -> St]]
    PROVE  \E f \in [SUBSET (1..n) -> St] : IsFold(f, base, step, n)
<1> DEFINE Is(f, k) == IsFold(f, base, step, k)
           P == {k \in 0..n : \E f \in [SUBSET (1..k) -> St] : Is(f, k)}
<1> USE DEF IsFold
<1>1. 0 \in P
  <2> DEFINE g == [s \in SUBSET (1..0) |-> base]
  <2>1. g \in [SUBSET (1..0) -> St]
    OBVIOUS
  <2>2. \A s \in SUBSET (1..0) : s = {}
    OBVIOUS
  <2>3. Is(g, 0)
    BY <2>2
  <2>4. 0 \in 0..n
    OBVIOUS
  <2> QED
    <3> HIDE DEF g, Is
    <3> QED BY <2>1, <2>3, <2>4
<1>2. ASSUME NEW k \in P, k < n
      PROVE  k + 1 \in P
  <2>1. PICK f \in [SUBSET (1..k) -> St] : Is(f, k)
    OBVIOUS
  <2>2. k \in Nat /\ k + 1 \in 1..n
    BY <1>2
  <2> DEFINE g == [s \in SUBSET (1..(k + 1)) |->
                     IF k + 1 \in s THEN step[k + 1][f[s \ {k + 1}]] ELSE f[s]]
  <2>3. \A s \in SUBSET (1..(k + 1)) : s \ {k + 1} \in SUBSET (1..k)
    BY <2>2
  <2>4. \A s \in SUBSET (1..(k + 1)) : k + 1 \notin s => s \in SUBSET (1..k)
    BY <2>2
  <2>5. g \in [SUBSET (1..(k + 1)) -> St]
    <3>1. ASSUME NEW s \in SUBSET (1..(k + 1))
          PROVE  (IF k + 1 \in s THEN step[k + 1][f[s \ {k + 1}]] ELSE f[s]) \in St
      <4>1. CASE k + 1 \in s
        BY <4>1, <2>2, <2>3
      <4>2. CASE k + 1 \notin s
        BY <4>2, <2>4
      <4> QED BY <4>1, <4>2
    <3> QED BY <3>1
  <2>6. ASSUME NEW s \in SUBSET (1..(k + 1))
        PROVE  g[s] = IF s = {} THEN base ELSE step[Max(s)][g[s \ {Max(s)}]]
    <3>1. CASE k + 1 \in s
      <4>1. Max(s) = k + 1
        BY <2>2, <3>1, MaxIsLast
      <4>2. s \ {k + 1} \in SUBSET (1..(k + 1)) /\ k + 1 \notin s \ {k + 1}
        OBVIOUS
      <4>3. g[s \ {k + 1}] = f[s \ {k + 1}]
        BY <4>2
      <4> QED
        BY <3>1, <4>1, <4>3
    <3>2. CASE k + 1 \notin s /\ s # {}
      <4>1. g[s] = f[s] /\ s \in SUBSET (1..k)
        BY <3>2, <2>4
      <4>2. g[s \ {Max(s)}] = f[s \ {Max(s)}]
        BY <3>2
      <4> QED
        BY <4>1, <4>2, <3>2, <2>1
    <3>3. CASE s = {}
      BY <3>3, <2>1
    <3> QED
      BY <3>1, <3>2, <3>3
  <2>7. Is(g, k + 1)
    BY <2>6
  <2>8. k + 1 \in 0..n
    BY <2>2
  <2> QED
    <3> HIDE DEF g, Is
    <3> QED BY <2>5, <2>7, <2>8
<1>3. n \in 0..n /\ P \in SUBSET Nat
  OBVIOUS
<1>4. n \in P
  <2> HIDE DEF P
  <2> QED BY <1>1, <1>2, <1>3, UpTo
<1> QED
  <2> HIDE DEF IsFold
  <2> QED BY <1>4

\* The first k + 1 numbers without their maximum are the first k.
LEMMA FirstButLast ==
    ASSUME NEW k \in Nat
    PROVE  /\ 1..0 = {} /\ 1..(k + 1) # {} /\ Max(1..(k + 1)) = k + 1
           /\ (1..(k + 1)) \ {k + 1} = 1..k
  BY MaxIsLast

\* What a function on the sets of indices has at {} and passes on from the
\* first k to the first k + 1 it has at the whole.
LEMMA FoldKeeps ==
    ASSUME NEW n \in Nat, NEW iter, NEW St, iter[{}] \in St[0],
           \A k \in 0..(n - 1) : iter[1..k] \in St[k] => iter[1..(k + 1)] \in St[k + 1]
    PROVE  iter[1..n] \in St[n]
<1> DEFINE P == {k \in 0..n : iter[1..k] \in St[k]}
<1>1. 0 \in P
  BY FirstButLast
<1>2. ASSUME NEW k \in P, k < n PROVE k + 1 \in P
  <2>1. k \in 0..(n - 1) /\ iter[1..k] \in St[k]
    BY <1>2
  <2>2. iter[1..(k + 1)] \in St[k + 1]
    <3> HIDE DEF P
    <3> QED BY <2>1
  <2> QED BY <2>1, <2>2
<1>3. n \in P
  <2>1. P \in SUBSET Nat /\ n \in 0..n OBVIOUS
  <2> HIDE DEF P
  <2> QED BY <1>1, <1>2, <2>1, UpTo
<1> QED
  BY <1>3

-----------------------------------------------------------------------------
(* Loops over a set, written with FoldSet.                                 *)

AnyOf(s) == CHOOSE x \in s : TRUE

\* f is what a fold of the subsets of S with up to k elements by step defines.
IsSetFold(f, base, step, S, k) ==
    \A s \in SUBSET S : Cardinality(s) <= k =>
        f[s] = IF s = {} THEN base ELSE step[AnyOf(s)][f[s \ {AnyOf(s)}]]

\* One element fewer.
LEMMA OneLess ==
    ASSUME NEW S, IsFiniteSet(S)
    PROVE  \A s \in SUBSET S :
             /\ Cardinality(s) \in Nat
             /\ s # {} => /\ AnyOf(s) \in S /\ s \ {AnyOf(s)} \in SUBSET S
                          /\ Cardinality(s \ {AnyOf(s)}) = Cardinality(s) - 1
             /\ Cardinality(s) = 0 <=> s = {}
<1> SUFFICES ASSUME NEW s \in SUBSET S
             PROVE  /\ Cardinality(s) \in Nat
                    /\ s # {} => /\ AnyOf(s) \in S /\ s \ {AnyOf(s)} \in SUBSET S
                                 /\ Cardinality(s \ {AnyOf(s)}) = Cardinality(s) - 1
                    /\ Cardinality(s) = 0 <=> s = {}
  OBVIOUS
<1>1. IsFiniteSet(s) /\ Cardinality(s) \in Nat
  BY FS_Subset, FS_CardinalityType
<1>2. s # {} => AnyOf(s) \in s
  BY DEF AnyOf
<1> QED
  BY <1>1, <1>2, FS_RemoveElement, FS_EmptySet

\* The function in FoldSet's definition exists.
LEMMA SetFoldExists ==
    ASSUME NEW S, IsFiniteSet(S), NEW St, NEW base \in St,
           NEW step \in [S -> [St -> St]]
    PROVE  \E f \in [SUBSET S -> St] : IsSetFold(f, base, step, S, Cardinality(S))
<1> DEFINE Is(f, k) == IsSetFold(f, base, step, S, k)
           n == Cardinality(S)
           P == {k \in Nat : \E f \in [SUBSET S -> St] : Is(f, k)}
<1>0. /\ n \in Nat
      /\ \A s \in SUBSET S :
           /\ Cardinality(s) \in Nat
           /\ s # {} => /\ AnyOf(s) \in S /\ s \ {AnyOf(s)} \in SUBSET S
                        /\ Cardinality(s \ {AnyOf(s)}) = Cardinality(s) - 1
           /\ Cardinality(s) = 0 <=> s = {}
  BY OneLess
<1>1. 0 \in P
  <2> DEFINE g == [s \in SUBSET S |-> base]
  <2>1. g \in [SUBSET S -> St]
    OBVIOUS
  <2>2. ASSUME NEW s \in SUBSET S, Cardinality(s) <= 0 PROVE s = {}
    <3>1. Cardinality(s) = 0
      <4>1. Cardinality(s) \in Nat
        BY <1>0
      <4> QED BY <4>1, <2>2
    <3> QED BY <1>0, <3>1
  <2>3. Is(g, 0)
    BY <2>2 DEF IsSetFold
  <2> QED
    <3> HIDE DEF g, Is
    <3> QED BY <2>1, <2>3
<1>2. ASSUME NEW k \in P PROVE k + 1 \in P
  <2>1. PICK f \in [SUBSET S -> St] : Is(f, k)
    OBVIOUS
  <2>2. k \in Nat
    OBVIOUS
  <2> DEFINE g == [s \in SUBSET S |-> IF s = {} THEN base
                                      ELSE step[AnyOf(s)][f[s \ {AnyOf(s)}]]]
  <2>3. g \in [SUBSET S -> St]
    <3>1. ASSUME NEW s \in SUBSET S, s # {}
          PROVE  step[AnyOf(s)][f[s \ {AnyOf(s)}]] \in St
      <4>1. AnyOf(s) \in S /\ s \ {AnyOf(s)} \in SUBSET S
        BY <1>0, <3>1
      <4> QED BY <4>1
    <3> QED BY <3>1
  <2>4. ASSUME NEW s \in SUBSET S, Cardinality(s) <= k PROVE g[s] = f[s]
    BY <2>1, <2>4 DEF IsSetFold
  <2>5. ASSUME NEW s \in SUBSET S, Cardinality(s) <= k + 1
        PROVE  g[s] = IF s = {} THEN base ELSE step[AnyOf(s)][g[s \ {AnyOf(s)}]]
    <3>1. CASE s = {}
      BY <3>1
    <3>2. CASE s # {}
      <4>1. s \ {AnyOf(s)} \in SUBSET S /\ Cardinality(s \ {AnyOf(s)}) <= k
        <5>1. /\ Cardinality(s) \in Nat /\ s \ {AnyOf(s)} \in SUBSET S
              /\ Cardinality(s \ {AnyOf(s)}) = Cardinality(s) - 1
          BY <3>2, <1>0
        <5> QED BY <5>1, <2>2, <2>5
      <4>2. g[s \ {AnyOf(s)}] = f[s \ {AnyOf(s)}]
        <5> HIDE DEF g
        <5> QED BY <4>1, <2>4
      <4> QED BY <3>2, <4>2
    <3> QED BY <3>1, <3>2
  <2>6. Is(g, k + 1)
    <3> HIDE DEF g
    <3> QED BY <2>5 DEF IsSetFold
  <2> QED
    <3> HIDE DEF g, Is
    <3> QED BY <2>2, <2>3, <2>6
<1>3. n \in P
  <2>1. P \in SUBSET Nat
    OBVIOUS
  <2>2. n \in 0..n
    BY <1>0
  <2> HIDE DEF P, n
  <2> QED BY <1>0, <1>1, <1>2, <2>1, <2>2, UpTo
<1> QED
  <2>1. \E f \in [SUBSET S -> St] : Is(f, n)
    <3> HIDE DEF Is, n
    <3> QED BY <1>3
  <2> QED BY <2>1

\* What a function on the subsets of S has at {} and passes on to each set from
\* the set without one of its elements it has at S.
LEMMA SetFoldKeeps ==
    ASSUME NEW S, IsFiniteSet(S), NEW iter, NEW St, iter[{}] \in St,
           \A s \in SUBSET S : s # {} /\ iter[s \ {AnyOf(s)}] \in St => iter[s] \in St
    PROVE  iter[S] \in St
<1> DEFINE P == {k \in Nat : \A s \in SUBSET S : Cardinality(s) = k => iter[s] \in St}
<1>0. \A s \in SUBSET S :
        /\ Cardinality(s) \in Nat
        /\ s # {} => /\ AnyOf(s) \in S /\ s \ {AnyOf(s)} \in SUBSET S
                     /\ Cardinality(s \ {AnyOf(s)}) = Cardinality(s) - 1
        /\ Cardinality(s) = 0 <=> s = {}
  BY OneLess
<1>1. 0 \in P
  BY <1>0
<1>2. ASSUME NEW k \in P PROVE k + 1 \in P
  <2>1. k \in Nat /\ \A s \in SUBSET S : Cardinality(s) = k => iter[s] \in St
    OBVIOUS
  <2>2. ASSUME NEW s \in SUBSET S, Cardinality(s) = k + 1 PROVE iter[s] \in St
    <3>1. s # {}
      <4>1. Cardinality(s) = 0 <=> s = {}
        BY <1>0
      <4> QED BY <4>1, <2>1, <2>2
    <3>2. s \ {AnyOf(s)} \in SUBSET S /\ Cardinality(s \ {AnyOf(s)}) = k
      <4>1. /\ Cardinality(s) \in Nat /\ s \ {AnyOf(s)} \in SUBSET S
            /\ Cardinality(s \ {AnyOf(s)}) = Cardinality(s) - 1
        BY <3>1, <1>0
      <4> QED BY <4>1, <2>1, <2>2
    <3> QED BY <2>1, <3>1, <3>2
  <2> QED BY <2>1, <2>2
<1>3. Cardinality(S) \in P
  <2>1. P \in SUBSET Nat OBVIOUS
  <2>2. Cardinality(S) \in Nat BY <1>0
  <2>3. Cardinality(S) \in 0..Cardinality(S) BY <2>2
  <2> HIDE DEF P
  <2> QED BY <1>1, <1>2, <2>1, <2>2, <2>3, UpTo
<1> QED
  BY <1>3
=============================================================================
