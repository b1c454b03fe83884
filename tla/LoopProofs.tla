---------------------------- MODULE LoopProofs ----------------------------
(***************************************************************************)
(* Loops: what the proofs about caches, batches and closures need to know  *)
(* of recursive functions up to a bound, sums of naturals, and sequences   *)
(* from which an element is removed.  Induction is stated with sets, not   *)
(* with predicates.                                                        *)
(***************************************************************************)
EXTENDS Integers, SequencesExt, WellFoundedInduction, TLAPS

-----------------------------------------------------------------------------
(* Recursion up to a bound                                                  *)

(* A set of naturals has a least element.                                   *)
LEMMA LeastNatural ==
  ASSUME NEW T \in SUBSET Nat, T # {}
  PROVE  \E n \in T : \A m \in T : n <= m
PROOF
  <1>1. PICK n \in T : \A m \in T : ~ (<<m, n>> \in OpToRel(<, Nat))
    BY NatLessThanWellFounded, WFMin
  <1>2. \A m \in T : ~ (m < n)
    BY <1>1 DEF OpToRel
  <1> QED
    BY <1>2

(* What holds at 0 and is handed on holds up to the bound.                  *)
LEMMA UpTo ==
  ASSUME NEW n \in Nat, NEW S, 0 \in S, \A i \in 0 .. n - 1 : i \in S => i + 1 \in S
  PROVE  \A i \in 0 .. n : i \in S
PROOF
  <1> DEFINE T == {i \in 0 .. n : i \notin S}
  <1>1. SUFFICES ASSUME T # {} PROVE FALSE
    OBVIOUS
  <1>2. PICK i \in T : \A m \in T : i <= m
    <2>1. T \in SUBSET Nat
      OBVIOUS
    <2> HIDE DEF T
    <2> QED
      BY <1>1, <2>1, LeastNatural
  <1>3. i \in 1 .. n
    OBVIOUS
  <1>4. i - 1 \notin T
    BY <1>2, <1>3
  <1> QED
    BY <1>3, <1>4

(* The runs of a loop of n rounds over values of D, from x.                 *)
Loops(n, D, x, round) ==
  {f \in [0 .. n -> D] : f[0] = x /\ \A i \in 1 .. n : f[i] = round[i][f[i - 1]]}

LEMMA LoopExists ==
  ASSUME NEW n \in Nat, NEW D, NEW x \in D, NEW round,
         \A i \in 1 .. n, d \in D : round[i][d] \in D
  PROVE  Loops(n, D, x, round) # {}
PROOF
  <1> DEFINE Runs(k, f) == f[0] = x /\ \A i \in 1 .. k : f[i] = round[i][f[i - 1]]
             S == {k \in 0 .. n : \E f \in [0 .. k -> D] : Runs(k, f)}
  <1>1. 0 \in S
    <2> DEFINE f == [i \in 0 .. 0 |-> x]
    <2>1. f \in [0 .. 0 -> D] /\ Runs(0, f)
      OBVIOUS
    <2>2. 0 \in 0 .. n
      OBVIOUS
    <2> HIDE DEF f
    <2> QED
      BY <2>1, <2>2
  <1>2. ASSUME NEW k \in 0 .. n - 1, k \in S
        PROVE  k + 1 \in S
    <2>1. PICK f \in [0 .. k -> D] : Runs(k, f)
      BY <1>2
    <2> DEFINE y == round[k + 1][f[k]]
               g == [i \in 0 .. k + 1 |-> IF i = k + 1 THEN y ELSE f[i]]
    <2>2. y \in D
      <3>1. f[k] \in D /\ k + 1 \in 1 .. n
        OBVIOUS
      <3> QED
        BY <3>1
    <2>3. g \in [0 .. k + 1 -> D]
      BY <2>2
    <2>4. Runs(k + 1, g)
      <3>1. g[0] = x
        BY <2>1
      <3>2. ASSUME NEW i \in 1 .. k + 1
            PROVE  g[i] = round[i][g[i - 1]]
        <4>1. CASE i \in 1 .. k
          <5>1. g[i] = f[i] /\ g[i - 1] = f[i - 1]
            BY <4>1
          <5> QED
            BY <2>1, <4>1, <5>1
        <4>2. CASE i = k + 1
          <5>1. g[i] = y /\ g[i - 1] = f[k]
            BY <4>2
          <5> QED
            BY <4>2, <5>1
        <4> QED
          BY <4>1, <4>2
      <3> HIDE DEF g
      <3> QED
        BY <3>1, <3>2
    <2>5. k + 1 \in 0 .. n
      OBVIOUS
    <2> HIDE DEF g
    <2> QED
      BY <2>3, <2>4, <2>5
  <1>3. n \in S
    <2> HIDE DEF S
    <2>1. \A i \in 0 .. n - 1 : i \in S => i + 1 \in S
      BY <1>2
    <2>2. \A i \in 0 .. n : i \in S
      BY <1>1, <2>1, UpTo
    <2> QED
      BY <2>2
  <1> QED
    BY <1>3 DEF Loops

-----------------------------------------------------------------------------
(* Sequences                                                                *)

(* What is left when the element at a place is removed.                     *)
LEMMA Removed ==
  ASSUME NEW S, NEW s \in Seq(S), NEW i \in 1 .. Len(s)
  PROVE  /\ RemoveAt(s, i) \in Seq(S) /\ Len(RemoveAt(s, i)) = Len(s) - 1
         /\ \A j \in 1 .. i - 1 : RemoveAt(s, i)[j] = s[j]
         /\ \A j \in i .. Len(s) - 1 : RemoveAt(s, i)[j] = s[j + 1]
PROOF
  <1> DEFINE a == SubSeq(s, 1, i - 1)
             b == SubSeq(s, i + 1, Len(s))
  <1>1. a \in Seq(S) /\ Len(a) = i - 1 /\ \A j \in 1 .. i - 1 : a[j] = s[j]
    OBVIOUS
  <1>2. b \in Seq(S) /\ Len(b) = Len(s) - i /\ \A j \in 1 .. Len(s) - i : b[j] = s[i + j]
    OBVIOUS
  <1>3. RemoveAt(s, i) = a \o b
    BY DEF RemoveAt
  <1> HIDE DEF a, b
  <1>4. a \o b \in Seq(S) /\ Len(a \o b) = Len(s) - 1
    <2>1. a \o b \in Seq(S)
      BY <1>1, <1>2
    <2>2. Len(a \o b) = Len(a) + Len(b)
      <3>1. a \in Seq(S) /\ b \in Seq(S)
        BY <1>1, <1>2
      <3> QED
        BY <3>1
    <2>3. Len(s) \in Nat
      OBVIOUS
    <2> QED
      BY <1>1, <1>2, <2>1, <2>2, <2>3
  <1>5. \A j \in 1 .. i - 1 : (a \o b)[j] = s[j]
    BY <1>1, <1>2
  <1>6. \A j \in i .. Len(s) - 1 : (a \o b)[j] = s[j + 1]
    <2> TAKE j \in i .. Len(s) - 1
    <2>1. (a \o b)[j] = b[j - (i - 1)]
      BY <1>1, <1>2
    <2>2. j - (i - 1) \in 1 .. Len(s) - i /\ i + (j - (i - 1)) = j + 1
      OBVIOUS
    <2> QED
      BY <1>2, <2>1, <2>2
  <1> QED
    BY <1>3, <1>4, <1>5, <1>6
=============================================================================
