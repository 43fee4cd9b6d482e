----------------------------- MODULE FoldFacts -----------------------------
(* Folds over sequences, reasoned about without induction: what is false of  *)
(* some number is false of a least one, so a fold has a value after every    *)
(* place of its sequence, and each follows from the one before.              *)
EXTENDS Integers, Sequences, SequencesExt, FiniteSetsExt, WellFoundedInduction, TLAPS

\* A set of numbers has a least element.
LEMMA LeastNat ==
  ASSUME NEW T \in SUBSET Nat, T # {}
  PROVE  \E n \in T : \A m \in T : n <= m
  <1>1. PICK x \in T : \A y \in T : ~(<<y, x>> \in OpToRel(<, Nat))
    BY NatLessThanWellFounded, WFMin
  <1>2. ASSUME NEW y \in T PROVE x <= y
    <2>1. ~(<<y, x>> \in {ss \in Nat \X Nat : ss[1] < ss[2]})
      BY <1>1 DEF OpToRel
    <2>2. <<y, x>> \in Nat \X Nat
      OBVIOUS
    <2>3. ~(y < x)
      BY <2>1, <2>2
    <2>. QED BY <2>3
  <1>. QED BY <1>2

\* What holds of 0 and passes from k to k + 1 holds up to n.
LEMMA Upto ==
  ASSUME NEW n \in Nat, NEW T, 0 \in T,
         \A k \in 0..(n - 1) : k \in T => k + 1 \in T
  PROVE  \A k \in 0..n : k \in T
  <1>. SUFFICES ASSUME NEW k \in 0..n, k \notin T PROVE FALSE
    OBVIOUS
  <1>. DEFINE B == {i \in 0..n : i \notin T}
  <1>1. PICK i \in B : \A j \in B : i <= j
    <2>1. B \in SUBSET Nat /\ B # {} OBVIOUS
    <2>. QED BY <2>1, LeastNat
  <1>2. i \in 0..n /\ i \notin T /\ i # 0
    BY <1>1
  <1>3. i - 1 \in 0..n /\ i - 1 \notin B
    BY <1>1, <1>2
  <1>4. i - 1 \in T /\ i - 1 \in 0..(n - 1)
    BY <1>2, <1>3
  <1>. QED BY <1>2, <1>4

\* Max and Min are the elements their definitions choose.
LEMMA MaxOf ==
  ASSUME NEW S, NEW x \in S, S \subseteq Int, \A y \in S : y <= x
  PROVE  Max(S) = x
  <1>1. Max(S) \in S /\ \A y \in S : Max(S) >= y
    BY DEF Max
  <1>2. Max(S) >= x /\ Max(S) <= x
    BY <1>1
  <1>3. Max(S) \in Int /\ x \in Int
    BY <1>1
  <1>. QED BY <1>2, <1>3

LEMMA MinOf ==
  ASSUME NEW S \in SUBSET Nat, S # {}
  PROVE  Min(S) \in S /\ \A y \in S : Min(S) <= y
  BY LeastNat DEF Min

\* A non-empty set of numbers below a bound has a greatest element.
LEMMA MaxUpto ==
  ASSUME NEW n \in Nat, NEW S \in SUBSET (1..n), S # {}
  PROVE  Max(S) \in S /\ \A y \in S : y <= Max(S)
  <1>. DEFINE B == {k \in 0..n : \A y \in S : y <= k}
  <1>1. PICK k \in B : \A j \in B : k <= j
    <2>1. B \in SUBSET Nat /\ n \in B OBVIOUS
    <2>. QED BY <2>1, LeastNat
  <1>2. k \in S
    <2>. SUFFICES ASSUME k \notin S PROVE FALSE OBVIOUS
    <2>1. PICK y \in S : TRUE OBVIOUS
    <2>2. k \in 1..n BY <2>1, <1>1
    <2>3. k - 1 \in 0..n BY <2>2
    <2>4. \A z \in S : z <= k - 1 BY <1>1, <2>2
    <2>. QED BY <2>3, <2>4, <1>1, <2>2
  <1>. QED BY <1>1, <1>2 DEF Max

\* g folds the table F from base over the places of every set of 1..n, the
\* highest place last.
IsFold(g, n, W, base, F) ==
    /\ g \in [SUBSET (1..n) -> W]
    /\ g[{}] = base
    /\ \A s \in SUBSET (1..n) : s # {} => g[s] = F[<<g[s \ {Max(s)}], Max(s)>>]

\* The same of a function that may leave W.
FoldsIn(it, n, W, base, F) ==
    /\ it[{}] = base
    /\ \A s \in SUBSET (1..n) : s # {} /\ it[s \ {Max(s)}] \in W =>
           it[s] = F[<<it[s \ {Max(s)}], Max(s)>>]

\* The values of a fold over 1..n after 0, 1, ..., n places; out is the last.
IsTrace(h, n, W, base, F, out) ==
    /\ h \in [0..n -> W]
    /\ h[0] = base /\ h[n] = out
    /\ \A k \in 0..(n - 1) : h[k + 1] = F[<<h[k], k + 1>>]

\* The function that a fold chooses exists, and its values stay in W.
LEMMA FoldExists ==
  ASSUME NEW n \in Nat, NEW W, NEW base \in W, NEW F \in [W \X (1..n) -> W]
  PROVE  \E g : IsFold(g, n, W, base, F)
  <1>. DEFINE Sol(k, g) == \A s \in SUBSET (1..k) :
                 g[s] = IF s = {} THEN base ELSE F[<<g[s \ {Max(s)}], Max(s)>>]
              T == {k \in 0..n : \E g \in [SUBSET (1..k) -> W] : Sol(k, g)}
  <1>1. 0 \in T
    <2>1. [s \in SUBSET (1..0) |-> base] \in [SUBSET (1..0) -> W] OBVIOUS
    <2>2. \A s \in SUBSET (1..0) : s = {} OBVIOUS
    <2>3. Sol(0, [s \in SUBSET (1..0) |-> base]) BY <2>2
    <2>4. 0 \in 0..n OBVIOUS
    <2>. HIDE DEF Sol
    <2>. QED BY <2>1, <2>3, <2>4
  <1>2. ASSUME NEW k \in 0..(n - 1), k \in T PROVE k + 1 \in T
    <2>1. PICK g \in [SUBSET (1..k) -> W] : Sol(k, g) BY <1>2
    <2>. DEFINE h == [s \in SUBSET (1..(k + 1)) |->
                        IF k + 1 \in s THEN F[<<g[s \ {k + 1}], k + 1>>] ELSE g[s]]
    <2>2. k \in Nat /\ k + 1 \in 1..n OBVIOUS
    <2>3. ASSUME NEW s \in SUBSET (1..(k + 1))
          PROVE  /\ s \ {k + 1} \in SUBSET (1..k)
                 /\ k + 1 \notin s => s \in SUBSET (1..k)
      <3>1. \A x \in 1..(k + 1) : x # k + 1 => x \in 1..k BY <2>2
      <3>. QED BY <3>1
    <2>4. h \in [SUBSET (1..(k + 1)) -> W]
      <3>. SUFFICES ASSUME NEW s \in SUBSET (1..(k + 1))
           PROVE (IF k + 1 \in s THEN F[<<g[s \ {k + 1}], k + 1>>] ELSE g[s]) \in W
        OBVIOUS
      <3>1. CASE k + 1 \in s
        <4>1. g[s \ {k + 1}] \in W BY <2>3
        <4>2. <<g[s \ {k + 1}], k + 1>> \in W \X (1..n) BY <4>1, <2>2
        <4>. QED BY <4>2, <3>1
      <3>2. CASE k + 1 \notin s BY <2>3, <3>2
      <3>. QED BY <3>1, <3>2
    <2>5. Sol(k + 1, h)
      <3>. SUFFICES ASSUME NEW s \in SUBSET (1..(k + 1))
           PROVE  h[s] = IF s = {} THEN base ELSE F[<<h[s \ {Max(s)}], Max(s)>>]
        OBVIOUS
      <3>1. CASE k + 1 \in s
        <4>1. \A y \in s : y <= k + 1 /\ y \in Int BY <2>2
        <4>2. Max(s) = k + 1 BY <4>1, <3>1, MaxOf
        <4>3. s \ {k + 1} \in SUBSET (1..(k + 1)) /\ k + 1 \notin s \ {k + 1} BY <2>3
        <4>4. h[s \ {k + 1}] = g[s \ {k + 1}] BY <4>3
        <4>5. h[s] = F[<<g[s \ {k + 1}], k + 1>>] BY <3>1
        <4>. QED BY <4>2, <4>4, <4>5, <3>1
      <3>2. CASE k + 1 \notin s
        <4>1. s \in SUBSET (1..k) BY <2>3, <3>2
        <4>2. h[s] = g[s] BY <3>2
        <4>3. CASE s = {} BY <4>1, <4>2, <2>1, <4>3
        <4>4. CASE s # {}
          <5>1. s \ {Max(s)} \in SUBSET (1..(k + 1)) /\ k + 1 \notin s \ {Max(s)}
            BY <3>2
          <5>2. h[s \ {Max(s)}] = g[s \ {Max(s)}] BY <5>1
          <5>3. g[s] = F[<<g[s \ {Max(s)}], Max(s)>>] BY <4>1, <4>4, <2>1
          <5>. QED BY <5>2, <5>3, <4>2, <4>4
        <4>. QED BY <4>3, <4>4
      <3>. QED BY <3>1, <3>2
    <2>. HIDE DEF h, Sol
    <2>. QED BY <2>2, <2>4, <2>5
  <1>3. n \in T
    <2>. HIDE DEF T
    <2>1. \A k \in 0..n : k \in T BY <1>1, <1>2, Upto
    <2>. QED BY <2>1
  <1>4. PICK g \in [SUBSET (1..n) -> W] : Sol(n, g) BY <1>3
  <1>5. g[{}] = base BY <1>4
  <1>6. IsFold(g, n, W, base, F) BY <1>4, <1>5 DEF IsFold
  <1>. QED BY <1>6

\* Without its greatest element 1..n is 1..(n - 1).
LEMMA InitialSegment ==
  ASSUME NEW n \in Nat, NEW k \in 0..(n - 1)
  PROVE  /\ k + 1 \in 1..n
         /\ 1..(k + 1) \in SUBSET (1..n)
         /\ 1..(k + 1) # {}
         /\ Max(1..(k + 1)) = k + 1
         /\ (1..(k + 1)) \ {Max(1..(k + 1))} = 1..k
  <1>0. k + 1 \in 1..n /\ k + 1 \in 1..(k + 1)
    OBVIOUS
  <1>1. (1..(k + 1)) \subseteq Int /\ (1..(k + 1)) \subseteq (1..n)
    OBVIOUS
  <1>2. Max(1..(k + 1)) = k + 1
    <2>1. \A y \in 1..(k + 1) : y <= k + 1 OBVIOUS
    <2>. QED BY <1>0, <1>1, <2>1, MaxOf
  <1>3. (1..(k + 1)) \ {k + 1} = 1..k OBVIOUS
  <1>. QED BY <1>0, <1>1, <1>2, <1>3

\* A fold is the last value of its trace.
LEMMA FoldTrace ==
  ASSUME NEW n \in Nat, NEW W, NEW base \in W, NEW F \in [W \X (1..n) -> W], NEW it,
         FoldsIn(it, n, W, base, F)
  PROVE  \E h : IsTrace(h, n, W, base, F, it[1..n])
  <1>. DEFINE h == [k \in 0..n |-> it[1..k]]
              T == {k \in 0..n : it[1..k] \in W}
  <1>1. 1..0 = {}
    OBVIOUS
  <1>2. ASSUME NEW k \in 0..(n - 1), it[1..k] \in W
        PROVE  it[1..(k + 1)] = F[<<it[1..k], k + 1>>] /\ it[1..(k + 1)] \in W
    <2>. DEFINE s == 1..(k + 1)
    <2>1. /\ k + 1 \in 1..n /\ s \in SUBSET (1..n) /\ s # {}
          /\ Max(s) = k + 1 /\ s \ {Max(s)} = 1..k
      BY InitialSegment
    <2>. HIDE DEF s
    <2>2. it[s] = F[<<it[1..k], k + 1>>]
      BY <1>2, <2>1 DEF FoldsIn
    <2>3. <<it[1..k], k + 1>> \in W \X (1..n)
      BY <1>2, <2>1
    <2>4. it[s] \in W
      BY <2>2, <2>3
    <2>. QED BY <2>2, <2>4 DEF s
  <1>3. \A k \in 0..n : k \in T
    <2>1. 0 \in T BY <1>1 DEF FoldsIn
    <2>2. ASSUME NEW k \in 0..(n - 1), k \in T PROVE k + 1 \in T
      <3>1. it[1..k] \in W BY <2>2
      <3>2. it[1..(k + 1)] \in W BY <3>1, <1>2
      <3>3. k + 1 \in 0..n OBVIOUS
      <3>. QED BY <3>2, <3>3
    <2>. HIDE DEF T
    <2>. QED BY <2>1, <2>2, Upto
  <1>4. h \in [0..n -> W] BY <1>3
  <1>5. h[0] = base /\ it[1..n] = h[n] BY <1>1 DEF FoldsIn
  <1>6. \A k \in 0..(n - 1) : h[k + 1] = F[<<h[k], k + 1>>]
    BY <1>2, <1>3
  <1>. HIDE DEF h
  <1>7. IsTrace(h, n, W, base, F, it[1..n]) BY <1>4, <1>5, <1>6 DEF IsTrace
  <1>. QED BY <1>5, <1>7
=============================================================================
