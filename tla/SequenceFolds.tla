--------------------------- MODULE SequenceFolds ---------------------------
(***************************************************************************)
(* Folding a sequence from the left with a fixed step, as FoldLeft does    *)
(* once its definition is expanded: what the fold returns is the last of a *)
(* sequence of intermediate results, so an invariant of the step holds of  *)
(* it.  Step depends on what it folds into, the element, and up to five    *)
(* values that stay the same throughout (unused ones are any value).       *)
(***************************************************************************)
EXTENDS Naturals, TLAPS, WellFoundedInduction

CONSTANTS
    Step(_, _, _, _, _, _, _),          \* a, b, c, d, e, result so far, element
    Invariant(_, _, _, _, _, _, _, _)   \* a, b, c, d, e, sequence, elements done, result so far

Greatest(s) == CHOOSE x \in s : \A y \in s : x >= y

IsFold(a, b, c, d, e, base, seq, fold) ==
    fold = [s \in SUBSET DOMAIN seq |->
               IF s = {} THEN base
               ELSE Step(a, b, c, d, e, fold[s \ {Greatest(s)}], seq[Greatest(s)])]

Fold(a, b, c, d, e, base, seq) ==
    (CHOOSE fold : IsFold(a, b, c, d, e, base, seq, fold))[DOMAIN seq]

\* A non-empty set of natural numbers has a least element.
LEMMA LeastNat ==
    ASSUME NEW T \in SUBSET Nat, T # {}
    PROVE  \E x \in T : \A y \in T : x <= y
<1>1. IsWellFoundedOn(OpToRel(<, Nat), Nat)
    BY NatLessThanWellFounded
<1>2. PICK x \in T : \A y \in T : ~ (<<y, x>> \in OpToRel(<, Nat))
    BY <1>1, WFMin
<1>3. \A y \in T : ~ (y < x)
    BY <1>2 DEF OpToRel
<1>4. \A y \in T : y \in Nat
    OBVIOUS
<1>5. \A y \in T : x <= y
    BY <1>3, <1>4
<1>. QED
    BY <1>5

\* Induction up to a bound, over a set of numbers.
LEMMA UpTo ==
    ASSUME NEW n \in Nat, NEW T \in SUBSET Nat, 0 \in T,
           \A k \in T : k < n => k + 1 \in T
    PROVE  \A k \in 0..n : k \in T
<1>. SUFFICES ASSUME \E k \in 0..n : k \notin T PROVE FALSE
    OBVIOUS
<1>. DEFINE Out == {k \in 0..n : k \notin T}
<1>0. Out \in SUBSET Nat /\ Out # {}
    OBVIOUS
<1>1. PICK k \in Out : \A j \in Out : k <= j
    <2>. HIDE DEF Out
    <2>. QED
        BY <1>0, LeastNat
<1>2. k # 0 /\ k \in 1..n
    BY <1>1
<1>3. k - 1 \in 0..n /\ k - 1 < n /\ (k - 1) + 1 = k /\ ~ (k <= k - 1)
    BY <1>2
<1>4. k - 1 \in T
    BY <1>1, <1>3
<1>. QED
    BY <1>1, <1>3, <1>4

\* The greatest element of an initial segment, and of a set that contains it.
LEMMA GreatestIs ==
    ASSUME NEW n \in Nat, NEW s \in SUBSET (1..n), n \in s
    PROVE  Greatest(s) = n
<1>1. /\ n \in s /\ \A y \in s : n >= y
      /\ \A x \in s : (\A y \in s : x >= y) => x = n
    OBVIOUS
<1>. QED
    BY <1>1, Zenon DEF Greatest

\* The recursive function that FoldLeft is defined by exists.
LEMMA FoldExists ==
    ASSUME NEW a, NEW b, NEW c, NEW d, NEW e, NEW base, NEW seq,
           NEW n \in Nat, DOMAIN seq = 1..n
    PROVE  \E fold : IsFold(a, b, c, d, e, base, seq, fold)
<1>. DEFINE Upto(k, f) ==
                f = [s \in SUBSET (1..k) |->
                        IF s = {} THEN base
                        ELSE Step(a, b, c, d, e, f[s \ {Greatest(s)}], seq[Greatest(s)])]
            T == {k \in 0..n : \E f : Upto(k, f)}
<1>. HIDE DEF Upto
<1>1. 0 \in T
    <2>1. Upto(0, [s \in SUBSET (1..0) |-> base])
        <3>1. \A s \in SUBSET (1..0) : s = {}
            OBVIOUS
        <3>. QED
            BY <3>1 DEF Upto
    <2>. QED
        BY <2>1
<1>2. ASSUME NEW k \in T, k < n
      PROVE  k + 1 \in T
    <2>1. PICK f : Upto(k, f)
        OBVIOUS
    <2>. DEFINE g == [s \in SUBSET (1..(k + 1)) |->
                         IF k + 1 \in s
                         THEN Step(a, b, c, d, e, f[s \ {k + 1}], seq[k + 1])
                         ELSE f[s]]
    <2>2. ASSUME NEW s \in SUBSET (1..(k + 1))
          PROVE  g[s] = IF s = {} THEN base
                        ELSE Step(a, b, c, d, e, g[s \ {Greatest(s)}], seq[Greatest(s)])
        <3>1. CASE k + 1 \in s
            <4>1. Greatest(s) = k + 1
                BY <3>1, GreatestIs
            <4>2. s \ {k + 1} \in SUBSET (1..(k + 1)) /\ k + 1 \notin s \ {k + 1}
                OBVIOUS
            <4>3. g[s \ {k + 1}] = f[s \ {k + 1}]
                BY <4>2
            <4>. QED
                BY <3>1, <4>1, <4>3
        <3>2. CASE k + 1 \notin s
            <4>1. s \in SUBSET (1..k)
                BY <3>2
            <4>2. s \ {Greatest(s)} \in SUBSET (1..(k + 1)) /\ k + 1 \notin s \ {Greatest(s)}
                BY <3>2
            <4>3. g[s \ {Greatest(s)}] = f[s \ {Greatest(s)}] /\ g[s] = f[s]
                BY <3>2, <4>2
            <4>4. f[s] = IF s = {} THEN base
                         ELSE Step(a, b, c, d, e, f[s \ {Greatest(s)}], seq[Greatest(s)])
                BY <2>1, <4>1 DEF Upto
            <4>. QED
                BY <4>3, <4>4
        <3>. QED
            BY <3>1, <3>2
    <2>3. Upto(k + 1, g)
        <3>. DEFINE h == [s \in SUBSET (1..(k + 1)) |->
                        IF s = {} THEN base
                        ELSE Step(a, b, c, d, e, g[s \ {Greatest(s)}], seq[Greatest(s)])]
        <3>1. DOMAIN g = SUBSET (1..(k + 1)) /\ g = [s \in SUBSET (1..(k + 1)) |-> g[s]]
            OBVIOUS
        <3>. HIDE DEF g
        <3>. QED
            BY <2>2, <3>1 DEF Upto
    <2>. HIDE DEF g
    <2>4. k + 1 \in 0..n
        BY <1>2
    <2>. QED
        BY <2>3, <2>4
<1>3. n \in T
    <2>. HIDE DEF T
    <2>1. T \in SUBSET Nat
        BY DEF T
    <2>2. \A k \in T : k < n => k + 1 \in T
        BY <1>2
    <2>3. \A k \in 0..n : k \in T
        BY <1>1, <2>1, <2>2, UpTo
    <2>. QED
        BY <2>3
<1>. QED
    BY <1>3 DEF Upto, IsFold

\* The fold is the last of the results after 0, 1, 2, ... elements.
LEMMA FoldSteps ==
    ASSUME NEW a, NEW b, NEW c, NEW d, NEW e, NEW base, NEW seq,
           NEW n \in Nat, DOMAIN seq = 1..n
    PROVE  \E after :
              /\ after[0] = base
              /\ \A i \in 1..n : after[i] = Step(a, b, c, d, e, after[i - 1], seq[i])
              /\ Fold(a, b, c, d, e, base, seq) = after[n]
<1>1. PICK fold : /\ IsFold(a, b, c, d, e, base, seq, fold)
                  /\ Fold(a, b, c, d, e, base, seq) = fold[1..n]
    BY FoldExists DEF Fold
<1>. DEFINE after == [i \in 0..n |-> fold[1..i]]
<1>2. \A s \in SUBSET (1..n) :
          fold[s] = IF s = {} THEN base
                    ELSE Step(a, b, c, d, e, fold[s \ {Greatest(s)}], seq[Greatest(s)])
    BY <1>1 DEF IsFold
<1>3. after[0] = base
    <2>1. 1..0 = {} /\ {} \in SUBSET (1..n) /\ 0 \in 0..n
        OBVIOUS
    <2>2. fold[{}] = base
        BY <1>2, <2>1
    <2>. QED
        BY <2>1, <2>2
<1>4. ASSUME NEW i \in 1..n
      PROVE  after[i] = Step(a, b, c, d, e, after[i - 1], seq[i])
    <2>1. 1..i \in SUBSET (1..n) /\ i \in 1..i /\ 1..i # {}
        OBVIOUS
    <2>4. (1..i) \ {i} = 1..(i - 1)
        OBVIOUS
    <2>2. Greatest(1..i) = i
        BY <2>1, GreatestIs
    <2>3. fold[1..i] = Step(a, b, c, d, e, fold[1..(i - 1)], seq[i])
        BY <1>2, <2>1, <2>2, <2>4
    <2>. QED
        BY <2>3
<1>5. after[n] = fold[1..n]
    OBVIOUS
<1>. HIDE DEF after
<1>. QED
    BY <1>1, <1>3, <1>4, <1>5

\* What holds of the start and is preserved by every step holds of the fold.
LEMMA FoldInvariant ==
    ASSUME NEW a, NEW b, NEW c, NEW d, NEW e, NEW base, NEW seq,
           NEW n \in Nat, DOMAIN seq = 1..n,
           Invariant(a, b, c, d, e, seq, 0, base),
           \A i \in 1..n : \A made :
              Invariant(a, b, c, d, e, seq, i - 1, made) =>
                  Invariant(a, b, c, d, e, seq, i, Step(a, b, c, d, e, made, seq[i]))
    PROVE  Invariant(a, b, c, d, e, seq, n, Fold(a, b, c, d, e, base, seq))
<1>1. PICK after : /\ after[0] = base
                   /\ \A i \in 1..n : after[i] = Step(a, b, c, d, e, after[i - 1], seq[i])
                   /\ Fold(a, b, c, d, e, base, seq) = after[n]
    BY FoldSteps
<1>. DEFINE T == {i \in 0..n : Invariant(a, b, c, d, e, seq, i, after[i])}
<1>2. 0 \in T
    BY <1>1
<1>3. ASSUME NEW k \in T, k < n
      PROVE  k + 1 \in T
    <2>1. k + 1 \in 1..n /\ (k + 1) - 1 = k
        BY <1>3
    <2>2. after[k + 1] = Step(a, b, c, d, e, after[k], seq[k + 1])
        BY <1>1, <2>1
    <2>. QED
        BY <2>1, <2>2
<1>4. n \in T
    <2>. HIDE DEF T
    <2>1. T \in SUBSET Nat
        BY DEF T
    <2>2. \A k \in T : k < n => k + 1 \in T
        BY <1>3
    <2>3. \A k \in 0..n : k \in T
        BY <1>2, <2>1, <2>2, UpTo
    <2>. QED
        BY <2>3
<1>. QED
    BY <1>1, <1>4
=============================================================================
