--------------------------- MODULE CompilerProofs ---------------------------
(***************************************************************************)
(* Proofs about the compiler's snapshots, for every set of documents and   *)
(* every history of edits: matching, handles, change sets and plans.       *)
(***************************************************************************)
EXTENDS CompilerProperties, TLAPS, FiniteSetTheorems

-----------------------------------------------------------------------------
(***************************************************************************)
(* Matching.                                                               *)
(***************************************************************************)
FitStep(a, b, c, d, e, taken, fit) ==
    LET left == fit \ ToSet(taken)
    IN  Append(taken, IF left = {} THEN 0 ELSE Min(left))

\* Every seeker so far has a candidate of its own that fits it, or none when
\* those before it have taken all that do.
FitInvariant(a, b, c, d, e, fits, n, taken) ==
    /\ taken \in Seq(Nat) /\ Len(taken) = n
    /\ \A i \in 1..n : taken[i] # 0 => taken[i] \in fits[i]
    /\ \A i, j \in 1..n : taken[i] = taken[j] /\ taken[i] # 0 => i = j
    /\ \A i \in 1..n : taken[i] = 0 => \A x \in fits[i] : \E j \in 1..(i - 1) : taken[j] = x

Fits == INSTANCE SequenceFolds WITH Step <- FitStep, Invariant <- FitInvariant

\* The pass over the offers is a left fold in the form the fold lemmas speak of.
LEMMA FirstFitFolds ==
    ASSUME NEW fits
    PROVE  FirstFit(fits) = Fits!Fold({}, {}, {}, {}, {}, <<>>, fits)
BY Zenon DEF FirstFit, FoldLeft, MapThenFoldSet, Max, Fits!Fold, Fits!IsFold, Fits!Greatest, FitStep

\* The least element of a non-empty set of natural numbers.
LEMMA MinIs ==
    ASSUME NEW T \in SUBSET Nat, T # {}
    PROVE  Min(T) \in T /\ \A x \in T : Min(T) <= x
BY Fits!LeastNat DEF Min

\* Seekers take distinct candidates that fit them, as long as one is left
\* (match_identities).
LEMMA FirstFitIs ==
    ASSUME NEW fits, NEW n \in Nat, DOMAIN fits = 1..n,
           \A i \in 1..n : fits[i] \in SUBSET (Nat \ {0})
    PROVE  /\ FirstFit(fits) \in Seq(Nat) /\ Len(FirstFit(fits)) = n
           /\ DOMAIN FirstFit(fits) = 1..n
           /\ \A i \in 1..n : FirstFit(fits)[i] # 0 => FirstFit(fits)[i] \in fits[i]
           /\ \A i, j \in 1..n :
                 FirstFit(fits)[i] = FirstFit(fits)[j] /\ FirstFit(fits)[i] # 0 => i = j
           /\ \A i \in 1..n : FirstFit(fits)[i] = 0 =>
                 \A x \in fits[i] : \E j \in 1..(i - 1) : FirstFit(fits)[j] = x
<1>1. FitInvariant({}, {}, {}, {}, {}, fits, 0, <<>>)
    BY DEF FitInvariant
<1>2. ASSUME NEW i \in 1..n, NEW made, FitInvariant({}, {}, {}, {}, {}, fits, i - 1, made)
      PROVE  FitInvariant({}, {}, {}, {}, {}, fits, i, FitStep({}, {}, {}, {}, {}, made, fits[i]))
    <2>. DEFINE left == fits[i] \ ToSet(made)
                taken == IF left = {} THEN 0 ELSE Min(left)
    <2>1. /\ made \in Seq(Nat) /\ Len(made) = i - 1
          /\ \A k \in 1..(i - 1) : made[k] # 0 => made[k] \in fits[k]
          /\ \A k, j \in 1..(i - 1) : made[k] = made[j] /\ made[k] # 0 => k = j
          /\ \A k \in 1..(i - 1) : made[k] = 0 =>
                \A x \in fits[k] : \E j \in 1..(k - 1) : made[j] = x
        BY <1>2 DEF FitInvariant
    <2>2. left \in SUBSET (Nat \ {0})
        OBVIOUS
    <2>3. /\ taken \in Nat /\ (taken # 0 => taken \in fits[i] /\ taken \notin ToSet(made))
          /\ taken = 0 => fits[i] \subseteq ToSet(made)
        BY <2>2, MinIs
    <2>4. FitStep({}, {}, {}, {}, {}, made, fits[i]) = Append(made, taken)
        BY DEF FitStep
    <2>5. \A k \in 1..(i - 1) : made[k] \in ToSet(made)
        BY <2>1 DEF ToSet
    <2>. HIDE DEF taken
    <2>6. PICK new : new = Append(made, taken)
        OBVIOUS
    <2>7. /\ new \in Seq(Nat) /\ Len(new) = i /\ new[i] = taken
          /\ \A k \in 1..(i - 1) : new[k] = made[k]
        BY <2>1, <2>3, <2>6
    <2>8. \A k \in 1..i : k = i \/ k \in 1..(i - 1)
        OBVIOUS
    <2>9. \A k \in 1..i : new[k] # 0 => new[k] \in fits[k]
        BY <2>1, <2>3, <2>7, <2>8
    <2>10. ASSUME NEW k \in 1..i, NEW j \in 1..i, new[k] = new[j], new[k] # 0
           PROVE  k = j
        BY <2>1, <2>3, <2>5, <2>7, <2>8, <2>10, SMTT(30)
    <2>11. ASSUME NEW k \in 1..i, new[k] = 0, NEW x \in fits[k]
           PROVE  \E j \in 1..(k - 1) : new[j] = x
        <3>1. CASE k = i
            <4>1. x \in ToSet(made)
                BY <2>3, <2>7, <2>11, <3>1
            <4>2. PICK j \in 1..(i - 1) : made[j] = x
                BY <2>1, <4>1 DEF ToSet
            <4>. QED
                BY <2>7, <3>1, <4>2
        <3>2. CASE k # i
            <4>1. k \in 1..(i - 1) /\ made[k] = 0
                BY <2>7, <2>8, <2>11, <3>2
            <4>2. PICK j \in 1..(k - 1) : made[j] = x
                BY <2>1, <2>11, <4>1
            <4>3. j \in 1..(i - 1)
                BY <4>1
            <4>. QED
                BY <2>7, <4>2, <4>3
        <3>. QED
            BY <3>1, <3>2
    <2>12. FitInvariant({}, {}, {}, {}, {}, fits, i, new)
        BY <2>7, <2>9, <2>10, <2>11 DEF FitInvariant
    <2>. QED
        BY <2>4, <2>6, <2>12
<1>3. FitInvariant({}, {}, {}, {}, {}, fits, n, FirstFit(fits))
    BY <1>1, <1>2, FirstFitFolds, Fits!FoldInvariant
<1>. QED
    BY <1>3 DEF FitInvariant

\* Each in turn picks a candidate that suits it, and none only when all of
\* those were picked before.
InTurn(fits, m, pick) ==
    /\ \A n \in 1..m : pick[n] # 0 => pick[n] \in fits[n]
    /\ \A n, l \in 1..m : pick[n] = pick[l] /\ pick[n] # 0 => n = l
    /\ \A n \in 1..m : pick[n] = 0 => \A x \in fits[n] : \E l \in 1..(n - 1) : pick[l] = x

\* An asker gets an offer that fits it, no two the same one, and none only where earlier askers
\* took every offer that fits.
LEMMA FirstFitInTurn ==
    ASSUME NEW m \in Nat, NEW fits, DOMAIN fits = 1..m,
           \A n \in 1..m : fits[n] \in SUBSET (Nat \ {0}),
           NEW pick, pick = FirstFit(fits)
    PROVE  InTurn(fits, m, pick)
<1>1. /\ \A i \in 1..m : FirstFit(fits)[i] # 0 => FirstFit(fits)[i] \in fits[i]
      /\ \A i, j \in 1..m :
            FirstFit(fits)[i] = FirstFit(fits)[j] /\ FirstFit(fits)[i] # 0 => i = j
      /\ \A i \in 1..m : FirstFit(fits)[i] = 0 =>
            \A x \in fits[i] : \E j \in 1..(i - 1) : FirstFit(fits)[j] = x
    BY FirstFitIs, Zenon
<1>. QED
    BY <1>1 DEF InTurn

-----------------------------------------------------------------------------
(***************************************************************************)
(* Concatenation of sequences.                                             *)
(***************************************************************************)
\* The recursive function that FlattenSeq is defined by.
IsFlattening(seqs, n, f) ==
    f = [i \in 1..n |-> IF i = 1 THEN seqs[i] ELSE f[i - 1] \o seqs[i]]

\* A sequence of sequences has a flattening up to any of its members.
LEMMA FlatteningExists ==
    ASSUME NEW seqs, NEW n \in Nat
    PROVE  \E f : IsFlattening(seqs, n, f)
<1>. DEFINE T == {k \in Nat : \E f : IsFlattening(seqs, k, f)}
<1>1. 0 \in T
    <2>1. IsFlattening(seqs, 0, [i \in 1..0 |-> {}])
        BY DEF IsFlattening
    <2>. QED
        BY <2>1
<1>2. ASSUME NEW k \in T
      PROVE  k + 1 \in T
    <2>1. PICK f : IsFlattening(seqs, k, f)
        OBVIOUS
    <2>2. /\ DOMAIN f = 1..k
          /\ \A i \in 1..k : f[i] = IF i = 1 THEN seqs[i] ELSE f[i - 1] \o seqs[i]
        BY <2>1 DEF IsFlattening
    <2>. DEFINE last == IF k + 1 = 1 THEN seqs[k + 1] ELSE f[k] \o seqs[k + 1]
                g == [i \in 1..(k + 1) |-> IF i = k + 1 THEN last ELSE f[i]]
    <2>3. ASSUME NEW i \in 1..(k + 1)
          PROVE  g[i] = IF i = 1 THEN seqs[i] ELSE g[i - 1] \o seqs[i]
        <3>. HIDE DEF last
        <3>1. CASE i = k + 1 /\ i = 1
            BY <3>1 DEF last
        <3>2. CASE i = k + 1 /\ i # 1
            <4>1. i - 1 = k /\ k \in 1..(k + 1) /\ k # k + 1
                BY <3>2
            <4>2. g[i - 1] = f[k] /\ g[i] = last
                BY <3>2, <4>1
            <4>3. last = f[k] \o seqs[k + 1]
                BY <3>2 DEF last
            <4>. QED
                BY <3>2, <4>2, <4>3
        <3>3. CASE i # k + 1
            <4>1. i \in 1..k /\ (i # 1 => i - 1 \in 1..k /\ i - 1 # k + 1)
                BY <3>3
            <4>2. g[i] = f[i] /\ (i # 1 => g[i - 1] = f[i - 1])
                BY <3>3, <4>1
            <4>. HIDE DEF g
            <4>. QED
                BY <2>2, <4>1, <4>2
        <3>. QED
            BY <3>1, <3>2, <3>3
    <2>4. g = [i \in 1..(k + 1) |-> g[i]]
        OBVIOUS
    <2>. HIDE DEF g
    <2>5. IsFlattening(seqs, k + 1, g)
        BY <2>3, <2>4 DEF IsFlattening
    <2>. QED
        BY <2>5
<1>3. \A k \in 0..n : k \in T
    <2>. HIDE DEF T
    <2>1. T \in SUBSET Nat
        BY DEF T
    <2>2. \A k \in T : k < n => k + 1 \in T
        BY <1>2
    <2>. QED
        BY <1>1, <2>1, <2>2, Fits!UpTo
<1>. QED
    BY <1>3

\* The k-th element of a sequence stands at a place of its own in some part.
ListsAt(flat, seqs, n, part, place) ==
    /\ \A k \in DOMAIN flat :
          /\ part[k] \in 1..n /\ place[k] \in DOMAIN seqs[part[k]]
          /\ flat[k] = seqs[part[k]][place[k]]
    /\ \A k, l \in DOMAIN flat :
          k < l => part[k] < part[l] \/ (part[k] = part[l] /\ place[k] < place[l])
    /\ \A i \in 1..n : \A j \in DOMAIN seqs[i] :
          \E k \in DOMAIN flat : part[k] = i /\ place[k] = j

\* A sequence lists the elements of some sequences, part by part and in order.
Lists(flat, seqs, n) ==
    /\ \A x : x \in ToSet(flat) <=> \E i \in 1..n : x \in ToSet(seqs[i])
    /\ \E part, place : ListsAt(flat, seqs, n, part, place)

\* Appending one more sequence.
LEMMA ListsMore ==
    ASSUME NEW S, NEW n \in Nat, NEW seqs, NEW flat \in Seq(S), seqs[n + 1] \in Seq(S),
           Lists(flat, seqs, n)
    PROVE  flat \o seqs[n + 1] \in Seq(S) /\ Lists(flat \o seqs[n + 1], seqs, n + 1)
<1>1. PICK t : t = seqs[n + 1]
    OBVIOUS
<1>2. PICK u : u = flat \o t
    OBVIOUS
<1>3. t \in Seq(S)
    BY <1>1
<1>4. /\ u \in Seq(S) /\ Len(flat) \in Nat /\ Len(t) \in Nat
      /\ DOMAIN flat = 1..Len(flat) /\ DOMAIN t = 1..Len(t)
      /\ DOMAIN u = 1..(Len(flat) + Len(t))
      /\ \A k \in 1..Len(flat) : u[k] = flat[k]
      /\ \A k \in 1..(Len(flat) + Len(t)) : k > Len(flat) => u[k] = t[k - Len(flat)]
    BY <1>2, <1>3
<1>5. \A x : x \in ToSet(u) <=> \E i \in 1..(n + 1) : x \in ToSet(seqs[i])
    <2>1. \A x : x \in ToSet(u) <=> x \in ToSet(flat) \/ x \in ToSet(t)
        <3>1. ASSUME NEW x \in ToSet(t) PROVE x \in ToSet(u)
            <4>1. PICK k \in 1..Len(t) : x = t[k]
                BY <1>4 DEF ToSet
            <4>2. /\ k + Len(flat) \in 1..(Len(flat) + Len(t)) /\ k + Len(flat) > Len(flat)
                  /\ (k + Len(flat)) - Len(flat) = k
                BY <1>4
            <4>. QED
                BY <1>4, <4>1, <4>2 DEF ToSet
        <3>2. ASSUME NEW x \in ToSet(u) PROVE x \in ToSet(flat) \/ x \in ToSet(t)
            <4>1. PICK k \in 1..(Len(flat) + Len(t)) : x = u[k]
                BY <1>4 DEF ToSet
            <4>2. k \in 1..Len(flat) \/ (k > Len(flat) /\ k - Len(flat) \in 1..Len(t))
                BY <1>4
            <4>. QED
                BY <1>4, <4>1, <4>2 DEF ToSet
        <3>3. \A x \in ToSet(flat) : x \in ToSet(u)
            BY <1>4 DEF ToSet
        <3>. QED
            BY <3>1, <3>2, <3>3
    <2>2. \A i \in 1..(n + 1) : i \in 1..n \/ i = n + 1
        OBVIOUS
    <2>3. n + 1 \in 1..(n + 1) /\ 1..n \subseteq 1..(n + 1)
        OBVIOUS
    <2>. QED
        BY <1>1, <2>1, <2>2, <2>3 DEF Lists
<1>6. PICK part, place :
          /\ \A k \in DOMAIN flat :
                /\ part[k] \in 1..n /\ place[k] \in DOMAIN seqs[part[k]]
                /\ flat[k] = seqs[part[k]][place[k]]
          /\ \A k, l \in DOMAIN flat :
                k < l => part[k] < part[l] \/ (part[k] = part[l] /\ place[k] < place[l])
          /\ \A i \in 1..n : \A j \in DOMAIN seqs[i] :
                \E k \in DOMAIN flat : part[k] = i /\ place[k] = j
    BY DEF Lists, ListsAt
<1>. DEFINE parts == [k \in 1..(Len(flat) + Len(t)) |-> IF k <= Len(flat) THEN part[k] ELSE n + 1]
            places == [k \in 1..(Len(flat) + Len(t)) |->
                          IF k <= Len(flat) THEN place[k] ELSE k - Len(flat)]
<1>7. /\ \A k \in 1..Len(flat) : parts[k] = part[k] /\ places[k] = place[k]
      /\ \A k \in 1..(Len(flat) + Len(t)) :
            k > Len(flat) => parts[k] = n + 1 /\ places[k] = k - Len(flat)
    BY <1>4
<1>. HIDE DEF parts, places
<1>8. ASSUME NEW k \in DOMAIN u
      PROVE  /\ parts[k] \in 1..(n + 1) /\ places[k] \in DOMAIN seqs[parts[k]]
             /\ u[k] = seqs[parts[k]][places[k]]
    <2>1. CASE k \in 1..Len(flat)
        <3>1. /\ part[k] \in 1..n /\ place[k] \in DOMAIN seqs[part[k]]
              /\ flat[k] = seqs[part[k]][place[k]]
            BY <1>4, <1>6, <2>1
        <3>2. parts[k] = part[k] /\ places[k] = place[k] /\ u[k] = flat[k]
            BY <1>4, <1>7, <2>1
        <3>3. \A i \in 1..n : i \in 1..(n + 1)
            OBVIOUS
        <3>. QED
            BY <3>1, <3>2, <3>3
    <2>2. CASE k > Len(flat)
        <3>1. k - Len(flat) \in 1..Len(t) /\ n + 1 \in 1..(n + 1)
            BY <1>4, <2>2
        <3>2. parts[k] = n + 1 /\ places[k] = k - Len(flat)
            BY <1>4, <1>7, <2>2
        <3>3. u[k] = t[k - Len(flat)] /\ k - Len(flat) \in DOMAIN t
            BY <1>4, <2>2, <3>1
        <3>. QED
            BY <1>1, <3>1, <3>2, <3>3
    <2>. QED
        BY <1>4, <2>1, <2>2
<1>9. ASSUME NEW k \in DOMAIN u, NEW l \in DOMAIN u, k < l
      PROVE  parts[k] < parts[l] \/ (parts[k] = parts[l] /\ places[k] < places[l])
    <2>1. k \in 1..(Len(flat) + Len(t)) /\ l \in 1..(Len(flat) + Len(t))
        BY <1>4
    <2>2. CASE l <= Len(flat)
        <3>1. k \in 1..Len(flat) /\ l \in 1..Len(flat)
            BY <1>4, <1>9, <2>1, <2>2
        <3>. QED
            BY <1>4, <1>6, <1>7, <1>9, <3>1, SMTT(30)
    <2>3. CASE l > Len(flat) /\ k <= Len(flat)
        <3>1. k \in 1..Len(flat)
            BY <1>4, <2>1, <2>3
        <3>2. parts[k] = part[k] /\ part[k] \in 1..n /\ parts[l] = n + 1
            BY <1>4, <1>6, <1>7, <2>1, <2>3, <3>1
        <3>. QED
            BY <3>2
    <2>4. CASE k > Len(flat)
        <3>1. /\ parts[k] = n + 1 /\ places[k] = k - Len(flat)
              /\ parts[l] = n + 1 /\ places[l] = l - Len(flat)
            <4>1. l > Len(flat)
                BY <1>4, <1>9, <2>1, <2>4
            <4>. QED
                BY <1>4, <1>7, <2>1, <2>4, <4>1
        <3>. QED
            BY <1>4, <1>9, <2>1, <3>1
    <2>. QED
        BY <1>4, <2>1, <2>2, <2>3, <2>4
<1>10. ASSUME NEW i \in 1..(n + 1), NEW j \in DOMAIN seqs[i]
       PROVE  \E k \in DOMAIN u : parts[k] = i /\ places[k] = j
    <2>1. CASE i = n + 1
        <3>1. j \in 1..Len(t)
            BY <1>1, <1>4, <2>1
        <3>2. /\ j + Len(flat) \in 1..(Len(flat) + Len(t)) /\ j + Len(flat) > Len(flat)
              /\ (j + Len(flat)) - Len(flat) = j
            BY <1>4, <3>1
        <3>. QED
            BY <1>4, <1>7, <2>1, <3>2
    <2>2. CASE i # n + 1
        <3>1. PICK k \in DOMAIN flat : part[k] = i /\ place[k] = j
            BY <1>6, <2>2
        <3>2. k \in 1..Len(flat) /\ k \in 1..(Len(flat) + Len(t))
            BY <1>4
        <3>. QED
            BY <1>4, <1>7, <3>1, <3>2
    <2>. QED
        BY <2>1, <2>2
<1>11. Lists(u, seqs, n + 1)
    <2>1. ListsAt(u, seqs, n + 1, parts, places)
        BY <1>8, <1>9, <1>10 DEF ListsAt
    <2>. QED
        BY <1>5, <2>1 DEF Lists
<1>. QED
    BY <1>1, <1>2, <1>4, <1>11

\* FlattenSeq keeps the element set and lists the members of the parts, in order and nothing else.
LEMMA FlattenIs ==
    ASSUME NEW S, NEW seqs, NEW n \in Nat, DOMAIN seqs = 1..n, Len(seqs) = n, n = 0 => seqs = <<>>,
           \A i \in 1..n : seqs[i] \in Seq(S)
    PROVE  FlattenSeq(seqs) \in Seq(S) /\ Lists(FlattenSeq(seqs), seqs, n)
<1>1. CASE n = 0
    <2>1. FlattenSeq(seqs) = <<>>
        BY <1>1 DEF FlattenSeq
    <2>2. Lists(<<>>, seqs, 0)
        BY DEF Lists, ListsAt, ToSet
    <2>. QED
        BY <1>1, <2>1, <2>2
<1>2. CASE n # 0
    <2>1. FlattenSeq(seqs) = (CHOOSE f : IsFlattening(seqs, n, f))[n]
        BY <1>2, Zenon DEF FlattenSeq, IsFlattening
    <2>2. PICK f : IsFlattening(seqs, n, f) /\ FlattenSeq(seqs) = f[n]
        BY <2>1, FlatteningExists
    <2>3. \A i \in 1..n : f[i] = IF i = 1 THEN seqs[i] ELSE f[i - 1] \o seqs[i]
        BY <2>2 DEF IsFlattening
    <2>. DEFINE T == {k \in Nat : k \in 1..n => f[k] \in Seq(S) /\ Lists(f[k], seqs, k)}
    <2>4. 0 \in T
        OBVIOUS
    <2>5. ASSUME NEW k \in T, k < n
          PROVE  k + 1 \in T
        <3>1. CASE k = 0
            <4>1. f[1] = seqs[1] /\ seqs[1] \in Seq(S)
                BY <1>2, <2>3
            <4>2. Lists(<<>>, seqs, 0) /\ <<>> \in Seq(S)
                BY DEF Lists, ListsAt, ToSet
            <4>3. <<>> \o seqs[0 + 1] \in Seq(S) /\ Lists(<<>> \o seqs[0 + 1], seqs, 0 + 1)
                <5>1. seqs[0 + 1] \in Seq(S)
                    BY <4>1
                <5>. QED
                    BY <4>2, <5>1, ListsMore
            <4>4. <<>> \o seqs[1] = seqs[1]
                BY <4>1
            <4>. QED
                BY <3>1, <4>1, <4>3, <4>4
        <3>2. CASE k # 0
            <4>1. k \in 1..n /\ k + 1 \in 1..n /\ (k + 1) - 1 = k /\ k + 1 # 1
                BY <2>5, <3>2
            <4>2. f[k + 1] = f[k] \o seqs[k + 1] /\ seqs[k + 1] \in Seq(S)
                BY <2>3, <4>1
            <4>3. f[k] \in Seq(S) /\ Lists(f[k], seqs, k)
                BY <4>1
            <4>4. f[k] \o seqs[k + 1] \in Seq(S) /\ Lists(f[k] \o seqs[k + 1], seqs, k + 1)
                BY <4>2, <4>3, ListsMore
            <4>5. f[k + 1] \in Seq(S) /\ Lists(f[k + 1], seqs, k + 1)
                BY <4>2, <4>4
            <4>6. k + 1 \in Nat
                OBVIOUS
            <4>. QED
                BY <4>5, <4>6
        <3>. QED
            BY <3>1, <3>2
    <2>6. n \in T
        <3>. HIDE DEF T
        <3>1. T \in SUBSET Nat
            BY DEF T
        <3>2. \A k \in T : k < n => k + 1 \in T
            BY <2>5
        <3>3. \A k \in 0..n : k \in T
            BY <2>4, <3>1, <3>2, Fits!UpTo
        <3>. QED
            BY <3>3
    <2>. QED
        BY <1>2, <2>2, <2>6
<1>. QED
    BY <1>1, <1>2

-----------------------------------------------------------------------------
(***************************************************************************)
(* Documents.                                                              *)
(***************************************************************************)
OptionEntry == [key : STRING, text : STRING, plain : BOOLEAN, tagged : BOOLEAN]

\* What the assumption says of a document and its blocks.
LEMMA DocumentIs ==
    ASSUME NEW document \in Documents
    PROVE  /\ Input[document].blocks \in Seq(Texts)
           /\ Input[document].execute \in Seq(CellOptions)
           /\ Input[document].title \in {None} \cup STRING
           /\ Blocks(document) = 1..Len(Input[document].blocks)
           /\ Len(Input[document].blocks) \in Nat
<1>1. Input[document] \in [path : STRING, title : {None} \cup STRING, parse_errors : Nat,
                           execute : Seq(CellOptions), blocks : Seq(Texts)]
    BY DocumentAssumption
<1>. QED
    BY <1>1 DEF Blocks

\* What the assumption on Content says of one text, in the form the steps below need.
LEMMA TextIs ==
    ASSUME NEW text \in Texts, NEW block, block = Content[text]
    PROVE  /\ block.kind \in {"heading", "body", "quiet", "cell", "container"}
           /\ block.label \in {None} \cup STRING
           /\ block.cells \in Seq([text : STRING, language : STRING, options : CellOptions])
           /\ block.links \in Seq([reference : {None} \cup STRING, destination : {None} \cup STRING])
           /\ block.defines \in {None} \cup [label : STRING, destination : STRING]
           /\ block.execute \in Seq(CellOptions)
           /\ block.kind = "cell" => Len(block.cells) = 1 /\ block.label = None
<1>1. /\ block \in LoweredBlocks
      /\ block.kind = "cell" => Len(block.cells) = 1 /\ block.label = None
    BY DocumentAssumption
<1>2. \A B : B \in [kind : {"heading", "body", "quiet", "cell", "container"},
             size : Nat,
             label : {None} \cup STRING,
             cells : Seq([text : STRING, language : STRING, options : CellOptions]),
             links : Seq([reference : {None} \cup STRING, destination : {None} \cup STRING]),
             defines : {None} \cup [label : STRING, destination : STRING],
             execute : Seq(CellOptions),
             unsupported : BOOLEAN] =>
           /\ B.kind \in {"heading", "body", "quiet", "cell", "container"}
           /\ B.label \in {None} \cup STRING
           /\ B.cells \in Seq([text : STRING, language : STRING, options : CellOptions])
           /\ B.links \in Seq([reference : {None} \cup STRING, destination : {None} \cup STRING])
           /\ B.defines \in {None} \cup [label : STRING, destination : STRING]
           /\ B.execute \in Seq(CellOptions)
    OBVIOUS
<1>. QED
    BY <1>1, <1>2 DEF LoweredBlocks

\* A block of a document is the content of one of the texts.
LEMMA BlockIs ==
    ASSUME NEW document \in Documents, NEW i \in Blocks(document)
    PROVE  /\ Input[document].blocks[i] \in Texts
           /\ Block(document, i) = Content[Input[document].blocks[i]]
           /\ i \in Nat \ {0}
BY DocumentIs DEF Block, Blocks

\* The cells of a block of a document.
LEMMA BlockCells ==
    ASSUME NEW document \in Documents, NEW i \in Blocks(document)
    PROVE  /\ Block(document, i).cells \in Seq([text : STRING, language : STRING, options : CellOptions])
           /\ DOMAIN Block(document, i).cells \in SUBSET (Nat \ {0})
           /\ Block(document, i).kind = "cell" =>
                 DOMAIN Block(document, i).cells = {1} /\ Block(document, i).label = None
           /\ Block(document, i).label \in {None} \cup STRING
<1>1. PICK block : block = Block(document, i)
    OBVIOUS
<1>2. PICK text \in Texts : block = Content[text]
    BY <1>1, BlockIs
<1>3. /\ block.cells \in Seq([text : STRING, language : STRING, options : CellOptions])
      /\ block.kind = "cell" => Len(block.cells) = 1 /\ block.label = None
      /\ block.label \in {None} \cup STRING
    BY <1>2, TextIs
<1>4. DOMAIN block.cells = 1..Len(block.cells) /\ Len(block.cells) \in Nat
    BY <1>3
<1>5. block.kind = "cell" => DOMAIN block.cells = {1}
    <2>1. 1..1 = {1}
        OBVIOUS
    <2>2. block.kind = "cell" => DOMAIN block.cells = 1..1
        BY <1>3, <1>4
    <2>. QED
        BY <2>1, <2>2
<1>6. DOMAIN block.cells \in SUBSET (Nat \ {0})
    BY <1>4
<1>. QED
    BY <1>1, <1>3, <1>5, <1>6

\* One place stands before another one in a document.
Precedes(at, other) == at[1] < other[1] \/ (at[1] = other[1] /\ at[2] < other[2])

\* The cells of a document are those of its blocks, in their order.
LEMMA CellsOfIs ==
    ASSUME NEW document \in Documents
    PROVE  /\ CellsOf[document] \in Seq(Nat \X Nat)
           /\ \A at : at \in ToSet(CellsOf[document]) <=>
                 \E i \in Blocks(document) :
                    \E j \in DOMAIN Block(document, i).cells : at = <<i, j>>
           /\ IsInjective(CellsOf[document])
           /\ \A k, l \in DOMAIN CellsOf[document] :
                 k < l => Precedes(CellsOf[document][k], CellsOf[document][l])
<1>. DEFINE n == Len(Input[document].blocks)
            pieces == [i \in Blocks(document) |->
                          [j \in DOMAIN Block(document, i).cells |-> <<i, j>>]]
<1>1. CellsOf[document] = FlattenSeq(pieces)
    BY DEF CellsOf
<1>2. n \in Nat /\ Blocks(document) = 1..n
    BY DocumentIs
<1>3. ASSUME NEW i \in 1..n
      PROVE  /\ pieces[i] = [j \in DOMAIN Block(document, i).cells |-> <<i, j>>]
             /\ pieces[i] \in Seq(Nat \X Nat)
             /\ DOMAIN pieces[i] = DOMAIN Block(document, i).cells
    <2>1. Block(document, i).cells \in Seq([text : STRING, language : STRING, options : CellOptions])
        BY <1>2, BlockCells
    <2>2. PICK m \in Nat : DOMAIN Block(document, i).cells = 1..m
        BY <2>1
    <2>3. pieces[i] = [j \in 1..m |-> <<i, j>>]
        BY <1>2, <2>2
    <2>4. [j \in 1..m |-> <<i, j>>] \in Seq(Nat \X Nat)
        OBVIOUS
    <2>. QED
        BY <2>2, <2>3, <2>4
<1>4. DOMAIN pieces = 1..n /\ Len(pieces) = n /\ (n = 0 => pieces = <<>>)
    BY <1>2
<1>. HIDE DEF pieces
<1>5. FlattenSeq(pieces) \in Seq(Nat \X Nat) /\ Lists(FlattenSeq(pieces), pieces, n)
    BY <1>2, <1>3, <1>4, FlattenIs
<1>6. \A i \in 1..n : \A at : at \in ToSet(pieces[i]) <=>
          \E j \in DOMAIN Block(document, i).cells : at = <<i, j>>
    BY <1>3, ZenonT(40) DEF ToSet
<1>7. /\ IsInjective(FlattenSeq(pieces))
      /\ \A k, l \in DOMAIN FlattenSeq(pieces) :
            k < l => Precedes(FlattenSeq(pieces)[k], FlattenSeq(pieces)[l])
    <2>1. PICK flat : flat = FlattenSeq(pieces)
        OBVIOUS
    <2>2. PICK part, place :
              /\ \A k \in DOMAIN flat :
                    /\ part[k] \in 1..n /\ place[k] \in DOMAIN pieces[part[k]]
                    /\ flat[k] = pieces[part[k]][place[k]]
              /\ \A k, l \in DOMAIN flat :
                    k < l => part[k] < part[l] \/ (part[k] = part[l] /\ place[k] < place[l])
        <3>1. Lists(flat, pieces, n)
            BY <1>5, <2>1
        <3>. HIDE DEF n
        <3>. QED
            BY <3>1, Zenon DEF Lists, ListsAt
    <2>3. ASSUME NEW k \in DOMAIN flat
          PROVE  flat[k] = <<part[k], place[k]>>
        <3>1. PICK i \in 1..n : i = part[k]
            BY <2>2
        <3>2. pieces[i] = [j \in DOMAIN Block(document, i).cells |-> <<i, j>>]
            BY <1>3
        <3>3. place[k] \in DOMAIN pieces[i] /\ flat[k] = pieces[i][place[k]]
            BY <2>2, <3>1
        <3>. QED
            BY <3>1, <3>2, <3>3
    <2>4. ASSUME NEW k \in DOMAIN flat, NEW l \in DOMAIN flat, flat[k] = flat[l]
          PROVE  k = l
        <3>1. part[k] = part[l] /\ place[k] = place[l]
            BY <2>3, <2>4
        <3>2. part[k] \in Nat /\ place[k] \in Nat
            <4>1. PICK i \in 1..n : i = part[k]
                BY <2>2
            <4>2. i \in Nat /\ i \in Blocks(document)
                BY <1>2
            <4>3. place[k] \in DOMAIN Block(document, i).cells
                BY <1>3, <2>2, <4>1
            <4>. QED
                BY <4>1, <4>2, <4>3, BlockCells
        <3>3. k \in Nat /\ l \in Nat
            BY <1>5, <2>1
        <3>. QED
            BY <2>2, <3>1, <3>2, <3>3
    <2>5. ASSUME NEW k \in DOMAIN flat, NEW l \in DOMAIN flat, k < l
          PROVE  Precedes(flat[k], flat[l])
        BY <2>2, <2>3, <2>5 DEF Precedes
    <2>. QED
        BY <2>1, <2>4, <2>5 DEF IsInjective
<1>8. \A at : at \in ToSet(FlattenSeq(pieces)) <=>
          \E i \in Blocks(document) : \E j \in DOMAIN Block(document, i).cells : at = <<i, j>>
    BY <1>2, <1>5, <1>6 DEF Lists
<1>. QED
    BY <1>1, <1>5, <1>7, <1>8

\* A cell is found by the block that holds it and its number there.
LEMMA CellPlace ==
    ASSUME NEW document \in Documents, NEW at \in ToSet(CellsOf[document])
    PROVE  /\ at = <<at[1], at[2]>> /\ at[1] \in Blocks(document)
           /\ at[2] \in DOMAIN Block(document, at[1]).cells
<1>1. PICK i \in Blocks(document) : \E j \in DOMAIN Block(document, i).cells : at = <<i, j>>
    BY CellsOfIs
<1>. QED
    BY <1>1

-----------------------------------------------------------------------------
(***************************************************************************)
(* Options.                                                                *)
(***************************************************************************)
LEMMA OptionsAre ==
    ASSUME NEW options \in CellOptions
    PROVE  options.entries \in Seq(OptionEntry)
<1>1. \A o : o \in [mapping : BOOLEAN, entries : Seq(OptionEntry)] =>
          o.entries \in Seq(OptionEntry)
    OBVIOUS
<1>. QED
    BY <1>1 DEF CellOptions, OptionEntry

\* The execute mappings of a document are mappings.
LEMMA ExecuteMappingsAre ==
    ASSUME NEW document \in Documents
    PROVE  ExecuteMappings[document] \in Seq(CellOptions)
<1>. DEFINE n == Len(Input[document].blocks)
            pieces == [i \in Blocks(document) |-> Block(document, i).execute]
<1>1. n \in Nat /\ Blocks(document) = 1..n /\ Input[document].execute \in Seq(CellOptions)
    BY DocumentIs
<1>2. ASSUME NEW i \in 1..n
      PROVE  pieces[i] \in Seq(CellOptions)
    <2>0. PICK text \in Texts : Block(document, i) = Content[text]
        BY <1>1, BlockIs
    <2>1. PICK block : block = Content[text] /\ block = Block(document, i)
        BY <2>0
    <2>2. block.execute \in Seq(CellOptions)
        BY <2>1, TextIs
    <2>. QED
        BY <1>1, <2>1, <2>2
<1>3. DOMAIN pieces = 1..n /\ Len(pieces) = n /\ (n = 0 => pieces = <<>>)
    BY <1>1
<1>4. ExecuteMappings[document] = Input[document].execute \o FlattenSeq(pieces)
    BY DEF ExecuteMappings
<1>. HIDE DEF pieces
<1>5. FlattenSeq(pieces) \in Seq(CellOptions)
    BY <1>1, <1>2, <1>3, FlattenIs
<1>. QED
    BY <1>1, <1>4, <1>5

\* What the options of a cell are resolved from is a sequence of entries.
LEMMA CellEntriesAre ==
    ASSUME NEW document \in Documents, NEW at \in ToSet(CellsOf[document])
    PROVE  CellEntries(document, at) \in Seq(OptionEntry)
<1>1. PICK mappings \in Seq(CellOptions) : mappings = ExecuteMappings[document]
    BY ExecuteMappingsAre
<1>. DEFINE pieces == [m \in DOMAIN mappings |-> mappings[m].entries]
<1>2. PICK n \in Nat : DOMAIN mappings = 1..n
    BY <1>1
<1>3. \A m \in 1..n : pieces[m] \in Seq(OptionEntry)
    BY <1>1, <1>2, OptionsAre
<1>4. DOMAIN pieces = 1..n /\ Len(pieces) = n /\ (n = 0 => pieces = <<>>)
    BY <1>2
<1>5. Entries(mappings) \in Seq(OptionEntry)
    <2>1. Entries(mappings) = FlattenSeq(pieces)
        BY DEF Entries
    <2>. HIDE DEF pieces
    <2>. QED
        BY <1>3, <1>4, <2>1, FlattenIs
<1>6. PICK i \in Blocks(document) : \E j \in DOMAIN Block(document, i).cells : at = <<i, j>>
    BY CellsOfIs
<1>7. PICK j \in DOMAIN Block(document, i).cells : at = <<i, j>>
    BY <1>6
<1>8. CellAt(document, at).options \in CellOptions
    <2>1. PICK cells \in Seq([text : STRING, language : STRING, options : CellOptions]) :
              cells = Block(document, i).cells
        BY BlockCells
    <2>2. cells[j] \in [text : STRING, language : STRING, options : CellOptions]
        <3>1. \A S : \A c \in Seq(S) : \A k \in DOMAIN c : c[k] \in S
            OBVIOUS
        <3>2. j \in DOMAIN cells
            BY <1>7, <2>1
        <3>. QED
            BY <3>1, <3>2, Zenon
    <2>3. \A C : C \in [text : STRING, language : STRING, options : CellOptions] =>
              C.options \in CellOptions
        OBVIOUS
    <2>4. CellAt(document, at) = cells[j]
        BY <1>7, <2>1 DEF CellAt
    <2>. QED
        BY <2>2, <2>3, <2>4
<1>9. CellAt(document, at).options.entries \in Seq(OptionEntry)
    BY <1>8, OptionsAre
<1>. QED
    BY <1>1, <1>5, <1>9 DEF CellEntries

SetsEval(entry) == entry.key = "eval" /\ IsBoolean(entry)

\* The last of the first n entries with a Boolean for eval gives its value.
LastEval(entries, n, value) ==
    \/ value = TRUE /\ \A i \in 1..n : ~ SetsEval(entries[i])
    \/ \E i \in 1..n : /\ SetsEval(entries[i])
                       /\ value = (entries[i].text = "true")
                       /\ \A k \in 1..n : SetsEval(entries[k]) => k <= i

EvaluationStep(a, b, c, d, e, options, entry) == EvaluationApply(options, entry)
DisplayStep(a, b, c, d, e, options, entry) == DisplayApply(options, entry)

EvalInvariant(a, b, c, d, e, entries, n, options) ==
    "eval" \in DOMAIN options /\ LastEval(entries, n, options.eval)

Evaluated == INSTANCE SequenceFolds WITH Step <- EvaluationStep, Invariant <- EvalInvariant
Displayed == INSTANCE SequenceFolds WITH Step <- DisplayStep, Invariant <- EvalInvariant

\* An entry that sets eval is the last one to do so.
LEMMA LastEvalSet ==
    ASSUME NEW entries, NEW n \in Nat, SetsEval(entries[n + 1])
    PROVE  LastEval(entries, n + 1, entries[n + 1].text = "true")
BY DEF LastEval

\* An entry that does not set eval leaves the last setting in force.
LEMMA LastEvalKept ==
    ASSUME NEW entries, NEW n \in Nat, ~ SetsEval(entries[n + 1]), NEW value,
           LastEval(entries, n, value)
    PROVE  LastEval(entries, n + 1, value)
<1>1. \A i \in 1..(n + 1) : i \in 1..n \/ i = n + 1
    OBVIOUS
<1>2. 1..n \subseteq 1..(n + 1)
    OBVIOUS
<1>. QED
    BY <1>1, <1>2 DEF LastEval

\* Two values that the same entries give are equal.
LEMMA LastEvalOnce ==
    ASSUME NEW entries, NEW n \in Nat, NEW v, NEW w,
           LastEval(entries, n, v), LastEval(entries, n, w)
    PROVE  v = w
<1>1. CASE \A i \in 1..n : ~ SetsEval(entries[i])
    BY <1>1 DEF LastEval
<1>2. CASE \E i \in 1..n : SetsEval(entries[i])
    <2>1. PICK i \in 1..n : /\ SetsEval(entries[i]) /\ v = (entries[i].text = "true")
                            /\ \A k \in 1..n : SetsEval(entries[k]) => k <= i
        BY <1>2 DEF LastEval
    <2>2. PICK j \in 1..n : /\ SetsEval(entries[j]) /\ w = (entries[j].text = "true")
                            /\ \A k \in 1..n : SetsEval(entries[k]) => k <= j
        BY <1>2 DEF LastEval
    <2>3. i = j
        BY <2>1, <2>2
    <2>. QED
        BY <2>1, <2>2, <2>3
<1>. QED
    BY <1>1, <1>2

\* Planning and display find the same eval for a cell, although each resolves
\* the options with rules of its own (resolve_evaluation, resolve_display).
LEMMA PassesAgree ==
    ASSUME NEW document \in Documents, NEW at \in ToSet(CellsOf[document])
    PROVE  EvaluationOptions[document][at].eval = DisplayOptions[document][at].eval
<1>. DEFINE planned == [eval |-> TRUE, session |-> DefaultSession]
            shown == [eval |-> TRUE, echo |-> TRUE, include |-> TRUE]
<1>1. PICK entries \in Seq(OptionEntry) : entries = CellEntries(document, at)
    BY CellEntriesAre
<1>2. EvaluationOptions[document][at] = Evaluated!Fold({}, {}, {}, {}, {}, planned, entries)
    BY <1>1, Zenon DEF EvaluationOptions, FoldLeft, MapThenFoldSet, Evaluated!Fold, Evaluated!IsFold,
                       Evaluated!Greatest, EvaluationStep, Max
<1>3. DisplayOptions[document][at] = Displayed!Fold({}, {}, {}, {}, {}, shown, entries)
    BY <1>1, Zenon DEF DisplayOptions, FoldLeft, MapThenFoldSet, Displayed!Fold, Displayed!IsFold,
                       Displayed!Greatest, DisplayStep, Max
<1>4. PICK n \in Nat : DOMAIN entries = 1..n
    BY <1>1
<1>5. /\ EvalInvariant({}, {}, {}, {}, {}, entries, 0, planned)
      /\ EvalInvariant({}, {}, {}, {}, {}, entries, 0, shown)
    BY DEF EvalInvariant, LastEval
<1>6. ASSUME NEW i \in 1..n, NEW made, EvalInvariant({}, {}, {}, {}, {}, entries, i - 1, made)
      PROVE  /\ EvalInvariant({}, {}, {}, {}, {}, entries, i,
                              EvaluationStep({}, {}, {}, {}, {}, made, entries[i]))
             /\ EvalInvariant({}, {}, {}, {}, {}, entries, i,
                              DisplayStep({}, {}, {}, {}, {}, made, entries[i]))
    <2>1. "eval" \in DOMAIN made /\ LastEval(entries, i - 1, made.eval)
        BY <1>6 DEF EvalInvariant
    <2>2. i - 1 \in Nat /\ (i - 1) + 1 = i
        OBVIOUS
    <2>3. CASE SetsEval(entries[i])
        <3>1. LastEval(entries, i, entries[i].text = "true")
            BY <2>2, <2>3, LastEvalSet
        <3>2. EvaluationApply(made, entries[i]) = [made EXCEPT !.eval = entries[i].text = "true"]
            BY <2>3 DEF EvaluationApply, SetsEval
        <3>3. DisplayApply(made, entries[i]) = [made EXCEPT !.eval = entries[i].text = "true"]
            BY <2>3 DEF DisplayApply, SetsEval
        <3>. QED
            BY <2>1, <3>1, <3>2, <3>3 DEF EvalInvariant, EvaluationStep, DisplayStep
    <2>4. CASE ~ SetsEval(entries[i])
        <3>1. LastEval(entries, i, made.eval)
            BY <2>1, <2>2, <2>4, LastEvalKept
        <3>2. \/ EvaluationApply(made, entries[i]) = [made EXCEPT !.session = session(entries[i])]
              \/ EvaluationApply(made, entries[i]) = made
            BY <2>4 DEF EvaluationApply, SetsEval
        <3>3. \/ /\ entries[i].key # "eval"
                 /\ DisplayApply(made, entries[i])
                        = [made EXCEPT ![entries[i].key] = entries[i].text = "true"]
              \/ DisplayApply(made, entries[i]) = made
            BY <2>4 DEF DisplayApply, SetsEval
        <3>4. EvalInvariant({}, {}, {}, {}, {}, entries, i, EvaluationApply(made, entries[i]))
            BY <2>1, <3>1, <3>2 DEF EvalInvariant
        <3>5. EvalInvariant({}, {}, {}, {}, {}, entries, i, DisplayApply(made, entries[i]))
            BY <2>1, <3>1, <3>3 DEF EvalInvariant
        <3>. QED
            BY <3>4, <3>5 DEF EvaluationStep, DisplayStep
    <2>. QED
        BY <2>3, <2>4
<1>. DEFINE first == Evaluated!Fold({}, {}, {}, {}, {}, planned, entries)
            second == Displayed!Fold({}, {}, {}, {}, {}, shown, entries)
<1>7. EvalInvariant({}, {}, {}, {}, {}, entries, n, first)
    <2>. HIDE DEF planned
    <2>. QED
        BY <1>4, <1>5, <1>6, Evaluated!FoldInvariant
<1>8. EvalInvariant({}, {}, {}, {}, {}, entries, n, second)
    <2>. HIDE DEF shown
    <2>. QED
        BY <1>4, <1>5, <1>6, Displayed!FoldInvariant
<1>. HIDE DEF first, second
<1>9. first.eval = second.eval
    BY <1>7, <1>8, LastEvalOnce DEF EvalInvariant
<1>. QED
    BY <1>2, <1>3, <1>9 DEF first, second

-----------------------------------------------------------------------------
(***************************************************************************)
(* Slide changes.                                                          *)
(***************************************************************************)

\* Where a slide of a snapshot with a given handle is found.
LEMMA SlideFound ==
    ASSUME NEW snapshot, NEW id \in ToSet(SlideIds(snapshot))
    PROVE  /\ SlideAt(snapshot, id) \in DOMAIN snapshot.slides
           /\ DOMAIN SlideIds(snapshot) = DOMAIN snapshot.slides
           /\ SlideIds(snapshot)[SlideAt(snapshot, id)] = id
<1>1. \E s \in DOMAIN snapshot.slides : snapshot.slides[s].id = id
    BY DEF ToSet, SlideIds
<1>. QED
    BY <1>1 DEF SlideAt, SlideIds

\* The input of the slide with a given handle.
InputOf(snapshot, id) == slide_input(snapshot, snapshot.slides[SlideAt(snapshot, id)])

\* What a change set says of the handles of the slides (between).
LEMMA BetweenSays ==
    ASSUME NEW previous, NEW next, NEW old, NEW new,
           old = ToSet(SlideIds(previous)), new = ToSet(SlideIds(next))
    PROVE  LET changes == between(previous, next)
           IN  /\ changes.order = SlideIds(next)
               /\ Range(changes.inserted) = new \ old
               /\ Range(changes.removed) = old \ new
               /\ Range(changes.modified) \subseteq new \cap old
               /\ \A id \in (new \cap old) \ Range(changes.modified) :
                     InputOf(previous, id) = InputOf(next, id)
<1>. DEFINE changes == between(previous, next)
            retained == {s \in DOMAIN SlideIds(next) : SlideIds(next)[s] \in old}
            differs == {r \in retained :
                           slide_input(previous, previous.slides[SlideAt(previous, SlideIds(next)[r])])
                               # slide_input(next, next.slides[r])}
<1>1. /\ changes.order = SlideIds(next)
      /\ changes.inserted = [s \in {r \in DOMAIN SlideIds(next) : SlideIds(next)[r] \notin old}
                                |-> SlideIds(next)[s]]
      /\ changes.removed = [s \in {r \in DOMAIN SlideIds(previous) : SlideIds(previous)[r] \notin new}
                                |-> SlideIds(previous)[s]]
      /\ changes.modified = [s \in differs |-> SlideIds(next)[s]]
    BY DEF between
<1>2. Range(changes.inserted) = new \ old
    BY <1>1 DEF Range, ToSet
<1>3. Range(changes.removed) = old \ new
    BY <1>1 DEF Range, ToSet
<1>4. Range(changes.modified) \subseteq new \cap old
    BY <1>1 DEF Range, ToSet
<1>5. ASSUME NEW id \in (new \cap old) \ Range(changes.modified)
      PROVE  InputOf(previous, id) = InputOf(next, id)
    <2>1. /\ SlideAt(next, id) \in DOMAIN SlideIds(next)
          /\ SlideIds(next)[SlideAt(next, id)] = id
        BY SlideFound
    <2>2. SlideAt(next, id) \in retained
        BY <2>1
    <2>3. SlideAt(next, id) \notin differs
        BY <1>1, <1>5, <2>1 DEF Range
    <2>. QED
        BY <2>1, <2>2, <2>3 DEF InputOf
<1>. QED
    BY <1>1, <1>2, <1>3, <1>4, <1>5

\* A consumer in step with a snapshot that applies the changes to the next one
\* is in step with that: handles that stay and are not modified name slides
\* with the same input (SlideChanges::between).
LEMMA ApplyBetween ==
    ASSUME NEW previous, NEW next, NEW shown,
           shown.content = Show(previous, ToSet(SlideIds(previous)))
    PROVE  LET applied == Apply(shown, between(previous, next), next)
           IN  /\ applied.order = SlideIds(next)
               /\ applied.content = Show(next, ToSet(SlideIds(next)))
<1>. DEFINE old == ToSet(SlideIds(previous))
            new == ToSet(SlideIds(next))
            fetched(changes) == Range(changes.inserted) \cup Range(changes.modified)
            kept(changes) == (old \ Range(changes.removed)) \ fetched(changes)
<1>1. PICK changes : changes = between(previous, next)
    OBVIOUS
<1>2. /\ changes.order = SlideIds(next)
      /\ Range(changes.inserted) = new \ old
      /\ Range(changes.removed) = old \ new
      /\ Range(changes.modified) \subseteq new \cap old
      /\ \A id \in (new \cap old) \ Range(changes.modified) :
            InputOf(previous, id) = InputOf(next, id)
    BY <1>1, BetweenSays
<1>3. kept(changes) \cup fetched(changes) = new
    BY <1>2
<1>4. \A id \in kept(changes) : InputOf(previous, id) = InputOf(next, id)
    BY <1>2
<1>. DEFINE applied == Apply(shown, changes, next)
<1>5. shown.content = [id \in old |-> InputOf(previous, id)]
    BY DEF Show, InputOf
<1>6. applied.order = SlideIds(next)
    BY <1>2 DEF Apply
<1>7. applied.content
        = [id \in kept(changes) \cup fetched(changes) |->
              IF id \in kept(changes) THEN shown.content[id] ELSE Show(next, fetched(changes))[id]]
    BY <1>5 DEF Apply
<1>8. \A id \in kept(changes) : shown.content[id] = InputOf(previous, id)
    BY <1>5
<1>9. \A id \in fetched(changes) : Show(next, fetched(changes))[id] = InputOf(next, id)
    BY DEF Show, InputOf
<1>10. applied.content = [id \in new |-> InputOf(next, id)]
    <2>. HIDE DEF kept, fetched, applied, new
    <2>. QED
        BY <1>3, <1>4, <1>7, <1>8, <1>9
<1>. QED
    BY <1>1, <1>6, <1>10 DEF Show, InputOf

\* snapshots is a non-empty sequence.
Snapshots == snapshots \in Seq(Range(snapshots)) /\ Len(snapshots) > 0

\* Opening a source makes the first snapshot.
LEMMA SnapshotsInit == Init => Snapshots
BY DEF Init, CompilerInit, Snapshots, Range

\* Appending to a sequence known only by its range.
LEMMA AppendIs ==
    ASSUME NEW s, s \in Seq(Range(s)), NEW e
    PROVE  /\ Append(s, e) \in Seq(Range(Append(s, e)))
           /\ Len(Append(s, e)) = Len(s) + 1
           /\ DOMAIN Append(s, e) = 1..(Len(s) + 1)
           /\ Append(s, e)[Len(s) + 1] = e
           /\ \A i \in DOMAIN s : Append(s, e)[i] = s[i]
<1>1. s \in Seq(Range(s) \cup {e})
    OBVIOUS
<1>. QED
    BY <1>1 DEF Range

\* An update appends a snapshot; no other step adds one.
LEMMA SnapshotsNext == Snapshots /\ [Next]_vars => Snapshots'
<1>. SUFFICES ASSUME Snapshots, [Next]_vars PROVE Snapshots'
    OBVIOUS
<1>1. CASE UNCHANGED snapshots
    BY <1>1 DEF Snapshots, Range
<1>2. ASSUME NEW document \in Documents, Update(document)
      PROVE  Snapshots'
    BY <1>2, AppendIs DEF Update, update_source_with_changes, Snapshots
<1>. QED
    BY <1>1, <1>2 DEF Next, vars, prepare

\* A preview that only applies change sets shows the current slides.
THEOREM PreviewCorrect == Spec => []PreviewInStep
<1>1. Init => Snapshots /\ PreviewInStep
    BY SnapshotsInit DEF Init, CompilerInit, PreviewInStep, Current
<1>2. Snapshots /\ PreviewInStep /\ [Next]_vars => Snapshots' /\ PreviewInStep'
    <2>. SUFFICES ASSUME Snapshots, PreviewInStep, [Next]_vars PROVE PreviewInStep'
        BY SnapshotsNext
    <2>1. CASE UNCHANGED <<snapshots, preview>>
        BY <2>1 DEF PreviewInStep, Current
    <2>2. ASSUME NEW document \in Documents, Update(document)
          PROVE  PreviewInStep'
        <3>1. PICK next : /\ snapshots' = Append(snapshots, next)
                          /\ preview' = Apply(preview, between(Current, next), next)
            BY <2>2 DEF Update, update_source_with_changes
        <3>2. Current' = next
            BY <3>1, AppendIs DEF Snapshots, Current
        <3>3. /\ preview'.order = SlideIds(next)
              /\ preview'.content = Show(next, ToSet(SlideIds(next)))
            BY <3>1, ApplyBetween DEF PreviewInStep
        <3>. QED
            BY <3>2, <3>3 DEF PreviewInStep
    <2>. QED
        BY <2>1, <2>2 DEF Next, vars, prepare
<1>. QED
    BY <1>1, <1>2, PTL DEF Spec

-----------------------------------------------------------------------------
(***************************************************************************)
(* Handles asked for and handed out.                                       *)
(***************************************************************************)
LEMMA SmallSequences == \A S : <<>> \in Seq(S) /\ \A x \in S : <<x>> \in Seq(S)
OBVIOUS

\* A handle that a compiler whose counter stands at next has handed out.
HandedOut(handle, next) ==
    \/ \E label \in STRING : handle = Labeled(label)
    \/ \E n \in Nat : n < next /\ handle = Anonymous(n)

HandleDomains == {"node", "cell"}

\* The slots of a block whose handles name nodes, or cells.
SlotsOf(block, domain) ==
    IF domain = "node" THEN {NodeSlot(block, j) : j \in 0..Len(block.cells)}
    ELSE {CellSlot(block, j) : j \in 1..Len(block.cells)}

\* A handle is one of a domain in some templates.
Has(templates, domain, handle) ==
    \E p \in DOMAIN templates :
        \E k \in SlotsOf(Content[templates[p].text], domain) : templates[p].handles[k] = handle

TemplatesSound(templates, next) ==
    /\ next \in Nat
    /\ \E n \in Nat : DOMAIN templates = 1..n
    /\ \A p \in DOMAIN templates :
          /\ templates[p].text \in Texts
          /\ DOMAIN templates[p].handles = 1..SlotCount(Content[templates[p].text])
          /\ \A k \in DOMAIN templates[p].handles : HandedOut(templates[p].handles[k], next)

\* A slot is one of a node or of a cell, and the first one of the block's node.
LEMMA SlotsAre ==
    ASSUME NEW text \in Texts, NEW block, block = Content[text]
    PROVE  /\ DOMAIN block.cells = 1..Len(block.cells) /\ Len(block.cells) \in Nat
           /\ SlotCount(block) \in Nat
           /\ \A domain \in HandleDomains : SlotsOf(block, domain) \subseteq 1..SlotCount(block)
           /\ SlotsOf(block, "node") \cap SlotsOf(block, "cell") = {}
           /\ 1 \in SlotsOf(block, "node")
<1>1. /\ block.cells \in Seq([text : STRING, language : STRING, options : CellOptions])
      /\ block.kind = "cell" => Len(block.cells) = 1
    BY TextIs
<1>2. PICK n \in Nat : n = Len(block.cells)
    BY <1>1
<1>3. DOMAIN block.cells = 1..n
    BY <1>1, <1>2
<1>4. CASE block.kind = "cell"
    <2>1. /\ \A j : NodeSlot(block, j) = 1 /\ CellSlot(block, j) = 2
          /\ SlotCount(block) = 2 /\ n = 1
        BY <1>1, <1>2, <1>4 DEF NodeSlot, CellSlot, SlotCount
    <2>2. SlotsOf(block, "node") = {1} /\ SlotsOf(block, "cell") = {2}
        <3>1. SlotsOf(block, "node") = {1}
            BY <1>2, <2>1 DEF SlotsOf
        <3>2. SlotsOf(block, "cell") = {CellSlot(block, j) : j \in 1..1}
            BY <1>2, <2>1 DEF SlotsOf
        <3>. QED
            BY <2>1, <3>1, <3>2
    <2>. QED
        BY <1>2, <1>3, <2>1, <2>2 DEF HandleDomains
<1>5. CASE block.kind # "cell"
    <2>1. /\ \A j : NodeSlot(block, j) = IF j = 0 THEN 1 ELSE 2 * j
          /\ \A j : CellSlot(block, j) = 2 * j + 1
          /\ SlotCount(block) = 1 + 2 * n
        BY <1>2, <1>5 DEF NodeSlot, CellSlot, SlotCount
    <2>2. /\ SlotsOf(block, "node") = {IF j = 0 THEN 1 ELSE 2 * j : j \in 0..n}
          /\ SlotsOf(block, "cell") = {2 * j + 1 : j \in 1..n}
        BY <1>2, <2>1 DEF SlotsOf
    <2>3. \A i \in 0..n, j \in 1..n : (IF i = 0 THEN 1 ELSE 2 * i) # 2 * j + 1
        OBVIOUS
    <2>4. 1 \in SlotsOf(block, "node")
        <3>1. 0 \in 0..n /\ 1 = IF 0 = 0 THEN 1 ELSE 2 * 0
            OBVIOUS
        <3>. QED
            BY <2>2, <3>1
    <2>5. SlotsOf(block, "node") \subseteq 1..(1 + 2 * n)
        BY <2>2
    <2>6. SlotsOf(block, "cell") \subseteq 1..(1 + 2 * n)
        BY <2>2
    <2>7. SlotsOf(block, "node") \cap SlotsOf(block, "cell") = {}
        BY <2>2, <2>3
    <2>. QED
        BY <1>2, <1>3, <2>1, <2>4, <2>5, <2>6, <2>7 DEF HandleDomains
<1>. QED
    BY <1>4, <1>5

\* A cell's two slots.
LEMMA CellSlots ==
    ASSUME NEW text \in Texts, NEW block, block = Content[text], NEW j \in DOMAIN block.cells
    PROVE  /\ NodeSlot(block, j) \in SlotsOf(block, "node")
           /\ CellSlot(block, j) \in SlotsOf(block, "cell")
           /\ NodeSlot(block, j) # CellSlot(block, j)
<1>1. j \in 1..Len(block.cells) /\ j \in 0..Len(block.cells)
    BY SlotsAre
<1>2. NodeSlot(block, j) \in SlotsOf(block, "node") /\ CellSlot(block, j) \in SlotsOf(block, "cell")
    BY <1>1 DEF SlotsOf
<1>. QED
    BY <1>2, SlotsAre

Declarations == [label : STRING, block : Nat, node : Nat, cell : Nat]

\* Every label that a document declares is a string.
LEMMA LabelsAre ==
    ASSUME NEW document \in Documents
    PROVE  labels[document] \in Seq(Declarations)
<1>. DEFINE n == Len(Input[document].blocks)
            own(i) == IF Block(document, i).label = None THEN <<>>
                      ELSE <<Declaration(Block(document, i).label, i, 1, 0)>>
            inner(i) == [j \in DOMAIN Block(document, i).cells |-> CellDeclarations(document, i, j)]
            pieces == [i \in Blocks(document) |-> own(i) \o FlattenSeq(inner(i))]
<1>1. n \in Nat /\ Blocks(document) = 1..n
    BY DocumentIs
<1>2. ASSUME NEW i \in 1..n
      PROVE  pieces[i] \in Seq(Declarations)
    <2>0. PICK text \in Texts : Block(document, i) = Content[text]
        BY <1>1, BlockIs
    <2>1. PICK block : block = Content[text] /\ block = Block(document, i)
        BY <2>0
    <2>2. /\ block.label \in {None} \cup STRING
          /\ block.cells \in Seq([text : STRING, language : STRING, options : CellOptions])
        BY <2>1, TextIs
    <2>3. PICK m \in Nat : DOMAIN block.cells = 1..m
        BY <2>2
    <2>4. own(i) \in Seq(Declarations)
        <3>1. ASSUME block.label # None
              PROVE  Declaration(block.label, i, 1, 0) \in Declarations
            BY <2>2, <3>1 DEF Declaration, Declarations
        <3>. QED
            BY <2>1, <3>1, SmallSequences
    <2>5. ASSUME NEW j \in 1..m
          PROVE  CellDeclarations(document, i, j) \in Seq(Declarations)
        <3>1. PICK options \in CellOptions : options = block.cells[j].options
            <4>1. \A S : \A c \in Seq(S) : \A k \in DOMAIN c : c[k] \in S
                OBVIOUS
            <4>2. block.cells[j] \in [text : STRING, language : STRING, options : CellOptions]
                BY <2>2, <2>3, <4>1, Zenon
            <4>3. \A C : C \in [text : STRING, language : STRING, options : CellOptions] =>
                      C.options \in CellOptions
                OBVIOUS
            <4>. QED
                BY <4>2, <4>3
        <3>2. PICK entries \in Seq(OptionEntry) : entries = options.entries
            BY OptionsAre
        <3>3. LabelEntries(options) \subseteq DOMAIN entries
            BY <3>2 DEF LabelEntries
        <3>4. IsFiniteSet(LabelEntries(options)) /\ Cardinality(LabelEntries(options)) \in Nat
            <4>1. IsFiniteSet(DOMAIN entries)
                <5>1. PICK w \in Int : DOMAIN entries = 1..w
                    BY <3>2
                <5>. QED
                    BY <5>1, FS_Interval
            <4>. QED
                BY <3>3, <4>1, FS_Subset, FS_CardinalityType
        <3>5. PICK k \in Nat : k = Cardinality(LabelEntries(options))
            BY <3>4
        <3>. DEFINE label == entries[CHOOSE d \in LabelEntries(options) : TRUE].text
        <3>6. CellDeclarations(document, i, j)
                  = [e \in 1..k |-> Declaration(label, i, NodeSlot(block, j), CellSlot(block, j))]
            BY <2>1, <3>1, <3>2, <3>5 DEF CellDeclarations
        <3>7. CASE k = 0
            BY <3>6, <3>7, SmallSequences
        <3>8. CASE k # 0
            <4>1. LabelEntries(options) # {}
                BY <3>5, <3>8, FS_EmptySet
            <4>2. PICK d \in DOMAIN entries : d = CHOOSE x \in LabelEntries(options) : TRUE
                BY <3>3, <4>1
            <4>3. entries[d] \in OptionEntry
                BY <3>2, <4>2
            <4>4. label \in STRING
                BY <4>2, <4>3 DEF OptionEntry
            <4>5. NodeSlot(block, j) \in Nat /\ CellSlot(block, j) \in Nat
                BY DEF NodeSlot, CellSlot
            <4>. HIDE DEF label
            <4>6. Declaration(label, i, NodeSlot(block, j), CellSlot(block, j)) \in Declarations
                BY <4>4, <4>5 DEF Declaration, Declarations
            <4>7. PICK one \in Declarations :
                      one = Declaration(label, i, NodeSlot(block, j), CellSlot(block, j))
                BY <4>6
            <4>8. CellDeclarations(document, i, j) = [e \in 1..k |-> one]
                BY <3>6, <4>7
            <4>. QED
                BY <4>8
        <3>. QED
            BY <3>7, <3>8
    <2>6. FlattenSeq(inner(i)) \in Seq(Declarations)
        <3>1. /\ DOMAIN inner(i) = 1..m /\ Len(inner(i)) = m /\ (m = 0 => inner(i) = <<>>)
              /\ \A j \in 1..m : inner(i)[j] \in Seq(Declarations)
            BY <2>1, <2>3, <2>5
        <3>2. PICK f : f = inner(i)
            OBVIOUS
        <3>. HIDE DEF inner
        <3>. QED
            BY <3>1, <3>2, FlattenIs
    <2>7. pieces[i] = own(i) \o FlattenSeq(inner(i))
        BY <1>1
    <2>8. \A u, v \in Seq(Declarations) : u \o v \in Seq(Declarations)
        OBVIOUS
    <2>. HIDE DEF own, inner, pieces
    <2>. QED
        BY <2>4, <2>6, <2>7, <2>8, Zenon
<1>3. labels[document] = FlattenSeq(pieces)
    BY DEF labels
<1>4. DOMAIN pieces = 1..n /\ Len(pieces) = n /\ (n = 0 => pieces = <<>>)
    BY <1>1
<1>. HIDE DEF pieces
<1>. QED
    BY <1>1, <1>2, <1>3, <1>4, FlattenIs

\* What a slot is asked for: nothing, to be anonymous, or a label's handle.
LEMMA DesiredIs ==
    ASSUME NEW document \in Documents, NEW i \in Blocks(document),
           NEW k \in 1..SlotCount(Block(document, i))
    PROVE  \/ Desired[document][i][k] \in {Unassigned, MustBeAnonymous}
           \/ \E label \in STRING : Desired[document][i][k] = Labeled(label)
<1>1. PICK declared \in Seq(Declarations) : declared = labels[document]
    BY LabelsAre
<1>2. Desired[document][i][k] = LabelDesired(declared, i, k)
    BY <1>1 DEF Desired
<1>. DEFINE own == {d \in DOMAIN declared :
                       declared[d].block = i /\ k \in {declared[d].node, declared[d].cell}}
<1>3. own \in SUBSET Nat
    BY <1>1
<1>4. ASSUME own # {}
      PROVE  declared[Min(own)].label \in STRING
    <2>1. Min(own) \in DOMAIN declared
        BY <1>3, <1>4, MinIs
    <2>2. declared[Min(own)] \in Declarations
        <3>1. PICK d \in DOMAIN declared : d = Min(own)
            BY <2>1
        <3>. HIDE DEF own
        <3>2. declared[d] \in Declarations
            BY <1>1
        <3>. QED
            BY <3>1, <3>2
    <2>. QED
        BY <2>2 DEF Declarations
<1>5. \/ LabelDesired(declared, i, k) \in {Unassigned, MustBeAnonymous}
      \/ own # {} /\ LabelDesired(declared, i, k) = Labeled(declared[Min(own)].label)
    BY DEF LabelDesired
<1>. QED
    BY <1>2, <1>4, <1>5

\* A cell of a template as it is offered to match.
CandidateOf(template, block, j) ==
    [text |-> block.cells[j].text,
     node |-> template.handles[NodeSlot(block, j)],
     cell |-> template.handles[CellSlot(block, j)]]

CandidatesOf(template) ==
    {CandidateOf(template, Content[template.text], j) : j \in DOMAIN Content[template.text].cells}

CandidatesIn(templates) ==
    {c \in UNION {CandidatesOf(templates[p]) : p \in DOMAIN templates} : ~ IsLabeled(c.cell)}

\* The candidates collected from sound templates are candidates of those templates.
LEMMA CandidatesAre ==
    ASSUME NEW templates, NEW next, TemplatesSound(templates, next)
    PROVE  CellCandidates(templates) \in Seq(CandidatesIn(templates))
<1>. DEFINE C(p, j) == CandidateOf(templates[p], Content[templates[p].text], j)
            inner(p) == [j \in DOMAIN Content[templates[p].text].cells |->
                            IF IsLabeled(C(p, j).cell) THEN <<>> ELSE <<C(p, j)>>]
            pieces == [p \in DOMAIN templates |-> FlattenSeq(inner(p))]
<1>1. PICK n \in Nat : DOMAIN templates = 1..n
    BY DEF TemplatesSound
<1>2. ASSUME NEW p \in 1..n
      PROVE  FlattenSeq(inner(p)) \in Seq(CandidatesIn(templates))
    <2>1. PICK text \in Texts : text = templates[p].text
        BY <1>1 DEF TemplatesSound
    <2>2. PICK block : block = Content[text]
        OBVIOUS
    <2>3. PICK m \in Nat : DOMAIN block.cells = 1..m
        BY <2>2, SlotsAre
    <2>4. ASSUME NEW j \in 1..m
          PROVE  ~ IsLabeled(C(p, j).cell) => C(p, j) \in CandidatesIn(templates)
        <3>1. p \in DOMAIN templates /\ j \in DOMAIN Content[templates[p].text].cells
            BY <1>1, <2>1, <2>2, <2>3
        <3>2. C(p, j) \in CandidatesOf(templates[p])
            BY <3>1, Zenon DEF CandidatesOf
        <3>3. C(p, j) \in UNION {CandidatesOf(templates[q]) : q \in DOMAIN templates}
            BY <3>1, <3>2, Zenon
        <3>. QED
            BY <3>3 DEF CandidatesIn
    <2>5. PICK f : f = inner(p)
        OBVIOUS
    <2>6. f = [j \in 1..m |-> IF IsLabeled(C(p, j).cell) THEN <<>> ELSE <<C(p, j)>>]
        BY <2>1, <2>2, <2>3, <2>5
    <2>7. \A j \in 1..m : f[j] \in Seq(CandidatesIn(templates))
        <3>. HIDE DEF C
        <3>1. ASSUME NEW j \in 1..m PROVE f[j] \in Seq(CandidatesIn(templates))
            <4>1. CASE IsLabeled(C(p, j).cell)
                BY <2>6, <4>1, SmallSequences
            <4>2. CASE ~ IsLabeled(C(p, j).cell)
                BY <2>4, <2>6, <4>2, SmallSequences
            <4>. QED
                BY <4>1, <4>2
        <3>. QED
            BY <3>1
    <2>8. DOMAIN f = 1..m /\ Len(f) = m /\ (m = 0 => f = <<>>)
        BY <2>6
    <2>9. FlattenSeq(f) \in Seq(CandidatesIn(templates))
        BY <2>7, <2>8, FlattenIs
    <2>. QED
        BY <2>5, <2>9
<1>3. CellCandidates(templates) = FlattenSeq(pieces)
    BY DEF CellCandidates, CandidateOf
<1>. HIDE DEF inner
<1>4. /\ DOMAIN pieces = 1..n /\ Len(pieces) = n /\ (n = 0 => pieces = <<>>)
      /\ \A p \in 1..n : pieces[p] \in Seq(CandidatesIn(templates))
    BY <1>1, <1>2
<1>. HIDE DEF pieces
<1>. QED
    BY <1>3, <1>4, FlattenIs

\* What slot k of block i takes, given the candidate picked for each cell: the
\* cell's handle, a node's, or what it was asked for.
Takes(desired, cells, slots, candidates, pick, m, i, k, taken) ==
    \/ /\ taken = desired[i][k]
       /\ \A n \in 1..m :
              pick[n] # 0 /\ cells[n][1] = i => k \notin {slots[n].node, slots[n].cell}
    \/ \E n \in 1..m :
          /\ pick[n] # 0 /\ cells[n][1] = i
          /\ \/ k = slots[n].cell /\ taken = candidates[pick[n]].cell
             \/ /\ k = slots[n].node /\ k # slots[n].cell
                /\ \/ IsLabeled(desired[i][k]) /\ taken = desired[i][k]
                   \/ /\ ~ IsLabeled(desired[i][k]) /\ IsLabeled(candidates[pick[n]].node)
                      /\ taken = MustBeAnonymous
                   \/ /\ ~ IsLabeled(desired[i][k]) /\ ~ IsLabeled(candidates[pick[n]].node)
                      /\ taken = candidates[pick[n]].node

\* Where Assign takes a handle from: the desired one, or that of the candidate the cell was matched
\* with.
LEMMA AssignIs ==
    ASSUME NEW desired, NEW cells, NEW slots, NEW candidates, NEW pick,
           NEW m \in Nat, DOMAIN cells = 1..m,
           \A n \in 1..m : DOMAIN slots[n] = {"node", "cell"},
           NEW i \in DOMAIN desired, NEW k \in DOMAIN desired[i],
           NEW assigned, assigned = Assign(desired, cells, slots, candidates, pick)
    PROVE  /\ DOMAIN assigned = DOMAIN desired /\ DOMAIN assigned[i] = DOMAIN desired[i]
           /\ Takes(desired, cells, slots, candidates, pick, m, i, k, assigned[i][k])
<1>. DEFINE matched == {n \in DOMAIN cells : pick[n] # 0 /\ cells[n][1] = i /\ k \in Range(slots[n])}
            first == Min(matched)
<1>1. \A n \in 1..m : Range(slots[n]) = {slots[n].node, slots[n].cell}
    BY DEF Range
<1>2. matched \in SUBSET Nat /\ matched \subseteq 1..m
    OBVIOUS
<1>3. CASE matched = {}
    <2>1. assigned[i][k] = desired[i][k]
        BY <1>3 DEF Assign
    <2>2. \A n \in 1..m : pick[n] # 0 /\ cells[n][1] = i =>
              k \notin {slots[n].node, slots[n].cell}
        BY <1>1, <1>3
    <2>3. DOMAIN assigned = DOMAIN desired /\ DOMAIN assigned[i] = DOMAIN desired[i]
        BY DEF Assign
    <2>. QED
        BY <2>1, <2>2, <2>3, SMTT(30) DEF Takes
<1>4. CASE matched # {}
    <2>1. PICK n \in matched : n = first
        BY <1>2, <1>4, MinIs
    <2>2. /\ n \in 1..m /\ pick[n] # 0 /\ cells[n][1] = i
          /\ k = slots[n].node \/ k = slots[n].cell
        BY <1>1, <1>2, SMTT(30)
    <2>3. assigned[i][k]
            = IF k = slots[n].cell THEN candidates[pick[n]].cell
              ELSE IF IsLabeled(desired[i][k]) THEN desired[i][k]
              ELSE IF IsLabeled(candidates[pick[n]].node) THEN MustBeAnonymous
              ELSE candidates[pick[n]].node
        BY <1>4, <2>1 DEF Assign
    <2>4. DOMAIN assigned = DOMAIN desired /\ DOMAIN assigned[i] = DOMAIN desired[i]
        BY DEF Assign
    <2>. QED
        BY <2>2, <2>3, <2>4 DEF Takes
<1>. QED
    BY <1>3, <1>4

\* A candidate carries a node handle and an anonymous cell handle of the
\* templates.
LEMMA CandidateHas ==
    ASSUME NEW templates, NEW next, TemplatesSound(templates, next),
           NEW c \in CandidatesIn(templates)
    PROVE  /\ Has(templates, "node", c.node) /\ HandedOut(c.node, next)
           /\ Has(templates, "cell", c.cell) /\ HandedOut(c.cell, next)
           /\ ~ IsLabeled(c.cell)
<1>1. PICK p \in DOMAIN templates : c \in CandidatesOf(templates[p])
    BY DEF CandidatesIn
<1>2. PICK text \in Texts : text = templates[p].text
    BY DEF TemplatesSound
<1>3. PICK block : block = Content[text]
    OBVIOUS
<1>4. PICK j \in DOMAIN block.cells : c = CandidateOf(templates[p], block, j)
    BY <1>1, <1>2, <1>3 DEF CandidatesOf
<1>5. PICK k \in SlotsOf(block, "node") : c.node = templates[p].handles[k]
    BY <1>3, <1>4, CellSlots DEF CandidateOf
<1>6. PICK l \in SlotsOf(block, "cell") : c.cell = templates[p].handles[l]
    BY <1>3, <1>4, CellSlots DEF CandidateOf
<1>7. k \in 1..SlotCount(block) /\ l \in 1..SlotCount(block)
    BY <1>3, SlotsAre DEF HandleDomains
<1>8. HandedOut(c.node, next) /\ HandedOut(c.cell, next)
    BY <1>1, <1>2, <1>3, <1>5, <1>6, <1>7 DEF TemplatesSound
<1>9. Has(templates, "node", c.node) /\ Has(templates, "cell", c.cell)
    BY <1>2, <1>3, <1>5, <1>6 DEF Has
<1>. QED
    BY <1>8, <1>9 DEF CandidatesIn

\* What a slot is asked to take: anything, anything anonymous, a label's
\* handle, or a handle of its own domain in the preceding templates.
AskedFor(templates, next, block, k, asked) ==
    \/ asked \in {Unassigned, MustBeAnonymous}
    \/ \E label \in STRING : asked = Labeled(label)
    \/ /\ HandedOut(asked, next)
       /\ \A domain \in HandleDomains : k \in SlotsOf(block, domain) => Has(templates, domain, asked)

\* Cells are matched with cells and nodes with nodes (match_cells).
LEMMA IdentitiesAre ==
    ASSUME NEW document \in Documents, NEW templates, NEW next, TemplatesSound(templates, next),
           NEW assigned, assigned = match_identities(document, templates)
    PROVE  /\ DOMAIN assigned = Blocks(document)
           /\ \A i \in Blocks(document) :
                 /\ DOMAIN assigned[i] = 1..SlotCount(Block(document, i))
                 /\ \A k \in 1..SlotCount(Block(document, i)) :
                       AskedFor(templates, next, Block(document, i), k, assigned[i][k])
<1>. DEFINE S(n) == Slots(document, CellsOf[document][n])
<1>1. PICK desired : desired = Desired[document]
    OBVIOUS
<1>2. PICK cells \in Seq(Nat \X Nat) : cells = CellsOf[document]
    BY CellsOfIs
<1>3. PICK m \in Nat : DOMAIN cells = 1..m
    BY <1>2, SMTT(30)
<1>4. PICK slots : slots = [n \in DOMAIN cells |-> S(n)]
    OBVIOUS
<1>5. PICK candidates \in Seq(CandidatesIn(templates)) : candidates = CellCandidates(templates)
    BY CandidatesAre
<1>6. PICK fits : fits = [n \in DOMAIN cells |->
                             {c \in DOMAIN candidates :
                                 /\ ~ IsLabeled(desired[cells[n][1]][slots[n].cell])
                                 /\ candidates[c].text = CellAt(document, cells[n]).text}]
    OBVIOUS
<1>7. PICK pick : pick = FirstFit(fits)
    OBVIOUS
<1>8. assigned = Assign(desired, cells, slots, candidates, pick)
    BY <1>1, <1>2, <1>4, <1>5, <1>6, <1>7, Zenon DEF match_identities
<1>9. \A n \in 1..m : pick[n] # 0 => candidates[pick[n]] \in CandidatesIn(templates)
    <2>1. DOMAIN fits = 1..m /\ \A n \in 1..m : fits[n] \in SUBSET (Nat \ {0})
        <3>1. DOMAIN candidates \in SUBSET (Nat \ {0})
            OBVIOUS
        <3>. QED
            BY <1>3, <1>6, <3>1
    <2>2. \A n \in 1..m : pick[n] # 0 => pick[n] \in fits[n]
        BY <1>7, <2>1, FirstFitIs
    <2>3. \A n \in 1..m : pick[n] # 0 => pick[n] \in DOMAIN candidates
        BY <1>3, <1>6, <2>2
    <2>. QED
        BY <2>3
<1>10. /\ DOMAIN desired = Blocks(document)
       /\ \A i \in Blocks(document) : DOMAIN desired[i] = 1..SlotCount(Block(document, i))
    BY <1>1 DEF Desired
<1>11. ASSUME NEW n \in 1..m
       PROVE  /\ DOMAIN slots[n] = {"node", "cell"}
              /\ cells[n][1] \in Blocks(document)
              /\ slots[n].node \in SlotsOf(Block(document, cells[n][1]), "node")
              /\ slots[n].cell \in SlotsOf(Block(document, cells[n][1]), "cell")
    <2>1. cells[n] \in ToSet(cells)
        BY <1>3 DEF ToSet
    <2>2. PICK at \in ToSet(CellsOf[document]) : at = cells[n]
        BY <1>2, <2>1
    <2>3. PICK i \in Blocks(document), j \in Nat :
              at = <<i, j>> /\ cells[n] = <<i, j>> /\ j \in DOMAIN Block(document, i).cells
        BY <1>2, <1>3, <2>2, CellPlace
    <2>4. PICK text \in Texts : Block(document, i) = Content[text]
        BY BlockIs
    <2>5. PICK block : block = Content[text]
        OBVIOUS
    <2>6. slots[n] = [node |-> NodeSlot(block, j), cell |-> CellSlot(block, j)]
        BY <1>2, <1>3, <1>4, <2>3, <2>4, <2>5 DEF Slots
    <2>7. NodeSlot(block, j) \in SlotsOf(block, "node") /\ CellSlot(block, j) \in SlotsOf(block, "cell")
        BY <2>3, <2>4, <2>5, CellSlots
    <2>. QED
        BY <2>3, <2>4, <2>5, <2>6, <2>7
<1>12. ASSUME NEW i \in Blocks(document), NEW k \in 1..SlotCount(Block(document, i))
       PROVE  /\ DOMAIN assigned = DOMAIN desired /\ DOMAIN assigned[i] = DOMAIN desired[i]
              /\ AskedFor(templates, next, Block(document, i), k, assigned[i][k])
    <2>1. PICK text \in Texts : Block(document, i) = Content[text]
        BY BlockIs
    <2>2. PICK block : block = Content[text]
        OBVIOUS
    <2>3. AskedFor(templates, next, block, k, desired[i][k])
        BY <1>1, DesiredIs DEF AskedFor
    <2>4. k \notin SlotsOf(block, "node") \/ k \notin SlotsOf(block, "cell")
        BY <2>2, SlotsAre
    <2>5. /\ DOMAIN assigned = DOMAIN desired /\ DOMAIN assigned[i] = DOMAIN desired[i]
          /\ \/ assigned[i][k] \in {desired[i][k], MustBeAnonymous}
             \/ \E n \in 1..m :
                   /\ pick[n] # 0 /\ cells[n][1] = i
                   /\ \/ k = slots[n].cell /\ assigned[i][k] = candidates[pick[n]].cell
                      \/ k = slots[n].node /\ assigned[i][k] = candidates[pick[n]].node
        <3>1. i \in DOMAIN desired /\ k \in DOMAIN desired[i]
            BY <1>10
        <3>2. \A n \in 1..m : DOMAIN slots[n] = {"node", "cell"}
            BY <1>11
        <3>3. /\ DOMAIN assigned = DOMAIN desired /\ DOMAIN assigned[i] = DOMAIN desired[i]
              /\ Takes(desired, cells, slots, candidates, pick, m, i, k, assigned[i][k])
            BY <1>3, <1>8, <3>1, <3>2, AssignIs
        <3>4. PICK taken : taken = assigned[i][k]
            OBVIOUS
        <3>. QED
            BY <3>3, <3>4 DEF Takes
    <2>6. CASE assigned[i][k] \in {desired[i][k], MustBeAnonymous}
        BY <2>1, <2>2, <2>3, <2>5, <2>6 DEF AskedFor
    <2>7. ASSUME NEW n \in 1..m, pick[n] # 0, cells[n][1] = i,
                 k = slots[n].cell, assigned[i][k] = candidates[pick[n]].cell
          PROVE  AskedFor(templates, next, block, k, assigned[i][k])
        <3>1. k \in SlotsOf(block, "cell") /\ k \notin SlotsOf(block, "node")
            BY <1>11, <2>1, <2>2, <2>4, <2>7
        <3>2. Has(templates, "cell", assigned[i][k]) /\ HandedOut(assigned[i][k], next)
            BY <1>9, <2>7, CandidateHas
        <3>. QED
            BY <3>1, <3>2 DEF AskedFor, HandleDomains
    <2>8. ASSUME NEW n \in 1..m, pick[n] # 0, cells[n][1] = i,
                 k = slots[n].node, assigned[i][k] = candidates[pick[n]].node
          PROVE  AskedFor(templates, next, block, k, assigned[i][k])
        <3>1. k \in SlotsOf(block, "node") /\ k \notin SlotsOf(block, "cell")
            BY <1>11, <2>1, <2>2, <2>4, <2>8
        <3>2. Has(templates, "node", assigned[i][k]) /\ HandedOut(assigned[i][k], next)
            BY <1>9, <2>8, CandidateHas
        <3>. QED
            BY <3>1, <3>2 DEF AskedFor, HandleDomains
    <2>. QED
        BY <2>1, <2>2, <2>5, <2>6, <2>7, <2>8
<1>13. ASSUME NEW i \in Blocks(document)
       PROVE  1 \in 1..SlotCount(Block(document, i))
    BY BlockIs, SlotsAre DEF HandleDomains
<1>14. DOMAIN assigned = DOMAIN desired
    BY <1>8 DEF Assign
<1>15. \A i \in Blocks(document) : DOMAIN assigned[i] = DOMAIN desired[i]
    BY <1>12, <1>13
<1>. QED
    BY <1>10, <1>12, <1>14, <1>15

\* Slots keep the handle assigned to them; the others are counted out from
\* next, one for every slot that needs one.
Allocated(m, assigned, next) ==
    /\ DOMAIN Allocate(assigned, next) = 1..m
    /\ Fresh(assigned) \in Nat
    /\ \A k \in 1..m :
          \/ IsHandle(assigned[k]) /\ Allocate(assigned, next)[k] = assigned[k]
          \/ \E c \in Nat : /\ next <= c /\ c < next + Fresh(assigned)
                            /\ Allocate(assigned, next)[k] = Anonymous(c)

\* Allocate does so, whatever was assigned.
LEMMA AllocateIs ==
    ASSUME NEW m \in Nat, NEW assigned, DOMAIN assigned = 1..m, NEW next \in Nat
    PROVE  Allocated(m, assigned, next)
<1>. DEFINE Without(n) == {h \in 1..n : ~ IsHandle(assigned[h])}
<1>1. \A n \in Int : IsFiniteSet(Without(n)) /\ Cardinality(Without(n)) \in Nat
    <2>1. ASSUME NEW n \in Int
          PROVE  IsFiniteSet(Without(n)) /\ Cardinality(Without(n)) \in Nat
        <3>1. IsFiniteSet(1..n) /\ Without(n) \subseteq 1..n
            BY FS_Interval
        <3>. QED
            BY <3>1, FS_Subset, FS_CardinalityType
    <2>. QED
        BY <2>1
<1>2. Fresh(assigned) = Cardinality(Without(m))
    BY DEF Fresh
<1>. HIDE DEF Without
<1>3. ASSUME NEW k \in 1..m, ~ IsHandle(assigned[k])
      PROVE  /\ Cardinality(Without(k - 1)) < Cardinality(Without(m))
             /\ Allocate(assigned, next)[k] = Anonymous(next + Cardinality(Without(k - 1)))
    <2>1. k \notin Without(k - 1) /\ Without(k - 1) \cup {k} \subseteq Without(m)
        BY <1>3 DEF Without
    <2>2. PICK S : S = Without(k - 1)
        OBVIOUS
    <2>3. PICK F : F = Without(m)
        OBVIOUS
    <2>4. IsFiniteSet(S) /\ IsFiniteSet(F) /\ Cardinality(S) \in Nat /\ Cardinality(F) \in Nat
        <3>1. k - 1 \in Int /\ m \in Int
            OBVIOUS
        <3>. QED
            BY <1>1, <2>2, <2>3, <3>1
    <2>5. Cardinality(S \cup {k}) = Cardinality(S) + 1 /\ IsFiniteSet(S \cup {k})
        BY <2>1, <2>2, <2>4, FS_AddElement
    <2>6. Cardinality(S \cup {k}) <= Cardinality(F)
        BY <2>1, <2>2, <2>3, <2>4, FS_Subset
    <2>7. Allocate(assigned, next)[k] = Anonymous(next + Cardinality(Without(k - 1)))
        BY <1>3 DEF Allocate, Without
    <2>. QED
        BY <2>2, <2>3, <2>4, <2>5, <2>6, <2>7
<1>4. DOMAIN Allocate(assigned, next) = 1..m
    BY DEF Allocate
<1>5. ASSUME NEW k \in 1..m
      PROVE  \/ IsHandle(assigned[k]) /\ Allocate(assigned, next)[k] = assigned[k]
             \/ \E c \in Nat : /\ next <= c /\ c < next + Fresh(assigned)
                               /\ Allocate(assigned, next)[k] = Anonymous(c)
    <2>1. CASE IsHandle(assigned[k])
        BY <2>1 DEF Allocate
    <2>2. CASE ~ IsHandle(assigned[k])
        <3>1. PICK c \in Nat : c = Cardinality(Without(k - 1))
            <4>1. k - 1 \in Int
                OBVIOUS
            <4>. QED
                BY <1>1, <4>1
        <3>2. PICK f \in Nat : f = Cardinality(Without(m))
            BY <1>1
        <3>3. /\ next + c \in Nat /\ next <= next + c /\ next + c < next + f
              /\ Allocate(assigned, next)[k] = Anonymous(next + c)
            BY <1>3, <2>2, <3>1, <3>2
        <3>. QED
            BY <1>2, <3>2, <3>3
    <2>. QED
        BY <2>1, <2>2
<1>6. Fresh(assigned) \in Nat
    BY <1>1, <1>2
<1>. QED
    BY <1>4, <1>5, <1>6 DEF Allocated

\* A handle stays handed out as the counter grows.
LEMMA HandedOutLater ==
    ASSUME NEW n \in Nat, NEW m \in Nat, n <= m, NEW handle, HandedOut(handle, n)
    PROVE  HandedOut(handle, m)
<1>1. ASSUME NEW k \in Nat, k < n, handle = Anonymous(k)
      PROVE  HandedOut(handle, m)
    <2>1. k < m
        BY <1>1
    <2>. QED
        BY <1>1, <2>1 DEF HandedOut
<1>. QED
    BY <1>1 DEF HandedOut

BuildStep(blocks, revision, templates, assigned, pick, built, i) ==
    IF pick[i] = 0
    THEN [templates |-> Append(built.templates,
                               [text |-> blocks[i],
                                born |-> <<revision, i>>,
                                handles |-> Allocate(assigned[i], built.next)]),
          next |-> built.next + Fresh(assigned[i])]
    ELSE [templates |-> Append(built.templates, templates[pick[i]]), next |-> built.next]

Unused(a, b, c, d, e, seq, n, made) == TRUE

Building == INSTANCE SequenceFolds WITH Step <- BuildStep, Invariant <- Unused

\* A handle is a label's, one of the preceding templates, or counted out since.
From(templates, next, domain, handle) ==
    \/ IsLabeled(handle)
    \/ Has(templates, domain, handle)
    \/ \E n \in Nat : n >= next /\ handle = Anonymous(n)

\* What becomes of one block: a template of its own text, whose handles are
\* known and come from the preceding templates.
TemplateOk(templates, next, later, text, template) ==
    /\ template.text = text
    /\ DOMAIN template.handles = 1..SlotCount(Content[text])
    /\ \A k \in 1..SlotCount(Content[text]) :
          /\ HandedOut(template.handles[k], later)
          /\ \A domain \in HandleDomains :
                k \in SlotsOf(Content[text], domain) =>
                    From(templates, next, domain, template.handles[k])

\* A template built anew is sound: what it reuses was handed out before, what it allocates is now.
LEMMA NewTemplate ==
    ASSUME NEW templates, NEW next \in Nat, NEW now \in Nat, next <= now,
           NEW text \in Texts, NEW assigned,
           DOMAIN assigned = 1..SlotCount(Content[text]),
           \A k \in 1..SlotCount(Content[text]) :
               AskedFor(templates, next, Content[text], k, assigned[k]),
           NEW born
    PROVE  /\ Fresh(assigned) \in Nat
           /\ TemplateOk(templates, next, now + Fresh(assigned), text,
                         [text |-> text, born |-> born, handles |-> Allocate(assigned, now)])
<1>. DEFINE block == Content[text]
            handles == Allocate(assigned, now)
<1>1. PICK m \in Nat : m = SlotCount(block)
    BY SlotsAre
<1>2. /\ DOMAIN handles = 1..SlotCount(block) /\ Fresh(assigned) \in Nat
      /\ \A k \in 1..SlotCount(block) :
            \/ IsHandle(assigned[k]) /\ handles[k] = assigned[k]
            \/ \E c \in Nat : now <= c /\ c < now + Fresh(assigned) /\ handles[k] = Anonymous(c)
    <2>1. DOMAIN assigned = 1..m
        BY <1>1
    <2>2. Allocated(m, assigned, now)
        BY <2>1, AllocateIs
    <2>. QED
        BY <1>1, <2>2 DEF Allocated
<1>. HIDE DEF handles
<1>3. PICK later \in Nat : later = now + Fresh(assigned) /\ now <= later /\ next <= later
    BY <1>2
<1>4. ASSUME NEW k \in 1..SlotCount(block)
      PROVE  /\ HandedOut(handles[k], later)
             /\ \A domain \in HandleDomains :
                   k \in SlotsOf(block, domain) => From(templates, next, domain, handles[k])
    <2>1. CASE IsHandle(assigned[k]) /\ handles[k] = assigned[k]
        <3>1. AskedFor(templates, next, block, k, handles[k])
            BY <2>1
        <3>2. ASSUME NEW label \in STRING, handles[k] = Labeled(label)
              PROVE  HandedOut(handles[k], later) /\ IsLabeled(handles[k])
            BY <3>2, DocumentAssumption DEF HandedOut, IsLabeled, Labeled
        <3>3. ASSUME HandedOut(handles[k], next),
                     \A domain \in HandleDomains :
                         k \in SlotsOf(block, domain) => Has(templates, domain, handles[k])
              PROVE  /\ HandedOut(handles[k], later)
                     /\ \A domain \in HandleDomains :
                           k \in SlotsOf(block, domain) => From(templates, next, domain, handles[k])
            BY <1>3, <3>3, HandedOutLater DEF From
        <3>4. handles[k] \notin {Unassigned, MustBeAnonymous}
            BY <2>1 DEF IsHandle
        <3>. QED
            BY <3>1, <3>2, <3>3, <3>4 DEF AskedFor, From
    <2>2. ASSUME NEW c \in Nat, now <= c, c < now + Fresh(assigned), handles[k] = Anonymous(c)
          PROVE  /\ HandedOut(handles[k], later)
                 /\ \A domain \in HandleDomains : From(templates, next, domain, handles[k])
        <3>1. c < later /\ c >= next
            BY <1>3, <2>2
        <3>. QED
            BY <2>2, <3>1 DEF HandedOut, From
    <2>. QED
        BY <1>2, <2>1, <2>2
<1>5. TemplateOk(templates, next, later, text, [text |-> text, born |-> born, handles |-> handles])
    BY <1>2, <1>4 DEF TemplateOk
<1>. QED
    BY <1>2, <1>3, <1>5 DEF handles

\* A template carried over unchanged stays sound under the new counter.
LEMMA ReusedTemplate ==
    ASSUME NEW templates, NEW next \in Nat, TemplatesSound(templates, next),
           NEW now \in Nat, next <= now, NEW p \in DOMAIN templates,
           NEW text \in Texts, templates[p].text = text
    PROVE  TemplateOk(templates, next, now, text, templates[p])
<1>1. /\ DOMAIN templates[p].handles = 1..SlotCount(Content[text])
      /\ \A k \in 1..SlotCount(Content[text]) : HandedOut(templates[p].handles[k], next)
    BY DEF TemplatesSound
<1>2. \A k \in 1..SlotCount(Content[text]) : HandedOut(templates[p].handles[k], now)
    BY <1>1, HandedOutLater
<1>3. \A domain \in HandleDomains : \A k \in SlotsOf(Content[text], domain) :
          From(templates, next, domain, templates[p].handles[k])
    BY DEF From, Has
<1>. QED
    BY <1>1, <1>2, <1>3 DEF TemplateOk

\* A sound template stays sound as the counter grows.
LEMMA TemplateOkLater ==
    ASSUME NEW templates, NEW next, NEW n \in Nat, NEW m \in Nat, n <= m, NEW text, NEW template,
           TemplateOk(templates, next, n, text, template)
    PROVE  TemplateOk(templates, next, m, text, template)
BY HandedOutLater DEF TemplateOk

\* The templates that suit a block (reusable_identity).
Reusable(document, templates, assigned) ==
    [i \in Blocks(document) |->
        {p \in DOMAIN templates :
            templates[p].text = Input[document].blocks[i] /\ matches(assigned[i], templates[p])}]

\* How the templates of a document come about: a block whose pick is 0 gets
\* one of its own, with handles counted out from where the block before left
\* the counter.
Built(document, templates, next, assigned, pick, now, made) ==
    /\ now[0] = next /\ made.next = now[Len(Input[document].blocks)]
    /\ DOMAIN made.templates = Blocks(document)
    /\ \A i \in 0..Len(Input[document].blocks) : now[i] \in Nat
    /\ \A i \in 1..Len(Input[document].blocks) :
          /\ pick[i] = 0 =>
                /\ made.templates[i].text = Input[document].blocks[i]
                /\ made.templates[i].handles = Allocate(assigned[i], now[i - 1])
                /\ now[i] = now[i - 1] + Fresh(assigned[i])
          /\ pick[i] # 0 => made.templates[i] = templates[pick[i]] /\ now[i] = now[i - 1]

\* semantic_nodes reuses templates in turn and builds the others with the counter in hand.
LEMMA NodesBuilt ==
    ASSUME NEW document \in Documents, NEW templates, NEW next, TemplatesSound(templates, next),
           NEW revision, NEW made, made = semantic_nodes(document, templates, next, revision),
           NEW assigned, assigned = match_identities(document, templates)
    PROVE  \E pick, now :
              /\ InTurn(Reusable(document, templates, assigned), Len(Input[document].blocks), pick)
              /\ Built(document, templates, next, assigned, pick, now, made)
<1>1. PICK blocks \in Seq(Texts) : blocks = Input[document].blocks
    BY DocumentIs
<1>2. PICK n \in Nat : DOMAIN blocks = 1..n /\ Blocks(document) = 1..n /\ Len(blocks) = n
    BY <1>1 DEF Blocks
<1>4. PICK fits : fits = [i \in DOMAIN blocks |->
                             {p \in DOMAIN templates :
                                 templates[p].text = blocks[i] /\ matches(assigned[i], templates[p])}]
    OBVIOUS
<1>5. PICK pick : pick = FirstFit(fits)
    OBVIOUS
<1>6. PICK base, seq : /\ base = [templates |-> <<>>, next |-> next]
                       /\ seq = [i \in DOMAIN blocks |-> i]
    OBVIOUS
<1>7. made = Building!Fold(blocks, revision, templates, assigned, pick, base, seq)
    <2>1. made = Building!Fold(
                     Input[document].blocks, revision, templates, match_identities(document, templates),
                     FirstFit([i \in DOMAIN Input[document].blocks |->
                         {p \in DOMAIN templates :
                             /\ templates[p].text = Input[document].blocks[i]
                             /\ matches(match_identities(document, templates)[i], templates[p])}]),
                     [templates |-> <<>>, next |-> next], [i \in DOMAIN Input[document].blocks |-> i])
        BY Zenon DEF semantic_nodes, FoldLeftDomain, FoldLeft, MapThenFoldSet, Max,
                     Building!Fold, Building!IsFold, Building!Greatest, BuildStep
    <2>. QED
        BY <1>1, <1>4, <1>5, <1>6, <2>1, Zenon
<1>8. PICK after :
          /\ after[0] = base
          /\ \A i \in 1..n : after[i] = BuildStep(blocks, revision, templates, assigned, pick,
                                                  after[i - 1], seq[i])
          /\ made = after[n]
    <2>1. DOMAIN seq = 1..n
        BY <1>2, <1>6
    <2>2. \E after :
              /\ after[0] = base
              /\ \A i \in 1..n : after[i] = BuildStep(blocks, revision, templates, assigned, pick,
                                                      after[i - 1], seq[i])
              /\ Building!Fold(blocks, revision, templates, assigned, pick, base, seq) = after[n]
        BY <2>1, Building!FoldSteps
    <2>. QED
        BY <1>7, <2>2, Zenon
<1>9. fits = Reusable(document, templates, assigned) /\ InTurn(fits, n, pick)
    <2>1. DOMAIN fits = 1..n /\ \A i \in 1..n : fits[i] \in SUBSET (Nat \ {0})
        <3>1. DOMAIN templates \in SUBSET (Nat \ {0})
            BY DEF TemplatesSound
        <3>. QED
            BY <1>2, <1>4, <3>1
    <2>2. InTurn(fits, n, pick)
        BY <1>5, <2>1, FirstFitInTurn
    <2>3. fits = Reusable(document, templates, assigned)
        BY <1>1, <1>4 DEF Reusable, Blocks
    <2>. QED
        BY <2>2, <2>3
<1>10. ASSUME NEW i \in 1..n
       PROVE  Fresh(assigned[i]) \in Nat
    <2>1. i \in Blocks(document)
        BY <1>2
    <2>2. DOMAIN assigned[i] = 1..SlotCount(Block(document, i))
        BY <2>1, IdentitiesAre
    <2>3. PICK m \in Nat : m = SlotCount(Block(document, i))
        BY <2>1, BlockIs, SlotsAre
    <2>4. PICK asked : asked = assigned[i] /\ DOMAIN asked = 1..m
        BY <2>2, <2>3
    <2>5. Allocated(m, asked, 0)
        BY <2>4, AllocateIs
    <2>. QED
        BY <2>4, <2>5 DEF Allocated
<1>11. next \in Nat
    BY DEF TemplatesSound
<1>12. PICK now : now = [i \in 0..n |-> after[i].next]
    OBVIOUS
<1>. DEFINE Made(i, template) ==
                /\ pick[i] = 0 => /\ template.text = blocks[i]
                                  /\ template.handles = Allocate(assigned[i], now[i - 1])
                                  /\ now[i] = now[i - 1] + Fresh(assigned[i])
                /\ pick[i] # 0 => template = templates[pick[i]] /\ now[i] = now[i - 1]
            Ok(k) ==
                /\ now[k] \in Nat
                /\ after[k].templates \in Seq(Range(after[k].templates))
                /\ Len(after[k].templates) = k
                /\ \A i \in 1..k : Made(i, after[k].templates[i])
            T == {k \in 0..n : Ok(k)}
<1>13. 0 \in T
    <2>1. after[0].templates = <<>> /\ now[0] = next
        BY <1>6, <1>8, <1>12
    <2>2. <<>> \in Seq(Range(<<>>)) /\ Len(<<>>) = 0 /\ 1..0 = {}
        OBVIOUS
    <2>. HIDE DEF Made
    <2>3. Ok(0)
        BY <1>11, <2>1, <2>2
    <2>. HIDE DEF Ok
    <2>. QED
        BY <2>3
<1>14. ASSUME NEW k \in T, k < n
       PROVE  k + 1 \in T
    <2>1. k \in Nat /\ k + 1 \in 1..n /\ (k + 1) - 1 = k /\ Ok(k)
        BY <1>14
    <2>2. PICK i \in 1..n : i = k + 1 /\ i - 1 = k /\ i \in 0..n /\ k \in 0..n
        BY <2>1
    <2>3. PICK was : was = after[k] /\ was.next = now[k]
        BY <1>12, <2>2
    <2>4. after[i] = BuildStep(blocks, revision, templates, assigned, pick, was, i)
        BY <1>2, <1>6, <1>8, <2>2, <2>3
    <2>5. PICK before : before = was.templates
        OBVIOUS
    <2>6. before \in Seq(Range(before)) /\ Len(before) = k /\ \A j \in 1..k : Made(j, before[j])
        BY <2>1, <2>3, <2>5
    <2>7. \E template : /\ after[i].templates = Append(before, template) /\ Made(i, template)
                        /\ now[i] \in Nat
        <3>1. CASE pick[i] = 0
            <4>1. PICK template : template = [text |-> blocks[i], born |-> <<revision, i>>,
                                              handles |-> Allocate(assigned[i], was.next)]
                OBVIOUS
            <4>2. PICK count : count = was.next + Fresh(assigned[i])
                OBVIOUS
            <4>3. after[i].templates = Append(before, template) /\ after[i].next = count
                BY <2>4, <2>5, <3>1, <4>1, <4>2 DEF BuildStep
            <4>4. now[i] = count
                BY <1>12, <2>2, <4>3
            <4>5. now[k] \in Nat
                BY <2>1
            <4>6. Made(i, template) /\ now[i] \in Nat
                BY <1>10, <2>2, <2>3, <3>1, <4>1, <4>2, <4>4, <4>5
            <4>. QED
                BY <4>3, <4>6
        <3>2. CASE pick[i] # 0
            <4>1. PICK template : template = templates[pick[i]]
                OBVIOUS
            <4>2. after[i].templates = Append(before, template) /\ after[i].next = was.next
                BY <2>4, <2>5, <3>2, <4>1 DEF BuildStep
            <4>3. now[i] = now[k] /\ now[k] \in Nat
                BY <1>12, <2>1, <2>2, <2>3, <4>2
            <4>4. Made(i, template)
                BY <2>2, <3>2, <4>1, <4>3
            <4>. QED
                BY <4>2, <4>3, <4>4
        <3>. QED
            BY <3>1, <3>2
    <2>. HIDE DEF Made
    <2>8. PICK template : /\ after[i].templates = Append(before, template) /\ Made(i, template)
                          /\ now[i] \in Nat
        BY <2>7
    <2>9. PICK longer : longer = Append(before, template)
        OBVIOUS
    <2>10. /\ longer \in Seq(Range(longer)) /\ Len(longer) = k + 1
           /\ longer[k + 1] = template
           /\ \A j \in 1..k : longer[j] = before[j]
        <3>1. DOMAIN before = 1..k
            BY <2>6
        <3>. QED
            BY <2>6, <2>9, <3>1, AppendIs
    <2>11. ASSUME NEW j \in 1..(k + 1)
           PROVE  Made(j, longer[j])
        <3>1. CASE j = k + 1
            BY <2>2, <2>8, <2>10, <3>1
        <3>2. CASE j # k + 1
            <4>1. j \in 1..k
                BY <2>1, <3>2
            <4>. QED
                BY <2>6, <2>10, <4>1
        <3>. QED
            BY <3>1, <3>2
    <2>12. Ok(k + 1)
        <3>1. after[k + 1].templates = longer /\ now[k + 1] \in Nat
            BY <2>2, <2>8, <2>9
        <3>. QED
            BY <2>10, <2>11, <3>1
    <2>. HIDE DEF Ok
    <2>13. k + 1 \in 0..n
        BY <2>1
    <2>. QED
        BY <2>12, <2>13
<1>15. \A k \in 0..n : k \in T
    <2>. HIDE DEF Ok
    <2>1. T \in SUBSET Nat
        OBVIOUS
    <2>2. \A k \in T : k < n => k + 1 \in T
        BY <1>14
    <2>. HIDE DEF T
    <2>. QED
        BY <1>13, <2>1, <2>2, Building!UpTo
<1>16. \A k \in 0..n : now[k] \in Nat
    <2>. HIDE DEF Made
    <2>. QED
        BY <1>15
<1>17. made.templates \in Seq(Range(made.templates)) /\ Len(made.templates) = n
       /\ \A i \in 1..n : Made(i, made.templates[i])
    <2>. HIDE DEF Made
    <2>. QED
        BY <1>8, <1>15
<1>18. DOMAIN made.templates = 1..n /\ now[0] = next /\ made.next = now[n]
    BY <1>6, <1>8, <1>12, <1>17
<1>19. Built(document, templates, next, assigned, pick, now, made)
    BY <1>1, <1>2, <1>16, <1>17, <1>18 DEF Built
<1>. QED
    BY <1>1, <1>2, <1>9, <1>19

\* A sequence that never falls from one element to the next never falls.
LEMMA Rising ==
    ASSUME NEW n \in Nat, NEW now, \A i \in 0..n : now[i] \in Nat,
           \A i \in 1..n : now[i - 1] <= now[i]
    PROVE  \A i, j \in 0..n : i <= j => now[i] <= now[j]
<1>. DEFINE T == {k \in 0..n : \A i \in 0..k : now[i] <= now[k]}
<1>1. 0 \in T
    <2>1. 0..0 = {0} /\ 0 \in 0..n /\ now[0] \in Nat
        OBVIOUS
    <2>. QED
        BY <2>1
<1>2. ASSUME NEW k \in T, k < n
      PROVE  k + 1 \in T
    <2>1. k + 1 \in 1..n /\ (k + 1) - 1 = k /\ k \in 0..n /\ k + 1 \in 0..n
        BY <1>2
    <2>2. now[k] <= now[k + 1]
        BY <2>1
    <2>3. ASSUME NEW i \in 0..(k + 1)
          PROVE  now[i] <= now[k + 1]
        <3>1. CASE i = k + 1
            BY <2>1, <3>1
        <3>2. CASE i # k + 1
            <4>1. i \in 0..k /\ i \in 0..n
                BY <2>1, <3>2
            <4>2. now[i] <= now[k] /\ now[i] \in Nat /\ now[k] \in Nat /\ now[k + 1] \in Nat
                BY <2>1, <4>1
            <4>. QED
                BY <2>2, <4>2
        <3>. QED
            BY <3>1, <3>2
    <2>. QED
        BY <2>1, <2>3
<1>3. \A k \in 0..n : k \in T
    <2>1. T \in SUBSET Nat
        OBVIOUS
    <2>2. \A k \in T : k < n => k + 1 \in T
        BY <1>2
    <2>. HIDE DEF T
    <2>. QED
        BY <1>1, <2>1, <2>2, Building!UpTo
<1>. QED
    BY <1>3

\* What the assignment makes of the counter: it never falls.
LEMMA BuiltRises ==
    ASSUME NEW document \in Documents, NEW templates, NEW next, TemplatesSound(templates, next),
           NEW assigned, assigned = match_identities(document, templates),
           NEW n, n = Len(Input[document].blocks),
           NEW made, NEW pick, NEW now, Built(document, templates, next, assigned, pick, now, made)
    PROVE  /\ \A i \in 0..n : now[i] \in Nat /\ next <= now[i] /\ now[i] <= made.next
           /\ \A i, j \in 0..n : i <= j => now[i] <= now[j]
           /\ now[0] = next /\ made.next = now[n] /\ n \in Nat
           /\ \A i \in 1..n : Fresh(assigned[i]) \in Nat
<1>1. n \in Nat /\ Blocks(document) = 1..n
    BY DocumentIs
<1>2. ASSUME NEW i \in 1..n
      PROVE  Fresh(assigned[i]) \in Nat
    <2>1. i \in Blocks(document)
        BY <1>1
    <2>2. DOMAIN assigned[i] = 1..SlotCount(Block(document, i))
        BY <2>1, IdentitiesAre
    <2>3. PICK m \in Nat : m = SlotCount(Block(document, i))
        BY <2>1, BlockIs, SlotsAre
    <2>4. PICK asked : asked = assigned[i] /\ DOMAIN asked = 1..m
        BY <2>2, <2>3
    <2>5. Allocated(m, asked, 0)
        BY <2>4, AllocateIs
    <2>. QED
        BY <2>4, <2>5 DEF Allocated
<1>3. \A i \in 0..n : now[i] \in Nat
    BY DEF Built
<1>4. ASSUME NEW i \in 1..n
      PROVE  now[i - 1] <= now[i]
    <2>1. i - 1 \in 0..n /\ i \in 0..n
        BY <1>1
    <2>2. now[i - 1] \in Nat /\ now[i] \in Nat
        BY <1>3, <2>1
    <2>3. now[i] = now[i - 1] + Fresh(assigned[i]) \/ now[i] = now[i - 1]
        BY DEF Built
    <2>. QED
        BY <1>2, <2>2, <2>3
<1>5. \A i, j \in 0..n : i <= j => now[i] <= now[j]
    BY <1>1, <1>3, <1>4, Rising
<1>6. now[0] = next /\ made.next = now[n]
    BY DEF Built
<1>7. \A i \in 0..n : 0 <= i /\ i <= n /\ 0 \in 0..n /\ n \in 0..n
    BY <1>1
<1>. QED
    BY <1>1, <1>2, <1>3, <1>5, <1>6, <1>7

\* Every block gets a template of its text; the handles of each come from the
\* preceding templates, from labels, or are new (semantic_nodes).
LEMMA NodesAre ==
    ASSUME NEW document \in Documents, NEW templates, NEW next, TemplatesSound(templates, next),
           NEW revision, NEW made, made = semantic_nodes(document, templates, next, revision)
    PROVE  /\ made.next \in Nat /\ next <= made.next
           /\ DOMAIN made.templates = Blocks(document)
           /\ \A i \in Blocks(document) :
                 TemplateOk(templates, next, made.next, Input[document].blocks[i], made.templates[i])
<1>1. PICK n : n = Len(Input[document].blocks)
    OBVIOUS
<1>2. n \in Nat /\ Blocks(document) = 1..n
    BY <1>1, DocumentIs
<1>3. PICK assigned : assigned = match_identities(document, templates)
    OBVIOUS
<1>4. PICK pick, now :
          /\ InTurn(Reusable(document, templates, assigned), n, pick)
          /\ Built(document, templates, next, assigned, pick, now, made)
    BY <1>1, <1>3, NodesBuilt
<1>5. /\ \A i \in 0..n : now[i] \in Nat /\ next <= now[i] /\ now[i] <= made.next
      /\ \A i, j \in 0..n : i <= j => now[i] <= now[j]
      /\ now[0] = next /\ made.next = now[n]
    BY <1>1, <1>3, <1>4, BuiltRises
<1>6. next \in Nat
    BY DEF TemplatesSound
<1>7. ASSUME NEW i \in 1..n
      PROVE  TemplateOk(templates, next, made.next, Input[document].blocks[i], made.templates[i])
    <2>1. PICK text \in Texts : text = Input[document].blocks[i] /\ Block(document, i) = Content[text]
        BY <1>2, BlockIs
    <2>2. i - 1 \in 0..n /\ i \in 0..n /\ n \in 0..n
        BY <1>2
    <2>3. PICK was \in Nat : was = now[i - 1] /\ next <= was
        BY <1>5, <2>2
    <2>4. PICK later \in Nat : later = now[i] /\ later <= made.next /\ made.next \in Nat
        BY <1>5, <2>2
    <2>5. PICK asked : asked = assigned[i]
        OBVIOUS
    <2>6. PICK template : template = made.templates[i]
        OBVIOUS
    <2>7. CASE pick[i] = 0
        <3>1. /\ DOMAIN asked = 1..SlotCount(Content[text])
              /\ \A k \in 1..SlotCount(Content[text]) :
                     AskedFor(templates, next, Content[text], k, asked[k])
            BY <1>2, <1>3, <2>1, <2>5, IdentitiesAre
        <3>2. TemplateOk(templates, next, was + Fresh(asked), text,
                         [text |-> text, born |-> 0, handles |-> Allocate(asked, was)])
            BY <1>6, <2>3, <3>1, NewTemplate
        <3>3. template.text = text /\ template.handles = Allocate(asked, was) /\ later = was + Fresh(asked)
            BY <1>1, <1>4, <2>1, <2>3, <2>4, <2>5, <2>6, <2>7 DEF Built
        <3>4. TemplateOk(templates, next, later, text, template)
            BY <3>2, <3>3 DEF TemplateOk
        <3>5. TemplateOk(templates, next, made.next, text, template)
            BY <2>4, <3>4, TemplateOkLater
        <3>. QED
            BY <2>1, <2>6, <3>5
    <2>8. CASE pick[i] # 0
        <3>1. pick[i] \in DOMAIN templates /\ templates[pick[i]].text = text
            BY <1>2, <1>4, <2>1, <2>8 DEF InTurn, Reusable
        <3>2. TemplateOk(templates, next, was, text, templates[pick[i]])
            BY <1>6, <2>3, <3>1, ReusedTemplate
        <3>3. template = templates[pick[i]] /\ later = was
            BY <1>1, <1>4, <2>3, <2>4, <2>6, <2>8 DEF Built
        <3>4. TemplateOk(templates, next, made.next, text, template)
            BY <2>3, <2>4, <3>2, <3>3, TemplateOkLater
        <3>. QED
            BY <2>1, <2>6, <3>4
    <2>. QED
        BY <2>7, <2>8
<1>8. DOMAIN made.templates = Blocks(document)
    BY <1>4 DEF Built
<1>9. 0 \in 0..n /\ n \in 0..n
    BY <1>2
<1>. QED
    BY <1>2, <1>5, <1>7, <1>8, <1>9

-----------------------------------------------------------------------------
(***************************************************************************)
(* Slides.                                                                 *)
(***************************************************************************)
\* A title without blocks, or blocks in their order without a title.
Layouts(document) ==
    {slide \in [title : {None} \cup STRING, blocks : Seq(Blocks(document))] :
        /\ IsTitle(slide) <=> slide.blocks = <<>>
        /\ \A b, c \in DOMAIN slide.blocks : b < c => slide.blocks[b] < slide.blocks[c]}

\* Two sequences, one after the other.
LEMMA JoinIs ==
    ASSUME NEW S, NEW u \in Seq(S), NEW v \in Seq(S)
    PROVE  /\ u \o v \in Seq(S)
           /\ DOMAIN (u \o v) = 1..(Len(u) + Len(v))
           /\ \A s \in 1..(Len(u) + Len(v)) :
                 (s <= Len(u) => (u \o v)[s] = u[s]) /\ (s > Len(u) => (u \o v)[s] = v[s - Len(u)])
<1>1. Len(u) \in Nat /\ Len(v) \in Nat
    OBVIOUS
<1>2. u \o v \in Seq(S)
    OBVIOUS
<1>3. DOMAIN (u \o v) = 1..(Len(u) + Len(v))
    BY <1>1, <1>2
<1>4. ASSUME NEW s \in 1..(Len(u) + Len(v))
      PROVE  (s <= Len(u) => (u \o v)[s] = u[s]) /\ (s > Len(u) => (u \o v)[s] = v[s - Len(u)])
    BY <1>1
<1>. QED
    BY <1>2, <1>3, <1>4

\* The slides of a document are laid out apart: only one starts at a block.
LEMMA PresentationIs ==
    ASSUME NEW document \in Documents
    PROVE  /\ build_presentation[document] \in Seq(Layouts(document))
           /\ \A s, r \in DOMAIN build_presentation[document] :
                 /\ ~ IsTitle(build_presentation[document][s])
                 /\ ~ IsTitle(build_presentation[document][r])
                 /\ build_presentation[document][s].blocks[1] = build_presentation[document][r].blocks[1]
                 => s = r
<1>. DEFINE pieces == [i \in Blocks(document) |-> IF StartsSlide(document, i) THEN <<i>> ELSE <<>>]
<1>1. PICK n \in Nat : n = Len(Input[document].blocks) /\ Blocks(document) = 1..n
    BY DocumentIs
<1>2. PICK starts : starts = FlattenSeq(pieces)
    OBVIOUS
<1>3. /\ starts \in Seq(1..n)
      /\ \A s, r \in DOMAIN starts : s < r => starts[s] < starts[r]
    <2>1. /\ DOMAIN pieces = 1..n /\ Len(pieces) = n /\ (n = 0 => pieces = <<>>)
          /\ \A i \in 1..n : pieces[i] = <<i>> \/ pieces[i] = <<>>
        BY <1>1
    <2>2. \A i \in 1..n : pieces[i] \in Seq(1..n)
        BY <2>1, SmallSequences
    <2>. HIDE DEF pieces
    <2>3. starts \in Seq(1..n) /\ Lists(starts, pieces, n)
        BY <1>2, <2>1, <2>2, FlattenIs
    <2>4. PICK part, place :
              /\ \A k \in DOMAIN starts :
                    /\ part[k] \in 1..n /\ place[k] \in DOMAIN pieces[part[k]]
                    /\ starts[k] = pieces[part[k]][place[k]]
              /\ \A k, l \in DOMAIN starts :
                    k < l => part[k] < part[l] \/ (part[k] = part[l] /\ place[k] < place[l])
        BY <2>3, Zenon DEF Lists, ListsAt
    <2>5. ASSUME NEW k \in DOMAIN starts
          PROVE  part[k] \in 1..n /\ place[k] = 1 /\ starts[k] = part[k]
        <3>1. PICK i \in 1..n : i = part[k]
            BY <2>4
        <3>2. place[k] \in DOMAIN pieces[i] /\ starts[k] = pieces[i][place[k]]
            BY <2>4, <3>1
        <3>3. pieces[i] = <<i>> /\ place[k] = 1
            BY <2>1, <3>2
        <3>. QED
            BY <3>1, <3>2, <3>3
    <2>. QED
        BY <2>3, <2>4, <2>5
<1>. DEFINE End(s) == IF s = Len(starts) THEN Len(Input[document].blocks) ELSE starts[s + 1] - 1
            title == IF Input[document].title = None THEN <<>>
                     ELSE <<[title |-> Input[document].title, blocks |-> <<>>]>>
            slide(s) == [title |-> None,
                         blocks |-> [k \in 1..(End(s) - starts[s] + 1) |-> starts[s] + k - 1]]
            slides == [s \in DOMAIN starts |-> slide(s)]
<1>4. build_presentation[document] = title \o slides
    BY <1>2, Zenon DEF build_presentation
<1>5. title \in Seq(Layouts(document))
    <2>1. CASE Input[document].title = None
        BY <2>1, SmallSequences
    <2>2. CASE Input[document].title # None
        <3>1. PICK words \in STRING : words = Input[document].title
            BY <2>2, DocumentIs
        <3>2. PICK first : first = [title |-> words, blocks |-> <<>>]
            OBVIOUS
        <3>3. first \in [title : {None} \cup STRING, blocks : Seq(Blocks(document))]
            BY <3>2, SmallSequences
        <3>4. IsTitle(first)
            BY <2>2, <3>1, <3>2 DEF IsTitle
        <3>5. first.blocks = <<>>
            BY <3>2
        <3>6. first \in Layouts(document)
            BY <3>3, <3>4, <3>5 DEF Layouts
        <3>. QED
            BY <2>2, <3>1, <3>2, <3>6, SmallSequences
    <2>. QED
        BY <2>1, <2>2
<1>6. ASSUME NEW s \in DOMAIN starts
      PROVE  slide(s) \in Layouts(document)
    <2>1. starts[s] \in 1..n
        BY <1>3
    <2>2. End(s) \in Nat /\ starts[s] <= End(s) /\ End(s) <= n
        <3>1. CASE s = Len(starts)
            BY <1>1, <2>1, <3>1
        <3>2. CASE s # Len(starts)
            <4>1. s + 1 \in DOMAIN starts /\ s < s + 1
                BY <1>3, <3>2
            <4>2. starts[s + 1] \in 1..n /\ starts[s] < starts[s + 1]
                BY <1>3, <4>1
            <4>. QED
                BY <2>1, <3>2, <4>2
        <3>. QED
            BY <3>1, <3>2
    <2>3. PICK from, m \in Nat :
              from = starts[s] /\ m = End(s) - starts[s] + 1 /\ from \in 1..n /\ m # 0 /\ from + m - 1 <= n
        BY <2>1, <2>2
    <2>4. [k \in 1..m |-> from + k - 1] \in Seq(1..n)
        <3>1. from \in 1..n /\ from + m - 1 <= n
            BY <2>3
        <3>2. ASSUME NEW k \in 1..m
              PROVE  from + k - 1 \in 1..n
            BY <1>3, <3>1
        <3>. QED
            BY <3>2
    <2>5. [k \in 1..m |-> from + k - 1] # <<>>
        <3>1. 1 \in 1..m /\ 1 \notin DOMAIN <<>>
            BY <2>3
        <3>. QED
            BY <3>1
    <2>6. PICK blocks \in Seq(1..n) : blocks = [k \in 1..m |-> from + k - 1] /\ blocks # <<>>
        BY <2>4, <2>5
    <2>9. \A b, c \in DOMAIN blocks : b < c => blocks[b] < blocks[c]
        BY <2>3, <2>6
    <2>7. slide(s) = [title |-> None, blocks |-> blocks]
        BY <2>3, <2>6
    <2>8. [title |-> None, blocks |-> blocks]
              \in [title : {None} \cup STRING, blocks : Seq(Blocks(document))]
        BY <1>1
    <2>. HIDE DEF slide
    <2>10. slide(s).blocks = blocks /\ ~ IsTitle(slide(s))
        BY <2>7 DEF IsTitle
    <2>. QED
        BY <2>6, <2>7, <2>8, <2>9, <2>10 DEF Layouts
<1>7. slides \in Seq(Layouts(document))
    <2>1. PICK m \in Nat : DOMAIN starts = 1..m
        BY <1>3
    <2>. HIDE DEF slide
    <2>. QED
        BY <1>6, <2>1
<1>8. PICK m \in {0, 1} : m = Len(title) /\ DOMAIN title = 1..m /\ \A s \in 1..m : IsTitle(title[s])
    <2>1. CASE Input[document].title = None
        <3>1. Len(title) = 0 /\ DOMAIN title = 1..0 /\ 1..0 = {}
            BY <2>1
        <3>. QED
            BY <3>1
    <2>2. CASE Input[document].title # None
        <3>1. title = <<[title |-> Input[document].title, blocks |-> <<>>]>>
            BY <2>2
        <3>2. Len(title) = 1 /\ DOMAIN title = 1..1 /\ title[1].title = Input[document].title
            BY <3>1
        <3>3. \A s \in 1..1 : s = 1
            OBVIOUS
        <3>. HIDE DEF title
        <3>4. \A s \in 1..1 : IsTitle(title[s])
            BY <2>2, <3>2, <3>3 DEF IsTitle
        <3>. QED
            BY <3>2, <3>4
    <2>. QED
        BY <2>1, <2>2
<1>9. DOMAIN slides = DOMAIN starts /\ \A s \in DOMAIN starts : slides[s].blocks[1] = starts[s]
    <2>1. ASSUME NEW s \in DOMAIN starts
          PROVE  slide(s).blocks[1] = starts[s]
        <3>1. slide(s).blocks # <<>> /\ slide(s).blocks \in Seq(Blocks(document))
            <4>1. \A e \in Layouts(document) : e.blocks \in Seq(Blocks(document)) /\ (~ IsTitle(e) => e.blocks # <<>>)
                BY Zenon DEF Layouts
            <4>2. ~ IsTitle(slide(s))
                BY DEF IsTitle
            <4>. HIDE DEF slide
            <4>. QED
                BY <1>6, <4>1, <4>2
        <3>2. 1 \in DOMAIN slide(s).blocks
            <4>. HIDE DEF slide
            <4>. QED
                BY <3>1
        <3>3. starts[s] \in Int
            BY <1>3
        <3>4. slide(s).blocks[1] = starts[s] + 1 - 1
            BY <3>2
        <3>. HIDE DEF slide
        <3>. QED
            BY <3>3, <3>4
    <2>. HIDE DEF slide
    <2>. QED
        BY <2>1
<1>. HIDE DEF title, slides, slide
<1>10. PICK front, back : front = title /\ back = slides
    OBVIOUS
<1>11. PICK all : all = front \o back /\ all = build_presentation[document]
    BY <1>4, <1>10
<1>12. PICK c \in Nat : DOMAIN back = 1..c /\ Len(back) = c
    BY <1>7, <1>10
<1>17. PICK S : S = Layouts(document)
    OBVIOUS
<1>18. front \in Seq(S) /\ back \in Seq(S) /\ Len(front) = m /\ Len(back) = c /\ m \in Nat /\ c \in Nat
    BY <1>5, <1>7, <1>8, <1>10, <1>12, <1>17
<1>13. /\ DOMAIN all = 1..(m + c)
       /\ \A s \in 1..(m + c) : (s <= m => all[s] = front[s]) /\ (s > m => all[s] = back[s - m])
    <2>1. /\ DOMAIN all = 1..(Len(front) + Len(back))
          /\ \A s \in 1..(Len(front) + Len(back)) :
                (s <= Len(front) => all[s] = front[s])
                /\ (s > Len(front) => all[s] = back[s - Len(front)])
        <3>1. /\ DOMAIN (front \o back) = 1..(Len(front) + Len(back))
              /\ \A s \in 1..(Len(front) + Len(back)) :
                    (s <= Len(front) => (front \o back)[s] = front[s])
                    /\ (s > Len(front) => (front \o back)[s] = back[s - Len(front)])
            BY <1>18, JoinIs, ZenonT(40)
        <3>. QED
            BY <1>11, <3>1, Zenon
    <2>2. Len(front) = m /\ Len(back) = c
        BY <1>18
    <2>. QED
        BY <2>1, <2>2, Zenon
<1>14. \A s, r \in DOMAIN starts : starts[s] = starts[r] => s = r
    <2>1. \A s \in DOMAIN starts : starts[s] \in Int /\ s \in Int
        BY <1>3
    <2>2. ASSUME NEW s \in DOMAIN starts, NEW r \in DOMAIN starts, starts[s] = starts[r]
          PROVE  s = r
        <3>1. ~ (s < r) /\ ~ (r < s)
            BY <1>3, <2>1, <2>2
        <3>. QED
            BY <2>1, <3>1
    <2>. QED
        BY <2>2
<1>15. ASSUME NEW s \in DOMAIN all, NEW r \in DOMAIN all, ~ IsTitle(all[s]), ~ IsTitle(all[r]),
              all[s].blocks[1] = all[r].blocks[1]
       PROVE  s = r
    <2>1. s > m /\ r > m
        BY <1>8, <1>10, <1>13, <1>15
    <2>2. PICK a, b \in 1..c : a = s - m /\ b = r - m /\ all[s] = back[a] /\ all[r] = back[b]
        <3>1. s - m \in 1..c /\ r - m \in 1..c /\ all[s] = back[s - m] /\ all[r] = back[r - m]
            BY <1>13, <2>1, SMTT(30)
        <3>. QED
            BY <3>1
    <2>3. starts[a] = starts[b]
        BY <1>9, <1>10, <1>12, <1>15, <2>2
    <2>4. a = b
        BY <1>9, <1>10, <1>12, <1>14, <2>3
    <2>. QED
        BY <1>13, <2>2, <2>4
<1>16. all \in Seq(Layouts(document))
    BY <1>11, <1>17, <1>18, JoinIs
<1>. QED
    BY <1>11, <1>15, <1>16

\* Counting the elements of a set up to a bound.
LEMMA CountIs ==
    ASSUME NEW N, NEW m \in Nat, NEW s \in 1..m
    PROVE  /\ Cardinality({r \in 1..s : r \in N}) \in Nat
           /\ Cardinality({r \in 1..m : r \in N}) \in Nat
           /\ Cardinality({r \in 1..s : r \in N}) <= Cardinality({r \in 1..m : r \in N})
           /\ s \in N => Cardinality({r \in 1..s : r \in N}) >= 1
<1>1. PICK S : S = {r \in 1..s : r \in N}
    OBVIOUS
<1>2. PICK M : M = {r \in 1..m : r \in N}
    OBVIOUS
<1>3. IsFiniteSet(1..m) /\ M \subseteq 1..m /\ S \subseteq M
    BY <1>1, <1>2, FS_Interval
<1>4. IsFiniteSet(M) /\ IsFiniteSet(S)
    BY <1>3, FS_Subset
<1>5. Cardinality(S) \in Nat /\ Cardinality(M) \in Nat /\ Cardinality(S) <= Cardinality(M)
    BY <1>3, <1>4, FS_Subset, FS_CardinalityType
<1>6. ASSUME s \in N
      PROVE  Cardinality(S) >= 1
    <2>1. S # {}
        BY <1>1, <1>6
    <2>2. Cardinality(S) # 0
        BY <1>4, <2>1, FS_EmptySet
    <2>. QED
        BY <1>5, <2>2
<1>. QED
    BY <1>1, <1>2, <1>5, <1>6

\* The count rises at an element.
LEMMA CountRises ==
    ASSUME NEW N, NEW m \in Nat, NEW s \in 1..m, NEW r \in 1..m, s < r, r \in N
    PROVE  Cardinality({q \in 1..s : q \in N}) # Cardinality({q \in 1..r : q \in N})
<1>1. PICK S : S = {q \in 1..s : q \in N}
    OBVIOUS
<1>2. PICK R : R = {q \in 1..r : q \in N}
    OBVIOUS
<1>3. /\ S \subseteq R /\ R \subseteq 1..m /\ r \in R /\ r \notin S
      /\ IsFiniteSet(1..m)
    BY <1>1, <1>2, FS_Interval
<1>4. IsFiniteSet(R)
    BY <1>3, FS_Subset
<1>5. Cardinality(S) # Cardinality(R)
    BY <1>3, <1>4, FS_Subset
<1>. QED
    BY <1>1, <1>2, <1>5

\* A slide is named by its first block; an old slide is the same slide.
HasLabel(templates, slide) == ~ IsTitle(slide) /\ IsLabeled(FirstNode(templates, slide))

SameSlide(templates, slide, previous, was) ==
    \/ IsTitle(slide) /\ IsTitle(was)
    \/ /\ ~ IsTitle(slide) /\ ~ IsTitle(was)
       /\ FirstNode(templates, slide) = FirstNode(previous.templates, was)

\* What identify_slides does when slide s keeps the handle of old slide pick[s],
\* or gets the handle count[s] if it has no label either.
Laid(document, templates, previous, pick, count, laid) ==
    LET slides == build_presentation[document]
        New(s) == ~ HasLabel(templates, slides[s]) /\ pick[s] = 0
    IN  /\ laid.next_slide \in Nat /\ previous.next_slide <= laid.next_slide
        /\ DOMAIN laid.slides = DOMAIN slides
        /\ \A s \in DOMAIN slides :
              /\ laid.slides[s].title = slides[s].title
              /\ laid.slides[s].blocks = slides[s].blocks
              /\ HasLabel(templates, slides[s]) => laid.slides[s].id = FirstNode(templates, slides[s])
              /\ New(s) =>
                    /\ count[s] \in Nat /\ previous.next_slide <= count[s] /\ count[s] < laid.next_slide
                    /\ laid.slides[s].id = Anonymous(count[s])
              /\ ~ HasLabel(templates, slides[s]) /\ pick[s] # 0 =>
                    /\ pick[s] \in DOMAIN previous.slides
                    /\ SameSlide(templates, slides[s], previous, previous.slides[pick[s]])
                    /\ laid.slides[s].id = previous.slides[pick[s]].id
        /\ \A s, r \in DOMAIN slides :
              \/ s = r
              \/ /\ pick[s] = pick[r] => pick[s] = 0
                 /\ New(s) /\ New(r) => count[s] # count[r]

\* IdentifySlides names a slide after its label, its match or, failing both, the counter.
LEMMA LaidIs ==
    ASSUME NEW document \in Documents, NEW templates,
           NEW previous, previous.next_slide \in Nat, NEW k \in Nat, DOMAIN previous.slides = 1..k,
           NEW laid, laid = IdentifySlides(document, templates, previous)
    PROVE  \E pick, count : Laid(document, templates, previous, pick, count, laid)
<1>1. PICK slides \in Seq(Layouts(document)) : slides = build_presentation[document]
    BY PresentationIs
<1>2. PICK m \in Nat : DOMAIN slides = 1..m /\ Len(slides) = m
    BY <1>1
<1>. DEFINE old == previous.slides
<1>3. PICK fits : fits = [s \in DOMAIN slides |->
                             {o \in DOMAIN old : ~ HasLabel(templates, slides[s]) /\ SameSlide(templates, slides[s], previous, old[o])}]
    OBVIOUS
<1>4. PICK pick : pick = FirstFit(fits)
    OBVIOUS
<1>. DEFINE New(s) == ~ HasLabel(templates, slides[s]) /\ pick[s] = 0
            Count(s) == Cardinality({r \in 1..s : New(r)})
            Handle(s) == IF HasLabel(templates, slides[s]) THEN FirstNode(templates, slides[s])
                         ELSE IF New(s) THEN Anonymous(previous.next_slide + Count(s) - 1)
                         ELSE old[pick[s]].id
            now == previous.next_slide + Count(Len(slides))
<1>5. /\ laid.slides = [s \in DOMAIN slides |->
                           [title |-> slides[s].title, blocks |-> slides[s].blocks, id |-> Handle(s)]]
      /\ laid.next_slide = now
    <2>1. laid = [slides |-> [s \in DOMAIN slides |->
                                 [title |-> slides[s].title, blocks |-> slides[s].blocks,
                                  id |-> Handle(s)]],
                  next_slide |-> now]
        BY <1>1, <1>3, <1>4, ZenonT(40) DEF IdentifySlides, HasLabel, SameSlide
    <2>. HIDE DEF Handle, now
    <2>. QED
        BY <2>1
<1>6. /\ \A s \in 1..m : pick[s] # 0 =>
            pick[s] \in 1..k /\ SameSlide(templates, slides[s], previous, old[pick[s]])
      /\ \A s, r \in 1..m : pick[s] = pick[r] /\ pick[s] # 0 => s = r
    <2>1. DOMAIN fits = 1..m /\ \A s \in 1..m : fits[s] \in SUBSET (Nat \ {0})
        <3>1. DOMAIN old \in SUBSET (Nat \ {0})
            OBVIOUS
                <3>. QED
            BY <1>2, <1>3, <3>1
    <2>2. /\ \A s \in 1..m : pick[s] # 0 => pick[s] \in fits[s]
          /\ \A s, r \in 1..m : pick[s] = pick[r] /\ pick[s] # 0 => s = r
        BY <1>4, <2>1, FirstFitInTurn DEF InTurn
        <2>. QED
        BY <1>2, <1>3, <2>2
<1>7. /\ \A s \in 1..m : Count(s) \in Nat /\ Count(s) <= Count(m) /\ (New(s) => Count(s) >= 1)
      /\ Count(m) \in Nat
    <2>. HIDE DEF New
    <2>1. PICK N : N = {r \in 1..m : New(r)}
        OBVIOUS
    <2>2. \A s \in 1..m : {r \in 1..s : New(r)} = {r \in 1..s : r \in N} /\ (New(s) <=> s \in N)
        BY <2>1
    <2>3. CASE m = 0
        <3>1. 1..m = {}
            BY <2>3
        <3>2. Cardinality({}) = 0
            BY FS_EmptySet
        <3>3. PICK counted : counted = {r \in 1..m : New(r)}
            OBVIOUS
        <3>4. counted = {}
            BY <3>1, <3>3
        <3>5. Count(m) = 0
            BY <3>2, <3>3, <3>4, Zenon
        <3>. HIDE DEF Count
        <3>. QED
            BY <3>1, <3>5
    <2>4. CASE m # 0
        <3>1. m \in 1..m
            BY <2>4
        <3>. QED
            BY <2>2, <3>1, CountIs
    <2>. QED
        BY <2>3, <2>4
<1>8. now \in Nat /\ previous.next_slide <= now
    <2>. HIDE DEF Count
    <2>. QED
        BY <1>2, <1>7
<1>9. PICK count : count = [s \in 1..m |-> previous.next_slide + Count(s) - 1]
    OBVIOUS
<1>10. PICK d \in Nat : d = Count(m) /\ now = previous.next_slide + d
    BY <1>2, <1>7
<1>11. ASSUME NEW s \in 1..m, New(s)
       PROVE  /\ count[s] \in Nat /\ previous.next_slide <= count[s] /\ count[s] < now
              /\ Handle(s) = Anonymous(count[s])
    <2>. HIDE DEF New
    <2>1. PICK c \in Nat : c = Count(s) /\ c >= 1 /\ c <= d
        BY <1>7, <1>10, <1>11
    <2>2. count[s] = previous.next_slide + c - 1
        BY <1>9, <2>1
    <2>3. Handle(s) = Anonymous(previous.next_slide + c - 1)
        BY <1>11, <2>1 DEF New
    <2>. HIDE DEF Handle, now
    <2>. QED
        BY <1>10, <2>1, <2>2, <2>3
<1>12. ASSUME NEW s \in 1..m, NEW r \in 1..m, New(s), New(r), s < r
       PROVE  count[s] # count[r]
    <2>. HIDE DEF New
    <2>1. PICK N : N = {q \in 1..m : New(q)}
        OBVIOUS
    <2>2. /\ {q \in 1..s : New(q)} = {q \in 1..s : q \in N}
          /\ {q \in 1..r : New(q)} = {q \in 1..r : q \in N}
          /\ r \in N
        BY <1>12, <2>1
    <2>3. Count(s) # Count(r)
        BY <1>12, <2>2, CountRises
    <2>4. PICK c \in Nat : c = Count(s)
        BY <1>7
    <2>5. PICK e \in Nat : e = Count(r)
        BY <1>7
    <2>6. count[s] = previous.next_slide + c - 1 /\ count[r] = previous.next_slide + e - 1
        BY <1>9, <2>4, <2>5
    <2>. QED
        BY <2>3, <2>4, <2>5, <2>6
<1>13. ASSUME NEW s \in 1..m, NEW r \in 1..m, New(s), New(r), s # r
       PROVE  count[s] # count[r]
    <2>. HIDE DEF New
    <2>1. s < r \/ r < s
        BY <1>13
    <2>. QED
        BY <1>12, <1>13, <2>1
<1>14. ASSUME NEW s \in 1..m
       PROVE  /\ laid.slides[s].title = slides[s].title /\ laid.slides[s].blocks = slides[s].blocks
              /\ laid.slides[s].id = Handle(s)
    <2>. HIDE DEF Handle
    <2>. QED
        BY <1>2, <1>5
<1>15. ASSUME NEW s \in 1..m
       PROVE  /\ HasLabel(templates, slides[s]) => laid.slides[s].id = FirstNode(templates, slides[s])
              /\ ~ HasLabel(templates, slides[s]) /\ pick[s] # 0 =>
                    laid.slides[s].id = previous.slides[pick[s]].id
    BY <1>14
<1>16. DOMAIN laid.slides = 1..m /\ laid.next_slide = now
    <2>. HIDE DEF Handle, now
    <2>. QED
        BY <1>2, <1>5
<1>17. Laid(document, templates, previous, pick, count, laid)
    <2>. HIDE DEF Handle, now, Count
    <2>1. \A s \in 1..m : ~ HasLabel(templates, slides[s]) /\ pick[s] = 0 =>
              /\ count[s] \in Nat /\ previous.next_slide <= count[s] /\ count[s] < laid.next_slide
              /\ laid.slides[s].id = Anonymous(count[s])
        BY <1>11, <1>14, <1>16
    <2>2. \A s, r \in 1..m :
              \/ s = r
              \/ /\ pick[s] = pick[r] => pick[s] = 0
                 /\ (~ HasLabel(templates, slides[s]) /\ pick[s] = 0)
                        /\ (~ HasLabel(templates, slides[r]) /\ pick[r] = 0) => count[s] # count[r]
        BY <1>6, <1>13
    <2>. QED
        BY <1>1, <1>2, <1>6, <1>8, <1>14, <1>15, <1>16, <2>1, <2>2, SMTT(30) DEF Laid
<1>. QED
    BY <1>17

\* A slide has the handle of its labeled first block, that of an old slide, or
\* one counted out since (identify_slides).
SlideFrom(previous, id) ==
    \/ IsLabeled(id)
    \/ \E o \in DOMAIN previous.slides : id = previous.slides[o].id
    \/ \E n \in Nat : n >= previous.next_slide /\ id = Anonymous(n)

\* The slides of a revision: the layout the document has, under ids that were handed out.
LEMMA SlidesAre ==
    ASSUME NEW document \in Documents, NEW templates, NEW next,
           \A i \in Blocks(document) : HandedOut(NodeHandle(templates[i]), next),
           NEW previous, previous.next_slide \in Nat, NEW k \in Nat, DOMAIN previous.slides = 1..k,
           \A o \in 1..k : HandedOut(previous.slides[o].id, previous.next_slide),
           NEW laid, laid = IdentifySlides(document, templates, previous)
    PROVE  /\ laid.next_slide \in Nat /\ previous.next_slide <= laid.next_slide
           /\ DOMAIN laid.slides = DOMAIN build_presentation[document]
           /\ \A s \in DOMAIN laid.slides :
                 /\ laid.slides[s].title = build_presentation[document][s].title
                 /\ laid.slides[s].blocks = build_presentation[document][s].blocks
                 /\ HandedOut(laid.slides[s].id, laid.next_slide)
                 /\ SlideFrom(previous, laid.slides[s].id)
<1>1. PICK slides \in Seq(Layouts(document)) : slides = build_presentation[document]
    BY PresentationIs
<1>2. PICK pick, count : Laid(document, templates, previous, pick, count, laid)
    BY LaidIs
<1>3. /\ laid.next_slide \in Nat /\ previous.next_slide <= laid.next_slide
      /\ DOMAIN laid.slides = DOMAIN slides
      /\ \A s \in DOMAIN slides :
            laid.slides[s].title = slides[s].title /\ laid.slides[s].blocks = slides[s].blocks
    BY <1>1, <1>2 DEF Laid
<1>4. ASSUME NEW s \in DOMAIN slides
      PROVE  HandedOut(laid.slides[s].id, laid.next_slide) /\ SlideFrom(previous, laid.slides[s].id)
    <2>1. CASE HasLabel(templates, slides[s])
        <3>1. slides[s] \in Layouts(document)
            BY <1>1
        <3>2. slides[s].blocks \in Seq(Blocks(document)) /\ slides[s].blocks # <<>>
            BY <2>1, <3>1 DEF Layouts, HasLabel
        <3>3. slides[s].blocks[1] \in Blocks(document)
            BY <3>2
        <3>4. PICK handle : handle = FirstNode(templates, slides[s])
            BY SMTT(30)
        <3>5. HandedOut(handle, next) /\ IsLabeled(handle) /\ laid.slides[s].id = handle
            BY <1>1, <1>2, <2>1, <3>3, <3>4 DEF FirstNode, HasLabel, Laid
        <3>6. \A n : handle # Anonymous(n)
            BY <3>5 DEF IsLabeled, Anonymous
        <3>. QED
            BY <3>5, <3>6 DEF HandedOut, SlideFrom
    <2>2. CASE ~ HasLabel(templates, slides[s]) /\ pick[s] = 0
        BY <1>1, <1>2, <2>2 DEF Laid, HandedOut, SlideFrom
    <2>3. CASE ~ HasLabel(templates, slides[s]) /\ pick[s] # 0
        <3>1. pick[s] \in 1..k /\ laid.slides[s].id = previous.slides[pick[s]].id
            BY <1>1, <1>2, <2>3 DEF Laid
        <3>2. HandedOut(laid.slides[s].id, previous.next_slide)
            BY <3>1
        <3>. QED
            BY <1>3, <3>1, <3>2, HandedOutLater DEF SlideFrom
    <2>. QED
        BY <2>1, <2>2, <2>3
<1>. QED
    BY <1>1, <1>3, <1>4

-----------------------------------------------------------------------------
(***************************************************************************)
(* Snapshots.                                                              *)
(***************************************************************************)
\* What the next revision may be matched against.
Usable(previous) ==
    /\ TemplatesSound(previous.templates, previous.next_id)
    /\ previous.next_slide \in Nat
    /\ \E k \in Nat : DOMAIN previous.slides = 1..k
    /\ \A o \in DOMAIN previous.slides : HandedOut(previous.slides[o].id, previous.next_slide)

\* A snapshot has a template of the text of every block of its source, and the
\* slides that its source is laid out in.
SnapshotSound(snapshot) ==
    /\ snapshot.source \in Documents
    /\ Usable(snapshot)
    /\ DOMAIN snapshot.templates = Blocks(snapshot.source)
    /\ \A i \in Blocks(snapshot.source) :
          snapshot.templates[i].text = Input[snapshot.source].blocks[i]
    /\ DOMAIN snapshot.slides = DOMAIN build_presentation[snapshot.source]
    /\ \A s \in DOMAIN snapshot.slides :
          /\ snapshot.slides[s].title = build_presentation[snapshot.source][s].title
          /\ snapshot.slides[s].blocks = build_presentation[snapshot.source][s].blocks

\* A snapshot has a handle in a domain; the counter of the domain.
Named(snapshot, domain, handle) ==
    IF domain = "slide" THEN \E o \in DOMAIN snapshot.slides : handle = snapshot.slides[o].id
    ELSE Has(snapshot.templates, domain, handle)

Counter(snapshot, domain) == IF domain = "slide" THEN snapshot.next_slide ELSE snapshot.next_id

Domains == {"node", "cell", "slide"}

\* The absent predecessor of a first revision is sound.
LEMMA NoSnapshotUsable == Usable(NoSnapshot)
<1>1. DOMAIN <<>> = 1..0 /\ 1..0 = {} /\ 0 \in Nat
    OBVIOUS
<1>2. TemplatesSound(<<>>, 0)
    BY <1>1 DEF TemplatesSound
<1>. QED
    BY <1>1, <1>2 DEF Usable, NoSnapshot

\* Every revision is sound, counts on from the preceding one, and has only
\* handles of labels, of the preceding one and new ones.
LEMMA UpdatedIs ==
    ASSUME NEW document \in Documents, NEW revision, NEW previous, Usable(previous),
           NEW next, next = updated(document, revision, previous)
    PROVE  /\ SnapshotSound(next)
           /\ next.source = document /\ next.revision = revision
           /\ \A domain \in Domains :
                 /\ Counter(previous, domain) \in Nat /\ Counter(next, domain) \in Nat
                 /\ Counter(previous, domain) <= Counter(next, domain)
                 /\ \A handle : Named(next, domain, handle) =>
                       \/ IsLabeled(handle)
                       \/ Named(previous, domain, handle)
                       \/ \E n \in Nat : n >= Counter(previous, domain) /\ handle = Anonymous(n)
<1>1. PICK nodes : nodes = semantic_nodes(document, previous.templates, previous.next_id, revision)
    OBVIOUS
<1>2. PICK laid : laid = IdentifySlides(document, nodes.templates, previous)
    OBVIOUS
<1>3. next = [source |-> document, revision |-> revision,
              templates |-> nodes.templates, slides |-> laid.slides,
              next_id |-> nodes.next, next_slide |-> laid.next_slide]
    BY <1>1, <1>2, Zenon DEF updated, Snapshot
<1>4. /\ next.source = document /\ next.revision = revision /\ next.templates = nodes.templates
      /\ next.slides = laid.slides /\ next.next_id = nodes.next /\ next.next_slide = laid.next_slide
    BY <1>3
<1>5. /\ nodes.next \in Nat /\ previous.next_id <= nodes.next
      /\ DOMAIN nodes.templates = Blocks(document)
      /\ \A i \in Blocks(document) :
            TemplateOk(previous.templates, previous.next_id, nodes.next,
                       Input[document].blocks[i], nodes.templates[i])
    BY <1>1, NodesAre DEF Usable
<1>6. \A i \in Blocks(document) :
          /\ Input[document].blocks[i] \in Texts
          /\ nodes.templates[i].text = Input[document].blocks[i]
          /\ DOMAIN nodes.templates[i].handles = 1..SlotCount(Content[Input[document].blocks[i]])
          /\ \A k \in 1..SlotCount(Content[Input[document].blocks[i]]) :
                HandedOut(nodes.templates[i].handles[k], nodes.next)
    BY <1>5, BlockIs DEF TemplateOk
<1>7. TemplatesSound(nodes.templates, nodes.next)
    <2>1. \E n \in Nat : DOMAIN nodes.templates = 1..n
        BY <1>5, DocumentIs
    <2>. QED
        BY <1>5, <1>6, <2>1 DEF TemplatesSound
<1>8. \A i \in Blocks(document) : HandedOut(NodeHandle(nodes.templates[i]), nodes.next)
    <2>1. ASSUME NEW text \in Texts
          PROVE  1 \in 1..SlotCount(Content[text])
        BY SlotsAre DEF HandleDomains
    <2>. QED
        BY <1>6, <2>1 DEF NodeHandle
<1>9. PICK k \in Nat : DOMAIN previous.slides = 1..k
    BY DEF Usable
<1>10. /\ laid.next_slide \in Nat /\ previous.next_slide <= laid.next_slide
       /\ DOMAIN laid.slides = DOMAIN build_presentation[document]
       /\ \A s \in DOMAIN laid.slides :
             /\ laid.slides[s].title = build_presentation[document][s].title
             /\ laid.slides[s].blocks = build_presentation[document][s].blocks
             /\ HandedOut(laid.slides[s].id, laid.next_slide)
             /\ SlideFrom(previous, laid.slides[s].id)
    <2>1. PICK templates, count : templates = nodes.templates /\ count = nodes.next
        OBVIOUS
    <2>2. /\ \A i \in Blocks(document) : HandedOut(NodeHandle(templates[i]), count)
          /\ laid = IdentifySlides(document, templates, previous)
        BY <1>2, <1>8, <2>1
    <2>3. /\ previous.next_slide \in Nat
          /\ \A o \in 1..k : HandedOut(previous.slides[o].id, previous.next_slide)
        BY <1>9 DEF Usable
    <2>. QED
        BY <1>9, <2>2, <2>3, SlidesAre
<1>11. SnapshotSound(next)
    <2>1. \E n \in Nat : DOMAIN laid.slides = 1..n
        <3>1. build_presentation[document] \in Seq(Layouts(document))
            BY PresentationIs
        <3>. QED
            BY <1>10, <3>1
    <2>2. Usable(next)
        BY <1>4, <1>7, <1>10, <2>1 DEF Usable
    <2>. QED
        BY <1>4, <1>5, <1>6, <1>10, <2>2 DEF SnapshotSound
<1>12. \A handle : Named(next, "slide", handle) => SlideFrom(previous, handle)
    BY <1>4, <1>10 DEF Named
<1>13. ASSUME NEW domain \in HandleDomains, NEW handle, Has(nodes.templates, domain, handle)
       PROVE  From(previous.templates, previous.next_id, domain, handle)
    <2>1. PICK i \in Blocks(document) : \E slot \in SlotsOf(Content[nodes.templates[i].text], domain) :
              nodes.templates[i].handles[slot] = handle
        BY <1>5, <1>13 DEF Has
    <2>2. PICK text \in Texts : text = Input[document].blocks[i]
        BY <1>6
    <2>3. PICK slot \in SlotsOf(Content[text], domain) : nodes.templates[i].handles[slot] = handle
        BY <1>6, <2>1, <2>2
    <2>4. slot \in 1..SlotCount(Content[text])
        BY SlotsAre
    <2>. QED
        BY <1>5, <2>2, <2>3, <2>4 DEF TemplateOk
<1>14. previous.next_id \in Nat /\ previous.next_slide \in Nat
    BY DEF Usable, TemplatesSound
<1>15. ASSUME NEW domain \in Domains
       PROVE  /\ Counter(previous, domain) \in Nat /\ Counter(next, domain) \in Nat
              /\ Counter(previous, domain) <= Counter(next, domain)
              /\ \A handle : Named(next, domain, handle) =>
                    \/ IsLabeled(handle)
                    \/ Named(previous, domain, handle)
                    \/ \E n \in Nat : n >= Counter(previous, domain) /\ handle = Anonymous(n)
    <2>1. CASE domain = "slide"
        BY <1>4, <1>10, <1>12, <1>14, <2>1 DEF Counter, Named, SlideFrom
    <2>2. CASE domain \in HandleDomains
        <3>1. domain # "slide"
            BY <2>2 DEF HandleDomains
        <3>. QED
            BY <1>4, <1>5, <1>13, <1>14, <2>2, <3>1 DEF Counter, Named, From
    <2>. QED
        BY <2>1, <2>2 DEF Domains, HandleDomains
<1>. QED
    BY <1>4, <1>11, <1>15

\* The handles that the properties speak of are those of the templates.
LEMMA HandlesAre ==
    ASSUME NEW snapshot, SnapshotSound(snapshot), NEW domain \in Domains, NEW handle
    PROVE  handle \in AllHandles(snapshot)[domain] <=> Named(snapshot, domain, handle)
<1>1. PICK document \in Documents : document = snapshot.source
    BY DEF SnapshotSound
<1>2. PICK templates : /\ templates = snapshot.templates /\ DOMAIN templates = Blocks(document)
                       /\ \A i \in Blocks(document) : Content[templates[i].text] = Block(document, i)
    BY <1>1, BlockIs DEF SnapshotSound
<1>3. \A at : at \in AllCells(snapshot) <=>
          \E i \in Blocks(document) : \E j \in DOMAIN Block(document, i).cells : at = <<i, j>>
    BY <1>1, CellsOfIs DEF AllCells
<1>4. ASSUME NEW i \in Blocks(document)
      PROVE  /\ DOMAIN Block(document, i).cells = 1..Len(Block(document, i).cells)
             /\ Len(Block(document, i).cells) \in Nat
    BY BlockIs, SlotsAre
<1>5. ASSUME NEW i, NEW j
      PROVE  /\ CellNode(snapshot, <<i, j>>) = templates[i].handles[NodeSlot(Block(document, i), j)]
             /\ i \in Blocks(document) =>
                    CellId(snapshot, <<i, j>>) = templates[i].handles[CellSlot(Block(document, i), j)]
    BY <1>1, <1>2 DEF CellNode, CellId, CellHandle
<1>6. CASE domain = "node"
    <2>1. ASSUME NEW at \in NodePlaces(snapshot), handle = CellNode(snapshot, at)
          PROVE  Has(templates, "node", handle)
        <3>1. PICK i \in Blocks(document) :
                  \E j \in 0..Len(Block(document, i).cells) : at = <<i, j>>
            <4>1. CASE at \in {<<i, 0>> : i \in Blocks(document)}
                BY <1>4, <4>1
            <4>2. CASE at \in AllCells(snapshot)
                BY <1>3, <1>4, <4>2
            <4>. QED
                BY <1>1, <2>1, <4>1, <4>2 DEF NodePlaces
        <3>2. PICK j \in 0..Len(Block(document, i).cells) : at = <<i, j>>
            BY <3>1
        <3>3. NodeSlot(Block(document, i), j) \in SlotsOf(Content[templates[i].text], "node")
            BY <1>2 DEF SlotsOf
        <3>. QED
            BY <1>2, <1>5, <2>1, <3>2, <3>3 DEF Has
    <2>2. ASSUME Has(templates, "node", handle)
          PROVE  \E at \in NodePlaces(snapshot) : handle = CellNode(snapshot, at)
        <3>1. PICK i, j : /\ i \in Blocks(document) /\ j \in 0..Len(Block(document, i).cells)
                         /\ handle = templates[i].handles[NodeSlot(Block(document, i), j)]
            BY <1>2, <2>2 DEF Has, SlotsOf
        <3>2. CASE j = 0 \/ Block(document, i).kind = "cell"
            <4>1. <<i, 0>> \in NodePlaces(snapshot)
                BY <1>1, <3>1 DEF NodePlaces
            <4>2. NodeSlot(Block(document, i), 0) = NodeSlot(Block(document, i), j)
                BY <3>2 DEF NodeSlot
            <4>3. handle = CellNode(snapshot, <<i, 0>>)
                BY <1>5, <3>1, <4>2
            <4>. QED
                BY <4>1, <4>3
        <3>3. CASE j # 0 /\ Block(document, i).kind # "cell"
            <4>1. j \in DOMAIN Block(document, i).cells
                BY <1>4, <3>1, <3>3
            <4>2. <<i, j>> \in AllCells(snapshot)
                BY <1>3, <3>1, <4>1
            <4>3. <<i, j>> \in NodePlaces(snapshot)
                BY <1>1, <3>3, <4>2 DEF NodePlaces
            <4>4. handle = CellNode(snapshot, <<i, j>>)
                BY <1>5, <3>1
            <4>. QED
                BY <4>3, <4>4
        <3>. QED
            BY <3>2, <3>3
    <2>. QED
        BY <1>2, <1>6, <2>1, <2>2 DEF AllHandles, Named
<1>7. CASE domain = "cell"
    <2>1. Range(CellHandles(snapshot)) = {CellId(snapshot, at) : at \in AllCells(snapshot)}
        BY <1>1 DEF CellHandles, Range, AllCells, ToSet
    <2>2. ASSUME NEW at \in AllCells(snapshot), handle = CellId(snapshot, at)
          PROVE  Has(templates, "cell", handle)
        <3>1. PICK i \in Blocks(document) : \E j \in DOMAIN Block(document, i).cells : at = <<i, j>>
            BY <1>3
        <3>2. PICK j \in DOMAIN Block(document, i).cells : at = <<i, j>>
            BY <3>1
        <3>3. CellSlot(Block(document, i), j) \in SlotsOf(Content[templates[i].text], "cell")
            <4>1. j \in 1..Len(Block(document, i).cells)
                BY <1>4
            <4>. QED
                BY <1>2, <4>1 DEF SlotsOf
        <3>. QED
            BY <1>2, <1>5, <2>2, <3>2, <3>3 DEF Has
    <2>3. ASSUME Has(templates, "cell", handle)
          PROVE  \E at \in AllCells(snapshot) : handle = CellId(snapshot, at)
        <3>1. PICK i, j : /\ i \in Blocks(document) /\ j \in 1..Len(Block(document, i).cells)
                         /\ handle = templates[i].handles[CellSlot(Block(document, i), j)]
            BY <1>2, <2>3 DEF Has, SlotsOf
        <3>2. <<i, j>> \in AllCells(snapshot)
            BY <1>3, <1>4, <3>1
        <3>. QED
            BY <1>5, <3>1, <3>2
    <2>. QED
        BY <1>2, <1>7, <2>1, <2>2, <2>3 DEF AllHandles, Named
<1>8. CASE domain = "slide"
    BY <1>8 DEF AllHandles, Named, SlideIds, ToSet
<1>. QED
    BY <1>6, <1>7, <1>8 DEF Domains

\* All snapshots are sound, counters never fall, and a counted handle that two
\* revisions share is in every revision between them.
Lineage ==
    /\ Snapshots
    /\ \A s \in DOMAIN snapshots : SnapshotSound(snapshots[s])
    /\ \A q, r \in DOMAIN snapshots : \A domain \in Domains :
          q < r => Counter(snapshots[q], domain) <= Counter(snapshots[r], domain)
    /\ \A q, r, s \in DOMAIN snapshots : \A domain \in Domains : \A handle :
          /\ q < r /\ r < s
          /\ Named(snapshots[q], domain, handle) /\ Named(snapshots[s], domain, handle)
          => IsLabeled(handle) \/ Named(snapshots[r], domain, handle)

\* The lineage of revisions is sound at the start.
LEMMA LineageInit == Init => Lineage
<1>. SUFFICES ASSUME Init PROVE Lineage
    OBVIOUS
<1>1. PICK document \in Documents : snapshots = <<updated(document, 0, NoSnapshot)>>
    BY DEF Init, CompilerInit
<1>2. PICK first : first = updated(document, 0, NoSnapshot) /\ snapshots = <<first>>
    BY <1>1
<1>3. SnapshotSound(first)
    BY <1>2, UpdatedIs, NoSnapshotUsable
<1>4. DOMAIN <<first>> = {1} /\ <<first>>[1] = first
    OBVIOUS
<1>5. \A q, r \in DOMAIN snapshots : ~ q < r
    BY <1>2, <1>4
<1>. QED
    BY <1>2, <1>3, <1>4, <1>5, SnapshotsInit DEF Lineage

\* The counter of a handle that was counted out is behind.
LEMMA NamedIs ==
    ASSUME NEW snapshot, Usable(snapshot), NEW domain \in Domains, NEW handle,
           Named(snapshot, domain, handle), ~ IsLabeled(handle)
    PROVE  \E n \in Nat : n < Counter(snapshot, domain) /\ handle = Anonymous(n)
<1>1. HandedOut(handle, Counter(snapshot, domain))
    <2>1. CASE domain = "slide"
        BY <2>1 DEF Named, Counter, Usable
    <2>2. CASE domain \in HandleDomains
        <3>1. domain # "slide"
            BY <2>2 DEF HandleDomains
        <3>2. PICK p \in DOMAIN snapshot.templates :
                  \E k \in SlotsOf(Content[snapshot.templates[p].text], domain) :
                      snapshot.templates[p].handles[k] = handle
            BY <3>1 DEF Named, Has
        <3>3. PICK text \in Texts : text = snapshot.templates[p].text
            BY DEF Usable, TemplatesSound
        <3>4. PICK k \in SlotsOf(Content[text], domain) : snapshot.templates[p].handles[k] = handle
            BY <3>2, <3>3
        <3>5. k \in 1..SlotCount(Content[text])
            BY <2>2, SlotsAre
        <3>. QED
            BY <3>1, <3>3, <3>4, <3>5 DEF Counter, Usable, TemplatesSound
    <2>. QED
        BY <2>1, <2>2 DEF Domains, HandleDomains
<1>2. \A label \in STRING : handle # Labeled(label)
    BY DocumentAssumption DEF IsLabeled, Labeled
<1>. QED
    BY <1>1, <1>2 DEF HandedOut

\* Every step keeps the lineage of revisions sound.
LEMMA LineageNext == Lineage /\ [Next]_vars => Lineage'
<1>. SUFFICES ASSUME Lineage, [Next]_vars PROVE Lineage'
    OBVIOUS
<1>1. CASE UNCHANGED snapshots
    BY <1>1 DEF Lineage, Snapshots, Range
<1>2. ASSUME NEW document \in Documents, Update(document)
      PROVE  Lineage'
    <2>1. PICK n \in Nat : Len(snapshots) = n /\ DOMAIN snapshots = 1..n /\ n > 0
        BY DEF Lineage, Snapshots
    <2>2. PICK last, revision : last = snapshots[n] /\ revision = Current.revision + 1
        OBVIOUS
    <2>3. PICK next : next = updated(document, revision, last) /\ snapshots' = Append(snapshots, next)
        BY <1>2, <2>1, <2>2 DEF Update, update_source_with_changes, Current
    <2>4. SnapshotSound(last) /\ Usable(last)
        BY <2>1, <2>2 DEF Lineage, SnapshotSound
    <2>5. /\ SnapshotSound(next)
          /\ \A domain \in Domains :
                /\ Counter(last, domain) \in Nat /\ Counter(next, domain) \in Nat
                /\ Counter(last, domain) <= Counter(next, domain)
                /\ \A handle : Named(next, domain, handle) =>
                      \/ IsLabeled(handle)
                      \/ Named(last, domain, handle)
                      \/ \E m \in Nat : m >= Counter(last, domain) /\ handle = Anonymous(m)
        BY <2>3, <2>4, UpdatedIs
    <2>6. /\ DOMAIN snapshots' = 1..(n + 1) /\ snapshots'[n + 1] = next
          /\ \A i \in 1..n : snapshots'[i] = snapshots[i]
        BY <2>1, <2>3, AppendIs DEF Lineage, Snapshots
    <2>7. \A i \in 1..(n + 1) : (i = n + 1 /\ snapshots'[i] = next) \/ (i \in 1..n /\ snapshots'[i] = snapshots[i])
        BY <2>6
    <2>8. \A i \in 1..(n + 1) : SnapshotSound(snapshots'[i])
        BY <2>1, <2>5, <2>7 DEF Lineage
    <2>9. ASSUME NEW i \in 1..n, NEW domain \in Domains
          PROVE  /\ Counter(snapshots[i], domain) \in Nat
                 /\ Counter(snapshots[i], domain) <= Counter(last, domain)
        <3>1. SnapshotSound(snapshots[i])
            BY <2>1 DEF Lineage
        <3>2. Counter(snapshots[i], domain) \in Nat
            BY <3>1 DEF Counter, SnapshotSound, Usable, TemplatesSound
        <3>3. i < n => Counter(snapshots[i], domain) <= Counter(last, domain)
            BY <2>1, <2>2 DEF Lineage
        <3>. QED
            BY <2>2, <3>2, <3>3
    <2>10. ASSUME NEW q \in 1..(n + 1), NEW r \in 1..(n + 1), NEW domain \in Domains, q < r
           PROVE  Counter(snapshots'[q], domain) <= Counter(snapshots'[r], domain)
        <3>1. CASE r = n + 1
            <4>1. q \in 1..n
                BY <2>10, <3>1
            <4>. QED
                BY <2>5, <2>6, <2>9, <3>1, <4>1
        <3>2. CASE r # n + 1
            <4>1. q \in 1..n /\ r \in 1..n
                BY <2>10, <3>2
            <4>2. snapshots'[q] = snapshots[q] /\ snapshots'[r] = snapshots[r]
                BY <2>6, <4>1
            <4>3. Counter(snapshots[q], domain) <= Counter(snapshots[r], domain)
                BY <2>1, <2>10, <4>1 DEF Lineage
            <4>. QED
                BY <4>2, <4>3
        <3>. QED
            BY <3>1, <3>2
    <2>11. ASSUME NEW q \in 1..(n + 1), NEW r \in 1..(n + 1), NEW s \in 1..(n + 1),
                  NEW domain \in Domains, NEW handle, q < r, r < s,
                  Named(snapshots'[q], domain, handle), Named(snapshots'[s], domain, handle),
                  ~ IsLabeled(handle)
           PROVE  Named(snapshots'[r], domain, handle)
        <3>1. q \in 1..n /\ r \in 1..n
            BY <2>11
        <3>2. snapshots'[q] = snapshots[q] /\ snapshots'[r] = snapshots[r]
            BY <2>6, <3>1
        <3>3. CASE s # n + 1
            <4>1. s \in 1..n
                BY <3>3
            <4>2. snapshots'[s] = snapshots[s]
                BY <2>6, <4>1
            <4>. QED
                BY <2>1, <2>11, <3>1, <3>2, <4>1, <4>2 DEF Lineage
        <3>4. CASE s = n + 1
            <4>1. Named(next, domain, handle) /\ Named(snapshots[q], domain, handle)
                BY <2>6, <2>11, <3>2, <3>4
            <4>2. SnapshotSound(snapshots[q]) /\ Usable(snapshots[q])
                BY <2>1, <3>1 DEF Lineage, SnapshotSound
            <4>3. PICK c \in Nat : c < Counter(snapshots[q], domain) /\ handle = Anonymous(c)
                <5>1. PICK was : was = snapshots[q]
                    OBVIOUS
                <5>2. \E c \in Nat : c < Counter(was, domain) /\ handle = Anonymous(c)
                    BY <2>11, <4>1, <4>2, <5>1, NamedIs
                <5>. QED
                    BY <5>1, <5>2
            <4>4. c < Counter(last, domain)
                BY <2>5, <2>9, <3>1, <4>3
            <4>5. ~ \E m \in Nat : m >= Counter(last, domain) /\ handle = Anonymous(m)
                <5>1. \A m \in Nat : handle = Anonymous(m) => m = c
                    BY <4>3 DEF Anonymous
                <5>. QED
                    BY <2>5, <4>4, <5>1
            <4>6. Named(last, domain, handle)
                BY <2>5, <2>11, <4>1, <4>5
            <4>7. CASE r = n
                BY <2>2, <3>2, <4>6, <4>7
            <4>8. CASE r # n
                <5>1. r < n /\ n \in 1..n
                    BY <2>1, <3>1, <4>8
                <5>. QED
                    BY <2>1, <2>2, <2>11, <3>1, <3>2, <4>1, <4>6, <5>1 DEF Lineage
            <4>. QED
                BY <4>7, <4>8
        <3>. QED
            BY <3>3, <3>4
    <2>12. Snapshots'
        BY SnapshotsNext DEF Lineage
    <2>. QED
        BY <2>6, <2>8, <2>10, <2>11, <2>12 DEF Lineage
<1>. QED
    BY <1>1, <1>2 DEF Next, vars, prepare

\* An anonymous handle that a revision lacks never comes back.
THEOREM HandlesStay == Spec => []HandlesAreNotReassigned
<1>1. Lineage => HandlesAreNotReassigned
    <2>. SUFFICES ASSUME Lineage, NEW q \in DOMAIN snapshots, NEW r \in DOMAIN snapshots,
                         q < r, r < Len(snapshots), NEW domain \in Domains,
                         NEW handle \in AllHandles(snapshots[q])[domain] \cap AllHandles(Current)[domain]
                  PROVE  IsLabeled(handle) \/ handle \in AllHandles(snapshots[r])[domain]
        BY DEF HandlesAreNotReassigned, Domains
    <2>1. PICK s \in DOMAIN snapshots : s = Len(snapshots) /\ r < s
        BY DEF Lineage, Snapshots
    <2>2. PICK first, middle, last :
              first = snapshots[q] /\ middle = snapshots[r] /\ last = snapshots[s] /\ last = Current
        BY <2>1 DEF Current
    <2>3. SnapshotSound(first) /\ SnapshotSound(middle) /\ SnapshotSound(last)
        BY <2>2 DEF Lineage
    <2>4. Named(first, domain, handle) /\ Named(last, domain, handle)
        BY <2>2, <2>3, HandlesAre
    <2>5. IsLabeled(handle) \/ Named(middle, domain, handle)
        BY <2>1, <2>2, <2>4 DEF Lineage
    <2>. QED
        BY <2>2, <2>3, <2>5, HandlesAre
<1>. QED
    BY <1>1, LineageInit, LineageNext, PTL DEF Spec

-----------------------------------------------------------------------------
(***************************************************************************)
(* Plans.                                                                  *)
(***************************************************************************)
\* What is planned of a cell.
Planned(snapshot, at) ==
    [cell_id |-> CellId(snapshot, at),
     language |-> CellAt(snapshot.source, at).language,
     session |-> EvaluationOptions[snapshot.source][at].session]

\* Planned cells are at places of their own.
PlannedAt(snapshot, cells, at) ==
    /\ \A k \in DOMAIN cells : at[k] \in AllCells(snapshot) /\ cells[k] = Planned(snapshot, at[k])
    /\ \A k, l \in DOMAIN cells : at[k] = at[l] => k = l

\* The plan holds one cell per enabled cell of the snapshot, and no other.
LEMMA PlannedAre ==
    ASSUME NEW snapshot, SnapshotSound(snapshot)
    PROVE  /\ \E k \in Nat : DOMAIN PlannedCells(snapshot) = 1..k
           /\ \A x : x \in ToSet(PlannedCells(snapshot)) <=>
                 \E at \in AllCells(snapshot) :
                    EvaluationOptions[snapshot.source][at].eval /\ x = Planned(snapshot, at)
           /\ \E at : PlannedAt(snapshot, PlannedCells(snapshot), at)
<1>1. PICK document \in Documents : document = snapshot.source
    BY DEF SnapshotSound
<1>2. PICK order, n : /\ order = CellsOf[document] /\ n \in Nat /\ DOMAIN order = 1..n
                      /\ AllCells(snapshot) = ToSet(order)
    BY <1>1, CellsOfIs DEF AllCells
<1>3. PICK options : options = EvaluationOptions[document]
    OBVIOUS
<1>. DEFINE pieces == [m \in DOMAIN order |->
                          IF options[order[m]].eval THEN <<Planned(snapshot, order[m])>> ELSE <<>>]
            S == {Planned(snapshot, order[m]) : m \in 1..n}
<1>4. PICK cells : cells = FlattenSeq(pieces)
    OBVIOUS
<1>5. PlannedCells(snapshot) = cells
    BY <1>1, <1>2, <1>3, <1>4, Zenon DEF PlannedCells, CellId, Planned
<1>6. ASSUME NEW m \in 1..n
      PROVE  pieces[m] \in Seq(S) /\ ToSet(pieces[m]) = IF options[order[m]].eval THEN {Planned(snapshot, order[m])} ELSE {}
    <2>1. \A x : ToSet(<<x>>) = {x} /\ ToSet(<<>>) = {}
        BY DEF ToSet
    <2>2. Planned(snapshot, order[m]) \in S
        OBVIOUS
    <2>. HIDE DEF S
    <2>3. pieces[m] = IF options[order[m]].eval THEN <<Planned(snapshot, order[m])>> ELSE <<>>
        BY <1>2
    <2>. HIDE DEF pieces
    <2>4. PICK one, piece : one = Planned(snapshot, order[m]) /\ piece = pieces[m]
        OBVIOUS
    <2>5. CASE options[order[m]].eval
        <3>1. piece = <<one>> /\ one \in S
            BY <2>2, <2>3, <2>4, <2>5
        <3>2. piece \in Seq(S) /\ ToSet(piece) = {one}
            BY <2>1, <3>1, SmallSequences
        <3>. QED
            BY <2>4, <2>5, <3>2
    <2>6. CASE ~ options[order[m]].eval
        <3>1. piece = <<>>
            BY <2>3, <2>4, <2>6
        <3>2. piece \in Seq(S) /\ ToSet(piece) = {}
            BY <2>1, <3>1, SmallSequences
        <3>. QED
            BY <2>4, <2>6, <3>2
    <2>. QED
        BY <2>5, <2>6
<1>7. DOMAIN pieces = 1..n /\ Len(pieces) = n /\ (n = 0 => pieces = <<>>)
    <2>. QED
        BY <1>2
<1>8. /\ cells \in Seq(S) /\ \A x : x \in ToSet(cells) <=> \E m \in 1..n : x \in ToSet(pieces[m])
      /\ \E part, place : ListsAt(cells, pieces, n, part, place)
    <2>. HIDE DEF pieces, S
    <2>1. cells \in Seq(S) /\ Lists(cells, pieces, n)
        <3>1. n \in Nat /\ \A m \in 1..n : pieces[m] \in Seq(S)
            BY <1>2, <1>6
        <3>. QED
            BY <1>4, <1>7, <3>1, FlattenIs
    <2>. QED
        BY <2>1, Zenon DEF Lists
<1>9. \A x : x \in ToSet(cells) <=> \E m \in 1..n : options[order[m]].eval /\ x = Planned(snapshot, order[m])
    <2>. HIDE DEF pieces
    <2>. QED
        BY <1>6, <1>8
<1>10. PICK part, place : ListsAt(cells, pieces, n, part, place)
    BY <1>8
<1>11. PICK at : at = [k \in DOMAIN cells |-> order[part[k]]]
    OBVIOUS
<1>12. ASSUME NEW k \in DOMAIN cells
       PROVE  part[k] \in 1..n /\ place[k] = 1 /\ cells[k] = Planned(snapshot, order[part[k]])
    <2>1. PICK m \in 1..n : m = part[k]
        BY <1>10 DEF ListsAt
    <2>2. place[k] \in DOMAIN pieces[m] /\ cells[k] = pieces[m][place[k]]
        BY <1>10, <2>1 DEF ListsAt
    <2>3. pieces[m] = IF options[order[m]].eval THEN <<Planned(snapshot, order[m])>> ELSE <<>>
        BY <1>2
    <2>4. PICK one, piece, p : one = Planned(snapshot, order[m]) /\ piece = pieces[m] /\ p = place[k]
        OBVIOUS
    <2>. HIDE DEF pieces
    <2>5. (piece = <<one>> \/ piece = <<>>) /\ p \in DOMAIN piece
        BY <2>2, <2>3, <2>4
    <2>6. piece = <<one>> /\ p = 1
        BY <2>5
    <2>. QED
        BY <2>1, <2>2, <2>4, <2>6
<1>13. \A k, l \in DOMAIN cells : k < l => part[k] # part[l]
    <2>. HIDE DEF pieces
    <2>1. ASSUME NEW k \in DOMAIN cells, NEW l \in DOMAIN cells, k < l
          PROVE  part[k] # part[l]
        <3>1. part[k] < part[l] \/ (part[k] = part[l] /\ place[k] < place[l])
            BY <1>10, <2>1 DEF ListsAt
        <3>2. PICK p, q \in 1..n : p = part[k] /\ q = part[l] /\ place[k] = 1 /\ place[l] = 1
            BY <1>12
        <3>. QED
            BY <3>1, <3>2
    <2>. QED
        BY <2>1
<1>14. DOMAIN cells = 1..Len(cells) /\ Len(cells) \in Nat
    <2>. HIDE DEF S
    <2>. QED
        BY <1>8
<1>15. PlannedAt(snapshot, cells, at)
    <2>. HIDE DEF pieces
    <2>1. \A k \in DOMAIN cells : at[k] \in AllCells(snapshot) /\ cells[k] = Planned(snapshot, at[k])
        BY <1>2, <1>11, <1>12 DEF ToSet
    <2>2. ASSUME NEW k \in DOMAIN cells, NEW l \in DOMAIN cells, at[k] = at[l]
          PROVE  k = l
        <3>1. order[part[k]] = order[part[l]] /\ part[k] \in 1..n /\ part[l] \in 1..n
            BY <1>11, <1>12, <2>2
        <3>2. part[k] = part[l]
            BY <1>1, <1>2, <3>1, CellsOfIs DEF IsInjective
        <3>3. ~ (k < l) /\ ~ (l < k)
            BY <1>13, <3>2
        <3>. QED
            BY <1>14, <3>3
    <2>. QED
        BY <2>1, <2>2 DEF PlannedAt
<1>16. ASSUME NEW x
       PROVE  x \in ToSet(cells) <=>
                 \E a \in AllCells(snapshot) :
                    EvaluationOptions[snapshot.source][a].eval /\ x = Planned(snapshot, a)
    BY <1>1, <1>2, <1>3, <1>9 DEF ToSet
<1>. QED
    BY <1>5, <1>14, <1>15, <1>16

\* The planned cells are the enabled ones.
LEMMA PlanIs ==
    ASSUME NEW snapshot, SnapshotSound(snapshot)
    PROVE  /\ {cell.cell_id : cell \in Range(plan(snapshot))} =
                 {CellId(snapshot, at) :
                     at \in {a \in AllCells(snapshot) : EvaluationOptions[snapshot.source][a].eval}}
           /\ plan(snapshot) # <<>> <=>
                 \E at \in AllCells(snapshot) : EvaluationOptions[snapshot.source][at].eval
<1>1. PICK cells : cells = PlannedCells(snapshot)
    OBVIOUS
<1>2. /\ \E k \in Nat : DOMAIN cells = 1..k
      /\ \A x : x \in ToSet(cells) <=>
            \E at \in AllCells(snapshot) :
               EvaluationOptions[snapshot.source][at].eval /\ x = Planned(snapshot, at)
    BY <1>1, PlannedAre
<1>3. PICK options : options = EvaluationOptions[snapshot.source]
    OBVIOUS
<1>4. PICK links : plan(snapshot) = [m \in DOMAIN cells |-> Linked(cells[m], links[m])]
    BY <1>1, Zenon DEF plan, linked
<1>5. {cell.cell_id : cell \in Range(plan(snapshot))} = {cell.cell_id : cell \in ToSet(cells)}
    <2>1. \A cell, link : Linked(cell, link).cell_id = cell.cell_id
        BY DEF Linked
    <2>2. Range(plan(snapshot)) = {Linked(cells[m], links[m]) : m \in DOMAIN cells}
        BY <1>4 DEF Range
    <2>3. ToSet(cells) = {cells[m] : m \in DOMAIN cells}
        BY DEF ToSet
    <2>. QED
        BY <2>1, <2>2, <2>3
<1>6. \A at : Planned(snapshot, at).cell_id = CellId(snapshot, at)
    BY DEF Planned
<1>7. {cell.cell_id : cell \in ToSet(cells)} =
          {CellId(snapshot, at) : at \in {a \in AllCells(snapshot) : options[a].eval}}
    <2>1. ASSUME NEW id, \E cell \in ToSet(cells) : id = cell.cell_id
          PROVE  \E at \in {a \in AllCells(snapshot) : options[a].eval} : id = CellId(snapshot, at)
        BY <1>2, <1>3, <1>6, <2>1
    <2>2. ASSUME NEW at \in {a \in AllCells(snapshot) : options[a].eval}
          PROVE  \E cell \in ToSet(cells) : CellId(snapshot, at) = cell.cell_id
        BY <1>2, <1>3, <1>6
    <2>. QED
        BY <2>1, <2>2
<1>8. plan(snapshot) # <<>> <=> \E x : x \in ToSet(cells)
    <2>1. DOMAIN plan(snapshot) = DOMAIN cells
        BY <1>4
    <2>2. plan(snapshot) = <<>> <=> DOMAIN cells = {}
        <3>1. DOMAIN <<>> = {}
            OBVIOUS
        <3>2. DOMAIN cells = {} => plan(snapshot) = <<>>
            BY <1>2, <1>4
        <3>. QED
            BY <2>1, <3>1, <3>2
    <2>. QED
        BY <2>2 DEF ToSet
<1>. QED
    BY <1>2, <1>3, <1>5, <1>7, <1>8

-----------------------------------------------------------------------------
(***************************************************************************)
(* Labels.                                                                 *)
(***************************************************************************)
\* The label that the options of a cell declare.
CellLabel(options) == options.entries[CHOOSE d \in LabelEntries(options) : TRUE].text

\* The text of a block declares a label for a slot.
Declares(text, k, label) ==
    \/ k = 1 /\ Content[text].label # None /\ label = Content[text].label
    \/ \E j \in DOMAIN Content[text].cells :
          /\ k \in {NodeSlot(Content[text], j), CellSlot(Content[text], j)}
          /\ LabelEntries(Content[text].cells[j].options) # {}
          /\ label = CellLabel(Content[text].cells[j].options)

\* The declarations of a block.
DeclaredBy(text, i) ==
    {d \in {Declaration(Content[text].label, i, 1, 0)} : Content[text].label # None}
    \cup {Declaration(CellLabel(Content[text].cells[j].options), i,
                      NodeSlot(Content[text], j), CellSlot(Content[text], j)) :
             j \in {l \in DOMAIN Content[text].cells :
                       LabelEntries(Content[text].cells[l].options) # {}}}

\* Slots of different cells differ; only the cell of a cell block shares the
\* slot of the block's node.
LEMMA SlotsApart ==
    ASSUME NEW text \in Texts, NEW block, block = Content[text],
           NEW j \in DOMAIN block.cells, NEW l \in DOMAIN block.cells
    PROVE  /\ NodeSlot(block, j) = NodeSlot(block, l) => j = l
           /\ CellSlot(block, j) = CellSlot(block, l) => j = l
           /\ NodeSlot(block, j) # CellSlot(block, l)
           /\ NodeSlot(block, j) = 1 <=> block.kind = "cell"
           /\ CellSlot(block, j) # 1
           /\ NodeSlot(block, j) \in 1..SlotCount(block) /\ CellSlot(block, j) \in 1..SlotCount(block)
<1>1. /\ block.cells \in Seq([text : STRING, language : STRING, options : CellOptions])
      /\ block.kind = "cell" => Len(block.cells) = 1
    BY TextIs
<1>2. PICK n \in Nat : n = Len(block.cells) /\ DOMAIN block.cells = 1..n
    BY <1>1
<1>3. j \in 1..n /\ l \in 1..n
    BY <1>2
<1>4. CASE block.kind = "cell"
    <2>1. n = 1
        BY <1>1, <1>2, <1>4
    <2>2. j = 1 /\ l = 1
        BY <1>3, <2>1
    <2>. QED
        BY <1>4, <2>2 DEF NodeSlot, CellSlot, SlotCount
<1>5. CASE block.kind # "cell"
    <2>1. /\ NodeSlot(block, j) = 2 * j /\ NodeSlot(block, l) = 2 * l
          /\ CellSlot(block, j) = 2 * j + 1 /\ CellSlot(block, l) = 2 * l + 1
          /\ SlotCount(block) = 1 + 2 * n
        BY <1>2, <1>3, <1>5 DEF NodeSlot, CellSlot, SlotCount
    <2>. QED
        BY <1>3, <1>5, <2>1
<1>. QED
    BY <1>4, <1>5

\* The elements of a concatenation.
LEMMA ToSetOfBoth ==
    ASSUME NEW S, NEW u \in Seq(S), NEW v \in Seq(S)
    PROVE  \A x : x \in ToSet(u \o v) <=> x \in ToSet(u) \/ x \in ToSet(v)
<1>1. PICK w : w = u \o v
    OBVIOUS
<1>2. /\ Len(u) \in Nat /\ Len(v) \in Nat
      /\ DOMAIN u = 1..Len(u) /\ DOMAIN v = 1..Len(v) /\ DOMAIN w = 1..(Len(u) + Len(v))
      /\ \A k \in 1..Len(u) : w[k] = u[k]
      /\ \A k \in 1..(Len(u) + Len(v)) : k > Len(u) => w[k] = v[k - Len(u)]
    BY <1>1
<1>3. ASSUME NEW x \in ToSet(v) PROVE x \in ToSet(w)
    <2>1. PICK k \in 1..Len(v) : x = v[k]
        BY <1>2 DEF ToSet
    <2>2. /\ k + Len(u) \in 1..(Len(u) + Len(v)) /\ k + Len(u) > Len(u)
          /\ (k + Len(u)) - Len(u) = k
        BY <1>2
    <2>. QED
        BY <1>2, <2>1, <2>2 DEF ToSet
<1>4. ASSUME NEW x \in ToSet(w) PROVE x \in ToSet(u) \/ x \in ToSet(v)
    <2>1. PICK k \in 1..(Len(u) + Len(v)) : x = w[k]
        BY <1>2 DEF ToSet
    <2>2. k \in 1..Len(u) \/ (k > Len(u) /\ k - Len(u) \in 1..Len(v))
        BY <1>2
    <2>. QED
        BY <1>2, <2>1, <2>2 DEF ToSet
<1>5. \A x \in ToSet(u) : x \in ToSet(w)
    BY <1>2 DEF ToSet
<1>. QED
    BY <1>1, <1>3, <1>4, <1>5

\* The declarations of a document are those of its blocks (labels).
LEMMA DeclaredIs ==
    ASSUME NEW document \in Documents
    PROVE  \A d : d \in ToSet(labels[document]) <=>
               \E i \in Blocks(document) : d \in DeclaredBy(Input[document].blocks[i], i)
<1>. DEFINE n == Len(Input[document].blocks)
            own(i) == IF Block(document, i).label = None THEN <<>>
                      ELSE <<Declaration(Block(document, i).label, i, 1, 0)>>
            inner(i) == [j \in DOMAIN Block(document, i).cells |-> CellDeclarations(document, i, j)]
            pieces == [i \in Blocks(document) |-> own(i) \o FlattenSeq(inner(i))]
            All == UNION {ToSet(pieces[i]) : i \in Blocks(document)}
<1>1. n \in Nat /\ Blocks(document) = 1..n
    BY DocumentIs
<1>2. ASSUME NEW i \in 1..n
      PROVE  /\ \E S : pieces[i] \in Seq(S)
             /\ ToSet(pieces[i]) = DeclaredBy(Input[document].blocks[i], i)
    <2>1. PICK text \in Texts : text = Input[document].blocks[i] /\ Block(document, i) = Content[text]
        BY <1>1, BlockIs
    <2>2. PICK block : block = Content[text] /\ block = Block(document, i)
        BY <2>1
    <2>3. block.cells \in Seq([text : STRING, language : STRING, options : CellOptions])
        BY <2>2, TextIs
    <2>4. PICK m \in Nat : DOMAIN block.cells = 1..m
        BY <2>3
    <2>. DEFINE D(j) == Declaration(CellLabel(block.cells[j].options), i,
                                    NodeSlot(block, j), CellSlot(block, j))
                S == {Declaration(block.label, i, 1, 0)} \cup {D(j) : j \in 1..m}
    <2>5. ASSUME NEW j \in 1..m
          PROVE  /\ CellDeclarations(document, i, j) \in Seq(S)
                 /\ ToSet(CellDeclarations(document, i, j)) =
                        {d \in {D(j)} : LabelEntries(block.cells[j].options) # {}}
        <3>1. PICK options \in CellOptions : options = block.cells[j].options
            <4>1. \A T : \A c \in Seq(T) : \A k \in DOMAIN c : c[k] \in T
                OBVIOUS
            <4>2. block.cells[j] \in [text : STRING, language : STRING, options : CellOptions]
                BY <2>3, <2>4, <4>1, Zenon
            <4>3. \A C : C \in [text : STRING, language : STRING, options : CellOptions] =>
                      C.options \in CellOptions
                OBVIOUS
            <4>. QED
                BY <4>2, <4>3
        <3>2. PICK entries \in Seq(OptionEntry) : entries = options.entries
            BY OptionsAre
        <3>3. IsFiniteSet(LabelEntries(options)) /\ Cardinality(LabelEntries(options)) \in Nat
            <4>1. IsFiniteSet(DOMAIN entries)
                <5>1. PICK w \in Int : DOMAIN entries = 1..w
                    BY <3>2
                <5>. QED
                    BY <5>1, FS_Interval
            <4>2. LabelEntries(options) \subseteq DOMAIN entries
                BY <3>2 DEF LabelEntries
            <4>. QED
                BY <4>1, <4>2, FS_Subset, FS_CardinalityType
        <3>4. PICK c \in Nat : c = Cardinality(LabelEntries(options))
            BY <3>3
        <3>5. c = 0 <=> LabelEntries(options) = {}
            BY <3>3, <3>4, FS_EmptySet
        <3>6. PICK d : d = D(j)
            OBVIOUS
        <3>7. CellDeclarations(document, i, j) = [e \in 1..c |-> d]
            BY <2>2, <3>1, <3>4, <3>6 DEF CellDeclarations, CellLabel
        <3>8. d \in S
            BY <3>6
        <3>9. [e \in 1..c |-> d] \in Seq(S) /\ ToSet([e \in 1..c |-> d]) = {x \in {d} : c # 0}
            <4>. HIDE DEF S
            <4>1. [e \in 1..c |-> d] \in Seq(S)
                BY <3>8
            <4>2. PICK f : f = [e \in 1..c |-> d]
                OBVIOUS
            <4>3. DOMAIN f = 1..c /\ \A e \in 1..c : f[e] = d
                BY <4>2
            <4>4. c # 0 => 1 \in 1..c
                OBVIOUS
            <4>5. c = 0 => 1..c = {}
                OBVIOUS
            <4>6. ToSet(f) = {x \in {d} : c # 0}
                BY <4>3, <4>4, <4>5 DEF ToSet
            <4>. QED
                BY <4>1, <4>2, <4>6
        <3>. QED
            BY <3>1, <3>5, <3>6, <3>7, <3>9
    <2>6. PICK f : f = inner(i)
        OBVIOUS
    <2>7. DOMAIN f = 1..m /\ Len(f) = m /\ (m = 0 => f = <<>>)
        BY <2>2, <2>4, <2>6
    <2>8. \A j \in 1..m : f[j] = CellDeclarations(document, i, j)
        BY <2>2, <2>4, <2>6
    <2>. HIDE DEF S, D
    <2>9. FlattenSeq(f) \in Seq(S) /\ Lists(FlattenSeq(f), f, m)
        BY <2>5, <2>7, <2>8, FlattenIs, ZenonT(40)
    <2>10. PICK flat : flat = FlattenSeq(f)
        OBVIOUS
    <2>11. \A x : x \in ToSet(flat) <=>
               \E j \in 1..m : LabelEntries(block.cells[j].options) # {} /\ x = D(j)
        <3>1. \A x : x \in ToSet(flat) <=> \E j \in 1..m : x \in ToSet(f[j])
            BY <2>9, <2>10 DEF Lists
        <3>2. \A j \in 1..m : \A x : x \in ToSet(f[j]) <=>
                  LabelEntries(block.cells[j].options) # {} /\ x = D(j)
            BY <2>5, <2>8
        <3>. QED
            BY <3>1, <3>2
    <2>12. PICK first : first = own(i)
        OBVIOUS
    <2>13. /\ first \in Seq(S)
           /\ ToSet(first) = {d \in {Declaration(block.label, i, 1, 0)} : block.label # None}
        <3>1. PICK d : d = Declaration(block.label, i, 1, 0)
            OBVIOUS
        <3>2. first = IF block.label = None THEN <<>> ELSE <<d>>
            BY <2>2, <2>12, <3>1
        <3>3. d \in S
            BY <3>1 DEF S
        <3>4. \A x : ToSet(<<x>>) = {x} /\ ToSet(<<>>) = {}
            BY DEF ToSet
        <3>5. first \in Seq(S)
            BY <3>2, <3>3, SmallSequences
        <3>. QED
            BY <3>1, <3>2, <3>4, <3>5
    <2>14. \A x : x \in ToSet(first \o flat) <=> x \in ToSet(first) \/ x \in ToSet(flat)
        <3>1. first \in Seq(S) /\ flat \in Seq(S)
            BY <2>9, <2>10, <2>13
        <3>. QED
            BY <3>1, ToSetOfBoth
    <2>15. pieces[i] = first \o flat
        BY <1>1, <2>6, <2>10, <2>12
    <2>16. pieces[i] \in Seq(S)
        <3>1. \A u, v \in Seq(S) : u \o v \in Seq(S)
            OBVIOUS
        <3>. HIDE DEF pieces
        <3>. QED
            BY <2>9, <2>10, <2>13, <2>15, <3>1
    <2>17. \A x : x \in DeclaredBy(text, i) <=>
               \/ block.label # None /\ x = Declaration(block.label, i, 1, 0)
               \/ \E j \in 1..m : LabelEntries(block.cells[j].options) # {} /\ x = D(j)
        BY <2>2, <2>4 DEF DeclaredBy, D
    <2>18. \A x : x \in ToSet(pieces[i]) <=> x \in DeclaredBy(text, i)
        <3>. HIDE DEF pieces
        <3>. QED
            BY <2>11, <2>13, <2>14, <2>15, <2>17
    <2>. HIDE DEF pieces
    <2>. QED
        BY <2>1, <2>16, <2>18
<1>3. labels[document] = FlattenSeq(pieces)
    BY DEF labels
<1>4. DOMAIN pieces = 1..n /\ Len(pieces) = n /\ (n = 0 => pieces = <<>>)
    BY <1>1
<1>5. \A i \in 1..n : pieces[i] \in Seq(All)
    <2>. HIDE DEF pieces
    <2>1. ASSUME NEW i \in 1..n
          PROVE  pieces[i] \in Seq(All)
        <3>1. PICK S : pieces[i] \in Seq(S)
            BY <1>2
        <3>2. PICK piece : piece = pieces[i]
            OBVIOUS
        <3>3. \A x \in ToSet(piece) : x \in All
            BY <1>1, <3>2
        <3>. HIDE DEF All
        <3>4. piece \in Seq(All)
            BY <3>1, <3>2, <3>3 DEF ToSet
        <3>. QED
            BY <3>2, <3>4
    <2>. QED
        BY <2>1
<1>. HIDE DEF pieces, All
<1>6. Lists(FlattenSeq(pieces), pieces, n)
    BY <1>1, <1>4, <1>5, FlattenIs
<1>. QED
    BY <1>1, <1>2, <1>3, <1>6 DEF Lists

\* A slot of a block is declared one label at most, and the two slots of a cell
\* the same one.
LEMMA DeclaresOne ==
    ASSUME NEW text \in Texts, NEW k
    PROVE  /\ \A label, other : Declares(text, k, label) /\ Declares(text, k, other) => label = other
           /\ \A label : Declares(text, k, label) => label \in STRING
<1>1. PICK block : block = Content[text]
    OBVIOUS
<1>2. /\ block.label \in {None} \cup STRING
      /\ block.cells \in Seq([text : STRING, language : STRING, options : CellOptions])
      /\ block.kind = "cell" => block.label = None
    BY <1>1, TextIs
<1>3. ASSUME NEW label, Declares(text, k, label)
      PROVE  \/ k = 1 /\ block.label # None /\ label = block.label
             \/ \E j \in DOMAIN block.cells :
                   /\ k \in {NodeSlot(block, j), CellSlot(block, j)}
                   /\ LabelEntries(block.cells[j].options) # {}
                   /\ label = CellLabel(block.cells[j].options)
    BY <1>1, <1>3 DEF Declares
<1>4. ASSUME NEW label, NEW other, Declares(text, k, label), Declares(text, k, other)
      PROVE  label = other
    <2>1. CASE k = 1 /\ block.label # None
        <3>1. ~ \E j \in DOMAIN block.cells : k \in {NodeSlot(block, j), CellSlot(block, j)}
            BY <1>1, <1>2, <2>1, SlotsApart
        <3>. QED
            BY <1>3, <1>4, <3>1
    <2>2. CASE ~ (k = 1 /\ block.label # None)
        <3>1. PICK j \in DOMAIN block.cells :
                  /\ k \in {NodeSlot(block, j), CellSlot(block, j)}
                  /\ label = CellLabel(block.cells[j].options)
            BY <1>3, <1>4, <2>2
        <3>2. PICK l \in DOMAIN block.cells :
                  /\ k \in {NodeSlot(block, l), CellSlot(block, l)}
                  /\ other = CellLabel(block.cells[l].options)
            BY <1>3, <1>4, <2>2
        <3>3. j = l
            BY <1>1, <3>1, <3>2, SlotsApart
        <3>. QED
            BY <3>1, <3>2, <3>3
    <2>. QED
        BY <2>1, <2>2
<1>5. ASSUME NEW label, Declares(text, k, label)
      PROVE  label \in STRING
    <2>1. CASE block.label # None /\ label = block.label
        BY <1>2, <2>1
    <2>2. ASSUME NEW j \in DOMAIN block.cells, LabelEntries(block.cells[j].options) # {},
                 label = CellLabel(block.cells[j].options)
          PROVE  label \in STRING
        <3>1. PICK options \in CellOptions : options = block.cells[j].options
            <4>1. \A T : \A c \in Seq(T) : \A m \in DOMAIN c : c[m] \in T
                OBVIOUS
            <4>2. block.cells[j] \in [text : STRING, language : STRING, options : CellOptions]
                BY <1>2, <2>2, <4>1, Zenon
            <4>3. \A C : C \in [text : STRING, language : STRING, options : CellOptions] =>
                      C.options \in CellOptions
                OBVIOUS
            <4>. QED
                BY <4>2, <4>3
        <3>2. PICK entries \in Seq(OptionEntry) : entries = options.entries
            BY OptionsAre
        <3>3. PICK d \in DOMAIN entries : d = CHOOSE x \in LabelEntries(options) : TRUE
            BY <2>2, <3>1, <3>2 DEF LabelEntries
        <3>4. entries[d] \in OptionEntry
            BY <3>2, <3>3
        <3>5. entries[d].text \in STRING
            BY <3>4 DEF OptionEntry
        <3>. QED
            BY <2>2, <3>1, <3>2, <3>3, <3>5 DEF CellLabel
    <2>. QED
        BY <1>3, <1>5, <2>1, <2>2
<1>. QED
    BY <1>4, <1>5

\* A label is declared by both slots of its cell, the node and the execution, or by neither.
LEMMA DeclaresPair ==
    ASSUME NEW text \in Texts, NEW block, block = Content[text],
           NEW j \in DOMAIN block.cells, NEW label
    PROVE  Declares(text, NodeSlot(block, j), label) <=> Declares(text, CellSlot(block, j), label)
<1>1. block.kind = "cell" => block.label = None
    BY TextIs
<1>2. PICK k, c : k = NodeSlot(block, j) /\ c = CellSlot(block, j)
    OBVIOUS
<1>3. (k = 1 <=> block.kind = "cell") /\ c # 1
    BY <1>2, SlotsApart
<1>4. \A l \in DOMAIN block.cells :
          k \in {NodeSlot(block, l), CellSlot(block, l)} <=> c \in {NodeSlot(block, l), CellSlot(block, l)}
    BY <1>2, SlotsApart
<1>. QED
    BY <1>1, <1>2, <1>3, <1>4 DEF Declares

\* Two declarations of a document have the same label.
Repeated(document, label) ==
    \E d, e \in DOMAIN labels[document] :
        d # e /\ labels[document][d].label = label /\ labels[document][e].label = label

\* What a block declares, by the slot.
LEMMA DeclaredFor ==
    ASSUME NEW text \in Texts, NEW block, block = Content[text], NEW i, NEW k \in 1..SlotCount(block)
    PROVE  /\ \A d \in DeclaredBy(text, i) :
                 d.block = i /\ (k \in {d.node, d.cell} => Declares(text, k, d.label))
           /\ \A label : Declares(text, k, label) =>
                 \E d \in DeclaredBy(text, i) : k \in {d.node, d.cell} /\ d.label = label
<1>1. \A label, n, c : /\ Declaration(label, i, n, c).block = i
                       /\ Declaration(label, i, n, c).node = n
                       /\ Declaration(label, i, n, c).cell = c
                       /\ Declaration(label, i, n, c).label = label
    BY DEF Declaration
<1>2. SlotCount(block) \in Nat /\ k # 0
    BY SlotsAre
<1>3. ASSUME NEW d \in DeclaredBy(text, i)
      PROVE  d.block = i /\ (k \in {d.node, d.cell} => Declares(text, k, d.label))
    BY <1>1, <1>2, <1>3 DEF DeclaredBy, Declares
<1>4. ASSUME NEW label, Declares(text, k, label)
      PROVE  \E d \in DeclaredBy(text, i) : k \in {d.node, d.cell} /\ d.label = label
    <2>1. CASE k = 1 /\ block.label # None /\ label = block.label
        <3>1. Declaration(block.label, i, 1, 0) \in DeclaredBy(text, i)
            BY <2>1 DEF DeclaredBy
        <3>. QED
            BY <1>1, <2>1, <3>1
    <2>2. ASSUME NEW j \in DOMAIN block.cells, k \in {NodeSlot(block, j), CellSlot(block, j)},
                 LabelEntries(block.cells[j].options) # {},
                 label = CellLabel(block.cells[j].options)
          PROVE  \E d \in DeclaredBy(text, i) : k \in {d.node, d.cell} /\ d.label = label
        <3>1. Declaration(label, i, NodeSlot(block, j), CellSlot(block, j)) \in DeclaredBy(text, i)
            BY <2>2 DEF DeclaredBy
        <3>. QED
            BY <1>1, <2>2, <3>1
    <2>. QED
        BY <1>4, <2>1, <2>2 DEF Declares
<1>. QED
    BY <1>3, <1>4

\* A slot is asked for the label that its block declares for it, if no other
\* declaration has that (label_desired).
LEMMA DesiredFrom ==
    ASSUME NEW document \in Documents, NEW i \in Blocks(document),
           NEW text, text = Input[document].blocks[i], NEW k \in 1..SlotCount(Content[text])
    PROVE  /\ (\A label : ~ Declares(text, k, label)) => Desired[document][i][k] = Unassigned
           /\ \A label : Declares(text, k, label) =>
                 Desired[document][i][k] = IF Repeated(document, label) THEN MustBeAnonymous
                                           ELSE Labeled(label)
<1>1. PICK declared \in Seq(Declarations) : declared = labels[document]
    BY LabelsAre
<1>2. text \in Texts /\ Block(document, i) = Content[text]
    BY BlockIs
<1>3. Desired[document][i][k] = LabelDesired(declared, i, k)
    BY <1>1, <1>2 DEF Desired
<1>4. PICK own : own = {d \in DOMAIN declared :
                           declared[d].block = i /\ k \in {declared[d].node, declared[d].cell}}
    OBVIOUS
<1>5. own \in SUBSET Nat /\ own \subseteq DOMAIN declared
    BY <1>1, <1>4
<1>6. \A d \in DOMAIN declared : declared[d] \in ToSet(declared)
    BY DEF ToSet
<1>7. ASSUME NEW d \in own
      PROVE  Declares(text, k, declared[d].label)
    <2>1. PICK l \in Blocks(document) : declared[d] \in DeclaredBy(Input[document].blocks[l], l)
        BY <1>1, <1>5, <1>6, <1>7, DeclaredIs
    <2>2. declared[d].block = i /\ k \in {declared[d].node, declared[d].cell}
        BY <1>4, <1>7
    <2>0. PICK other \in Texts : other = Input[document].blocks[l]
        BY BlockIs
    <2>3. PICK x : x = declared[d] /\ x \in DeclaredBy(other, l)
        BY <2>0, <2>1
    <2>4. x.block = l
        <3>1. 1 \in 1..SlotCount(Content[other])
            BY SlotsAre DEF HandleDomains
        <3>. QED
            BY <2>3, <3>1, DeclaredFor
    <2>5. x \in DeclaredBy(text, i)
        BY <2>0, <2>2, <2>3, <2>4
    <2>6. k \in {x.node, x.cell} => Declares(text, k, x.label)
        BY <1>2, <2>5, DeclaredFor
    <2>. QED
        BY <2>2, <2>3, <2>6
<1>8. ASSUME NEW label, Declares(text, k, label)
      PROVE  own # {}
    <2>1. PICK d \in DeclaredBy(text, i) : k \in {d.node, d.cell} /\ d.block = i
        BY <1>2, <1>8, DeclaredFor
    <2>2. d \in ToSet(declared)
        BY <1>1, <2>1, DeclaredIs
    <2>3. PICK e \in DOMAIN declared : declared[e] = d
        BY <2>2 DEF ToSet
    <2>. QED
        BY <1>4, <2>1, <2>3
<1>9. LabelDesired(declared, i, k)
          = IF own = {} THEN Unassigned
            ELSE IF Repeated(document, declared[Min(own)].label) THEN MustBeAnonymous
            ELSE Labeled(declared[Min(own)].label)
    BY <1>1, <1>4 DEF LabelDesired, Repeated
<1>10. ASSUME NEW label, Declares(text, k, label)
       PROVE  declared[Min(own)].label = label
    <2>1. Min(own) \in own
        BY <1>5, <1>8, <1>10, MinIs
    <2>. QED
        BY <1>2, <1>7, <1>10, <2>1, DeclaresOne
<1>. QED
    BY <1>3, <1>7, <1>8, <1>9, <1>10

\* A label that is not repeated is declared once.
LEMMA DeclaredOnce ==
    ASSUME NEW document \in Documents, NEW label, ~ Repeated(document, label),
           NEW i \in Blocks(document), NEW x \in DeclaredBy(Input[document].blocks[i], i),
           x.label = label,
           NEW l \in Blocks(document), NEW y \in DeclaredBy(Input[document].blocks[l], l),
           y.label = label
    PROVE  i = l /\ x = y
<1>1. x \in ToSet(labels[document]) /\ y \in ToSet(labels[document])
    BY DeclaredIs
<1>2. PICK d \in DOMAIN labels[document] : labels[document][d] = x
    BY <1>1 DEF ToSet
<1>3. PICK e \in DOMAIN labels[document] : labels[document][e] = y
    BY <1>1 DEF ToSet
<1>4. x = y
    BY <1>2, <1>3 DEF Repeated
<1>5. ASSUME NEW m \in Blocks(document), NEW z \in DeclaredBy(Input[document].blocks[m], m)
      PROVE  z.block = m
    <2>1. PICK text \in Texts : text = Input[document].blocks[m]
        BY BlockIs
    <2>2. 1 \in 1..SlotCount(Content[text])
        BY SlotsAre DEF HandleDomains
    <2>. QED
        BY <1>5, <2>1, <2>2, DeclaredFor
<1>. QED
    BY <1>4, <1>5

\* What a slot that is asked for a label's handle declares.
LEMMA LabelOf ==
    ASSUME NEW document \in Documents, NEW i \in Blocks(document),
           NEW text, text = Input[document].blocks[i], NEW k \in 1..SlotCount(Content[text]),
           IsLabeled(Desired[document][i][k])
    PROVE  \E label \in STRING :
              /\ Desired[document][i][k] = Labeled(label) /\ Declares(text, k, label)
              /\ ~ Repeated(document, label)
<1>1. text \in Texts
    BY BlockIs
<1>2. ~ IsLabeled(Unassigned) /\ ~ IsLabeled(MustBeAnonymous)
    BY DEF IsLabeled, Unassigned, MustBeAnonymous
<1>3. PICK label : Declares(text, k, label)
    BY <1>2, DesiredFrom
<1>4. label \in STRING
    BY <1>1, <1>3, DeclaresOne
<1>5. Desired[document][i][k] = IF Repeated(document, label) THEN MustBeAnonymous ELSE Labeled(label)
    BY <1>3, DesiredFrom
<1>. QED
    BY <1>2, <1>3, <1>4, <1>5

\* Two slots of one domain are never asked for the same label's handle.
LEMMA LabelOwner ==
    ASSUME NEW document \in Documents, NEW domain \in HandleDomains,
           NEW i \in Blocks(document), NEW k \in SlotsOf(Block(document, i), domain),
           NEW l \in Blocks(document), NEW m \in SlotsOf(Block(document, l), domain),
           IsLabeled(Desired[document][i][k]), Desired[document][i][k] = Desired[document][l][m]
    PROVE  i = l /\ k = m
<1>1. PICK text \in Texts : text = Input[document].blocks[i] /\ Block(document, i) = Content[text]
    BY BlockIs
<1>2. PICK other \in Texts : other = Input[document].blocks[l] /\ Block(document, l) = Content[other]
    BY BlockIs
<1>3. PICK block : block = Content[text]
    OBVIOUS
<1>4. k \in 1..SlotCount(block) /\ m \in 1..SlotCount(Content[other])
    BY <1>1, <1>2, <1>3, SlotsAre
<1>5. PICK label : /\ Desired[document][i][k] = Labeled(label) /\ Declares(text, k, label)
                   /\ ~ Repeated(document, label)
    BY <1>1, <1>3, <1>4, LabelOf
<1>6. Declares(other, m, label)
    <2>1. PICK same : Desired[document][l][m] = Labeled(same) /\ Declares(other, m, same)
        BY <1>2, <1>4, LabelOf
    <2>2. \A a, b : Labeled(a) = Labeled(b) => a = b
        BY DEF Labeled
    <2>3. label = same
        <3>1. Labeled(label) = Labeled(same)
            BY <1>5, <2>1
        <3>. QED
            BY <2>2, <3>1
    <2>. QED
        BY <2>1, <2>3
<1>7. PICK x \in DeclaredBy(text, i) : k \in {x.node, x.cell} /\ x.label = label
    BY <1>1, <1>3, <1>4, <1>5, DeclaredFor
<1>8. PICK y \in DeclaredBy(other, l) : m \in {y.node, y.cell} /\ y.label = label
    BY <1>2, <1>4, <1>6, DeclaredFor
<1>9. i = l /\ x = y
    BY <1>1, <1>2, <1>5, <1>7, <1>8, DeclaredOnce
<1>10. x.node \in SlotsOf(block, "node") /\ (x.cell = 0 \/ x.cell \in SlotsOf(block, "cell"))
    <2>1. 1 \in SlotsOf(block, "node")
        BY <1>3, SlotsAre
    <2>2. \A j \in DOMAIN block.cells :
              NodeSlot(block, j) \in SlotsOf(block, "node") /\ CellSlot(block, j) \in SlotsOf(block, "cell")
        BY <1>3, CellSlots
    <2>. QED
        BY <1>3, <2>1, <2>2 DEF DeclaredBy, Declaration
<1>11. /\ SlotsOf(block, "node") \cap SlotsOf(block, "cell") = {}
       /\ 0 \notin SlotsOf(block, "node") /\ 0 \notin SlotsOf(block, "cell")
    <2>1. "node" \in HandleDomains /\ "cell" \in HandleDomains
        BY DEF HandleDomains
    <2>2. SlotsOf(block, "node") \subseteq 1..SlotCount(block)
        BY <1>3, <2>1, SlotsAre
    <2>3. SlotsOf(block, "cell") \subseteq 1..SlotCount(block)
        BY <1>3, <2>1, SlotsAre
    <2>4. SlotsOf(block, "node") \cap SlotsOf(block, "cell") = {}
        BY <1>3, SlotsAre
    <2>5. 0 \notin 1..SlotCount(block)
        OBVIOUS
    <2>. QED
        BY <2>2, <2>3, <2>4, <2>5
<1>12. k \in SlotsOf(block, domain) /\ m \in SlotsOf(block, domain)
    BY <1>1, <1>2, <1>3, <1>9
<1>. QED
    BY <1>7, <1>8, <1>9, <1>10, <1>11, <1>12 DEF HandleDomains

\* A block that occurs twice is asked for no label's handle.
LEMMA RepeatsAreAnonymous ==
    ASSUME NEW document \in Documents, NEW i \in Blocks(document), NEW l \in Blocks(document),
           NEW text, text = Input[document].blocks[i], text = Input[document].blocks[l],
           i # l, NEW k \in 1..SlotCount(Content[text])
    PROVE  /\ ~ IsLabeled(Desired[document][i][k])
           /\ Desired[document][i][k] = Desired[document][l][k]
<1>1. text \in Texts
    BY BlockIs
<1>2. ASSUME NEW label, Declares(text, k, label)
      PROVE  Repeated(document, label)
    <2>1. PICK x \in DeclaredBy(text, i) : x.label = label
        BY <1>1, <1>2, DeclaredFor
    <2>2. PICK y \in DeclaredBy(text, l) : y.label = label
        BY <1>1, <1>2, DeclaredFor
    <2>3. \E d \in ToSet(labels[document]) : d = x
        BY <2>1, DeclaredIs
    <2>4. \E d \in ToSet(labels[document]) : d = y
        BY <2>2, DeclaredIs
    <2>5. PICK d \in DOMAIN labels[document] : labels[document][d] = x
        BY <2>3 DEF ToSet
    <2>6. PICK e \in DOMAIN labels[document] : labels[document][e] = y
        BY <2>4 DEF ToSet
    <2>7. x.block = i /\ y.block = l
        BY <1>1, <2>1, <2>2, DeclaredFor
    <2>8. d # e
        BY <2>5, <2>6, <2>7
    <2>. QED
        BY <2>1, <2>2, <2>5, <2>6, <2>8 DEF Repeated
<1>3. ~ IsLabeled(Unassigned) /\ ~ IsLabeled(MustBeAnonymous)
    BY DEF IsLabeled, Unassigned, MustBeAnonymous
<1>4. CASE \E label : Declares(text, k, label)
    <2>1. PICK label : Declares(text, k, label) /\ Repeated(document, label)
        BY <1>2, <1>4
    <2>2. Desired[document][i][k] = MustBeAnonymous
        BY <2>1, DesiredFrom
    <2>3. Desired[document][l][k] = MustBeAnonymous
        BY <2>1, DesiredFrom
    <2>. QED
        BY <1>3, <2>2, <2>3
<1>5. CASE \A label : ~ Declares(text, k, label)
    <2>1. Desired[document][i][k] = Unassigned
        BY <1>5, DesiredFrom
    <2>2. Desired[document][l][k] = Unassigned
        BY <1>5, DesiredFrom
    <2>. QED
        BY <1>3, <2>1, <2>2
<1>. QED
    BY <1>4, <1>5

\* A cell's node is asked for the label's handle that its cell is asked for.
LEMMA DesiredPair ==
    ASSUME NEW document \in Documents, NEW i \in Blocks(document),
           NEW block, block = Block(document, i), NEW j \in DOMAIN block.cells
    PROVE  Desired[document][i][NodeSlot(block, j)] = Desired[document][i][CellSlot(block, j)]
<1>1. PICK text \in Texts : text = Input[document].blocks[i] /\ block = Content[text]
    BY BlockIs
<1>2. PICK k \in 1..SlotCount(block) : k = NodeSlot(block, j)
    BY <1>1, SlotsApart
<1>3. PICK c \in 1..SlotCount(block) : c = CellSlot(block, j)
    BY <1>1, SlotsApart
<1>4. \A label : Declares(text, k, label) <=> Declares(text, c, label)
    BY <1>1, <1>2, <1>3, DeclaresPair
<1>5. CASE \E label : Declares(text, k, label)
    <2>1. PICK label : Declares(text, k, label) /\ Declares(text, c, label)
        BY <1>4, <1>5
    <2>2. Desired[document][i][k] = Desired[document][i][c]
        BY <1>1, <2>1, DesiredFrom
    <2>. QED
        BY <1>2, <1>3, <2>2
<1>6. CASE \A label : ~ Declares(text, k, label)
    <2>1. Desired[document][i][k] = Unassigned /\ Desired[document][i][c] = Unassigned
        BY <1>1, <1>4, <1>6, DesiredFrom
    <2>. QED
        BY <1>2, <1>3, <2>1
<1>. QED
    BY <1>5, <1>6

-----------------------------------------------------------------------------
(***************************************************************************)
(* Matching.  A cell of a document is matched with a cell of the preceding *)
(* templates that is offered, or with none.                                *)
(***************************************************************************)
\* The slots of a block: its node, and those of its cells.
LEMMA SlotKinds ==
    ASSUME NEW text \in Texts, NEW block, block = Content[text], NEW k \in 1..SlotCount(block)
    PROVE  \/ k = 1 /\ block.kind # "cell"
           \/ \E j \in DOMAIN block.cells : k = NodeSlot(block, j) \/ k = CellSlot(block, j)
<1>1. /\ block.cells \in Seq([text : STRING, language : STRING, options : CellOptions])
      /\ block.kind = "cell" => Len(block.cells) = 1
    BY TextIs
<1>2. PICK n \in Nat : n = Len(block.cells) /\ DOMAIN block.cells = 1..n
    BY <1>1
<1>3. CASE block.kind = "cell"
    <2>1. k \in 1..2 /\ NodeSlot(block, 1) = 1 /\ CellSlot(block, 1) = 2
        BY <1>3 DEF NodeSlot, CellSlot, SlotCount
    <2>2. 1 \in DOMAIN block.cells /\ k \in {1, 2}
        BY <1>1, <1>2, <1>3, <2>1
    <2>. QED
        BY <2>1, <2>2
<1>4. CASE block.kind # "cell" /\ k # 1
    <2>1. k \in 1..(1 + 2 * n)
        BY <1>2, <1>4 DEF SlotCount
    <2>2. PICK j \in Int : k = 2 * j \/ k = 2 * j + 1
        <3>1. k \div 2 \in Int /\ (k = 2 * (k \div 2) \/ k = 2 * (k \div 2) + 1)
            BY <2>1
        <3>. QED
            BY <3>1
    <2>3. j \in 1..n
        BY <1>4, <2>1, <2>2
    <2>4. NodeSlot(block, j) = 2 * j /\ CellSlot(block, j) = 2 * j + 1
        BY <1>4, <2>3 DEF NodeSlot, CellSlot
    <2>. QED
        BY <1>2, <2>2, <2>3, <2>4
<1>. QED
    BY <1>3, <1>4

\* The anonymous cells of one template, numbered.
OfferedBy(flat, template, cell) ==
    LET block == Content[template.text]
    IN  /\ \A k \in DOMAIN flat :
              /\ cell[k] \in DOMAIN block.cells
              /\ ~ IsLabeled(CandidateOf(template, block, cell[k]).cell)
              /\ flat[k] = CandidateOf(template, block, cell[k])
        /\ \A k, l \in DOMAIN flat : cell[k] = cell[l] => k = l
        /\ \A j \in DOMAIN block.cells :
              ~ IsLabeled(CandidateOf(template, block, j).cell) =>
                  \E k \in DOMAIN flat : cell[k] = j

OffersOf(template) ==
    FlattenSeq([j \in DOMAIN Content[template.text].cells |->
        IF IsLabeled(CandidateOf(template, Content[template.text], j).cell) THEN <<>>
        ELSE <<CandidateOf(template, Content[template.text], j)>>])

\* A template offers its unlabelled cells, each exactly once.
LEMMA OffersAre ==
    ASSUME NEW template, template.text \in Texts
    PROVE  /\ OffersOf(template) \in Seq(CandidatesOf(template))
           /\ \E cell : OfferedBy(OffersOf(template), template, cell)
<1>1. PICK block : block = Content[template.text]
    OBVIOUS
<1>2. PICK m \in Nat : DOMAIN block.cells = 1..m
    BY <1>1, SlotsAre
<1>. DEFINE C(j) == CandidateOf(template, block, j)
<1>3. PICK f : f = [j \in 1..m |-> IF IsLabeled(C(j).cell) THEN <<>> ELSE <<C(j)>>]
    OBVIOUS
<1>4. OffersOf(template) = FlattenSeq(f)
    BY <1>1, <1>2, <1>3 DEF OffersOf
<1>5. \A j \in 1..m : C(j) \in CandidatesOf(template)
    BY <1>1, <1>2, Zenon DEF CandidatesOf
<1>6. DOMAIN f = 1..m /\ Len(f) = m /\ (m = 0 => f = <<>>)
    BY <1>3
<1>. HIDE DEF C
<1>7. ASSUME NEW j \in 1..m
      PROVE  /\ f[j] \in Seq(CandidatesOf(template))
             /\ \A k \in DOMAIN f[j] : k = 1 /\ f[j][k] = C(j) /\ ~ IsLabeled(C(j).cell)
             /\ ~ IsLabeled(C(j).cell) => 1 \in DOMAIN f[j]
    <2>1. CASE IsLabeled(C(j).cell)
        <3>1. f[j] = <<>>
            BY <1>3, <2>1
        <3>. QED
            BY <2>1, <3>1, SmallSequences
    <2>2. CASE ~ IsLabeled(C(j).cell)
        <3>1. f[j] = <<C(j)>>
            BY <1>3, <2>2
        <3>. QED
            BY <1>5, <2>2, <3>1, SmallSequences
    <2>. QED
        BY <2>1, <2>2
<1>8. FlattenSeq(f) \in Seq(CandidatesOf(template)) /\ Lists(FlattenSeq(f), f, m)
    BY <1>6, <1>7, FlattenIs
<1>9. PICK flat : flat = FlattenSeq(f)
    OBVIOUS
<1>10. PICK part, place : ListsAt(flat, f, m, part, place)
    BY <1>8, <1>9 DEF Lists
<1>11. \A k \in DOMAIN flat : /\ part[k] \in 1..m /\ place[k] \in DOMAIN f[part[k]]
                              /\ flat[k] = f[part[k]][place[k]]
    BY <1>10 DEF ListsAt
<1>12. \A k, l \in DOMAIN flat :
           k < l => part[k] < part[l] \/ (part[k] = part[l] /\ place[k] < place[l])
    BY <1>10 DEF ListsAt
<1>13. \A j \in 1..m : \A h \in DOMAIN f[j] : \E k \in DOMAIN flat : part[k] = j /\ place[k] = h
    BY <1>10 DEF ListsAt
<1>14. \A k \in DOMAIN flat :
           /\ part[k] \in 1..m /\ place[k] = 1 /\ flat[k] = C(part[k]) /\ ~ IsLabeled(C(part[k]).cell)
    BY <1>7, <1>11
<1>15. \A k, l \in DOMAIN flat : part[k] = part[l] => k = l
    <2>1. DOMAIN flat \subseteq Int
        BY <1>8, <1>9
    <2>. QED
        BY <1>12, <1>14, <2>1
<1>16. \A j \in 1..m : ~ IsLabeled(C(j).cell) => \E k \in DOMAIN flat : part[k] = j
    BY <1>7, <1>13
<1>17. OfferedBy(flat, template, part)
    BY <1>1, <1>2, <1>14, <1>15, <1>16 DEF OfferedBy, C
<1>. QED
    BY <1>4, <1>8, <1>9, <1>17

\* The places of the cells of some templates that are offered: the anonymous
\* ones.
CellOf(templates, place) ==
    templates[place[1]].handles[CellSlot(Content[templates[place[1]].text], place[2])]
NodeOf(templates, place) ==
    templates[place[1]].handles[NodeSlot(Content[templates[place[1]].text], place[2])]
TextOf(templates, place) == Content[templates[place[1]].text].cells[place[2]].text

IsOffered(templates, place) ==
    \E p \in DOMAIN templates : \E j \in DOMAIN Content[templates[p].text].cells :
        place = <<p, j>> /\ ~ IsLabeled(CellOf(templates, <<p, j>>))

\* Where the candidates stand.
Stand(templates, candidates, where) ==
    /\ \A c \in DOMAIN candidates :
          /\ IsOffered(templates, where[c])
          /\ candidates[c].text = TextOf(templates, where[c])
          /\ candidates[c].cell = CellOf(templates, where[c])
          /\ candidates[c].node = NodeOf(templates, where[c])
    /\ \A c, d \in DOMAIN candidates : where[c] = where[d] => c = d
    /\ \A place : IsOffered(templates, place) => \E c \in DOMAIN candidates : where[c] = place

\* Every candidate stands at one place of the previous templates, and no place is offered twice.
LEMMA CandidatesStand ==
    ASSUME NEW templates, NEW next, TemplatesSound(templates, next)
    PROVE  \E where : Stand(templates, CellCandidates(templates), where)
<1>1. PICK n \in Nat : DOMAIN templates = 1..n
    BY DEF TemplatesSound
<1>2. PICK pieces : pieces = [p \in 1..n |-> OffersOf(templates[p])]
    OBVIOUS
<1>3. CellCandidates(templates) = FlattenSeq(pieces)
    BY <1>1, <1>2 DEF CellCandidates, OffersOf, CandidateOf
<1>. DEFINE C(p, j) == CandidateOf(templates[p], Content[templates[p].text], j)
            cells == [p \in 1..n |-> CHOOSE cell : OfferedBy(pieces[p], templates[p], cell)]
            All == UNION {CandidatesOf(templates[p]) : p \in 1..n}
<1>4. ASSUME NEW p \in 1..n
      PROVE  /\ pieces[p] \in Seq(All)
             /\ \E cell : OfferedBy(pieces[p], templates[p], cell)
    <2>1. pieces[p] = OffersOf(templates[p]) /\ templates[p].text \in Texts
        BY <1>1, <1>2 DEF TemplatesSound
    <2>2. PICK S : S = CandidatesOf(templates[p])
        OBVIOUS
    <2>3. pieces[p] \in Seq(S) /\ \E cell : OfferedBy(pieces[p], templates[p], cell)
        BY <2>1, <2>2, OffersAre
    <2>4. S \subseteq All
        BY <2>2
    <2>. HIDE DEF All
    <2>5. Seq(S) \subseteq Seq(All)
        BY <2>4
    <2>. QED
        BY <2>3, <2>5
<1>5. \A p \in 1..n : OfferedBy(pieces[p], templates[p], cells[p])
    BY <1>4
<1>6. DOMAIN pieces = 1..n /\ Len(pieces) = n /\ (n = 0 => pieces = <<>>)
    BY <1>2
<1>. HIDE DEF cells, All
<1>7. FlattenSeq(pieces) \in Seq(All) /\ Lists(FlattenSeq(pieces), pieces, n)
    BY <1>4, <1>6, FlattenIs
<1>8. PICK flat : flat = FlattenSeq(pieces)
    OBVIOUS
<1>9. DOMAIN flat \subseteq Int
    BY <1>7, <1>8
<1>10. PICK part, spot : ListsAt(flat, pieces, n, part, spot)
    BY <1>7, <1>8 DEF Lists
<1>11. \A k \in DOMAIN flat : /\ part[k] \in 1..n /\ spot[k] \in DOMAIN pieces[part[k]]
                              /\ flat[k] = pieces[part[k]][spot[k]]
    BY <1>10 DEF ListsAt
<1>12. \A k, l \in DOMAIN flat :
           k < l => part[k] < part[l] \/ (part[k] = part[l] /\ spot[k] < spot[l])
    BY <1>10 DEF ListsAt
<1>13. \A p \in 1..n : \A h \in DOMAIN pieces[p] :
           \E k \in DOMAIN flat : part[k] = p /\ spot[k] = h
    BY <1>10 DEF ListsAt
<1>14. \A p \in 1..n : \A h \in DOMAIN pieces[p] :
           /\ cells[p][h] \in DOMAIN Content[templates[p].text].cells
           /\ ~ IsLabeled(C(p, cells[p][h]).cell)
           /\ pieces[p][h] = C(p, cells[p][h])
    BY <1>5 DEF OfferedBy
<1>15. \A p \in 1..n : \A h, l \in DOMAIN pieces[p] : cells[p][h] = cells[p][l] => h = l
    BY <1>5 DEF OfferedBy
<1>16. \A p \in 1..n : \A j \in DOMAIN Content[templates[p].text].cells :
           ~ IsLabeled(C(p, j).cell) => \E h \in DOMAIN pieces[p] : cells[p][h] = j
    BY <1>5 DEF OfferedBy
<1>17. \A p, j : /\ C(p, j).text = TextOf(templates, <<p, j>>)
                 /\ C(p, j).cell = CellOf(templates, <<p, j>>)
                 /\ C(p, j).node = NodeOf(templates, <<p, j>>)
    BY DEF CandidateOf, TextOf, CellOf, NodeOf
<1>. HIDE DEF C
<1>18. PICK where : where = [k \in DOMAIN flat |-> <<part[k], cells[part[k]][spot[k]]>>]
    OBVIOUS
<1>19. \A k \in DOMAIN flat : where[k] = <<part[k], cells[part[k]][spot[k]]>>
    BY <1>18
<1>20. ASSUME NEW k \in DOMAIN flat
       PROVE  /\ IsOffered(templates, where[k])
              /\ flat[k].text = TextOf(templates, where[k])
              /\ flat[k].cell = CellOf(templates, where[k])
              /\ flat[k].node = NodeOf(templates, where[k])
    <2>1. PICK p \in 1..n : p = part[k]
        BY <1>11
    <2>2. PICK h \in DOMAIN pieces[p] : h = spot[k] /\ flat[k] = pieces[p][h]
        BY <1>11, <2>1
    <2>3. PICK j \in DOMAIN Content[templates[p].text].cells : j = cells[p][h]
        BY <1>14
    <2>4. where[k] = <<p, j>> /\ flat[k] = C(p, j) /\ ~ IsLabeled(C(p, j).cell)
        BY <1>14, <1>19, <2>1, <2>2, <2>3
    <2>5. IsOffered(templates, where[k])
        BY <1>1, <1>17, <2>4 DEF IsOffered
    <2>. QED
        BY <1>17, <2>4, <2>5
<1>21. ASSUME NEW k \in DOMAIN flat, NEW l \in DOMAIN flat, where[k] = where[l]
       PROVE  k = l
    <2>1. part[k] = part[l] /\ cells[part[k]][spot[k]] = cells[part[l]][spot[l]]
        BY <1>19, <1>21
    <2>2. spot[k] = spot[l]
        BY <1>11, <1>15, <2>1
    <2>3. part[k] \in Int
        BY <1>11
    <2>4. ~ (part[k] < part[l]) /\ ~ (part[l] < part[k])
        BY <2>1, <2>3
    <2>5. spot[k] \in Int
        BY <1>4, <1>11
    <2>. QED
        BY <1>9, <1>12, <2>1, <2>2, <2>4, <2>5
<1>22. ASSUME NEW place, IsOffered(templates, place)
       PROVE  \E k \in DOMAIN flat : where[k] = place
    <2>1. PICK p \in 1..n : \E j \in DOMAIN Content[templates[p].text].cells :
              place = <<p, j>> /\ ~ IsLabeled(CellOf(templates, <<p, j>>))
        BY <1>1, <1>22 DEF IsOffered
    <2>2. PICK j \in DOMAIN Content[templates[p].text].cells :
              place = <<p, j>> /\ ~ IsLabeled(CellOf(templates, <<p, j>>))
        BY <2>1
    <2>3. PICK h \in DOMAIN pieces[p] : cells[p][h] = j
        BY <1>16, <1>17, <2>2
    <2>4. PICK k \in DOMAIN flat : part[k] = p /\ spot[k] = h
        BY <1>13
    <2>. QED
        BY <1>19, <2>2, <2>3, <2>4
<1>23. Stand(templates, flat, where)
    BY <1>20, <1>21, <1>22 DEF Stand
<1>. QED
    BY <1>3, <1>8, <1>23

Alone == <<0, 0>>

\* What the slot of a cell is asked to take.
CellAsked(document, at) == Desired[document][at[1]][CellSlot(Block(document, at[1]), at[2])]

\* Every cell that no label names is matched, one to one, with an offered cell
\* of the same text, or left alone when all of those went to cells that stand
\* in its block or before it.
Partners(document, templates, partner) ==
    /\ \A at \in ToSet(CellsOf[document]) :
          partner[at] # Alone =>
              /\ IsOffered(templates, partner[at])
              /\ TextOf(templates, partner[at]) = CellAt(document, at).text
              /\ ~ IsLabeled(CellAsked(document, at))
    /\ \A at, other \in ToSet(CellsOf[document]) :
          partner[at] = partner[other] /\ partner[at] # Alone => at = other
    /\ \A at \in ToSet(CellsOf[document]) :
          partner[at] = Alone /\ ~ IsLabeled(CellAsked(document, at)) =>
              \A place : IsOffered(templates, place)
                             /\ TextOf(templates, place) = CellAt(document, at).text =>
                  \E other \in ToSet(CellsOf[document]) :
                      partner[other] = place /\ other[1] <= at[1]

\* The slots take what was asked, or the handles of the partner.
PartnersTake(document, templates, partner, assigned) ==
    \A i \in Blocks(document) :
        /\ Block(document, i).kind # "cell" => assigned[i][1] = Desired[document][i][1]
        /\ \A j \in DOMAIN Block(document, i).cells :
              /\ assigned[i][CellSlot(Block(document, i), j)] =
                     IF partner[<<i, j>>] = Alone
                     THEN Desired[document][i][CellSlot(Block(document, i), j)]
                     ELSE CellOf(templates, partner[<<i, j>>])
              /\ assigned[i][NodeSlot(Block(document, i), j)] =
                     IF partner[<<i, j>>] = Alone
                     THEN Desired[document][i][NodeSlot(Block(document, i), j)]
                     ELSE IF IsLabeled(NodeOf(templates, partner[<<i, j>>])) THEN MustBeAnonymous
                     ELSE NodeOf(templates, partner[<<i, j>>])

\* The slots of different cells of a block differ, and so do the two slots of one cell.
LEMMA SlotsDiffer ==
    ASSUME NEW text \in Texts, NEW block, block = Content[text]
    PROVE  \A j, l \in DOMAIN block.cells :
               /\ NodeSlot(block, j) # CellSlot(block, l)
               /\ NodeSlot(block, j) = NodeSlot(block, l) => j = l
               /\ CellSlot(block, j) = CellSlot(block, l) => j = l
<1>1. ASSUME NEW j \in DOMAIN block.cells, NEW l \in DOMAIN block.cells
      PROVE  /\ NodeSlot(block, j) = NodeSlot(block, l) => j = l
             /\ CellSlot(block, j) = CellSlot(block, l) => j = l
             /\ NodeSlot(block, j) # CellSlot(block, l)
    BY SlotsApart
<1>. QED
    BY <1>1

\* An offered place is an unlabelled cell of a previous template.
LEMMA OfferedIs ==
    ASSUME NEW templates, NEW next, TemplatesSound(templates, next),
           NEW place, IsOffered(templates, place)
    PROVE  /\ place # Alone /\ place = <<place[1], place[2]>>
           /\ place[1] \in DOMAIN templates
           /\ place[2] \in DOMAIN Content[templates[place[1]].text].cells
           /\ ~ IsLabeled(CellOf(templates, place))
<1>1. PICK n \in Nat : DOMAIN templates = 1..n
    BY DEF TemplatesSound
<1>2. PICK p \in 1..n : \E j \in DOMAIN Content[templates[p].text].cells :
          place = <<p, j>> /\ ~ IsLabeled(CellOf(templates, <<p, j>>))
    BY <1>1 DEF IsOffered
<1>3. PICK j \in DOMAIN Content[templates[p].text].cells :
          place = <<p, j>> /\ ~ IsLabeled(CellOf(templates, <<p, j>>))
    BY <1>2
<1>4. p # 0
    OBVIOUS
<1>. QED
    BY <1>1, <1>3, <1>4 DEF Alone

\* The matching gives every cell at most one partner, and the assignment takes that partner's
\* handles.
LEMMA PartnersAre ==
    ASSUME NEW document \in Documents, NEW templates, NEW next, TemplatesSound(templates, next),
           NEW assigned, assigned = match_identities(document, templates)
    PROVE  \E partner : /\ Partners(document, templates, partner)
                        /\ PartnersTake(document, templates, partner, assigned)
<1>. DEFINE S(n) == Slots(document, CellsOf[document][n])
<1>1. PICK desired : desired = Desired[document]
    OBVIOUS
<1>2. PICK cells \in Seq(Nat \X Nat) : cells = CellsOf[document]
    BY CellsOfIs
<1>3. PICK m \in Nat : DOMAIN cells = 1..m
    BY <1>2, SMTT(30)
<1>4. PICK slots : slots = [n \in DOMAIN cells |-> S(n)]
    OBVIOUS
<1>5. PICK candidates \in Seq(CandidatesIn(templates)) : candidates = CellCandidates(templates)
    BY CandidatesAre
<1>6. PICK fits : fits = [n \in DOMAIN cells |->
                             {c \in DOMAIN candidates :
                                 /\ ~ IsLabeled(desired[cells[n][1]][slots[n].cell])
                                 /\ candidates[c].text = CellAt(document, cells[n]).text}]
    OBVIOUS
<1>7. PICK pick : pick = FirstFit(fits)
    OBVIOUS
<1>8. assigned = Assign(desired, cells, slots, candidates, pick)
    BY <1>1, <1>2, <1>4, <1>5, <1>6, <1>7, Zenon DEF match_identities
<1>9. PICK where : Stand(templates, candidates, where)
    BY <1>5, CandidatesStand
<1>10. ASSUME NEW n \in 1..m
       PROVE  /\ cells[n] \in ToSet(CellsOf[document])
              /\ cells[n] = <<cells[n][1], cells[n][2]>> /\ cells[n][1] \in Blocks(document)
              /\ cells[n][2] \in DOMAIN Block(document, cells[n][1]).cells
              /\ DOMAIN slots[n] = {"node", "cell"}
              /\ slots[n].node = NodeSlot(Block(document, cells[n][1]), cells[n][2])
              /\ slots[n].cell = CellSlot(Block(document, cells[n][1]), cells[n][2])
              /\ desired[cells[n][1]][slots[n].cell] = CellAsked(document, cells[n])
    <2>1. cells[n] \in ToSet(cells)
        BY <1>3 DEF ToSet
    <2>2. PICK at \in ToSet(CellsOf[document]) : at = cells[n]
        BY <1>2, <2>1
    <2>3. at = <<at[1], at[2]>> /\ at[1] \in Blocks(document) /\ at[2] \in DOMAIN Block(document, at[1]).cells
        BY CellPlace
    <2>4. slots[n] = [node |-> NodeSlot(Block(document, at[1]), at[2]),
                      cell |-> CellSlot(Block(document, at[1]), at[2])]
        BY <1>2, <1>3, <1>4, <2>2 DEF Slots
    <2>. QED
        BY <1>1, <2>2, <2>3, <2>4 DEF CellAsked
<1>11. /\ \A n \in 1..m : pick[n] # 0 => pick[n] \in fits[n]
       /\ \A n, l \in 1..m : pick[n] = pick[l] /\ pick[n] # 0 => n = l
       /\ \A n \in 1..m : pick[n] = 0 => \A x \in fits[n] : \E l \in 1..(n - 1) : pick[l] = x
    <2>1. DOMAIN fits = 1..m /\ \A n \in 1..m : fits[n] \in SUBSET (Nat \ {0})
        <3>1. DOMAIN candidates \in SUBSET (Nat \ {0})
            OBVIOUS
        <3>. QED
            BY <1>3, <1>6, <3>1
    <2>2. InTurn(fits, m, pick)
        BY <1>7, <2>1, FirstFitInTurn
    <2>. QED
        BY <2>2 DEF InTurn
<1>12. ASSUME NEW n \in 1..m
       PROVE  \A c : c \in fits[n] <=>
                  /\ c \in DOMAIN candidates
                  /\ ~ IsLabeled(CellAsked(document, cells[n]))
                  /\ candidates[c].text = CellAt(document, cells[n]).text
    BY <1>3, <1>6, <1>10
<1>13. \A n, l \in 1..m : cells[n] = cells[l] => n = l
    BY <1>2, <1>3, CellsOfIs DEF IsInjective
<1>14. \A at \in ToSet(CellsOf[document]) : \E n \in 1..m : cells[n] = at
    BY <1>2, <1>3 DEF ToSet
<1>. DEFINE index(at) == CHOOSE n \in 1..m : cells[n] = at
<1>15. PICK partner : partner = [at \in ToSet(CellsOf[document]) |->
                                    IF pick[index(at)] = 0 THEN Alone ELSE where[pick[index(at)]]]
    OBVIOUS
<1>16. ASSUME NEW n \in 1..m
       PROVE  partner[cells[n]] = IF pick[n] = 0 THEN Alone ELSE where[pick[n]]
    <2>1. index(cells[n]) = n
        BY <1>13
    <2>. HIDE DEF index
    <2>. QED
        BY <1>10, <1>15, <2>1
<1>. HIDE DEF index, S
<1>17. /\ \A c \in DOMAIN candidates :
             /\ IsOffered(templates, where[c])
             /\ candidates[c].text = TextOf(templates, where[c])
             /\ candidates[c].cell = CellOf(templates, where[c])
             /\ candidates[c].node = NodeOf(templates, where[c])
       /\ \A c, d \in DOMAIN candidates : where[c] = where[d] => c = d
       /\ \A place : IsOffered(templates, place) => \E c \in DOMAIN candidates : where[c] = place
    BY <1>9 DEF Stand
<1>18. \A c \in DOMAIN candidates : where[c] # Alone
    BY <1>17, OfferedIs
<1>19. \A n \in 1..m : pick[n] # 0 => pick[n] \in DOMAIN candidates
    BY <1>11, <1>12
<1>20. Partners(document, templates, partner)
    <2>1. ASSUME NEW at \in ToSet(CellsOf[document]), partner[at] # Alone
          PROVE  /\ IsOffered(templates, partner[at])
                 /\ TextOf(templates, partner[at]) = CellAt(document, at).text
                 /\ ~ IsLabeled(CellAsked(document, at))
        <3>1. PICK n \in 1..m : cells[n] = at
            BY <1>14
        <3>2. pick[n] # 0 /\ partner[at] = where[pick[n]]
            BY <1>16, <2>1, <3>1
        <3>3. PICK c \in DOMAIN candidates : c = pick[n] /\ c \in fits[n]
            BY <1>11, <1>19, <3>2
        <3>4. ~ IsLabeled(CellAsked(document, at)) /\ candidates[c].text = CellAt(document, at).text
            BY <1>12, <3>1, <3>3
        <3>. QED
            BY <1>17, <3>2, <3>3, <3>4
    <2>2. ASSUME NEW at \in ToSet(CellsOf[document]), NEW other \in ToSet(CellsOf[document]),
                 partner[at] = partner[other], partner[at] # Alone
          PROVE  at = other
        <3>1. PICK n \in 1..m : cells[n] = at
            BY <1>14
        <3>2. PICK l \in 1..m : cells[l] = other
            BY <1>14
        <3>3. /\ pick[n] # 0 /\ pick[l] # 0
              /\ where[pick[n]] = where[pick[l]]
            BY <1>16, <2>2, <3>1, <3>2
        <3>. QED
            BY <1>11, <1>17, <1>19, <3>1, <3>2, <3>3, SMTT(30)
    <2>3. ASSUME NEW at \in ToSet(CellsOf[document]), partner[at] = Alone,
                 ~ IsLabeled(CellAsked(document, at)),
                 NEW place, IsOffered(templates, place),
                 TextOf(templates, place) = CellAt(document, at).text
          PROVE  \E other \in ToSet(CellsOf[document]) : partner[other] = place /\ other[1] <= at[1]
        <3>1. PICK n \in 1..m : cells[n] = at
            BY <1>14
        <3>2. pick[n] = 0
            BY <1>16, <1>18, <1>19, <2>3, <3>1
        <3>3. PICK c \in DOMAIN candidates : where[c] = place
            BY <1>17, <2>3
        <3>4. c \in fits[n]
            BY <1>12, <1>17, <2>3, <3>1, <3>3
        <3>5. PICK l \in 1..(n - 1) : pick[l] = c
            BY <1>11, <3>2, <3>4
        <3>6. l \in 1..m /\ l < n
            OBVIOUS
        <3>7. c # 0
            BY <1>5
        <3>8. partner[cells[l]] = place
            BY <1>16, <3>3, <3>5, <3>6, <3>7
        <3>9. Precedes(cells[l], cells[n])
            BY <1>2, <1>3, <3>6, CellsOfIs
        <3>10. cells[l][1] <= cells[n][1]
            <4>1. cells[l][1] \in Nat /\ cells[n][1] \in Nat
                BY <1>10, <3>6, BlockIs
            <4>2. PICK a \in Nat, b \in Nat : a = cells[l][1] /\ b = cells[n][1]
                BY <4>1
            <4>3. a < b \/ a = b
                BY <3>9, <4>2 DEF Precedes
            <4>4. a <= b
                BY <4>3
            <4>. QED
                BY <4>2, <4>4, Zenon
        <3>. QED
            BY <1>10, <3>1, <3>6, <3>8, <3>10
    <2>. QED
        BY <2>1, <2>2, <2>3 DEF Partners
<1>21. \A n \in 1..m : DOMAIN slots[n] = {"node", "cell"}
    BY <1>10
<1>22. ASSUME NEW i \in Blocks(document), NEW k \in 1..SlotCount(Block(document, i))
       PROVE  Takes(desired, cells, slots, candidates, pick, m, i, k, assigned[i][k])
    <2>1. i \in DOMAIN desired /\ k \in DOMAIN desired[i]
        BY <1>1 DEF Desired
    <2>. QED
        BY <1>3, <1>8, <1>21, <2>1, AssignIs
<1>23. ASSUME NEW i \in Blocks(document), NEW j \in DOMAIN Block(document, i).cells,
              NEW n \in 1..m, cells[n] = <<i, j>>, NEW block, block = Block(document, i)
       PROVE  /\ \A l \in 1..m : cells[l][1] = i =>
                     /\ slots[l].node = NodeSlot(block, j) => l = n
                     /\ slots[l].cell = CellSlot(block, j) => l = n
                     /\ slots[l].node # CellSlot(block, j) /\ slots[l].cell # NodeSlot(block, j)
              /\ slots[n].node = NodeSlot(block, j) /\ slots[n].cell = CellSlot(block, j)
              /\ cells[n][1] = i
    <2>1. PICK text \in Texts : block = Content[text]
        BY <1>23, BlockIs
    <2>2. ASSUME NEW l \in 1..m, cells[l][1] = i
          PROVE  /\ slots[l].node = NodeSlot(block, j) => l = n
                 /\ slots[l].cell = CellSlot(block, j) => l = n
                 /\ slots[l].node # CellSlot(block, j) /\ slots[l].cell # NodeSlot(block, j)
        <3>1. PICK h \in DOMAIN block.cells : cells[l] = <<i, h>> /\ h = cells[l][2]
            BY <1>10, <1>23, <2>2
        <3>2. slots[l].node = NodeSlot(block, h) /\ slots[l].cell = CellSlot(block, h)
            BY <1>10, <1>23, <2>2, <3>1
        <3>3. /\ NodeSlot(block, h) = NodeSlot(block, j) => h = j
              /\ CellSlot(block, h) = CellSlot(block, j) => h = j
              /\ NodeSlot(block, h) # CellSlot(block, j)
              /\ NodeSlot(block, j) # CellSlot(block, h)
            <4>1. j \in DOMAIN block.cells
                BY <1>23
            <4>2. /\ NodeSlot(block, h) = NodeSlot(block, j) => h = j
                  /\ CellSlot(block, h) = CellSlot(block, j) => h = j
                  /\ NodeSlot(block, h) # CellSlot(block, j)
                BY <2>1, <4>1, SlotsApart, ZenonT(40)
            <4>3. \A a, b \in DOMAIN block.cells : NodeSlot(block, a) # CellSlot(block, b)
                BY <2>1, SlotsDiffer, ZenonT(40)
            <4>. QED
                BY <4>1, <4>2, <4>3
        <3>. QED
            BY <1>13, <1>23, <3>1, <3>2, <3>3
    <2>. QED
        BY <1>10, <1>23, <2>2
<1>24. PartnersTake(document, templates, partner, assigned)
    <2>1. ASSUME NEW i \in Blocks(document), Block(document, i).kind # "cell"
          PROVE  assigned[i][1] = desired[i][1]
        <3>1. PICK text \in Texts : Block(document, i) = Content[text]
            BY BlockIs
        <3>2. PICK block : block = Block(document, i)
            OBVIOUS
        <3>3. 1 \in 1..SlotCount(block)
            BY <3>1, <3>2, SlotsAre DEF HandleDomains
        <3>4. ASSUME NEW l \in 1..m, cells[l][1] = i
              PROVE  slots[l].node # 1 /\ slots[l].cell # 1
            <4>1. PICK h \in DOMAIN block.cells : h = cells[l][2]
                BY <1>10, <3>2, <3>4
            <4>2. slots[l].node = NodeSlot(block, h) /\ slots[l].cell = CellSlot(block, h)
                BY <1>10, <3>2, <3>4, <4>1
            <4>3. block = Content[text] /\ block.kind # "cell"
                BY <2>1, <3>1, <3>2
            <4>4. NodeSlot(block, h) # 1 /\ CellSlot(block, h) # 1
                BY <4>3, SlotsApart
            <4>. QED
                BY <4>2, <4>4
        <3>5. PICK taken : taken = assigned[i][1] /\ Takes(desired, cells, slots, candidates, pick, m, i, 1, taken)
            BY <1>22, <3>2, <3>3
        <3>. QED
            BY <3>4, <3>5 DEF Takes
    <2>2. ASSUME NEW i \in Blocks(document), NEW j \in DOMAIN Block(document, i).cells
          PROVE  /\ assigned[i][CellSlot(Block(document, i), j)] =
                        IF partner[<<i, j>>] = Alone
                        THEN desired[i][CellSlot(Block(document, i), j)]
                        ELSE CellOf(templates, partner[<<i, j>>])
                 /\ assigned[i][NodeSlot(Block(document, i), j)] =
                        IF partner[<<i, j>>] = Alone
                        THEN desired[i][NodeSlot(Block(document, i), j)]
                        ELSE IF IsLabeled(NodeOf(templates, partner[<<i, j>>])) THEN MustBeAnonymous
                        ELSE NodeOf(templates, partner[<<i, j>>])
        <3>1. PICK text \in Texts : Block(document, i) = Content[text]
            BY BlockIs
        <3>2. PICK block : block = Block(document, i)
            OBVIOUS
        <3>3. PICK at : at = <<i, j>> /\ at \in ToSet(CellsOf[document])
            BY CellsOfIs
        <3>4. PICK n \in 1..m : cells[n] = at
            BY <1>14, <3>3
        <3>5. /\ \A l \in 1..m : cells[l][1] = i =>
                     /\ slots[l].node = NodeSlot(block, j) => l = n
                     /\ slots[l].cell = CellSlot(block, j) => l = n
                     /\ slots[l].node # CellSlot(block, j) /\ slots[l].cell # NodeSlot(block, j)
              /\ slots[n].node = NodeSlot(block, j) /\ slots[n].cell = CellSlot(block, j)
              /\ cells[n][1] = i
            BY <1>23, <3>2, <3>3, <3>4, SMTT(30)
        <3>6. PICK c : c = CellSlot(block, j) /\ c \in 1..SlotCount(block)
            BY <3>1, <3>2, SlotsApart
        <3>7. PICK k : k = NodeSlot(block, j) /\ k \in 1..SlotCount(block)
            BY <3>1, <3>2, SlotsApart
        <3>8. PICK x : x = assigned[i][c] /\ Takes(desired, cells, slots, candidates, pick, m, i, c, x)
            BY <1>22, <3>2, <3>6
        <3>9. PICK y : y = assigned[i][k] /\ Takes(desired, cells, slots, candidates, pick, m, i, k, y)
            BY <1>22, <3>2, <3>7
        <3>10. x = IF pick[n] = 0 THEN desired[i][c] ELSE candidates[pick[n]].cell
            BY <3>5, <3>6, <3>8 DEF Takes
        <3>11. desired[i][k] = desired[i][c]
            BY <1>1, <3>2, <3>6, <3>7, DesiredPair
        <3>12. pick[n] # 0 => ~ IsLabeled(desired[i][c])
            <4>1. CellAsked(document, at) = desired[i][c]
                BY <1>1, <3>2, <3>3, <3>6 DEF CellAsked
            <4>2. pick[n] # 0 => pick[n] \in fits[n]
                BY <1>11
            <4>3. pick[n] # 0 => ~ IsLabeled(CellAsked(document, at))
                BY <1>12, <3>4, <4>2
            <4>. QED
                BY <4>1, <4>3
        <3>13. y = IF pick[n] = 0 THEN desired[i][k]
                   ELSE IF IsLabeled(candidates[pick[n]].node) THEN MustBeAnonymous
                   ELSE candidates[pick[n]].node
            BY <3>5, <3>7, <3>9, <3>11, <3>12 DEF Takes
        <3>14. partner[at] = IF pick[n] = 0 THEN Alone ELSE where[pick[n]]
            BY <1>16, <3>4
        <3>15. pick[n] # 0 => /\ where[pick[n]] # Alone
                              /\ candidates[pick[n]].cell = CellOf(templates, where[pick[n]])
                              /\ candidates[pick[n]].node = NodeOf(templates, where[pick[n]])
            BY <1>17, <1>18, <1>19
        <3>. QED
            BY <3>2, <3>3, <3>6, <3>7, <3>8, <3>9, <3>10, <3>13, <3>14, <3>15
    <2>. QED
        BY <1>1, <2>1, <2>2 DEF PartnersTake
<1>. QED
    BY <1>20, <1>24

-----------------------------------------------------------------------------
(***************************************************************************)
(* Reuse.                                                                  *)
(***************************************************************************)
LEMMA HandedOutIs ==
    ASSUME NEW handle, NEW next, HandedOut(handle, next)
    PROVE  IsHandle(handle)
<1>1. ASSUME NEW label \in STRING
      PROVE  Labeled(label) # Unassigned /\ Labeled(label) # MustBeAnonymous
    BY DocumentAssumption DEF Labeled, Unassigned, MustBeAnonymous
<1>2. ASSUME NEW n \in Nat
      PROVE  Anonymous(n) # Unassigned /\ Anonymous(n) # MustBeAnonymous
    BY DEF Anonymous, Unassigned, MustBeAnonymous
<1>. QED
    BY <1>1, <1>2 DEF HandedOut, IsHandle

\* No two slots of a domain have the same handle.
UniqueIn(templates, domain) ==
    \A p, q \in DOMAIN templates :
        \A k \in SlotsOf(Content[templates[p].text], domain) :
            \A m \in SlotsOf(Content[templates[q].text], domain) :
                templates[p].handles[k] = templates[q].handles[m] => p = q /\ k = m

\* A label's handle is in a slot that declares a label, and a cell and its node
\* both have one, or neither.
LabelsSound(templates) ==
    \A p \in DOMAIN templates :
        /\ \A k \in 1..SlotCount(Content[templates[p].text]) :
              IsLabeled(templates[p].handles[k]) => \E label : Declares(templates[p].text, k, label)
        /\ \A j \in DOMAIN Content[templates[p].text].cells :
              IsLabeled(templates[p].handles[NodeSlot(Content[templates[p].text], j)])
                  => IsLabeled(templates[p].handles[CellSlot(Content[templates[p].text], j)])

AssignedSlots(document, assigned) ==
    \A i \in Blocks(document) : DOMAIN assigned[i] = 1..SlotCount(Block(document, i))

\* A block that reuses the template that a cell was matched in is the cell's.
LEMMA MatchedInReused ==
    ASSUME RepeatedCellsStandAlone,
           NEW document \in Documents, NEW templates, NEW next, TemplatesSound(templates, next),
           UniqueIn(templates, "cell"), LabelsSound(templates),
           NEW partner, Partners(document, templates, partner),
           NEW assigned, PartnersTake(document, templates, partner, assigned),
           AssignedSlots(document, assigned),
           NEW n \in Nat, Blocks(document) = 1..n,
           NEW pick, InTurn(Reusable(document, templates, assigned), n, pick),
           NEW at \in ToSet(CellsOf[document]), partner[at] # Alone,
           NEW i \in Blocks(document), pick[i] = partner[at][1]
    PROVE  at[1] = i
<1>1. PICK p, l : partner[at] = <<p, l>> /\ p = partner[at][1] /\ l = partner[at][2]
    BY OfferedIs DEF Partners
<1>2. PICK place : place = partner[at]
    OBVIOUS
<1>3. /\ IsOffered(templates, place)
      /\ p \in DOMAIN templates /\ l \in DOMAIN Content[templates[p].text].cells
      /\ ~ IsLabeled(CellOf(templates, place))
      /\ TextOf(templates, place) = CellAt(document, at).text
    <2>1. IsOffered(templates, place) /\ TextOf(templates, place) = CellAt(document, at).text
        BY <1>2 DEF Partners
    <2>. QED
        BY <1>1, <1>2, <2>1, OfferedIs
<1>4. p # 0 /\ \A q \in DOMAIN templates : q # 0
    <2>1. PICK m \in Nat : DOMAIN templates = 1..m
        BY DEF TemplatesSound
    <2>. QED
        BY <1>3, <2>1
<1>5. \A e \in Blocks(document) : pick[e] # 0 =>
          /\ pick[e] \in DOMAIN templates
          /\ templates[pick[e]].text = Input[document].blocks[e]
          /\ matches(assigned[e], templates[pick[e]])
    BY DEF InTurn, Reusable
<1>6. PICK text \in Texts : text = Input[document].blocks[i] /\ Block(document, i) = Content[text]
    BY BlockIs
<1>7. PICK block : block = Content[text]
    OBVIOUS
<1>8. templates[p].text = text /\ matches(assigned[i], templates[p]) /\ pick[i] = p
    BY <1>1, <1>4, <1>5, <1>6
<1>9. PICK c : c = CellSlot(block, l) /\ c \in 1..SlotCount(block) /\ c \in SlotsOf(block, "cell")
    BY <1>3, <1>7, <1>8, SlotsApart, CellSlots
<1>10. CellOf(templates, place) = templates[p].handles[c]
    BY <1>1, <1>2, <1>7, <1>8, <1>9 DEF CellOf
<1>11. PICK own : own = <<i, l>> /\ own \in ToSet(CellsOf[document])
    BY <1>3, <1>6, <1>8, CellsOfIs
<1>12. CellAt(document, own).text = CellAt(document, at).text /\ CellAsked(document, own) = Desired[document][i][c]
    BY <1>1, <1>2, <1>3, <1>6, <1>7, <1>8, <1>9, <1>11 DEF TextOf, CellAt, CellAsked
<1>13. assigned[i][c] = IF partner[own] = Alone THEN Desired[document][i][c]
                        ELSE CellOf(templates, partner[own])
    BY <1>3, <1>6, <1>7, <1>8, <1>9, <1>11 DEF PartnersTake
<1>14. \A e \in Blocks(document), q \in DOMAIN templates :
           Block(document, e) = block /\ matches(assigned[e], templates[q]) =>
               \A k \in 1..SlotCount(block) :
                   \/ assigned[e][k] = Unassigned
                   \/ assigned[e][k] = MustBeAnonymous /\ ~ IsLabeled(templates[q].handles[k])
                   \/ IsHandle(assigned[e][k]) /\ templates[q].handles[k] = assigned[e][k]
    BY DEF AssignedSlots, matches
<1>15. ~ IsHandle(Unassigned) /\ ~ IsHandle(MustBeAnonymous)
    BY DEF IsHandle
<1>16. CASE partner[own] # Alone
    <2>1. IsOffered(templates, partner[own])
        BY <1>11, <1>16 DEF Partners
    <2>2. PICK q, m : /\ partner[own] = <<q, m>> /\ q \in DOMAIN templates
                      /\ m \in DOMAIN Content[templates[q].text].cells
        BY <2>1, OfferedIs
    <2>3. PICK other \in Texts : other = templates[q].text
        BY <2>2 DEF TemplatesSound
    <2>4. PICK d : /\ d = CellSlot(Content[other], m) /\ d \in 1..SlotCount(Content[other])
                   /\ d \in SlotsOf(Content[other], "cell")
        BY <2>2, <2>3, SlotsApart, CellSlots
    <2>5. assigned[i][c] = templates[q].handles[d]
        BY <1>13, <1>16, <2>2, <2>3, <2>4 DEF CellOf
    <2>6. IsHandle(templates[q].handles[d])
        BY <2>2, <2>3, <2>4, HandedOutIs DEF TemplatesSound
    <2>7. templates[p].handles[c] = templates[q].handles[d]
        BY <1>3, <1>6, <1>7, <1>8, <1>9, <1>14, <1>15, <2>5, <2>6
    <2>8. p = q /\ c = d
        BY <1>3, <1>7, <1>8, <1>9, <2>2, <2>3, <2>4, <2>7 DEF UniqueIn
    <2>9. l = m
        <3>1. Content[other] = block /\ m \in DOMAIN block.cells /\ l \in DOMAIN block.cells
            BY <1>3, <1>7, <1>8, <2>2, <2>3, <2>8
        <3>2. CellSlot(block, l) = CellSlot(block, m)
            BY <1>9, <2>4, <2>8, <3>1
        <3>. QED
            BY <1>7, <3>1, <3>2, SlotsDiffer
    <2>10. partner[own] = partner[at]
        BY <1>1, <2>2, <2>8, <2>9
    <2>11. own = at
        BY <1>11, <1>16, <2>10 DEF Partners
    <2>. QED
        BY <1>11, <2>11
<1>17. CASE partner[own] = Alone /\ IsLabeled(Desired[document][i][c])
    <2>1. ~ IsLabeled(Unassigned) /\ ~ IsLabeled(MustBeAnonymous)
        BY SMTT(30) DEF IsLabeled, Unassigned, MustBeAnonymous
    <2>2. templates[p].handles[c] = Desired[document][i][c]
        BY <1>3, <1>6, <1>7, <1>8, <1>9, <1>13, <1>14, <1>17, <2>1, ZenonT(40)
    <2>. QED
        BY <1>3, <1>10, <1>17, <2>2
<1>18. CASE partner[own] = Alone /\ ~ IsLabeled(Desired[document][i][c])
    <2>1. PICK other \in ToSet(CellsOf[document]) : partner[other] = place /\ other[1] <= own[1]
        BY <1>3, <1>11, <1>12, <1>18 DEF Partners
    <2>2. other = at
        BY <1>2, <2>1 DEF Partners
    <2>3. PICK e \in Blocks(document) : e = at[1] /\ at = <<e, at[2]>> /\ at[2] \in DOMAIN Block(document, e).cells
        BY CellPlace
    <2>4. e <= i
        BY <1>11, <2>1, <2>2, <2>3
    <2>. SUFFICES ASSUME e # i PROVE FALSE
        BY <2>3
    <2>5. own # at
        BY <1>11, <2>3
    <2>6. Input[document].blocks[e] = Input[document].blocks[i] /\ Len(Block(document, i).cells) = 1
        BY <1>11, <1>12, <2>3, <2>5 DEF RepeatedCellsStandAlone
    <2>7. Block(document, e) = block /\ text = Input[document].blocks[e]
        BY <1>6, <1>7, <2>6, BlockIs
    <2>8. DOMAIN block.cells = {1}
        <3>1. DOMAIN block.cells = 1..Len(block.cells)
            BY <1>7, SlotsAre
        <3>2. 1..1 = {1}
            OBVIOUS
        <3>. QED
            BY <1>6, <1>7, <2>6, <3>1, <3>2
    <2>9. l = 1 /\ at = <<e, l>>
        BY <1>3, <1>7, <1>8, <2>3, <2>7, <2>8
    <2>10. PICK h : h = NodeSlot(block, l) /\ h \in 1..SlotCount(block) /\ h \in SlotsOf(block, "node")
        BY <1>3, <1>7, <1>8, SlotsApart, CellSlots
    <2>11. /\ assigned[e][c] = CellOf(templates, place)
           /\ assigned[e][h] = IF IsLabeled(NodeOf(templates, place)) THEN MustBeAnonymous
                               ELSE NodeOf(templates, place)
           /\ block.kind # "cell" => assigned[e][1] = Desired[document][e][1]
        BY <1>2, <1>9, <2>7, <2>8, <2>9, <2>10 DEF PartnersTake
    <2>12. NodeOf(templates, place) = templates[p].handles[h]
        BY <1>1, <1>2, <1>7, <1>8, <2>10 DEF NodeOf
    <2>13. ~ IsLabeled(templates[p].handles[h])
        BY <1>3, <1>7, <1>8, <1>9, <1>10, <2>10 DEF LabelsSound
    <2>14. IsHandle(templates[p].handles[c]) /\ IsHandle(templates[p].handles[h])
        BY <1>3, <1>7, <1>8, <1>9, <2>10, HandedOutIs DEF TemplatesSound
    <2>15. ASSUME NEW k \in 1..SlotCount(block)
           PROVE  \/ assigned[e][k] = Unassigned
                  \/ assigned[e][k] = MustBeAnonymous /\ ~ IsLabeled(templates[p].handles[k])
                  \/ IsHandle(assigned[e][k]) /\ templates[p].handles[k] = assigned[e][k]
        <3>1. CASE k = 1 /\ block.kind # "cell"
            <4>1. Desired[document][i][1] = Desired[document][e][1]
                <5>1. text = Input[document].blocks[i] /\ text = Input[document].blocks[e]
                    BY <1>6, <2>7
                <5>2. PICK g \in 1..SlotCount(Content[text]) : g = 1
                    BY <1>7, <3>1
                <5>3. Desired[document][i][g] = Desired[document][e][g]
                    BY <5>1, RepeatsAreAnonymous
                <5>. QED
                    BY <5>2, <5>3
            <4>2. assigned[i][1] = Desired[document][i][1]
                BY <1>6, <1>7, <3>1 DEF PartnersTake
            <4>3. assigned[e][k] = assigned[i][k]
                BY <2>11, <3>1, <4>1, <4>2
            <4>. QED
                BY <1>3, <1>6, <1>7, <1>8, <1>14, <4>3
        <3>2. CASE k = c
            BY <1>10, <2>11, <2>14, <3>2
        <3>3. CASE k = h
            BY <2>11, <2>12, <2>13, <2>14, <3>3
        <3>. QED
            BY <1>7, <1>9, <2>8, <2>9, <2>10, <3>1, <3>2, <3>3, SlotKinds
    <2>16. matches(assigned[e], templates[p])
        BY <2>7, <2>15 DEF matches, AssignedSlots
    <2>17. p \in Reusable(document, templates, assigned)[e]
        BY <1>3, <1>8, <2>7, <2>16 DEF Reusable
    <2>18. CASE pick[e] = 0
        <3>1. PICK f \in 1..(e - 1) : pick[f] = p
            BY <2>17, <2>18 DEF InTurn
        <3>2. f \in 1..n /\ f < e
            OBVIOUS
        <3>3. f = i
            BY <1>4, <1>8, <3>1, <3>2 DEF InTurn
        <3>. QED
            BY <2>4, <3>2, <3>3
    <2>19. CASE pick[e] # 0
        <3>1. PICK q \in DOMAIN templates : /\ q = pick[e] /\ templates[q].text = text
                                            /\ matches(assigned[e], templates[q])
            BY <1>5, <2>7, <2>19
        <3>2. templates[q].handles[c] = templates[p].handles[c]
            BY <1>9, <1>10, <1>14, <1>15, <2>7, <2>11, <2>14, <3>1
        <3>3. q = p
            BY <1>3, <1>7, <1>8, <1>9, <3>1, <3>2 DEF UniqueIn
        <3>. QED
            BY <1>8, <2>19, <3>1, <3>3 DEF InTurn
    <2>. QED
        BY <2>18, <2>19
<1>. QED
    BY <1>16, <1>17, <1>18

\* Slots that are counted out get different handles.
LEMMA AllocatesApart ==
    ASSUME NEW m \in Nat, NEW assigned, DOMAIN assigned = 1..m, NEW next \in Nat,
           NEW k \in 1..m, ~ IsHandle(assigned[k]), NEW l \in 1..m, ~ IsHandle(assigned[l]),
           Allocate(assigned, next)[k] = Allocate(assigned, next)[l]
    PROVE  k = l
<1>. DEFINE Without(n) == {h \in 1..n : ~ IsHandle(assigned[h])}
<1>1. \A n \in Int : IsFiniteSet(Without(n)) /\ Cardinality(Without(n)) \in Nat
    <2>1. ASSUME NEW n \in Int
          PROVE  IsFiniteSet(Without(n)) /\ Cardinality(Without(n)) \in Nat
        <3>1. IsFiniteSet(1..n) /\ Without(n) \subseteq 1..n
            BY FS_Interval
        <3>. QED
            BY <3>1, FS_Subset, FS_CardinalityType
    <2>. QED
        BY <2>1
<1>2. \A h \in 1..m : ~ IsHandle(assigned[h]) =>
          Allocate(assigned, next)[h] = Anonymous(next + Cardinality(Without(h - 1)))
    BY DEF Allocate
<1>. HIDE DEF Without
<1>3. ASSUME NEW a \in 1..m, NEW b \in 1..m, a < b, ~ IsHandle(assigned[a])
      PROVE  Cardinality(Without(a - 1)) < Cardinality(Without(b - 1))
    <2>1. a \notin Without(a - 1) /\ Without(a - 1) \cup {a} \subseteq Without(b - 1)
        BY <1>3 DEF Without
    <2>2. PICK S : S = Without(a - 1)
        OBVIOUS
    <2>3. PICK F : F = Without(b - 1)
        OBVIOUS
    <2>4. IsFiniteSet(S) /\ IsFiniteSet(F) /\ Cardinality(S) \in Nat /\ Cardinality(F) \in Nat
        <3>1. a - 1 \in Int /\ b - 1 \in Int
            OBVIOUS
        <3>. QED
            BY <1>1, <2>2, <2>3, <3>1
    <2>5. Cardinality(S \cup {a}) = Cardinality(S) + 1 /\ IsFiniteSet(S \cup {a})
        BY <2>1, <2>2, <2>4, FS_AddElement
    <2>6. Cardinality(S \cup {a}) <= Cardinality(F)
        BY <2>1, <2>2, <2>3, <2>4, FS_Subset
    <2>. QED
        BY <2>2, <2>3, <2>4, <2>5, <2>6
<1>4. PICK x \in Nat : x = Cardinality(Without(k - 1))
    <2>1. k - 1 \in Int
        OBVIOUS
    <2>. QED
        BY <1>1, <2>1
<1>5. PICK y \in Nat : y = Cardinality(Without(l - 1))
    <2>1. l - 1 \in Int
        OBVIOUS
    <2>. QED
        BY <1>1, <2>1
<1>6. Anonymous(next + x) = Anonymous(next + y)
    BY <1>2, <1>4, <1>5
<1>7. x = y
    BY <1>6 DEF Anonymous
<1>8. ~ (k < l) /\ ~ (l < k)
    BY <1>3, <1>4, <1>5, <1>7
<1>. QED
    BY <1>8

\* Labels' handles are where they are asked for and nowhere else.
LabelsAsAsked(document, templates) ==
    \A i \in Blocks(document) : \A k \in 1..SlotCount(Block(document, i)) :
        IsLabeled(templates[i].handles[k]) \/ IsLabeled(Desired[document][i][k]) =>
            templates[i].handles[k] = Desired[document][i][k]

\* What a slot takes differs from what it is asked for only without labels.
LEMMA TakenIs ==
    ASSUME NEW document \in Documents, NEW templates, NEW next, TemplatesSound(templates, next),
           NEW partner, Partners(document, templates, partner),
           NEW assigned, PartnersTake(document, templates, partner, assigned),
           NEW i \in Blocks(document), NEW k \in 1..SlotCount(Block(document, i))
    PROVE  \/ assigned[i][k] = Desired[document][i][k]
           \/ /\ assigned[i][k] # Unassigned /\ ~ IsLabeled(assigned[i][k])
              /\ ~ IsLabeled(Desired[document][i][k])
<1>1. PICK text \in Texts : Block(document, i) = Content[text]
    BY BlockIs
<1>2. PICK block : block = Content[text] /\ block = Block(document, i)
    BY <1>1
<1>3. ~ IsLabeled(MustBeAnonymous) /\ MustBeAnonymous # Unassigned
    BY DEF IsLabeled, Unassigned, MustBeAnonymous
<1>4. CASE k = 1 /\ block.kind # "cell"
    BY <1>2, <1>4 DEF PartnersTake
<1>5. ASSUME NEW j \in DOMAIN block.cells, k \in {NodeSlot(block, j), CellSlot(block, j)}
      PROVE  \/ assigned[i][k] = Desired[document][i][k]
             \/ /\ assigned[i][k] # Unassigned /\ ~ IsLabeled(assigned[i][k])
                /\ ~ IsLabeled(Desired[document][i][k])
    <2>1. PICK at : at = <<i, j>> /\ at \in ToSet(CellsOf[document])
        BY <1>2, <1>5, CellsOfIs
    <2>2. PICK h, c : h = NodeSlot(block, j) /\ c = CellSlot(block, j)
        OBVIOUS
    <2>3. /\ assigned[i][c] = IF partner[at] = Alone THEN Desired[document][i][c]
                              ELSE CellOf(templates, partner[at])
          /\ assigned[i][h] = IF partner[at] = Alone THEN Desired[document][i][h]
                              ELSE IF IsLabeled(NodeOf(templates, partner[at])) THEN MustBeAnonymous
                              ELSE NodeOf(templates, partner[at])
        BY <1>2, <1>5, <2>1, <2>2 DEF PartnersTake
    <2>4. Desired[document][i][h] = Desired[document][i][c]
        BY <1>2, <1>5, <2>2, DesiredPair
    <2>5. CASE partner[at] = Alone
        BY <1>5, <2>2, <2>3, <2>5
    <2>6. CASE partner[at] # Alone
        <3>1. IsOffered(templates, partner[at]) /\ ~ IsLabeled(Desired[document][i][c])
            BY <1>2, <2>1, <2>2, <2>6 DEF Partners, CellAsked
        <3>2. PICK p, l : /\ partner[at] = <<p, l>> /\ p \in DOMAIN templates
                          /\ l \in DOMAIN Content[templates[p].text].cells
                          /\ ~ IsLabeled(CellOf(templates, partner[at]))
            BY <3>1, OfferedIs
        <3>3. PICK other \in Texts : other = templates[p].text
            BY <3>2 DEF TemplatesSound
        <3>4. PICK x, y : /\ x = NodeSlot(Content[other], l) /\ x \in 1..SlotCount(Content[other])
                          /\ y = CellSlot(Content[other], l) /\ y \in 1..SlotCount(Content[other])
            BY <3>2, <3>3, SlotsApart
        <3>5. IsHandle(NodeOf(templates, partner[at])) /\ IsHandle(CellOf(templates, partner[at]))
            <4>1. /\ HandedOut(templates[p].handles[x], next)
                  /\ HandedOut(templates[p].handles[y], next)
                BY <3>2, <3>3, <3>4 DEF TemplatesSound
            <4>2. IsHandle(templates[p].handles[x]) /\ IsHandle(templates[p].handles[y])
                BY <4>1, HandedOutIs
            <4>3. /\ NodeOf(templates, <<p, l>>) = templates[p].handles[x]
                  /\ CellOf(templates, <<p, l>>) = templates[p].handles[y]
                BY <3>3, <3>4 DEF NodeOf, CellOf
            <4>. QED
                BY <3>2, <4>2, <4>3
        <3>. QED
            BY <1>3, <1>5, <2>2, <2>3, <2>4, <2>6, <3>1, <3>2, <3>5 DEF IsHandle
    <2>. QED
        BY <2>5, <2>6
<1>. QED
    BY <1>2, <1>4, <1>5, SlotKinds

\* The labelled handles of the new templates are the ones their texts declare.
LEMMA LabelsAreAsAsked ==
    ASSUME NEW document \in Documents, NEW templates, NEW next, TemplatesSound(templates, next),
           LabelsSound(templates),
           NEW partner, Partners(document, templates, partner),
           NEW assigned, assigned = match_identities(document, templates),
           PartnersTake(document, templates, partner, assigned),
           NEW n, n = Len(Input[document].blocks),
           NEW pick, InTurn(Reusable(document, templates, assigned), n, pick),
           NEW made, NEW now, Built(document, templates, next, assigned, pick, now, made)
    PROVE  LabelsAsAsked(document, made.templates)
<1>1. n \in Nat /\ Blocks(document) = 1..n
    BY DocumentIs
<1>2. SUFFICES ASSUME NEW i \in 1..n, NEW k \in 1..SlotCount(Block(document, i)),
                      NEW template, template = made.templates[i],
                      NEW desired, desired = Desired[document][i][k]
               PROVE  IsLabeled(template.handles[k]) \/ IsLabeled(desired) => template.handles[k] = desired
    BY <1>1 DEF LabelsAsAsked
<1>3. PICK text \in Texts : text = Input[document].blocks[i] /\ Block(document, i) = Content[text]
    BY <1>1, BlockIs
<1>4. PICK asked : asked = assigned[i]
    OBVIOUS
<1>5. \/ asked[k] = desired
      \/ asked[k] # Unassigned /\ ~ IsLabeled(asked[k]) /\ ~ IsLabeled(desired)
    BY <1>1, <1>2, <1>4, TakenIs
<1>6. ~ IsLabeled(MustBeAnonymous) /\ ~ IsLabeled(Unassigned)
    BY DEF IsLabeled, Unassigned, MustBeAnonymous
<1>7. PICK m \in Nat : m = SlotCount(Content[text]) /\ DOMAIN asked = 1..m /\ k \in 1..m
    BY <1>1, <1>2, <1>3, <1>4, SlotsAre, IdentitiesAre
<1>8. CASE pick[i] = 0
    <2>1. i - 1 \in 0..n
        BY <1>1
    <2>2. PICK was \in Nat : was = now[i - 1]
        BY <2>1 DEF Built
    <2>3. template.handles = Allocate(asked, was)
        BY <1>2, <1>4, <1>8, <2>2 DEF Built
    <2>4. Allocated(m, asked, was)
        BY <1>7, AllocateIs
    <2>5. \/ IsHandle(asked[k]) /\ template.handles[k] = asked[k]
          \/ \E c \in Nat : template.handles[k] = Anonymous(c)
        BY <1>7, <2>3, <2>4 DEF Allocated
    <2>6. ~ IsHandle(asked[k]) => /\ \E c \in Nat : template.handles[k] = Anonymous(c)
                                  /\ ~ IsLabeled(asked[k])
        BY <1>6, <2>5 DEF IsHandle
    <2>7. IsHandle(asked[k]) => template.handles[k] = asked[k]
        BY <1>7, <2>3 DEF Allocate
    <2>8. \A c : ~ IsLabeled(Anonymous(c))
        BY DEF IsLabeled, Anonymous
    <2>. QED
        BY <1>5, <2>6, <2>7, <2>8
<1>9. CASE pick[i] # 0
    <2>1. PICK p \in DOMAIN templates : p = pick[i] /\ templates[p].text = text /\ matches(asked, templates[p])
        BY <1>1, <1>3, <1>4, <1>9 DEF InTurn, Reusable
    <2>2. template = templates[p]
        BY <1>2, <1>9, <2>1 DEF Built
    <2>3. \/ asked[k] = Unassigned
          \/ asked[k] = MustBeAnonymous /\ ~ IsLabeled(template.handles[k])
          \/ IsHandle(asked[k]) /\ template.handles[k] = asked[k]
        BY <1>7, <2>1, <2>2 DEF matches
    <2>4. ASSUME asked[k] = Unassigned
          PROVE  ~ IsLabeled(template.handles[k]) /\ ~ IsLabeled(desired)
        <3>1. desired = Unassigned
            BY <1>5, <2>4
        <3>2. ASSUME NEW label, Declares(text, k, label)
              PROVE  FALSE
            <4>1. desired = IF Repeated(document, label) THEN MustBeAnonymous ELSE Labeled(label)
                BY <1>1, <1>2, <1>3, <3>2, DesiredFrom
            <4>2. label \in STRING
                BY <3>2, DeclaresOne
            <4>3. Labeled(label) # Unassigned /\ MustBeAnonymous # Unassigned
                BY <4>2, DocumentAssumption DEF Labeled, Unassigned, MustBeAnonymous
            <4>. QED
                BY <3>1, <4>1, <4>3
        <3>3. ~ IsLabeled(template.handles[k])
            BY <1>7, <2>1, <2>2, <3>2 DEF LabelsSound
        <3>. QED
            BY <1>6, <3>1, <3>3
    <2>. QED
        BY <1>5, <1>6, <2>3, <2>4
<1>. QED
    BY <1>8, <1>9

\* Handles that follow the labels of the texts keep the labels of the templates sound.
LEMMA LabelsStaySound ==
    ASSUME NEW document \in Documents, NEW templates, LabelsAsAsked(document, templates),
           DOMAIN templates = Blocks(document),
           \A i \in Blocks(document) : templates[i].text = Input[document].blocks[i]
    PROVE  LabelsSound(templates)
<1>1. ASSUME NEW i \in Blocks(document), NEW text, text = Input[document].blocks[i],
             NEW block, block = Content[text], NEW k \in 1..SlotCount(block),
             IsLabeled(templates[i].handles[k])
      PROVE  \E label : Declares(text, k, label)
    <2>1. text \in Texts /\ Block(document, i) = block
        BY <1>1, BlockIs
    <2>2. IsLabeled(Desired[document][i][k])
        BY <1>1, <2>1 DEF LabelsAsAsked
    <2>. QED
        BY <1>1, <2>1, <2>2, LabelOf
<1>2. ASSUME NEW i \in Blocks(document), NEW block, block = Block(document, i),
             NEW j \in DOMAIN block.cells,
             IsLabeled(templates[i].handles[NodeSlot(block, j)])
      PROVE  IsLabeled(templates[i].handles[CellSlot(block, j)])
    <2>1. PICK text \in Texts : block = Content[text]
        BY <1>2, BlockIs
    <2>2. PICK h \in 1..SlotCount(block) : h = NodeSlot(block, j)
        BY <1>2, <2>1, SlotsApart
    <2>3. PICK c \in 1..SlotCount(block) : c = CellSlot(block, j)
        BY <1>2, <2>1, SlotsApart
    <2>4. Desired[document][i][h] = Desired[document][i][c]
        BY <1>2, <2>2, <2>3, DesiredPair
    <2>5. IsLabeled(Desired[document][i][h])
        BY <1>2, <2>2 DEF LabelsAsAsked
    <2>6. templates[i].handles[c] = Desired[document][i][c]
        BY <1>2, <2>4, <2>5 DEF LabelsAsAsked
    <2>. QED
        BY <2>3, <2>4, <2>5, <2>6
<1>3. \A i \in Blocks(document) : Block(document, i) = Content[templates[i].text]
    BY BlockIs
<1>. QED
    BY <1>1, <1>2, <1>3 DEF LabelsSound

-----------------------------------------------------------------------------
(***************************************************************************)
(* Handles of blocks and cells are unique.                                 *)
(***************************************************************************)
\* The slot of a cell in a domain, and the handle in that of an offered cell.
SlotFor(block, domain, j) == IF domain = "node" THEN NodeSlot(block, j) ELSE CellSlot(block, j)
HandleAt(templates, domain, place) ==
    templates[place[1]].handles[SlotFor(Content[templates[place[1]].text], domain, place[2])]

\* In one domain, the slots of a block are those of its cells and, unless it is a cell, its own.
LEMMA SlotForIs ==
    ASSUME NEW text \in Texts, NEW block, block = Content[text], NEW domain \in HandleDomains
    PROVE  /\ \A k \in SlotsOf(block, domain) :
                 \/ k = 1 /\ block.kind # "cell"
                 \/ \E j \in DOMAIN block.cells : k = SlotFor(block, domain, j)
           /\ \A j \in DOMAIN block.cells : SlotFor(block, domain, j) \in SlotsOf(block, domain)
           /\ \A j, l \in DOMAIN block.cells :
                 SlotFor(block, domain, j) = SlotFor(block, domain, l) => j = l
<1>1. domain = "node" \/ domain = "cell"
    BY DEF HandleDomains
<1>2. \A j \in DOMAIN block.cells :
          NodeSlot(block, j) \in SlotsOf(block, "node") /\ CellSlot(block, j) \in SlotsOf(block, "cell")
    BY CellSlots
<1>3. SlotsOf(block, "node") \cap SlotsOf(block, "cell") = {} /\ 1 \in SlotsOf(block, "node")
    BY SlotsAre
<1>4. SlotsOf(block, domain) \subseteq 1..SlotCount(block)
    BY SlotsAre
<1>5. ASSUME NEW k \in SlotsOf(block, domain)
      PROVE  \/ k = 1 /\ block.kind # "cell"
             \/ \E j \in DOMAIN block.cells : k = SlotFor(block, domain, j)
    <2>1. \/ k = 1 /\ block.kind # "cell"
          \/ \E j \in DOMAIN block.cells : k = NodeSlot(block, j) \/ k = CellSlot(block, j)
        BY <1>4, SlotKinds
    <2>. QED
        BY <1>1, <1>2, <1>3, <2>1 DEF SlotFor
<1>6. \A j, l \in DOMAIN block.cells : SlotFor(block, domain, j) = SlotFor(block, domain, l) => j = l
    BY <1>1, SlotsDiffer DEF SlotFor
<1>. QED
    BY <1>1, <1>2, <1>5, <1>6 DEF SlotFor

\* Where an unlabeled handle comes from: from the template reused for the
\* block, from a matched cell, or from the counter.
IsReused(document, templates, pick, i, k, handle) ==
    /\ pick[i] # 0 /\ pick[i] \in DOMAIN templates
    /\ templates[pick[i]].text = Input[document].blocks[i]
    /\ handle = templates[pick[i]].handles[k]
IsTaken(document, templates, partner, pick, domain, i, k, handle) ==
    pick[i] = 0 /\ \E j \in DOMAIN Block(document, i).cells :
        /\ partner[<<i, j>>] # Alone /\ k = SlotFor(Block(document, i), domain, j)
        /\ handle = HandleAt(templates, domain, partner[<<i, j>>])
IsCounted(assigned, pick, now, i, k, handle) ==
    pick[i] = 0 /\ ~ IsHandle(assigned[i][k]) /\ handle = Allocate(assigned[i], now[i - 1])[k]

\* An unlabelled handle of the new templates is reused with its template, taken from a matched
\* cell, or newly counted.
LEMMA Origins ==
    ASSUME NEW document \in Documents, NEW templates, NEW next, TemplatesSound(templates, next),
           NEW partner, Partners(document, templates, partner),
           NEW assigned, assigned = match_identities(document, templates),
           PartnersTake(document, templates, partner, assigned),
           NEW n, n = Len(Input[document].blocks),
           NEW pick, InTurn(Reusable(document, templates, assigned), n, pick),
           NEW made, NEW now, Built(document, templates, next, assigned, pick, now, made),
           NEW domain \in HandleDomains,
           NEW i \in 1..n, NEW k \in SlotsOf(Block(document, i), domain),
           NEW handle, handle = made.templates[i].handles[k], ~ IsLabeled(handle)
    PROVE  \/ IsReused(document, templates, pick, i, k, handle)
           \/ IsTaken(document, templates, partner, pick, domain, i, k, handle)
           \/ IsCounted(assigned, pick, now, i, k, handle)
<1>1. n \in Nat /\ Blocks(document) = 1..n
    BY DocumentIs
<1>2. PICK text \in Texts : text = Input[document].blocks[i] /\ Block(document, i) = Content[text]
    BY <1>1, BlockIs
<1>3. PICK block : block = Block(document, i)
    OBVIOUS
<1>4. k \in 1..SlotCount(block)
    BY <1>2, <1>3, SlotsAre
<1>5. CASE pick[i] # 0
    <2>1. pick[i] \in DOMAIN templates /\ templates[pick[i]].text = text
        BY <1>1, <1>2, <1>5 DEF InTurn, Reusable
    <2>2. made.templates[i] = templates[pick[i]]
        BY <1>5 DEF Built
    <2>. QED
        BY <1>2, <1>5, <2>1, <2>2 DEF IsReused
<1>6. CASE pick[i] = 0
    <2>1. PICK asked, was : asked = assigned[i] /\ was = now[i - 1]
        OBVIOUS
    <2>2. handle = Allocate(asked, was)[k]
        BY <1>6, <2>1 DEF Built
    <2>3. DOMAIN asked = 1..SlotCount(block)
        BY <1>1, <1>3, <2>1, IdentitiesAre
    <2>4. CASE ~ IsHandle(asked[k])
        BY <1>6, <2>1, <2>2, <2>4 DEF IsCounted
    <2>5. CASE IsHandle(asked[k])
        <3>1. handle = asked[k]
            BY <1>4, <2>2, <2>3, <2>5 DEF Allocate
        <3>2. asked[k] # Desired[document][i][k]
            <4>1. \/ Desired[document][i][k] \in {Unassigned, MustBeAnonymous}
                  \/ \E label \in STRING : Desired[document][i][k] = Labeled(label)
                BY <1>1, <1>3, <1>4, DesiredIs
            <4>2. \A label \in STRING : IsLabeled(Labeled(label))
                BY DocumentAssumption DEF IsLabeled, Labeled
            <4>. QED
                BY <2>5, <3>1, <4>1, <4>2 DEF IsHandle
        <3>3. ~ (k = 1 /\ block.kind # "cell")
            BY <1>1, <1>3, <2>1, <3>2 DEF PartnersTake
        <3>4. PICK j \in DOMAIN block.cells : k = SlotFor(block, domain, j)
            <4>1. block = Content[text] /\ k \in SlotsOf(block, domain)
                BY <1>2, <1>3
            <4>2. \A h \in SlotsOf(block, domain) :
                      \/ h = 1 /\ block.kind # "cell"
                      \/ \E j \in DOMAIN block.cells : h = SlotFor(block, domain, j)
                <5>1. block = Content[text] /\ domain \in HandleDomains /\ text \in Texts
                    BY <4>1
                <5>. HIDE <4>1
                <5>. QED
                    BY ONLY <5>1, SlotForIs
            <4>. QED
                BY <3>3, <4>1, <4>2
        <3>5. PICK at : at = <<i, j>>
            OBVIOUS
        <3>6. partner[at] # Alone
            BY <1>1, <1>3, <2>1, <3>2, <3>4, <3>5 DEF PartnersTake, SlotFor
        <3>7. handle = HandleAt(templates, domain, partner[at])
            <4>1. CASE domain = "node"
                <5>1. asked[k] = IF IsLabeled(NodeOf(templates, partner[at])) THEN MustBeAnonymous
                                 ELSE NodeOf(templates, partner[at])
                    BY <1>1, <1>3, <2>1, <3>4, <3>5, <3>6, <4>1 DEF PartnersTake, SlotFor
                <5>2. asked[k] = NodeOf(templates, partner[at])
                    BY <2>5, <5>1 DEF IsHandle
                <5>. QED
                    BY <3>1, <4>1, <5>2 DEF HandleAt, SlotFor, NodeOf
            <4>2. CASE domain # "node"
                <5>1. asked[k] = CellOf(templates, partner[at])
                    BY <1>1, <1>3, <2>1, <3>4, <3>5, <3>6, <4>2 DEF PartnersTake, SlotFor
                <5>. QED
                    BY <3>1, <4>2, <5>1 DEF HandleAt, SlotFor, CellOf
            <4>. QED
                BY <4>1, <4>2
        <3>. QED
            BY <1>3, <1>6, <3>4, <3>5, <3>6, <3>7 DEF IsTaken
    <2>. QED
        BY <2>4, <2>5
<1>. QED
    BY <1>5, <1>6

\* The cell j of a block takes its handle from the cell l of templates[p],
\* whose slot is m.
TakenAt(document, templates, partner, domain, i, k, handle, j, p, l, m) ==
    /\ <<i, j>> \in ToSet(CellsOf[document]) /\ j \in DOMAIN Block(document, i).cells
    /\ partner[<<i, j>>] = <<p, l>> /\ <<p, l>> # Alone /\ k = SlotFor(Block(document, i), domain, j)
    /\ p \in DOMAIN templates /\ l \in DOMAIN Content[templates[p].text].cells
    /\ m = SlotFor(Content[templates[p].text], domain, l)
    /\ m \in SlotsOf(Content[templates[p].text], domain)
    /\ handle = templates[p].handles[m]

\* A taken handle names the predecessor and the slot it was taken from.
LEMMA TakenFrom ==
    ASSUME NEW document \in Documents, NEW templates, NEW next, TemplatesSound(templates, next),
           NEW partner, Partners(document, templates, partner), NEW pick,
           NEW domain \in HandleDomains, NEW i \in Blocks(document), NEW k,
           NEW handle, IsTaken(document, templates, partner, pick, domain, i, k, handle)
    PROVE  \E j, p, l, m : TakenAt(document, templates, partner, domain, i, k, handle, j, p, l, m)
<1>1. PICK j \in DOMAIN Block(document, i).cells :
          /\ partner[<<i, j>>] # Alone /\ k = SlotFor(Block(document, i), domain, j)
          /\ handle = HandleAt(templates, domain, partner[<<i, j>>])
    BY DEF IsTaken
<1>2. PICK at : at = <<i, j>> /\ at \in ToSet(CellsOf[document])
    BY CellsOfIs
<1>3. IsOffered(templates, partner[at])
    BY <1>1, <1>2 DEF Partners
<1>4. PICK p, l : /\ partner[at] = <<p, l>> /\ p \in DOMAIN templates
                  /\ l \in DOMAIN Content[templates[p].text].cells
    BY <1>3, OfferedIs
<1>5. PICK other \in Texts : other = templates[p].text
    BY <1>4 DEF TemplatesSound
<1>6. PICK m : m = SlotFor(Content[other], domain, l) /\ m \in SlotsOf(Content[other], domain)
    BY <1>4, <1>5, SlotForIs
<1>7. handle = templates[p].handles[m]
    BY <1>1, <1>2, <1>4, <1>5, <1>6 DEF HandleAt
<1>8. TakenAt(document, templates, partner, domain, i, k, handle, j, p, l, m)
    BY <1>1, <1>2, <1>4, <1>5, <1>6, <1>7 DEF TakenAt
<1>. QED
    BY <1>8

\* A document's templates come about from preceding ones whose handles are
\* unique.
Matching(document, templates, next, partner, assigned, pick, now, made) ==
    /\ TemplatesSound(templates, next) /\ LabelsSound(templates)
    /\ \A domain \in HandleDomains : UniqueIn(templates, domain)
    /\ Partners(document, templates, partner)
    /\ assigned = match_identities(document, templates)
    /\ PartnersTake(document, templates, partner, assigned)
    /\ InTurn(Reusable(document, templates, assigned), Len(Input[document].blocks), pick)
    /\ Built(document, templates, next, assigned, pick, now, made)

\* No two slots have a handle of one origin.
LEMMA ReusedApart ==
    ASSUME NEW document \in Documents, NEW templates, NEW next, NEW partner, NEW assigned, NEW pick,
           NEW now, NEW made, Matching(document, templates, next, partner, assigned, pick, now, made),
           NEW domain \in HandleDomains, NEW handle,
           NEW i \in Blocks(document), NEW k \in SlotsOf(Block(document, i), domain),
           NEW l \in Blocks(document), NEW m \in SlotsOf(Block(document, l), domain),
           IsReused(document, templates, pick, i, k, handle),
           IsReused(document, templates, pick, l, m, handle)
    PROVE  i = l /\ k = m
<1>1. PICK p \in DOMAIN templates : /\ p = pick[i] /\ p # 0 /\ handle = templates[p].handles[k]
                                    /\ templates[p].text = Input[document].blocks[i]
    BY DEF IsReused
<1>2. PICK q \in DOMAIN templates : /\ q = pick[l] /\ q # 0 /\ handle = templates[q].handles[m]
                                    /\ templates[q].text = Input[document].blocks[l]
    BY DEF IsReused
<1>3. k \in SlotsOf(Content[templates[p].text], domain) /\ m \in SlotsOf(Content[templates[q].text], domain)
    BY <1>1, <1>2 DEF Block
<1>4. UniqueIn(templates, domain)
    BY DEF Matching
<1>5. p = q /\ k = m
    <2>1. templates[p].handles[k] = handle
        BY <1>1
    <2>2. templates[q].handles[m] = handle
        BY <1>2
    <2>3. \A r \in DOMAIN templates : \A s \in SlotsOf(Content[templates[r].text], domain) :
              templates[p].handles[k] = templates[r].handles[s] => p = r /\ k = s
        BY <1>3, <1>4 DEF UniqueIn
    <2>. QED
        BY <1>3, <2>1, <2>2, <2>3
<1>6. InTurn(Reusable(document, templates, assigned), Len(Input[document].blocks), pick)
    BY DEF Matching
<1>7. i \in 1..Len(Input[document].blocks) /\ l \in 1..Len(Input[document].blocks)
    BY DocumentIs
<1>. QED
    BY <1>1, <1>2, <1>5, <1>6, <1>7 DEF InTurn

\* No handle is taken by two slots of a revision.
LEMMA TakenApart ==
    ASSUME NEW document \in Documents, NEW templates, NEW next, NEW partner, NEW assigned, NEW pick,
           NEW now, NEW made, Matching(document, templates, next, partner, assigned, pick, now, made),
           NEW domain \in HandleDomains, NEW handle,
           NEW i \in Blocks(document), NEW k, NEW l \in Blocks(document), NEW m,
           IsTaken(document, templates, partner, pick, domain, i, k, handle),
           IsTaken(document, templates, partner, pick, domain, l, m, handle)
    PROVE  i = l /\ k = m
<1>0. TemplatesSound(templates, next) /\ Partners(document, templates, partner) /\ UniqueIn(templates, domain)
    BY DEF Matching
<1>a. PICK j, p, a, x : TakenAt(document, templates, partner, domain, i, k, handle, j, p, a, x)
    BY <1>0, TakenFrom
<1>b. PICK h, q, b, y : TakenAt(document, templates, partner, domain, l, m, handle, h, q, b, y)
    BY <1>0, TakenFrom
<1>1. /\ <<i, j>> \in ToSet(CellsOf[document])
      /\ partner[<<i, j>>] = <<p, a>> /\ <<p, a>> # Alone /\ k = SlotFor(Block(document, i), domain, j)
      /\ p \in DOMAIN templates /\ a \in DOMAIN Content[templates[p].text].cells
      /\ x = SlotFor(Content[templates[p].text], domain, a)
      /\ x \in SlotsOf(Content[templates[p].text], domain)
      /\ handle = templates[p].handles[x]
    BY <1>a DEF TakenAt
<1>2. /\ <<l, h>> \in ToSet(CellsOf[document])
      /\ partner[<<l, h>>] = <<q, b>> /\ <<q, b>> # Alone /\ m = SlotFor(Block(document, l), domain, h)
      /\ q \in DOMAIN templates /\ b \in DOMAIN Content[templates[q].text].cells
      /\ y = SlotFor(Content[templates[q].text], domain, b)
      /\ y \in SlotsOf(Content[templates[q].text], domain)
      /\ handle = templates[q].handles[y]
    BY <1>b DEF TakenAt
<1>3. p = q /\ x = y
    <2>1. templates[p].handles[x] = handle
        BY <1>1
    <2>2. templates[q].handles[y] = handle
        BY <1>2
    <2>3. \A r \in DOMAIN templates : \A s \in SlotsOf(Content[templates[r].text], domain) :
              templates[p].handles[x] = templates[r].handles[s] => p = r /\ x = s
        BY <1>0, <1>1 DEF UniqueIn
    <2>. QED
        BY <1>2, <2>1, <2>2, <2>3
<1>4. PICK text \in Texts : text = templates[p].text
    BY <1>0, <1>1 DEF TemplatesSound
<1>5. PICK block : block = Content[text]
    OBVIOUS
<1>6. \A c, d \in DOMAIN block.cells : SlotFor(block, domain, c) = SlotFor(block, domain, d) => c = d
    BY ONLY text \in Texts, <1>5, domain \in HandleDomains, SlotForIs
<1>7. a = b
    BY <1>1, <1>2, <1>3, <1>4, <1>5, <1>6
<1>8. partner[<<i, j>>] = partner[<<l, h>>]
    BY <1>1, <1>2, <1>3, <1>7
<1>9. <<i, j>> = <<l, h>>
    BY <1>0, <1>1, <1>2, <1>8 DEF Partners
<1>. QED
    BY <1>1, <1>2, <1>9

\* A handle that is counted out is new.
LEMMA CountedIs ==
    ASSUME NEW document \in Documents, NEW templates, NEW next, NEW partner, NEW assigned, NEW pick,
           NEW now, NEW made, Matching(document, templates, next, partner, assigned, pick, now, made),
           NEW n, n = Len(Input[document].blocks), NEW handle,
           NEW i \in 1..n, NEW k \in 1..SlotCount(Block(document, i)),
           IsCounted(assigned, pick, now, i, k, handle)
    PROVE  \E c \in Nat : /\ now[i - 1] <= c /\ c < now[i] /\ handle = Anonymous(c)
                          /\ next <= c /\ now[i] \in Nat /\ now[i - 1] \in Nat
<1>0. TemplatesSound(templates, next) /\ assigned = match_identities(document, templates)
    BY DEF Matching
<1>1. /\ \A e \in 0..n : now[e] \in Nat /\ next <= now[e]
      /\ n \in Nat /\ \A e \in 1..n : Fresh(assigned[e]) \in Nat
    <2>1. Built(document, templates, next, assigned, pick, now, made)
        BY DEF Matching
    <2>. QED
        BY <1>0, <2>1, BuiltRises
<1>2. Blocks(document) = 1..n
    BY DocumentIs
<1>3. PICK m \in Nat : m = SlotCount(Block(document, i))
    BY <1>2, BlockIs, SlotsAre
<1>4. PICK asked : asked = assigned[i] /\ DOMAIN asked = 1..m
    BY <1>0, <1>2, <1>3, IdentitiesAre
<1>5. i - 1 \in 0..n /\ i \in 0..n
    BY <1>1
<1>6. PICK was \in Nat : was = now[i - 1] /\ next <= was
    BY <1>1, <1>5
<1>7. pick[i] = 0 /\ ~ IsHandle(asked[k]) /\ handle = Allocate(asked, was)[k]
    BY <1>4, <1>6 DEF IsCounted
<1>8. now[i] = was + Fresh(asked) /\ Fresh(asked) \in Nat
    BY <1>1, <1>4, <1>6, <1>7 DEF Matching, Built
<1>9. Allocated(m, asked, was)
    BY <1>4, <1>6, AllocateIs
<1>10. PICK c \in Nat : was <= c /\ c < was + Fresh(asked) /\ handle = Anonymous(c)
    BY <1>3, <1>7, <1>9 DEF Allocated
<1>11. next \in Nat
    BY <1>0 DEF TemplatesSound
<1>. QED
    BY <1>1, <1>5, <1>6, <1>8, <1>10, <1>11

\* No handle is counted out to two slots of a revision.
LEMMA CountedApart ==
    ASSUME NEW document \in Documents, NEW templates, NEW next, NEW partner, NEW assigned, NEW pick,
           NEW now, NEW made, Matching(document, templates, next, partner, assigned, pick, now, made),
           NEW n, n = Len(Input[document].blocks), NEW handle,
           NEW i \in 1..n, NEW k \in 1..SlotCount(Block(document, i)),
           NEW l \in 1..n, NEW m \in 1..SlotCount(Block(document, l)),
           IsCounted(assigned, pick, now, i, k, handle),
           IsCounted(assigned, pick, now, l, m, handle)
    PROVE  i = l /\ k = m
<1>0. TemplatesSound(templates, next) /\ assigned = match_identities(document, templates)
    BY DEF Matching
<1>1. n \in Nat /\ Blocks(document) = 1..n
    BY DocumentIs
<1>2. \A e, f \in 0..n : e <= f => now[e] <= now[f]
    <2>1. Built(document, templates, next, assigned, pick, now, made)
        BY DEF Matching
    <2>. QED
        BY <1>0, <2>1, BuiltRises
<1>3. PICK c \in Nat : /\ now[i - 1] <= c /\ c < now[i] /\ handle = Anonymous(c)
                       /\ now[i] \in Nat /\ now[i - 1] \in Nat
    BY CountedIs
<1>4. PICK d \in Nat : /\ now[l - 1] <= d /\ d < now[l] /\ handle = Anonymous(d)
                       /\ now[l] \in Nat /\ now[l - 1] \in Nat
    BY CountedIs
<1>5. c = d
    BY <1>3, <1>4 DEF Anonymous
<1>6. ~ (i < l)
    <2>. SUFFICES ASSUME i < l PROVE FALSE
        OBVIOUS
    <2>1. i <= l - 1 /\ i \in 0..n /\ l - 1 \in 0..n
        BY <1>1
    <2>2. now[i] <= now[l - 1]
        BY <1>2, <2>1
    <2>. QED
        BY <1>3, <1>4, <1>5, <2>2
<1>7. ~ (l < i)
    <2>. SUFFICES ASSUME l < i PROVE FALSE
        OBVIOUS
    <2>1. l <= i - 1 /\ l \in 0..n /\ i - 1 \in 0..n
        BY <1>1
    <2>2. now[l] <= now[i - 1]
        BY <1>2, <2>1
    <2>. QED
        BY <1>3, <1>4, <1>5, <2>2
<1>8. i = l
    BY <1>1, <1>6, <1>7
<1>9. PICK w \in Nat : w = SlotCount(Block(document, i))
    BY <1>1, BlockIs, SlotsAre
<1>10. PICK asked : asked = assigned[i] /\ DOMAIN asked = 1..w
    BY <1>0, <1>1, <1>9, IdentitiesAre
<1>11. PICK was \in Nat : was = now[i - 1]
    BY <1>3
<1>12. /\ ~ IsHandle(asked[k]) /\ handle = Allocate(asked, was)[k]
       /\ ~ IsHandle(asked[m]) /\ handle = Allocate(asked, was)[m]
       /\ k \in 1..w /\ m \in 1..w
    BY <1>8, <1>9, <1>10, <1>11 DEF IsCounted
<1>13. k = m
    BY <1>10, <1>11, <1>12, AllocatesApart
<1>. QED
    BY <1>8, <1>13

\* No two slots have a handle of different origins.
LEMMA OriginsDiffer ==
    ASSUME RepeatedCellsStandAlone,
           NEW document \in Documents, NEW templates, NEW next, NEW partner, NEW assigned, NEW pick,
           NEW now, NEW made, Matching(document, templates, next, partner, assigned, pick, now, made),
           NEW domain \in HandleDomains, NEW handle, ~ IsLabeled(handle),
           NEW i \in Blocks(document), NEW k \in SlotsOf(Block(document, i), domain),
           NEW l \in Blocks(document), NEW m \in SlotsOf(Block(document, l), domain)
    PROVE  /\ ~ (/\ IsReused(document, templates, pick, i, k, handle)
                 /\ IsTaken(document, templates, partner, pick, domain, l, m, handle))
           /\ ~ (/\ IsReused(document, templates, pick, i, k, handle)
                 /\ IsCounted(assigned, pick, now, l, m, handle))
           /\ ~ (/\ IsTaken(document, templates, partner, pick, domain, i, k, handle)
                 /\ IsCounted(assigned, pick, now, l, m, handle))
<1>0. /\ TemplatesSound(templates, next) /\ Partners(document, templates, partner)
      /\ UniqueIn(templates, domain) /\ UniqueIn(templates, "cell") /\ LabelsSound(templates)
      /\ PartnersTake(document, templates, partner, assigned)
      /\ InTurn(Reusable(document, templates, assigned), Len(Input[document].blocks), pick)
      /\ assigned = match_identities(document, templates)
    BY DEF Matching, HandleDomains
<1>1. PICK n \in Nat : n = Len(Input[document].blocks) /\ Blocks(document) = 1..n
    BY DocumentIs
<1>2. AssignedSlots(document, assigned)
    BY <1>0, IdentitiesAre DEF AssignedSlots
<1>3. ASSUME IsReused(document, templates, pick, i, k, handle)
      PROVE  \E p \in DOMAIN templates : \E a \in SlotsOf(Content[templates[p].text], domain) :
                 handle = templates[p].handles[a] /\ p = pick[i] /\ pick[i] # 0
    BY <1>3 DEF IsReused, Block
<1>4. ASSUME NEW g \in Blocks(document), NEW w,
             IsTaken(document, templates, partner, pick, domain, g, w, handle)
      PROVE  \E p \in DOMAIN templates : \E a \in SlotsOf(Content[templates[p].text], domain) :
                 /\ handle = templates[p].handles[a] /\ pick[g] = 0
                 /\ \E at \in ToSet(CellsOf[document]) :
                       partner[at] # Alone /\ partner[at][1] = p /\ at[1] = g
    <2>a. PICK j, p, b, x : TakenAt(document, templates, partner, domain, g, w, handle, j, p, b, x)
        BY <1>0, <1>4, TakenFrom
    <2>1. /\ <<g, j>> \in ToSet(CellsOf[document])
          /\ partner[<<g, j>>] = <<p, b>> /\ <<p, b>> # Alone
          /\ p \in DOMAIN templates
          /\ x \in SlotsOf(Content[templates[p].text], domain)
          /\ handle = templates[p].handles[x]
        BY <2>a DEF TakenAt
    <2>2. pick[g] = 0
        BY <1>4 DEF IsTaken
    <2>3. PICK at \in ToSet(CellsOf[document]) : at = <<g, j>> /\ partner[at] = <<p, b>>
        BY <2>1
    <2>. QED
        BY <2>1, <2>2, <2>3
<1>5. ASSUME NEW p \in DOMAIN templates, NEW a \in SlotsOf(Content[templates[p].text], domain),
             handle = templates[p].handles[a],
             IsCounted(assigned, pick, now, l, m, handle)
      PROVE  FALSE
    <2>1. templates[p].text \in Texts
        BY <1>0 DEF TemplatesSound
    <2>2. a \in 1..SlotCount(Content[templates[p].text])
        BY <2>1, SlotsAre
    <2>3. HandedOut(handle, next)
        BY <1>0, <1>5, <2>2 DEF TemplatesSound
    <2>4. m \in 1..SlotCount(Block(document, l)) /\ l \in 1..n
        BY <1>1, BlockIs, SlotsAre
    <2>5. PICK c \in Nat : handle = Anonymous(c) /\ next <= c
        BY <1>1, <1>5, <2>4, CountedIs
    <2>6. \A label \in STRING : IsLabeled(Labeled(label))
        BY DocumentAssumption DEF IsLabeled, Labeled
    <2>7. PICK d \in Nat : handle = Anonymous(d) /\ d < next
        BY <2>3, <2>6 DEF HandedOut
    <2>8. c = d
        BY <2>5, <2>7 DEF Anonymous
    <2>9. next \in Nat
        BY <1>0 DEF TemplatesSound
    <2>. QED
        BY <2>5, <2>7, <2>8, <2>9
<1>6. ASSUME IsReused(document, templates, pick, i, k, handle),
             IsTaken(document, templates, partner, pick, domain, l, m, handle)
      PROVE  FALSE
    <2>1. PICK p \in DOMAIN templates : \E a \in SlotsOf(Content[templates[p].text], domain) :
              handle = templates[p].handles[a] /\ p = pick[i] /\ pick[i] # 0
        BY <1>3, <1>6
    <2>2. PICK a \in SlotsOf(Content[templates[p].text], domain) : handle = templates[p].handles[a]
        BY <2>1
    <2>3. PICK q \in DOMAIN templates : \E b \in SlotsOf(Content[templates[q].text], domain) :
              /\ handle = templates[q].handles[b] /\ pick[l] = 0
              /\ \E at \in ToSet(CellsOf[document]) :
                    partner[at] # Alone /\ partner[at][1] = q /\ at[1] = l
        BY <1>4, <1>6
    <2>4. PICK b \in SlotsOf(Content[templates[q].text], domain) : handle = templates[q].handles[b]
        BY <2>3
    <2>5. PICK at \in ToSet(CellsOf[document]) : partner[at] # Alone /\ partner[at][1] = q /\ at[1] = l
        BY <2>3
    <2>6. p = q
        BY <1>0, <2>2, <2>4 DEF UniqueIn
    <2>7. InTurn(Reusable(document, templates, assigned), n, pick)
        BY <1>0, <1>1
    <2>8. pick[i] = partner[at][1]
        BY <2>1, <2>5, <2>6
    <2>9. at[1] = i
        BY <1>0, <1>1, <1>2, <2>5, <2>7, <2>8, MatchedInReused
    <2>. QED
        BY <2>1, <2>3, <2>5, <2>9
<1>. QED
    BY <1>3, <1>4, <1>5, <1>6

\* Handles that were unique in the preceding revision are in the next one.
LEMMA StayUnique ==
    ASSUME RepeatedCellsStandAlone,
           NEW document \in Documents, NEW templates, NEW next, NEW partner, NEW assigned, NEW pick,
           NEW now, NEW made, Matching(document, templates, next, partner, assigned, pick, now, made),
           LabelsAsAsked(document, made.templates),
           \A i \in Blocks(document) : made.templates[i].text = Input[document].blocks[i],
           NEW domain \in HandleDomains
    PROVE  UniqueIn(made.templates, domain)
<1>0. /\ TemplatesSound(templates, next) /\ Partners(document, templates, partner)
      /\ PartnersTake(document, templates, partner, assigned)
      /\ InTurn(Reusable(document, templates, assigned), Len(Input[document].blocks), pick)
      /\ assigned = match_identities(document, templates)
      /\ Built(document, templates, next, assigned, pick, now, made)
    BY DEF Matching
<1>1. PICK n \in Nat : n = Len(Input[document].blocks) /\ Blocks(document) = 1..n
    BY DocumentIs
<1>2. DOMAIN made.templates = 1..n
    BY <1>0, <1>1 DEF Built
<1>3. ASSUME NEW i \in 1..n
      PROVE  Content[made.templates[i].text] = Block(document, i)
    BY <1>1 DEF Block
<1>4. SUFFICES ASSUME NEW i \in 1..n, NEW k \in SlotsOf(Block(document, i), domain),
                      NEW l \in 1..n, NEW m \in SlotsOf(Block(document, l), domain),
                      NEW handle, handle = made.templates[i].handles[k],
                      handle = made.templates[l].handles[m]
               PROVE  i = l /\ k = m
    BY <1>2, <1>3 DEF UniqueIn
<1>5. /\ k \in 1..SlotCount(Block(document, i)) /\ m \in 1..SlotCount(Block(document, l))
      /\ i \in Blocks(document) /\ l \in Blocks(document)
    BY <1>1, BlockIs, SlotsAre
<1>6. CASE IsLabeled(handle)
    <2>1. handle = Desired[document][i][k]
        BY <1>4, <1>5, <1>6 DEF LabelsAsAsked
    <2>2. handle = Desired[document][l][m]
        BY <1>4, <1>5, <1>6 DEF LabelsAsAsked
    <2>3. IsLabeled(Desired[document][i][k]) /\ Desired[document][i][k] = Desired[document][l][m]
        BY <1>6, <2>1, <2>2
    <2>. QED
        BY <1>5, <2>3, LabelOwner
<1>7. CASE ~ IsLabeled(handle)
    <2>1. \/ IsReused(document, templates, pick, i, k, handle)
          \/ IsTaken(document, templates, partner, pick, domain, i, k, handle)
          \/ IsCounted(assigned, pick, now, i, k, handle)
        BY <1>0, <1>1, <1>4, <1>7, Origins
    <2>2. \/ IsReused(document, templates, pick, l, m, handle)
          \/ IsTaken(document, templates, partner, pick, domain, l, m, handle)
          \/ IsCounted(assigned, pick, now, l, m, handle)
        BY <1>0, <1>1, <1>4, <1>7, Origins
    <2>3. CASE /\ IsReused(document, templates, pick, i, k, handle)
               /\ IsReused(document, templates, pick, l, m, handle)
        BY <1>5, <2>3, ReusedApart
    <2>4. CASE /\ IsTaken(document, templates, partner, pick, domain, i, k, handle)
               /\ IsTaken(document, templates, partner, pick, domain, l, m, handle)
        BY <1>5, <2>4, TakenApart
    <2>5. CASE /\ IsCounted(assigned, pick, now, i, k, handle)
               /\ IsCounted(assigned, pick, now, l, m, handle)
        BY <1>1, <1>5, <2>5, CountedApart
    <2>6. /\ ~ (/\ IsReused(document, templates, pick, i, k, handle)
                /\ IsTaken(document, templates, partner, pick, domain, l, m, handle))
          /\ ~ (/\ IsReused(document, templates, pick, i, k, handle)
                /\ IsCounted(assigned, pick, now, l, m, handle))
          /\ ~ (/\ IsTaken(document, templates, partner, pick, domain, i, k, handle)
                /\ IsCounted(assigned, pick, now, l, m, handle))
        BY <1>5, <1>7, OriginsDiffer
    <2>7. /\ ~ (/\ IsReused(document, templates, pick, l, m, handle)
                /\ IsTaken(document, templates, partner, pick, domain, i, k, handle))
          /\ ~ (/\ IsReused(document, templates, pick, l, m, handle)
                /\ IsCounted(assigned, pick, now, i, k, handle))
          /\ ~ (/\ IsTaken(document, templates, partner, pick, domain, l, m, handle)
                /\ IsCounted(assigned, pick, now, i, k, handle))
        BY <1>5, <1>7, OriginsDiffer
    <2>. QED
        BY <2>1, <2>2, <2>3, <2>4, <2>5, <2>6, <2>7
<1>. QED
    BY <1>6, <1>7

\* Blocks and cells have handles of their own.
Distinct(templates) ==
    LabelsSound(templates) /\ \A domain \in HandleDomains : UniqueIn(templates, domain)

\* How the templates of a revision come about.
LEMMA UpdatedBuilt ==
    ASSUME NEW document \in Documents, NEW revision, NEW previous, Usable(previous),
           NEW next, next = updated(document, revision, previous)
    PROVE  \E partner, assigned, pick, now, made :
              /\ made.templates = next.templates
              /\ Partners(document, previous.templates, partner)
              /\ assigned = match_identities(document, previous.templates)
              /\ PartnersTake(document, previous.templates, partner, assigned)
              /\ InTurn(Reusable(document, previous.templates, assigned), Len(Input[document].blocks), pick)
              /\ Built(document, previous.templates, previous.next_id, assigned, pick, now, made)
<1>1. PICK templates, count : templates = previous.templates /\ count = previous.next_id
    OBVIOUS
<1>2. PICK made : made = semantic_nodes(document, templates, count, revision)
    OBVIOUS
<1>3. next.templates = made.templates
    <2>1. next = [source |-> document, revision |-> revision, templates |-> made.templates,
                  slides |-> IdentifySlides(document, made.templates, previous).slides,
                  next_id |-> made.next,
                  next_slide |-> IdentifySlides(document, made.templates, previous).next_slide]
        BY <1>1, <1>2, Zenon DEF updated, Snapshot
    <2>. QED
        BY <2>1
<1>4. TemplatesSound(templates, count)
    BY <1>1 DEF Usable
<1>5. PICK assigned : assigned = match_identities(document, templates)
    OBVIOUS
<1>6. PICK partner : /\ Partners(document, templates, partner)
                     /\ PartnersTake(document, templates, partner, assigned)
    BY <1>4, <1>5, PartnersAre
<1>7. PICK pick, now : /\ InTurn(Reusable(document, templates, assigned), Len(Input[document].blocks), pick)
                       /\ Built(document, templates, count, assigned, pick, now, made)
    BY <1>2, <1>4, <1>5, NodesBuilt
<1>. QED
    BY <1>1, <1>3, <1>5, <1>6, <1>7

\* The templates of an update come from one matching with those of its predecessor.
LEMMA UpdatedMatches ==
    ASSUME NEW document \in Documents, NEW revision, NEW previous, Usable(previous),
           Distinct(previous.templates),
           NEW next, next = updated(document, revision, previous)
    PROVE  \E partner, assigned, pick, now, made :
              /\ made.templates = next.templates
              /\ Matching(document, previous.templates, previous.next_id, partner, assigned, pick,
                          now, made)
<1>1. LabelsSound(previous.templates) /\ \A domain \in HandleDomains : UniqueIn(previous.templates, domain)
    BY DEF Distinct
<1>2. TemplatesSound(previous.templates, previous.next_id)
    BY DEF Usable
<1>. QED
    BY <1>1, <1>2, UpdatedBuilt DEF Matching

\* Every revision has its labels' handles where its source declares them.
LEMMA UpdatedLabels ==
    ASSUME NEW document \in Documents, NEW revision, NEW previous, Usable(previous),
           LabelsSound(previous.templates),
           NEW next, next = updated(document, revision, previous)
    PROVE  LabelsAsAsked(document, next.templates) /\ LabelsSound(next.templates)
<1>1. PICK templates, count : templates = previous.templates /\ count = previous.next_id
    OBVIOUS
<1>2. PICK partner, assigned, pick, now, made :
          /\ made.templates = next.templates
          /\ Partners(document, templates, partner)
          /\ assigned = match_identities(document, templates)
          /\ PartnersTake(document, templates, partner, assigned)
          /\ InTurn(Reusable(document, templates, assigned), Len(Input[document].blocks), pick)
          /\ Built(document, templates, count, assigned, pick, now, made)
    BY <1>1, UpdatedBuilt
<1>3. TemplatesSound(templates, count) /\ LabelsSound(templates)
    BY <1>1 DEF Usable
<1>4. LabelsAsAsked(document, next.templates)
    BY <1>2, <1>3, LabelsAreAsAsked
<1>5. /\ DOMAIN next.templates = Blocks(document)
      /\ \A i \in Blocks(document) : next.templates[i].text = Input[document].blocks[i]
    BY UpdatedIs DEF SnapshotSound
<1>6. LabelsSound(next.templates)
    BY <1>4, <1>5, LabelsStaySound
<1>. QED
    BY <1>4, <1>6

\* Where repeated cells stand alone, an update of distinct handles has distinct handles.
LEMMA UpdatedDistinct ==
    ASSUME RepeatedCellsStandAlone,
           NEW document \in Documents, NEW revision, NEW previous, Usable(previous),
           Distinct(previous.templates),
           NEW next, next = updated(document, revision, previous)
    PROVE  Distinct(next.templates)
<1>1. PICK partner, assigned, pick, now, made :
          /\ made.templates = next.templates
          /\ Matching(document, previous.templates, previous.next_id, partner, assigned, pick, now, made)
    BY UpdatedMatches
<1>2. LabelsAsAsked(document, next.templates)
    BY UpdatedLabels DEF Distinct
<1>3. /\ SnapshotSound(next) /\ next.source = document
    BY UpdatedIs
<1>4. /\ DOMAIN next.templates = Blocks(document)
      /\ \A i \in Blocks(document) : next.templates[i].text = Input[document].blocks[i]
    BY <1>3 DEF SnapshotSound
<1>5. LabelsSound(next.templates)
    BY <1>2, <1>4, LabelsStaySound
<1>6. PICK templates, count : templates = previous.templates /\ count = previous.next_id
    OBVIOUS
<1>7. ASSUME NEW domain \in HandleDomains
      PROVE  UniqueIn(made.templates, domain)
    <2>1. Matching(document, templates, count, partner, assigned, pick, now, made)
        BY <1>1, <1>6
    <2>. QED
        BY <1>1, <1>2, <1>4, <2>1, StayUnique
<1>. QED
    BY <1>1, <1>5, <1>7 DEF Distinct

\* No handles are distinct handles.
LEMMA NothingDistinct == Distinct(NoSnapshot.templates)
<1>1. DOMAIN NoSnapshot.templates = {}
    BY DEF NoSnapshot
<1>. QED
    BY <1>1 DEF Distinct, LabelsSound, UniqueIn

\* Every revision was made from the preceding one.
Descent ==
    \A s \in DOMAIN snapshots :
        snapshots[s] = updated(snapshots[s].source, snapshots[s].revision,
                               IF s = 1 THEN NoSnapshot ELSE snapshots[s - 1])

\* The first snapshot is the update of nothing.
LEMMA DescentInit == Init => Descent
<1>. SUFFICES ASSUME Init PROVE Descent
    OBVIOUS
<1>1. PICK document \in Documents : snapshots = <<updated(document, 0, NoSnapshot)>>
    BY DEF Init, CompilerInit
<1>2. PICK first : first = updated(document, 0, NoSnapshot) /\ snapshots = <<first>>
    BY <1>1
<1>3. first.source = document /\ first.revision = 0
    BY <1>2, UpdatedIs, NoSnapshotUsable
<1>4. DOMAIN snapshots = {1} /\ snapshots[1] = first
    BY <1>2
<1>. QED
    BY <1>2, <1>3, <1>4 DEF Descent

\* Every step keeps each snapshot the update of the one before it.
LEMMA DescentNext == Lineage /\ Descent /\ [Next]_vars => Descent'
<1>. SUFFICES ASSUME Lineage, Descent, [Next]_vars PROVE Descent'
    OBVIOUS
<1>1. CASE UNCHANGED snapshots
    BY <1>1 DEF Descent
<1>2. ASSUME NEW document \in Documents, Update(document)
      PROVE  Descent'
    <2>1. PICK n \in Nat : Len(snapshots) = n /\ DOMAIN snapshots = 1..n /\ n > 0
        BY DEF Lineage, Snapshots
    <2>2. PICK last, revision : last = snapshots[n] /\ revision = Current.revision + 1
        OBVIOUS
    <2>3. PICK next : next = updated(document, revision, last) /\ snapshots' = Append(snapshots, next)
        BY <1>2, <2>1, <2>2 DEF Update, update_source_with_changes, Current
    <2>4. Usable(last)
        BY <2>1, <2>2 DEF Lineage, SnapshotSound
    <2>5. next.source = document /\ next.revision = revision
        BY <2>3, <2>4, UpdatedIs
    <2>6. /\ DOMAIN snapshots' = 1..(n + 1) /\ snapshots'[n + 1] = next
          /\ \A i \in 1..n : snapshots'[i] = snapshots[i]
        BY <2>1, <2>3, AppendIs DEF Lineage, Snapshots
    <2>7. ASSUME NEW s \in 1..(n + 1)
          PROVE  snapshots'[s] = updated(snapshots'[s].source, snapshots'[s].revision,
                                         IF s = 1 THEN NoSnapshot ELSE snapshots'[s - 1])
        <3>1. CASE s = n + 1
            <4>1. s # 1 /\ s - 1 = n /\ n \in 1..n
                BY <2>1, <3>1
            <4>2. snapshots'[s] = next /\ snapshots'[s - 1] = last
                BY <2>2, <2>6, <3>1, <4>1
            <4>. QED
                BY <2>3, <2>5, <4>1, <4>2
        <3>2. CASE s # n + 1
            <4>1. s \in 1..n /\ (s # 1 => s - 1 \in 1..n)
                BY <3>2
            <4>2. snapshots'[s] = snapshots[s] /\ (s # 1 => snapshots'[s - 1] = snapshots[s - 1])
                BY <2>6, <4>1
            <4>3. snapshots[s] = updated(snapshots[s].source, snapshots[s].revision,
                                         IF s = 1 THEN NoSnapshot ELSE snapshots[s - 1])
                BY <2>1, <4>1 DEF Descent
            <4>. QED
                BY <4>2, <4>3
        <3>. QED
            BY <3>1, <3>2
    <2>. QED
        BY <2>6, <2>7 DEF Descent
<1>. QED
    BY <1>1, <1>2 DEF Next, vars, prepare

\* Every revision has unique handles, if the preceding one had.
LEMMA DescentDistinct ==
    ASSUME RepeatedCellsStandAlone, Lineage, Descent, NEW s \in DOMAIN snapshots
    PROVE  Distinct(snapshots[s].templates)
<1>1. PICK n \in Nat : Len(snapshots) = n /\ DOMAIN snapshots = 1..n
    BY DEF Lineage, Snapshots
<1>. DEFINE T == {k \in 0..n : \A i \in 1..k : Distinct(snapshots[i].templates)}
<1>2. 0 \in T
    OBVIOUS
<1>3. ASSUME NEW k \in T, k < n
      PROVE  k + 1 \in T
    <2>1. k + 1 \in 1..n /\ (k + 1) - 1 = k /\ k \in 0..n
        BY <1>3
    <2>2. PICK i \in 1..n : i = k + 1
        BY <2>1
    <2>3. PICK previous : previous = IF i = 1 THEN NoSnapshot ELSE snapshots[i - 1]
        OBVIOUS
    <2>4. Usable(previous) /\ Distinct(previous.templates)
        <3>1. CASE i = 1
            BY <2>3, <3>1, NoSnapshotUsable, NothingDistinct
        <3>2. CASE i # 1
            <4>1. k \in 1..n /\ k \in 1..k /\ previous = snapshots[k]
                BY <2>1, <2>2, <2>3, <3>2
            <4>2. SnapshotSound(previous)
                BY <1>1, <4>1 DEF Lineage
            <4>. QED
                BY <4>1, <4>2 DEF SnapshotSound
        <3>. QED
            BY <3>1, <3>2
    <2>5. PICK next : next = snapshots[i]
        OBVIOUS
    <2>6. next = updated(next.source, next.revision, previous) /\ next.source \in Documents
        BY <1>1, <2>3, <2>5 DEF Descent, Lineage, SnapshotSound
    <2>7. PICK document, revision : document = next.source /\ revision = next.revision
        OBVIOUS
    <2>8. Distinct(next.templates)
        BY <2>4, <2>6, <2>7, UpdatedDistinct
    <2>9. \A j \in 1..(k + 1) : j \in 1..k \/ j = i
        BY <2>1, <2>2
    <2>. QED
        BY <2>1, <2>2, <2>5, <2>8, <2>9
<1>4. \A k \in 0..n : k \in T
    <2>1. T \in SUBSET Nat
        OBVIOUS
    <2>2. \A k \in T : k < n => k + 1 \in T
        BY <1>3
    <2>. HIDE DEF T
    <2>. QED
        BY <1>2, <2>1, <2>2, Building!UpTo
<1>5. n \in 0..n /\ s \in 1..n
    BY <1>1
<1>6. n \in T
    <2>. HIDE DEF T
    <2>. QED
        BY <1>4, <1>5
<1>. QED
    BY <1>5, <1>6

\* The places of a revision have handles of their own.
LEMMA PlacesDiffer ==
    ASSUME NEW snapshot, SnapshotSound(snapshot), Distinct(snapshot.templates)
    PROVE  /\ \A at, other \in NodePlaces(snapshot) :
                 CellNode(snapshot, at) = CellNode(snapshot, other) => at = other
           /\ \A at, other \in AllCells(snapshot) :
                 CellId(snapshot, at) = CellId(snapshot, other) => at = other
           /\ IsInjective(CellHandles(snapshot))
<1>1. PICK document \in Documents : document = snapshot.source
    BY DEF SnapshotSound
<1>2. PICK templates : /\ templates = snapshot.templates /\ DOMAIN templates = Blocks(document)
                       /\ \A i \in Blocks(document) : Content[templates[i].text] = Block(document, i)
    BY <1>1, BlockIs DEF SnapshotSound
<1>3. UniqueIn(templates, "node") /\ UniqueIn(templates, "cell")
    BY <1>2 DEF Distinct, HandleDomains
<1>4. \A at : at \in AllCells(snapshot) <=>
          \E i \in Blocks(document) : \E j \in DOMAIN Block(document, i).cells : at = <<i, j>>
    BY <1>1, CellsOfIs DEF AllCells
<1>5. ASSUME NEW i, NEW j
      PROVE  /\ CellNode(snapshot, <<i, j>>) = templates[i].handles[NodeSlot(Block(document, i), j)]
             /\ i \in Blocks(document) =>
                    CellId(snapshot, <<i, j>>) = templates[i].handles[CellSlot(Block(document, i), j)]
    BY <1>1, <1>2 DEF CellNode, CellId, CellHandle
<1>6. ASSUME NEW at \in NodePlaces(snapshot)
      PROVE  \E i \in Blocks(document), h \in Nat :
                /\ at = <<i, h>> /\ NodeSlot(Block(document, i), h) \in SlotsOf(Block(document, i), "node")
                /\ h = 0 => NodeSlot(Block(document, i), h) = 1
                /\ h # 0 => NodeSlot(Block(document, i), h) = 2 * h
    <2>1. CASE at \in {<<i, 0>> : i \in Blocks(snapshot.source)}
        <3>1. PICK i \in Blocks(document) : at = <<i, 0>>
            BY <1>1, <2>1
        <3>2. NodeSlot(Block(document, i), 0) = 1
            BY DEF NodeSlot
        <3>3. 1 \in SlotsOf(Block(document, i), "node")
            BY BlockIs, SlotsAre
        <3>. QED
            BY <3>1, <3>2, <3>3
    <2>2. CASE at \in AllCells(snapshot) /\ Block(snapshot.source, at[1]).kind # "cell"
        <3>1. PICK i \in Blocks(document) : \E j \in DOMAIN Block(document, i).cells : at = <<i, j>>
            BY <1>4, <2>2
        <3>0. PICK text \in Texts : Block(document, i) = Content[text]
            BY BlockIs
        <3>2. PICK block : block = Block(document, i) /\ block = Content[text]
            BY <3>0
        <3>3. PICK j \in DOMAIN block.cells : at = <<i, j>>
            BY <3>1, <3>2
        <3>4. j \in Nat /\ j # 0
            BY <3>2, SlotsAre
        <3>5. block.kind # "cell"
            BY <1>1, <2>2, <3>2, <3>3
        <3>6. NodeSlot(block, j) = 2 * j
            BY <3>4, <3>5 DEF NodeSlot
        <3>7. NodeSlot(block, j) \in SlotsOf(block, "node")
            BY <3>2, CellSlots
        <3>. QED
            BY <3>2, <3>3, <3>4, <3>6, <3>7
    <2>. QED
        BY <2>1, <2>2 DEF NodePlaces
<1>7. ASSUME NEW at \in NodePlaces(snapshot), NEW other \in NodePlaces(snapshot),
             CellNode(snapshot, at) = CellNode(snapshot, other)
      PROVE  at = other
    <2>1. PICK i \in Blocks(document), h \in Nat :
                /\ at = <<i, h>> /\ NodeSlot(Block(document, i), h) \in SlotsOf(Block(document, i), "node")
                /\ h = 0 => NodeSlot(Block(document, i), h) = 1
                /\ h # 0 => NodeSlot(Block(document, i), h) = 2 * h
        BY <1>6
    <2>2. PICK l \in Blocks(document), g \in Nat :
                /\ other = <<l, g>> /\ NodeSlot(Block(document, l), g) \in SlotsOf(Block(document, l), "node")
                /\ g = 0 => NodeSlot(Block(document, l), g) = 1
                /\ g # 0 => NodeSlot(Block(document, l), g) = 2 * g
        BY <1>6
    <2>3. PICK k : k = NodeSlot(Block(document, i), h)
        OBVIOUS
    <2>4. PICK m : m = NodeSlot(Block(document, l), g)
        OBVIOUS
    <2>5. templates[i].handles[k] = templates[l].handles[m]
        BY <1>5, <1>7, <2>1, <2>2, <2>3, <2>4
    <2>6. i = l /\ k = m
        BY <1>2, <1>3, <2>1, <2>2, <2>3, <2>4, <2>5 DEF UniqueIn
    <2>7. h = g
        BY <2>1, <2>2, <2>3, <2>4, <2>6
    <2>. QED
        BY <2>1, <2>2, <2>6, <2>7
<1>8. ASSUME NEW at \in AllCells(snapshot), NEW other \in AllCells(snapshot),
             CellId(snapshot, at) = CellId(snapshot, other)
      PROVE  at = other
    <2>1. PICK i \in Blocks(document) : \E j \in DOMAIN Block(document, i).cells : at = <<i, j>>
        BY <1>4
    <2>2. PICK l \in Blocks(document) : \E j \in DOMAIN Block(document, l).cells : other = <<l, j>>
        BY <1>4
    <2>a. PICK text \in Texts : Block(document, i) = Content[text]
        BY BlockIs
    <2>b. PICK text2 \in Texts : Block(document, l) = Content[text2]
        BY BlockIs
    <2>3. PICK block : block = Block(document, i) /\ block = Content[text]
        BY <2>a
    <2>4. PICK block2 : block2 = Block(document, l) /\ block2 = Content[text2]
        BY <2>b
    <2>5. PICK j \in DOMAIN block.cells : at = <<i, j>>
        BY <2>1, <2>3
    <2>6. PICK g \in DOMAIN block2.cells : other = <<l, g>>
        BY <2>2, <2>4
    <2>7. PICK k : k = CellSlot(block, j) /\ k \in SlotsOf(block, "cell")
        BY <2>3, CellSlots
    <2>8. PICK m : m = CellSlot(block2, g) /\ m \in SlotsOf(block2, "cell")
        BY <2>4, CellSlots
    <2>9. templates[i].handles[k] = templates[l].handles[m]
        BY <1>5, <1>8, <2>3, <2>4, <2>5, <2>6, <2>7, <2>8
    <2>10. i = l /\ k = m
        <3>1. k \in SlotsOf(Content[templates[i].text], "cell") /\ m \in SlotsOf(Content[templates[l].text], "cell")
            BY <1>2, <2>3, <2>4, <2>7, <2>8
        <3>2. i \in DOMAIN templates /\ l \in DOMAIN templates
            BY <1>2
        <3>. QED
            BY <1>3, <2>9, <3>1, <3>2 DEF UniqueIn
    <2>11. j = g
        <3>1. block = block2
            BY <2>3, <2>4, <2>10
        <3>2. CellSlot(block, j) = CellSlot(block, g) /\ g \in DOMAIN block.cells
            BY <2>7, <2>8, <2>10, <3>1
        <3>. QED
            BY <2>3, <3>2, SlotsDiffer
    <2>. QED
        BY <2>5, <2>6, <2>10, <2>11
<1>9. IsInjective(CellHandles(snapshot))
    <2>1. PICK cells : cells = CellsOf[snapshot.source]
        OBVIOUS
    <2>2. CellHandles(snapshot) = [n \in DOMAIN cells |-> CellId(snapshot, cells[n])]
        BY <2>1 DEF CellHandles
    <2>3. \A n \in DOMAIN cells : cells[n] \in AllCells(snapshot)
        BY <2>1 DEF AllCells, ToSet
    <2>4. \A n, m \in DOMAIN cells : cells[n] = cells[m] => n = m
        BY <1>1, <2>1, CellsOfIs DEF IsInjective
    <2>. QED
        BY <1>8, <2>2, <2>3, <2>4 DEF IsInjective
<1>. QED
    BY <1>7, <1>8, <1>9

\* Slides have handles of their own, and a label's handle names a slide whose
\* first block has that label.
SlidesApart(snapshot) ==
    /\ LabelsSound(snapshot.templates)
    /\ \A s, r \in DOMAIN snapshot.slides : snapshot.slides[s].id = snapshot.slides[r].id => s = r
    /\ \A s \in DOMAIN snapshot.slides :
          IsLabeled(snapshot.slides[s].id) => HasLabel(snapshot.templates, snapshot.slides[s])

\* Labeled slides are named apart, as their first blocks are labeled apart.
LEMMA OwnSlidesDiffer ==
    ASSUME NEW document \in Documents, NEW templates, LabelsAsAsked(document, templates),
           NEW slides, slides = build_presentation[document],
           NEW s \in DOMAIN slides, NEW r \in DOMAIN slides,
           HasLabel(templates, slides[s]), HasLabel(templates, slides[r]),
           FirstNode(templates, slides[s]) = FirstNode(templates, slides[r])
    PROVE  s = r
<1>1. slides \in Seq(Layouts(document))
    BY PresentationIs
<1>2. ASSUME NEW t \in DOMAIN slides, HasLabel(templates, slides[t])
      PROVE  slides[t].blocks[1] \in Blocks(document)
    <2>1. slides[t] \in Layouts(document)
        BY <1>1
    <2>2. slides[t].blocks \in Seq(Blocks(document)) /\ slides[t].blocks # <<>>
        BY <1>2, <2>1 DEF Layouts, HasLabel
    <2>. QED
        BY <2>2
<1>3. PICK i \in Blocks(document) : i = slides[s].blocks[1]
    BY <1>2
<1>4. PICK l \in Blocks(document) : l = slides[r].blocks[1]
    BY <1>2
<1>5. /\ 1 \in SlotsOf(Block(document, i), "node") /\ 1 \in 1..SlotCount(Block(document, i))
      /\ 1 \in SlotsOf(Block(document, l), "node") /\ 1 \in 1..SlotCount(Block(document, l))
    BY BlockIs, SlotsAre, SMTT(30) DEF HandleDomains
<1>6. PICK handle : handle = templates[i].handles[1] /\ handle = templates[l].handles[1] /\ IsLabeled(handle)
    BY <1>3, <1>4, ZenonT(40) DEF HasLabel, FirstNode, NodeHandle
<1>7. handle = Desired[document][i][1] /\ handle = Desired[document][l][1]
    BY <1>5, <1>6 DEF LabelsAsAsked
<1>8. IsLabeled(Desired[document][i][1]) /\ Desired[document][i][1] = Desired[document][l][1]
    BY <1>6, <1>7
<1>9. PICK domain \in HandleDomains : domain = "node"
    BY DEF HandleDomains
<1>10. 1 \in SlotsOf(Block(document, i), domain) /\ 1 \in SlotsOf(Block(document, l), domain)
    BY <1>5, <1>9
<1>11. i = l
    BY <1>8, <1>10, LabelOwner
<1>. QED
    BY <1>3, <1>4, <1>11, PresentationIs DEF HasLabel

\* The slides of a revision are as far apart as those of the preceding one.
LEMMA LaidApart ==
    ASSUME NEW document \in Documents, NEW templates, LabelsAsAsked(document, templates),
           NEW previous, Usable(previous), SlidesApart(previous),
           NEW pick, NEW count, NEW laid, Laid(document, templates, previous, pick, count, laid)
    PROVE  /\ \A s, r \in DOMAIN laid.slides : laid.slides[s].id = laid.slides[r].id => s = r
           /\ \A s \in DOMAIN laid.slides :
                 IsLabeled(laid.slides[s].id) => HasLabel(templates, laid.slides[s])
<1>1. PICK slides : slides = build_presentation[document]
    OBVIOUS
<1>. DEFINE Own(s) == HasLabel(templates, slides[s])
            New(s) == ~ HasLabel(templates, slides[s]) /\ pick[s] = 0
            Kept(s) == ~ HasLabel(templates, slides[s]) /\ pick[s] # 0
<1>2. DOMAIN laid.slides = DOMAIN slides
    BY <1>1 DEF Laid
<1>3. ASSUME NEW s \in DOMAIN slides, Own(s)
      PROVE  laid.slides[s].id = FirstNode(templates, slides[s]) /\ IsLabeled(laid.slides[s].id)
    BY <1>1, <1>3 DEF Laid, HasLabel
<1>4. ASSUME NEW s \in DOMAIN slides, New(s)
      PROVE  /\ count[s] \in Nat /\ previous.next_slide <= count[s]
             /\ laid.slides[s].id = Anonymous(count[s]) /\ ~ IsLabeled(laid.slides[s].id)
    BY <1>1, <1>4 DEF Laid, Anonymous, IsLabeled
<1>5. ASSUME NEW s \in DOMAIN slides, Kept(s)
      PROVE  /\ pick[s] \in DOMAIN previous.slides
             /\ laid.slides[s].id = previous.slides[pick[s]].id /\ ~ IsLabeled(laid.slides[s].id)
    <2>1. /\ pick[s] \in DOMAIN previous.slides
          /\ SameSlide(templates, slides[s], previous, previous.slides[pick[s]])
          /\ laid.slides[s].id = previous.slides[pick[s]].id
        BY <1>1, <1>5 DEF Laid
    <2>2. IsLabeled(laid.slides[s].id) => HasLabel(previous.templates, previous.slides[pick[s]])
        BY <2>1 DEF SlidesApart
    <2>. QED
        BY <1>5, <2>1, <2>2 DEF HasLabel, SameSlide
<1>6. ASSUME NEW s \in DOMAIN slides, NEW r \in DOMAIN slides, New(s), Kept(r)
      PROVE  laid.slides[s].id # laid.slides[r].id
    <2>1. PICK c \in Nat : c = count[s] /\ previous.next_slide <= c /\ laid.slides[s].id = Anonymous(c)
        BY <1>4, <1>6
    <2>2. PICK o \in DOMAIN previous.slides :
              laid.slides[r].id = previous.slides[o].id /\ ~ IsLabeled(laid.slides[r].id)
        BY <1>5, <1>6
    <2>3. HandedOut(laid.slides[r].id, previous.next_slide) /\ previous.next_slide \in Nat
        BY <2>2 DEF Usable
    <2>4. \A label \in STRING : IsLabeled(Labeled(label))
        BY DocumentAssumption DEF IsLabeled, Labeled
    <2>5. PICK d \in Nat : d < previous.next_slide /\ laid.slides[r].id = Anonymous(d)
        BY <2>2, <2>3, <2>4 DEF HandedOut
    <2>6. c # d
        BY <2>1, <2>3, <2>5
    <2>. QED
        BY <2>1, <2>5, <2>6 DEF Anonymous
<1>7. ASSUME NEW s \in DOMAIN slides, NEW r \in DOMAIN slides, s # r
      PROVE  laid.slides[s].id # laid.slides[r].id
    <2>1. CASE Own(s) /\ Own(r)
        BY <1>1, <1>3, <1>7, <2>1, OwnSlidesDiffer
    <2>2. CASE Own(s) /\ ~ Own(r)
        BY <1>3, <1>4, <1>5, <2>2
    <2>3. CASE ~ Own(s) /\ Own(r)
        BY <1>3, <1>4, <1>5, <2>3
    <2>4. CASE New(s) /\ New(r)
        <3>1. count[s] # count[r]
            BY <1>1, <1>7, <2>4 DEF Laid
        <3>. QED
            BY <1>4, <2>4, <3>1 DEF Anonymous
    <2>5. CASE Kept(s) /\ Kept(r)
        <3>1. pick[s] # pick[r]
            BY <1>1, <1>7, <2>5 DEF Laid
        <3>. QED
            BY <1>5, <2>5, <3>1 DEF SlidesApart
    <2>6. CASE New(s) /\ Kept(r)
        BY <1>6, <2>6
    <2>7. CASE Kept(s) /\ New(r)
        BY <1>6, <2>7
    <2>. QED
        BY <2>1, <2>2, <2>3, <2>4, <2>5, <2>6, <2>7
<1>8. ASSUME NEW s \in DOMAIN slides, IsLabeled(laid.slides[s].id)
      PROVE  HasLabel(templates, laid.slides[s])
    <2>1. Own(s)
        BY <1>4, <1>5, <1>8
    <2>2. laid.slides[s].title = slides[s].title /\ laid.slides[s].blocks = slides[s].blocks
        BY <1>1 DEF Laid
    <2>. QED
        BY <2>1, <2>2 DEF HasLabel, IsTitle, FirstNode
<1>. QED
    BY <1>2, <1>7, <1>8

\* An update of slides named apart has its slides named apart.
LEMMA UpdatedSlides ==
    ASSUME NEW document \in Documents, NEW revision, NEW previous, Usable(previous),
           SlidesApart(previous),
           NEW next, next = updated(document, revision, previous)
    PROVE  SlidesApart(next)
<1>1. LabelsAsAsked(document, next.templates) /\ LabelsSound(next.templates)
    BY UpdatedLabels DEF SlidesApart
<1>2. PICK laid : laid = IdentifySlides(document, next.templates, previous) /\ next.slides = laid.slides
    <2>1. PICK nodes : nodes = semantic_nodes(document, previous.templates, previous.next_id, revision)
        OBVIOUS
    <2>2. PICK laid : laid = IdentifySlides(document, nodes.templates, previous)
        OBVIOUS
    <2>3. next = [source |-> document, revision |-> revision,
                  templates |-> nodes.templates, slides |-> laid.slides,
                  next_id |-> nodes.next, next_slide |-> laid.next_slide]
        BY <2>1, <2>2, Zenon DEF updated, Snapshot
    <2>4. next.templates = nodes.templates /\ next.slides = laid.slides
        BY <2>3
    <2>. QED
        BY <2>2, <2>4
<1>3. PICK templates : templates = next.templates
    OBVIOUS
<1>4. PICK k \in Nat : DOMAIN previous.slides = 1..k
    BY DEF Usable
<1>5. previous.next_slide \in Nat
    BY DEF Usable
<1>6. PICK pick, count : Laid(document, templates, previous, pick, count, laid)
    BY <1>2, <1>3, <1>4, <1>5, LaidIs
<1>. QED
    BY <1>1, <1>2, <1>3, <1>6, LaidApart DEF SlidesApart

\* The slides of every revision, for any document.
AllSlidesApart == \A s \in DOMAIN snapshots : SlidesApart(snapshots[s])

\* The slides of the first revision are named apart.
LEMMA SlidesApartInit == Init => AllSlidesApart
<1>. SUFFICES ASSUME Init PROVE AllSlidesApart
    OBVIOUS
<1>1. PICK document \in Documents : snapshots = <<updated(document, 0, NoSnapshot)>>
    BY DEF Init, CompilerInit
<1>2. SlidesApart(NoSnapshot)
    <2>1. DOMAIN NoSnapshot.slides = {}
        BY DEF NoSnapshot
    <2>. QED
        BY <2>1, NothingDistinct DEF SlidesApart, Distinct
<1>3. PICK first : first = updated(document, 0, NoSnapshot) /\ snapshots = <<first>>
    BY <1>1
<1>4. SlidesApart(first)
    BY <1>2, <1>3, UpdatedSlides, NoSnapshotUsable
<1>5. DOMAIN snapshots = {1} /\ snapshots[1] = first
    BY <1>3
<1>. QED
    BY <1>4, <1>5 DEF AllSlidesApart

\* Every step keeps the slides of each revision named apart.
LEMMA SlidesApartNext == Lineage /\ AllSlidesApart /\ [Next]_vars => AllSlidesApart'
<1>. SUFFICES ASSUME Lineage, AllSlidesApart, [Next]_vars PROVE AllSlidesApart'
    OBVIOUS
<1>1. CASE UNCHANGED snapshots
    BY <1>1 DEF AllSlidesApart
<1>2. ASSUME NEW document \in Documents, Update(document)
      PROVE  AllSlidesApart'
    <2>1. PICK n \in Nat : Len(snapshots) = n /\ DOMAIN snapshots = 1..n /\ n > 0
        BY DEF Lineage, Snapshots
    <2>2. PICK last, revision : last = snapshots[n] /\ revision = Current.revision + 1
        OBVIOUS
    <2>3. PICK next : next = updated(document, revision, last) /\ snapshots' = Append(snapshots, next)
        BY <1>2, <2>1, <2>2 DEF Update, update_source_with_changes, Current
    <2>4. Usable(last) /\ SlidesApart(last)
        BY <2>1, <2>2 DEF Lineage, SnapshotSound, AllSlidesApart
    <2>5. SlidesApart(next)
        BY <2>3, <2>4, UpdatedSlides
    <2>6. /\ DOMAIN snapshots' = 1..(n + 1) /\ snapshots'[n + 1] = next
          /\ \A i \in 1..n : snapshots'[i] = snapshots[i]
        BY <2>1, <2>3, AppendIs DEF Lineage, Snapshots
    <2>7. \A s \in 1..(n + 1) : s \in 1..n \/ s = n + 1
        BY <2>1
    <2>8. \A s \in 1..n : SlidesApart(snapshots[s])
        BY <2>1 DEF AllSlidesApart
    <2>9. \A s \in DOMAIN snapshots' : SlidesApart(snapshots'[s])
        BY <2>5, <2>6, <2>7, <2>8, Zenon
    <2>. QED
        BY <2>9, Zenon DEF AllSlidesApart
<1>. QED
    BY <1>1, <1>2 DEF Next, vars, prepare

\* In every revision no two slides have one handle, whatever the document.
THEOREM SlidesUnique == Spec => []IsInjective(SlideIds(Current))
<1>1. Lineage /\ AllSlidesApart => IsInjective(SlideIds(Current))
    <2>. SUFFICES ASSUME Lineage, AllSlidesApart PROVE IsInjective(SlideIds(Current))
        OBVIOUS
    <2>1. SlidesApart(Current)
        BY DEF Lineage, Snapshots, AllSlidesApart, Current
    <2>. QED
        BY <2>1 DEF SlidesApart, SlideIds, IsInjective
<1>. QED
    BY <1>1, LineageInit, LineageNext, SlidesApartInit, SlidesApartNext, PTL DEF Spec

\* In every revision no two blocks or nested cells have one node handle, no two
\* cells one cell handle and no two slides one slide handle, if cells of one
\* text in a document are the only cells of blocks that repeat one text.
THEOREM HandlesUnique ==
    ASSUME RepeatedCellsStandAlone
    PROVE  Spec => []HandlesAreUnique
<1>1. Lineage /\ Descent /\ AllSlidesApart => HandlesAreUnique
    <2>. SUFFICES ASSUME Lineage, Descent, AllSlidesApart PROVE HandlesAreUnique
        OBVIOUS
    <2>1. PICK n \in DOMAIN snapshots : n = Len(snapshots)
        BY DEF Lineage, Snapshots
    <2>2. SlidesApart(snapshots[n]) /\ SnapshotSound(snapshots[n]) /\ Current = snapshots[n]
        BY <2>1 DEF Lineage, AllSlidesApart, Current
    <2>3. Distinct(snapshots[n].templates)
        BY DescentDistinct
    <2>4. PICK snapshot : snapshot = Current /\ SlidesApart(snapshot) /\ SnapshotSound(snapshot)
                          /\ Distinct(snapshot.templates)
        BY <2>2, <2>3
    <2>5. /\ \A at, other \in NodePlaces(snapshot) :
                 CellNode(snapshot, at) = CellNode(snapshot, other) => at = other
          /\ IsInjective(CellHandles(snapshot))
        BY <2>4, PlacesDiffer
    <2>6. IsInjective(SlideIds(snapshot))
        BY <2>4 DEF SlidesApart, SlideIds, IsInjective
    <2>. QED
        BY <2>4, <2>5, <2>6, Zenon DEF HandlesAreUnique
<1>. QED
    BY <1>1, LineageInit, LineageNext, DescentInit, DescentNext, SlidesApartInit, SlidesApartNext,
       PTL DEF Spec

(***************************************************************************)
(* Links of a plan.                                                        *)
(***************************************************************************)
SessionInvariant(a, b, c, d, e, entries, n, options) ==
    "session" \in DOMAIN options /\ \E kind, name : options.session = <<kind, name>>

Choosing == INSTANCE SequenceFolds WITH Step <- EvaluationStep, Invariant <- SessionInvariant

\* The options of a cell choose its session, by kind and name.
LEMMA SessionIs ==
    ASSUME NEW document \in Documents, NEW at \in ToSet(CellsOf[document])
    PROVE  \E kind, name : EvaluationOptions[document][at].session = <<kind, name>>
<1>. DEFINE planned == [eval |-> TRUE, session |-> DefaultSession]
<1>1. PICK entries \in Seq(OptionEntry) : entries = CellEntries(document, at)
    BY CellEntriesAre
<1>2. EvaluationOptions[document][at] = Choosing!Fold({}, {}, {}, {}, {}, planned, entries)
    BY <1>1, Zenon DEF EvaluationOptions, FoldLeft, MapThenFoldSet, Choosing!Fold, Choosing!IsFold,
                       Choosing!Greatest, EvaluationStep, Max
<1>3. PICK n \in Nat : DOMAIN entries = 1..n
    BY <1>1
<1>4. SessionInvariant({}, {}, {}, {}, {}, entries, 0, planned)
    <2>1. \E kind, name : DefaultSession = <<kind, name>>
        BY DEF DefaultSession
    <2>. HIDE DEF DefaultSession
    <2>. QED
        BY <2>1 DEF SessionInvariant
<1>5. ASSUME NEW i \in 1..n, NEW made, SessionInvariant({}, {}, {}, {}, {}, entries, i - 1, made)
      PROVE  SessionInvariant({}, {}, {}, {}, {}, entries, i,
                              EvaluationStep({}, {}, {}, {}, {}, made, entries[i]))
    <2>1. PICK entry : entry = entries[i]
        BY <1>1, <1>3
    <2>2. \E kind, name : session(entry) = <<kind, name>>
        BY Zenon DEF session
    <2>3. \/ EvaluationApply(made, entry) = [made EXCEPT !.eval = entry.text = "true"]
          \/ EvaluationApply(made, entry) = [made EXCEPT !.session = session(entry)]
          \/ EvaluationApply(made, entry) = made
        BY DEF EvaluationApply
    <2>. QED
        BY <1>5, <2>1, <2>2, <2>3 DEF SessionInvariant, EvaluationStep
<1>. DEFINE options == Choosing!Fold({}, {}, {}, {}, {}, planned, entries)
<1>6. SessionInvariant({}, {}, {}, {}, {}, entries, n, options)
    <2>. HIDE DEF planned
    <2>. QED
        BY <1>3, <1>4, <1>5, Choosing!FoldInvariant
<1>. HIDE DEF options
<1>. QED
    BY <1>2, <1>6 DEF SessionInvariant, options

Chain(cells, n) == <<cells[n].language, cells[n].session>>

\* Cells m < n of one chain that keeps state.
Chained(cells, m, n) ==
    m < n /\ cells[n].session # IsolatedSession /\ Chain(cells, m) = Chain(cells, n)

\* What a cell is linked to, and the map after it.
NextLink(cells, n, last) ==
    IF cells[n].session # IsolatedSession /\ Chain(cells, n) \in DOMAIN last
    THEN last[Chain(cells, n)] ELSE None

NextLast(cells, n, last) ==
    IF cells[n].session = IsolatedSession THEN last
    ELSE [key \in DOMAIN last \cup {Chain(cells, n)} |->
             IF key = Chain(cells, n) THEN cells[n].cell_id ELSE last[key]]

LinkStep(cells, b, c, d, e, made, n) ==
    [last |-> NextLast(cells, n, made.last),
     links |-> Append(made.links, NextLink(cells, n, made.last))]

\* A cell is linked to the last one before it in its chain.
LinkedTo(cells, n, link) ==
    \/ link = None /\ \A m \in 1..(n - 1) : ~ Chained(cells, m, n)
    \/ \E m \in 1..(n - 1) : /\ Chained(cells, m, n) /\ link = cells[m].cell_id
                             /\ \A l \in 1..(n - 1) : Chained(cells, l, n) => l <= m

\* The map has the last cell of every chain among the first n cells.
LastOf(cells, n, last) ==
    /\ \A m \in 1..n : cells[m].session # IsolatedSession => Chain(cells, m) \in DOMAIN last
    /\ \A key \in DOMAIN last :
          \E m \in 1..n : /\ cells[m].session # IsolatedSession /\ Chain(cells, m) = key
                          /\ last[key] = cells[m].cell_id
                          /\ \A l \in 1..n : Chain(cells, l) = key => l <= m

LinkInvariant(cells, b, c, d, e, seq, n, made) ==
    /\ made.links \in Seq(Range(made.links)) /\ Len(made.links) = n
    /\ \A m \in 1..n : LinkedTo(cells, m, made.links[m])
    /\ LastOf(cells, n, made.last)

Linking == INSTANCE SequenceFolds WITH Step <- LinkStep, Invariant <- LinkInvariant

\* One turn of the loop over the planned cells links a cell to the last one of its chain.
LEMMA LinkNext ==
    ASSUME NEW cells, NEW n \in Nat, NEW last, LastOf(cells, n, last), NEW i, i = n + 1
    PROVE  LinkedTo(cells, i, NextLink(cells, i, last)) /\ LastOf(cells, i, NextLast(cells, i, last))
<1>1. /\ i - 1 = n /\ i \in 1..i /\ i \in Nat
      /\ \A m \in 1..i : m \in 1..n \/ m = i
      /\ \A m \in 1..n : m \in 1..i /\ m < i /\ m <= i
    OBVIOUS
<1>2. PICK chain : chain = Chain(cells, i)
    OBVIOUS
<1>3. /\ \A m \in 1..n : cells[m].session # IsolatedSession => Chain(cells, m) \in DOMAIN last
      /\ \A key \in DOMAIN last :
          \E m \in 1..n : /\ cells[m].session # IsolatedSession /\ Chain(cells, m) = key
                          /\ last[key] = cells[m].cell_id
                          /\ \A l \in 1..n : Chain(cells, l) = key => l <= m
    BY DEF LastOf
<1>4. \A m, l : Chain(cells, m) = Chain(cells, l) => cells[m].session = cells[l].session
    BY DEF Chain
<1>5. CASE cells[i].session = IsolatedSession
    <2>1. \A m \in 1..n : ~ Chained(cells, m, i)
        BY <1>5 DEF Chained
    <2>2. LastOf(cells, i, last)
        <3>1. \A m \in 1..i : cells[m].session # IsolatedSession => Chain(cells, m) \in DOMAIN last
            BY <1>1, <1>3, <1>5
        <3>2. ASSUME NEW key \in DOMAIN last
              PROVE  \E m \in 1..i : /\ cells[m].session # IsolatedSession /\ Chain(cells, m) = key
                                     /\ last[key] = cells[m].cell_id
                                     /\ \A l \in 1..i : Chain(cells, l) = key => l <= m
            <4>1. PICK m \in 1..n : /\ cells[m].session # IsolatedSession /\ Chain(cells, m) = key
                                    /\ last[key] = cells[m].cell_id
                                    /\ \A l \in 1..n : Chain(cells, l) = key => l <= m
                BY <1>3
            <4>2. Chain(cells, i) # key
                BY <1>4, <1>5, <4>1
            <4>3. \A l \in 1..i : Chain(cells, l) = key => l <= m
                BY <1>1, <4>1, <4>2
            <4>. QED
                BY <1>1, <4>1, <4>3
        <3>. QED
            BY <3>1, <3>2 DEF LastOf
    <2>. QED
        BY <1>1, <1>5, <2>1, <2>2 DEF LinkedTo, NextLink, NextLast
<1>6. CASE cells[i].session # IsolatedSession
    <2>1. PICK later : later = [key \in DOMAIN last \cup {chain} |->
                                   IF key = chain THEN cells[i].cell_id ELSE last[key]]
        OBVIOUS
    <2>2. \A m \in 1..n : Chained(cells, m, i) <=> Chain(cells, m) = chain
        BY <1>1, <1>2, <1>6 DEF Chained
    <2>3. LinkedTo(cells, i, IF chain \in DOMAIN last THEN last[chain] ELSE None)
        <3>1. CASE chain \in DOMAIN last
            <4>1. PICK m \in 1..n : /\ Chain(cells, m) = chain /\ last[chain] = cells[m].cell_id
                                    /\ \A l \in 1..n : Chain(cells, l) = chain => l <= m
                BY <1>3, <3>1
            <4>. QED
                BY <1>1, <2>2, <3>1, <4>1 DEF LinkedTo
        <3>2. CASE chain \notin DOMAIN last
            <4>1. \A m \in 1..n : Chain(cells, m) # chain
                BY <1>2, <1>3, <1>4, <1>6, <3>2
            <4>. QED
                BY <1>1, <2>2, <3>2, <4>1 DEF LinkedTo
        <3>. QED
            BY <3>1, <3>2
    <2>4. LastOf(cells, i, later)
        <3>1. \A m \in 1..i : cells[m].session # IsolatedSession => Chain(cells, m) \in DOMAIN later
            BY <1>1, <1>2, <1>3, <2>1
        <3>2. ASSUME NEW key \in DOMAIN later
              PROVE  \E m \in 1..i : /\ cells[m].session # IsolatedSession /\ Chain(cells, m) = key
                                     /\ later[key] = cells[m].cell_id
                                     /\ \A l \in 1..i : Chain(cells, l) = key => l <= m
            <4>1. CASE key = chain
                <5>1. \A l \in 1..i : Chain(cells, l) = key => l <= i
                    BY <1>1
                <5>2. later[key] = cells[i].cell_id
                    BY <2>1, <4>1
                <5>. QED
                    BY <1>1, <1>2, <1>6, <4>1, <5>1, <5>2
            <4>2. CASE key # chain
                <5>1. key \in DOMAIN last /\ later[key] = last[key]
                    BY <2>1, <4>2
                <5>2. PICK m \in 1..n : /\ cells[m].session # IsolatedSession /\ Chain(cells, m) = key
                                        /\ last[key] = cells[m].cell_id
                                        /\ \A l \in 1..n : Chain(cells, l) = key => l <= m
                    BY <1>3, <5>1
                <5>3. \A l \in 1..i : Chain(cells, l) = key => l <= m
                    BY <1>1, <1>2, <4>2, <5>2
                <5>. QED
                    BY <1>1, <5>1, <5>2, <5>3
            <4>. QED
                BY <4>1, <4>2
        <3>. QED
            BY <3>1, <3>2 DEF LastOf
    <2>. QED
        BY <1>2, <1>6, <2>1, <2>3, <2>4 DEF NextLink, NextLast
<1>. QED
    BY <1>5, <1>6

\* Every planned cell is linked to the last cell before it in its chain.
LEMMA LinkedIs ==
    ASSUME NEW cells, NEW n \in Nat, DOMAIN cells = 1..n
    PROVE  \E links : /\ linked(cells) = [m \in DOMAIN cells |-> Linked(cells[m], links[m])]
                      /\ \A m \in 1..n : LinkedTo(cells, m, links[m])
<1>. DEFINE base == [last |-> <<>>, links |-> <<>>]
            seq == [i \in DOMAIN cells |-> i]
            made == Linking!Fold(cells, {}, {}, {}, {}, base, seq)
<1>1. linked(cells) = [m \in DOMAIN cells |-> Linked(cells[m], made.links[m])]
    BY Zenon DEF linked, FoldLeftDomain, FoldLeft, MapThenFoldSet, Max, Linking!Fold, Linking!IsFold,
                 Linking!Greatest, LinkStep, NextLink, NextLast, Chain
<1>2. LinkInvariant(cells, {}, {}, {}, {}, seq, 0, base)
    <2>1. DOMAIN <<>> = {} /\ <<>> \in Seq(Range(<<>>)) /\ Len(<<>>) = 0 /\ 1..0 = {}
        BY SmallSequences
    <2>2. LastOf(cells, 0, <<>>)
        BY <2>1 DEF LastOf
    <2>3. base.last = <<>> /\ base.links = <<>>
        OBVIOUS
    <2>. HIDE DEF base
    <2>. QED
        BY <2>1, <2>2, <2>3 DEF LinkInvariant
<1>3. ASSUME NEW i \in 1..n, NEW was, LinkInvariant(cells, {}, {}, {}, {}, seq, i - 1, was)
      PROVE  LinkInvariant(cells, {}, {}, {}, {}, seq, i, LinkStep(cells, {}, {}, {}, {}, was, seq[i]))
    <2>1. PICK k \in Nat : k = i - 1 /\ i = k + 1 /\ seq[i] = i
        OBVIOUS
    <2>. HIDE DEF seq
    <2>2. PICK links, last : links = was.links /\ last = was.last
        OBVIOUS
    <2>3. /\ links \in Seq(Range(links)) /\ Len(links) = k
          /\ \A m \in 1..k : LinkedTo(cells, m, links[m])
          /\ LastOf(cells, k, last)
        BY <1>3, <2>1, <2>2 DEF LinkInvariant
    <2>4. PICK link, later : link = NextLink(cells, i, last) /\ later = NextLast(cells, i, last)
        OBVIOUS
    <2>5. LinkedTo(cells, i, link) /\ LastOf(cells, i, later)
        BY <2>1, <2>3, <2>4, LinkNext
    <2>6. LinkStep(cells, {}, {}, {}, {}, was, i) = [last |-> later, links |-> Append(links, link)]
        BY <2>2, <2>4, Zenon DEF LinkStep
    <2>7. PICK longer : longer = Append(links, link)
        OBVIOUS
    <2>8. /\ longer \in Seq(Range(longer)) /\ Len(longer) = i
          /\ longer[i] = link /\ \A m \in 1..k : longer[m] = links[m]
        BY <2>1, <2>3, <2>7, AppendIs
    <2>9. \A m \in 1..i : m \in 1..k \/ m = i
        BY <2>1
    <2>10. \A m \in 1..i : LinkedTo(cells, m, longer[m])
        BY <2>3, <2>5, <2>8, <2>9
    <2>11. PICK step : step = LinkStep(cells, {}, {}, {}, {}, was, i) /\ step.links = longer /\ step.last = later
        BY <2>6, <2>7
    <2>. QED
        BY <2>1, <2>5, <2>8, <2>10, <2>11 DEF LinkInvariant
<1>4. LinkInvariant(cells, {}, {}, {}, {}, seq, n, made)
    <2>1. DOMAIN seq = 1..n
        OBVIOUS
    <2>. HIDE DEF base, seq
    <2>. QED
        BY <1>2, <1>3, <2>1, Linking!FoldInvariant
<1>. HIDE DEF made
<1>. QED
    BY <1>1, <1>4 DEF LinkInvariant

-----------------------------------------------------------------------------
\* The chain of a cell as the schedule knows it.
ChainOf(cell) ==
    IF cell.session = IsolatedSession THEN cell.session
    ELSE <<cell.language, cell.session[1], cell.session[2]>>

\* Sessions are by kind and name.
Paired(cell) == \E kind, name : cell.session = <<kind, name>>

\* Two cells share a chain exactly when they share language and a session that is not isolated.
LEMMA ChainOfIs ==
    ASSUME NEW a, NEW b, Paired(a), Paired(b)
    PROVE  /\ ChainOf(b) = IsolatedSession <=> b.session = IsolatedSession
           /\ b.session # IsolatedSession =>
                (ChainOf(a) = ChainOf(b) <=> <<a.language, a.session>> = <<b.language, b.session>>)
<1>1. \A x, y, z, v, w : <<x, y, z>> # <<v, w>>
    <2>. SUFFICES ASSUME NEW x, NEW y, NEW z, NEW v, NEW w PROVE <<x, y, z>> # <<v, w>>
        OBVIOUS
    <2>1. Len(<<x, y, z>>) = 3 /\ Len(<<v, w>>) = 2
        OBVIOUS
    <2>. QED
        BY <2>1
<1>2. PICK ka, na : a.session = <<ka, na>>
    BY DEF Paired
<1>3. PICK kb, nb : b.session = <<kb, nb>>
    BY DEF Paired
<1>4. PICK isolated : isolated = IsolatedSession
    OBVIOUS
<1>5. \E v, w : isolated = <<v, w>>
    BY <1>4 DEF IsolatedSession
<1>6. /\ a.session # isolated => ChainOf(a) = <<a.language, ka, na>>
      /\ a.session = isolated => ChainOf(a) = <<ka, na>>
      /\ b.session # isolated => ChainOf(b) = <<b.language, kb, nb>>
      /\ b.session = isolated => ChainOf(b) = <<kb, nb>>
    BY <1>2, <1>3, <1>4 DEF ChainOf
<1>7. ChainOf(b) = isolated <=> b.session = isolated
    BY <1>1, <1>3, <1>5, <1>6
<1>8. ASSUME b.session # isolated
      PROVE  ChainOf(a) = ChainOf(b) <=> <<a.language, a.session>> = <<b.language, b.session>>
    <2>1. CASE a.session = isolated
        BY <1>1, <1>6, <1>8, <2>1
    <2>2. CASE a.session # isolated
        BY <1>2, <1>3, <1>6, <1>8, <2>2
    <2>. QED
        BY <2>1, <2>2
<1>. QED
    BY <1>4, <1>7, <1>8

\* A plan the schedule accepts.
Schedulable(cells) ==
    /\ P!WellFormed(Resolved(cells))
    /\ \A n \in DOMAIN cells :
          cells[n].predecessor = P!Predecessor(Resolved(cells), cells[n].cell_id)

\* Resolving sessions keeps the cells and their order, and replaces each session by its chain.
LEMMA ResolvedIs ==
    ASSUME NEW cells
    PROVE  /\ DOMAIN Resolved(cells) = DOMAIN cells
           /\ \A n \in DOMAIN cells :
                 /\ Resolved(cells)[n].cell_id = cells[n].cell_id
                 /\ Resolved(cells)[n].environment = None
                 /\ Resolved(cells)[n].session = ChainOf(cells[n])
    BY DEF Resolved, ChainOf

\* Links to the last cell before in a chain are links the schedule finds again.
LEMMA LinksSchedule ==
    ASSUME NEW cells, NEW links, NEW k \in Nat, DOMAIN cells = 1..k,
           \A n \in 1..k : Paired(cells[n]) /\ LinkedTo(cells, n, links[n]),
           \A m, n \in 1..k : cells[m].cell_id = cells[n].cell_id => m = n
    PROVE  Schedulable([n \in DOMAIN cells |-> Linked(cells[n], links[n])])
<1>1. PICK made : made = [n \in DOMAIN cells |-> Linked(cells[n], links[n])]
    OBVIOUS
<1>2. DOMAIN made = 1..k /\ \A n \in 1..k : made[n] = Linked(cells[n], links[n])
    BY <1>1
<1>3. \A n \in 1..k : /\ made[n].cell_id = cells[n].cell_id /\ made[n].predecessor = links[n]
                      /\ made[n].session = cells[n].session /\ made[n].language = cells[n].language
    BY <1>2 DEF Linked
<1>4. PICK resolved : resolved = Resolved(made)
    OBVIOUS
<1>5. /\ DOMAIN resolved = 1..k
      /\ \A n \in 1..k : /\ resolved[n].cell_id = cells[n].cell_id /\ resolved[n].environment = None
                         /\ resolved[n].session = ChainOf(made[n])
    BY <1>2, <1>3, <1>4, ResolvedIs
<1>6. \A n \in 1..k : Paired(made[n])
    BY <1>3 DEF Paired
<1>7. \A m, n \in 1..k : P!Precedes(resolved, m, n) <=> Chained(cells, m, n)
    <2>. SUFFICES ASSUME NEW m \in 1..k, NEW n \in 1..k
                  PROVE  P!Precedes(resolved, m, n) <=> Chained(cells, m, n)
        OBVIOUS
    <2>1. /\ ChainOf(made[n]) = IsolatedSession <=> made[n].session = IsolatedSession
          /\ made[n].session # IsolatedSession =>
                (ChainOf(made[m]) = ChainOf(made[n]) <=>
                    <<made[m].language, made[m].session>> = <<made[n].language, made[n].session>>)
        BY <1>6, ChainOfIs
    <2>2. /\ ChainOf(made[n]) = IsolatedSession <=> cells[n].session = IsolatedSession
          /\ cells[n].session # IsolatedSession =>
                (ChainOf(made[m]) = ChainOf(made[n]) <=> Chain(cells, m) = Chain(cells, n))
        BY <1>3, <2>1 DEF Chain
    <2>3. P!Precedes(resolved, m, n) <=>
              /\ m < n /\ ChainOf(made[n]) # IsolatedSession
              /\ ChainOf(made[m]) = ChainOf(made[n])
        BY <1>5 DEF P!Precedes, P!IsIsolated
    <2>. QED
        BY <2>2, <2>3 DEF Chained
<1>8. P!WellFormed(resolved)
    BY <1>5 DEF P!WellFormed
<1>9. ASSUME NEW n \in 1..k
      PROVE  links[n] = P!Predecessor(resolved, made[n].cell_id)
    <2>1. PICK id : id = made[n].cell_id
        OBVIOUS
    <2>2. \A i \in 1..k : resolved[i].cell_id = id <=> i = n
        BY <1>3, <1>5, <2>1
    <2>3. P!IndexOf(resolved, id) = n
        BY <1>5, <2>2 DEF P!IndexOf
    <2>4. PICK before : before = P!Before(resolved, n)
        OBVIOUS
    <2>5. before = {m \in 1..k : Chained(cells, m, n)}
        BY <1>5, <1>7, <2>4 DEF P!Before
    <2>6. P!Predecessor(resolved, id) =
              IF before = {} THEN None
              ELSE resolved[CHOOSE m \in before : \A l \in before : l <= m].cell_id
        BY <2>3, <2>4 DEF P!Predecessor
    <2>7. n \in Nat /\ \A m \in 1..k : m \in Nat /\ (m < n <=> m \in 1..(n - 1))
        OBVIOUS
    <2>8. before = {m \in 1..(n - 1) : Chained(cells, m, n)}
        <3>1. \A m \in 1..(n - 1) : m \in 1..k
            OBVIOUS
        <3>2. \A m : m \in 1..k /\ Chained(cells, m, n) => m \in 1..(n - 1)
            BY <2>7 DEF Chained
        <3>. QED
            BY <2>5, <3>1, <3>2
    <2>9. LinkedTo(cells, n, links[n])
        OBVIOUS
    <2>10. CASE links[n] = None /\ \A m \in 1..(n - 1) : ~ Chained(cells, m, n)
        BY <2>1, <2>6, <2>8, <2>10
    <2>11. CASE \E m \in 1..(n - 1) : /\ Chained(cells, m, n) /\ links[n] = cells[m].cell_id
                                      /\ \A l \in 1..(n - 1) : Chained(cells, l, n) => l <= m
        <3>1. PICK m \in 1..(n - 1) : /\ Chained(cells, m, n) /\ links[n] = cells[m].cell_id
                                      /\ \A l \in 1..(n - 1) : Chained(cells, l, n) => l <= m
            BY <2>11
        <3>2. m \in before /\ \A l \in before : l <= m /\ l \in Nat
            BY <2>8, <3>1
        <3>3. m \in 1..k /\ m \in Nat
            BY <2>5, <3>2
        <3>4. \A x \in before : (\A l \in before : l <= x) => x = m
            BY <3>2, <3>3
        <3>5. (CHOOSE x \in before : \A l \in before : l <= x) = m
            BY <3>2, <3>4
        <3>. QED
            BY <1>5, <2>1, <2>6, <3>1, <3>2, <3>3, <3>5
    <2>. QED
        BY <2>9, <2>10, <2>11 DEF LinkedTo
<1>10. \A n \in DOMAIN made : made[n].predecessor = P!Predecessor(resolved, made[n].cell_id)
    BY <1>2, <1>3, <1>9
<1>. QED
    BY <1>1, <1>4, <1>8, <1>10 DEF Schedulable

\* Unique cell handles make a plan one that the schedule accepts.
LEMMA PlansSchedule ==
    ASSUME NEW snapshot, SnapshotSound(snapshot),
           \A at, other \in AllCells(snapshot) :
              CellId(snapshot, at) = CellId(snapshot, other) => at = other
    PROVE  Schedulable(plan(snapshot))
<1>1. PICK cells : cells = PlannedCells(snapshot)
    OBVIOUS
<1>2. PICK k \in Nat : DOMAIN cells = 1..k
    BY <1>1, PlannedAre
<1>3. PICK at : PlannedAt(snapshot, cells, at)
    BY <1>1, PlannedAre
<1>4. /\ \A n \in 1..k : at[n] \in AllCells(snapshot) /\ cells[n] = Planned(snapshot, at[n])
      /\ \A m, n \in 1..k : at[m] = at[n] => m = n
    BY <1>2, <1>3 DEF PlannedAt
<1>5. PICK document \in Documents : document = snapshot.source
    BY DEF SnapshotSound
<1>6. \A a : /\ Planned(snapshot, a).cell_id = CellId(snapshot, a)
             /\ Planned(snapshot, a).session = EvaluationOptions[document][a].session
    BY <1>5 DEF Planned
<1>7. ASSUME NEW n \in 1..k PROVE Paired(cells[n])
    <2>1. PICK a : a = at[n] /\ a \in ToSet(CellsOf[document])
        BY <1>4, <1>5 DEF AllCells
    <2>2. \E kind, name : EvaluationOptions[document][a].session = <<kind, name>>
        BY <2>1, SessionIs
    <2>3. cells[n].session = EvaluationOptions[document][a].session
        BY <1>4, <1>6, <2>1
    <2>. QED
        BY <2>2, <2>3 DEF Paired
<1>8. \A m, n \in 1..k : cells[m].cell_id = cells[n].cell_id => m = n
    <2>1. \A n \in 1..k : cells[n].cell_id = CellId(snapshot, at[n])
        BY <1>4, <1>6
    <2>. QED
        BY <1>4, <2>1
<1>9. PICK links : /\ linked(cells) = [n \in DOMAIN cells |-> Linked(cells[n], links[n])]
                   /\ \A n \in 1..k : LinkedTo(cells, n, links[n])
    BY <1>2, LinkedIs
<1>10. Schedulable([n \in DOMAIN cells |-> Linked(cells[n], links[n])])
    BY <1>2, <1>7, <1>8, <1>9, LinksSchedule
<1>. QED
    BY <1>1, <1>9, <1>10 DEF plan

\* A plan that lowering returns is one that the schedule accepts, with the links
\* that chain_predecessors works out again, if cells of one text in a document
\* are the only cells of blocks that repeat one text.
THEOREM PlansSchedulable ==
    ASSUME RepeatedCellsStandAlone
    PROVE  Spec => []PlanIsSchedulable
<1>1. Lineage /\ Descent => PlanIsSchedulable
    <2>. SUFFICES ASSUME Lineage, Descent PROVE PlanIsSchedulable
        OBVIOUS
    <2>1. PICK n \in DOMAIN snapshots : n = Len(snapshots)
        BY DEF Lineage, Snapshots
    <2>2. SnapshotSound(snapshots[n]) /\ Current = snapshots[n]
        BY <2>1 DEF Lineage, Current
    <2>3. Distinct(snapshots[n].templates)
        BY DescentDistinct
    <2>4. PICK snapshot : snapshot = Current /\ SnapshotSound(snapshot) /\ Distinct(snapshot.templates)
        BY <2>2, <2>3
    <2>5. Schedulable(plan(snapshot))
        BY <2>4, PlacesDiffer, PlansSchedule
    <2>. QED
        BY <2>4, <2>5, Zenon DEF PlanIsSchedulable, Schedulable
<1>. QED
    BY <1>1, LineageInit, LineageNext, DescentInit, DescentNext, PTL DEF Spec

-----------------------------------------------------------------------------
(***************************************************************************)
(* Handles of the cells of a repeated source text.                         *)
(***************************************************************************)
\* Some seekers are matched with places, one to one, either all of them or so
\* that no place is left, and their handles are kept.
PairedOff(Places, Seekers, matched, partner, id, kept) ==
    /\ matched \in SUBSET Seekers
    /\ \A x, y \in Seekers : id[x] = id[y] => x = y
    /\ \A x \in matched : partner[x] \in Places
    /\ \A x, y \in matched : partner[x] = partner[y] => x = y
    /\ matched = Seekers \/ \A place \in Places : \E x \in matched : partner[x] = place
    /\ \A handle : handle \in kept <=> \E x \in matched : handle = id[x]

\* As many handles are kept as the smaller side has members.
LEMMA SmallerSide ==
    ASSUME NEW Places, IsFiniteSet(Places), NEW Seekers, IsFiniteSet(Seekers),
           NEW Matched, NEW partner, NEW id, NEW kept,
           PairedOff(Places, Seekers, Matched, partner, id, kept)
    PROVE  Cardinality(kept) = Min({Cardinality(Places), Cardinality(Seekers)})
<1>0. /\ Matched \in SUBSET Seekers
      /\ \A x, y \in Seekers : id[x] = id[y] => x = y
      /\ \A x \in Matched : partner[x] \in Places
      /\ \A x, y \in Matched : partner[x] = partner[y] => x = y
      /\ Matched = Seekers \/ \A place \in Places : \E x \in Matched : partner[x] = place
      /\ \A handle : handle \in kept <=> \E x \in Matched : handle = id[x]
    BY DEF PairedOff
<1>1. IsFiniteSet(Matched) /\ Cardinality(Matched) <= Cardinality(Seekers)
    BY <1>0, FS_Subset
<1>2. Cardinality(Places) \in Nat /\ Cardinality(Seekers) \in Nat /\ Cardinality(Matched) \in Nat
    BY <1>1, FS_CardinalityType
<1>3. Cardinality(kept) = Cardinality(Matched)
    <2>1. PICK f : f = [x \in Matched |-> id[x]]
        OBVIOUS
    <2>2. f \in Bijection(Matched, kept)
        BY <1>0, <2>1 DEF Bijection, Injection, Surjection, IsInjective
    <2>. QED
        BY <1>1, <2>2, FS_Bijection DEF ExistsBijection
<1>4. PICK g : g = [x \in Matched |-> partner[x]]
    OBVIOUS
<1>5. g \in Injection(Matched, Places)
    BY <1>0, <1>4 DEF Injection, IsInjective
<1>6. Cardinality(Matched) <= Cardinality(Places)
    BY <1>5, FS_Injection
<1>7. Cardinality(Matched) = Cardinality(Seekers) \/ Cardinality(Matched) = Cardinality(Places)
    <2>1. CASE Matched = Seekers
        BY <2>1
    <2>2. CASE \A place \in Places : \E x \in Matched : partner[x] = place
        <3>1. g \in Bijection(Matched, Places)
            BY <1>4, <1>5, <2>2 DEF Bijection, Injection, Surjection
        <3>. QED
            BY <1>1, <3>1, FS_Bijection DEF ExistsBijection
    <2>. QED
        BY <1>0, <2>1, <2>2
<1>8. PICK p, q, m : p = Cardinality(Places) /\ q = Cardinality(Seekers) /\ m = Cardinality(Matched)
    OBVIOUS
<1>9. Min({p, q}) \in {p, q} /\ \A x \in {p, q} : Min({p, q}) <= x
    BY <1>2, <1>8, MinIs
<1>. QED
    BY <1>1, <1>2, <1>3, <1>6, <1>7, <1>8, <1>9

\* A matched cell has its partner's handle.
LEMMA HandleKept ==
    ASSUME NEW document \in Documents, NEW templates, NEW next, NEW partner, NEW assigned, NEW pick,
           NEW now, NEW made, Matching(document, templates, next, partner, assigned, pick, now, made),
           NEW i \in Blocks(document), NEW j \in DOMAIN Block(document, i).cells,
           partner[<<i, j>>] # Alone
    PROVE  made.templates[i].handles[CellSlot(Block(document, i), j)] =
               CellOf(templates, partner[<<i, j>>])
<1>0. /\ TemplatesSound(templates, next) /\ Partners(document, templates, partner)
      /\ PartnersTake(document, templates, partner, assigned)
      /\ InTurn(Reusable(document, templates, assigned), Len(Input[document].blocks), pick)
      /\ assigned = match_identities(document, templates)
      /\ Built(document, templates, next, assigned, pick, now, made)
    BY DEF Matching
<1>1. PICK n \in Nat : n = Len(Input[document].blocks) /\ Blocks(document) = 1..n
    BY DocumentIs
<1>2. PICK text \in Texts : text = Input[document].blocks[i] /\ Block(document, i) = Content[text]
    BY BlockIs
<1>3. PICK block : block = Content[text]
    OBVIOUS
<1>4. PICK c : c = CellSlot(block, j) /\ c \in 1..SlotCount(block)
    BY <1>2, <1>3, SlotsApart
<1>5. PICK place : place = partner[<<i, j>>]
    OBVIOUS
<1>6. IsOffered(templates, place)
    BY <1>0, <1>5, CellsOfIs DEF Partners
<1>7. assigned[i][c] = CellOf(templates, place)
    BY <1>0, <1>2, <1>3, <1>4, <1>5 DEF PartnersTake
<1>8. IsHandle(assigned[i][c])
    <2>1. PICK q, m : /\ place = <<q, m>> /\ q \in DOMAIN templates
                      /\ m \in DOMAIN Content[templates[q].text].cells
        BY <1>0, <1>6, OfferedIs
    <2>2. PICK other \in Texts : other = templates[q].text
        BY <1>0, <2>1 DEF TemplatesSound
    <2>3. PICK d : d = CellSlot(Content[other], m) /\ d \in 1..SlotCount(Content[other])
        BY <2>1, <2>2, SlotsApart
    <2>4. assigned[i][c] = templates[q].handles[d]
        BY <1>7, <2>1, <2>2, <2>3 DEF CellOf
    <2>. QED
        BY <1>0, <2>1, <2>2, <2>3, <2>4, HandedOutIs DEF TemplatesSound
<1>9. DOMAIN assigned[i] = 1..SlotCount(block)
    BY <1>0, <1>2, <1>3, IdentitiesAre
<1>10. CASE pick[i] = 0
    <2>1. made.templates[i].handles = Allocate(assigned[i], now[i - 1])
        BY <1>0, <1>1, <1>10 DEF Built
    <2>2. Allocate(assigned[i], now[i - 1])[c] = assigned[i][c]
        BY <1>4, <1>8, <1>9 DEF Allocate
    <2>. QED
        BY <1>2, <1>3, <1>4, <1>5, <1>7, <2>1, <2>2
<1>11. CASE pick[i] # 0
    <2>1. made.templates[i] = templates[pick[i]]
        BY <1>0, <1>1, <1>11 DEF Built
    <2>2. matches(assigned[i], templates[pick[i]])
        BY <1>0, <1>1, <1>11 DEF InTurn, Reusable
    <2>3. ~ IsHandle(Unassigned) /\ ~ IsHandle(MustBeAnonymous)
        BY DEF IsHandle
    <2>4. templates[pick[i]].handles[c] = assigned[i][c]
        BY <1>4, <1>8, <1>9, <2>2, <2>3 DEF matches
    <2>. QED
        BY <1>2, <1>3, <1>4, <1>5, <1>7, <2>1, <2>4
<1>. QED
    BY <1>10, <1>11

\* An anonymous cell that was left alone has a handle of its own: a template
\* that is reused for its block was not the template of a cell of its text.
LEMMA HandleFresh ==
    ASSUME RepeatedCellsStandAlone,
           NEW document \in Documents, NEW templates, NEW next, NEW partner, NEW assigned, NEW pick,
           NEW now, NEW made, Matching(document, templates, next, partner, assigned, pick, now, made),
           NEW i \in Blocks(document), NEW j \in DOMAIN Block(document, i).cells,
           partner[<<i, j>>] = Alone, ~ IsLabeled(CellAsked(document, <<i, j>>)),
           NEW handle, handle = made.templates[i].handles[CellSlot(Block(document, i), j)],
           ~ IsLabeled(handle)
    PROVE  ~ Has(templates, "cell", handle)
<1>0. /\ TemplatesSound(templates, next) /\ Partners(document, templates, partner)
      /\ UniqueIn(templates, "cell") /\ LabelsSound(templates)
      /\ PartnersTake(document, templates, partner, assigned)
      /\ InTurn(Reusable(document, templates, assigned), Len(Input[document].blocks), pick)
      /\ assigned = match_identities(document, templates)
      /\ Built(document, templates, next, assigned, pick, now, made)
    BY DEF Matching, HandleDomains
<1>1. PICK n \in Nat : n = Len(Input[document].blocks) /\ Blocks(document) = 1..n
    BY DocumentIs
<1>2. PICK text \in Texts : text = Input[document].blocks[i] /\ Block(document, i) = Content[text]
    BY BlockIs
<1>3. PICK block : block = Content[text]
    OBVIOUS
<1>4. PICK c : c = CellSlot(block, j) /\ c \in 1..SlotCount(block) /\ c \in SlotsOf(block, "cell")
    BY <1>2, <1>3, SlotsApart, CellSlots
<1>5. PICK at : at = <<i, j>> /\ at \in ToSet(CellsOf[document])
    BY CellsOfIs
<1>6. handle = made.templates[i].handles[c]
    BY <1>2, <1>3, <1>4
<1>7. \/ IsReused(document, templates, pick, i, c, handle)
      \/ IsTaken(document, templates, partner, pick, "cell", i, c, handle)
      \/ IsCounted(assigned, pick, now, i, c, handle)
    <2>1. i \in 1..n /\ c \in SlotsOf(Block(document, i), "cell") /\ "cell" \in HandleDomains
        BY <1>1, <1>2, <1>3, <1>4 DEF HandleDomains
    <2>. QED
        BY <1>0, <1>1, <1>6, <2>1, Origins
<1>8. ~ IsReused(document, templates, pick, i, c, handle)
    <2>. SUFFICES ASSUME IsReused(document, templates, pick, i, c, handle) PROVE FALSE
        OBVIOUS
    <2>1. PICK p \in DOMAIN templates : /\ p = pick[i] /\ pick[i] # 0 /\ templates[p].text = text
                                        /\ handle = templates[p].handles[c]
        BY <1>2 DEF IsReused
    <2>2. PICK place : place = <<p, j>>
        OBVIOUS
    <2>3. CellOf(templates, place) = handle /\ TextOf(templates, place) = CellAt(document, at).text
        BY <1>2, <1>3, <1>4, <1>5, <2>1, <2>2 DEF CellOf, TextOf, CellAt
    <2>4. IsOffered(templates, place)
        BY <1>2, <1>3, <2>1, <2>2, <2>3 DEF IsOffered
    <2>5. PICK other \in ToSet(CellsOf[document]) : partner[other] = place
        BY <1>0, <1>5, <2>3, <2>4 DEF Partners
    <2>6. partner[other] # Alone /\ partner[other][1] = pick[i]
        BY <1>0, <2>1, <2>2, <2>4, <2>5, OfferedIs
    <2>7. other[1] = i
        <3>1. AssignedSlots(document, assigned)
            BY <1>0, IdentitiesAre DEF AssignedSlots
        <3>2. InTurn(Reusable(document, templates, assigned), n, pick)
            BY <1>0, <1>1
        <3>. QED
            BY <1>0, <1>1, <2>6, <3>1, <3>2, MatchedInReused
    <2>8. CellAt(document, at).text = CellAt(document, other).text
        BY <1>0, <2>3, <2>5, <2>6 DEF Partners
    <2>9. at # other
        BY <1>5, <2>6
    <2>10. at[1] = i
        BY <1>5
    <2>11. Len(block.cells) = 1
        BY <1>2, <1>3, <1>5, <2>8, <2>9, <2>10 DEF RepeatedCellsStandAlone
    <2>12. \A h \in DOMAIN block.cells : h = 1
        <3>1. block.cells \in Seq([text : STRING, language : STRING, options : CellOptions])
            BY <1>2, <1>3, BlockCells
        <3>. QED
            BY <2>11, <3>1
    <2>13. other = <<i, other[2]>> /\ other[2] \in DOMAIN block.cells
        BY <1>2, <1>3, <2>7, CellPlace
    <2>. QED
        BY <1>2, <1>3, <1>5, <2>9, <2>12, <2>13
<1>9. ~ IsTaken(document, templates, partner, pick, "cell", i, c, handle)
    <2>. SUFFICES ASSUME NEW h \in DOMAIN block.cells, partner[<<i, h>>] # Alone,
                         c = SlotFor(block, "cell", h)
                  PROVE  FALSE
        BY <1>2, <1>3 DEF IsTaken
    <2>1. SlotFor(block, "cell", h) = CellSlot(block, h)
        BY DEF SlotFor
    <2>2. h = j
        BY <1>2, <1>3, <1>4, <2>1, SlotsApart
    <2>. QED
        BY <2>2
<1>10. PICK d \in Nat : handle = Anonymous(d) /\ next <= d
    <2>1. IsCounted(assigned, pick, now, i, c, handle)
        BY <1>7, <1>8, <1>9
    <2>2. i \in 1..n /\ c \in 1..SlotCount(Block(document, i))
        BY <1>1, <1>2, <1>3, <1>4
    <2>. QED
        BY <1>1, <2>1, <2>2, CountedIs
<1>. SUFFICES ASSUME Has(templates, "cell", handle) PROVE FALSE
    OBVIOUS
<1>11. PICK p \in DOMAIN templates :
           \E k \in SlotsOf(Content[templates[p].text], "cell") : templates[p].handles[k] = handle
    BY DEF Has
<1>12. templates[p].text \in Texts
    BY <1>0 DEF TemplatesSound
<1>13. PICK k \in SlotsOf(Content[templates[p].text], "cell") : templates[p].handles[k] = handle
    BY <1>11
<1>14. k \in 1..SlotCount(Content[templates[p].text])
    BY <1>12, SlotsAre DEF HandleDomains
<1>15. HandedOut(handle, next) /\ next \in Nat
    BY <1>0, <1>13, <1>14 DEF TemplatesSound
<1>16. \A label \in STRING : IsLabeled(Labeled(label))
    BY DocumentAssumption DEF IsLabeled, Labeled
<1>17. PICK e \in Nat : handle = Anonymous(e) /\ e < next
    BY <1>15, <1>16 DEF HandedOut
<1>18. d = e
    BY <1>10, <1>17 DEF Anonymous
<1>. QED
    BY <1>10, <1>15, <1>17, <1>18

\* The handles that cells of a text keep, and how many of them there are.
Kept(before, after, text) ==
    IdsOf(after, Alike(after, text)) \cap {id \in Range(CellHandles(before)) : ~ IsLabeled(id)}

Keeping(before, after, text) ==
    /\ Kept(before, after, text) \subseteq IdsOf(before, Alike(before, text))
    /\ Cardinality(Kept(before, after, text)) =
           Min({Cardinality(Alike(before, text)), Cardinality(Alike(after, text))})

\* The cells of a snapshot and their handles.
LEMMA CellsStand ==
    ASSUME NEW snapshot, SnapshotSound(snapshot), NEW document, document = snapshot.source,
           NEW templates, templates = snapshot.templates
    PROVE  /\ document \in Documents
           /\ \A at : at \in AllCells(snapshot) <=>
                 \E i \in Blocks(document) : \E j \in DOMAIN Block(document, i).cells : at = <<i, j>>
           /\ \A at \in AllCells(snapshot) :
                 /\ at \in ToSet(CellsOf[document])
                 /\ CellId(snapshot, at) = CellOf(templates, at)
                 /\ CellId(snapshot, at) =
                        templates[at[1]].handles[CellSlot(Block(document, at[1]), at[2])]
           /\ \A place : IsOffered(templates, place) <=>
                 place \in AllCells(snapshot) /\ ~ IsLabeled(CellId(snapshot, place))
           /\ \A at \in AllCells(snapshot) : TextOf(templates, at) = CellAt(document, at).text
           /\ IsFiniteSet(AllCells(snapshot))
           /\ Range(CellHandles(snapshot)) = {CellId(snapshot, at) : at \in AllCells(snapshot)}
<1>1. document \in Documents
    BY DEF SnapshotSound
<1>2. /\ DOMAIN templates = Blocks(document)
      /\ \A i \in Blocks(document) : Content[templates[i].text] = Block(document, i)
    BY <1>1, BlockIs DEF SnapshotSound
<1>3. PICK cells : cells = CellsOf[document]
    OBVIOUS
<1>4. cells \in Seq(Nat \X Nat) /\ AllCells(snapshot) = ToSet(cells)
    BY <1>1, <1>3, CellsOfIs DEF AllCells
<1>5. \A at : at \in AllCells(snapshot) <=>
          \E i \in Blocks(document) : \E j \in DOMAIN Block(document, i).cells : at = <<i, j>>
    BY <1>1, <1>3, <1>4, CellsOfIs
<1>6. ASSUME NEW at \in AllCells(snapshot)
      PROVE  /\ at \in ToSet(CellsOf[document])
             /\ CellId(snapshot, at) = CellOf(templates, at)
             /\ CellId(snapshot, at) = templates[at[1]].handles[CellSlot(Block(document, at[1]), at[2])]
             /\ TextOf(templates, at) = CellAt(document, at).text
    <2>1. PICK i \in Blocks(document) : \E j \in DOMAIN Block(document, i).cells : at = <<i, j>>
        BY <1>5
    <2>2. Content[templates[i].text] = Block(document, i) /\ at[1] = i
        BY <1>2, <2>1
    <2>. QED
        BY <1>3, <1>4, <2>2 DEF CellId, CellHandle, CellOf, TextOf, CellAt
<1>7. ASSUME NEW place
      PROVE  IsOffered(templates, place) <=>
                 place \in AllCells(snapshot) /\ ~ IsLabeled(CellId(snapshot, place))
    <2>1. ASSUME IsOffered(templates, place)
          PROVE  place \in AllCells(snapshot) /\ ~ IsLabeled(CellId(snapshot, place))
        <3>1. PICK p \in DOMAIN templates : \E j \in DOMAIN Content[templates[p].text].cells :
                  place = <<p, j>> /\ ~ IsLabeled(CellOf(templates, <<p, j>>))
            BY <2>1 DEF IsOffered
        <3>2. place \in AllCells(snapshot) /\ ~ IsLabeled(CellOf(templates, place))
            BY <1>2, <1>5, <3>1
        <3>. QED
            BY <1>6, <3>2
    <2>2. ASSUME place \in AllCells(snapshot), ~ IsLabeled(CellId(snapshot, place))
          PROVE  IsOffered(templates, place)
        <3>1. PICK i \in Blocks(document) : \E j \in DOMAIN Block(document, i).cells : place = <<i, j>>
            BY <1>5, <2>2
        <3>2. ~ IsLabeled(CellOf(templates, place))
            BY <1>6, <2>2
        <3>. QED
            BY <1>2, <3>1, <3>2 DEF IsOffered
    <2>. QED
        BY <2>1, <2>2
<1>8. PICK n \in Nat : DOMAIN cells = 1..n
    BY <1>4
<1>9. IsFiniteSet(AllCells(snapshot))
    <2>1. PICK f : f = [m \in 1..n |-> cells[m]]
        OBVIOUS
    <2>2. f \in Surjection(1..n, ToSet(cells))
        BY <1>8, <2>1 DEF Surjection, ToSet
    <2>. QED
        BY <1>4, <2>2, FS_Interval, FS_Surjection
<1>10. Range(CellHandles(snapshot)) = {CellId(snapshot, at) : at \in AllCells(snapshot)}
    <2>1. CellHandles(snapshot) = [m \in DOMAIN cells |-> CellId(snapshot, cells[m])]
        BY <1>3 DEF CellHandles
    <2>2. Range(CellHandles(snapshot)) = {CellId(snapshot, cells[m]) : m \in DOMAIN cells}
        BY <2>1 DEF Range
    <2>3. ToSet(cells) = {cells[m] : m \in DOMAIN cells}
        BY DEF ToSet
    <2>. QED
        BY <1>4, <2>2, <2>3
<1>. QED
    BY <1>1, <1>5, <1>6, <1>7, <1>9, <1>10

\* From one revision to the next anonymous handles stay with their cell source,
\* as many as there are cells of it in both.
LEMMA HandlesKeep ==
    ASSUME RepeatedCellsStandAlone,
           NEW before, SnapshotSound(before), Distinct(before.templates),
           NEW document \in Documents, NEW revision,
           NEW after, after = updated(document, revision, before), Distinct(after.templates),
           NEW text
    PROVE  Keeping(before, after, text)
<1>1. PICK templates, source : templates = before.templates /\ source = before.source
    OBVIOUS
<1>2. Usable(before)
    BY DEF SnapshotSound
<1>3. PICK partner, assigned, pick, now, made :
          /\ made.templates = after.templates
          /\ Matching(document, templates, before.next_id, partner, assigned, pick, now, made)
    BY <1>1, <1>2, UpdatedMatches
<1>4. SnapshotSound(after) /\ after.source = document
    BY <1>2, UpdatedIs
<1>5. LabelsAsAsked(document, after.templates)
    BY <1>2, UpdatedLabels DEF Distinct
<1>6. Partners(document, templates, partner)
    BY <1>3 DEF Matching
<1>7. PICK was, is : was = Alike(before, text) /\ is = Alike(after, text)
    OBVIOUS
<1>8. /\ source \in Documents
      /\ \A place : IsOffered(templates, place) <=>
            place \in AllCells(before) /\ ~ IsLabeled(CellId(before, place))
      /\ \A place \in AllCells(before) :
            /\ TextOf(templates, place) = CellAt(source, place).text
            /\ CellId(before, place) = CellOf(templates, place)
      /\ IsFiniteSet(AllCells(before))
      /\ Range(CellHandles(before)) = {CellId(before, place) : place \in AllCells(before)}
    BY <1>1, CellsStand
<1>9. /\ \A at : at \in AllCells(after) <=>
            \E i \in Blocks(document) : \E j \in DOMAIN Block(document, i).cells : at = <<i, j>>
      /\ \A at \in AllCells(after) :
            CellId(after, at) = made.templates[at[1]].handles[CellSlot(Block(document, at[1]), at[2])]
      /\ IsFiniteSet(AllCells(after))
      /\ AllCells(after) = ToSet(CellsOf[document])
    BY <1>3, <1>4, CellsStand DEF AllCells
<1>10. \A place : place \in was <=> IsOffered(templates, place) /\ TextOf(templates, place) = text
    BY <1>1, <1>7, <1>8 DEF Alike
<1>11. ASSUME NEW at \in AllCells(after)
       PROVE  at \in is <=> CellAt(document, at).text = text /\ ~ IsLabeled(CellAsked(document, at))
    <2>1. PICK i \in Blocks(document) : \E j \in DOMAIN Block(document, i).cells : at = <<i, j>>
        BY <1>9
    <2>2. PICK j \in DOMAIN Block(document, i).cells : at = <<i, j>>
        BY <2>1
    <2>3. PICK c : c = CellSlot(Block(document, i), j) /\ c \in 1..SlotCount(Block(document, i))
        BY BlockIs, SlotsApart
    <2>4. CellId(after, at) = after.templates[i].handles[c] /\ CellAsked(document, at) = Desired[document][i][c]
        BY <1>3, <1>9, <2>2, <2>3 DEF CellAsked
    <2>5. IsLabeled(CellId(after, at)) <=> IsLabeled(CellAsked(document, at))
        BY <1>5, <2>3, <2>4 DEF LabelsAsAsked
    <2>. QED
        BY <1>4, <1>7, <2>5 DEF Alike
<1>12. PICK matched : matched = {at \in is : partner[at] # Alone}
    OBVIOUS
<1>13. \A at \in is : at \in AllCells(after) /\ ~ IsLabeled(CellId(after, at))
    BY <1>7 DEF Alike
<1>14. ASSUME NEW at \in matched
       PROVE  partner[at] \in was /\ CellId(after, at) = CellId(before, partner[at])
    <2>1. at \in is /\ at \in AllCells(after) /\ partner[at] # Alone
        BY <1>12, <1>13
    <2>2. IsOffered(templates, partner[at]) /\ TextOf(templates, partner[at]) = text
        BY <1>6, <1>9, <1>11, <2>1 DEF Partners
    <2>3. PICK i \in Blocks(document) : \E j \in DOMAIN Block(document, i).cells : at = <<i, j>>
        BY <1>9, <2>1
    <2>4. PICK j \in DOMAIN Block(document, i).cells : at = <<i, j>>
        BY <2>3
    <2>5. made.templates[i].handles[CellSlot(Block(document, i), j)] = CellOf(templates, partner[<<i, j>>])
        BY <1>3, <2>1, <2>4, HandleKept
    <2>6. CellId(after, at) = CellOf(templates, partner[at])
        BY <1>9, <2>1, <2>4, <2>5
    <2>. QED
        BY <1>8, <1>10, <2>2, <2>6
<1>15. ASSUME NEW at \in is, at \notin matched
       PROVE  CellId(after, at) \notin Range(CellHandles(before))
    <2>1. at \in AllCells(after) /\ partner[at] = Alone /\ ~ IsLabeled(CellId(after, at))
        BY <1>12, <1>13, <1>15
    <2>2. PICK i \in Blocks(document) : \E j \in DOMAIN Block(document, i).cells : at = <<i, j>>
        BY <1>9, <2>1
    <2>3. PICK j \in DOMAIN Block(document, i).cells : at = <<i, j>>
        BY <2>2
    <2>4. PICK handle : /\ handle = CellId(after, at)
                        /\ handle = made.templates[i].handles[CellSlot(Block(document, i), j)]
        BY <1>9, <2>1, <2>3
    <2>5. ~ IsLabeled(CellAsked(document, <<i, j>>))
        BY <1>11, <2>1, <2>3
    <2>6. ~ Has(templates, "cell", handle)
        BY <1>3, <2>1, <2>3, <2>4, <2>5, HandleFresh
    <2>7. ASSUME NEW place \in AllCells(before), CellId(before, place) = handle
          PROVE  FALSE
        <3>1. IsOffered(templates, place)
            BY <1>8, <2>1, <2>4, <2>7
        <3>2. PICK p, l : /\ place = <<p, l>> /\ p \in DOMAIN templates
                          /\ l \in DOMAIN Content[templates[p].text].cells
            BY <1>2, <1>1, <3>1, OfferedIs DEF Usable
        <3>3. PICK other \in Texts : other = templates[p].text
            BY <1>1, <1>2, <3>2 DEF Usable, TemplatesSound
        <3>4. PICK c : c = CellSlot(Content[other], l) /\ c \in SlotsOf(Content[other], "cell")
            BY <3>2, <3>3, CellSlots
        <3>5. templates[p].handles[c] = handle
            BY <1>8, <2>7, <3>2, <3>3, <3>4 DEF CellOf
        <3>. QED
            BY <2>6, <3>2, <3>3, <3>4, <3>5 DEF Has
    <2>. QED
        BY <1>8, <2>4, <2>7
<1>16. PICK kept : kept = {CellId(after, at) : at \in matched}
    OBVIOUS
<1>17. Kept(before, after, text) = kept
    <2>1. ASSUME NEW handle \in Kept(before, after, text) PROVE handle \in kept
        <3>1. PICK at \in is : handle = CellId(after, at)
            BY <1>7 DEF Kept, IdsOf
        <3>2. handle \in Range(CellHandles(before))
            BY DEF Kept
        <3>. QED
            BY <1>15, <1>16, <3>1, <3>2
    <2>2. ASSUME NEW handle \in kept PROVE handle \in Kept(before, after, text)
        <3>1. PICK at \in matched : handle = CellId(after, at)
            BY <1>16
        <3>2. at \in is /\ ~ IsLabeled(handle)
            BY <1>12, <1>13, <3>1
        <3>3. partner[at] \in AllCells(before) /\ handle = CellId(before, partner[at])
            BY <1>8, <1>10, <1>14, <3>1
        <3>4. handle \in Range(CellHandles(before))
            BY <1>8, <3>3
        <3>. QED
            BY <1>7, <3>1, <3>2, <3>4 DEF Kept, IdsOf
    <2>. QED
        BY <2>1, <2>2
<1>18. kept \subseteq IdsOf(before, Alike(before, text))
    BY <1>7, <1>14, <1>16 DEF IdsOf
<1>19. matched = is \/ \A place \in was : \E at \in matched : partner[at] = place
    <2>. SUFFICES ASSUME NEW at \in is, at \notin matched, NEW place \in was
                  PROVE  \E other \in matched : partner[other] = place
        BY <1>12
    <2>1. at \in AllCells(after) /\ partner[at] = Alone
        BY <1>12, <1>13
    <2>2. IsOffered(templates, place) /\ TextOf(templates, place) = text
        BY <1>10
    <2>3. PICK other \in AllCells(after) : partner[other] = place
        BY <1>6, <1>9, <1>11, <2>1, <2>2 DEF Partners
    <2>4. place # Alone
        BY <1>1, <1>2, <2>2, OfferedIs DEF Usable
    <2>5. other \in is
        BY <1>6, <1>9, <1>11, <2>2, <2>3, <2>4 DEF Partners
    <2>. QED
        BY <1>12, <2>3, <2>4, <2>5
<1>20. PICK id : id = [at \in AllCells(after) |-> CellId(after, at)]
    OBVIOUS
<1>21. \A x, y \in is : id[x] = id[y] => x = y
    BY <1>4, <1>13, <1>20, PlacesDiffer
<1>22. \A x, y \in matched : partner[x] = partner[y] => x = y
    BY <1>6, <1>9, <1>12, <1>13 DEF Partners
<1>23. \A handle : handle \in kept <=> \E at \in matched : handle = id[at]
    BY <1>12, <1>13, <1>16, <1>20
<1>24. IsFiniteSet(was) /\ IsFiniteSet(is) /\ matched \in SUBSET is
    <2>1. was \subseteq AllCells(before) /\ is \subseteq AllCells(after)
        BY <1>7 DEF Alike
    <2>. QED
        BY <1>8, <1>9, <1>12, <2>1, FS_Subset
<1>25. Cardinality(kept) = Min({Cardinality(was), Cardinality(is)})
    <2>1. PairedOff(was, is, matched, partner, id, kept)
        BY <1>14, <1>19, <1>21, <1>22, <1>23, <1>24 DEF PairedOff
    <2>. QED
        BY <1>24, <2>1, SmallerSide
<1>. QED
    BY <1>7, <1>17, <1>18, <1>25 DEF Keeping

\* From one revision to the next an anonymous cell handle stays with the same
\* cell source, and as many cells of that source keep a handle as there are in
\* both, if cells of one text are the only cells of blocks that repeat one text.
THEOREM HandlesStayWithCells ==
    ASSUME RepeatedCellsStandAlone
    PROVE  Spec => []CellsKeepTheirHandles
<1>1. Lineage /\ Descent => CellsKeepTheirHandles
    <2>. SUFFICES ASSUME Lineage, Descent PROVE CellsKeepTheirHandles
        OBVIOUS
    <2>a. CASE ~ (Len(snapshots) > 1)
        BY <2>a, Zenon DEF CellsKeepTheirHandles
    <2>b. CASE Len(snapshots) > 1
        <3>1. PICK n \in DOMAIN snapshots : n = Len(snapshots) /\ n - 1 \in DOMAIN snapshots /\ n # 1
            BY <2>b DEF Lineage, Snapshots
        <3>2. PICK before, after : before = snapshots[n - 1] /\ after = snapshots[n] /\ after = Current
            BY <3>1 DEF Current
        <3>3. SnapshotSound(before) /\ SnapshotSound(after)
            BY <3>1, <3>2 DEF Lineage
        <3>4. Distinct(before.templates) /\ Distinct(after.templates)
            BY <3>1, <3>2, DescentDistinct
        <3>5. PICK document, revision : document = after.source /\ revision = after.revision
            OBVIOUS
        <3>6. document \in Documents
            BY <3>3, <3>5 DEF SnapshotSound
        <3>7. after = updated(document, revision, before)
            BY <3>1, <3>2, <3>5 DEF Descent
        <3>8. \A text : Keeping(before, after, text)
            BY <3>3, <3>4, <3>6, <3>7, HandlesKeep
        <3>9. before = snapshots[Len(snapshots) - 1]
            BY <3>1, <3>2
        <3>10. \A text : Keeping(snapshots[Len(snapshots) - 1], Current, text)
            BY <3>2, <3>8, <3>9, Zenon
        <3>. QED
            BY <3>10, Zenon DEF CellsKeepTheirHandles, Keeping, Kept
    <2>. QED
        BY <2>a, <2>b
<1>. QED
    BY <1>1, LineageInit, LineageNext, DescentInit, DescentNext, PTL DEF Spec
=============================================================================
