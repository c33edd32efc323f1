----------------------------- MODULE DataLemmas -----------------------------
(***************************************************************************)
(* Facts about numbers, finite sets and recursive functions that the       *)
(* proofs about the components have in common.                             *)
(***************************************************************************)
EXTENDS Integers, FiniteSetsExt, SequencesExt, WellFoundedInduction, FiniteSetTheorems, TLAPS

\* A set of natural numbers that is not empty has a least element.
LEMMA LeastNat ==
    ASSUME NEW S, S \subseteq Nat, S # {}
    PROVE  \E x \in S : \A y \in S : x <= y
<1> DEFINE T == {0 .. n : n \in S}
<1>1. T \subseteq FiniteSubsetsOf(Nat) /\ T # {}
    <2>1. \A n \in S : 0 .. n \in SUBSET Nat /\ IsFiniteSet(0 .. n)
        BY FS_Interval
    <2>2. \A n \in S : 0 .. n \in FiniteSubsetsOf(Nat)
        BY <2>1 DEF FiniteSubsetsOf
    <2> QED BY <2>2
<1>2. IsWellFoundedOn(StrictSubsetOrdering(Nat), FiniteSubsetsOf(Nat))
    BY FS_StrictSubsetOrderingWellFounded
<1>3. \E X \in T : \A Y \in T : ~ (<<Y, X>> \in StrictSubsetOrdering(Nat))
    <2> HIDE DEF T
    <2> QED BY <1>1, <1>2, WFMin
<1>4. PICK x \in S : \A y \in S : ~ (<<0 .. y, 0 .. x>> \in StrictSubsetOrdering(Nat))
    BY <1>3
<1>5. ASSUME NEW y \in S PROVE x <= y
    <2> SUFFICES ASSUME y < x PROVE FALSE
        OBVIOUS
    <2>1. 0 .. y \subseteq 0 .. x /\ 0 .. y # 0 .. x
        <3>1. x \in 0 .. x /\ x \notin 0 .. y
            OBVIOUS
        <3>2. 0 .. y \subseteq 0 .. x
            OBVIOUS
        <3> QED BY <3>1, <3>2
    <2>2. <<0 .. y, 0 .. x>> \in StrictSubsetOrdering(Nat)
        BY <2>1 DEF StrictSubsetOrdering
    <2> QED BY <1>4, <2>2
<1> QED BY <1>5

\* What Min of FiniteSetsExt is on a set of natural numbers.
LEMMA MinOfNat ==
    ASSUME NEW S, S \subseteq Nat, S # {}
    PROVE  Min(S) \in S /\ \A y \in S : Min(S) <= y
BY LeastNat DEF Min

\* Induction, with a set in the place of the predicate.
LEMMA AllNat ==
    ASSUME NEW S, 0 \in S, \A n \in Nat : n \in S => n + 1 \in S
    PROVE  Nat \subseteq S
<1> SUFFICES ASSUME Nat \ S # {} PROVE FALSE
    OBVIOUS
<1>1. PICK x \in Nat \ S : \A y \in Nat \ S : x <= y
    BY LeastNat
<1>2. x - 1 \in Nat /\ x - 1 \notin Nat \ S
    BY <1>1
<1> QED BY <1>1, <1>2

\* What Max of FiniteSetsExt is on a bounded set of natural numbers.
LEMMA MaxOfNat ==
    ASSUME NEW S, S \subseteq Nat, S # {}, NEW b \in Nat, \A y \in S : y <= b
    PROVE  Max(S) \in S /\ \A y \in S : y <= Max(S)
<1> DEFINE T == {b - y : y \in S}
<1>1. PICK t \in T : \A y \in T : t <= y
    <2>1. T \subseteq Nat
        <3> SUFFICES ASSUME NEW y \in S PROVE b - y \in Nat
            OBVIOUS
        <3> QED BY y \in Nat /\ y <= b
    <2>2. T # {}
        OBVIOUS
    <2> HIDE DEF T
    <2> QED BY <2>1, <2>2, LeastNat
<1>2. PICK x \in S : t = b - x
    BY <1>1
<1>3. \A y \in S : y <= x
    BY <1>1, <1>2
<1> QED BY <1>3 DEF Max

\* f starts with a and its i-th step is step[i].
StepsFrom(f, V, a, step, n) ==
    f \in [0 .. n -> V] /\ f[0] = a /\ \A i \in 1 .. n : f[i] = step[i][f[i - 1]]

\* A recursion over an interval of numbers has a solution, whatever the steps.
LEMMA StepsExist ==
    ASSUME NEW V, NEW a, NEW n \in Nat, NEW step, a \in V, step \in [1 .. n -> [V -> V]]
    PROVE  \E f : StepsFrom(f, V, a, step, n)
<1> DEFINE S == {k \in Nat : k <= n => \E f : StepsFrom(f, V, a, step, k)}
<1>1. 0 \in S
    <2>1. StepsFrom([i \in 0 .. 0 |-> a], V, a, step, 0)
        BY DEF StepsFrom
    <2> QED BY <2>1
<1>2. ASSUME NEW k \in Nat, k \in S PROVE k + 1 \in S
    <2> SUFFICES ASSUME k + 1 <= n PROVE \E f : StepsFrom(f, V, a, step, k + 1)
        OBVIOUS
    <2>1. PICK f : StepsFrom(f, V, a, step, k)
        BY <1>2
    <2> DEFINE h == [i \in 0 .. k + 1 |-> IF i = k + 1 THEN step[k + 1][f[k]] ELSE f[i]]
    <2>2. step[k + 1] \in [V -> V] /\ f[k] \in V
        BY <2>1 DEF StepsFrom
    <2>3. h \in [0 .. k + 1 -> V] /\ h[0] = a
        BY <2>1, <2>2 DEF StepsFrom
    <2>4. \A i \in 1 .. k + 1 : h[i] = step[i][h[i - 1]]
        BY <2>1 DEF StepsFrom
    <2> HIDE DEF h
    <2> QED BY <2>3, <2>4 DEF StepsFrom
<1>3. Nat \subseteq S
    <2> HIDE DEF S
    <2> QED BY <1>1, <1>2, AllNat
<1> QED BY <1>3

\* f holds what FlattenSeq has gathered after the first i of the sequences.
Gathers(f, V, seqs) ==
    /\ f \in [0 .. Len(seqs) -> Seq(V)]
    /\ f[0] = <<>>
    /\ \A i \in 1 .. Len(seqs) : f[i] = f[i - 1] \o seqs[i]

\* FlattenSeq gathers the sequences one after the other.
LEMMA Flattened ==
    ASSUME NEW V, NEW seqs, seqs \in Seq(Seq(V))
    PROVE  \E f : Gathers(f, V, seqs) /\ FlattenSeq(seqs) = f[Len(seqs)]
<1> DEFINE n == Len(seqs)
           W == Seq(V)
           step == [i \in 1 .. n |-> [s \in W |-> s \o seqs[i]]]
<1>1. n \in Nat /\ \A i \in 1 .. n : seqs[i] \in W
    OBVIOUS
<1>2. <<>> \in W /\ step \in [1 .. n -> [W -> W]]
    <2>1. \A i \in 1 .. n : \A s \in W : s \o seqs[i] \in W
        BY <1>1
    <2> QED BY <2>1
<1>3. PICK f : StepsFrom(f, W, <<>>, step, n)
    <2> HIDE DEF W, step, n
    <2> QED BY <1>1, <1>2, StepsExist
<1>4. Gathers(f, V, seqs)
    <2>1. f \in [0 .. n -> W] /\ f[0] = <<>> /\ \A i \in 1 .. n : f[i] = step[i][f[i - 1]]
        BY <1>3, Zenon DEF StepsFrom
    <2>2. ASSUME NEW i \in 1 .. n PROVE f[i] = f[i - 1] \o seqs[i]
        <3>1. i - 1 \in 0 .. n
            BY <1>1
        <3>2. f[i - 1] \in W
            BY <2>1, <3>1
        <3>3. step[i][f[i - 1]] = f[i - 1] \o seqs[i]
            BY <3>2
        <3> QED BY <2>1, <3>3
    <2> QED BY <2>1, <2>2 DEF Gathers
<1>5. CASE n = 0
    BY <1>4, <1>5 DEF Gathers, FlattenSeq
<1>6. CASE n # 0
    <2> DEFINE flatten[i \in 1 .. n] == IF i = 1 THEN seqs[i] ELSE flatten[i - 1] \o seqs[i]
               g == [i \in 1 .. n |-> f[i]]
    <2>1. FlattenSeq(seqs) = flatten[n]
        BY <1>6 DEF FlattenSeq
    <2>2. f[1] = seqs[1]
        <3>0. 1 \in 1 .. n /\ 1 - 1 = 0
            BY <1>1, <1>6
        <3>1. f[1] = <<>> \o seqs[1]
            BY <1>4, <3>0, Zenon DEF Gathers
        <3> QED BY <1>1, <1>6, <3>1
    <2>3. g = [i \in 1 .. n |-> IF i = 1 THEN seqs[i] ELSE g[i - 1] \o seqs[i]]
        <3> SUFFICES ASSUME NEW i \in 1 .. n
                     PROVE  g[i] = IF i = 1 THEN seqs[i] ELSE g[i - 1] \o seqs[i]
            OBVIOUS
        <3>1. i # 1 => i - 1 \in 1 .. n
            BY <1>1
        <3> QED BY <1>4, <2>2, <3>1 DEF Gathers
    <2>4. flatten = [i \in 1 .. n |-> IF i = 1 THEN seqs[i] ELSE flatten[i - 1] \o seqs[i]]
        <3> HIDE DEF g
        <3> QED BY <2>3
    <2> HIDE DEF flatten
    <2> DEFINE S == {k \in Nat : k \in 1 .. n => flatten[k] = f[k]}
    <2>5. 0 \in S
        OBVIOUS
    <2>6. ASSUME NEW k \in Nat, k \in S PROVE k + 1 \in S
        <3> SUFFICES ASSUME k + 1 \in 1 .. n PROVE flatten[k + 1] = f[k + 1]
            OBVIOUS
        <3>1. CASE k = 0
            BY <2>2, <2>4, <3>1
        <3>2. CASE k # 0
            <4>1. k \in 1 .. n /\ flatten[k] = f[k]
                BY <1>1, <2>6, <3>2
            <4>0. k + 1 # 1 /\ (k + 1) - 1 = k
                BY <3>2
            <4>2. flatten[k + 1] = flatten[k] \o seqs[k + 1]
                <5>1. flatten[k + 1] = flatten[(k + 1) - 1] \o seqs[k + 1]
                    BY <2>4, <4>0, Zenon
                <5> QED BY <4>0, <5>1
            <4>3. f[k + 1] = f[k] \o seqs[k + 1]
                <5>1. f[k + 1] = f[(k + 1) - 1] \o seqs[k + 1]
                    BY <1>4, Zenon DEF Gathers
                <5> QED BY <4>0, <5>1
            <4> QED BY <4>1, <4>2, <4>3
        <3> QED BY <3>1, <3>2
    <2>7. Nat \subseteq S
        <3> HIDE DEF S
        <3> QED BY <2>5, <2>6, AllNat
    <2>8. n \in S /\ n \in 1 .. n
        BY <1>1, <1>6, <2>7
    <2> QED BY <1>4, <2>1, <2>8
<1> QED BY <1>5, <1>6

\* The elements of two sequences one behind the other.
LEMMA ToSetAppended ==
    ASSUME NEW V, NEW s, NEW t, s \in Seq(V), t \in Seq(V)
    PROVE  ToSet(s \o t) = ToSet(s) \union ToSet(t)
<1>1. /\ s \o t \in Seq(V) /\ Len(s \o t) = Len(s) + Len(t)
      /\ DOMAIN (s \o t) = 1 .. Len(s) + Len(t)
      /\ DOMAIN s = 1 .. Len(s) /\ DOMAIN t = 1 .. Len(t)
      /\ Len(s) \in Nat /\ Len(t) \in Nat
    OBVIOUS
<1>2. \A i \in 1 .. Len(s) : (s \o t)[i] = s[i]
    OBVIOUS
<1>3. \A i \in 1 .. Len(t) : (s \o t)[Len(s) + i] = t[i]
    OBVIOUS
<1>4. ASSUME NEW i \in 1 .. Len(s) + Len(t) PROVE (s \o t)[i] \in ToSet(s) \union ToSet(t)
    <2>1. CASE i \in 1 .. Len(s)
        BY <1>1, <1>2, <2>1 DEF ToSet
    <2>2. CASE i \notin 1 .. Len(s)
        <3>1. i - Len(s) \in 1 .. Len(t) /\ i = Len(s) + (i - Len(s))
            BY <1>1, <2>2
        <3>2. (s \o t)[i] = t[i - Len(s)]
            BY <1>3, <3>1
        <3> QED BY <1>1, <3>1, <3>2 DEF ToSet
    <2> QED BY <2>1, <2>2
<1>5. ASSUME NEW i \in 1 .. Len(s) PROVE s[i] \in ToSet(s \o t)
    BY <1>1, <1>2 DEF ToSet
<1>6. ASSUME NEW i \in 1 .. Len(t) PROVE t[i] \in ToSet(s \o t)
    <2>1. Len(s) + i \in DOMAIN (s \o t)
        BY <1>1
    <2> QED BY <1>3, <2>1 DEF ToSet
<1> QED BY <1>1, <1>4, <1>5, <1>6 DEF ToSet

\* FlattenSeq has the elements of the sequences it is given.
LEMMA FlattenElements ==
    ASSUME NEW V, NEW seqs, seqs \in Seq(Seq(V))
    PROVE  /\ FlattenSeq(seqs) \in Seq(V)
           /\ ToSet(FlattenSeq(seqs)) = UNION {ToSet(seqs[i]) : i \in 1 .. Len(seqs)}
<1> DEFINE n == Len(seqs)
<1>1. PICK f : Gathers(f, V, seqs) /\ FlattenSeq(seqs) = f[n]
    BY Flattened
<1>2. n \in Nat /\ \A i \in 1 .. n : seqs[i] \in Seq(V)
    OBVIOUS
<1>3. /\ f \in [0 .. n -> Seq(V)] /\ f[0] = <<>>
      /\ \A i \in 1 .. n : f[i] = f[i - 1] \o seqs[i]
    BY <1>1, Zenon DEF Gathers
<1> DEFINE S == {k \in Nat : k <= n => ToSet(f[k]) = UNION {ToSet(seqs[i]) : i \in 1 .. k}}
<1>4. 0 \in S
    <2>1. ToSet(f[0]) = {}
        BY <1>3 DEF ToSet
    <2> QED BY <2>1
<1>5. ASSUME NEW k \in Nat, k \in S PROVE k + 1 \in S
    <2> SUFFICES ASSUME k + 1 <= n
                 PROVE  ToSet(f[k + 1]) = UNION {ToSet(seqs[i]) : i \in 1 .. k + 1}
        OBVIOUS
    <2>1. k + 1 \in 1 .. n /\ (k + 1) - 1 = k /\ k <= n
        BY <1>2
    <2>2. f[k + 1] = f[k] \o seqs[k + 1]
        <3>1. f[k + 1] = f[(k + 1) - 1] \o seqs[k + 1]
            BY <1>3, <2>1, Zenon
        <3> QED BY <2>1, <3>1
    <2>3. f[k] \in Seq(V) /\ seqs[k + 1] \in Seq(V)
        <3>1. k \in 0 .. n
            BY <1>2, <2>1
        <3>2. f[k] \in Seq(V)
            BY <1>3, <3>1, Zenon
        <3> QED BY <1>2, <2>1, <3>2
    <2>4. ToSet(f[k + 1]) = ToSet(f[k]) \union ToSet(seqs[k + 1])
        BY <2>2, <2>3, ToSetAppended
    <2>5. 1 .. k + 1 = (1 .. k) \union {k + 1}
        OBVIOUS
    <2> QED BY <1>5, <2>1, <2>4, <2>5
<1>6. Nat \subseteq S
    <2> HIDE DEF S
    <2> QED BY <1>4, <1>5, AllNat
<1> QED BY <1>1, <1>2, <1>3, <1>6
=============================================================================
