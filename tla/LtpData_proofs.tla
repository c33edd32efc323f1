--------------------------- MODULE LtpData_proofs ---------------------------
(***************************************************************************)
(* What the algorithms on claims and segments compute, for blocks, gaps    *)
(* and claims of any size.                                                 *)
(***************************************************************************)
EXTENDS LtpClaims, LtpSegmentation, DataLemmas

----------------------------------------------------------------------------
(* The order of the std::set.                                              *)

\* a lists the elements of S from the smallest to the largest.
Lists(a, S) ==
    /\ a \in [1 .. Cardinality(S) -> S]
    /\ \A i, j \in 1 .. Cardinality(S) : i < j => a[i] < a[j]
    /\ \A o \in S : \E i \in 1 .. Cardinality(S) : a[i] = o

\* Ascending lists a finite set of numbers.
LEMMA AscendingLists ==
    ASSUME NEW S, S \subseteq Nat, IsFiniteSet(S)
    PROVE  Cardinality(S) \in Nat /\ Lists(Ascending(S), S)
<1> DEFINE n == Cardinality(S)
           below(o) == {p \in S : p < o}
           rank == [o \in S |-> Cardinality(below(o))]
           R == 0 .. n - 1
<1>1. n \in Nat
    BY FS_CardinalityType
<1>2. ASSUME NEW o \in S PROVE IsFiniteSet(below(o)) /\ rank[o] \in R
    <2>1. below(o) \subseteq S \ {o}
        OBVIOUS
    <2>2. IsFiniteSet(S \ {o}) /\ Cardinality(S \ {o}) = n - 1
        BY FS_RemoveElement
    <2>3. IsFiniteSet(below(o)) /\ Cardinality(below(o)) <= n - 1
        BY <2>1, <2>2, FS_Subset
    <2>4. Cardinality(below(o)) \in Nat
        BY <2>3, FS_CardinalityType
    <2> QED BY <1>1, <2>3, <2>4
<1>3. ASSUME NEW o \in S, NEW p \in S, o < p PROVE rank[o] < rank[p]
    <2>0. o \in Nat /\ p \in Nat /\ S \subseteq Nat
        OBVIOUS
    <2>1. below(o) \union {o} \subseteq below(p) /\ o \notin below(o)
        <3>1. ASSUME NEW q \in below(o) PROVE q \in below(p)
            <4>1. q \in Nat /\ q < o
                BY <2>0
            <4> QED BY <1>3, <2>0, <4>1
        <3>2. o \in below(p) /\ o \notin below(o)
            BY <1>3, <2>0
        <3> HIDE DEF below
        <3> QED BY <3>1, <3>2
    <2>2. /\ IsFiniteSet(below(o) \union {o})
          /\ Cardinality(below(o) \union {o}) = Cardinality(below(o)) + 1
        BY <1>2, <2>1, FS_AddElement
    <2>3. Cardinality(below(o) \union {o}) <= Cardinality(below(p))
        BY <1>2, <2>1, FS_Subset
    <2> QED BY <1>1, <1>2, <2>2, <2>3
<1>4. rank \in Injection(S, R)
    <2>1. rank \in [S -> R]
        BY <1>2
    <2>2. ASSUME NEW o \in S, NEW p \in S, rank[o] = rank[p] PROVE o = p
        <3>1. rank[o] \in Int
            BY <1>1, <1>2
        <3>2. ~(o < p) /\ ~(p < o)
            BY <1>3, <2>2, <3>1
        <3> QED BY <3>2
    <2> HIDE DEF rank
    <2> QED BY <2>1, <2>2 DEF Injection, IsInjective
<1>5. rank \in Surjection(S, R)
    <2>0. n - 1 \in Int /\ (0 > n - 1 => n = 0) /\ (n - 1) - 0 + 1 = n
        BY <1>1
    <2>1. IsFiniteSet(R) /\ Cardinality(R) = n
        <3>1. IsFiniteSet(R) /\ Cardinality(R) = IF 0 > n - 1 THEN 0 ELSE (n - 1) - 0 + 1
            BY <2>0, FS_Interval
        <3> QED BY <2>0, <3>1
    <2> HIDE DEF rank, R
    <2> QED BY <1>4, <2>1, FS_Injection
<1>6. ASSUME NEW i \in 1 .. n PROVE Ascending(S)[i] \in S /\ rank[Ascending(S)[i]] = i - 1
    <2>1. i - 1 \in R
        BY <1>1
    <2>2. \E o \in S : rank[o] = i - 1
        BY <1>5, <2>1 DEF Surjection
    <2>3. Ascending(S)[i] = CHOOSE o \in S : Cardinality(below(o)) = i - 1
        BY DEF Ascending
    <2> QED BY <2>2, <2>3
<1>7. Ascending(S) = [i \in 1 .. n |-> Ascending(S)[i]]
    <2> DEFINE e(i) == CHOOSE o \in S : Cardinality(below(o)) = i - 1
    <2>1. Ascending(S) = [i \in 1 .. n |-> e(i)]
        BY DEF Ascending
    <2> HIDE DEF e
    <2> QED BY <2>1
<1> HIDE DEF rank
<1>8. \A o \in S : \A p \in S : rank[o] = rank[p] => o = p
    BY <1>4 DEF Injection, IsInjective
<1>9. ASSUME NEW i \in 1 .. n, NEW j \in 1 .. n, i < j PROVE Ascending(S)[i] < Ascending(S)[j]
    <2> DEFINE a == Ascending(S)
    <2>1. a[i] \in S /\ a[j] \in S /\ rank[a[i]] = i - 1 /\ rank[a[j]] = j - 1
        BY <1>6
    <2>2. a[i] # a[j]
        <3>1. i - 1 # j - 1
            BY <1>1, <1>9
        <3> QED BY <2>1, <3>1
    <2>3. ~(a[j] < a[i])
        <3> SUFFICES ASSUME a[j] < a[i] PROVE FALSE
            OBVIOUS
        <3>1. j - 1 < i - 1
            BY <1>3, <2>1
        <3> QED BY <1>1, <1>9, <3>1
    <2>4. a[i] \in Nat /\ a[j] \in Nat
        BY <2>1
    <2> HIDE DEF a
    <2>5. a[i] < a[j]
        BY <2>2, <2>3, <2>4
    <2> QED BY <2>5 DEF a
<1>10. ASSUME NEW o \in S PROVE \E i \in 1 .. n : Ascending(S)[i] = o
    <2>1. rank[o] \in R
        BY <1>2
    <2>2. rank[o] + 1 \in 1 .. n /\ (rank[o] + 1) - 1 = rank[o]
        BY <1>1, <2>1
    <2> QED BY <1>6, <1>8, <2>2
<1> QED BY <1>1, <1>6, <1>7, <1>9, <1>10 DEF Lists

----------------------------------------------------------------------------
(* How a block is cut.                                                     *)

\* The segments begin at offset[1], offset[2], ... and end behind dataSize.
CutAt(offset, n, rdSize, dataSize, claimOff) ==
    /\ n \in Nat \ {0}
    /\ offset \in [1 .. n + 1 -> Nat]
    /\ offset[1] = claimOff
    /\ offset[n + 1] >= dataSize
    /\ \A i \in 1 .. n : /\ offset[i] < dataSize
                         /\ offset[i + 1] = offset[i] + SegmentLength(rdSize, dataSize, offset[i])

\* The red part ended in front of the i-th segment.
RedEnded(offset, rdSize, i) == \E j \in 1 .. i - 1 : EndsRed(rdSize, offset[j])

SegmentsAt(offset, n, rdSize, dataSize, claimLen, serial) ==
    [i \in 1 .. n |-> EncapsulateSegment(rdSize, dataSize, claimLen, serial,
                                         RedEnded(offset, rdSize, i), offset[i])]

\* No segment is empty, none above the MTU.
LEMMA SegmentLengthPositive ==
    ASSUME NEW rdSize \in Nat, NEW dataSize \in Nat, NEW o \in Int, o < dataSize
    PROVE  SegmentLength(rdSize, dataSize, o) \in 1 .. Capacity
BY CapacityAssumption DEF SegmentLength, EndsBlock, EndsRed

\* Behind the end of the block the length is still a number.
LEMMA SegmentLengthInt ==
    ASSUME NEW rdSize \in Nat, NEW dataSize \in Nat, NEW o \in Int
    PROVE  SegmentLength(rdSize, dataSize, o) \in Int
BY CapacityAssumption DEF SegmentLength, EndsBlock, EndsRed

\* The segments are cut at some offsets.
IsCut(segs, rdSize, dataSize, claimOff, claimLen, serial) ==
    \E offset, n : /\ CutAt(offset, n, rdSize, dataSize, claimOff)
                   /\ segs = SegmentsAt(offset, n, rdSize, dataSize, claimLen, serial)

\* The recursion of EncapsulateBlockData is defined and stops at the end.
LEMMA BlockIsCut ==
    ASSUME NEW rdSize \in Nat, NEW dataLen \in Nat, NEW claimOff \in Nat, NEW claimLen \in Nat,
           NEW serial, NEW dataSize \in Nat,
           dataSize = claimOff + (IF claimLen = 0 THEN dataLen ELSE claimLen),
           claimOff < dataSize
    PROVE  IsCut(EncapsulateBlockData(rdSize, dataLen, claimOff, claimLen, serial),
                 rdSize, dataSize, claimOff, claimLen, serial)
<1> DEFINE next(o) == o + SegmentLength(rdSize, dataSize, o)
           step == [i \in 1 .. dataSize |-> [o \in Int |-> next(o)]]
           offset[i \in 1 .. dataSize + 1] ==
               IF i = 1 THEN claimOff ELSE next(offset[i - 1])
           C == {i \in 1 .. dataSize : offset[i + 1] >= dataSize}
<1>1. \A o \in Int : next(o) \in Int
    BY SegmentLengthInt
<1>2. EncapsulateBlockData(rdSize, dataLen, claimOff, claimLen, serial)
        = SegmentsAt(offset, Min(C), rdSize, dataSize, claimLen, serial)
    BY DEF EncapsulateBlockData, SegmentsAt, RedEnded
<1>3. PICK f : StepsFrom(f, Int, claimOff, step, dataSize)
    <2>1. step \in [1 .. dataSize -> [Int -> Int]] /\ claimOff \in Int
        BY <1>1
    <2> HIDE DEF step
    <2> QED BY <2>1, StepsExist
<1>4. /\ f \in [0 .. dataSize -> Int] /\ f[0] = claimOff
      /\ \A i \in 1 .. dataSize : f[i] = next(f[i - 1])
    <2>1. /\ f \in [0 .. dataSize -> Int] /\ f[0] = claimOff
          /\ \A i \in 1 .. dataSize : f[i] = step[i][f[i - 1]]
        BY <1>3, Zenon DEF StepsFrom
    <2>2. ASSUME NEW i \in 1 .. dataSize PROVE f[i] = next(f[i - 1])
        <3>1. f[i - 1] \in Int
            <4>1. i - 1 \in 0 .. dataSize
                OBVIOUS
            <4> QED BY <2>1, <4>1
        <3> HIDE DEF next
        <3> QED BY <2>1, <3>1
    <2> HIDE DEF next
    <2> QED BY <2>1, <2>2
<1> HIDE DEF next
<1> DEFINE g == [i \in 1 .. dataSize + 1 |-> f[i - 1]]
<1>5. g = [i \in 1 .. dataSize + 1 |-> IF i = 1 THEN claimOff ELSE next(g[i - 1])]
    <2> SUFFICES ASSUME NEW i \in 1 .. dataSize + 1
                 PROVE  g[i] = IF i = 1 THEN claimOff ELSE next(g[i - 1])
        OBVIOUS
    <2>1. i # 1 => i - 1 \in 1 .. dataSize /\ i - 1 \in 1 .. dataSize + 1
        OBVIOUS
    <2> QED BY <1>4, <2>1
<1>6. offset = [i \in 1 .. dataSize + 1 |-> IF i = 1 THEN claimOff ELSE next(offset[i - 1])]
    <2> HIDE DEF g
    <2> QED BY <1>5
<1> HIDE DEF offset
<1>7. /\ offset[1] = claimOff
      /\ \A i \in 1 .. dataSize : offset[i + 1] = next(offset[i])
    <2>1. 1 \in 1 .. dataSize + 1
        OBVIOUS
    <2>2. ASSUME NEW i \in 1 .. dataSize PROVE offset[i + 1] = next(offset[i])
        <3>1. i + 1 \in 1 .. dataSize + 1 /\ i + 1 # 1 /\ (i + 1) - 1 = i
            OBVIOUS
        <3>2. offset[i + 1] = next(offset[(i + 1) - 1])
            BY <1>6, <3>1, Zenon
        <3> QED BY <3>1, <3>2
    <2> QED BY <1>6, <2>1, <2>2
\* as long as the end is not reached, the offset grows
<1> DEFINE Open(k) == \A i \in 1 .. k - 1 : i \notin C
           S == {k \in Nat : k \in 1 .. dataSize + 1 /\ Open(k) =>
                                offset[k] \in Nat /\ offset[k] >= claimOff + k - 1}
<1>8. Nat \subseteq S
    <2>1. 0 \in S
        OBVIOUS
    <2>2. ASSUME NEW k \in Nat, k \in S PROVE k + 1 \in S
        <3> SUFFICES ASSUME k + 1 \in 1 .. dataSize + 1, Open(k + 1)
                     PROVE  offset[k + 1] \in Nat /\ offset[k + 1] >= claimOff + k
            OBVIOUS
        <3>1. CASE k = 0
            BY <1>7, <3>1
        <3>2. CASE k # 0
            <4>1. k \in 1 .. dataSize /\ Open(k)
                BY <3>2
            <4>2. offset[k] \in Nat /\ offset[k] >= claimOff + k - 1
                BY <2>2, <4>1
            <4>3. offset[k] < dataSize
                <5>1. CASE k = 1
                    BY <1>7, <5>1
                <5>2. CASE k # 1
                    <6>1. k - 1 \in 1 .. dataSize /\ k - 1 \in 1 .. (k + 1) - 1 /\ (k - 1) + 1 = k
                        BY <3>2, <4>1, <5>2
                    <6>2. ~(offset[(k - 1) + 1] >= dataSize)
                        BY <6>1
                    <6> QED BY <4>2, <6>1, <6>2
                <5> QED BY <5>1, <5>2
            <4>4. next(offset[k]) \in Nat /\ next(offset[k]) >= offset[k] + 1
                <5>1. SegmentLength(rdSize, dataSize, offset[k]) \in 1 .. Capacity
                    BY <4>2, <4>3, SegmentLengthPositive
                <5> HIDE DEF S, C
                <5> QED BY <4>2, <5>1, CapacityAssumption DEF next
            <4> QED BY <1>7, <4>1, <4>2, <4>4
        <3> QED BY <3>1, <3>2
    <2> HIDE DEF S
    <2> QED BY <2>1, <2>2, AllNat
<1>9. C # {}
    <2> SUFFICES ASSUME C = {} PROVE FALSE
        OBVIOUS
    <2>1. dataSize + 1 \in S
        <3> HIDE DEF S
        <3> QED BY <1>8
    <2>2. dataSize \in 1 .. dataSize /\ dataSize + 1 \in 1 .. dataSize + 1 /\ Open(dataSize + 1)
        <3> HIDE DEF C
        <3> QED OBVIOUS
    <2>3. offset[dataSize + 1] \in Nat /\ offset[dataSize + 1] >= claimOff + (dataSize + 1) - 1
        <3> HIDE DEF Open
        <3> QED BY <2>1, <2>2
    <2>4. dataSize \in C
        <3> HIDE DEF Open, S
        <3> QED BY <2>2, <2>3
    <2> QED BY <2>4
<1> DEFINE n == Min(C)
<1>10. n \in C /\ \A i \in C : n <= i
    <2>1. C \subseteq Nat
        OBVIOUS
    <2> HIDE DEF C
    <2> QED BY <1>9, <2>1, MinOfNat
<1> HIDE DEF n
<1>11. n \in 1 .. dataSize /\ offset[n + 1] >= dataSize
    BY <1>10
<1>12. ASSUME NEW i \in 1 .. n
       PROVE  /\ offset[i] \in Nat /\ offset[i] < dataSize
              /\ offset[i + 1] = next(offset[i])
    <2>1. i \in 1 .. dataSize /\ Open(i)
        BY <1>10, <1>11
    <2>2. offset[i] \in Nat
        BY <1>8, <2>1
    <2>3. CASE i = 1
        BY <1>7, <2>1, <2>3
    <2>4. CASE i # 1
        <3>1. i - 1 \in 1 .. dataSize /\ i - 1 \in 1 .. i - 1 /\ (i - 1) + 1 = i
            BY <2>1, <2>4
        <3>2. ~(offset[(i - 1) + 1] >= dataSize)
            BY <2>1, <3>1
        <3> QED BY <1>7, <2>1, <2>2, <3>1, <3>2
    <2> QED BY <2>3, <2>4
<1>13. offset[n + 1] \in Nat
    <2>1. n \in 1 .. n
        BY <1>11
    <2>2. SegmentLength(rdSize, dataSize, offset[n]) \in 1 .. Capacity
        <3>1. offset[n] \in Int /\ offset[n] < dataSize
            BY <1>12, <2>1
        <3> QED BY <3>1, SegmentLengthPositive
    <2>3. offset[n] \in Nat /\ offset[n + 1] = offset[n] + SegmentLength(rdSize, dataSize, offset[n])
        BY <1>12, <2>1 DEF next
    <2> HIDE DEF S, C, Open
    <2> QED BY <2>2, <2>3, CapacityAssumption
<1> DEFINE cut == [i \in 1 .. n + 1 |-> offset[i]]
<1>14. CutAt(cut, n, rdSize, dataSize, claimOff)
    <2>1. \A i \in 1 .. n + 1 : cut[i] = offset[i] /\ cut[i] \in Nat
        <3> SUFFICES ASSUME NEW i \in 1 .. n + 1 PROVE offset[i] \in Nat
            OBVIOUS
        <3>1. i # n + 1 => i \in 1 .. n
            BY <1>11
        <3> QED BY <1>12, <1>13, <3>1
    <2>2. n \in Nat \ {0} /\ 1 \in 1 .. n + 1 /\ n + 1 \in 1 .. n + 1
        BY <1>11
    <2>3. ASSUME NEW i \in 1 .. n
          PROVE  cut[i] < dataSize /\ cut[i + 1] = cut[i] + SegmentLength(rdSize, dataSize, cut[i])
        <3>1. i \in 1 .. n + 1 /\ i + 1 \in 1 .. n + 1
            BY <1>11
        <3> QED BY <1>12, <2>1, <3>1 DEF next
    <2>4. cut \in [1 .. n + 1 -> Nat]
        BY <2>1
    <2> HIDE DEF cut
    <2> QED BY <1>7, <1>11, <2>1, <2>2, <2>3, <2>4 DEF CutAt
<1>15. SegmentsAt(cut, n, rdSize, dataSize, claimLen, serial)
         = SegmentsAt(offset, n, rdSize, dataSize, claimLen, serial)
    <2>1. ASSUME NEW i \in 1 .. n
          PROVE  cut[i] = offset[i] /\ RedEnded(cut, rdSize, i) = RedEnded(offset, rdSize, i)
        BY <1>11 DEF RedEnded
    <2> HIDE DEF cut
    <2> QED BY <2>1 DEF SegmentsAt
<1> QED BY <1>2, <1>14, <1>15 DEF n, IsCut

----------------------------------------------------------------------------
(* Claims.                                                                 *)

\* A set of claims as a record can keep it: finitely many, none empty.
ClaimSet(cl) ==
    /\ \E b \in Nat : DOMAIN cl \subseteq 0 .. b
    /\ cl \in [DOMAIN cl -> Nat \ {0}]

\* No two claims overlap.
Disjoint(cl) == \A o, p \in DOMAIN cl : o < p => Upper(cl, o) <= p

\* No two claims overlap or touch: what a compaction leaves.
Compacted(cl) == \A o, p \in DOMAIN cl : o < p => Upper(cl, o) < p

\* A set of claims within bounds is a set of numbers with an upper bound.
LEMMA ClaimSetDomain ==
    ASSUME NEW cl, ClaimSet(cl)
    PROVE  /\ DOMAIN cl \subseteq Nat /\ IsFiniteSet(DOMAIN cl)
           /\ \A o \in DOMAIN cl : cl[o] \in Nat \ {0} /\ Upper(cl, o) \in Nat /\ o < Upper(cl, o)
           /\ \A S \in SUBSET DOMAIN cl : S # {} =>
                 /\ Max(S) \in S /\ \A y \in S : y <= Max(S)
                 /\ Min(S) \in S /\ \A y \in S : Min(S) <= y
<1>1. PICK b \in Nat : DOMAIN cl \subseteq 0 .. b
    BY DEF ClaimSet
<1>2. DOMAIN cl \subseteq Nat
    BY <1>1
<1>3. IsFiniteSet(DOMAIN cl)
    <2>1. IsFiniteSet(0 .. b)
        BY FS_Interval
    <2> QED BY <1>1, <2>1, FS_Subset
<1>4. ASSUME NEW o \in DOMAIN cl
      PROVE  cl[o] \in Nat \ {0} /\ Upper(cl, o) \in Nat /\ o < Upper(cl, o)
    <2>1. o \in Nat /\ cl[o] \in Nat \ {0}
        BY <1>2 DEF ClaimSet
    <2> QED BY <2>1 DEF Upper
<1>5. ASSUME NEW S \in SUBSET DOMAIN cl, S # {}
      PROVE  /\ Max(S) \in S /\ \A y \in S : y <= Max(S)
             /\ Min(S) \in S /\ \A y \in S : Min(S) <= y
    <2>1. S \subseteq Nat /\ \A y \in S : y <= b
        BY <1>1, <1>2, <1>5
    <2> QED BY <1>5, <2>1, MaxOfNat, MinOfNat
<1> QED BY <1>2, <1>3, <1>4, <1>5

\* The claim just before o, which the loops over the set carry along.
LEMMA Predecessor ==
    ASSUME NEW cl, ClaimSet(cl), NEW o \in DOMAIN cl, NEW q \in DOMAIN cl, q < o
    PROVE  \E p \in DOMAIN cl : /\ p < o /\ \A r \in DOMAIN cl : r < o => r <= p
                               /\ LastUpper(cl, o) = Upper(cl, p)
                               /\ Before(cl, o) # {}
<1>1. Before(cl, o) # {} /\ Before(cl, o) \in SUBSET DOMAIN cl
    BY DEF Before
<1>2. Max(Before(cl, o)) \in Before(cl, o) /\ \A y \in Before(cl, o) : y <= Max(Before(cl, o))
    BY <1>1, ClaimSetDomain
<1> QED BY <1>1, <1>2 DEF Before, LastUpper

\* The claims that the compaction merges into the one at o.
RunOf(cl, o) ==
    {e \in DOMAIN cl : e >= o /\ \A s \in {p \in DOMAIN cl : ~Continues(cl, p)} : s <= o \/ s > e}

\* The first of the claims merged into one starts where it does, the last ends
\* where it does.
LEMMA CompactClaimsRuns ==
    ASSUME NEW cl, ClaimSet(cl)
    PROVE  LET c == CompactClaims(cl)
           IN  /\ DOMAIN c = {p \in DOMAIN cl : ~Continues(cl, p)}
               /\ \A o \in DOMAIN c : \E m \in RunOf(cl, o) :
                     Upper(c, o) = Upper(cl, m) /\ \A e \in RunOf(cl, o) : e <= m
<1> DEFINE c == CompactClaims(cl)
           starts == {p \in DOMAIN cl : ~Continues(cl, p)}
<1>1. c = [o \in starts |-> Upper(cl, Max(RunOf(cl, o))) - o]
    BY DEF CompactClaims, RunOf
<1>2. ASSUME NEW o \in starts
      PROVE  /\ Max(RunOf(cl, o)) \in RunOf(cl, o) /\ \A e \in RunOf(cl, o) : e <= Max(RunOf(cl, o))
             /\ Upper(c, o) = Upper(cl, Max(RunOf(cl, o)))
    <2>1. o \in RunOf(cl, o) /\ RunOf(cl, o) \in SUBSET DOMAIN cl
        <3>1. \A p \in DOMAIN cl : p \in Nat
            BY ClaimSetDomain
        <3> QED BY <3>1 DEF RunOf
    <2>2. Max(RunOf(cl, o)) \in RunOf(cl, o) /\ \A e \in RunOf(cl, o) : e <= Max(RunOf(cl, o))
        BY <2>1, ClaimSetDomain
    <2>3. Upper(cl, Max(RunOf(cl, o))) \in Nat /\ o \in Nat
        BY <2>1, <2>2, ClaimSetDomain
    <2>4. Upper(c, o) = o + (Upper(cl, Max(RunOf(cl, o))) - o)
        BY <1>1 DEF Upper
    <2> QED BY <2>2, <2>3, <2>4
<1> QED BY <1>1, <1>2

\* Compacting yields claims again, and begins them where claims began.
LEMMA CompactClaimsSet ==
    ASSUME NEW cl, ClaimSet(cl)
    PROVE  ClaimSet(CompactClaims(cl)) /\ DOMAIN CompactClaims(cl) \subseteq DOMAIN cl
<1> DEFINE c == CompactClaims(cl)
           starts == {p \in DOMAIN cl : ~Continues(cl, p)}
<1>1. c = [o \in starts |-> c[o]] /\ DOMAIN c = starts
    <2> DEFINE u(o) == Upper(cl, Max(RunOf(cl, o))) - o
    <2>1. c = [o \in starts |-> u(o)]
        BY DEF CompactClaims, RunOf
    <2> HIDE DEF u, c
    <2> QED BY <2>1
<1>2. ASSUME NEW o \in starts PROVE c[o] \in Nat \ {0}
    <2>1. PICK m \in RunOf(cl, o) : Upper(c, o) = Upper(cl, m)
        BY <1>1, CompactClaimsRuns
    <2>2. m \in DOMAIN cl /\ m >= o
        BY DEF RunOf
    <2>3. o \in Nat /\ m \in Nat /\ Upper(cl, m) \in Nat /\ m < Upper(cl, m)
        BY <2>2, ClaimSetDomain
    <2>4. c[o] = Upper(cl, Max(RunOf(cl, o))) - o
        BY DEF CompactClaims, RunOf
    <2>5. RunOf(cl, o) \in SUBSET DOMAIN cl /\ RunOf(cl, o) # {}
        BY DEF RunOf
    <2>6. c[o] \in Int
        BY <2>3, <2>4, <2>5, ClaimSetDomain
    <2>7. o + c[o] = Upper(cl, m)
        BY <2>1 DEF Upper
    <2> HIDE DEF c
    <2> QED BY <2>2, <2>3, <2>6, <2>7
<1>3. PICK b \in Nat : DOMAIN cl \subseteq 0 .. b
    BY DEF ClaimSet
<1> HIDE DEF c
<1>4. ClaimSet(c)
    BY <1>1, <1>2, <1>3 DEF ClaimSet
<1> QED BY <1>1, <1>4 DEF c

\* In a run each claim but the last ends where the next one starts.
LEMMA RunTouches ==
    ASSUME NEW cl, ClaimSet(cl), NEW o \in DOMAIN cl, NEW e \in RunOf(cl, o), NEW m \in RunOf(cl, o),
           e < m
    PROVE  \E q \in RunOf(cl, o) : q > e /\ q <= m /\ Upper(cl, e) = q
<1> DEFINE F == {q \in DOMAIN cl : q > e}
           q == Min(F)
<1>1. e \in DOMAIN cl /\ m \in DOMAIN cl /\ DOMAIN cl \subseteq Nat /\ o <= e
    BY ClaimSetDomain DEF RunOf
<1>2. q \in F /\ \A y \in F : q <= y
    <2>1. F \in SUBSET DOMAIN cl /\ F # {}
        BY <1>1
    <2> QED BY <2>1, ClaimSetDomain
<1>3. q \in DOMAIN cl /\ q > e /\ q <= m
    BY <1>1, <1>2
<1> HIDE DEF q
<1>4. \A s \in {p \in DOMAIN cl : ~Continues(cl, p)} : s <= o \/ s > m
    BY DEF RunOf
<1>5. Continues(cl, q)
    BY <1>1, <1>3, <1>4
<1>6. q \in RunOf(cl, o)
    <2>1. \A s \in {p \in DOMAIN cl : ~Continues(cl, p)} : s <= o \/ s > q
        BY <1>1, <1>3, <1>4
    <2> QED BY <1>1, <1>3, <2>1 DEF RunOf
<1>7. PICK p \in DOMAIN cl : /\ p < q /\ \A r \in DOMAIN cl : r < q => r <= p
                             /\ LastUpper(cl, q) = Upper(cl, p)
    BY <1>1, <1>3, Predecessor
<1>8. p \in Nat /\ e <= p
    BY <1>1, <1>3, <1>7
<1>9. ~(p > e)
    <2> SUFFICES ASSUME p > e PROVE FALSE
        OBVIOUS
    <2>1. q <= p
        BY <1>2
    <2> QED BY <1>1, <1>3, <1>7, <1>8, <2>1
<1>10. Upper(cl, e) = q
    BY <1>1, <1>5, <1>7, <1>8, <1>9 DEF Continues
<1> QED BY <1>3, <1>6, <1>10

\* Every claim is in the run of one that starts no later.
LEMMA EveryClaimInRun ==
    ASSUME NEW cl, ClaimSet(cl), NEW e \in DOMAIN cl
    PROVE  \E o \in DOMAIN CompactClaims(cl) : o <= e /\ e \in RunOf(cl, o)
<1> DEFINE c == CompactClaims(cl)
           S == {s \in DOMAIN c : s <= e}
           f == Min(DOMAIN cl)
           o == Max(S)
<1>1. DOMAIN cl \subseteq Nat /\ DOMAIN c = {p \in DOMAIN cl : ~Continues(cl, p)}
    BY CompactClaimsRuns, ClaimSetDomain
<1>2. f \in DOMAIN cl /\ \A y \in DOMAIN cl : f <= y
    BY ClaimSetDomain
<1>3. f \in DOMAIN c
    <2>1. Before(cl, f) = {}
        BY <1>1, <1>2 DEF Before
    <2> QED BY <1>1, <1>2, <2>1 DEF Continues
<1>4. o \in S /\ \A y \in S : y <= o
    <2>1. S \in SUBSET DOMAIN cl /\ S # {}
        BY <1>1, <1>2, <1>3
    <2> QED BY <2>1, ClaimSetDomain
<1> HIDE DEF o
<1>5. \A s \in {p \in DOMAIN cl : ~Continues(cl, p)} : s <= o \/ s > e
    BY <1>1, <1>4
<1> QED BY <1>1, <1>4, <1>5 DEF RunOf

\* A compaction neither adds nor loses a unit.
LEMMA CompactClaimsBytes ==
    ASSUME NEW cl, ClaimSet(cl)
    PROVE  Bytes(CompactClaims(cl)) = Bytes(cl)
<1> DEFINE c == CompactClaims(cl)
<1>1. DOMAIN cl \subseteq Nat /\ DOMAIN c \subseteq DOMAIN cl
    BY CompactClaimsSet, ClaimSetDomain
<1>2. \A e \in DOMAIN cl : Upper(cl, e) \in Nat /\ e < Upper(cl, e)
    BY ClaimSetDomain
<1>3. ASSUME NEW o \in DOMAIN c, NEW b \in o .. Upper(c, o) - 1 PROVE b \in Bytes(cl)
    <2>1. PICK m \in RunOf(cl, o) : Upper(c, o) = Upper(cl, m) /\ \A e \in RunOf(cl, o) : e <= m
        BY CompactClaimsRuns
    <2>2. o \in DOMAIN cl /\ m \in DOMAIN cl
        BY <1>1 DEF RunOf
    <2> DEFINE S == {e \in RunOf(cl, o) : e <= b}
               e == Max(S)
    <2>3. e \in S /\ \A y \in S : y <= e
        <3>1. o \in RunOf(cl, o)
            BY <1>1, <2>2 DEF RunOf
        <3>2. S # {} /\ S \in SUBSET DOMAIN cl
            BY <1>1, <2>2, <3>1 DEF RunOf
        <3> QED BY <3>2, ClaimSetDomain
    <2>4. e \in DOMAIN cl /\ e \in Nat /\ e <= b /\ b \in Int /\ e \in RunOf(cl, o)
        BY <1>1, <2>2, <2>3 DEF RunOf
    <2> HIDE DEF e
    <2>5. b < Upper(cl, e)
        <3>1. CASE e = m
            BY <1>2, <2>1, <2>2, <3>1
        <3>2. CASE e # m
            <4>1. e < m
                BY <1>1, <2>1, <2>2, <2>4, <3>2
            <4>2. PICK q \in RunOf(cl, o) : q > e /\ q <= m /\ Upper(cl, e) = q
                BY <2>2, <2>4, <4>1, RunTouches
            <4>3. q \in Nat
                BY <1>1 DEF RunOf
            <4>4. ~(q <= b)
                BY <2>3, <2>4, <4>2, <4>3
            <4> QED BY <2>4, <4>2, <4>3, <4>4
        <3> QED BY <3>1, <3>2
    <2>6. b \in e .. Upper(cl, e) - 1
        BY <1>2, <2>4, <2>5
    <2> QED BY <2>4, <2>6 DEF Bytes
<1>4. ASSUME NEW e \in DOMAIN cl, NEW b \in e .. Upper(cl, e) - 1 PROVE b \in Bytes(c)
    <2>1. PICK o \in DOMAIN c : o <= e /\ e \in RunOf(cl, o)
        BY EveryClaimInRun
    <2>2. PICK m \in RunOf(cl, o) : Upper(c, o) = Upper(cl, m) /\ e <= m
        BY <2>1, CompactClaimsRuns
    <2>3. m \in DOMAIN cl /\ m \in Nat /\ o \in DOMAIN cl /\ o \in Nat /\ e \in Nat
        BY <1>1 DEF RunOf
    <2>4. Upper(cl, e) <= Upper(cl, m)
        <3>1. CASE e = m
            BY <1>2, <2>3, <3>1
        <3>2. CASE e < m
            <4>1. PICK q \in RunOf(cl, o) : q > e /\ q <= m /\ Upper(cl, e) = q
                BY <2>1, <2>3, <3>2, RunTouches
            <4>2. q \in Nat
                BY <1>1 DEF RunOf
            <4> QED BY <1>2, <2>3, <4>1, <4>2
        <3> QED BY <2>2, <2>3, <3>1, <3>2
    <2>5. b \in o .. Upper(c, o) - 1
        BY <1>2, <2>1, <2>2, <2>3, <2>4
    <2> QED BY <2>1, <2>5 DEF Bytes
<1> QED BY <1>3, <1>4 DEF Bytes

\* Of claims that do not overlap it leaves no two that touch.
LEMMA CompactClaimsCompacted ==
    ASSUME NEW cl, ClaimSet(cl), Disjoint(cl)
    PROVE  Compacted(CompactClaims(cl))
<1> DEFINE c == CompactClaims(cl)
<1>1. DOMAIN cl \subseteq Nat /\ DOMAIN c = {p \in DOMAIN cl : ~Continues(cl, p)}
    BY CompactClaimsRuns, ClaimSetDomain
<1>2. \A e \in DOMAIN cl : Upper(cl, e) \in Nat /\ e < Upper(cl, e)
    BY ClaimSetDomain
<1>3. ASSUME NEW o \in DOMAIN c, NEW p \in DOMAIN c, o < p PROVE Upper(c, o) < p
    <2>1. PICK m \in RunOf(cl, o) : Upper(c, o) = Upper(cl, m)
        BY CompactClaimsRuns
    <2>2. m \in DOMAIN cl /\ m \in Nat /\ o \in Nat /\ p \in Nat /\ p \in DOMAIN cl /\ ~Continues(cl, p)
        BY <1>1 DEF RunOf
    <2>3. m < p
        BY <1>3, <2>2 DEF RunOf
    <2>4. Upper(cl, m) <= p
        BY <2>2, <2>3 DEF Disjoint
    <2>5. Upper(cl, m) # p
        <3> SUFFICES ASSUME Upper(cl, m) = p PROVE FALSE
            OBVIOUS
        <3>1. PICK q \in DOMAIN cl : /\ q < p /\ \A r \in DOMAIN cl : r < p => r <= q
                                     /\ LastUpper(cl, p) = Upper(cl, q) /\ Before(cl, p) # {}
            BY <2>2, <2>3, Predecessor
        <3>2. q \in Nat /\ m <= q
            BY <1>1, <2>2, <2>3, <3>1
        <3>3. m = q
            <4> SUFFICES ASSUME m < q PROVE FALSE
                BY <2>2, <3>2
            <4>1. Upper(cl, m) <= q
                BY <2>2, <3>1 DEF Disjoint
            <4> QED BY <2>2, <3>1, <3>2, <4>1
        <3> QED BY <2>2, <3>1, <3>3 DEF Continues
    <2> QED BY <1>2, <2>1, <2>2, <2>4, <2>5
<1> QED BY <1>3 DEF Compacted

\* Claims that do not touch are left as they are.
LEMMA CompactClaimsIdle ==
    ASSUME NEW cl, ClaimSet(cl), Compacted(cl)
    PROVE  CompactClaims(cl) = cl
<1> DEFINE c == CompactClaims(cl)
           u(o) == Upper(cl, Max(RunOf(cl, o))) - o
<1>1. DOMAIN cl \subseteq Nat
    BY ClaimSetDomain
<1>2. ASSUME NEW o \in DOMAIN cl PROVE ~Continues(cl, o)
    <2> SUFFICES ASSUME Continues(cl, o) PROVE FALSE
        OBVIOUS
    <2>1. PICK q \in DOMAIN cl : q < o
        BY DEF Continues, Before
    <2>2. PICK p \in DOMAIN cl : p < o /\ LastUpper(cl, o) = Upper(cl, p)
        BY <2>1, Predecessor
    <2>3. Upper(cl, p) < o
        BY <2>2 DEF Compacted
    <2> QED BY <1>1, <2>2, <2>3 DEF Continues
<1>3. c = [o \in DOMAIN cl |-> u(o)]
    <2>1. {p \in DOMAIN cl : ~Continues(cl, p)} = DOMAIN cl
        BY <1>2
    <2>2. c = [o \in {p \in DOMAIN cl : ~Continues(cl, p)} |-> u(o)]
        BY DEF CompactClaims, RunOf
    <2> HIDE DEF u, c
    <2> QED BY <2>1, <2>2
<1>4. ASSUME NEW o \in DOMAIN cl PROVE u(o) = cl[o]
    <2>1. RunOf(cl, o) = {o}
        BY <1>1, <1>2 DEF RunOf
    <2>2. {o} \in SUBSET DOMAIN cl /\ {o} # {}
        OBVIOUS
    <2>3. Max({o}) = o
        BY <2>2, ClaimSetDomain
    <2>4. o \in Nat /\ cl[o] \in Nat
        BY ClaimSetDomain
    <2> QED BY <2>1, <2>3, <2>4 DEF Upper
<1>5. cl = [o \in DOMAIN cl |-> cl[o]]
    BY DEF ClaimSet
<1> HIDE DEF u, c
<1>6. c = cl
    BY <1>3, <1>4, <1>5
<1> QED BY <1>6 DEF c

\* What InsertClaim records before it compacts.
Recorded(cl, off, len) ==
    IF InClaims(cl, off, len) THEN cl
    ELSE IF Expandable(cl, off) # {}
         THEN [cl EXCEPT ![Min(Expandable(cl, off))] = @ + len]
         ELSE Insert(cl, off, len)

\* A claim at off of len units is known, stands behind a claim that ends there,
\* has an offset that is taken, or is new.
RecordedAs(cl, off, len, r) ==
    \/ r = cl /\ InClaims(cl, off, len)
    \/ /\ ~InClaims(cl, off, len)
       /\ \E e \in DOMAIN cl : /\ Upper(cl, e) = off /\ DOMAIN r = DOMAIN cl
                               /\ Upper(r, e) = off + len
                               /\ \A o \in DOMAIN cl \ {e} : Upper(r, o) = Upper(cl, o)
    \/ /\ ~InClaims(cl, off, len) /\ Expandable(cl, off) = {}
       /\ off \in DOMAIN cl /\ r = cl
    \/ /\ ~InClaims(cl, off, len) /\ Expandable(cl, off) = {}
       /\ off \notin DOMAIN cl /\ DOMAIN r = DOMAIN cl \union {off}
       /\ Upper(r, off) = off + len
       /\ \A o \in DOMAIN cl : r[o] = cl[o] /\ Upper(r, o) = Upper(cl, o)

\* InsertClaim meets one of these cases, and records a claim set.
LEMMA RecordedCases ==
    ASSUME NEW cl, ClaimSet(cl), NEW off \in Nat, NEW len \in Nat \ {0}
    PROVE  /\ ClaimSet(Recorded(cl, off, len))
           /\ RecordedAs(cl, off, len, Recorded(cl, off, len))
<1> DEFINE r == Recorded(cl, off, len)
<1>1. /\ DOMAIN cl \subseteq Nat
      /\ \A o \in DOMAIN cl : cl[o] \in Nat \ {0} /\ Upper(cl, o) \in Nat /\ o < Upper(cl, o)
      /\ cl \in [DOMAIN cl -> Nat \ {0}]
    BY ClaimSetDomain DEF ClaimSet
<1>2. PICK b \in Nat : DOMAIN cl \subseteq 0 .. b
    BY DEF ClaimSet
<1>3. CASE InClaims(cl, off, len)
    BY <1>3 DEF Recorded, RecordedAs
<1>4. CASE ~InClaims(cl, off, len) /\ Expandable(cl, off) # {}
    <2> DEFINE e == Min(Expandable(cl, off))
    <2>1. e \in Expandable(cl, off)
        <3>1. Expandable(cl, off) \in SUBSET DOMAIN cl
            BY DEF Expandable
        <3> QED BY <1>4, <3>1, ClaimSetDomain
    <2>2. e \in DOMAIN cl /\ Upper(cl, e) = off
        BY <2>1 DEF Expandable
    <2>3. r = [cl EXCEPT ![e] = @ + len]
        BY <1>4 DEF Recorded
    <2> HIDE DEF e, r
    <2>4. DOMAIN r = DOMAIN cl /\ r[e] = cl[e] + len /\ \A o \in DOMAIN cl \ {e} : r[o] = cl[o]
        BY <1>1, <2>2, <2>3
    <2>5. r \in [DOMAIN cl -> Nat \ {0}]
        <3>1. cl[e] + len \in Nat \ {0}
            BY <1>1, <2>2
        <3> QED BY <1>1, <2>2, <2>3, <3>1
    <2>6. Upper(r, e) = off + len
        BY <1>1, <2>2, <2>4 DEF Upper
    <2>7. ClaimSet(r)
        BY <1>2, <2>4, <2>5 DEF ClaimSet
    <2>8. \A o \in DOMAIN cl \ {e} : Upper(r, o) = Upper(cl, o)
        BY <2>4 DEF Upper
    <2> QED BY <1>4, <2>2, <2>4, <2>6, <2>7, <2>8 DEF r, RecordedAs
<1>5. CASE ~InClaims(cl, off, len) /\ Expandable(cl, off) = {}
    <2>1. r = [x \in DOMAIN cl \union {off} |-> IF x \in DOMAIN cl THEN cl[x] ELSE len]
        BY <1>5 DEF Recorded, Insert
    <2> HIDE DEF r
    <2>2. CASE off \in DOMAIN cl
        <3>1. r = cl
            BY <1>1, <2>1, <2>2
        <3> QED BY <1>5, <2>2, <3>1 DEF r, RecordedAs
    <2>3. CASE off \notin DOMAIN cl
        <3>1. /\ DOMAIN r = DOMAIN cl \union {off} /\ r[off] = len
              /\ \A o \in DOMAIN cl : r[o] = cl[o]
            BY <2>1, <2>3
        <3>2. ClaimSet(r)
            <4>1. r \in [DOMAIN r -> Nat \ {0}]
                BY <1>1, <2>1
            <4>2. PICK d \in Nat : b <= d /\ off <= d
                <5>1. CASE b <= off
                    BY <5>1
                <5>2. CASE off <= b
                    BY <5>2
                <5> QED BY <5>1, <5>2
            <4>3. DOMAIN r \subseteq 0 .. d
                BY <1>2, <3>1, <4>2
            <4> QED BY <4>1, <4>3 DEF ClaimSet
        <3> QED BY <1>5, <2>3, <3>1, <3>2 DEF r, Upper, RecordedAs
    <2> QED BY <2>2, <2>3
<1> QED BY <1>3, <1>4, <1>5

\* Whatever comes, InsertClaim keeps what is claimed and adds at most what the
\* new claim covers.
LEMMA InsertClaimBounds ==
    ASSUME NEW cl, ClaimSet(cl), NEW off \in Nat, NEW len \in Nat \ {0}
    PROVE  /\ ClaimSet(InsertClaim(cl, off, len))
           /\ Bytes(cl) \subseteq Bytes(InsertClaim(cl, off, len))
           /\ Bytes(InsertClaim(cl, off, len)) \subseteq Bytes(cl) \union (off .. off + len - 1)
<1> DEFINE r == Recorded(cl, off, len)
<1>1. InsertClaim(cl, off, len) = CompactClaims(r)
    BY DEF InsertClaim, Recorded
<1>2. ClaimSet(r) /\ RecordedAs(cl, off, len, r)
    BY RecordedCases
<1> HIDE DEF r
<1>0. \/ r = cl /\ InClaims(cl, off, len)
      \/ \E e \in DOMAIN cl : /\ Upper(cl, e) = off /\ DOMAIN r = DOMAIN cl
                             /\ Upper(r, e) = off + len
                             /\ \A o \in DOMAIN cl \ {e} : Upper(r, o) = Upper(cl, o)
      \/ off \in DOMAIN cl /\ r = cl
      \/ /\ DOMAIN r = DOMAIN cl \union {off} /\ Upper(r, off) = off + len
         /\ \A o \in DOMAIN cl : Upper(r, o) = Upper(cl, o)
    BY <1>2 DEF RecordedAs
<1>3. /\ \A o \in DOMAIN cl : o \in Nat /\ Upper(cl, o) \in Nat
      /\ \A o \in DOMAIN r : o \in Nat /\ Upper(r, o) \in Nat
    BY <1>2, ClaimSetDomain
<1>4. ASSUME NEW o \in DOMAIN cl PROVE o \in DOMAIN r /\ Upper(cl, o) <= Upper(r, o)
    BY <1>0, <1>3
<1>5. Bytes(cl) \subseteq Bytes(r)
    <2> SUFFICES ASSUME NEW o \in DOMAIN cl, NEW b \in o .. Upper(cl, o) - 1 PROVE b \in Bytes(r)
        BY DEF Bytes
    <2>1. b \in o .. Upper(r, o) - 1
        BY <1>3, <1>4
    <2> QED BY <1>4, <2>1 DEF Bytes
<1>6. ASSUME NEW o \in DOMAIN r, NEW b \in o .. Upper(r, o) - 1, b \notin off .. off + len - 1
      PROVE  b \in Bytes(cl)
    <2>1. o \in DOMAIN cl /\ b \in o .. Upper(cl, o) - 1
        <3>1. CASE r = cl
            BY <3>1
        <3>2. CASE \E e \in DOMAIN cl : /\ Upper(cl, e) = off /\ DOMAIN r = DOMAIN cl
                                        /\ Upper(r, e) = off + len
                                        /\ \A p \in DOMAIN cl \ {e} : Upper(r, p) = Upper(cl, p)
            BY <1>3, <1>6, <3>2
        <3>3. CASE /\ DOMAIN r = DOMAIN cl \union {off}
                   /\ Upper(r, off) = off + len
                   /\ \A p \in DOMAIN cl : Upper(r, p) = Upper(cl, p)
            BY <1>3, <1>6, <3>3
        <3> QED BY <1>0, <3>1, <3>2, <3>3
    <2> QED BY <2>1 DEF Bytes
<1>7. Bytes(CompactClaims(r)) = Bytes(r) /\ ClaimSet(CompactClaims(r))
    BY <1>2, CompactClaimsBytes, CompactClaimsSet
<1>8. Bytes(r) \subseteq Bytes(cl) \union (off .. off + len - 1)
    BY <1>6 DEF Bytes
<1> QED BY <1>1, <1>5, <1>7, <1>8

\* A claim that is known as a whole or not at all is recorded exactly, and
\* the claims stay apart.
LEMMA InsertClaimExact ==
    ASSUME NEW cl, ClaimSet(cl), Compacted(cl), NEW off \in Nat, NEW len \in Nat \ {0},
           \/ off .. off + len - 1 \subseteq Bytes(cl)
           \/ (off .. off + len - 1) \cap Bytes(cl) = {}
    PROVE  /\ Compacted(InsertClaim(cl, off, len))
           /\ Bytes(InsertClaim(cl, off, len)) = Bytes(cl) \union (off .. off + len - 1)
<1> DEFINE r == Recorded(cl, off, len)
           new == off .. off + len - 1
<1>1. /\ InsertClaim(cl, off, len) = CompactClaims(r) /\ ClaimSet(r)
      /\ RecordedAs(cl, off, len, r)
    BY RecordedCases DEF InsertClaim, Recorded
<1>2. \A o \in DOMAIN cl : o \in Nat /\ Upper(cl, o) \in Nat /\ o < Upper(cl, o)
    BY ClaimSetDomain
<1>3. \A o \in DOMAIN cl : \A b \in o .. Upper(cl, o) - 1 : b \in Bytes(cl)
    BY DEF Bytes
<1>4. off \in new
    OBVIOUS
<1>5. CASE new \subseteq Bytes(cl)
    <2>1. PICK o \in DOMAIN cl : off \in o .. Upper(cl, o) - 1
        BY <1>4, <1>5 DEF Bytes
    <2>2. off + len <= Upper(cl, o)
        <3> SUFFICES ASSUME off + len > Upper(cl, o) PROVE FALSE
            BY <1>2
        <3>1. Upper(cl, o) \in new
            BY <1>2, <2>1
        <3>2. PICK p \in DOMAIN cl : Upper(cl, o) \in p .. Upper(cl, p) - 1
            BY <1>5, <3>1 DEF Bytes
        <3>3. CASE p = o
            BY <1>2, <3>2, <3>3
        <3>4. CASE p > o
            BY <1>2, <3>2, <3>4 DEF Compacted
        <3>5. CASE p < o
            BY <1>2, <3>2, <3>5 DEF Compacted
        <3> QED BY <1>2, <3>3, <3>4, <3>5
    <2>3. InClaims(cl, off, len)
        BY <1>2, <2>1, <2>2 DEF InClaims
    <2>4. r = cl
        BY <2>3 DEF Recorded
    <2>5. CompactClaims(r) = cl
        BY <2>4, CompactClaimsIdle
    <2> QED BY <1>1, <1>5, <2>5
<1>6. CASE new \cap Bytes(cl) = {}
    <2>1. ~InClaims(cl, off, len)
        <3> SUFFICES ASSUME NEW o \in DOMAIN cl, {off, off + len} \subseteq o .. Upper(cl, o)
                     PROVE  FALSE
            BY DEF InClaims
        <3>1. off \in o .. Upper(cl, o) - 1
            BY <1>2
        <3> QED BY <1>3, <1>4, <1>6, <3>1
    <2>2. ASSUME NEW p \in DOMAIN cl PROVE Upper(cl, p) <= off \/ p >= off + len
        <3> SUFFICES ASSUME Upper(cl, p) > off, p < off + len PROVE FALSE
            BY <1>2
        <3>1. CASE p <= off
            <4>1. off \in p .. Upper(cl, p) - 1
                BY <1>2, <3>1
            <4> QED BY <1>3, <1>4, <1>6, <4>1
        <3>2. CASE p > off
            <4>1. p \in new /\ p \in p .. Upper(cl, p) - 1
                BY <1>2, <3>2
            <4> QED BY <1>3, <1>6, <4>1
        <3> QED BY <1>2, <3>1, <3>2
    <2>3. off \notin DOMAIN cl
        BY <1>2, <2>2
    <2> HIDE DEF r
    <2>0. \/ \E e \in DOMAIN cl : /\ Upper(cl, e) = off /\ DOMAIN r = DOMAIN cl
                                 /\ Upper(r, e) = off + len
                                 /\ \A o \in DOMAIN cl \ {e} : Upper(r, o) = Upper(cl, o)
          \/ /\ DOMAIN r = DOMAIN cl \union {off} /\ Upper(r, off) = off + len
             /\ \A o \in DOMAIN cl : Upper(r, o) = Upper(cl, o)
        BY <1>1, <2>1, <2>3 DEF RecordedAs
    <2>4. Disjoint(r) /\ new \subseteq Bytes(r)
        <3>1. CASE \E e \in DOMAIN cl : /\ Upper(cl, e) = off /\ DOMAIN r = DOMAIN cl
                                        /\ Upper(r, e) = off + len
                                        /\ \A o \in DOMAIN cl \ {e} : Upper(r, o) = Upper(cl, o)
            <4>1. PICK e \in DOMAIN cl : /\ Upper(cl, e) = off /\ DOMAIN r = DOMAIN cl
                                         /\ Upper(r, e) = off + len
                                         /\ \A o \in DOMAIN cl \ {e} : Upper(r, o) = Upper(cl, o)
                BY <3>1
            <4>2. ASSUME NEW o \in DOMAIN r, NEW p \in DOMAIN r, o < p PROVE Upper(r, o) <= p
                <5>1. Upper(cl, o) < p
                    BY <4>1, <4>2 DEF Compacted
                <5>2. CASE o = e
                    BY <1>2, <2>2, <4>1, <4>2, <5>1, <5>2
                <5>3. CASE o # e
                    BY <1>2, <4>1, <5>1, <5>3
                <5> QED BY <5>2, <5>3
            <4>3. \A b \in new : b \in e .. Upper(r, e) - 1
                BY <1>2, <4>1
            <4> QED BY <4>1, <4>2, <4>3 DEF Disjoint, Bytes
        <3>2. CASE /\ DOMAIN r = DOMAIN cl \union {off}
                   /\ Upper(r, off) = off + len
                   /\ \A o \in DOMAIN cl : Upper(r, o) = Upper(cl, o)
            <4>1. ASSUME NEW o \in DOMAIN r, NEW p \in DOMAIN r, o < p PROVE Upper(r, o) <= p
                <5>1. CASE o = off
                    BY <1>2, <2>2, <3>2, <4>1, <5>1
                <5>2. CASE p = off
                    BY <1>2, <2>2, <3>2, <4>1, <5>2
                <5>3. CASE o # off /\ p # off
                    <6>1. Upper(cl, o) < p /\ Upper(cl, o) \in Nat /\ p \in Nat
                        BY <1>2, <3>2, <4>1, <5>3 DEF Compacted
                    <6> QED BY <3>2, <5>3, <6>1
                <5> QED BY <5>1, <5>2, <5>3
            <4>2. \A b \in new : b \in off .. Upper(r, off) - 1
                BY <3>2
            <4> QED BY <3>2, <4>1, <4>2 DEF Disjoint, Bytes
        <3> QED BY <2>0, <3>1, <3>2
    <2>5. Compacted(CompactClaims(r)) /\ Bytes(CompactClaims(r)) = Bytes(r)
        BY <1>1, <2>4, CompactClaimsCompacted, CompactClaimsBytes
    <2>6. Bytes(InsertClaim(cl, off, len)) = Bytes(cl) \union new
        BY <1>1, <2>4, <2>5, InsertClaimBounds
    <2> QED BY <1>1, <2>5, <2>6
<1> QED BY <1>5, <1>6

\* The claims with a gap in front of them.
GapsIn(cl) == {o \in DOMAIN cl : LastUpper(cl, o) # o}

\* In front of a claim lies the start of the block, or the claim just before.
LEMMA LastUpperCases ==
    ASSUME NEW cl, ClaimSet(cl), NEW o \in DOMAIN cl
    PROVE  /\ LastUpper(cl, o) \in Nat
           /\ \/ LastUpper(cl, o) = 0 /\ \A q \in DOMAIN cl : o <= q
              \/ \E p \in DOMAIN cl : /\ p < o /\ \A r \in DOMAIN cl : r < o => r <= p
                                      /\ LastUpper(cl, o) = Upper(cl, p)
<1>1. DOMAIN cl \subseteq Nat /\ \A q \in DOMAIN cl : Upper(cl, q) \in Nat
    BY ClaimSetDomain
<1>2. CASE \E q \in DOMAIN cl : q < o
    BY <1>1, <1>2, Predecessor
<1>3. CASE ~\E q \in DOMAIN cl : q < o
    <2>1. Before(cl, o) = {}
        BY <1>3 DEF Before
    <2> QED BY <1>1, <1>3, <2>1 DEF LastUpper
<1> QED BY <1>2, <1>3

\* Where claims do not overlap, a gap lies in front of the claim that ends it,
\* and no other gap starts where it does.
LEMMA GapsApart ==
    ASSUME NEW cl, ClaimSet(cl), Disjoint(cl)
    PROVE  /\ \A o \in DOMAIN cl : LastUpper(cl, o) <= o
           /\ \A o, q \in GapsIn(cl) : LastUpper(cl, o) = LastUpper(cl, q) => o = q
<1>1. /\ DOMAIN cl \subseteq Nat
      /\ \A q \in DOMAIN cl : Upper(cl, q) \in Nat /\ q < Upper(cl, q)
    BY ClaimSetDomain
<1>2. ASSUME NEW o \in DOMAIN cl PROVE LastUpper(cl, o) <= o
    BY <1>1, LastUpperCases DEF Disjoint
<1>3. ASSUME NEW o \in GapsIn(cl), NEW q \in GapsIn(cl), o < q
      PROVE  LastUpper(cl, o) # LastUpper(cl, q)
    <2>1. o \in DOMAIN cl /\ q \in DOMAIN cl /\ LastUpper(cl, o) <= o
        BY <1>2 DEF GapsIn
    <2>2. PICK p \in DOMAIN cl : o <= p /\ LastUpper(cl, q) = Upper(cl, p)
        BY <1>1, <1>3, <2>1, LastUpperCases
    <2>3. LastUpper(cl, o) \in Nat
        BY <2>1, LastUpperCases
    <2> QED BY <1>1, <2>1, <2>2, <2>3
<1>4. GapsIn(cl) \subseteq Nat
    BY <1>1 DEF GapsIn
<1> QED BY <1>2, <1>3, <1>4

\* Without overlaps, FindMissingClaims has each gap once, up to the claim
\* behind it.
LEMMA MissingClaims ==
    ASSUME NEW cl, ClaimSet(cl), Disjoint(cl), \A o \in DOMAIN cl : Upper(cl, o) <= WordMod
    PROVE  /\ DOMAIN FindMissingClaims(cl) = {LastUpper(cl, o) : o \in GapsIn(cl)}
           /\ \A o \in GapsIn(cl) :
                 /\ FindMissingClaims(cl)[LastUpper(cl, o)] = o - LastUpper(cl, o)
                 /\ LastUpper(cl, o) < o
<1> DEFINE first(u) == Min({o \in GapsIn(cl) : LastUpper(cl, o) = u})
<1>1. FindMissingClaims(cl)
        = [u \in {LastUpper(cl, o) : o \in GapsIn(cl)} |-> (first(u) - u) % WordMod]
    BY DEF FindMissingClaims, GapsIn
<1>2. ASSUME NEW o \in GapsIn(cl)
      PROVE  /\ first(LastUpper(cl, o)) = o /\ LastUpper(cl, o) < o
             /\ o - LastUpper(cl, o) \in Nat /\ o - LastUpper(cl, o) < WordMod
    <2>1. {q \in GapsIn(cl) : LastUpper(cl, q) = LastUpper(cl, o)} = {o}
        BY GapsApart
    <2>2. Min({o}) = o
        BY ClaimSetDomain, <1>2 DEF GapsIn
    <2>3. /\ o \in DOMAIN cl /\ o \in Nat /\ o < WordMod
          /\ LastUpper(cl, o) # o
        <3>1. o \in DOMAIN cl /\ LastUpper(cl, o) # o
            BY <1>2 DEF GapsIn
        <3> QED BY <3>1, ClaimSetDomain, WordModAssumption
    <2>4. LastUpper(cl, o) \in Nat /\ LastUpper(cl, o) <= o
        BY <2>3, GapsApart, LastUpperCases
    <2>5. first(LastUpper(cl, o)) = o
        BY <2>1, <2>2
    <2>6. LastUpper(cl, o) < o /\ o - LastUpper(cl, o) \in Nat /\ o - LastUpper(cl, o) < WordMod
        BY <2>3, <2>4, WordModAssumption
    <2> QED BY <2>5, <2>6
<1> HIDE DEF first
<1>3. ASSUME NEW o \in GapsIn(cl)
      PROVE  FindMissingClaims(cl)[LastUpper(cl, o)] = o - LastUpper(cl, o)
    <2>1. FindMissingClaims(cl)[LastUpper(cl, o)] = (o - LastUpper(cl, o)) % WordMod
        BY <1>1, <1>2
    <2> QED BY <1>2, <2>1, WordModAssumption
<1> QED BY <1>1, <1>2, <1>3

\* What FindMissingClaims reports is what is not claimed below the last claim.
LEMMA MissingBytes ==
    ASSUME NEW cl, ClaimSet(cl), Disjoint(cl), \A o \in DOMAIN cl : Upper(cl, o) <= WordMod
    PROVE  Bytes(FindMissingClaims(cl))
             = {u \in Nat : u \notin Bytes(cl) /\ \E v \in Bytes(cl) : u < v}
<1> DEFINE f == FindMissingClaims(cl)
<1>1. /\ DOMAIN cl \subseteq Nat
      /\ \A q \in DOMAIN cl : Upper(cl, q) \in Nat /\ q < Upper(cl, q)
    BY ClaimSetDomain
<1>2. /\ DOMAIN f = {LastUpper(cl, o) : o \in GapsIn(cl)}
      /\ \A o \in GapsIn(cl) :
            f[LastUpper(cl, o)] = o - LastUpper(cl, o) /\ LastUpper(cl, o) < o
    BY MissingClaims
<1>3. \A o \in GapsIn(cl) : o \in DOMAIN cl /\ o \in Nat /\ LastUpper(cl, o) \in Nat
    BY <1>1, LastUpperCases DEF GapsIn
<1>4. \A o \in GapsIn(cl) : Upper(f, LastUpper(cl, o)) = o
    BY <1>2, <1>3 DEF Upper
<1> HIDE DEF f
<1>5. Bytes(f) = UNION {LastUpper(cl, o) .. o - 1 : o \in GapsIn(cl)}
    BY <1>2, <1>4 DEF Bytes
<1>6. ASSUME NEW o \in GapsIn(cl), NEW u \in LastUpper(cl, o) .. o - 1
      PROVE  u \in Nat /\ u \notin Bytes(cl) /\ \E v \in Bytes(cl) : u < v
    <2>1. o \in DOMAIN cl /\ o \in Nat /\ LastUpper(cl, o) \in Nat
        BY <1>3
    <2>2. o \in Bytes(cl)
        <3>1. o \in o .. Upper(cl, o) - 1
            BY <1>1, <2>1
        <3> QED BY <2>1, <3>1 DEF Bytes
    <2>3. ASSUME NEW q \in DOMAIN cl, u \in q .. Upper(cl, q) - 1 PROVE FALSE
        <3>1. q < o /\ q \in Nat
            BY <1>1, <2>1, <2>3
        <3>2. PICK p \in DOMAIN cl : q <= p /\ LastUpper(cl, o) = Upper(cl, p)
            BY <1>1, <2>1, <3>1, LastUpperCases
        <3>3. Upper(cl, q) <= Upper(cl, p)
            BY <1>1, <3>1, <3>2 DEF Disjoint
        <3> QED BY <1>1, <2>1, <2>3, <3>2, <3>3
    <2>4. u \notin Bytes(cl)
        BY <2>3 DEF Bytes
    <2> QED BY <2>1, <2>2, <2>4
<1>7. ASSUME NEW u \in Nat, u \notin Bytes(cl), NEW v \in Bytes(cl), u < v
      PROVE  \E o \in GapsIn(cl) : u \in LastUpper(cl, o) .. o - 1
    <2> DEFINE later == {o \in DOMAIN cl : u < o}
    <2>1. PICK q \in DOMAIN cl : v \in q .. Upper(cl, q) - 1
        BY DEF Bytes
    <2>2. u < q
        <3> SUFFICES ASSUME q <= u PROVE FALSE
            BY <1>1
        <3>1. u \in q .. Upper(cl, q) - 1
            BY <1>1, <1>7, <2>1
        <3> QED BY <1>7, <3>1 DEF Bytes
    <2>3. later \in SUBSET DOMAIN cl /\ later # {}
        BY <2>2
    <2> DEFINE o == Min(later)
    <2>4. o \in later /\ \A p \in later : o <= p
        BY <2>3, ClaimSetDomain
    <2>5. o \in DOMAIN cl /\ u < o
        BY <2>4
    <2> HIDE DEF o
    <2>6. LastUpper(cl, o) <= u
        <3>1. CASE LastUpper(cl, o) = 0
            BY <3>1
        <3>2. CASE \E p \in DOMAIN cl : p < o /\ LastUpper(cl, o) = Upper(cl, p)
            <4>1. PICK p \in DOMAIN cl : p < o /\ LastUpper(cl, o) = Upper(cl, p)
                BY <3>2
            <4>2. p <= u
                BY <1>1, <2>4, <4>1
            <4>3. u \notin p .. Upper(cl, p) - 1
                BY <1>7 DEF Bytes
            <4> QED BY <1>1, <4>1, <4>2, <4>3
        <3> QED BY <2>5, <3>1, <3>2, LastUpperCases
    <2>7. o \in GapsIn(cl) /\ o \in Nat /\ LastUpper(cl, o) \in Nat
        BY <1>1, <2>5, <2>6, LastUpperCases DEF GapsIn
    <2> QED BY <2>5, <2>6, <2>7
<1>8. Bytes(f) \subseteq {u \in Nat : u \notin Bytes(cl) /\ \E v \in Bytes(cl) : u < v}
    BY <1>5, <1>6
<1>9. {u \in Nat : u \notin Bytes(cl) /\ \E v \in Bytes(cl) : u < v} \subseteq Bytes(f)
    BY <1>5, <1>7
<1> QED BY <1>8, <1>9 DEF f

\* Overlaps or not: without a gap, the claims cover the block from its start
\* up to the last of them.
LEMMA NothingMissing ==
    ASSUME NEW cl, ClaimSet(cl), FindMissingClaims(cl) = NoClaims, NEW v \in Bytes(cl)
    PROVE  0 .. v \subseteq Bytes(cl)
<1>1. /\ DOMAIN cl \subseteq Nat
      /\ \A q \in DOMAIN cl : Upper(cl, q) \in Nat /\ q < Upper(cl, q)
    BY ClaimSetDomain
<1>2. GapsIn(cl) = {}
    <2>1. DOMAIN FindMissingClaims(cl) = {LastUpper(cl, o) : o \in GapsIn(cl)}
        BY DEF FindMissingClaims, GapsIn
    <2> QED BY <2>1 DEF NoClaims
<1>3. PICK q \in DOMAIN cl : v \in q .. Upper(cl, q) - 1
    BY DEF Bytes
<1> SUFFICES ASSUME NEW u \in 0 .. v, u \notin Bytes(cl) PROVE FALSE
    BY <1>1
<1> DEFINE later == {o \in DOMAIN cl : u < o}
<1>4. u < q
    <2> SUFFICES ASSUME q <= u PROVE FALSE
        BY <1>1
    <2>1. u \in q .. Upper(cl, q) - 1
        BY <1>1, <1>3
    <2> QED BY <2>1 DEF Bytes
<1>5. later \in SUBSET DOMAIN cl /\ later # {}
    BY <1>4
<1> DEFINE o == Min(later)
<1>6. o \in later /\ \A p \in later : o <= p
    BY <1>5, ClaimSetDomain
<1>7. o \in DOMAIN cl /\ u < o
    BY <1>6
<1> HIDE DEF o
<1>8. LastUpper(cl, o) = o
    BY <1>2, <1>7 DEF GapsIn
<1>9. PICK p \in DOMAIN cl : p < o /\ Upper(cl, p) = o
    BY <1>1, <1>7, <1>8, LastUpperCases
<1>10. p <= u
    BY <1>1, <1>6, <1>9
<1>11. u \in p .. Upper(cl, p) - 1
    BY <1>1, <1>7, <1>9, <1>10
<1> QED BY <1>11 DEF Bytes

ClaimSets == {c \in UNION {[D -> Nat \ {0}] : D \in SUBSET Nat} : ClaimSet(c)}

\* The set of all claims, as a set.
LEMMA ClaimSetsAll == ASSUME NEW c PROVE c \in ClaimSets <=> ClaimSet(c)
<1>1. ASSUME ClaimSet(c) PROVE c \in ClaimSets
    <2>1. DOMAIN c \in SUBSET Nat /\ c \in [DOMAIN c -> Nat \ {0}]
        BY <1>1, ClaimSetDomain DEF ClaimSet
    <2> QED BY <1>1, <2>1 DEF ClaimSets
<1> QED BY <1>1 DEF ClaimSets

\* The claims after the first i of a report.
StoreRun(c, cl, report, a, n) ==
    /\ c \in [0 .. n -> ClaimSets] /\ c[0] = cl
    /\ \A i \in 1 .. n : c[i] = InsertClaim(c[i - 1], a[i], report[a[i]])

\* All the n claims of a report were taken, or one of them was refused.
StoredUpTo(c, k, report, a, n) ==
    /\ k \in 0 .. n
    /\ k = n \/ \E i \in 1 .. n : ~ClaimInserted(c[i - 1], a[i], report[a[i]])

\* StoreClaims inserts one claim of the report after the other.
LEMMA StoreClaimsRun ==
    ASSUME NEW cl, ClaimSet(cl), NEW report, ClaimSet(report)
    PROVE  \E c, k : /\ StoreRun(c, cl, report, Ascending(DOMAIN report),
                                 Cardinality(DOMAIN report))
                     /\ StoredUpTo(c, k, report, Ascending(DOMAIN report),
                                   Cardinality(DOMAIN report))
                     /\ StoreClaims(cl, report) = c[k]
<1> DEFINE n == Cardinality(DOMAIN report)
           a == Ascending(DOMAIN report)
           step == [i \in 1 .. n |-> [s \in ClaimSets |-> InsertClaim(s, a[i], report[a[i]])]]
<1>1. n \in Nat /\ a \in [1 .. n -> DOMAIN report]
    BY ClaimSetDomain, AscendingLists DEF Lists
<1>2. ASSUME NEW i \in 1 .. n PROVE a[i] \in Nat /\ report[a[i]] \in Nat \ {0}
    BY <1>1, ClaimSetDomain
<1>3. Len(a) = n
    BY <1>1 DEF Ascending
<1> HIDE DEF a, n
<1>4. cl \in ClaimSets /\ step \in [1 .. n -> [ClaimSets -> ClaimSets]]
    <2>1. ASSUME NEW i \in 1 .. n, NEW s \in ClaimSets
          PROVE  InsertClaim(s, a[i], report[a[i]]) \in ClaimSets
        BY <1>2, ClaimSetsAll, InsertClaimBounds
    <2> QED BY <2>1, ClaimSetsAll
<1>5. PICK c : StepsFrom(c, ClaimSets, cl, step, n)
    <2> HIDE DEF step
    <2> QED BY <1>1, <1>4, StepsExist
<1>6. StoreRun(c, cl, report, a, n)
    <2>1. /\ c \in [0 .. n -> ClaimSets] /\ c[0] = cl
          /\ \A i \in 1 .. n : c[i] = step[i][c[i - 1]]
        BY <1>5, Zenon DEF StepsFrom
    <2>2. ASSUME NEW i \in 1 .. n PROVE c[i] = InsertClaim(c[i - 1], a[i], report[a[i]])
        <3>1. i - 1 \in 0 .. n
            BY <1>1
        <3>2. c[i - 1] \in ClaimSets
            BY <2>1, <3>1
        <3>3. step[i][c[i - 1]] = InsertClaim(c[i - 1], a[i], report[a[i]])
            BY <3>2
        <3> QED BY <2>1, <3>3
    <2> QED BY <2>1, <2>2 DEF StoreRun
<1>7. /\ c \in [0 .. n -> ClaimSets] /\ c[0] = cl
      /\ \A i \in 1 .. n : c[i] = InsertClaim(c[i - 1], a[i], report[a[i]])
    BY <1>6, Zenon DEF StoreRun
<1> HIDE DEF step
<1> DEFINE stored[i \in 0 .. Len(a)] ==
               IF i = 0 THEN cl ELSE InsertClaim(stored[i - 1], a[i], report[a[i]])
           refused == {i \in 1 .. Len(a) :
                          ~ClaimInserted(stored[i - 1], a[i], report[a[i]])}
<1>8. StoreClaims(cl, report) = stored[IF refused = {} THEN Len(a) ELSE Min(refused)]
    BY DEF StoreClaims, a
<1>9. c = [i \in 0 .. n |-> IF i = 0 THEN cl ELSE InsertClaim(c[i - 1], a[i], report[a[i]])]
    <2> SUFFICES ASSUME NEW i \in 0 .. n
                 PROVE  c[i] = IF i = 0 THEN cl ELSE InsertClaim(c[i - 1], a[i], report[a[i]])
        BY <1>7
    <2>1. i # 0 => i \in 1 .. n
        BY <1>1
    <2> QED BY <1>7, <2>1
<1>10. stored = [i \in 0 .. n |->
                    IF i = 0 THEN cl ELSE InsertClaim(stored[i - 1], a[i], report[a[i]])]
    BY <1>3, <1>9
<1> HIDE DEF stored
<1> DEFINE S == {k \in Nat : k <= n => stored[k] = c[k]}
<1>11. 0 \in S
    BY <1>1, <1>7, <1>10
<1>12. ASSUME NEW k \in Nat, k \in S PROVE k + 1 \in S
    <2> SUFFICES ASSUME k + 1 <= n PROVE stored[k + 1] = c[k + 1]
        OBVIOUS
    <2>1. k + 1 \in 1 .. n /\ k + 1 \in 0 .. n /\ k + 1 # 0 /\ (k + 1) - 1 = k /\ k <= n
        BY <1>1
    <2>2. stored[k + 1] = InsertClaim(stored[k], a[k + 1], report[a[k + 1]])
        BY <1>10, <2>1
    <2>3. c[k + 1] = InsertClaim(c[(k + 1) - 1], a[k + 1], report[a[k + 1]])
        BY <1>7, <2>1, Zenon
    <2> QED BY <1>12, <2>1, <2>2, <2>3
<1>13. Nat \subseteq S
    <2> HIDE DEF S
    <2> QED BY <1>11, <1>12, AllNat
<1>14. \A k \in 0 .. n : stored[k] = c[k]
    BY <1>1, <1>13
<1> DEFINE k == IF refused = {} THEN Len(a) ELSE Min(refused)
<1>15. StoredUpTo(c, k, report, a, n)
    <2>1. CASE refused = {}
        BY <1>1, <1>3, <2>1 DEF StoredUpTo
    <2>2. CASE refused # {}
        <3>1. refused \subseteq Nat
            BY <1>1, <1>3
        <3>2. Min(refused) \in refused
            <4> HIDE DEF refused
            <4> QED BY <2>2, <3>1, MinOfNat
        <3>3. /\ k \in 1 .. n
              /\ ~ClaimInserted(stored[k - 1], a[k], report[a[k]])
            BY <1>3, <2>2, <3>2
        <3> HIDE DEF k, refused
        <3>4. k - 1 \in 0 .. n /\ k \in 0 .. n
            BY <1>1, <3>3
        <3>5. ~ClaimInserted(c[k - 1], a[k], report[a[k]])
            BY <1>14, <3>3, <3>4
        <3> QED BY <3>3, <3>4, <3>5 DEF StoredUpTo
    <2> QED BY <2>1, <2>2
<1>16. StoreClaims(cl, report) = c[k]
    <2>1. k \in 0 .. n
        BY <1>15 DEF StoredUpTo
    <2> HIDE DEF refused
    <2> QED BY <1>8, <1>14, <2>1
<1> HIDE DEF k
<1> QED BY <1>6, <1>15, <1>16 DEF a, n

\* Filing a report keeps what is claimed, and adds at most what it claims.
LEMMA StoreClaimsBounds ==
    ASSUME NEW cl, ClaimSet(cl), NEW report, ClaimSet(report)
    PROVE  /\ ClaimSet(StoreClaims(cl, report))
           /\ Bytes(cl) \subseteq Bytes(StoreClaims(cl, report))
           /\ Bytes(StoreClaims(cl, report)) \subseteq Bytes(cl) \union Bytes(report)
<1> DEFINE n == Cardinality(DOMAIN report)
           a == Ascending(DOMAIN report)
<1>1. n \in Nat /\ a \in [1 .. n -> DOMAIN report]
    BY ClaimSetDomain, AscendingLists DEF Lists
<1>2. ASSUME NEW i \in 1 .. n
      PROVE  /\ a[i] \in Nat /\ report[a[i]] \in Nat \ {0}
             /\ a[i] .. a[i] + report[a[i]] - 1 \subseteq Bytes(report)
    BY <1>1, ClaimSetDomain DEF Bytes, Upper
<1>3. PICK c, k : /\ StoreRun(c, cl, report, a, n) /\ StoredUpTo(c, k, report, a, n)
                  /\ StoreClaims(cl, report) = c[k]
    BY StoreClaimsRun
<1> HIDE DEF a, n
<1>4. /\ c \in [0 .. n -> ClaimSets] /\ c[0] = cl /\ k \in 0 .. n
      /\ \A i \in 1 .. n : c[i] = InsertClaim(c[i - 1], a[i], report[a[i]])
    BY <1>3, Zenon DEF StoreRun, StoredUpTo
<1> DEFINE S == {j \in Nat : j <= n => /\ Bytes(cl) \subseteq Bytes(c[j])
                                       /\ Bytes(c[j]) \subseteq Bytes(cl) \union Bytes(report)}
<1>5. 0 \in S
    BY <1>4
<1>6. ASSUME NEW j \in Nat, j \in S PROVE j + 1 \in S
    <2> SUFFICES ASSUME j + 1 <= n
                 PROVE  /\ Bytes(cl) \subseteq Bytes(c[j + 1])
                        /\ Bytes(c[j + 1]) \subseteq Bytes(cl) \union Bytes(report)
        OBVIOUS
    <2>1. j + 1 \in 1 .. n /\ j \in 0 .. n /\ (j + 1) - 1 = j /\ j <= n
        BY <1>1
    <2>2. c[j + 1] = InsertClaim(c[j], a[j + 1], report[a[j + 1]])
        <3>1. c[j + 1] = InsertClaim(c[(j + 1) - 1], a[j + 1], report[a[j + 1]])
            BY <1>4, <2>1, Zenon
        <3> QED BY <2>1, <3>1
    <2>3. ClaimSet(c[j])
        BY <1>4, <2>1, ClaimSetsAll
    <2>4. /\ Bytes(c[j]) \subseteq Bytes(c[j + 1])
          /\ Bytes(c[j + 1]) \subseteq
                Bytes(c[j]) \union (a[j + 1] .. a[j + 1] + report[a[j + 1]] - 1)
        BY <1>2, <2>1, <2>2, <2>3, InsertClaimBounds
    <2> QED BY <1>2, <1>6, <2>1, <2>4
<1>7. Nat \subseteq S
    <2> HIDE DEF S
    <2> QED BY <1>5, <1>6, AllNat
<1>8. k \in S /\ k <= n
    BY <1>1, <1>4, <1>7
<1> QED BY <1>3, <1>4, <1>8, ClaimSetsAll

\* A report whose claims neither overlap nor touch is filed whole where
\* nothing was filed before.
LEMMA StoreClaimsWhole ==
    ASSUME NEW report, ClaimSet(report), Compacted(report)
    PROVE  Bytes(StoreClaims(NoClaims, report)) = Bytes(report)
<1> DEFINE n == Cardinality(DOMAIN report)
           a == Ascending(DOMAIN report)
<1>1. /\ n \in Nat /\ a \in [1 .. n -> DOMAIN report]
      /\ \A i, j \in 1 .. n : i < j => a[i] < a[j]
      /\ \A o \in DOMAIN report : \E i \in 1 .. n : a[i] = o
    BY ClaimSetDomain, AscendingLists DEF Lists
<1>0. ClaimSet(NoClaims)
    BY DEF ClaimSet, NoClaims
<1>3. PICK c, k : /\ StoreRun(c, NoClaims, report, a, n) /\ StoredUpTo(c, k, report, a, n)
                  /\ StoreClaims(NoClaims, report) = c[k]
    BY <1>0, StoreClaimsRun
<1> HIDE DEF a, n
<1> DEFINE span(i) == a[i] .. a[i] + report[a[i]] - 1
<1>2. ASSUME NEW i \in 1 .. n
      PROVE  a[i] \in Nat /\ report[a[i]] \in Nat \ {0} /\ Upper(report, a[i]) = a[i] + report[a[i]]
    BY <1>1, ClaimSetDomain DEF Upper
<1>4. /\ c \in [0 .. n -> ClaimSets] /\ c[0] = NoClaims /\ k \in 0 .. n
      /\ \A i \in 1 .. n : c[i] = InsertClaim(c[i - 1], a[i], report[a[i]])
    BY <1>3, Zenon DEF StoreRun, StoredUpTo
<1> DEFINE S == {j \in Nat : j <= n => /\ Compacted(c[j])
                                       /\ Bytes(c[j]) = UNION {span(i) : i \in 1 .. j}}
<1>5. 0 \in S
    BY <1>4 DEF NoClaims, Compacted, Bytes
<1>6. ASSUME NEW j \in Nat, j + 1 <= n, Compacted(c[j]),
             Bytes(c[j]) = UNION {span(i) : i \in 1 .. j}
      PROVE  /\ ClaimInserted(c[j], a[j + 1], report[a[j + 1]])
             /\ Compacted(c[j + 1])
             /\ Bytes(c[j + 1]) = UNION {span(i) : i \in 1 .. j + 1}
    <2> DEFINE o == a[j + 1]
               l == report[a[j + 1]]
    <2>1. j + 1 \in 1 .. n /\ j \in 0 .. n /\ (j + 1) - 1 = j
        BY <1>1, <1>6
    <2>2. o \in Nat /\ l \in Nat \ {0}
        BY <1>2, <2>1
    <2>3. ClaimSet(c[j])
        BY <1>4, <2>1, ClaimSetsAll
    <2>4. \A b \in Bytes(c[j]) : b \in Nat /\ b + 1 < o
        <3> SUFFICES ASSUME NEW i \in 1 .. j, NEW b \in span(i) PROVE b \in Nat /\ b + 1 < o
            BY <1>6
        <3>1. i \in 1 .. n /\ i < j + 1
            BY <1>1, <1>6
        <3>2. a[i] < o /\ a[i] \in DOMAIN report /\ o \in DOMAIN report
            BY <1>1, <2>1, <3>1
        <3>3. a[i] + report[a[i]] < o
            BY <1>2, <3>1, <3>2 DEF Compacted
        <3> QED BY <1>2, <2>2, <3>1, <3>3
    <2>5. c[j + 1] = InsertClaim(c[j], o, l)
        <3>1. c[j + 1] = InsertClaim(c[(j + 1) - 1], o, l)
            BY <1>4, <2>1, Zenon
        <3> QED BY <2>1, <3>1
    <2> HIDE DEF o, l
    <2>6. (o .. o + l - 1) \cap Bytes(c[j]) = {}
        BY <2>2, <2>4
    <2>7. /\ Compacted(c[j + 1])
          /\ Bytes(c[j + 1]) = Bytes(c[j]) \union (o .. o + l - 1)
        <3>1. Compacted(c[j])
            BY <1>6
        <3> QED BY <2>2, <2>3, <2>5, <2>6, <3>1, InsertClaimExact
    <2>8. ASSUME NEW p \in DOMAIN c[j]
          PROVE  p \in Nat /\ Upper(c[j], p) \in Nat /\ p < o /\ Upper(c[j], p) < o
        <3>1. p \in Nat /\ Upper(c[j], p) \in Nat /\ p < Upper(c[j], p)
            BY <2>3, ClaimSetDomain
        <3>2. p \in p .. Upper(c[j], p) - 1 /\ Upper(c[j], p) - 1 \in p .. Upper(c[j], p) - 1
            BY <3>1
        <3>3. p \in Bytes(c[j]) /\ Upper(c[j], p) - 1 \in Bytes(c[j])
            BY <3>2 DEF Bytes
        <3>4. p + 1 < o /\ (Upper(c[j], p) - 1) + 1 < o
            BY <2>4, <3>3
        <3> QED BY <2>2, <3>1, <3>4
    <2>9. ClaimInserted(c[j], o, l)
        BY <2>2, <2>8 DEF ClaimInserted, InClaims
    <2>10. UNION {span(i) : i \in 1 .. j + 1} = (UNION {span(i) : i \in 1 .. j}) \union span(j + 1)
        <3>1. 1 .. j + 1 = 1 .. j \union {j + 1}
            BY <1>6
        <3> HIDE DEF span
        <3> QED BY <3>1
    <2> QED BY <1>6, <2>7, <2>9, <2>10 DEF o, l
<1>7. ASSUME NEW j \in Nat, j \in S PROVE j + 1 \in S
    <2> HIDE DEF span
    <2> SUFFICES ASSUME j + 1 <= n
                 PROVE  /\ Compacted(c[j + 1])
                        /\ Bytes(c[j + 1]) = UNION {span(i) : i \in 1 .. j + 1}
        OBVIOUS
    <2>1. j <= n
        BY <1>1
    <2> QED BY <1>6, <1>7, <2>1
<1>8. Nat \subseteq S
    <2> HIDE DEF S
    <2> QED BY <1>5, <1>7, AllNat
<1>9. \A j \in 0 .. n : Compacted(c[j]) /\ Bytes(c[j]) = UNION {span(i) : i \in 1 .. j}
    <2> HIDE DEF span
    <2> QED BY <1>1, <1>8
<1>10. k = n
    <2> SUFFICES ASSUME NEW i \in 1 .. n, ~ClaimInserted(c[i - 1], a[i], report[a[i]]) PROVE FALSE
        BY <1>3 DEF StoredUpTo
    <2>1. i - 1 \in Nat /\ i - 1 \in 0 .. n /\ (i - 1) + 1 = i /\ (i - 1) + 1 <= n
        BY <1>1
    <2>2. Compacted(c[i - 1]) /\ Bytes(c[i - 1]) = UNION {span(j) : j \in 1 .. i - 1}
        BY <1>9, <2>1
    <2>3. ClaimInserted(c[i - 1], a[(i - 1) + 1], report[a[(i - 1) + 1]])
        <3> HIDE DEF span
        <3> QED BY <1>6, <2>1, <2>2
    <2> QED BY <2>1, <2>3
<1>11. UNION {span(i) : i \in 1 .. n} = Bytes(report)
    <2>1. {span(i) : i \in 1 .. n} = {o .. Upper(report, o) - 1 : o \in DOMAIN report}
        <3>1. \A i \in 1 .. n : a[i] \in DOMAIN report /\ span(i) = a[i] .. Upper(report, a[i]) - 1
            BY <1>1, <1>2
        <3> HIDE DEF span
        <3> QED BY <1>1, <3>1
    <2> QED BY <2>1 DEF Bytes
<1>12. n \in 0 .. n
    BY <1>1
<1>13. Bytes(c[n]) = Bytes(report)
    <2> HIDE DEF span
    <2> QED BY <1>9, <1>11, <1>12
<1> QED BY <1>3, <1>10, <1>13

\* The segments, their number and their fields.
CutInto(segs, offset, n, rdSize, dataSize, claimLen, serial) ==
    /\ Len(segs) = n /\ Last(segs) = segs[n] /\ n \in 1 .. n
    /\ \A i \in 1 .. n :
          /\ segs[i].off = offset[i]
          /\ segs[i].len = SegmentLength(rdSize, dataSize, offset[i])
          /\ segs[i].len \in 1 .. Capacity
          /\ segs[i].type = SegmentType(rdSize, dataSize, claimLen, serial,
                                        RedEnded(offset, rdSize, i), offset[i])
          /\ segs[i].rp = IF segs[i].type \in {"RD_CP", "RD_CP_EORP"} THEN serial ELSE NoSerial

\* The fields of the segments of a block that is cut.
LEMMA SegmentFields ==
    ASSUME NEW offset, NEW n, NEW rdSize \in Nat, NEW dataSize \in Nat, NEW claimOff,
           NEW claimLen, NEW serial, CutAt(offset, n, rdSize, dataSize, claimOff)
    PROVE  CutInto(SegmentsAt(offset, n, rdSize, dataSize, claimLen, serial),
                   offset, n, rdSize, dataSize, claimLen, serial)
<1> DEFINE segs == SegmentsAt(offset, n, rdSize, dataSize, claimLen, serial)
<1>1. n \in Nat \ {0} /\ \A i \in 1 .. n : offset[i] \in Nat /\ offset[i] < dataSize
    BY DEF CutAt
<1>2. Len(segs) = n /\ n \in 1 .. n
    BY <1>1 DEF SegmentsAt
<1>3. Last(segs) = segs[n]
    BY <1>2 DEF Last
<1>4. ASSUME NEW i \in 1 .. n
      PROVE  /\ segs[i].off = offset[i]
             /\ segs[i].len = SegmentLength(rdSize, dataSize, offset[i])
             /\ segs[i].rp = (IF segs[i].type \in {"RD_CP", "RD_CP_EORP"} THEN serial ELSE NoSerial)
             /\ segs[i].type = SegmentType(rdSize, dataSize, claimLen, serial,
                                           RedEnded(offset, rdSize, i), offset[i])
    BY DEF SegmentsAt, EncapsulateSegment, DataSegment
<1> HIDE DEF segs
<1>5. ASSUME NEW i \in 1 .. n PROVE segs[i].len \in 1 .. Capacity
    <2>1. offset[i] \in Int /\ offset[i] < dataSize
        BY <1>1
    <2>2. SegmentLength(rdSize, dataSize, offset[i]) \in 1 .. Capacity
        BY <2>1, SegmentLengthPositive
    <2> QED BY <1>4, <2>2
<1>6. CutInto(segs, offset, n, rdSize, dataSize, claimLen, serial)
    BY <1>2, <1>3, <1>4, <1>5 DEF CutInto
<1> QED BY <1>6 DEF segs

\* Which of the types a segment gets.
LEMMA SegmentTypes ==
    ASSUME NEW R, NEW size, NEW claimLen, NEW serial, NEW ended, NEW o
    PROVE  LET type == SegmentType(R, size, claimLen, serial, ended, o)
           IN  /\ EndsBlock(R, size, o) => type = "GD_EOB"
               /\ ~EndsBlock(R, size, o) => type # "GD_EOB"
BY DEF SegmentType

\* Between two multiples there is room for one more step.
LEMMA MultipleBelow ==
    ASSUME NEW m \in Nat, NEW k \in Nat, m * Capacity < k * Capacity
    PROVE  m * Capacity + Capacity <= k * Capacity /\ (m + 1) * Capacity = m * Capacity + Capacity
<1>1. m < k
    <2> SUFFICES ASSUME m >= k PROVE FALSE
        OBVIOUS
    <2>1. m = k + (m - k) /\ m - k \in Nat
        OBVIOUS
    <2>2. m * Capacity = k * Capacity + (m - k) * Capacity
        BY <2>1, CapacityAssumption
    <2>3. (m - k) * Capacity \in Nat
        BY <2>1, CapacityAssumption
    <2> QED BY <2>2, <2>3, CapacityAssumption
<1>2. k = (m + 1) + (k - m - 1) /\ k - m - 1 \in Nat
    BY <1>1
<1>3. /\ (m + 1) * Capacity = m * Capacity + Capacity
      /\ k * Capacity = (m + 1) * Capacity + (k - m - 1) * Capacity
    BY <1>2, CapacityAssumption
<1>4. (k - m - 1) * Capacity \in Nat
    BY <1>2, CapacityAssumption
<1> QED BY <1>3, <1>4, CapacityAssumption

\* The first transmission: no segment holds red and green units, and the one
\* that reaches the end is the last.
LEMMA BlockSegments ==
    ASSUME NEW L \in Nat \ {0}, NEW R \in 0 .. L, NEW offset, NEW n, CutAt(offset, n, R, L, 0)
    PROVE  /\ offset[n] + SegmentLength(R, L, offset[n]) = L
           /\ \A i \in 1 .. n :
                 /\ offset[i] >= R \/ offset[i] + SegmentLength(R, L, offset[i]) <= R
                 /\ EndsBlock(R, L, offset[i]) <=> (i = n /\ R < L)
<1>2. /\ n \in Nat \ {0} /\ n \in 1 .. n /\ offset[n + 1] >= L
      /\ \A i \in 1 .. n : /\ offset[i] \in Nat /\ offset[i] < L
                           /\ offset[i + 1] = offset[i] + SegmentLength(R, L, offset[i])
    BY DEF CutAt
<1>4. ASSUME NEW o \in Nat, o < L
      PROVE  /\ o >= R \/ o + SegmentLength(R, L, o) <= R
             /\ o + SegmentLength(R, L, o) >= L => o + SegmentLength(R, L, o) = L
             /\ EndsBlock(R, L, o) <=> (o + SegmentLength(R, L, o) >= L /\ R < L)
    BY <1>4, CapacityAssumption DEF SegmentLength, EndsBlock, EndsRed
<1>5. offset[n] + SegmentLength(R, L, offset[n]) = L
    <2>1. /\ offset[n] \in Nat /\ offset[n] < L
          /\ offset[n] + SegmentLength(R, L, offset[n]) >= L
        BY <1>2
    <2> QED BY <1>4, <2>1
<1>6. ASSUME NEW i \in 1 .. n
      PROVE  /\ offset[i] >= R \/ offset[i] + SegmentLength(R, L, offset[i]) <= R
             /\ EndsBlock(R, L, offset[i]) <=> (i = n /\ R < L)
    <2>1. offset[i] \in Nat /\ offset[i] < L
        BY <1>2
    <2>3. offset[i] + SegmentLength(R, L, offset[i]) >= L <=> i = n
        <3>1. CASE i = n
            BY <1>2, <3>1
        <3>2. CASE i # n
            <4>1. i + 1 \in 1 .. n
                BY <1>2, <3>2
            <4>2. offset[i + 1] < L /\ offset[i + 1] \in Nat
                BY <1>2, <4>1
            <4> QED BY <1>2, <3>2, <4>2
        <3> QED BY <3>1, <3>2
    <2> QED BY <1>4, <2>1, <2>3
<1> QED BY <1>5, <1>6
=============================================================================
