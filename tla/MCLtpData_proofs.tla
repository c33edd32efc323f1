-------------------------- MODULE MCLtpData_proofs --------------------------
(***************************************************************************)
(* The algorithms on claims and segments are right for blocks and segments *)
(* of every size: what MCLtpData checks on a small instance is proved      *)
(* here, with the lemmas of LtpData_proofs about each algorithm.           *)
(***************************************************************************)
EXTENDS MCLtpData, LtpData_proofs

----------------------------------------------------------------------------
(* Claims.                                                                 *)

Span(c) == c[1] .. c[1] + c[2] - 1

AreClaims == \A c \in pieces : c[1] \in Nat /\ c[2] \in Nat \ {0}

\* The claims of segments do not overlap, and each was received as a whole or
\* not at all.
SegmentsApart ==
    /\ \A c, d \in pieces : c = d \/ Span(c) \cap Span(d) = {}
    /\ \A c \in pieces : Span(c) \subseteq 0 .. BlockSize - 1
    /\ \A c \in pieces : Span(c) \subseteq got \/ Span(c) \cap got = {}

ClaimsInv ==
    /\ AreClaims
    /\ ClaimSet(cl) /\ Bytes(cl) \subseteq got
    /\ OfSegments => /\ SegmentsApart /\ got \subseteq 0 .. BlockSize - 1
                     /\ Compacted(cl) /\ Bytes(cl) = got

\* The claims of the segments of a block, cut anywhere.
LEMMA SegmentClaims ==
    ASSUME NEW cuts, cuts \subseteq 0 .. BlockSize - 1
    PROVE  /\ \A c \in Segments(cuts) : /\ c[1] \in Nat /\ c[2] \in Nat \ {0}
                                        /\ Span(c) \subseteq 0 .. BlockSize - 1
           /\ \A c, d \in Segments(cuts) : c = d \/ Span(c) \cap Span(d) = {}
<1> DEFINE later(o) == {c \in cuts \union {BlockSize} : c > o}
           end(o) == Min(later(o))
<1>1. ASSUME NEW o \in cuts
      PROVE  /\ o \in Nat /\ end(o) \in Nat /\ o < end(o) /\ end(o) <= BlockSize
             /\ \A q \in cuts : o < q => end(o) <= q
    <2>1. /\ later(o) \subseteq Nat /\ BlockSize \in later(o) /\ o \in Nat
          /\ \A q \in cuts : o < q => q \in later(o)
        <3>1. cuts \union {BlockSize} \subseteq Nat /\ o \in Nat /\ o < BlockSize
            BY MCLtpDataAssumption
        <3> QED BY <3>1
    <2>2. end(o) \in later(o) /\ \A y \in later(o) : end(o) <= y
        <3> HIDE DEF later
        <3> QED BY <2>1, MinOfNat
    <2>3. end(o) > o
        BY <2>2
    <2> HIDE DEF later
    <2> QED BY <2>1, <2>2, <2>3
<1>2. Segments(cuts) = {<<o, end(o) - o>> : o \in cuts}
    BY DEF Segments
<1> HIDE DEF end
<1>3. ASSUME NEW o \in cuts
      PROVE  /\ end(o) - o \in Nat \ {0}
             /\ Span(<<o, end(o) - o>>) = o .. end(o) - 1
             /\ o .. end(o) - 1 \subseteq 0 .. BlockSize - 1
    BY <1>1, MCLtpDataAssumption DEF Span
<1>4. ASSUME NEW o \in cuts, NEW q \in cuts, o # q
      PROVE  (o .. end(o) - 1) \cap (q .. end(q) - 1) = {}
    <2>1. o < q \/ q < o
        BY <1>1, <1>4
    <2> QED BY <1>1, <2>1
<1>5. ASSUME NEW c \in Segments(cuts)
      PROVE  \E o \in cuts : /\ c = <<o, end(o) - o>> /\ c[1] = o /\ c[2] = end(o) - o
                             /\ Span(c) = o .. end(o) - 1
    BY <1>2, <1>3
<1>6. ASSUME NEW c \in Segments(cuts)
      PROVE  c[1] \in Nat /\ c[2] \in Nat \ {0} /\ Span(c) \subseteq 0 .. BlockSize - 1
    BY <1>1, <1>3, <1>5
<1>7. ASSUME NEW c \in Segments(cuts), NEW d \in Segments(cuts)
      PROVE  c = d \/ Span(c) \cap Span(d) = {}
    <2>1. PICK o \in cuts : c = <<o, end(o) - o>> /\ Span(c) = o .. end(o) - 1
        BY <1>5
    <2>2. PICK q \in cuts : d = <<q, end(q) - q>> /\ Span(d) = q .. end(q) - 1
        BY <1>5
    <2> QED BY <1>4, <2>1, <2>2
<1> QED BY <1>6, <1>7

\* At the start nothing is claimed.
LEMMA InitClaims == Init => ClaimsInv
<1> SUFFICES ASSUME Init PROVE ClaimsInv
    OBVIOUS
<1>1. ClaimSet(cl) /\ Compacted(cl) /\ Bytes(cl) = {} /\ got = {}
    BY DEF Init, NoClaims, ClaimSet, Compacted, Bytes
<1>2. CASE pieces = AnyClaims
    <2>1. AreClaims
        BY <1>2, MCLtpDataAssumption DEF AreClaims, AnyClaims
    <2> QED BY <1>1, <1>2, <2>1 DEF ClaimsInv, OfSegments
<1>3. CASE pieces = {}
    BY <1>1, <1>3 DEF ClaimsInv, AreClaims, SegmentsApart
<1>4. ASSUME NEW cuts \in SUBSET (1 .. BlockSize - 1), pieces = Segments(cuts \union {0})
      PROVE  ClaimsInv
    <2>1. cuts \union {0} \subseteq 0 .. BlockSize - 1
        BY MCLtpDataAssumption
    <2>2. AreClaims /\ SegmentsApart
        <3> DEFINE C == cuts \union {0}
        <3>1. /\ \A c \in Segments(C) : /\ c[1] \in Nat /\ c[2] \in Nat \ {0}
                                        /\ Span(c) \subseteq 0 .. BlockSize - 1
              /\ \A c, d \in Segments(C) : c = d \/ Span(c) \cap Span(d) = {}
            BY <2>1, SegmentClaims
        <3> HIDE DEF C
        <3>2. pieces = Segments(C)
            BY <1>4 DEF C
        <3> QED BY <1>1, <3>1, <3>2 DEF AreClaims, SegmentsApart
    <2> QED BY <1>1, <2>2 DEF ClaimsInv
<1> QED BY <1>2, <1>3, <1>4 DEF Init

\* A claim of a segment is recorded exactly; any claim adds no more than it
\* covers.
LEMMA ClaimStep ==
    ASSUME ClaimsInv, NEW c \in pieces, Claim(c)
    PROVE  ClaimsInv'
<1>1. /\ cl' = InsertClaim(cl, c[1], c[2]) /\ got' = got \union Span(c)
      /\ pieces' = pieces
    BY DEF Claim, Span
<1>2. c[1] \in Nat /\ c[2] \in Nat \ {0}
    BY DEF ClaimsInv, AreClaims
<1>3. ClaimSet(cl') /\ Bytes(cl') \subseteq got'
    BY <1>1, <1>2, InsertClaimBounds DEF ClaimsInv, Span
<1>4. ASSUME OfSegments
      PROVE  /\ SegmentsApart' /\ got' \subseteq 0 .. BlockSize - 1
             /\ Compacted(cl') /\ Bytes(cl') = got'
    <2>1. /\ SegmentsApart /\ got \subseteq 0 .. BlockSize - 1
          /\ ClaimSet(cl) /\ Compacted(cl) /\ Bytes(cl) = got
        BY <1>4 DEF ClaimsInv
    <2>2. Span(c) \subseteq Bytes(cl) \/ Span(c) \cap Bytes(cl) = {}
        BY <2>1 DEF SegmentsApart
    <2>3. Compacted(cl') /\ Bytes(cl') = got'
        BY <1>1, <1>2, <2>1, <2>2, InsertClaimExact DEF Span
    <2>4. ASSUME NEW d \in pieces PROVE Span(d) \subseteq got' \/ Span(d) \cap got' = {}
        <3>1. d = c \/ Span(d) \cap Span(c) = {}
            BY <2>1 DEF SegmentsApart
        <3>2. Span(d) \subseteq got \/ Span(d) \cap got = {}
            BY <2>1 DEF SegmentsApart
        <3> QED BY <1>1, <3>1, <3>2
    <2> QED BY <1>1, <2>1, <2>3, <2>4 DEF SegmentsApart, Span
<1> QED BY <1>1, <1>3, <1>4 DEF ClaimsInv, AreClaims, OfSegments, AnyClaims

\* Every step of the run keeps the claims invariant.
LEMMA NextClaims == ClaimsInv /\ [Next]_vars => ClaimsInv'
<1> SUFFICES ASSUME ClaimsInv, [Next]_vars PROVE ClaimsInv'
    OBVIOUS
<1>1. CASE UNCHANGED <<pieces, cl, got>>
    BY <1>1 DEF ClaimsInv, AreClaims, SegmentsApart, OfSegments, AnyClaims, Span
<1>2. CASE Retransmit
    BY <1>1, <1>2 DEF Retransmit
<1>3. CASE UNCHANGED vars
    BY <1>1, <1>3 DEF vars
<1> QED BY <1>2, <1>3, ClaimStep DEF Next

\* In every behaviour, with any claims.
THEOREM ClaimsSpec == Spec => []ClaimsInv
BY InitClaims, NextClaims, PTL DEF Spec

\* No claim covers a unit that was not received, whatever claims come, in
\* whatever order (InsertClaim, CompactClaims).
THEOREM NothingInventedTheorem == Spec => []NothingInvented
<1>1. ClaimsInv => NothingInvented
    BY DEF ClaimsInv, NothingInvented
<1> QED BY <1>1, ClaimsSpec, PTL

\* However a block is cut and in whatever order its segments come, the claims
\* are exactly the units received.
THEOREM NothingForgottenTheorem == Spec => []NothingForgotten
<1>1. ClaimsInv => NothingForgotten
    BY DEF ClaimsInv, NothingForgotten
<1> QED BY <1>1, ClaimsSpec, PTL

\* FindMissingClaims gives exactly the units that are missing below the last
\* one received.
THEOREM MissingIsTheRestTheorem == Spec => []MissingIsTheRest
<1>1. ASSUME ClaimsInv, OfSegments
      PROVE  Bytes(FindMissingClaims(cl)) =
                 {u \in 0 .. BlockSize - 1 : u \notin got /\ \E v \in got : u < v}
    <2>1. /\ ClaimSet(cl) /\ Compacted(cl) /\ Bytes(cl) = got
          /\ got \subseteq 0 .. BlockSize - 1
        BY <1>1 DEF ClaimsInv
    <2>2. \A o \in DOMAIN cl : o \in Nat /\ Upper(cl, o) \in Nat /\ o < Upper(cl, o)
        BY <2>1, ClaimSetDomain
    <2>3. ASSUME NEW o \in DOMAIN cl PROVE Upper(cl, o) <= WordMod
        <3>1. Upper(cl, o) - 1 \in o .. Upper(cl, o) - 1
            BY <2>2
        <3>2. Upper(cl, o) - 1 \in 0 .. BlockSize - 1
            BY <2>1, <3>1 DEF Bytes
        <3> QED BY <2>2, <3>2, MCLtpDataAssumption, WordModAssumption
    <2>4. Disjoint(cl)
        BY <2>1, <2>2 DEF Compacted, Disjoint
    <2>5. Bytes(FindMissingClaims(cl))
             = {u \in Nat : u \notin got /\ \E v \in got : u < v}
        <3>1. Bytes(FindMissingClaims(cl))
                 = {u \in Nat : u \notin Bytes(cl) /\ \E v \in Bytes(cl) : u < v}
            BY <2>1, <2>3, <2>4, MissingBytes, Zenon
        <3> QED BY <2>1, <3>1, Zenon
    <2>6. \A u \in Nat : (\E v \in got : u < v) => u \in 0 .. BlockSize - 1
        BY <2>1, MCLtpDataAssumption
    <2> QED BY <2>5, <2>6
<1>2. ClaimsInv => MissingIsTheRest
    BY <1>1 DEF MissingIsTheRest
<1> QED BY <1>2, ClaimsSpec, PTL

----------------------------------------------------------------------------
(* Segments.                                                               *)

\* A block that is cut is a block, and a gap ends in front of the last red
\* segment.
SegmentsInv ==
    /\ len \in Nat /\ rd \in 0 .. len
    /\ \/ gap = <<0, 0>>
       \/ \E first, count \in Nat : /\ count > 0
                                    /\ gap = <<first * Capacity, count * Capacity>>
                                    /\ (first + count) * Capacity < rd

\* Nothing but Retransmit changes what is cut.
THEOREM SegmentsSpec == Spec => []SegmentsInv
<1>1. Init => SegmentsInv
    <2> SUFFICES ASSUME Init PROVE SegmentsInv
        OBVIOUS
    <2>1. len \in Nat /\ rd \in 0 .. len
        BY MCLtpDataAssumption DEF Init
    <2> QED BY <2>1 DEF Init, SegmentsInv
<1>2. SegmentsInv /\ [Next]_vars => SegmentsInv'
    <2> SUFFICES ASSUME SegmentsInv, [Next]_vars PROVE SegmentsInv'
        OBVIOUS
    <2>1. CASE UNCHANGED <<len, rd, gap>>
        BY <2>1 DEF SegmentsInv
    <2>2. CASE Retransmit
        <3>1. PICK first, count \in 0 .. MaxLen :
                  /\ count > 0 /\ (first + count) * Capacity < rd
                  /\ gap' = <<first * Capacity, count * Capacity>>
            BY <2>2, Zenon DEF Retransmit
        <3>2. first \in Nat /\ count \in Nat
            BY <3>1, MCLtpDataAssumption
        <3>3. len' = len /\ rd' = rd
            BY <2>2 DEF Retransmit
        <3> QED BY <3>1, <3>2, <3>3, Zenon DEF SegmentsInv
    <2> QED BY <2>1, <2>2 DEF Next, Claim, vars
<1> QED BY <1>1, <1>2, PTL DEF Spec

\* Segments that are cut off one after the other tile what they are cut from,
\* if the last of them ends with it.
LEMMA CutTiles ==
    ASSUME NEW offset, NEW n, NEW rdSize \in Nat, NEW dataSize \in Nat, NEW claimOff,
           NEW claimLen, NEW serial, CutAt(offset, n, rdSize, dataSize, claimOff),
           offset[n] + SegmentLength(rdSize, dataSize, offset[n]) = dataSize
    PROVE  Tiles(SegmentsAt(offset, n, rdSize, dataSize, claimLen, serial), claimOff, dataSize)
<1> DEFINE segs == SegmentsAt(offset, n, rdSize, dataSize, claimLen, serial)
<1>1. /\ n \in Nat \ {0} /\ offset[1] = claimOff
      /\ \A i \in 1 .. n :
            offset[i + 1] = offset[i] + SegmentLength(rdSize, dataSize, offset[i])
    BY DEF CutAt
<1>0. CutInto(segs, offset, n, rdSize, dataSize, claimLen, serial)
    BY SegmentFields
<1>2. /\ Len(segs) = n /\ Last(segs) = segs[n] /\ n \in 1 .. n
      /\ \A i \in 1 .. n : /\ segs[i].off = offset[i]
                           /\ segs[i].len = SegmentLength(rdSize, dataSize, offset[i])
                           /\ segs[i].len \in 1 .. Capacity
    BY <1>0, Zenon DEF CutInto
<1> HIDE DEF segs
<1>3. 1 \in 1 .. n /\ segs[1].off = claimOff
    BY <1>1, <1>2
<1>4. Last(segs).off + Last(segs).len = dataSize
    BY <1>2
<1>5. ASSUME NEW i \in 1 .. n, i < n PROVE segs[i].off + segs[i].len = segs[i + 1].off
    <2>1. i + 1 \in 1 .. n
        BY <1>1, <1>5
    <2> QED BY <1>1, <1>2, <2>1
<1> QED BY <1>2, <1>3, <1>4, <1>5 DEF Tiles, segs

\* On the first transmission the segment that ends the red part without being
\* full is a checkpoint, and no other one.
LEMMA CheckpointEndsRed ==
    ASSUME NEW R \in Nat, NEW L \in Nat, NEW ended, NEW o \in Nat, o < L
    PROVE  SegmentType(R, L, 0, NoSerial, ended, o) \in CheckpointTypes <=>
              (o + SegmentLength(R, L, o) = R /\ SegmentLength(R, L, o) < Capacity)
<1>1. CASE EndsBlock(R, L, o)
    <2>1. SegmentLength(R, L, o) = L - o /\ o >= R
        BY <1>1, CapacityAssumption DEF SegmentLength, EndsBlock, EndsRed
    <2> QED BY <1>1, <2>1 DEF SegmentType, CheckpointTypes, RedTypes
<1>2. CASE ~EndsBlock(R, L, o) /\ EndsRed(R, o)
    <2>1. SegmentLength(R, L, o) = R - o /\ R - o < Capacity /\ o + (R - o) = R
        BY <1>2, CapacityAssumption DEF SegmentLength, EndsRed
    <2> QED BY <1>2, <2>1 DEF SegmentType, CheckpointTypes, RedTypes
<1>3. CASE ~EndsBlock(R, L, o) /\ ~EndsRed(R, o)
    <2>1. SegmentLength(R, L, o) = Capacity
        BY <1>3 DEF SegmentLength
    <2> QED BY <1>3, <2>1, CapacityAssumption DEF SegmentType, AsksReport, CheckpointTypes, RedTypes
<1> QED BY <1>1, <1>2, <1>3

\* A block is cut from end to end, at the end of its red part; only the last
\* green segment is marked as its end, and only the end of the red part, if
\* its segment is not full, as a checkpoint.
LEMMA BlockCut ==
    ASSUME NEW L \in Nat \ {0}, NEW R \in 0 .. L
    PROVE  LET segs == EncapsulateBlockData(R, L, 0, 0, NoSerial)
           IN  /\ Tiles(segs, 0, L)
               /\ \A i \in 1 .. Len(segs) :
                     /\ segs[i].off >= R \/ segs[i].off + segs[i].len <= R
                     /\ segs[i].type = "GD_EOB" <=> (i = Len(segs) /\ R < L)
                     /\ segs[i].type \in CheckpointTypes <=>
                           (segs[i].off + segs[i].len = R /\ segs[i].len < Capacity)
<1>1. PICK offset, n :
          /\ CutAt(offset, n, R, L, 0)
          /\ EncapsulateBlockData(R, L, 0, 0, NoSerial) = SegmentsAt(offset, n, R, L, 0, NoSerial)
    <2>1. NoSerial \in Nat /\ L = 0 + (IF 0 = 0 THEN L ELSE 0) /\ 0 < L /\ R \in Nat
        BY DEF NoSerial
    <2> QED BY <2>1, BlockIsCut DEF IsCut
<1> DEFINE segs == SegmentsAt(offset, n, R, L, 0, NoSerial)
<1>2. n \in Nat \ {0} /\ offset[1] = 0
    BY <1>1 DEF CutAt
<1>0. CutInto(segs, offset, n, R, L, 0, NoSerial)
    BY <1>1, SegmentFields
<1> HIDE DEF segs
<1>3. /\ Len(segs) = n /\ n \in 1 .. n
      /\ \A i \in 1 .. n :
            /\ segs[i].off = offset[i]
            /\ segs[i].len = SegmentLength(R, L, offset[i])
            /\ segs[i].type = SegmentType(R, L, 0, NoSerial, RedEnded(offset, R, i), offset[i])
    BY <1>0, Zenon DEF CutInto
<1>5. Tiles(segs, 0, L)
    <2>1. offset[n] + SegmentLength(R, L, offset[n]) = L
        BY <1>1, BlockSegments
    <2>2. Tiles(SegmentsAt(offset, n, R, L, 0, NoSerial), 0, L)
        BY <1>1, <2>1, CutTiles
    <2> QED BY <2>2 DEF segs
<1>6. ASSUME NEW i \in 1 .. n
      PROVE  /\ segs[i].off >= R \/ segs[i].off + segs[i].len <= R
             /\ segs[i].type = "GD_EOB" <=> (i = n /\ R < L)
    BY <1>1, <1>3, BlockSegments, SegmentTypes
<1>7. ASSUME NEW i \in 1 .. n
      PROVE  segs[i].type \in CheckpointTypes <=>
                (segs[i].off + segs[i].len = R /\ segs[i].len < Capacity)
    <2>1. offset[i] \in Nat /\ offset[i] < L
        BY <1>1 DEF CutAt
    <2>2. SegmentType(R, L, 0, NoSerial, RedEnded(offset, R, i), offset[i]) \in CheckpointTypes <=>
             (offset[i] + SegmentLength(R, L, offset[i]) = R
              /\ SegmentLength(R, L, offset[i]) < Capacity)
        BY <2>1, CheckpointEndsRed
    <2> QED BY <1>3, <2>2, Zenon
<1> QED BY <1>1, <1>3, <1>5, <1>6, <1>7 DEF segs

\* However long the block and its red part are, its segments cover it from
\* end to end, in segments that are not empty and fit the MTU, red and green
\* apart (EncapsulateBlockData on the first transmission).
THEOREM BlockIsTiledTheorem == Spec => []BlockIsTiled
<1>1. SegmentsInv => BlockIsTiled
    <2> SUFFICES ASSUME SegmentsInv, len > 0 PROVE BlockIsTiled
        BY DEF BlockIsTiled
    <2>1. len \in Nat \ {0} /\ rd \in 0 .. len
        BY DEF SegmentsInv
    <2> QED BY <2>1, BlockCut DEF BlockIsTiled, Sent
<1> QED BY <1>1, SegmentsSpec, PTL

\* A gap of whole segments within the red part is cut into whole segments; if
\* it starts the block, only the last of them is a checkpoint.
LEMMA GapCut ==
    ASSUME NEW R \in Nat, NEW first \in Nat, NEW count \in Nat \ {0},
           (first + count) * Capacity < R
    PROVE  LET segs == EncapsulateBlockData(R, R, first * Capacity, count * Capacity, 1)
           IN  /\ Tiles(segs, first * Capacity, first * Capacity + count * Capacity)
               /\ Last(segs).type \in CheckpointTypes
               /\ first = 0 => \A i \in 1 .. Len(segs) - 1 : segs[i].type = "RD"
<1> DEFINE from == first * Capacity
           size == count * Capacity
           to == (first + count) * Capacity
<1>1. /\ from \in Nat /\ size \in Nat /\ size > 0 /\ to = from + size /\ to \in Nat
    BY CapacityAssumption
<1>2. PICK offset, n :
          /\ CutAt(offset, n, R, to, from)
          /\ EncapsulateBlockData(R, R, from, size, 1) = SegmentsAt(offset, n, R, to, size, 1)
    <2> HIDE DEF from, size, to
    <2>1. to = from + (IF size = 0 THEN R ELSE size) /\ from < to
        BY <1>1
    <2> QED BY <1>1, <2>1, BlockIsCut DEF IsCut
<1>3. /\ n \in Nat \ {0} /\ offset[1] = from /\ offset[n + 1] >= to
      /\ \A i \in 1 .. n : /\ offset[i] \in Nat /\ offset[i] < to
                           /\ offset[i + 1] = offset[i] + SegmentLength(R, to, offset[i])
    BY <1>2 DEF CutAt
<1>4. ASSUME NEW m \in Nat, m * Capacity < to
      PROVE  /\ m * Capacity + Capacity <= to /\ (m + 1) * Capacity = m * Capacity + Capacity
             /\ SegmentLength(R, to, m * Capacity) = Capacity
             /\ ~EndsBlock(R, to, m * Capacity) /\ ~EndsRed(R, m * Capacity)
    <2>1. m * Capacity + Capacity <= to /\ (m + 1) * Capacity = m * Capacity + Capacity
        BY <1>4, MultipleBelow
    <2>2. m * Capacity \in Nat /\ to < R
        BY CapacityAssumption
    <2> HIDE DEF to
    <2>3. ~EndsBlock(R, to, m * Capacity) /\ ~EndsRed(R, m * Capacity)
        BY <1>1, <2>1, <2>2, CapacityAssumption DEF EndsBlock, EndsRed
    <2> QED BY <2>1, <2>3 DEF SegmentLength
<1> HIDE DEF to
<1> DEFINE S == {i \in Nat : i \in 1 .. n => \E m \in Nat : offset[i] = m * Capacity}
<1>5. 0 \in S
    OBVIOUS
<1>6. ASSUME NEW i \in Nat, i \in S PROVE i + 1 \in S
    <2> SUFFICES ASSUME i + 1 \in 1 .. n PROVE \E m \in Nat : offset[i + 1] = m * Capacity
        OBVIOUS
    <2>1. CASE i = 0
        BY <1>3, <2>1
    <2>2. CASE i # 0
        <3>1. i \in 1 .. n
            BY <1>3, <2>2
        <3>2. PICK m \in Nat : offset[i] = m * Capacity
            BY <1>6, <3>1
        <3>3. offset[i + 1] = (m + 1) * Capacity
            BY <1>3, <1>4, <3>1, <3>2
        <3> QED BY <3>3
    <2> QED BY <2>1, <2>2
<1>7. Nat \subseteq S
    <2> HIDE DEF S
    <2> QED BY <1>5, <1>6, AllNat
<1>8. n \in 1 .. n
    BY <1>3
<1>9. PICK m \in Nat : offset[n] = m * Capacity
    BY <1>3, <1>7, <1>8
<1>10. offset[n] + SegmentLength(R, to, offset[n]) = to /\ offset[n] + Capacity = to
    <2>1. m * Capacity < to
        BY <1>3, <1>8, <1>9
    <2>2. SegmentLength(R, to, offset[n]) = Capacity /\ offset[n] + Capacity <= to
        BY <1>4, <1>9, <2>1
    <2>3. offset[n] + Capacity >= to /\ offset[n] \in Nat
        BY <1>3, <1>8, <2>2
    <2> QED BY <1>1, <2>2, <2>3, CapacityAssumption
<1> DEFINE segs == SegmentsAt(offset, n, R, to, size, 1)
<1>11. Tiles(segs, from, to)
    BY <1>1, <1>2, <1>10, CutTiles
<1>12. /\ Len(segs) = n /\ Last(segs) = segs[n]
       /\ \A i \in 1 .. n :
             segs[i].type = SegmentType(R, to, size, 1, RedEnded(offset, R, i), offset[i])
    <2>1. CutInto(segs, offset, n, R, to, size, 1)
        BY <1>1, <1>2, SegmentFields
    <2> HIDE DEF segs
    <2> QED BY <2>1, Zenon DEF CutInto
<1>13. Last(segs).type = "RD_CP"
    <2>1. ~EndsBlock(R, to, offset[n]) /\ ~EndsRed(R, offset[n])
        BY <1>3, <1>4, <1>8, <1>9
    <2>2. AsksReport(size, 1, offset[n]) /\ R # 0
        BY <1>1, <1>3, <1>8, <1>10 DEF AsksReport, NoSerial, to
    <2> QED BY <1>8, <1>12, <2>1, <2>2 DEF SegmentType
<1>14. ASSUME NEW i \in 1 .. n PROVE ~EndsBlock(R, to, offset[i]) /\ ~EndsRed(R, offset[i])
    <2>1. PICK k \in Nat : offset[i] = k * Capacity
        BY <1>3, <1>7
    <2>2. offset[i] < to
        BY <1>3
    <2> QED BY <1>4, <2>1, <2>2
<1>15. ASSUME first = 0, NEW i \in 1 .. n - 1 PROVE segs[i].type = "RD"
    <2>1. i \in 1 .. n /\ i + 1 \in 1 .. n
        BY <1>3
    <2>2. offset[i] \in Nat /\ offset[i + 1] = offset[i] + SegmentLength(R, to, offset[i])
        BY <1>3, <2>1
    <2>3. SegmentLength(R, to, offset[i]) = Capacity
        BY <1>14, <2>1 DEF SegmentLength
    <2>4. offset[i] + Capacity < to
        BY <1>3, <2>1, <2>2, <2>3
    <2>5. from = 0 /\ to = size
        BY <1>1, <1>15, CapacityAssumption
    <2>6. ~AsksReport(size, 1, offset[i])
        <3> HIDE DEF from, size
        <3> QED BY <1>1, <2>2, <2>4, <2>5, CapacityAssumption DEF AsksReport
    <2>7. ~RedEnded(offset, R, i)
        <3>1. \A j \in 1 .. i - 1 : j \in 1 .. n
            BY <1>3, <2>1
        <3> QED BY <1>14, <3>1 DEF RedEnded
    <2>8. R # 0
        BY CapacityAssumption DEF to
    <2>9. ~EndsBlock(R, to, offset[i]) /\ ~EndsRed(R, offset[i])
        BY <1>14, <2>1
    <2>10. segs[i].type = SegmentType(R, to, size, 1, RedEnded(offset, R, i), offset[i])
        BY <1>12, <2>1
    <2> HIDE DEF segs, size
    <2> QED BY <2>6, <2>7, <2>8, <2>9, <2>10, Zenon DEF SegmentType
<1>16. Last(segs).type \in CheckpointTypes
    BY <1>12, <1>13 DEF CheckpointTypes, RedTypes
<1> HIDE DEF segs
<1>17. /\ Tiles(segs, from, to)
       /\ Last(segs).type \in CheckpointTypes
       /\ first = 0 => \A i \in 1 .. Len(segs) - 1 : segs[i].type = "RD"
    BY <1>11, <1>12, <1>15, <1>16
<1>18. EncapsulateBlockData(R, R, from, size, 1) = segs /\ to = from + size
    BY <1>1, <1>2 DEF segs
<1> QED BY <1>17, <1>18

\* A gap of whole red segments is filled by what is sent again, and the last
\* segment asks for a report (EncapsulateBlockData on a retransmission).
THEOREM GapIsFilledTheorem == Spec => []GapIsFilledAndReported
<1>1. SegmentsInv => GapIsFilledAndReported
    <2> SUFFICES ASSUME SegmentsInv, gap[2] > 0 PROVE GapIsFilledAndReported
        BY DEF GapIsFilledAndReported
    <2>1. PICK first, count \in Nat : /\ count > 0
                                     /\ gap = <<first * Capacity, count * Capacity>>
                                     /\ (first + count) * Capacity < rd
        BY DEF SegmentsInv
    <2>2. rd \in Nat /\ count \in Nat \ {0}
        BY <2>1 DEF SegmentsInv
    <2>3. gap[1] = first * Capacity /\ gap[2] = count * Capacity
        BY <2>1
    <2>4. gap[1] = 0 => first = 0
        BY <2>3, CapacityAssumption
    <2> QED BY <2>1, <2>2, <2>3, <2>4, GapCut DEF GapIsFilledAndReported, Resent
<1> QED BY <1>1, SegmentsSpec, PTL
=============================================================================
