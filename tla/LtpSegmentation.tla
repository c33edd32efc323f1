-------------------------- MODULE LtpSegmentation --------------------------
(***************************************************************************)
(* LtpProtocol::EncapsulateBlockData: how a block, or a gap that a report  *)
(* claims again, is cut into segments and which of them are checkpoints.   *)
(* Offsets and lengths are counted in bytes, the units of data, of which   *)
(* Capacity fit into the MTU behind the headers.                           *)
(***************************************************************************)
EXTENDS Integers, FiniteSetsExt

CONSTANT Capacity     \* data units that fit into one segment

ASSUME CapacityAssumption == Capacity \in Nat \ {0}

RedTypes        == {"RD", "RD_CP", "RD_CP_EORP", "RD_CP_EORP_EOB"}
CheckpointTypes == RedTypes \ {"RD"}
GreenTypes      == {"GD", "GD_EOB"}
DataTypes       == RedTypes \union GreenTypes

NoSerial == 0         \* serial numbers of reports start above zero

DataSegment(type, off, len, rp) ==
    [type |-> type, off |-> off, len |-> len, rp |-> rp]

\* (Mutant: the segment that crosses the end of the red part is kept whole.)
BugEndsRed(rdSize, o) == o < rdSize /\ o + Capacity > rdSize + 1

\* The segment at o, filled, would reach beyond the red part.
EndsRed(rdSize, o) == o < rdSize /\ o + Capacity > rdSize

\* The segment at o is green and has room for all that is left.
EndsBlock(rdSize, dataSize, o) == o >= rdSize /\ o + Capacity >= dataSize

\* (Mutant: a gap that is exactly filled is sent without a checkpoint.)
BugAsksReport(claimLen, serial, o) == serial # NoSerial /\ o + Capacity > claimLen

\* The segment at o of a gap is sent as a checkpoint.
AsksReport(claimLen, serial, o) == serial # NoSerial /\ o + Capacity >= claimLen

\* The data that goes into the segment at o of a block that ends at dataSize.
SegmentLength(rdSize, dataSize, o) ==
    CASE EndsBlock(rdSize, dataSize, o) -> dataSize - o
      [] EndsRed(rdSize, o)             -> rdSize - o
      [] OTHER                          -> Capacity

SegmentType(rdSize, dataSize, claimLen, serial, endOfRedPart, o) ==
    IF EndsBlock(rdSize, dataSize, o) THEN "GD_EOB"
    ELSE IF EndsRed(rdSize, o)
         THEN IF o + Capacity >= dataSize THEN "RD_CP_EORP_EOB" ELSE "RD_CP_EORP"
    ELSE IF rdSize = 0 THEN "GD"
    ELSE IF AsksReport(claimLen, serial, o) THEN "RD_CP"
    ELSE IF endOfRedPart THEN "GD" ELSE "RD"

\* The segment at o; only two types carry serial numbers.
EncapsulateSegment(rdSize, dataSize, claimLen, serial, endOfRedPart, o) ==
    LET type == SegmentType(rdSize, dataSize, claimLen, serial, endOfRedPart, o)
    IN  DataSegment(type, o, SegmentLength(rdSize, dataSize, o),
                    IF type \in {"RD_CP", "RD_CP_EORP"} THEN serial ELSE NoSerial)

\* A block of dataLen units with a red prefix of rdSize, from claimOff on;
\* claimLen = 0 stands for all of it.  serial is the report that asked for a
\* retransmission and NoSerial on the first transmission.
EncapsulateBlockData(rdSize, dataLen, claimOff, claimLen, serial) ==
    LET dataSize == claimOff + (IF claimLen = 0 THEN dataLen ELSE claimLen)
        next(o) == o + SegmentLength(rdSize, dataSize, o)
        offset[i \in 1 .. dataSize + 1] ==
            IF i = 1 THEN claimOff ELSE next(offset[i - 1])
        count == Min({i \in 1 .. dataSize : offset[i + 1] >= dataSize})
        endOfRedPart(i) == \E j \in 1 .. i - 1 : EndsRed(rdSize, offset[j])
    IN  [i \in 1 .. count |->
            EncapsulateSegment(rdSize, dataSize, claimLen, serial, endOfRedPart(i), offset[i])]
=============================================================================
