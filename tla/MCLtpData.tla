----------------------------- MODULE MCLtpData -----------------------------
(***************************************************************************)
(* The algorithms on segments and claims.  Either a record is given one    *)
(* reception claim after the other, in any order and any number of times:  *)
(* the claims of the segments of a block, however it is cut, or any        *)
(* claims, which may overlap.  Or a block of any length and red prefix is  *)
(* cut into segments, and gaps in front of its last red segment, as a      *)
(* report can ask for them, are sent again.                                *)
(***************************************************************************)
EXTENDS LtpClaims, LtpSegmentation, SequencesExt

CONSTANTS BlockSize,   \* bound: units of a block whose segments are claimed
          AnySize,     \* bound: units claimed by claims that may overlap
          MaxLen       \* bound: units of a block that is cut by the code

ASSUME MCLtpDataAssumption ==
    /\ BlockSize \in Nat \ {0} /\ BlockSize <= WordMod
    /\ AnySize \in Nat
    /\ MaxLen \in Nat

VARIABLES
    pieces,    \* the claims that may come
    cl,        \* the claims on record
    got,       \* the units claimed so far
    len, rd,   \* the block that is cut, and its red prefix
    gap        \* <<offset, length>> sent again; length 0: nothing yet

vars == <<pieces, cl, got, len, rd, gap>>

\* A claim is a pair of its offset and its length.
Segments(cuts) ==
    {<<o, Min({c \in cuts \union {BlockSize} : c > o}) - o>> : o \in cuts}

AnyClaims == {c \in (0 .. AnySize - 1) \X (1 .. AnySize) : c[1] + c[2] <= AnySize}

Init ==
    /\ cl = NoClaims /\ got = {} /\ gap = <<0, 0>>
    /\ \/ /\ pieces \in {Segments(cuts \union {0}) : cuts \in SUBSET (1 .. BlockSize - 1)}
                        \union {AnyClaims}
          /\ len = 0 /\ rd = 0
       \/ /\ pieces = {}
          /\ len \in 1 .. MaxLen /\ rd \in 0 .. len

Claim(c) ==
    /\ cl' = InsertClaim(cl, c[1], c[2])
    /\ got' = got \union c[1] .. c[1] + c[2] - 1
    /\ UNCHANGED <<pieces, len, rd, gap>>

\* Segments start at multiples of Capacity; the last red segment is claimed
\* by the report that asks for a gap.
Retransmit ==
    /\ gap = <<0, 0>>
    /\ \E first, count \in 0 .. MaxLen :
          /\ count > 0
          /\ (first + count) * Capacity < rd
          /\ gap' = <<first * Capacity, count * Capacity>>
    /\ UNCHANGED <<pieces, cl, got, len, rd>>

Next == (\E c \in pieces : Claim(c)) \/ Retransmit

Spec == Init /\ [][Next]_vars

----------------------------------------------------------------------------
(* Claims.                                                                 *)

\* No unit is ever claimed that was not received, whatever the claims are.
NothingInvented == Bytes(cl) \subseteq got

OfSegments == pieces # AnyClaims

\* The claims of the segments of a block lose nothing, however the block is
\* cut and in whatever order the segments come.
NothingForgotten == OfSegments => Bytes(cl) = got

\* What is missing is the complement of what is claimed, up to the last claim.
MissingIsTheRest ==
    OfSegments => Bytes(FindMissingClaims(cl)) =
        {u \in 0 .. BlockSize - 1 : u \notin got /\ \E v \in got : u < v}

----------------------------------------------------------------------------
(* Segments.                                                               *)

Sent   == EncapsulateBlockData(rd, len, 0, 0, NoSerial)
Resent == EncapsulateBlockData(rd, rd, gap[1], gap[2], 1)

Tiles(segs, from, to) ==
    /\ segs[1].off = from
    /\ Last(segs).off + Last(segs).len = to
    /\ \A i \in 1 .. Len(segs) :
          /\ segs[i].len \in 1 .. Capacity
          /\ i < Len(segs) => segs[i].off + segs[i].len = segs[i + 1].off

\* The segments of a block cover it from end to end, each unit once, none of
\* them empty, above the MTU or with red and green units together; none but the
\* last of a block with a green part is marked as the end of it; and the one
\* checkpoint is the segment that ends the red part, unless that one is full:
\* a red part that fills its last segment is left without a mark.
BlockIsTiled ==
    len > 0 =>
        /\ Tiles(Sent, 0, len)
        /\ \A i \in 1 .. Len(Sent) :
              /\ Sent[i].off >= rd \/ Sent[i].off + Sent[i].len <= rd
              /\ Sent[i].type = "GD_EOB" <=> (i = Len(Sent) /\ rd < len)
              /\ Sent[i].type \in CheckpointTypes <=>
                    (Sent[i].off + Sent[i].len = rd /\ Sent[i].len < Capacity)

\* What is sent again for a gap covers the gap and nothing else, and its last
\* segment asks the receiver for a new report.  That no other one does holds
\* only for a gap at the start of the block: the code compares an offset in the
\* block with the length of the gap.
GapIsFilledAndReported ==
    gap[2] > 0 => /\ Tiles(Resent, gap[1], gap[1] + gap[2])
                  /\ Last(Resent).type \in CheckpointTypes
                  /\ gap[1] = 0 => \A i \in 1 .. Len(Resent) - 1 : Resent[i].type = "RD"
=============================================================================
