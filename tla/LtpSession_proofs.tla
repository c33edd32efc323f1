-------------------------- MODULE LtpSession_proofs --------------------------
(***************************************************************************)
(* Proofs about two engines and one block, for blocks of any length, any   *)
(* limits and any losses and timers.  In this order: no queue is forgotten *)
(* by the link; the types; what closing a session leaves behind; the       *)
(* claims, the reports and the acknowledged data are what was sent and     *)
(* received; what the client is given was handed up; the session delivers  *)
(* the red part as LtpDelivery promises; no report ends the process; the   *)
(* sender does not stop silently.                                          *)
(***************************************************************************)
EXTENDS LtpSession, LtpData_proofs

\* The variables that the queues and the link are kept in are functions on
\* the engines, whatever the segments look like.
Shape ==
    /\ ops = [e \in Engines |-> ops[e]]
    /\ app = [e \in Engines |-> app[e]]
    /\ linkUp \in [Engines -> BOOLEAN]
    /\ sending \in [Engines -> BOOLEAN]

\* What the queue proof carries along.
QInv == Shape /\ NothingStalls

\* What leaves the queues and the link alone keeps the invariant.
LEMMA QueuesUnchanged ==
    ASSUME QInv, UNCHANGED <<ops, app, linkUp, sending>>
    PROVE  QInv'
BY DEF QInv, Shape, NothingStalls, QueueEmpty

\* Enqueue schedules Send for what it appends, if the link is up.
LEMMA EnqueueStep ==
    ASSUME QInv, NEW e \in Engines, NEW newOps, NEW newApp,
           Enqueue(e, newOps, newApp), UNCHANGED linkUp
    PROVE  QInv'
<1>1. /\ ops'[e] = ops[e] \o newOps /\ app'[e] = app[e] \o newApp
      /\ \A f \in Engines \ {e} : ops'[f] = ops[f] /\ app'[f] = app[f] /\ sending'[f] = sending[f]
    BY DEF QInv, Shape, Enqueue
<1>2. Shape'
    BY DEF QInv, Shape, Enqueue
<1>3. linkUp[e] /\ ~QueueEmpty(e)' => sending'[e]
    <2> SUFFICES ASSUME linkUp[e], ~sending'[e] PROVE QueueEmpty(e)'
        OBVIOUS
    <2>1. ~sending[e] /\ newOps = <<>> /\ newApp = <<>>
        BY DEF QInv, Shape, Enqueue
    <2>2. ops[e] = <<>> /\ app[e] = <<>>
        BY <2>1 DEF QInv, NothingStalls, QueueEmpty
    <2> QED BY <1>1, <2>1, <2>2 DEF QueueEmpty
<1>4. \A f \in Engines : linkUp'[f] /\ ~QueueEmpty(f)' => sending'[f]
    BY <1>1, <1>3 DEF QInv, NothingStalls, QueueEmpty
<1> QED BY <1>2, <1>4 DEF QInv, NothingStalls

\* Send goes on as long as there is something to fetch.
LEMMA TransmitStep ==
    ASSUME QInv, NEW e \in Engines, Transmit(e), linkUp' \in [Engines -> BOOLEAN],
           \A f \in Engines \ {e} : linkUp'[f] = linkUp[f]
    PROVE  QInv'
<1>1. CASE QueueEmpty(e)
    BY <1>1 DEF Transmit, QInv, Shape, NothingStalls, QueueEmpty
<1>2. CASE ~QueueEmpty(e)
    <2>1. /\ sending' = [sending EXCEPT ![e] = TRUE]
          /\ \A f \in Engines \ {e} : ops'[f] = ops[f] /\ app'[f] = app[f]
          /\ ops' = [f \in Engines |-> ops'[f]] /\ app' = [f \in Engines |-> app'[f]]
        BY <1>2 DEF Transmit, QInv, Shape
    <2> QED BY <2>1 DEF QInv, Shape, NothingStalls, QueueEmpty
<1> QED BY <1>1, <1>2

\* Every handler that queues a segment does it by Enqueue, and every event of
\* the path or of a timer keeps the invariant.
LEMMA NextQInv == QInv /\ [Next]_vars => QInv'
<1> SUFFICES ASSUME QInv, [Next]_vars PROVE QInv'
    OBVIOUS
<1>1. CASE UNCHANGED vars
    BY <1>1, QueuesUnchanged DEF vars
<1>2. CASE StartTransmission
    BY <1>2, EnqueueStep DEF StartTransmission, Engines
<1>3. CASE ReceiveReport
    <2>1. \/ UNCHANGED <<ops, app, linkUp, sending>>
          \/ \E newOps, newApp : Enqueue("snd", newOps, newApp) /\ UNCHANGED linkUp
        BY <1>3, ZenonT(120) DEF ReceiveReport, Dropped, Crash
    <2> QED BY <2>1, EnqueueStep, QueuesUnchanged DEF Engines
<1>4. CASE CheckpointTimeout
    BY <1>4, EnqueueStep, QueuesUnchanged DEF CheckpointTimeout, Crash, Engines
<1>5. CASE ReceiveData
    BY <1>5, EnqueueStep, QueuesUnchanged DEF ReceiveData, Dropped, Crash, Engines
<1>6. CASE ReceiveReportAck
    BY <1>6, QueuesUnchanged DEF ReceiveReportAck, Dropped
<1>7. CASE ReportTimeout
    BY <1>7, EnqueueStep, QueuesUnchanged DEF ReportTimeout, Crash, Engines
<1>8. ASSUME NEW e \in Engines, SetLinkUp(e) PROVE QInv'
    <2>1. linkUp' \in [Engines -> BOOLEAN] /\ \A f \in Engines \ {e} : linkUp'[f] = linkUp[f]
        BY <1>8 DEF SetLinkUp, QInv, Shape
    <2> QED BY <1>8, <2>1, TransmitStep DEF SetLinkUp
<1>9. ASSUME NEW e \in Engines, Send(e) PROVE QInv'
    <2>1. linkUp' \in [Engines -> BOOLEAN] /\ \A f \in Engines \ {e} : linkUp'[f] = linkUp[f]
        BY <1>9 DEF Send, QInv, Shape
    <2> QED BY <1>9, <2>1, TransmitStep DEF Send
<1>10. ASSUME NEW e \in Engines, ClosePostponed(e) \/ SessionInactive(e) \/ Lose(e) PROVE QInv'
    BY <1>10, QueuesUnchanged DEF ClosePostponed, SessionInactive, Lose
<1> QED BY <1>1, <1>2, <1>3, <1>4, <1>5, <1>6, <1>7, <1>8, <1>9, <1>10 DEF Next, Event

\* Whatever queued it, no segment waits over a link that is up without a Send
\* event to fetch it.
THEOREM NoStall == Spec => []NothingStalls
<1>1. Init => QInv
    BY DEF Init, QInv, Shape, NothingStalls, QueueEmpty
<1>2. QInv => NothingStalls
    BY DEF QInv
<1> QED BY <1>1, <1>2, NextQInv, PTL DEF Spec

----------------------------------------------------------------------------
(* What the segments, the claims and the records look like.                *)

\* Claims within the block.
BlockClaims == {c \in ClaimSets : Bytes(c) \subseteq 0 .. BlockLen - 1}

\* The segments of the block, reports and their acknowledgments.
Segs    == {m \in [type : DataTypes, off : Nat, len : 1 .. Capacity, rp : Nat] :
               m.off + m.len <= BlockLen}
Reports == [type : {"RS"}, rp : Nat, claims : BlockClaims]
Acks    == [type : {"RAS"}, rp : Nat]

Infos == [claims : BlockClaims, rp : Nat]
Filed == UNION {[D -> BlockClaims] : D \in SUBSET Nat}

Sessions ==
    [active : BOOLEAN, redDone : BOOLEAN, blockDone : BOOLEAN, closed : BOOLEAN,
     fullGreen : BOOLEAN, rp : Nat, rtx : Nat, closing : Nat, ends : Nat,
     alive : BOOLEAN, timer : {{}} \union {{i} : i \in Infos}, high : 0 .. BlockLen,
     claims : Filed]

\* Nothing is claimed before anything arrives.
LEMMA NoClaimsInBlock == NoClaims \in BlockClaims
<1>1. ClaimSet(NoClaims) /\ Bytes(NoClaims) = {}
    BY DEF ClaimSet, NoClaims, Bytes
<1> QED BY <1>1, ClaimSetsAll DEF BlockClaims

\* Claims within the block start and end in it.
LEMMA BlockClaimsBounds ==
    ASSUME NEW c \in BlockClaims
    PROVE  /\ ClaimSet(c) /\ IsClaims(c)
           /\ \A o \in DOMAIN c : o \in Nat /\ Upper(c, o) \in Nat /\ Upper(c, o) <= BlockLen
<1>1. ClaimSet(c) /\ Bytes(c) \subseteq 0 .. BlockLen - 1
    BY ClaimSetsAll DEF BlockClaims
<1>2. ASSUME NEW o \in DOMAIN c
      PROVE  /\ o \in Nat /\ c[o] \in Nat \ {0} /\ Upper(c, o) \in Nat /\ Upper(c, o) <= BlockLen
             /\ Upper(c, o) = o + c[o]
    <2>1. o \in Nat /\ c[o] \in Nat \ {0} /\ Upper(c, o) \in Nat /\ o < Upper(c, o)
        BY <1>1, ClaimSetDomain
    <2>2. Upper(c, o) - 1 \in o .. Upper(c, o) - 1
        BY <2>1
    <2>3. Upper(c, o) - 1 \in 0 .. BlockLen - 1
        BY <1>1, <2>2 DEF Bytes
    <2> QED BY <2>1, <2>3, LtpSessionAssumption DEF Upper
<1>3. IsClaims(c)
    BY <1>2, LtpSessionAssumption, CapacityAssumption DEF IsClaims
<1> QED BY <1>1, <1>2, <1>3

\* A segment of the block is claimed within the block.
LEMMA InsertInBlock ==
    ASSUME NEW c \in BlockClaims, NEW m \in Segs
    PROVE  InsertClaim(c, m.off, m.len) \in BlockClaims
<1>1. ClaimSet(c) /\ Bytes(c) \subseteq 0 .. BlockLen - 1
    BY ClaimSetsAll DEF BlockClaims
<1>2. m.off \in Nat /\ m.len \in Nat \ {0} /\ m.off + m.len <= BlockLen
    BY CapacityAssumption DEF Segs
<1>3. /\ ClaimSet(InsertClaim(c, m.off, m.len))
      /\ Bytes(InsertClaim(c, m.off, m.len)) \subseteq Bytes(c) \union (m.off .. m.off + m.len - 1)
    BY <1>1, <1>2, InsertClaimBounds
<1>4. m.off .. m.off + m.len - 1 \subseteq 0 .. BlockLen - 1
    BY <1>2, LtpSessionAssumption
<1> QED BY <1>1, <1>3, <1>4, ClaimSetsAll DEF BlockClaims

\* So are the claims of a report filed.
LEMMA StoreInBlock ==
    ASSUME NEW c \in BlockClaims, NEW report \in BlockClaims
    PROVE  StoreClaims(c, report) \in BlockClaims
<1>1. ClaimSet(c) /\ Bytes(c) \subseteq 0 .. BlockLen - 1
    BY ClaimSetsAll DEF BlockClaims
<1>2. ClaimSet(report) /\ Bytes(report) \subseteq 0 .. BlockLen - 1
    BY ClaimSetsAll DEF BlockClaims
<1>3. /\ ClaimSet(StoreClaims(c, report))
      /\ Bytes(StoreClaims(c, report)) \subseteq Bytes(c) \union Bytes(report)
    BY <1>1, <1>2, StoreClaimsBounds
<1> QED BY <1>1, <1>2, <1>3, ClaimSetsAll DEF BlockClaims

\* A single segment, claimed by the checkpoint timer.
LEMMA SegmentClaim ==
    ASSUME NEW m \in Segs
    PROVE  [o \in {m.off} |-> m.len] \in BlockClaims
<1> DEFINE c == [o \in {m.off} |-> m.len]
<1>1. m.off \in Nat /\ m.len \in Nat \ {0} /\ m.off + m.len <= BlockLen
    BY CapacityAssumption DEF Segs
<1>2. ClaimSet(c)
    <2>1. DOMAIN c \subseteq 0 .. m.off
        BY <1>1
    <2> QED BY <1>1, <2>1 DEF ClaimSet
<1>3. ASSUME NEW o \in DOMAIN c PROVE o = m.off /\ Upper(c, o) = m.off + m.len
    BY DEF Upper
<1> HIDE DEF c
<1>4. Bytes(c) \subseteq 0 .. BlockLen - 1
    BY <1>1, <1>3, LtpSessionAssumption DEF Bytes
<1> QED BY <1>2, <1>4, ClaimSetsAll DEF BlockClaims, c

\* The gaps FindMissingClaims reports start within the block, and none is
\* empty: the unsigned difference of two offsets is zero only if they agree.
LEMMA MissingNotEmpty ==
    ASSUME NEW c \in BlockClaims
    PROVE  ClaimSet(FindMissingClaims(c))
<1> DEFINE f == FindMissingClaims(c)
           first(u) == Min({o \in GapsIn(c) : LastUpper(c, o) = u})
<1>1. /\ ClaimSet(c)
      /\ \A o \in DOMAIN c : o \in Nat /\ Upper(c, o) \in Nat /\ Upper(c, o) <= BlockLen
    BY BlockClaimsBounds
<1>2. f = [u \in {LastUpper(c, o) : o \in GapsIn(c)} |-> (first(u) - u) % WordMod]
    BY DEF FindMissingClaims, GapsIn
<1>3. ASSUME NEW o \in GapsIn(c)
      PROVE  LastUpper(c, o) \in 0 .. BlockLen /\ o \in 0 .. BlockLen /\ LastUpper(c, o) # o
    <2>1. o \in DOMAIN c /\ LastUpper(c, o) # o
        BY <1>3 DEF GapsIn
    <2>2. LastUpper(c, o) \in Nat /\ (LastUpper(c, o) = 0 \/ \E p \in DOMAIN c : LastUpper(c, o) = Upper(c, p))
        BY <1>1, <2>1, LastUpperCases
    <2>3. o < Upper(c, o)
        BY <1>1, <2>1, ClaimSetDomain
    <2>4. LastUpper(c, o) <= BlockLen
        BY <1>1, <2>2, LtpSessionAssumption
    <2>5. o \in Nat /\ o <= BlockLen
        BY <1>1, <2>1, <2>3, LtpSessionAssumption
    <2> QED BY <2>1, <2>2, <2>4, <2>5, LtpSessionAssumption
<1>4. ASSUME NEW u \in DOMAIN f PROVE u \in 0 .. BlockLen /\ f[u] \in Nat \ {0}
    <2>1. PICK o \in GapsIn(c) : u = LastUpper(c, o)
        BY <1>2
    <2> DEFINE G == {q \in GapsIn(c) : LastUpper(c, q) = u}
    <2>2. first(u) \in G
        <3>1. G # {} /\ G \in SUBSET DOMAIN c
            BY <2>1 DEF GapsIn
        <3> QED BY <1>1, <3>1, ClaimSetDomain
    <2>3. first(u) \in 0 .. BlockLen /\ u \in 0 .. BlockLen /\ first(u) # u
        BY <1>3, <2>2
    <2>4. f[u] = (first(u) - u) % WordMod
        BY <1>2
    <2> HIDE DEF first
    <2>5. (first(u) - u) % WordMod \in Nat \ {0}
        BY <2>3, LtpSessionAssumption, WordModAssumption
    <2> QED BY <2>3, <2>4, <2>5
<1> HIDE DEF f
<1>5. /\ DOMAIN f \subseteq 0 .. BlockLen /\ f \in [DOMAIN f -> Nat \ {0}]
    <2>1. f = [u \in DOMAIN f |-> f[u]]
        BY <1>2
    <2> QED BY <1>4, <2>1
<1>6. BlockLen \in Nat
    BY LtpSessionAssumption
<1> QED BY <1>5, <1>6 DEF ClaimSet, f

\* Whatever is cut within the block, the segments lie within it.
LEMMA CutInBlock ==
    ASSUME NEW offset, NEW n, NEW R \in 0 .. BlockLen, NEW size \in 0 .. BlockLen,
           NEW claimOff, NEW claimLen, NEW serial \in Nat, CutAt(offset, n, R, size, claimOff)
    PROVE  SegmentsAt(offset, n, R, size, claimLen, serial) \in Seq(Segs)
<1>1. /\ n \in Nat /\ BlockLen \in Nat
      /\ \A i \in 1 .. n : offset[i] \in Nat /\ offset[i] < size
    BY LtpSessionAssumption DEF CutAt
<1>2. ASSUME NEW o \in Nat, o < size, NEW ended
      PROVE  EncapsulateSegment(R, size, claimLen, serial, ended, o) \in Segs
    <2> DEFINE type == SegmentType(R, size, claimLen, serial, ended, o)
               l == SegmentLength(R, size, o)
               rp == IF type \in {"RD_CP", "RD_CP_EORP"} THEN serial ELSE NoSerial
    <2>1. type \in DataTypes
        BY DEF SegmentType, DataTypes, RedTypes, GreenTypes
    <2>2. l \in 1 .. Capacity
        BY <1>1, <1>2, SegmentLengthPositive
    <2>3. o + l <= BlockLen
        BY <1>1, <1>2, CapacityAssumption DEF SegmentLength, EndsBlock, EndsRed
    <2>4. rp \in Nat
        BY DEF NoSerial
    <2>5. EncapsulateSegment(R, size, claimLen, serial, ended, o)
              = [type |-> type, off |-> o, len |-> l, rp |-> rp]
        BY DEF EncapsulateSegment, DataSegment
    <2> HIDE DEF type, l, rp
    <2> QED BY <1>2, <2>1, <2>2, <2>3, <2>4, <2>5 DEF Segs
<1> QED BY <1>1, <1>2 DEF SegmentsAt

\* The first transmission is made of segments of the block.
LEMMA BlockInSegs == EncapsulateBlockData(RedLen, BlockLen, 0, 0, NoSerial) \in Seq(Segs)
<1>1. /\ BlockLen \in Nat \ {0} /\ RedLen \in 0 .. BlockLen /\ RedLen \in Nat
      /\ BlockLen = 0 + (IF 0 = 0 THEN BlockLen ELSE 0) /\ NoSerial \in Nat
    BY LtpSessionAssumption DEF NoSerial
<1>2. PICK offset, n :
          /\ CutAt(offset, n, RedLen, BlockLen, 0)
          /\ EncapsulateBlockData(RedLen, BlockLen, 0, 0, NoSerial)
                = SegmentsAt(offset, n, RedLen, BlockLen, 0, NoSerial)
    BY <1>1, BlockIsCut DEF IsCut
<1> QED BY <1>1, <1>2, CutInBlock

\* So is every retransmission of claims that do not leave the red part.
LEMMA RetransmittedInSegs ==
    ASSUME NEW claims, ClaimSet(claims), ~Outside(claims), NEW rp \in Nat
    PROVE  SegmentsOf(claims, rp) \in Seq(Segs)
<1> DEFINE offs == Ascending(DOMAIN claims)
           n == Cardinality(DOMAIN claims)
           serial(i) == IF i = Len(offs) THEN rp ELSE NoSerial
           parts == [i \in 1 .. n |->
                       EncapsulateBlockData(RedLen, RedLen, offs[i], claims[offs[i]], serial(i))]
<1>1. n \in Nat /\ offs \in [1 .. n -> DOMAIN claims]
    BY ClaimSetDomain, AscendingLists DEF Lists
<1>2. Len(offs) = n
    BY <1>1 DEF Ascending
<1>3. SegmentsOf(claims, rp) = FlattenSeq(parts)
    BY <1>2 DEF SegmentsOf
<1>4. ASSUME NEW i \in 1 .. n PROVE parts[i] \in Seq(Segs)
    <2> DEFINE o == offs[i]
               size == o + claims[o]
    <2>1. o \in DOMAIN claims /\ o \in Nat /\ claims[o] \in Nat \ {0} /\ size \in Nat /\ o < size
        BY <1>1, ClaimSetDomain
    <2>2. size <= RedLen /\ RedLen \in 0 .. BlockLen /\ size \in 0 .. BlockLen /\ RedLen \in Nat
        BY <2>1, LtpSessionAssumption DEF Outside
    <2>3. serial(i) \in Nat
        BY DEF NoSerial
    <2> HIDE DEF offs
    <2> DEFINE s == serial(i)
    <2>4. s \in Nat /\ parts[i] = EncapsulateBlockData(RedLen, RedLen, o, claims[o], s)
        BY <2>3
    <2> HIDE DEF o, s, parts, serial
    <2>5. size = o + (IF claims[o] = 0 THEN RedLen ELSE claims[o])
        BY <2>1
    <2>6. PICK offset, m :
              /\ CutAt(offset, m, RedLen, size, o)
              /\ EncapsulateBlockData(RedLen, RedLen, o, claims[o], s)
                    = SegmentsAt(offset, m, RedLen, size, claims[o], s)
        <3> HIDE DEF size
        <3> QED BY <2>1, <2>2, <2>4, <2>5, BlockIsCut DEF IsCut
    <2>7. SegmentsAt(offset, m, RedLen, size, claims[o], s) \in Seq(Segs)
        <3> HIDE DEF size
        <3> QED BY <2>2, <2>4, <2>6, CutInBlock
    <2> QED BY <2>4, <2>6, <2>7
<1> HIDE DEF offs, n, serial
<1>5. parts \in Seq(Seq(Segs))
    BY <1>1, <1>4
<1> HIDE DEF parts
<1> QED BY <1>3, <1>5, FlattenElements

\* What the sender files under a serial number.
LEMMA ClaimsFiled ==
    ASSUME NEW s \in Sessions, NEW rp \in Nat, NEW cl \in BlockClaims
    PROVE  /\ ClaimsOf(s, rp) \in BlockClaims
           /\ WithClaims(s, rp, cl) \in Sessions
           /\ WithClaims(s, rp, cl) = [s EXCEPT !.claims = WithClaims(s, rp, cl).claims]
           /\ ClaimsOf(WithClaims(s, rp, cl), rp) = cl
           /\ \A n \in Nat \ {rp} : ClaimsOf(WithClaims(s, rp, cl), n) = ClaimsOf(s, n)
<1> DEFINE f == s.claims
           g == [n \in DOMAIN f \union {rp} |-> IF n = rp THEN cl ELSE f[n]]
<1>1. PICK D \in SUBSET Nat : f \in [D -> BlockClaims]
    BY DEF Sessions, Filed
<1>2. ClaimsOf(s, rp) \in BlockClaims
    BY <1>1, NoClaimsInBlock DEF ClaimsOf
<1>3. WithClaims(s, rp, cl) = [s EXCEPT !.claims = g]
    BY DEF WithClaims
<1>4. g \in [D \union {rp} -> BlockClaims] /\ D \union {rp} \in SUBSET Nat
    BY <1>1
<1>5. g \in Filed
    BY <1>4 DEF Filed
<1>6. /\ rp \in DOMAIN g /\ g[rp] = cl
      /\ \A n \in Nat \ {rp} : (n \in DOMAIN g <=> n \in DOMAIN f) /\ (n \in DOMAIN f => g[n] = f[n])
    BY <1>1
<1> HIDE DEF g
<1>7. WithClaims(s, rp, cl) \in Sessions /\ WithClaims(s, rp, cl).claims = g
    BY <1>3, <1>5 DEF Sessions
<1>8. ClaimsOf(WithClaims(s, rp, cl), rp) = cl
    BY <1>6, <1>7 DEF ClaimsOf
<1>9. \A n \in Nat \ {rp} : ClaimsOf(WithClaims(s, rp, cl), n) = ClaimsOf(s, n)
    BY <1>6, <1>7 DEF ClaimsOf
<1> QED BY <1>2, <1>3, <1>7, <1>8, <1>9

----------------------------------------------------------------------------
(* What the operations on a session state record change.                   *)

\* CloseSession makes t of s.
ClosesTo(s, t, queueEmpty) ==
    /\ t \in Sessions
    /\ t.active = s.active /\ t.redDone = s.redDone /\ t.fullGreen = s.fullGreen
    /\ t.rp = s.rp /\ t.rtx = s.rtx /\ t.high = s.high /\ t.claims = s.claims
    /\ t.blockDone
    /\ queueEmpty => t.closed /\ t.timer = {} /\ ~t.alive /\ t.closing = s.closing
    /\ ~queueEmpty => /\ t.closed = s.closed /\ t.timer = s.timer /\ t.alive = s.alive
                      /\ t.closing = s.closing + 1

\* CloseSession, postponed or not.
LEMMA CloseSessionFields ==
    ASSUME NEW s \in Sessions, NEW queueEmpty \in BOOLEAN
    PROVE  ClosesTo(s, CloseSession(s, queueEmpty), queueEmpty)
<1> DEFINE t == CloseSession(s, queueEmpty)
<1>0. /\ s.closing \in Nat /\ s.ends \in Nat /\ s.closing + 1 \in Nat /\ s.ends + 1 \in Nat
      /\ {} \in {{}} \union {{i} : i \in Infos}
    BY DEF Sessions
<1>1. CASE queueEmpty
    <2>1. t = [s EXCEPT !.blockDone = TRUE, !.closed = TRUE, !.ends = s.ends + 1,
                        !.timer = {}, !.alive = FALSE]
        BY <1>1, Zenon DEF CloseSession
    <2> HIDE DEF t
    <2>2. t \in Sessions
        BY <1>0, <2>1 DEF Sessions
    <2>3. /\ t.active = s.active /\ t.redDone = s.redDone /\ t.fullGreen = s.fullGreen
          /\ t.rp = s.rp /\ t.rtx = s.rtx /\ t.high = s.high /\ t.claims = s.claims
          /\ t.blockDone /\ t.closed /\ t.timer = {} /\ ~t.alive /\ t.closing = s.closing
        BY <2>1 DEF Sessions
    <2> QED BY <1>1, <2>2, <2>3 DEF ClosesTo, t
<1>2. CASE ~queueEmpty
    <2>1. t = [s EXCEPT !.blockDone = TRUE, !.closing = s.closing + 1]
        BY <1>2, Zenon DEF CloseSession
    <2> HIDE DEF t
    <2>2. t \in Sessions
        BY <1>0, <2>1 DEF Sessions
    <2>3. /\ t.active = s.active /\ t.redDone = s.redDone /\ t.fullGreen = s.fullGreen
          /\ t.rp = s.rp /\ t.rtx = s.rtx /\ t.high = s.high /\ t.claims = s.claims
          /\ t.blockDone /\ t.closed = s.closed /\ t.timer = s.timer /\ t.alive = s.alive
          /\ t.closing = s.closing + 1
        BY <2>1 DEF Sessions
    <2> QED BY <1>2, <2>2, <2>3 DEF ClosesTo, t
<1> QED BY <1>1, <1>2

\* The end of the block has been sent.
EndsTo(s, t, queueEmpty) ==
    \/ s.redDone /\ ClosesTo(s, t, queueEmpty)
    \/ ~s.redDone /\ t \in Sessions /\ t = [s EXCEPT !.blockDone = TRUE]

\* EndOfBlockSent does one of the two.
LEMMA EndOfBlockFields ==
    ASSUME NEW s \in Sessions, NEW queueEmpty \in BOOLEAN
    PROVE  EndsTo(s, EndOfBlockSent(s, queueEmpty), queueEmpty)
<1> DEFINE b == [s EXCEPT !.blockDone = TRUE]
<1>1. b \in Sessions /\ b.redDone = s.redDone /\ b.blockDone
    BY DEF Sessions
<1>2. EndOfBlockSent(s, queueEmpty) = IF b.redDone /\ b.blockDone THEN CloseSession(b, queueEmpty) ELSE b
    BY DEF EndOfBlockSent, CloseWhenDone
<1>3. CASE s.redDone
    <2>1. ClosesTo(b, EndOfBlockSent(s, queueEmpty), queueEmpty)
        BY <1>1, <1>2, <1>3, CloseSessionFields
    <2>2. /\ b.active = s.active /\ b.redDone = s.redDone /\ b.fullGreen = s.fullGreen
          /\ b.rp = s.rp /\ b.rtx = s.rtx /\ b.high = s.high /\ b.claims = s.claims
          /\ b.closed = s.closed /\ b.timer = s.timer /\ b.alive = s.alive
          /\ b.closing = s.closing
        BY DEF Sessions
    <2> HIDE DEF b
    <2>3. ClosesTo(s, EndOfBlockSent(s, queueEmpty), queueEmpty)
        BY <2>1, <2>2 DEF ClosesTo
    <2> QED BY <1>3, <2>3 DEF EndsTo
<1>4. CASE ~s.redDone
    BY <1>1, <1>2, <1>4 DEF EndsTo
<1> QED BY <1>3, <1>4

\* Arming a timer changes nothing else.
Arms(s, t, info) == t \in Sessions /\ t = [s EXCEPT !.timer = {info}]

\* Arm sets the timer and leaves a session.
LEMMA ArmFields ==
    ASSUME NEW s \in Sessions, NEW info \in Infos
    PROVE  Arms(s, Arm(s, info), info)
BY DEF Arms, Arm, Sessions

\* The argument of a checkpoint timer.
CheckpointInfo(seg) == Info([o \in {seg.off} |-> seg.len], seg.rp)

\* What the callbacks make of the record, for each kind of segment.
Cued(s, t, seg, queueEmpty) ==
    /\ seg.type = "GD_EOB" => EndsTo(s, t, queueEmpty)
    /\ seg.type = "RD_CP_EORP_EOB" =>
           \E b \in Sessions : EndsTo(s, b, queueEmpty) /\ Arms(b, t, CheckpointInfo(seg))
    /\ seg.type \in {"RD_CP_EORP", "RD_CP"} => Arms(s, t, CheckpointInfo(seg))
    /\ seg.type = "RS" => Arms(s, t, Info(NoClaims, seg.rp))
    /\ seg.type \notin CheckpointTypes \union {"GD_EOB", "RS"} => t = s

\* LinkStateCue does what Cued says, for every segment that can leave the queue.
LEMMA LinkStateCueFields ==
    ASSUME NEW s \in Sessions, NEW seg \in Segs \union Reports \union Acks,
           NEW queueEmpty \in BOOLEAN
    PROVE  Cued(s, LinkStateCue(s, seg, queueEmpty), seg, queueEmpty)
<1>0. CheckpointTypes = {"RD_CP", "RD_CP_EORP", "RD_CP_EORP_EOB"}
    BY DEF CheckpointTypes, RedTypes
<1>1. CASE seg.type = "GD_EOB"
    BY <1>0, <1>1, EndOfBlockFields DEF Cued, LinkStateCue
<1>2. CASE seg.type \in CheckpointTypes
    <2>1. seg \in Segs
        BY <1>0, <1>2 DEF Reports, Acks
    <2>2. CheckpointInfo(seg) \in Infos
        BY <2>1, SegmentClaim DEF CheckpointInfo, Infos, Info, Segs
    <2>3. CASE seg.type = "RD_CP_EORP_EOB"
        <3> DEFINE b == EndOfBlockSent(s, queueEmpty)
        <3>1. EndsTo(s, b, queueEmpty)
            BY EndOfBlockFields
        <3>2. b \in Sessions
            BY <3>1 DEF EndsTo, ClosesTo
        <3>3. LinkStateCue(s, seg, queueEmpty) = Arm(b, CheckpointInfo(seg))
            BY <2>3 DEF LinkStateCue, CheckpointInfo
        <3> HIDE DEF b
        <3>4. Arms(b, LinkStateCue(s, seg, queueEmpty), CheckpointInfo(seg))
            BY <2>2, <3>2, <3>3, ArmFields
        <3> QED BY <1>0, <2>3, <3>1, <3>2, <3>4 DEF Cued
    <2>4. CASE seg.type \in {"RD_CP_EORP", "RD_CP"}
        <3>1. LinkStateCue(s, seg, queueEmpty) = Arm(s, CheckpointInfo(seg))
            BY <2>4 DEF LinkStateCue, CheckpointInfo
        <3>2. Arms(s, LinkStateCue(s, seg, queueEmpty), CheckpointInfo(seg))
            BY <2>2, <3>1, ArmFields
        <3> QED BY <1>0, <2>4, <3>2 DEF Cued
    <2> QED BY <1>0, <1>2, <2>3, <2>4
<1>3. CASE seg.type = "RS"
    <2>1. seg \in Reports
        BY <1>3 DEF Segs, DataTypes, RedTypes, GreenTypes, Acks
    <2>2. Info(NoClaims, seg.rp) \in Infos
        BY <2>1, NoClaimsInBlock DEF Infos, Info, Reports
    <2>3. LinkStateCue(s, seg, queueEmpty) = Arm(s, Info(NoClaims, seg.rp))
        BY <1>3 DEF LinkStateCue
    <2>4. Arms(s, LinkStateCue(s, seg, queueEmpty), Info(NoClaims, seg.rp))
        BY <2>2, <2>3, ArmFields
    <2> QED BY <1>0, <1>3, <2>4 DEF Cued
<1>4. CASE seg.type \notin CheckpointTypes \union {"GD_EOB", "RS"}
    BY <1>0, <1>4 DEF Cued, LinkStateCue
<1> QED BY <1>1, <1>2, <1>3, <1>4

\* Whatever leaves, the record stays one, and its report and retransmission
\* counts and its claims stay.
LEMMA CueKeeps ==
    ASSUME NEW s \in Sessions, NEW t, NEW seg \in Segs \union Reports \union Acks,
           NEW queueEmpty \in BOOLEAN, Cued(s, t, seg, queueEmpty)
    PROVE  /\ t \in Sessions
           /\ t.active = s.active /\ t.redDone = s.redDone /\ t.rp = s.rp /\ t.rtx = s.rtx
           /\ t.high = s.high /\ t.claims = s.claims /\ (s.blockDone => t.blockDone)
<1> DEFINE Kept(u) == /\ u \in Sessions
                      /\ u.active = s.active /\ u.redDone = s.redDone /\ u.rp = s.rp
                      /\ u.rtx = s.rtx /\ u.high = s.high /\ u.claims = s.claims
                      /\ (s.blockDone => u.blockDone)
<1>1. ASSUME NEW b \in Sessions, EndsTo(s, b, queueEmpty) PROVE Kept(b)
    BY <1>1 DEF EndsTo, ClosesTo, Sessions
<1>2. ASSUME NEW b \in Sessions, Kept(b), NEW info, Arms(b, t, info) PROVE Kept(t)
    BY <1>2 DEF Arms, Sessions
<1>3. Kept(s)
    OBVIOUS
<1>4. CASE seg.type = "GD_EOB"
    <2>1. EndsTo(s, t, queueEmpty)
        BY <1>4 DEF Cued
    <2>2. t \in Sessions
        BY <2>1 DEF EndsTo, ClosesTo
    <2> QED BY <1>1, <2>1, <2>2
<1>5. CASE seg.type = "RD_CP_EORP_EOB"
    <2>1. PICK b \in Sessions : EndsTo(s, b, queueEmpty) /\ Arms(b, t, CheckpointInfo(seg))
        BY <1>5 DEF Cued
    <2> HIDE DEF Kept
    <2>2. Kept(t)
        BY <1>1, <1>2, <2>1
    <2> QED BY <2>2 DEF Kept
<1>6. CASE seg.type \in {"RD_CP_EORP", "RD_CP"}
    <2>1. Arms(s, t, CheckpointInfo(seg))
        BY <1>6 DEF Cued
    <2> HIDE DEF Kept
    <2>2. Kept(t)
        BY <1>2, <1>3, <2>1
    <2> QED BY <2>2 DEF Kept
<1>7. CASE seg.type = "RS"
    <2>1. Arms(s, t, Info(NoClaims, seg.rp))
        BY <1>7 DEF Cued
    <2> HIDE DEF Kept
    <2>2. Kept(t)
        BY <1>2, <1>3, <2>1
    <2> QED BY <2>2 DEF Kept
<1>8. CASE seg.type \notin CheckpointTypes \union {"GD_EOB", "RS"}
    BY <1>8 DEF Cued
<1> QED BY <1>4, <1>5, <1>6, <1>7, <1>8 DEF CheckpointTypes, RedTypes

----------------------------------------------------------------------------
(* Type correctness.                                                       *)

\* Any buffer, and one whose segments end within the block.
Buffers ==
    UNION {[D -> [len : 1 .. Capacity, type : RedTypes]] : D \in SUBSET (0 .. BlockLen - 1)}

RedBuffers == {f \in Buffers : \A o \in DOMAIN f : o + f[o].len <= BlockLen}

SessionsType ==
    /\ ssr \in [Engines -> Sessions]
    /\ ssr["snd"].rtx <= CpRtxLimit /\ ssr["rcv"].rtx <= RpRtxLimit

\* Data and acknowledgments go one way, reports the other.
QueuesType ==
    /\ ops = [e \in Engines |-> ops[e]]
    /\ app = [e \in Engines |-> app[e]]
    /\ ops["snd"] \in Seq(Acks) /\ app["snd"] \in Seq(Segs)
    /\ ops["rcv"] \in Seq(Reports) /\ app["rcv"] = <<>>
    /\ linkUp \in [Engines -> BOOLEAN] /\ sending \in [Engines -> BOOLEAN]

WireType ==
    /\ wire = [e \in Engines |-> wire[e]]
    /\ wire["snd"] \in Seq(Reports) /\ wire["rcv"] \in Seq(Segs \union Acks)

BuffersType ==
    /\ red \in RedBuffers
    /\ handed \in [0 .. BlockLen - 1 -> Nat]

TypeInv ==
    /\ SessionsType /\ QueuesType /\ WireType /\ BuffersType
    /\ losses \in 0 .. MaxLoss /\ crashed \in SUBSET Engines

\* The sets in TypeInv lie within those of TypeOK.
LEMMA TypeInvImplies == TypeInv => TypeOK
<1> SUFFICES ASSUME TypeInv PROVE TypeOK
    OBVIOUS
<1>1. ASSUME NEW m \in Segs \union Reports \union Acks PROVE IsSegment(m)
    <2>1. CASE m \in Segs
        BY <2>1, CapacityAssumption, LtpSessionAssumption DEF Segs, IsSegment
    <2>2. CASE m \in Reports
        BY <2>2, BlockClaimsBounds DEF Reports, IsSegment
    <2>3. CASE m \in Acks
        BY <2>3 DEF Acks, IsSegment
    <2> QED BY <2>1, <2>2, <2>3
<1>2. ASSUME NEW s \in Sessions PROVE IsSession(s)
    <2>1. Cardinality(s.timer) <= 1
        <3>1. s.timer = {} \/ \E i : s.timer = {i}
            BY DEF Sessions
        <3>2. CASE s.timer = {}
            BY <3>2, FS_EmptySet
        <3>3. ASSUME NEW i, s.timer = {i} PROVE Cardinality(s.timer) <= 1
            <4>1. Cardinality({i}) = 1
                BY FS_Singleton
            <4> QED BY <3>3, <4>1
        <3> QED BY <3>1, <3>2, <3>3
    <2>2. ASSUME NEW n \in DOMAIN s.claims PROVE n \in Nat /\ IsClaims(s.claims[n])
        <3>1. PICK D \in SUBSET Nat : s.claims \in [D -> BlockClaims]
            BY DEF Sessions, Filed
        <3> QED BY <3>1, BlockClaimsBounds
    <2>3. /\ s.active \in BOOLEAN /\ s.redDone \in BOOLEAN /\ s.blockDone \in BOOLEAN
          /\ s.closed \in BOOLEAN /\ s.fullGreen \in BOOLEAN /\ s.alive \in BOOLEAN
          /\ s.rp \in Nat /\ s.closing \in Nat /\ s.ends \in Nat /\ s.high \in 0 .. BlockLen
        BY DEF Sessions
    <2>4. ASSUME NEW info \in s.timer PROVE IsClaims(info.claims)
        <3>1. s.timer \in {{}} \union {{i} : i \in Infos}
            BY DEF Sessions
        <3>2. info.claims \in BlockClaims
            BY <3>1 DEF Infos
        <3> QED BY <3>2, BlockClaimsBounds
    <2> QED BY <2>1, <2>2, <2>3, <2>4 DEF IsSession
<1>3. ASSUME NEW e \in Engines
      PROVE  /\ IsSession(ssr[e]) /\ linkUp[e] \in BOOLEAN /\ sending[e] \in BOOLEAN
             /\ \A m \in Queued(e) \union InFlight(e) : IsSegment(m)
    <2>1. IsSession(ssr[e]) /\ linkUp[e] \in BOOLEAN /\ sending[e] \in BOOLEAN
        BY <1>2 DEF TypeInv, SessionsType, QueuesType
    <2>2. \A i \in DOMAIN ops[e] : ops[e][i] \in Segs \union Reports \union Acks
        BY DEF TypeInv, QueuesType, Engines
    <2>3. \A i \in DOMAIN app[e] : app[e][i] \in Segs \union Reports \union Acks
        BY DEF TypeInv, QueuesType, Engines
    <2>4. \A i \in DOMAIN wire[e] : wire[e][i] \in Segs \union Reports \union Acks
        BY DEF TypeInv, WireType, Engines
    <2>5. \A m \in Queued(e) \union InFlight(e) : m \in Segs \union Reports \union Acks
        BY <2>2, <2>3, <2>4 DEF Queued, InFlight, ToSet
    <2> QED BY <1>1, <2>1, <2>5
<1>4. ssr["snd"].rtx \in 0 .. CpRtxLimit /\ ssr["rcv"].rtx \in 0 .. RpRtxLimit
    BY LtpSessionAssumption DEF TypeInv, SessionsType, Sessions, Engines
<1>5. \A o \in DOMAIN red : /\ o \in Nat /\ red[o].len \in 1 .. Capacity
                            /\ o + red[o].len <= BlockLen /\ red[o].type \in RedTypes
    <2>1. PICK D \in SUBSET (0 .. BlockLen - 1) : red \in [D -> [len : 1 .. Capacity, type : RedTypes]]
        BY DEF TypeInv, BuffersType, RedBuffers, Buffers
    <2>2. \A o \in DOMAIN red : o + red[o].len <= BlockLen
        BY DEF TypeInv, BuffersType, RedBuffers
    <2> QED BY <2>1, <2>2, LtpSessionAssumption
<1>6. \A u \in DOMAIN handed : handed[u] \in Nat
    BY DEF TypeInv, BuffersType
<1> QED BY <1>3, <1>4, <1>5, <1>6 DEF TypeInv, TypeOK

\* A new record.
LEMMA NewSessionType ==
    ASSUME NEW rp \in Nat
    PROVE  NewSession(rp) \in Sessions /\ NewSession(rp).rtx = 0
<1>1. [s \in {} |-> NoClaims] \in [{} -> BlockClaims]
    OBVIOUS
<1>2. [s \in {} |-> NoClaims] \in Filed
    BY <1>1 DEF Filed
<1>3. 0 \in 0 .. BlockLen
    BY LtpSessionAssumption
<1> QED BY <1>2, <1>3 DEF NewSession, Sessions

\* The engines begin with empty queues and no session.
LEMMA InitType == Init => TypeInv
<1> SUFFICES ASSUME Init PROVE TypeInv
    OBVIOUS
<1>1. NoSession \in Sessions /\ NoSession.rtx = 0
    <2>1. NewSession(NoSerial) \in Sessions /\ NewSession(NoSerial).rtx = 0
        BY NewSessionType DEF NoSerial
    <2> QED BY <2>1 DEF NoSession, Sessions
<1>2. SessionsType
    BY <1>1, LtpSessionAssumption DEF Init, SessionsType, Engines
<1>3. QueuesType /\ WireType
    BY DEF Init, QueuesType, WireType, Engines
<1>4. BuffersType
    <2> DEFINE V == [len : 1 .. Capacity, type : RedTypes]
    <2>1. red \in [{} -> V] /\ {} \in SUBSET (0 .. BlockLen - 1)
        <3> HIDE DEF V
        <3>1. [o \in {} |-> 0] \in [{} -> V]
            OBVIOUS
        <3> QED BY <3>1 DEF Init
    <2>2. red \in RedBuffers
        <3> HIDE DEF V
        <3>1. red \in UNION {[D -> V] : D \in SUBSET (0 .. BlockLen - 1)}
            BY <2>1
        <3>2. red \in Buffers /\ DOMAIN red = {}
            BY <2>1, <3>1 DEF Buffers, V
        <3> QED BY <3>2 DEF RedBuffers
    <2>3. handed \in [0 .. BlockLen - 1 -> Nat]
        <3>1. handed = [u \in 0 .. BlockLen - 1 |-> 0]
            BY DEF Init
        <3> QED BY <3>1
    <2> QED BY <2>2, <2>3 DEF BuffersType
<1>5. losses \in 0 .. MaxLoss
    <2>1. losses = 0 /\ MaxLoss \in Nat
        BY LtpSessionAssumption DEF Init
    <2> QED BY <2>1
<1>6. crashed \in SUBSET Engines
    BY DEF Init
<1> QED BY <1>2, <1>3, <1>4, <1>5, <1>6 DEF TypeInv

\* The first of a queue, and what is left of it.
LEMMA FirstOfSeq ==
    ASSUME NEW S, NEW q \in Seq(S), NEW m \in FirstOf(q)
    PROVE  q # <<>> /\ m = Head(q) /\ m = q[1] /\ m \in S /\ Tail(q) \in Seq(S)
BY DEF FirstOf

\* The queues after Enqueue.
LEMMA EnqueueType ==
    ASSUME QueuesType, NEW e \in Engines, NEW newOps, NEW newApp, Enqueue(e, newOps, newApp),
           linkUp' = linkUp,
           IF e = "snd" THEN newOps \in Seq(Acks) /\ newApp \in Seq(Segs)
                        ELSE newOps \in Seq(Reports) /\ newApp = <<>>
    PROVE  QueuesType'
<1>1. /\ ops' = [ops EXCEPT ![e] = ops[e] \o newOps]
      /\ app' = [app EXCEPT ![e] = app[e] \o newApp]
      /\ sending' = [sending EXCEPT ![e] = sending[e] \/ (linkUp[e] /\ <<newOps, newApp>> # <<<<>>, <<>>>>)]
    BY DEF Enqueue
<1>2. sending' \in [Engines -> BOOLEAN]
    <2> DEFINE b == sending[e] \/ (linkUp[e] /\ <<newOps, newApp>> # <<<<>>, <<>>>>)
    <2>1. b \in BOOLEAN
        OBVIOUS
    <2> HIDE DEF b
    <2>2. sending' = [sending EXCEPT ![e] = b]
        BY <1>1 DEF b
    <2> QED BY <2>1, <2>2 DEF QueuesType
<1>3. ops' = [f \in Engines |-> ops'[f]] /\ app' = [f \in Engines |-> app'[f]]
    BY <1>1 DEF QueuesType
<1>4. CASE e = "snd"
    <2>1. ops[e] \o newOps \in Seq(Acks) /\ app[e] \o newApp \in Seq(Segs)
        BY <1>4 DEF QueuesType
    <2>2. /\ ops'["snd"] \in Seq(Acks) /\ app'["snd"] \in Seq(Segs)
          /\ ops'["rcv"] = ops["rcv"] /\ app'["rcv"] = app["rcv"]
        BY <1>1, <1>4, <2>1 DEF QueuesType, Engines
    <2> QED BY <1>2, <1>3, <2>2 DEF QueuesType
<1>5. CASE e = "rcv"
    <2>1. ops[e] \o newOps \in Seq(Reports) /\ app[e] \o newApp = <<>>
        BY <1>5 DEF QueuesType
    <2>2. /\ ops'["rcv"] \in Seq(Reports) /\ app'["rcv"] = <<>>
          /\ ops'["snd"] = ops["snd"] /\ app'["snd"] = app["snd"]
        BY <1>1, <1>5, <2>1 DEF QueuesType, Engines
    <2> QED BY <1>2, <1>3, <2>2 DEF QueuesType
<1> QED BY <1>4, <1>5 DEF Engines

\* The path after a datagram has left it.
LEMMA ConsumeType ==
    ASSUME WireType, NEW e \in Engines, Consume(e), wire[e] # <<>>
    PROVE  WireType'
<1>1. wire' = [wire EXCEPT ![e] = Tail(wire[e])]
    BY DEF Consume
<1>2. wire' = [f \in Engines |-> wire'[f]]
    BY <1>1 DEF WireType
<1>3. CASE e = "snd"
    BY <1>1, <1>2, <1>3 DEF WireType, Engines
<1>4. CASE e = "rcv"
    BY <1>1, <1>2, <1>4 DEF WireType, Engines
<1> QED BY <1>3, <1>4 DEF Engines

\* The records after one of them was changed.
LEMMA SessionType ==
    ASSUME SessionsType, NEW e \in Engines, NEW s \in Sessions, Session(e, s),
           s.rtx <= IF e = "snd" THEN CpRtxLimit ELSE RpRtxLimit
    PROVE  SessionsType' /\ ssr'[e] = s /\ \A f \in Engines \ {e} : ssr'[f] = ssr[f]
BY DEF SessionsType, Session, Engines

\* What Send takes off a queue, and what that leaves.
Takes(e, seg) ==
    /\ ~QueueEmpty(e)
    /\ \/ /\ ops[e] # <<>> /\ seg = Head(ops[e])
          /\ ops' = [ops EXCEPT ![e] = Tail(ops[e])] /\ app' = app
       \/ /\ ops[e] = <<>> /\ app[e] # <<>> /\ seg = Head(app[e])
          /\ ops' = ops /\ app' = [app EXCEPT ![e] = Tail(app[e])]
    /\ sending' = [sending EXCEPT ![e] = TRUE]
    /\ wire' = [wire EXCEPT ![Peer(e)] = Append(wire[Peer(e)], seg)]

\* Transmit takes the first segment of a queue, or ends.
LEMMA TransmitCases ==
    ASSUME TypeInv, NEW e \in Engines, Transmit(e)
    PROVE  \/ /\ QueueEmpty(e) /\ sending' = [sending EXCEPT ![e] = FALSE]
              /\ UNCHANGED <<ssr, ops, app, wire>>
           \/ \E seg \in Segs \union Reports \union Acks, t \in Sessions :
                 /\ Takes(e, seg) /\ Session(e, t) /\ Cued(ssr[e], t, seg, QueueEmpty(e)')
                 /\ e = "snd" => (seg \in Acks /\ ops["snd"] # <<>>) \/ (seg \in Segs /\ ops["snd"] = <<>>)
                 /\ e = "rcv" => seg \in Reports
<1>1. CASE QueueEmpty(e)
    BY <1>1 DEF Transmit
<1>2. CASE ~QueueEmpty(e)
    <2> DEFINE urgent == ops[e] # <<>>
               seg == IF urgent THEN Head(ops[e]) ELSE Head(app[e])
               empty == ops'[e] = <<>> /\ app'[e] = <<>>
    <2>1. /\ ops' = (IF urgent THEN [ops EXCEPT ![e] = Tail(ops[e])] ELSE ops)
          /\ app' = (IF urgent THEN app ELSE [app EXCEPT ![e] = Tail(app[e])])
          /\ wire' = [wire EXCEPT ![Peer(e)] = Append(wire[Peer(e)], seg)]
          /\ sending' = [sending EXCEPT ![e] = TRUE]
          /\ Session(e, LinkStateCue(ssr[e], seg, empty))
        BY <1>2, Zenon DEF Transmit
    <2>2. /\ e = "snd" => (seg \in Acks /\ ops["snd"] # <<>>) \/ (seg \in Segs /\ ops["snd"] = <<>>)
          /\ e = "rcv" => seg \in Reports
        <3>0. ops["snd"] \in Seq(Acks) /\ ops["rcv"] \in Seq(Reports)
            BY DEF TypeInv, QueuesType
        <3>1. CASE urgent
            <4>1. CASE e = "snd"
                <5>1. seg \in Acks
                    BY <3>0, <3>1, <4>1
                <5> HIDE DEF seg
                <5> QED BY <3>1, <4>1, <5>1
            <4>2. CASE e = "rcv"
                BY <3>0, <3>1, <4>2
            <4> QED BY <4>1, <4>2 DEF Engines
        <3>2. CASE ~urgent
            <4>1. app[e] # <<>> /\ ops[e] = <<>>
                BY <1>2, <3>2 DEF QueueEmpty
            <4>2. app["rcv"] = <<>> /\ app["snd"] \in Seq(Segs)
                BY DEF TypeInv, QueuesType
            <4>3. e = "snd" /\ seg = Head(app["snd"]) /\ app["snd"] # <<>>
                BY <3>2, <4>1, <4>2 DEF Engines
            <4>4. seg \in Segs
                BY <4>2, <4>3
            <4> HIDE DEF seg
            <4> QED BY <4>1, <4>3, <4>4
        <3> QED BY <3>1, <3>2
    <2>3. Takes(e, seg)
        <3>1. CASE urgent
            BY <1>2, <2>1, <3>1 DEF Takes
        <3>2. CASE ~urgent
            BY <1>2, <2>1, <3>2 DEF Takes, QueueEmpty
        <3> QED BY <3>1, <3>2
    <2>4. seg \in Segs \union Reports \union Acks
        BY <2>2 DEF Engines
    <2>5. empty = QueueEmpty(e)' /\ empty \in BOOLEAN
        BY DEF QueueEmpty
    <2>6. ssr[e] \in Sessions
        BY DEF TypeInv, SessionsType
    <2> HIDE DEF seg, empty
    <2> DEFINE t == LinkStateCue(ssr[e], seg, empty)
    <2>7. Cued(ssr[e], t, seg, empty)
        BY <2>4, <2>5, <2>6, LinkStateCueFields
    <2>8. t \in Sessions
        <3> HIDE DEF t
        <3> QED BY <2>4, <2>5, <2>6, <2>7, CueKeeps
    <2>9. Session(e, t)
        BY <2>1
    <2> HIDE DEF t
    <2> QED BY <2>2, <2>3, <2>4, <2>5, <2>7, <2>8, <2>9
<1> QED BY <1>1, <1>2

\* Send keeps the types.
LEMMA TransmitType ==
    ASSUME TypeInv, NEW e \in Engines, Transmit(e), linkUp' \in [Engines -> BOOLEAN]
    PROVE  SessionsType' /\ QueuesType' /\ WireType'
<1>1. CASE QueueEmpty(e) /\ sending' = [sending EXCEPT ![e] = FALSE] /\ UNCHANGED <<ssr, ops, app, wire>>
    BY <1>1 DEF TypeInv, SessionsType, QueuesType, WireType
<1>2. ASSUME NEW seg \in Segs \union Reports \union Acks, NEW t \in Sessions,
             Takes(e, seg), Session(e, t), Cued(ssr[e], t, seg, QueueEmpty(e)'),
             e = "snd" => (seg \in Acks /\ ops["snd"] # <<>>) \/ (seg \in Segs /\ ops["snd"] = <<>>),
             e = "rcv" => seg \in Reports
      PROVE  SessionsType' /\ QueuesType' /\ WireType'
    <2>1. ssr[e] \in Sessions /\ ssr[e].rtx <= IF e = "snd" THEN CpRtxLimit ELSE RpRtxLimit
        BY DEF TypeInv, SessionsType, Engines
    <2>2. t.rtx = ssr[e].rtx
        <3> DEFINE b == QueueEmpty(e)'
        <3>1. b \in BOOLEAN
            BY DEF QueueEmpty
        <3>2. Cued(ssr[e], t, seg, b)
            BY <1>2
        <3> HIDE DEF b
        <3> DEFINE u == ssr[e]
        <3>3. u \in Sessions /\ Cued(u, t, seg, b) /\ seg \in Segs \union Reports \union Acks
            BY <2>1, <3>2
        <3> HIDE DEF u
        <3>4. t.rtx = u.rtx
            BY <3>1, <3>3, CueKeeps
        <3> QED BY <3>4 DEF u
    <2>3. SessionsType'
        BY <1>2, <2>1, <2>2, SessionType DEF TypeInv
    <2>4. sending' \in [Engines -> BOOLEAN]
        BY <1>2 DEF Takes, TypeInv, QueuesType
    <2>5. ops' = [f \in Engines |-> ops'[f]] /\ app' = [f \in Engines |-> app'[f]]
        BY <1>2 DEF Takes, TypeInv, QueuesType
    <2>6. /\ ops'["snd"] \in Seq(Acks) /\ app'["snd"] \in Seq(Segs)
          /\ ops'["rcv"] \in Seq(Reports) /\ app'["rcv"] = <<>>
        <3>0. /\ ops = [f \in Engines |-> ops[f]] /\ app = [f \in Engines |-> app[f]]
              /\ ops["snd"] \in Seq(Acks) /\ app["snd"] \in Seq(Segs)
              /\ ops["rcv"] \in Seq(Reports) /\ app["rcv"] = <<>>
            BY DEF TypeInv, QueuesType
        <3>1. CASE ops[e] # <<>> /\ ops' = [ops EXCEPT ![e] = Tail(ops[e])] /\ app' = app
            <4>1. CASE e = "snd"
                BY <3>0, <3>1, <4>1 DEF Engines
            <4>2. CASE e = "rcv"
                BY <3>0, <3>1, <4>2 DEF Engines
            <4> QED BY <4>1, <4>2 DEF Engines
        <3>2. CASE app[e] # <<>> /\ ops' = ops /\ app' = [app EXCEPT ![e] = Tail(app[e])]
            <4>1. e = "snd"
                BY <3>0, <3>2 DEF Engines
            <4> QED BY <3>0, <3>2, <4>1 DEF Engines
        <3> QED BY <1>2, <3>1, <3>2 DEF Takes
    <2>7. QueuesType'
        BY <2>4, <2>5, <2>6 DEF QueuesType
    <2>8. WireType'
        <3>1. CASE e = "snd"
            <4>1. wire' = [wire EXCEPT !["rcv"] = Append(wire["rcv"], seg)]
                BY <1>2, <3>1 DEF Takes, Peer
            <4>2. Append(wire["rcv"], seg) \in Seq(Segs \union Acks)
                BY <1>2, <3>1 DEF TypeInv, WireType
            <4> QED BY <4>1, <4>2 DEF TypeInv, WireType, Engines
        <3>2. CASE e = "rcv"
            <4>1. wire' = [wire EXCEPT !["snd"] = Append(wire["snd"], seg)]
                BY <1>2, <3>2 DEF Takes, Peer
            <4>2. Append(wire["snd"], seg) \in Seq(Reports)
                BY <1>2, <3>2 DEF TypeInv, WireType
            <4> QED BY <4>1, <4>2 DEF TypeInv, WireType, Engines
        <3> QED BY <3>1, <3>2 DEF Engines
    <2> QED BY <2>3, <2>7, <2>8
<1> QED BY <1>1, <1>2, TransmitCases

----------------------------------------------------------------------------
(* What the handlers of the sending engine do.                             *)

\* CloseWhenDone makes t of s.
ClosesWhenDone(s, t, queueEmpty) ==
    \/ s.redDone /\ s.blockDone /\ ClosesTo(s, t, queueEmpty)
    \/ ~(s.redDone /\ s.blockDone) /\ t = s

\* CloseWhenDone closes or leaves the record alone.
LEMMA CloseWhenDoneFields ==
    ASSUME NEW s \in Sessions, NEW queueEmpty \in BOOLEAN
    PROVE  ClosesWhenDone(s, CloseWhenDone(s, queueEmpty), queueEmpty)
BY CloseSessionFields DEF ClosesWhenDone, CloseWhenDone

\* Counting a retransmission changes nothing else.
LEMMA CountFields ==
    ASSUME NEW a \in Sessions, NEW r \in Nat
    PROVE  LET c == [a EXCEPT !.rtx = r]
           IN  /\ c \in Sessions
               /\ c.active = a.active /\ c.closed = a.closed /\ c.blockDone = a.blockDone
               /\ c.redDone = a.redDone /\ c.fullGreen = a.fullGreen /\ c.alive = a.alive
               /\ c.rp = a.rp /\ c.timer = a.timer
               /\ c.closing = a.closing /\ c.high = a.high /\ c.claims = a.claims /\ c.rtx = r
BY DEF Sessions

\* The record t that a report makes of s.
Reported(s, t, rp, filed, missing) ==
    /\ t \in Sessions
    /\ t.active = s.active /\ t.closed = s.closed /\ t.blockDone = s.blockDone
    /\ t.rp = s.rp /\ t.timer = {}
    /\ t.redDone = (s.redDone \/ missing = NoClaims)
    /\ t.closing = IF t.redDone /\ t.blockDone THEN s.closing + 1 ELSE s.closing
    /\ s.rtx <= t.rtx /\ t.rtx <= CpRtxLimit
    /\ ClaimsOf(t, rp) = filed /\ \A n \in Nat \ {rp} : ClaimsOf(t, n) = ClaimsOf(s, n)

\* A report is handled: acknowledged, filed, and what is missing sent again.
ReportHandled(seg, filed, t, again) ==
    /\ ~ssr["snd"].closed
    /\ Reported(ssr["snd"], t, seg.rp, filed, FindMissingClaims(filed))
    /\ again \in Seq(Segs)
    /\ again = <<>> \/ again = SegmentsOf(FindMissingClaims(filed), seg.rp)
    /\ again # <<>> => ~Outside(FindMissingClaims(filed))
    /\ FindMissingClaims(filed) = NoClaims => again = <<>>
    /\ FindMissingClaims(filed) # NoClaims /\ ssr["snd"].rtx < CpRtxLimit
          => /\ again = SegmentsOf(FindMissingClaims(filed), seg.rp)
             /\ ~Outside(FindMissingClaims(filed))
    /\ Consume("snd")
    /\ Enqueue("snd", <<ReportAck(seg.rp)>>, again)
    /\ Session("snd", t)
    /\ UNCHANGED <<linkUp, losses, red, delivered, handed, crashed>>

\* Whatever happens to the report at the head of the path.
ReportTaken(seg) ==
    LET filed == StoreClaims(ClaimsOf(ssr["snd"], seg.rp), seg.claims)
    IN  \/ Dropped("snd") /\ ssr["snd"].closed
        \/ Crash("snd")
        \/ \E t, again : ReportHandled(seg, filed, t, again)

\* What the handler makes of the record, put together from its steps.
LEMMA ReportFields ==
    ASSUME NEW s0 \in Sessions, s0.rtx <= CpRtxLimit, NEW rp \in Nat,
           NEW filed \in BlockClaims, NEW missing, NEW again \in BOOLEAN,
           NEW s, s = WithClaims([s0 EXCEPT !.alive = TRUE, !.timer = {}], rp, filed),
           again => MayRetransmit(s),
           NEW up \in BOOLEAN, linkUp["snd"] = up,
           NEW answered, answered = [s EXCEPT !.redDone = @ \/ missing = NoClaims]
    PROVE  Reported(s0, CloseWhenDone(IF again THEN Counted(answered) ELSE answered, FALSE),
                    rp, filed, missing)
<1> DEFINE a == [s0 EXCEPT !.alive = TRUE, !.timer = {}]
           done == s0.redDone \/ missing = NoClaims
           c == IF again THEN Counted(answered) ELSE answered
           t == CloseWhenDone(c, FALSE)
<1>1. /\ a \in Sessions /\ a.active = s0.active /\ a.closed = s0.closed
      /\ a.blockDone = s0.blockDone /\ a.redDone = s0.redDone
      /\ a.rp = s0.rp /\ a.timer = {} /\ a.closing = s0.closing /\ a.rtx = s0.rtx
      /\ a.claims = s0.claims
    BY DEF Sessions
<1> HIDE DEF a
<1>2. /\ s \in Sessions /\ s = [a EXCEPT !.claims = s.claims]
      /\ ClaimsOf(s, rp) = filed /\ \A n \in Nat \ {rp} : ClaimsOf(s, n) = ClaimsOf(a, n)
    <2>1. s = WithClaims(a, rp, filed)
        BY DEF a
    <2> QED BY <1>1, <2>1, ClaimsFiled
<1>3. /\ s.active = s0.active /\ s.closed = s0.closed /\ s.blockDone = s0.blockDone
      /\ s.redDone = s0.redDone /\ s.rp = s0.rp /\ s.timer = {} /\ s.closing = s0.closing
      /\ s.rtx = s0.rtx
    BY <1>1, <1>2 DEF Sessions
<1>4. \A n : ClaimsOf(a, n) = ClaimsOf(s0, n)
    BY <1>1 DEF ClaimsOf
<1>5. done \in BOOLEAN
    BY DEF Sessions
<1>6. answered = [s EXCEPT !.redDone = done]
    BY <1>3
<1> HIDE DEF done
<1>7. /\ answered \in Sessions /\ answered.active = s.active /\ answered.closed = s.closed
      /\ answered.blockDone = s.blockDone /\ answered.redDone = done /\ answered.rp = s.rp
      /\ answered.timer = s.timer /\ answered.closing = s.closing /\ answered.rtx = s.rtx
      /\ answered.claims = s.claims
    BY <1>2, <1>5, <1>6 DEF Sessions
<1>8. /\ c \in Sessions /\ c.active = s.active /\ c.closed = s.closed
      /\ c.blockDone = s.blockDone /\ c.redDone = done /\ c.rp = s.rp
      /\ c.timer = s.timer /\ c.closing = s.closing /\ c.claims = s.claims
      /\ s.rtx <= c.rtx /\ c.rtx <= CpRtxLimit
    <2>1. CASE ~again
        BY <1>2, <1>3, <1>7, <2>1 DEF Sessions
    <2>2. CASE again
        <3>1. s.rtx < CpRtxLimit
            BY <2>2 DEF MayRetransmit
        <3>2. c = [answered EXCEPT !.rtx = IF up THEN answered.rtx + 1 ELSE answered.rtx]
            BY <2>2 DEF Counted
        <3> DEFINE r == IF up THEN answered.rtx + 1 ELSE answered.rtx
        <3>3. r \in Nat /\ r <= CpRtxLimit /\ s.rtx <= r
            BY <1>2, <1>7, <3>1, LtpSessionAssumption DEF Sessions
        <3>4. c = [answered EXCEPT !.rtx = r]
            BY <3>2
        <3> HIDE DEF c, r
        <3>5. answered \in Sessions
            BY <1>7
        <3>6. c \in Sessions
            BY <3>3, <3>4, <3>5, CountFields
        <3>7. /\ c.active = answered.active /\ c.closed = answered.closed
              /\ c.blockDone = answered.blockDone /\ c.redDone = answered.redDone
              /\ c.rp = answered.rp /\ c.timer = answered.timer
              /\ c.closing = answered.closing /\ c.claims = answered.claims /\ c.rtx = r
            BY <3>3, <3>4, <3>5, CountFields
        <3> QED BY <1>7, <3>3, <3>6, <3>7
    <2> QED BY <2>1, <2>2
<1> HIDE DEF c
<1>9. ClosesWhenDone(c, t, FALSE)
    BY <1>8, CloseWhenDoneFields
<1> HIDE DEF t
<1>10. /\ t \in Sessions /\ t.active = c.active /\ t.closed = c.closed /\ t.rp = c.rp
       /\ t.blockDone = c.blockDone /\ t.redDone = c.redDone /\ t.timer = c.timer
       /\ t.closing = (IF c.redDone /\ c.blockDone THEN c.closing + 1 ELSE c.closing)
       /\ t.rtx = c.rtx /\ t.claims = c.claims
    <2>1. CASE c.redDone /\ c.blockDone /\ ClosesTo(c, t, FALSE)
        <3>1. /\ t \in Sessions /\ t.active = c.active /\ t.closed = c.closed /\ t.rp = c.rp
              /\ t.blockDone /\ t.redDone = c.redDone /\ t.timer = c.timer
              /\ t.closing = c.closing + 1 /\ t.rtx = c.rtx /\ t.claims = c.claims
            BY <2>1 DEF ClosesTo
        <3>2. t.blockDone \in BOOLEAN /\ c.blockDone \in BOOLEAN
            BY <1>8, <3>1 DEF Sessions
        <3>3. t.blockDone = c.blockDone
            BY <2>1, <3>1, <3>2
        <3> QED BY <2>1, <3>1, <3>3
    <2>2. CASE ~(c.redDone /\ c.blockDone) /\ t = c
        BY <1>8, <2>2
    <2> QED BY <1>9, <2>1, <2>2 DEF ClosesWhenDone
<1>11. \A n : ClaimsOf(t, n) = ClaimsOf(s, n)
    BY <1>8, <1>10 DEF ClaimsOf
<1>12. Reported(s0, t, rp, filed, missing)
    <2>1. t.redDone = (s0.redDone \/ missing = NoClaims)
        BY <1>8, <1>10 DEF done
    <2> QED BY <1>2, <1>3, <1>4, <1>8, <1>10, <1>11, <2>1 DEF Reported
<1> QED BY <1>12 DEF t, c

\* A report is dropped, kills the simulator or is handled.
LEMMA ReportCases ==
    ASSUME TypeInv, ReceiveReport
    PROVE  \E seg \in Reports : wire["snd"] # <<>> /\ seg = Head(wire["snd"]) /\ ReportTaken(seg)
<1>1. PICK seg \in FirstOf(wire["snd"]) :
        \E filed \in {StoreClaims(ClaimsOf(ssr["snd"], seg.rp), seg.claims)} :
        \E missing \in {FindMissingClaims(filed)} :
            LET s == WithClaims([ssr["snd"] EXCEPT !.alive = TRUE, !.timer = {}], seg.rp, filed)
                again == missing # NoClaims /\ MayRetransmit(s)
                answered == [s EXCEPT !.redDone = @ \/ missing = NoClaims]
            IN  IF s.closed THEN Dropped("snd")
                ELSE IF again /\ Outside(missing) THEN Crash("snd")
                ELSE /\ Consume("snd")
                     /\ Enqueue("snd", <<ReportAck(seg.rp)>>,
                                IF again THEN SegmentsOf(missing, seg.rp) ELSE <<>>)
                     /\ Session("snd", CloseWhenDone(IF again THEN Counted(answered)
                                                     ELSE answered, FALSE))
                     /\ UNCHANGED <<linkUp, losses, red, delivered, handed, crashed>>
    BY DEF ReceiveReport
<1> DEFINE s0 == ssr["snd"]
           filed == StoreClaims(ClaimsOf(s0, seg.rp), seg.claims)
           missing == FindMissingClaims(filed)
           s == WithClaims([s0 EXCEPT !.alive = TRUE, !.timer = {}], seg.rp, filed)
           again == missing # NoClaims /\ MayRetransmit(s)
           answered == [s EXCEPT !.redDone = @ \/ missing = NoClaims]
           t == CloseWhenDone(IF again THEN Counted(answered) ELSE answered, FALSE)
           segs == IF again THEN SegmentsOf(missing, seg.rp) ELSE <<>>
<1>2. \/ s.closed /\ Dropped("snd")
      \/ Crash("snd")
      \/ /\ ~s.closed /\ (again => ~Outside(missing))
         /\ Consume("snd") /\ Enqueue("snd", <<ReportAck(seg.rp)>>, segs) /\ Session("snd", t)
         /\ UNCHANGED <<linkUp, losses, red, delivered, handed, crashed>>
    BY <1>1, Zenon
<1>3. wire["snd"] # <<>> /\ seg = Head(wire["snd"]) /\ seg \in Reports
    BY FirstOfSeq DEF TypeInv, WireType
<1>4. s0 \in Sessions /\ s0.rtx <= CpRtxLimit /\ linkUp["snd"] \in BOOLEAN
    BY DEF TypeInv, SessionsType, QueuesType, Engines
<1>5. seg.rp \in Nat /\ seg.claims \in BlockClaims
    BY <1>3 DEF Reports
<1> HIDE DEF s0
<1>6. filed \in BlockClaims
    <2>1. ClaimsOf(s0, seg.rp) \in BlockClaims
        BY <1>4, <1>5, ClaimsFiled
    <2> QED BY <1>5, <2>1, StoreInBlock
<1> HIDE DEF filed
<1>7. ClaimSet(missing)
    BY <1>6, MissingNotEmpty
<1>8. again \in BOOLEAN /\ (again => MayRetransmit(s))
    OBVIOUS
<1>9. s.closed = s0.closed
    <2> DEFINE a == [s0 EXCEPT !.alive = TRUE, !.timer = {}]
    <2>1. a \in Sessions /\ a.closed = s0.closed
        BY <1>4 DEF Sessions
    <2> HIDE DEF a
    <2>2. s \in Sessions /\ s = [a EXCEPT !.claims = s.claims]
        <3>1. s = WithClaims(a, seg.rp, filed)
            BY DEF a
        <3> HIDE DEF s
        <3> QED BY <1>5, <1>6, <2>1, <3>1, ClaimsFiled
    <2> HIDE DEF s
    <2> QED BY <2>1, <2>2 DEF Sessions
<1>10. Reported(s0, t, seg.rp, filed, missing)
    <2> DEFINE b == again
    <2>1. b \in BOOLEAN /\ (b => MayRetransmit(s))
        BY <1>8
    <2> DEFINE c == answered
    <2>2. c = [s EXCEPT !.redDone = @ \/ missing = NoClaims]
        OBVIOUS
    <2>3. t = CloseWhenDone(IF b THEN Counted(c) ELSE c, FALSE)
        OBVIOUS
    <2>4. s = WithClaims([s0 EXCEPT !.alive = TRUE, !.timer = {}], seg.rp, filed)
        OBVIOUS
    <2> HIDE DEF b, c, s, t, missing
    <2> QED BY <1>4, <1>5, <1>6, <2>1, <2>2, <2>3, <2>4, ReportFields
<1>11. /\ segs = <<>> \/ segs = SegmentsOf(missing, seg.rp)
       /\ missing = NoClaims => segs = <<>>
       /\ segs # <<>> => again
       /\ missing # NoClaims /\ s0.rtx < CpRtxLimit => again /\ segs = SegmentsOf(missing, seg.rp)
    <2>1. s.rtx = s0.rtx
        <3> DEFINE a == [s0 EXCEPT !.alive = TRUE, !.timer = {}]
        <3>1. a \in Sessions /\ a.rtx = s0.rtx
            BY <1>4 DEF Sessions
        <3> HIDE DEF a
        <3>2. s \in Sessions /\ s = [a EXCEPT !.claims = s.claims]
            <4>1. s = WithClaims(a, seg.rp, filed)
                BY DEF a
            <4> HIDE DEF s
            <4> QED BY <1>5, <1>6, <3>1, <4>1, ClaimsFiled
        <3> HIDE DEF s
        <3> QED BY <3>1, <3>2 DEF Sessions
    <2>2. s0.rtx < CpRtxLimit => MayRetransmit(s)
        <3> HIDE DEF s
        <3> QED BY <1>4, <2>1, LtpSessionAssumption DEF MayRetransmit, Sessions
    <2> HIDE DEF s, missing
    <2> QED BY <2>2
<1>12. (again => ~Outside(missing)) => segs \in Seq(Segs)
    <2>1. <<>> \in Seq(Segs)
        OBVIOUS
    <2>2. ASSUME ~Outside(missing) PROVE SegmentsOf(missing, seg.rp) \in Seq(Segs)
        BY <1>5, <1>7, <2>2, RetransmittedInSegs
    <2> HIDE DEF missing
    <2> QED BY <2>1, <2>2
<1>13. CASE s.closed /\ Dropped("snd")
    BY <1>3, <1>9, <1>13 DEF ReportTaken, s0
<1>14. CASE Crash("snd")
    BY <1>3, <1>14 DEF ReportTaken
<1>15. CASE /\ ~s.closed /\ (again => ~Outside(missing))
            /\ Consume("snd") /\ Enqueue("snd", <<ReportAck(seg.rp)>>, segs) /\ Session("snd", t)
            /\ UNCHANGED <<linkUp, losses, red, delivered, handed, crashed>>
    <2>1. ~s0.closed /\ segs \in Seq(Segs)
        BY <1>9, <1>12, <1>15
    <2> HIDE DEF segs, t, s, again
    <2>2. ReportHandled(seg, filed, t, segs)
        BY <1>10, <1>11, <1>15, <2>1, Zenon DEF ReportHandled, s0, missing
    <2>3. ReportTaken(seg)
        BY <2>2 DEF ReportTaken, filed, s0
    <2> QED BY <1>3, <2>3
<1> QED BY <1>2, <1>13, <1>14, <1>15

\* A timer has expired: it is gone, and perhaps a retransmission counted.
TimedOut(s, t, limit) ==
    /\ t \in Sessions
    /\ t.active = s.active /\ t.closed = s.closed /\ t.blockDone = s.blockDone
    /\ t.redDone = s.redDone /\ t.rp = s.rp /\ t.timer = {} /\ t.closing = s.closing
    /\ t.alive = s.alive /\ t.high = s.high /\ t.claims = s.claims
    /\ s.rtx <= t.rtx /\ t.rtx <= limit

\* Stopping the timer changes nothing else.
LEMMA StopTimer ==
    ASSUME NEW s \in Sessions, NEW limit, s.rtx <= limit
    PROVE  TimedOut(s, [s EXCEPT !.timer = {}], limit) /\ [s EXCEPT !.timer = {}].rtx = s.rtx
BY DEF TimedOut, Sessions

\* What the checkpoint timer does.
CheckpointHandled(info, t, again) ==
    /\ TimedOut(ssr["snd"], t, CpRtxLimit)
    /\ again \in Seq(Segs)
    /\ again = <<>> \/ again = SegmentsOf(info.claims, info.rp)
    /\ again # <<>> => ~Outside(info.claims)
    /\ ssr["snd"].rtx < CpRtxLimit => again = SegmentsOf(info.claims, info.rp)
    /\ Enqueue("snd", <<>>, again)
    /\ Session("snd", t)
    /\ UNCHANGED <<linkUp, wire, losses, red, delivered, handed, crashed>>

\* The checkpoint timer kills the simulator or is handled.
LEMMA CheckpointCases ==
    ASSUME TypeInv, CheckpointTimeout
    PROVE  \E info \in ssr["snd"].timer :
              /\ info \in Infos /\ ~CloseComesFirst("snd")
              /\ Crash("snd") \/ \E t, again : CheckpointHandled(info, t, again)
<1> DEFINE s0 == ssr["snd"]
           s == [s0 EXCEPT !.timer = {}]
<1>1. ~CloseComesFirst("snd")
    BY DEF CheckpointTimeout
<1>2. PICK info \in s0.timer :
          IF MayRetransmit(s) /\ Outside(info.claims) THEN Crash("snd")
          ELSE /\ Enqueue("snd", <<>>, IF MayRetransmit(s)
                                       THEN SegmentsOf(info.claims, info.rp) ELSE <<>>)
               /\ Session("snd", IF MayRetransmit(s) THEN Counted(s) ELSE s)
               /\ UNCHANGED <<linkUp, wire, losses, red, delivered, handed, crashed>>
    BY DEF CheckpointTimeout
<1>3. s0 \in Sessions /\ s0.rtx <= CpRtxLimit /\ linkUp["snd"] \in BOOLEAN
    BY DEF TypeInv, SessionsType, QueuesType, Engines
<1>4. info \in Infos
    <2>1. s0.timer \in {{}} \union {{i} : i \in Infos}
        BY <1>3 DEF Sessions
    <2> QED BY <2>1
<1>5. info.claims \in BlockClaims /\ info.rp \in Nat
    BY <1>4 DEF Infos
<1> HIDE DEF s0
<1>6. TimedOut(s0, s, CpRtxLimit) /\ s.rtx = s0.rtx
    BY <1>3, StopTimer
<1>a. MayRetransmit(s) <=> s0.rtx < CpRtxLimit
    BY <1>3, <1>6, LtpSessionAssumption DEF MayRetransmit, Sessions
<1>7. s \in Sessions
    BY <1>6 DEF TimedOut
<1> HIDE DEF s
<1>8. CASE MayRetransmit(s) /\ Outside(info.claims)
    BY <1>1, <1>2, <1>4, <1>8 DEF s0
<1>9. CASE MayRetransmit(s) /\ ~Outside(info.claims)
    <2> DEFINE t == Counted(s)
               segs == SegmentsOf(info.claims, info.rp)
               r == IF linkUp["snd"] THEN s.rtx + 1 ELSE s.rtx
    <2>1. t = [s EXCEPT !.rtx = r]
        BY DEF Counted
    <2>2. r \in Nat /\ r <= CpRtxLimit /\ s.rtx <= r
        BY <1>3, <1>7, <1>9, LtpSessionAssumption DEF MayRetransmit, Sessions
    <2> HIDE DEF t, r
    <2>3. TimedOut(s0, t, CpRtxLimit)
        BY <1>6, <1>7, <2>1, <2>2, CountFields DEF TimedOut
    <2>4. segs \in Seq(Segs)
        <3>1. ClaimSet(info.claims)
            BY <1>5, BlockClaimsBounds
        <3> QED BY <1>5, <1>9, <3>1, RetransmittedInSegs
    <2>5. /\ Enqueue("snd", <<>>, segs) /\ Session("snd", t)
          /\ UNCHANGED <<linkUp, wire, losses, red, delivered, handed, crashed>>
        BY <1>2, <1>9 DEF t
    <2> DEFINE u == segs
    <2>6. u \in Seq(Segs) /\ u = SegmentsOf(info.claims, info.rp) /\ Enqueue("snd", <<>>, u)
        BY <2>4, <2>5
    <2> HIDE DEF u, segs
    <2>7. CheckpointHandled(info, t, u)
        BY <1>9, <2>3, <2>5, <2>6, Zenon DEF CheckpointHandled, s0
    <2> QED BY <1>1, <1>4, <2>7 DEF s0
<1>10. CASE ~MayRetransmit(s)
    <2> DEFINE u == <<>>
    <2>1. u \in Seq(Segs) /\ u = <<>>
        OBVIOUS
    <2>2. /\ Enqueue("snd", <<>>, u) /\ Session("snd", s)
          /\ UNCHANGED <<linkUp, wire, losses, red, delivered, handed, crashed>>
        BY <1>2, <1>10
    <2> HIDE DEF u
    <2>3. CheckpointHandled(info, s, u)
        BY <1>6, <1>a, <1>10, <2>1, <2>2 DEF CheckpointHandled, s0
    <2> QED BY <1>1, <1>4, <2>3 DEF s0
<1> QED BY <1>8, <1>9, <1>10

\* What the report timer does.
ReportRepeated(t, again) ==
    /\ TimedOut(ssr["rcv"], t, RpRtxLimit)
    /\ again \in Seq(Reports)
    /\ again = <<>> \/ again = <<Report(ssr["rcv"])>>
    /\ Enqueue("rcv", again, <<>>)
    /\ Session("rcv", t)
    /\ UNCHANGED <<linkUp, wire, losses, red, delivered, handed, crashed>>

\* A report of the receiver has claims of the block.
LEMMA ReportInReports ==
    ASSUME NEW s \in Sessions
    PROVE  Report(s) \in Reports
<1>1. s.rp \in Nat
    BY DEF Sessions
<1>2. ClaimsOf(s, s.rp) \in BlockClaims
    BY <1>1, ClaimsFiled, NoClaimsInBlock
<1> QED BY <1>1, <1>2 DEF Report, ReportSegment, Reports

\* A claim of the report is not accepted.
ReportRefused == Crash("rcv") /\ ~Accepted(ssr["rcv"])

\* What decides about a report is its claims and their bound.
LEMMA SameAccepted ==
    ASSUME NEW s, NEW t, t.rp = s.rp, t.claims = s.claims, t.high = s.high
    PROVE  Accepted(t) <=> Accepted(s)
BY DEF Accepted, ClaimsOf

\* The report timer repeats the report as long as it may, or kills the
\* simulator.
LEMMA ReportTimeoutCases ==
    ASSUME TypeInv, ReportTimeout
    PROVE  /\ ssr["rcv"].timer # {} /\ ~CloseComesFirst("rcv")
           /\ ReportRefused \/ \E t, again : ReportRepeated(t, again)
<1> DEFINE s0 == ssr["rcv"]
           s == [s0 EXCEPT !.timer = {}]
           again == RpRtxLimit > s.rtx
           step == /\ Enqueue("rcv", IF RpRtxLimit > s.rtx THEN <<Report(s)>> ELSE <<>>, <<>>)
                   /\ Session("rcv", IF RpRtxLimit > s.rtx THEN [s EXCEPT !.rtx = s.rtx + 1] ELSE s)
                   /\ UNCHANGED <<linkUp, wire, losses, red, delivered, handed, crashed>>
<1>0. /\ s0.timer # {} /\ ~CloseComesFirst("rcv")
      /\ (again /\ ~Accepted(s) /\ Crash("rcv")) \/ step
    BY Zenon DEF ReportTimeout
<1>2. s0 \in Sessions /\ s0.rtx <= RpRtxLimit
    BY DEF TypeInv, SessionsType, QueuesType, Engines
<1> HIDE DEF s0
<1>3. TimedOut(s0, s, RpRtxLimit) /\ s.rtx = s0.rtx
    BY <1>2, StopTimer
<1>4. s \in Sessions /\ s.rp = s0.rp /\ s.claims = s0.claims
    BY <1>3 DEF TimedOut
<1> HIDE DEF s
<1>5. Report(s) = Report(s0) /\ (Accepted(s) <=> Accepted(s0))
    BY <1>3, <1>4, SameAccepted DEF Report, ClaimsOf, TimedOut
<1>b. CASE ~Accepted(s) /\ Crash("rcv")
    BY <1>0, <1>5, <1>b DEF ReportRefused, s0
<1> SUFFICES ASSUME step PROVE \E t, u : ReportRepeated(t, u)
    BY <1>0, <1>b DEF s0
<1>1. /\ Enqueue("rcv", IF RpRtxLimit > s.rtx THEN <<Report(s)>> ELSE <<>>, <<>>)
      /\ Session("rcv", IF RpRtxLimit > s.rtx THEN [s EXCEPT !.rtx = s.rtx + 1] ELSE s)
      /\ UNCHANGED <<linkUp, wire, losses, red, delivered, handed, crashed>>
    OBVIOUS
<1> HIDE DEF step
<1>6. CASE RpRtxLimit > s.rtx
    <2> DEFINE t == [s EXCEPT !.rtx = s.rtx + 1]
               r == s.rtx + 1
    <2>1. r \in Nat /\ r <= RpRtxLimit /\ s.rtx <= r
        BY <1>4, <1>6, LtpSessionAssumption DEF Sessions
    <2>2. t = [s EXCEPT !.rtx = r]
        OBVIOUS
    <2> HIDE DEF r, t
    <2>3. TimedOut(s0, t, RpRtxLimit)
        BY <1>3, <1>4, <2>1, <2>2, CountFields DEF TimedOut
    <2> DEFINE u == <<Report(s0)>>
    <2>4. u \in Seq(Reports) /\ u = <<Report(s0)>>
        BY <1>2, ReportInReports
    <2>5. Enqueue("rcv", u, <<>>) /\ Session("rcv", t)
        BY <1>1, <1>5, <1>6 DEF t
    <2> HIDE DEF u
    <2>6. ReportRepeated(t, u)
        BY <1>1, <2>3, <2>4, <2>5 DEF ReportRepeated, s0
    <2> QED BY <2>6
<1>7. CASE ~(RpRtxLimit > s.rtx)
    <2> DEFINE u == <<>>
    <2>1. u \in Seq(Reports) /\ u = <<>>
        OBVIOUS
    <2>2. /\ Enqueue("rcv", u, <<>>) /\ Session("rcv", s)
        BY <1>1, <1>7
    <2> HIDE DEF u
    <2>3. ReportRepeated(s, u)
        BY <1>1, <1>3, <2>1, <2>2 DEF ReportRepeated, s0
    <2> QED BY <2>3
<1> QED BY <1>6, <1>7

----------------------------------------------------------------------------
(* What the handlers of the receiving engine do.                           *)

\* A record is closed over an empty queue, or left open.
MayClose(s, t, queueEmpty) ==
    \/ t.closed = s.closed /\ t.timer = s.timer /\ t.closing \in {s.closing, s.closing + 1}
    \/ queueEmpty /\ t.closed /\ t.timer = {} /\ ~t.alive /\ t.closing = s.closing

\* The record a data segment finds, or creates.
DataRecord == IF ssr["rcv"].active THEN ssr["rcv"] ELSE NewSession(1)

\* What becomes of the record: a red segment is claimed, others close it.
DataRecorded(s, t, seg, stored) ==
    /\ t \in Sessions
    /\ t.active = s.active /\ t.redDone = s.redDone /\ t.rp = s.rp /\ t.rtx = s.rtx
    /\ stored  => /\ t.closed = s.closed /\ t.timer = s.timer /\ t.closing = s.closing
                  /\ t.high = Raised(s.high, seg.off + seg.len)
                  /\ ClaimsOf(t, s.rp) = InsertClaim(ClaimsOf(s, s.rp), seg.off, seg.len)
    /\ ~stored => /\ t.high = s.high /\ t.claims = s.claims
                  /\ MayClose(s, t, QueueEmpty("rcv"))

\* A checkpoint is claimed, and a claim of the report is not accepted.
DataRefused(seg) ==
    /\ Crash("rcv")
    /\ ~DataRecord.closed /\ ~DataRecord.redDone
    /\ seg.type \in CheckpointTypes
    /\ \E t : DataRecorded(DataRecord, t, seg, TRUE) /\ ~Accepted(t)

\* A data segment is taken.
DataHandled(seg, t, stored, report) ==
    /\ ~DataRecord.closed
    /\ stored = (seg.type \in RedTypes /\ ~DataRecord.redDone)
    /\ DataRecorded(DataRecord, t, seg, stored)
    /\ report = (IF stored /\ seg.type \in CheckpointTypes THEN <<Report(t)>> ELSE <<>>)
    /\ report \in Seq(Reports)
    /\ Consume("rcv") /\ Session("rcv", t) /\ Enqueue("rcv", report, <<>>)
    /\ red' = (IF stored THEN Insert(red, seg.off, [len |-> seg.len, type |-> seg.type]) ELSE red)
    /\ handed' = HandUp(seg, stored)
    /\ delivered' = (IF seg.type \in GreenTypes
                     THEN Append(delivered, Notice("GP_SEGMENT_RCV", Units(seg.off, seg.len),
                                                   seg.type = "GD_EOB"))
                     ELSE delivered)
    /\ UNCHANGED <<linkUp, losses, crashed>>

\* A green segment changes what is known of the green part.
GreenNoted(s, t) ==
    /\ t \in Sessions
    /\ t.active = s.active /\ t.redDone = s.redDone /\ t.rp = s.rp /\ t.rtx = s.rtx
    /\ t.closed = s.closed /\ t.timer = s.timer /\ t.closing = s.closing
    /\ t.high = s.high /\ t.claims = s.claims

\* A green segment touches fullGreen and blockDone only.
LEMMA GreenFields ==
    ASSUME NEW s \in Sessions, NEW full \in BOOLEAN, NEW done \in BOOLEAN,
           NEW t, t = [s EXCEPT !.fullGreen = full, !.blockDone = done]
    PROVE  GreenNoted(s, t)
BY DEF Sessions, GreenNoted

\* A red segment is claimed, and may end the block.
StoredTo(s, t, seg, c) ==
    /\ DataRecorded(s, t, seg, TRUE) /\ Report(c) = Report(t) /\ Report(t) \in Reports
    /\ Accepted(c) <=> Accepted(t)

\* The record in which a segment has been claimed and its end noted.
ClaimedIn(s, seg) ==
    WithClaims([s EXCEPT !.high = Raised(@, seg.off + seg.len)],
               s.rp, InsertClaim(ClaimsOf(s, s.rp), seg.off, seg.len))

\* A red segment touches its claims, their bound and blockDone only.
LEMMA StoredFields ==
    ASSUME NEW s \in Sessions, NEW seg \in Segs, NEW ends \in BOOLEAN,
           NEW c, c = ClaimedIn(s, seg),
           NEW t, t = [c EXCEPT !.blockDone = @ \/ ends]
    PROVE  StoredTo(s, t, seg, c)
<1> DEFINE cl == InsertClaim(ClaimsOf(s, s.rp), seg.off, seg.len)
           b == c.blockDone \/ ends
           up == Raised(s.high, seg.off + seg.len)
           h == [s EXCEPT !.high = up]
<1>0. s.rp \in Nat
    BY DEF Sessions
<1>a. up \in 0 .. BlockLen
    <2>1. s.high \in 0 .. BlockLen
        BY DEF Sessions
    <2>2. seg.off + seg.len \in 0 .. BlockLen
        BY CapacityAssumption, LtpSessionAssumption DEF Segs
    <2> QED BY <2>1, <2>2 DEF Raised
<1>1. cl \in BlockClaims
    <2>1. ClaimsOf(s, s.rp) \in BlockClaims
        BY <1>0, ClaimsFiled, NoClaimsInBlock
    <2> QED BY <2>1, InsertInBlock
<1>2. c = WithClaims(h, s.rp, cl) /\ t = [c EXCEPT !.blockDone = b]
    BY DEF ClaimedIn
<1> HIDE DEF cl, up
<1>b. /\ h \in Sessions /\ h.high = up /\ h.active = s.active /\ h.redDone = s.redDone
      /\ h.rp = s.rp /\ h.rtx = s.rtx /\ h.closed = s.closed /\ h.timer = s.timer
      /\ h.closing = s.closing
    BY <1>a DEF Sessions
<1> HIDE DEF h
<1>3. c \in Sessions /\ c = [h EXCEPT !.claims = c.claims] /\ ClaimsOf(c, s.rp) = cl
    BY <1>0, <1>1, <1>2, <1>b, ClaimsFiled
<1>4. b \in BOOLEAN
    BY <1>3 DEF Sessions
<1> HIDE DEF b
<1>5. /\ t \in Sessions /\ t.active = c.active /\ t.redDone = c.redDone /\ t.rp = c.rp
      /\ t.rtx = c.rtx /\ t.closed = c.closed /\ t.timer = c.timer
      /\ t.closing = c.closing /\ t.high = c.high /\ t.claims = c.claims
    BY <1>2, <1>3, <1>4 DEF Sessions
<1>6. /\ c.active = s.active /\ c.redDone = s.redDone /\ c.rp = s.rp
      /\ c.rtx = s.rtx /\ c.closed = s.closed /\ c.timer = s.timer
      /\ c.closing = s.closing /\ c.high = up
    BY <1>3, <1>b DEF Sessions
<1>c. Accepted(t) <=> Accepted(c)
    <2>1. t.rp = c.rp /\ t.claims = c.claims /\ t.high = c.high
        BY <1>5
    <2> QED BY <2>1, SameAccepted, Zenon
<1>7. Report(t) = Report(c) /\ ClaimsOf(t, s.rp) = cl
    BY <1>3, <1>5 DEF Report, ClaimsOf
<1>8. DataRecorded(s, t, seg, TRUE)
    BY <1>5, <1>6, <1>7 DEF DataRecorded, cl, up
<1> QED BY <1>5, <1>c, <1>7, <1>8, ReportInReports DEF StoredTo

\* Any other segment may end the block and close the record.
LEMMA UnstoredFields ==
    ASSUME NEW s \in Sessions, NEW seg \in Segs, NEW q \in BOOLEAN, QueueEmpty("rcv") = q,
           NEW full \in BOOLEAN, NEW done \in BOOLEAN,
           NEW g, g = [s EXCEPT !.fullGreen = full, !.blockDone = done]
    PROVE  /\ DataRecorded(s, s, seg, FALSE)
           /\ DataRecorded(s, g, seg, FALSE)
           /\ DataRecorded(s, CloseSession(g, q), seg, FALSE)
           /\ DataRecorded(s, CloseWhenDone(g, q), seg, FALSE)
<1>2. GreenNoted(s, g)
    BY GreenFields
<1>3. /\ g \in Sessions
      /\ g.active = s.active /\ g.redDone = s.redDone /\ g.rp = s.rp /\ g.rtx = s.rtx
      /\ g.closed = s.closed /\ g.timer = s.timer /\ g.closing = s.closing
      /\ g.high = s.high /\ g.claims = s.claims
    BY <1>2 DEF GreenNoted
<1>4. DataRecorded(s, s, seg, FALSE) /\ DataRecorded(s, g, seg, FALSE)
    BY <1>3 DEF DataRecorded, MayClose
<1>5. ASSUME NEW t, ClosesTo(g, t, q) PROVE DataRecorded(s, t, seg, FALSE)
    <2>1. MayClose(s, t, q)
        BY <1>3, <1>5 DEF ClosesTo, MayClose
    <2> QED BY <1>3, <1>5, <2>1 DEF ClosesTo, DataRecorded
<1>6. ClosesTo(g, CloseSession(g, q), q)
    BY <1>3, CloseSessionFields
<1>7. DataRecorded(s, CloseWhenDone(g, q), seg, FALSE)
    <2>1. ClosesWhenDone(g, CloseWhenDone(g, q), q)
        BY <1>3, CloseWhenDoneFields
    <2> QED BY <1>4, <1>5, <2>1 DEF ClosesWhenDone
<1> QED BY <1>4, <1>5, <1>6, <1>7

\* The record found, or a new one: that it is kept alive is not told apart.
LEMMA RecordKept ==
    ASSUME NEW s \in Sessions, NEW r \in Sessions, r.active = s.active, r.redDone = s.redDone,
           r.rp = s.rp, r.rtx = s.rtx, r.closed = s.closed, r.timer = s.timer,
           r.closing = s.closing, r.high = s.high, r.claims = s.claims,
           NEW t, NEW seg, NEW stored \in BOOLEAN, DataRecorded(r, t, seg, stored)
    PROVE  DataRecorded(s, t, seg, stored)
BY DEF DataRecorded, MayClose, ClaimsOf

\* The record that Receive makes of s, with the segment claimed in c.
DataNext(s, c, seg) ==
    LET green == [s EXCEPT !.fullGreen = @ \/ seg.off = 0,
                           !.blockDone = @ \/ seg.type = "GD_EOB"]
    IN  CASE seg.type \in RedTypes /\ ~s.redDone ->
                  [c EXCEPT !.blockDone = @ \/ seg.type = "RD_CP_EORP_EOB"]
          [] seg.type = "GD" -> green
          [] seg.type = "GD_EOB" ->
                  IF green.fullGreen THEN CloseSession(green, QueueEmpty("rcv"))
                  ELSE CloseWhenDone(green, QueueEmpty("rcv"))
          [] OTHER -> s

NextTo(s, t, seg, c, stored) ==
    /\ DataRecorded(s, t, seg, stored)
    /\ stored => /\ Report(c) = Report(t) /\ Report(t) \in Reports
                 /\ Accepted(c) <=> Accepted(t)

\* It is the record with the segment claimed, or one that may be closed.
LEMMA NextRecord ==
    ASSUME NEW s \in Sessions, NEW seg \in Segs,
           NEW stored, stored = (seg.type \in RedTypes /\ ~s.redDone),
           NEW c, c = ClaimedIn(s, seg)
    PROVE  NextTo(s, DataNext(s, c, seg), seg, c, stored)
<1> DEFINE t == DataNext(s, c, seg)
<1>1. CASE stored
    <2> DEFINE ends == seg.type = "RD_CP_EORP_EOB"
    <2>1. seg.type # "GD" /\ seg.type # "GD_EOB" /\ ends \in BOOLEAN
        BY <1>1 DEF RedTypes
    <2>2. t = [c EXCEPT !.blockDone = @ \/ ends]
        BY <1>1, <2>1 DEF DataNext
    <2> HIDE DEF ends, t
    <2>3. StoredTo(s, t, seg, c)
        BY <2>1, <2>2, StoredFields
    <2>4. stored = TRUE
        BY <1>1
    <2> QED BY <2>3, <2>4 DEF StoredTo, NextTo, t
<1>2. CASE ~stored
    <2> DEFINE full == s.fullGreen \/ seg.off = 0
               done == s.blockDone \/ seg.type = "GD_EOB"
               g == [s EXCEPT !.fullGreen = full, !.blockDone = done]
               q == QueueEmpty("rcv")
    <2>1. t = s \/ t = g \/ t = CloseSession(g, q) \/ t = CloseWhenDone(g, q)
        BY <1>2 DEF DataNext
    <2>2. full \in BOOLEAN /\ done \in BOOLEAN /\ q \in BOOLEAN /\ q = QueueEmpty("rcv")
        BY DEF Sessions, QueueEmpty
    <2>3. g = [s EXCEPT !.fullGreen = full, !.blockDone = done]
        OBVIOUS
    <2> HIDE DEF full, done, q, g, t
    <2>4. /\ DataRecorded(s, s, seg, FALSE)
          /\ DataRecorded(s, g, seg, FALSE)
          /\ DataRecorded(s, CloseSession(g, q), seg, FALSE)
          /\ DataRecorded(s, CloseWhenDone(g, q), seg, FALSE)
        BY <2>2, <2>3, UnstoredFields
    <2>5. stored = FALSE
        BY <1>2
    <2> QED BY <2>1, <2>4, <2>5 DEF NextTo, t
<1> QED BY <1>1, <1>2

\* A data segment is dropped, kills the simulator or is taken.
LEMMA DataCases ==
    ASSUME TypeInv, ReceiveData
    PROVE  \E seg \in Segs :
              /\ wire["rcv"] # <<>> /\ seg = Head(wire["rcv"])
              /\ \/ Dropped("rcv") /\ ssr["rcv"].closed
                 \/ DataRefused(seg)
                 \/ \E t, stored, report : DataHandled(seg, t, stored, report)
<1>1. PICK seg \in {m \in FirstOf(wire["rcv"]) : m.type \in DataTypes} :
      \E s \in {IF ssr["rcv"].active THEN [ssr["rcv"] EXCEPT !.alive = TRUE] ELSE NewSession(1)} :
      \E claimed \in {ClaimedIn(s, seg)} :
        LET storedRed == seg.type \in RedTypes /\ ~s.redDone
            reports == storedRed /\ seg.type \in CheckpointTypes
        IN  IF ssr["rcv"].closed THEN Dropped("rcv")
            ELSE IF reports /\ ~Accepted(claimed) THEN Crash("rcv")
            ELSE /\ Consume("rcv")
                 /\ Session("rcv", DataNext(s, claimed, seg))
                 /\ red' = IF storedRed
                           THEN Insert(red, seg.off, [len |-> seg.len, type |-> seg.type])
                           ELSE red
                 /\ Enqueue("rcv", IF reports THEN <<Report(claimed)>> ELSE <<>>, <<>>)
                 /\ handed' = HandUp(seg, storedRed)
                 /\ delivered' = IF seg.type \in GreenTypes
                        THEN Append(delivered, Notice("GP_SEGMENT_RCV", Units(seg.off, seg.len),
                                                      seg.type = "GD_EOB"))
                        ELSE delivered
                 /\ UNCHANGED <<linkUp, losses, crashed>>
    BY DEF ReceiveData, DataNext, ClaimedIn
<1> DEFINE r == ssr["rcv"]
           s == IF r.active THEN [r EXCEPT !.alive = TRUE] ELSE NewSession(1)
           c == ClaimedIn(s, seg)
           stored == seg.type \in RedTypes /\ ~s.redDone
           t == DataNext(s, c, seg)
           rep0 == IF stored /\ seg.type \in CheckpointTypes THEN <<Report(c)>> ELSE <<>>
           rep == IF stored /\ seg.type \in CheckpointTypes THEN <<Report(t)>> ELSE <<>>
<1>2. wire["rcv"] # <<>> /\ seg = Head(wire["rcv"]) /\ seg \in Segs
    <2>1. wire["rcv"] # <<>> /\ seg = Head(wire["rcv"]) /\ seg \in Segs \union Acks
        BY FirstOfSeq DEF TypeInv, WireType
    <2>2. seg \notin Acks
        BY DEF Acks, DataTypes, RedTypes, GreenTypes
    <2> QED BY <2>1, <2>2
<1>3. r \in Sessions /\ DataRecord \in Sessions
    BY NewSessionType DEF TypeInv, SessionsType, Engines, DataRecord
<1>4. /\ s \in Sessions /\ s.active = DataRecord.active /\ s.redDone = DataRecord.redDone
      /\ s.rp = DataRecord.rp /\ s.rtx = DataRecord.rtx /\ s.closed = DataRecord.closed
      /\ s.timer = DataRecord.timer /\ s.closing = DataRecord.closing
      /\ s.high = DataRecord.high /\ s.claims = DataRecord.claims
    BY <1>3, NewSessionType DEF DataRecord, Sessions
<1>5. CASE r.closed
    <2>1. Dropped("rcv")
        BY <1>1, <1>5, Zenon
    <2> QED BY <1>2, <1>5, <2>1
<1>7. CASE /\ ~r.closed /\ stored /\ seg.type \in CheckpointTypes
           /\ ~Accepted(c) /\ Crash("rcv")
    <2>1. ~DataRecord.closed /\ ~DataRecord.redDone
        BY <1>4, <1>7 DEF DataRecord, NewSession
    <2>2. c = ClaimedIn(s, seg) /\ TRUE = (seg.type \in RedTypes /\ ~s.redDone)
          /\ t = DataNext(s, c, seg)
        BY <1>7
    <2> HIDE DEF s, t, c, stored
    <2>3. NextTo(s, t, seg, c, TRUE)
        BY <1>2, <1>4, <2>2, NextRecord
    <2>4. DataRecorded(DataRecord, t, seg, TRUE)
        BY <1>3, <1>4, <2>3, RecordKept DEF NextTo
    <2>5. ~Accepted(t)
        BY <1>7, <2>3 DEF NextTo
    <2>6. DataRefused(seg)
        BY <1>7, <2>1, <2>4, <2>5 DEF DataRefused
    <2> QED BY <1>2, <2>6
<1>8. \/ r.closed
      \/ /\ ~r.closed /\ stored /\ seg.type \in CheckpointTypes
         /\ ~Accepted(c) /\ Crash("rcv")
      \/ /\ ~r.closed
         /\ Consume("rcv") /\ Session("rcv", t) /\ Enqueue("rcv", rep0, <<>>)
         /\ red' = (IF stored THEN Insert(red, seg.off, [len |-> seg.len, type |-> seg.type]) ELSE red)
         /\ handed' = HandUp(seg, stored)
         /\ delivered' = (IF seg.type \in GreenTypes
                    THEN Append(delivered, Notice("GP_SEGMENT_RCV", Units(seg.off, seg.len),
                                                  seg.type = "GD_EOB"))
                    ELSE delivered)
         /\ UNCHANGED <<linkUp, losses, crashed>>
    BY <1>1, Zenon
<1>6. CASE /\ ~r.closed
           /\ Consume("rcv") /\ Session("rcv", t) /\ Enqueue("rcv", rep0, <<>>)
           /\ red' = (IF stored THEN Insert(red, seg.off, [len |-> seg.len, type |-> seg.type]) ELSE red)
           /\ handed' = HandUp(seg, stored)
           /\ delivered' = (IF seg.type \in GreenTypes
                      THEN Append(delivered, Notice("GP_SEGMENT_RCV", Units(seg.off, seg.len),
                                                    seg.type = "GD_EOB"))
                      ELSE delivered)
           /\ UNCHANGED <<linkUp, losses, crashed>>
    <2>1. /\ Consume("rcv") /\ Session("rcv", t) /\ Enqueue("rcv", rep0, <<>>)
          /\ red' = (IF stored THEN Insert(red, seg.off, [len |-> seg.len, type |-> seg.type]) ELSE red)
          /\ handed' = HandUp(seg, stored)
          /\ delivered' = (IF seg.type \in GreenTypes
                     THEN Append(delivered, Notice("GP_SEGMENT_RCV", Units(seg.off, seg.len),
                                                   seg.type = "GD_EOB"))
                     ELSE delivered)
          /\ UNCHANGED <<linkUp, losses, crashed>>
        BY <1>6, Zenon
    <2>2. ~DataRecord.closed
        BY <1>6 DEF DataRecord, NewSession
    <2> DEFINE st == stored
    <2>3. st = (seg.type \in RedTypes /\ ~s.redDone) /\ st \in BOOLEAN
        OBVIOUS
    <2>5. /\ c = ClaimedIn(s, seg)
          /\ rep0 = (IF st /\ seg.type \in CheckpointTypes THEN <<Report(c)>> ELSE <<>>)
          /\ rep = (IF st /\ seg.type \in CheckpointTypes THEN <<Report(t)>> ELSE <<>>)
          /\ t = DataNext(s, c, seg)
        OBVIOUS
    <2>7. /\ Session("rcv", t) /\ Enqueue("rcv", rep0, <<>>)
          /\ red' = (IF st THEN Insert(red, seg.off, [len |-> seg.len, type |-> seg.type]) ELSE red)
          /\ handed' = HandUp(seg, st)
        BY <2>1
    <2> HIDE DEF s, t, c, st, stored, rep, rep0
    <2>8. DataRecorded(s, t, seg, st) /\ (st => Report(c) = Report(t) /\ Report(t) \in Reports)
        <3>1. s \in Sessions
            BY <1>4
        <3>2. NextTo(s, t, seg, c, st)
            BY <1>2, <3>1, <2>3, <2>5, NextRecord
        <3> QED BY <3>2 DEF NextTo
    <2>9. DataRecorded(DataRecord, t, seg, st) /\ rep0 = rep /\ rep \in Seq(Reports)
        <3>1. DataRecorded(DataRecord, t, seg, st)
            BY <1>3, <1>4, <2>3, <2>8, RecordKept
        <3>2. rep0 = rep
            BY <2>5, <2>8
        <3>3. rep \in Seq(Reports)
            BY <2>5, <2>8
        <3> QED BY <3>1, <3>2, <3>3
    <2>10. st = (seg.type \in RedTypes /\ ~DataRecord.redDone)
        BY <1>4, <2>3
    <2>11. DataHandled(seg, t, st, rep)
        BY <2>1, <2>2, <2>5, <2>7, <2>9, <2>10, Zenon DEF DataHandled
    <2> QED BY <1>2, <2>11
<1> QED BY <1>5, <1>6, <1>7, <1>8, Zenon

\* The record t that the acknowledgment of the report rp makes of s.
AckRecorded(s, t, rp, done) ==
    /\ t \in Sessions
    /\ t.active = s.active /\ t.rtx = s.rtx /\ t.timer = {} /\ t.high = s.high
    /\ \/ t.closed = s.closed /\ t.closing \in {s.closing, s.closing + 1}
       \/ QueueEmpty("rcv") /\ t.closed /\ ~t.alive /\ t.closing = s.closing
    /\ s.rp <= rp  => /\ t.rp = s.rp + 1 /\ t.redDone = done
                      /\ ClaimsOf(t, s.rp + 1) = ClaimsOf(s, s.rp)
    /\ ~(s.rp <= rp) => t.rp = s.rp /\ t.redDone = s.redDone /\ t.claims = s.claims

\* An acknowledgment of a report is taken.
AckHandled(seg, t, done) ==
    /\ ~ssr["rcv"].closed
    /\ done = (ssr["rcv"].redDone
               \/ FindMissingClaims(ClaimsOf(ssr["rcv"], ssr["rcv"].rp)) = NoClaims)
    /\ AckRecorded(ssr["rcv"], t, seg.rp, done)
    /\ Consume("rcv") /\ Session("rcv", t)
    /\ IF ssr["rcv"].rp <= seg.rp
       THEN /\ red' = (IF done THEN [o \in {} |-> 0] ELSE red)
            /\ delivered' = (IF done THEN Append(delivered, RedPart) ELSE delivered)
       ELSE UNCHANGED <<red, delivered>>
    /\ UNCHANGED <<ops, app, linkUp, sending, losses, handed, crashed>>

\* Awake, and with the timer stopped.
Awake(s, a) ==
    /\ a \in Sessions
    /\ a.active = s.active /\ a.redDone = s.redDone /\ a.rp = s.rp /\ a.rtx = s.rtx
    /\ a.closed = s.closed /\ a.timer = {} /\ a.closing = s.closing /\ a.claims = s.claims
    /\ a.high = s.high /\ a.blockDone = s.blockDone

\* What wakes a record leaves the rest of it alone.
LEMMA AwakeFields ==
    ASSUME NEW s \in Sessions
    PROVE  Awake(s, [s EXCEPT !.alive = TRUE, !.timer = {}])
BY DEF Awake, Sessions

\* The record of the next report, before it is closed.
LEMMA NextReportFields ==
    ASSUME NEW s \in Sessions, NEW a, Awake(s, a), NEW done \in BOOLEAN,
           NEW rp \in Nat, s.rp <= rp
    PROVE  AckRecorded(s, CloseWhenDone(WithClaims([a EXCEPT !.redDone = done, !.rp = @ + 1],
                                                   a.rp + 1, ClaimsOf(a, a.rp)),
                                        QueueEmpty("rcv")), rp, done)
<1> DEFINE r == s.rp + 1
           b == [a EXCEPT !.redDone = done, !.rp = r]
           cl == ClaimsOf(s, s.rp)
           n == WithClaims(b, r, cl)
           q == QueueEmpty("rcv")
           t == CloseWhenDone(n, q)
<1>1. /\ a \in Sessions /\ a.active = s.active /\ a.redDone = s.redDone /\ a.rp = s.rp
      /\ a.rtx = s.rtx /\ a.closed = s.closed /\ a.timer = {} /\ a.closing = s.closing
      /\ a.high = s.high /\ a.claims = s.claims
    BY DEF Awake
<1>2. s.rp \in Nat /\ r \in Nat /\ q \in BOOLEAN
    BY DEF Sessions, QueueEmpty
<1>3. cl \in BlockClaims
    BY <1>2, ClaimsFiled, NoClaimsInBlock
<1>4. ClaimsOf(a, a.rp) = cl
    BY <1>1 DEF ClaimsOf
<1>5. [a EXCEPT !.redDone = done, !.rp = @ + 1] = b /\ a.rp + 1 = r
    BY <1>1
<1> HIDE DEF r, cl
<1>6. /\ b \in Sessions /\ b.active = a.active /\ b.redDone = done /\ b.rp = r
      /\ b.rtx = a.rtx /\ b.closed = a.closed /\ b.timer = a.timer /\ b.closing = a.closing
      /\ b.high = a.high
    BY <1>1, <1>2 DEF Sessions
<1> HIDE DEF b
<1>7. n \in Sessions /\ n = [b EXCEPT !.claims = n.claims] /\ ClaimsOf(n, r) = cl
    BY <1>2, <1>3, <1>6, ClaimsFiled
<1> HIDE DEF n
<1>8. /\ n.active = b.active /\ n.redDone = b.redDone /\ n.rp = b.rp /\ n.rtx = b.rtx
      /\ n.closed = b.closed /\ n.timer = b.timer /\ n.closing = b.closing
      /\ n.high = b.high
    BY <1>6, <1>7 DEF Sessions
<1>9. ClosesWhenDone(n, t, q)
    BY <1>2, <1>7, CloseWhenDoneFields
<1> HIDE DEF t
<1>10. /\ t \in Sessions /\ t.active = n.active /\ t.redDone = n.redDone /\ t.rp = n.rp
       /\ t.rtx = n.rtx /\ t.high = n.high /\ t.claims = n.claims
       /\ \/ t.closed = n.closed /\ t.closing \in {n.closing, n.closing + 1} /\ t.timer = n.timer
          \/ q /\ t.closed /\ ~t.alive /\ t.closing = n.closing /\ t.timer = {}
    <2>1. CASE ClosesTo(n, t, q)
        BY <1>2, <2>1 DEF ClosesTo
    <2>2. CASE t = n
        BY <1>7, <2>2
    <2> QED BY <1>9, <2>1, <2>2 DEF ClosesWhenDone
<1>11. ClaimsOf(t, r) = cl
    BY <1>7, <1>10 DEF ClaimsOf
<1>12. AckRecorded(s, t, rp, done)
    <2>1. /\ t \in Sessions /\ t.active = s.active /\ t.rtx = s.rtx /\ t.timer = {}
          /\ t.high = s.high /\ t.rp = r /\ t.redDone = done /\ s.rp <= rp
          /\ \/ t.closed = s.closed /\ t.closing \in {s.closing, s.closing + 1}
             \/ q /\ t.closed /\ ~t.alive /\ t.closing = s.closing
        BY <1>1, <1>6, <1>8, <1>10
    <2> QED BY <1>11, <2>1 DEF AckRecorded, r, cl
<1> QED BY <1>4, <1>5, <1>12 DEF t, n

\* An acknowledgment is dropped or taken.
LEMMA AckCases ==
    ASSUME TypeInv, ReceiveReportAck
    PROVE  \E seg \in Acks :
              /\ wire["rcv"] # <<>> /\ seg = Head(wire["rcv"])
              /\ \/ Dropped("rcv") /\ ssr["rcv"].closed
                 \/ \E t, done : AckHandled(seg, t, done)
<1> DEFINE s0 == ssr["rcv"]
           s == [s0 EXCEPT !.alive = TRUE, !.timer = {}]
           done == s.redDone \/ FindMissingClaims(ClaimsOf(s, s.rp)) = NoClaims
           next == WithClaims([s EXCEPT !.redDone = done, !.rp = @ + 1],
                              s.rp + 1, ClaimsOf(s, s.rp))
           t == CloseWhenDone(next, QueueEmpty("rcv"))
<1>1. PICK seg \in {m \in FirstOf(wire["rcv"]) : m.type = "RAS"} :
          IF s.closed THEN Dropped("rcv")
          ELSE /\ Consume("rcv")
               /\ IF s.rp <= seg.rp
                  THEN /\ Session("rcv", t)
                       /\ red' = IF done THEN [o \in {} |-> 0] ELSE red
                       /\ delivered' = IF done THEN Append(delivered, RedPart) ELSE delivered
                  ELSE Session("rcv", s) /\ UNCHANGED <<red, delivered>>
               /\ UNCHANGED <<ops, app, linkUp, sending, losses, handed, crashed>>
    BY Zenon DEF ReceiveReportAck
<1>2. wire["rcv"] # <<>> /\ seg = Head(wire["rcv"]) /\ seg \in Acks /\ seg.rp \in Nat
    <2>1. wire["rcv"] # <<>> /\ seg = Head(wire["rcv"]) /\ seg \in Segs \union Acks
        BY FirstOfSeq DEF TypeInv, WireType
    <2>2. seg \notin Segs
        BY DEF Segs, DataTypes, RedTypes, GreenTypes
    <2> QED BY <2>1, <2>2 DEF Acks
<1>3. s0 \in Sessions
    BY DEF TypeInv, SessionsType, Engines
<1>4. Awake(s0, s)
    <2> HIDE DEF s0
    <2> QED BY <1>3, AwakeFields
<1>5. s.closed = s0.closed /\ s.rp = s0.rp /\ s.redDone = s0.redDone /\ s.claims = s0.claims
    BY <1>4 DEF Awake
<1>6. ClaimsOf(s, s.rp) = ClaimsOf(s0, s0.rp)
    BY <1>5 DEF ClaimsOf
<1>7. done = (s0.redDone \/ FindMissingClaims(ClaimsOf(s0, s0.rp)) = NoClaims)
    BY <1>5, <1>6
<1>8. CASE s.closed
    <2>1. Dropped("rcv")
        BY <1>1, <1>8, Zenon
    <2> QED BY <1>2, <1>5, <1>8, <2>1
<1>9. CASE ~s.closed /\ s.rp <= seg.rp
    <2>1. /\ Consume("rcv") /\ Session("rcv", t)
          /\ red' = (IF done THEN [o \in {} |-> 0] ELSE red)
          /\ delivered' = (IF done THEN Append(delivered, RedPart) ELSE delivered)
          /\ UNCHANGED <<ops, app, linkUp, sending, losses, handed, crashed>>
        BY <1>1, <1>9, Zenon
    <2> DEFINE d == done
    <2>2. d \in BOOLEAN /\ t = CloseWhenDone(WithClaims([s EXCEPT !.redDone = d, !.rp = @ + 1],
                                                       s.rp + 1, ClaimsOf(s, s.rp)),
                                            QueueEmpty("rcv"))
        <3>1. s0.redDone \in BOOLEAN
            BY <1>3 DEF Sessions
        <3> QED BY <1>5, <3>1
    <2>3. d = (s0.redDone \/ FindMissingClaims(ClaimsOf(s0, s0.rp)) = NoClaims)
        BY <1>7
    <2>4. /\ red' = (IF d THEN [o \in {} |-> 0] ELSE red)
          /\ delivered' = (IF d THEN Append(delivered, RedPart) ELSE delivered)
        BY <2>1
    <2>5. s0.rp <= seg.rp /\ ~s0.closed
        BY <1>5, <1>9
    <2> HIDE DEF d, t, s, s0, next, done
    <2>6. AckRecorded(s0, t, seg.rp, d)
        BY <1>2, <1>3, <1>4, <2>2, <2>5, NextReportFields
    <2>7. AckHandled(seg, t, d)
        BY <2>1, <2>3, <2>4, <2>5, <2>6 DEF AckHandled, s0
    <2> QED BY <1>2, <2>7
<1>10. CASE ~s.closed /\ ~(s.rp <= seg.rp)
    <2>1. /\ Consume("rcv") /\ Session("rcv", s) /\ UNCHANGED <<red, delivered>>
          /\ UNCHANGED <<ops, app, linkUp, sending, losses, handed, crashed>>
        BY <1>1, <1>10, Zenon
    <2> DEFINE d == done
    <2>2. d = (s0.redDone \/ FindMissingClaims(ClaimsOf(s0, s0.rp)) = NoClaims)
        BY <1>7
    <2>3. ~(s0.rp <= seg.rp) /\ ~s0.closed
        BY <1>5, <1>10
    <2> HIDE DEF d, s, s0, done
    <2>4. AckRecorded(s0, s, seg.rp, d)
        BY <1>4, <2>3 DEF Awake, AckRecorded
    <2>5. AckHandled(seg, s, d)
        BY <2>1, <2>2, <2>3, <2>4 DEF AckHandled, s0
    <2> QED BY <1>2, <2>5
<1> QED BY <1>8, <1>9, <1>10

----------------------------------------------------------------------------
(* What both engines do.                                                   *)

\* What a close that comes back, or the inactivity event, makes of s.
Ended(s, t, queueEmpty) ==
    /\ t \in Sessions
    /\ t.active = s.active /\ t.redDone = s.redDone /\ t.rp = s.rp /\ t.rtx = s.rtx
    /\ t.high = s.high /\ t.claims = s.claims /\ t.blockDone
    /\ queueEmpty => t.closed /\ t.timer = {} /\ ~t.alive
    /\ ~queueEmpty => t.closed = s.closed /\ t.timer = s.timer /\ ~t.alive /\ t.closing = s.closing + 1

\* A postponed close ends the session when its queue is empty.
LEMMA PostponedFields ==
    ASSUME TypeInv, NEW e \in Engines, ClosePostponed(e)
    PROVE  \E t : Session(e, t) /\ Ended(ssr[e], t, TRUE) /\ QueueEmpty(e)
<1> DEFINE s == ssr[e]
           n == s.closing - 1
           a == [s EXCEPT !.closing = n]
           t == CloseSession(a, TRUE)
<1>1. s.closing > 0 /\ QueueEmpty(e) /\ Session(e, t)
    BY DEF ClosePostponed
<1>2. s \in Sessions
    BY DEF TypeInv, SessionsType
<1> HIDE DEF s
<1>3. n \in Nat
    BY <1>1, <1>2 DEF Sessions
<1> HIDE DEF n
<1>4. /\ a \in Sessions
      /\ a.active = s.active /\ a.redDone = s.redDone /\ a.rp = s.rp /\ a.rtx = s.rtx
      /\ a.high = s.high /\ a.claims = s.claims
    BY <1>2, <1>3 DEF Sessions
<1> HIDE DEF a
<1>5. ClosesTo(a, t, TRUE)
    BY <1>4, CloseSessionFields
<1> HIDE DEF t
<1>6. Ended(s, t, TRUE)
    BY <1>4, <1>5 DEF ClosesTo, Ended
<1> QED BY <1>1, <1>6 DEF s

\* The inactivity event ends it too, or postpones that.
LEMMA InactiveFields ==
    ASSUME TypeInv, NEW e \in Engines, SessionInactive(e)
    PROVE  \E t : /\ Session(e, t) /\ Ended(ssr[e], t, QueueEmpty(e))
<1> DEFINE s == ssr[e]
           a == [s EXCEPT !.alive = FALSE]
           q == QueueEmpty(e)
           t == CloseSession(a, q)
<1>1. Session(e, t)
    BY DEF SessionInactive
<1>2. s \in Sessions /\ q \in BOOLEAN
    BY DEF TypeInv, SessionsType, QueueEmpty
<1> HIDE DEF s
<1>3. /\ a \in Sessions
      /\ a.active = s.active /\ a.redDone = s.redDone /\ a.rp = s.rp /\ a.rtx = s.rtx
      /\ a.high = s.high /\ a.claims = s.claims /\ a.closed = s.closed /\ a.timer = s.timer /\ ~a.alive
      /\ a.closing = s.closing
    BY <1>2 DEF Sessions
<1> HIDE DEF a, q
<1>4. ClosesTo(a, t, q)
    BY <1>2, <1>3, CloseSessionFields
<1> HIDE DEF t
<1>5. Ended(s, t, q)
    BY <1>3, <1>4 DEF ClosesTo, Ended
<1> QED BY <1>1, <1>5 DEF s, q

----------------------------------------------------------------------------
(* Every step keeps the types.                                             *)

\* What leaves everything but one record alone.
LEMMA RecordOnly ==
    ASSUME TypeInv, NEW e \in Engines, NEW t \in Sessions, Session(e, t),
           t.rtx <= (IF e = "snd" THEN CpRtxLimit ELSE RpRtxLimit),
           UNCHANGED <<ops, app, linkUp, sending, wire, losses, red, delivered, handed, crashed>>
    PROVE  TypeInv'
<1>1. SessionsType'
    BY SessionType DEF TypeInv
<1> QED BY <1>1 DEF TypeInv, QueuesType, WireType, BuffersType

\* A postponed close, and the inactivity event.
LEMMA EndedType ==
    ASSUME TypeInv, NEW e \in Engines, ClosePostponed(e) \/ SessionInactive(e)
    PROVE  TypeInv'
<1>1. \E t, q : Session(e, t) /\ Ended(ssr[e], t, q)
    BY PostponedFields, InactiveFields
<1>2. PICK t, q : Session(e, t) /\ Ended(ssr[e], t, q)
    BY <1>1
<1>3. t \in Sessions /\ t.rtx = ssr[e].rtx
    BY <1>2 DEF Ended
<1>4. ssr[e].rtx <= IF e = "snd" THEN CpRtxLimit ELSE RpRtxLimit
    BY DEF TypeInv, SessionsType, Engines
<1>5. UNCHANGED <<ops, app, linkUp, sending, wire, losses, red, delivered, handed, crashed>>
    BY DEF ClosePostponed, SessionInactive
<1> QED BY <1>2, <1>3, <1>4, <1>5, RecordOnly

\* A segment of the red part goes into the red buffer.
LEMMA RedStored ==
    ASSUME NEW f \in RedBuffers, NEW seg \in Segs, seg.type \in RedTypes
    PROVE  Insert(f, seg.off, [len |-> seg.len, type |-> seg.type]) \in RedBuffers
<1> DEFINE V == [len : 1 .. Capacity, type : RedTypes]
           v == [len |-> seg.len, type |-> seg.type]
           g == Insert(f, seg.off, v)
<1>1. PICK D \in SUBSET (0 .. BlockLen - 1) : f \in [D -> V]
    BY DEF RedBuffers, Buffers
<1>0. \A o \in DOMAIN f : o + f[o].len <= BlockLen
    BY DEF RedBuffers
<1>2. v \in V /\ seg.off \in 0 .. BlockLen - 1 /\ seg.off + v.len <= BlockLen
    BY LtpSessionAssumption, CapacityAssumption DEF Segs
<1> HIDE DEF V, v
<1>3. g \in [D \union {seg.off} -> V]
    BY <1>1, <1>2 DEF Insert
<1>4. D \union {seg.off} \in SUBSET (0 .. BlockLen - 1)
    BY <1>2
<1>a. \A o \in DOMAIN g : o + g[o].len <= BlockLen
    BY <1>0, <1>2 DEF Insert
<1> HIDE DEF g
<1>5. g \in UNION {[E -> V] : E \in SUBSET (0 .. BlockLen - 1)}
    BY <1>3, <1>4
<1>6. g \in Buffers
    BY <1>5 DEF Buffers, V
<1> QED BY <1>6, <1>a DEF RedBuffers, g, v

\* Nothing is in an empty buffer.
LEMMA RedEmpty == [o \in {} |-> 0] \in RedBuffers
<1> DEFINE V == [len : 1 .. Capacity, type : RedTypes]
<1> HIDE DEF V
<1>1. [o \in {} |-> 0] \in [{} -> V]
    OBVIOUS
<1>2. {} \in SUBSET (0 .. BlockLen - 1)
    OBVIOUS
<1>3. [o \in {} |-> 0] \in UNION {[D -> V] : D \in SUBSET (0 .. BlockLen - 1)}
    BY <1>1, <1>2
<1> QED BY <1>3 DEF RedBuffers, Buffers, V

\* Every unit is counted when it is handed up.
LEMMA HandUpType ==
    ASSUME NEW seg, NEW stored, handed \in [0 .. BlockLen - 1 -> Nat], handed' = HandUp(seg, stored)
    PROVE  handed' \in [0 .. BlockLen - 1 -> Nat]
<1>1. handed' = [u \in 0 .. BlockLen - 1 |-> handed[u] +
                    IF u \in seg.off .. seg.off + seg.len - 1 THEN 1 ELSE 0]
    BY DEF HandUp
<1>2. ASSUME NEW u \in 0 .. BlockLen - 1
      PROVE  handed[u] + (IF u \in seg.off .. seg.off + seg.len - 1 THEN 1 ELSE 0) \in Nat
    <2>1. handed[u] \in Nat
        OBVIOUS
    <2> QED BY <2>1
<1> QED BY <1>1, <1>2

\* The record the transmission starts with.
FirstRecord == [NewSession(NoSerial) EXCEPT !.fullGreen = (RedLen = 0)]

\* Nothing is done, claimed or scheduled in the first record.
LEMMA FirstRecordFields ==
    /\ FirstRecord \in Sessions
    /\ FirstRecord.active /\ ~FirstRecord.redDone /\ ~FirstRecord.blockDone
    /\ ~FirstRecord.closed /\ ~FirstRecord.alive /\ FirstRecord.timer = {}
    /\ FirstRecord.rtx = 0 /\ FirstRecord.closing = 0
    /\ \A n : ClaimsOf(FirstRecord, n) = NoClaims
<1> DEFINE s == NewSession(NoSerial)
           b == RedLen = 0
           t == [s EXCEPT !.fullGreen = b]
<1>1. b \in BOOLEAN
    OBVIOUS
<1>2. s \in Sessions
    BY NewSessionType DEF NoSerial
<1>3. /\ s.active /\ ~s.redDone /\ ~s.blockDone /\ ~s.closed /\ ~s.alive /\ s.timer = {}
      /\ s.rtx = 0 /\ s.closing = 0 /\ s.claims = [n \in {} |-> NoClaims]
    BY DEF NewSession
<1> HIDE DEF b, s
<1>4. /\ t \in Sessions
      /\ t.active = s.active /\ t.redDone = s.redDone /\ t.blockDone = s.blockDone
      /\ t.closed = s.closed /\ t.alive = s.alive /\ t.timer = s.timer /\ t.rtx = s.rtx
      /\ t.closing = s.closing /\ t.claims = s.claims
    BY <1>1, <1>2 DEF Sessions
<1>5. FirstRecord = t
    BY DEF FirstRecord, b, s
<1> HIDE DEF t
<1>6. \A n : ClaimsOf(t, n) = NoClaims
    BY <1>3, <1>4 DEF ClaimsOf
<1> QED BY <1>3, <1>4, <1>5, <1>6

\* The start of the transmission.
LEMMA StartType == TypeInv /\ StartTransmission => TypeInv'
<1> SUFFICES ASSUME TypeInv, StartTransmission PROVE TypeInv'
    OBVIOUS
<1> DEFINE t == FirstRecord
           block == EncapsulateBlockData(RedLen, BlockLen, 0, 0, NoSerial)
<1>1. /\ Session("snd", t) /\ Enqueue("snd", <<>>, block)
      /\ UNCHANGED <<linkUp, wire, losses, red, delivered, handed, crashed>>
    BY DEF StartTransmission, FirstRecord
<1>2. t \in Sessions /\ t.rtx = 0
    BY FirstRecordFields
<1>3. <<>> \in Seq(Acks) /\ block \in Seq(Segs)
    BY BlockInSegs
<1> HIDE DEF t, block
<1>4. QueuesType'
    BY <1>1, <1>3, EnqueueType DEF TypeInv, Engines
<1>5. SessionsType'
    BY <1>1, <1>2, SessionType, LtpSessionAssumption DEF TypeInv, Engines
<1> QED BY <1>1, <1>4, <1>5 DEF TypeInv, WireType, BuffersType

\* What kills the simulator changes nothing else.
LEMMA CrashType == ASSUME TypeInv, NEW e \in Engines, Crash(e) PROVE TypeInv'
BY DEF Crash, TypeInv, SessionsType, QueuesType, WireType, BuffersType

\* What is dropped leaves the path and nothing else.
LEMMA DroppedType ==
    ASSUME TypeInv, NEW e \in Engines, Dropped(e), wire[e] # <<>>
    PROVE  TypeInv'
<1>1. WireType'
    BY ConsumeType DEF TypeInv, Dropped
<1> QED BY <1>1 DEF Dropped, TypeInv, SessionsType, QueuesType, BuffersType

\* A report.
LEMMA ReportType == TypeInv /\ ReceiveReport => TypeInv'
<1> SUFFICES ASSUME TypeInv, ReceiveReport PROVE TypeInv'
    OBVIOUS
<1>1. PICK seg \in Reports : wire["snd"] # <<>> /\ ReportTaken(seg)
    BY ReportCases
<1> DEFINE filed == StoreClaims(ClaimsOf(ssr["snd"], seg.rp), seg.claims)
<1>2. CASE Dropped("snd")
    BY <1>1, <1>2, DroppedType DEF Engines
<1>3. CASE Crash("snd")
    BY <1>3, CrashType DEF Engines
<1>4. ASSUME NEW t, NEW again, ReportHandled(seg, filed, t, again) PROVE TypeInv'
    <2> HIDE DEF filed
    <2>1. /\ t \in Sessions /\ t.rtx <= CpRtxLimit /\ again \in Seq(Segs)
          /\ Consume("snd") /\ Enqueue("snd", <<ReportAck(seg.rp)>>, again) /\ Session("snd", t)
          /\ UNCHANGED <<linkUp, losses, red, delivered, handed, crashed>>
        BY <1>4 DEF ReportHandled, Reported
    <2>2. <<ReportAck(seg.rp)>> \in Seq(Acks)
        <3>1. ReportAck(seg.rp) \in Acks
            BY DEF ReportAck, Acks, Reports
        <3> QED BY <3>1
    <2> DEFINE ack == <<ReportAck(seg.rp)>>
    <2>3. ack \in Seq(Acks) /\ Enqueue("snd", ack, again)
        BY <2>1, <2>2
    <2> HIDE DEF ack
    <2>4. QueuesType'
        BY <2>1, <2>3, EnqueueType DEF TypeInv, Engines
    <2>5. SessionsType'
        BY <2>1, SessionType DEF TypeInv, Engines
    <2>6. WireType'
        BY <1>1, <2>1, ConsumeType DEF TypeInv, Engines
    <2> QED BY <2>1, <2>4, <2>5, <2>6 DEF TypeInv, BuffersType
<1> QED BY <1>1, <1>2, <1>3, <1>4 DEF ReportTaken

\* The expiry of the checkpoint timer.
LEMMA CheckpointType == TypeInv /\ CheckpointTimeout => TypeInv'
<1> SUFFICES ASSUME TypeInv, CheckpointTimeout PROVE TypeInv'
    OBVIOUS
<1>1. PICK info \in ssr["snd"].timer : Crash("snd") \/ \E t, again : CheckpointHandled(info, t, again)
    BY CheckpointCases
<1>2. CASE Crash("snd")
    BY <1>2, CrashType DEF Engines
<1>3. ASSUME NEW t, NEW again, CheckpointHandled(info, t, again) PROVE TypeInv'
    <2>1. /\ t \in Sessions /\ t.rtx <= CpRtxLimit /\ again \in Seq(Segs)
          /\ Enqueue("snd", <<>>, again) /\ Session("snd", t)
          /\ UNCHANGED <<linkUp, wire, losses, red, delivered, handed, crashed>>
        BY <1>3 DEF CheckpointHandled, TimedOut
    <2>2. <<>> \in Seq(Acks)
        OBVIOUS
    <2>3. QueuesType'
        BY <2>1, <2>2, EnqueueType DEF TypeInv, Engines
    <2>4. SessionsType'
        BY <2>1, SessionType DEF TypeInv, Engines
    <2> QED BY <2>1, <2>3, <2>4 DEF TypeInv, WireType, BuffersType
<1> QED BY <1>1, <1>2, <1>3

\* A data segment.
LEMMA DataType == TypeInv /\ ReceiveData => TypeInv'
<1> SUFFICES ASSUME TypeInv, ReceiveData PROVE TypeInv'
    OBVIOUS
<1>1. PICK seg \in Segs :
          /\ wire["rcv"] # <<>>
          /\ Dropped("rcv") \/ DataRefused(seg) \/ \E t, stored, report : DataHandled(seg, t, stored, report)
    BY DataCases
<1>2. CASE Dropped("rcv")
    BY <1>1, <1>2, DroppedType DEF Engines
<1>4. CASE DataRefused(seg)
    BY <1>4, CrashType DEF DataRefused, Engines
<1>3. ASSUME NEW t, NEW stored, NEW report, DataHandled(seg, t, stored, report) PROVE TypeInv'
    <2>1. /\ t \in Sessions /\ t.rtx = DataRecord.rtx /\ report \in Seq(Reports)
          /\ Consume("rcv") /\ Session("rcv", t) /\ Enqueue("rcv", report, <<>>)
          /\ stored => seg.type \in RedTypes
          /\ red' = (IF stored THEN Insert(red, seg.off, [len |-> seg.len, type |-> seg.type]) ELSE red)
          /\ handed' = HandUp(seg, stored)
          /\ UNCHANGED <<linkUp, losses, crashed>>
        BY <1>3 DEF DataHandled, DataRecorded
    <2>2. DataRecord.rtx <= RpRtxLimit
        BY NewSessionType, LtpSessionAssumption DEF DataRecord, TypeInv, SessionsType
    <2>3. QueuesType'
        BY <2>1, EnqueueType DEF TypeInv, Engines
    <2>4. SessionsType'
        BY <2>1, <2>2, SessionType DEF TypeInv, Engines
    <2>5. WireType'
        BY <1>1, <2>1, ConsumeType DEF TypeInv, Engines
    <2>6. red' \in RedBuffers
        BY <2>1, RedStored DEF TypeInv, BuffersType
    <2>7. handed' \in [0 .. BlockLen - 1 -> Nat]
        BY <2>1, HandUpType DEF TypeInv, BuffersType
    <2> QED BY <2>1, <2>3, <2>4, <2>5, <2>6, <2>7 DEF TypeInv, BuffersType
<1> QED BY <1>1, <1>2, <1>3, <1>4

\* An acknowledgment.
LEMMA AckType == TypeInv /\ ReceiveReportAck => TypeInv'
<1> SUFFICES ASSUME TypeInv, ReceiveReportAck PROVE TypeInv'
    OBVIOUS
<1>1. PICK seg \in Acks :
          /\ wire["rcv"] # <<>>
          /\ Dropped("rcv") \/ \E t, done : AckHandled(seg, t, done)
    BY AckCases
<1>2. CASE Dropped("rcv")
    BY <1>1, <1>2, DroppedType DEF Engines
<1>3. ASSUME NEW t, NEW done, AckHandled(seg, t, done) PROVE TypeInv'
    <2>1. /\ t \in Sessions /\ t.rtx = ssr["rcv"].rtx
          /\ Consume("rcv") /\ Session("rcv", t)
          /\ red' = red \/ red' = [o \in {} |-> 0]
          /\ UNCHANGED <<ops, app, linkUp, sending, losses, handed, crashed>>
        BY <1>3 DEF AckHandled, AckRecorded
    <2>2. ssr["rcv"].rtx <= RpRtxLimit
        BY DEF TypeInv, SessionsType
    <2>3. SessionsType'
        BY <2>1, <2>2, SessionType DEF TypeInv, Engines
    <2>4. WireType'
        BY <1>1, <2>1, ConsumeType DEF TypeInv, Engines
    <2>5. red' \in RedBuffers
        BY <2>1, RedEmpty DEF TypeInv, BuffersType
    <2> QED BY <2>1, <2>3, <2>4, <2>5 DEF TypeInv, BuffersType, QueuesType
<1> QED BY <1>1, <1>2, <1>3

\* The expiry of the report timer.
LEMMA ReportTimeoutType == TypeInv /\ ReportTimeout => TypeInv'
<1> SUFFICES ASSUME TypeInv, ReportTimeout PROVE TypeInv'
    OBVIOUS
<1>0. CASE ReportRefused
    BY <1>0, CrashType DEF ReportRefused, Engines
<1> SUFFICES ASSUME NEW t, NEW again, ReportRepeated(t, again) PROVE TypeInv'
    BY <1>0, ReportTimeoutCases
<1>1. ReportRepeated(t, again)
    OBVIOUS
<1>2. /\ t \in Sessions /\ t.rtx <= RpRtxLimit /\ again \in Seq(Reports)
      /\ Enqueue("rcv", again, <<>>) /\ Session("rcv", t)
      /\ UNCHANGED <<linkUp, wire, losses, red, delivered, handed, crashed>>
    BY <1>1 DEF ReportRepeated, TimedOut
<1>3. QueuesType'
    BY <1>2, EnqueueType DEF TypeInv, Engines
<1>4. SessionsType'
    BY <1>2, SessionType DEF TypeInv, Engines
<1> QED BY <1>2, <1>3, <1>4 DEF TypeInv, WireType, BuffersType

\* Send, and the link that comes up.
LEMMA SendType == ASSUME TypeInv, NEW e \in Engines, Send(e) \/ SetLinkUp(e) PROVE TypeInv'
<1>1. /\ Transmit(e) /\ linkUp' \in [Engines -> BOOLEAN]
      /\ UNCHANGED <<losses, red, handed, crashed>>
    BY DEF Send, SetLinkUp, TypeInv, QueuesType
<1>2. SessionsType' /\ QueuesType' /\ WireType'
    BY <1>1, TransmitType
<1> QED BY <1>1, <1>2 DEF TypeInv, BuffersType

\* A loss.
LEMMA LoseType == ASSUME TypeInv, NEW e \in Engines, Lose(e) PROVE TypeInv'
<1>1. WireType'
    BY ConsumeType DEF Lose, TypeInv
<1>2. losses' \in 0 .. MaxLoss
    BY LtpSessionAssumption DEF Lose, TypeInv
<1> QED BY <1>1, <1>2 DEF Lose, TypeInv, SessionsType, QueuesType, BuffersType

\* Every step.
LEMMA NextType == TypeInv /\ [Next]_vars => TypeInv'
<1> SUFFICES ASSUME TypeInv, [Next]_vars PROVE TypeInv'
    OBVIOUS
<1>1. CASE UNCHANGED vars
    BY <1>1 DEF vars, TypeInv, SessionsType, QueuesType, WireType, BuffersType
<1>2. ASSUME NEW e \in Engines, SetLinkUp(e) \/ Send(e) PROVE TypeInv'
    BY <1>2, SendType
<1>3. ASSUME NEW e \in Engines, ClosePostponed(e) \/ SessionInactive(e) PROVE TypeInv'
    BY <1>3, EndedType
<1>4. ASSUME NEW e \in Engines, Lose(e) PROVE TypeInv'
    BY <1>4, LoseType
<1> QED BY <1>1, <1>2, <1>3, <1>4, StartType, ReportType, CheckpointType, DataType,
           AckType, ReportTimeoutType DEF Next, Event

\* In every state the records, the segments and the buffers are what the
\* code makes them: a retransmission counter never passes its attribute, and
\* nothing is claimed, sent or stored outside the block.
THEOREM SessionTypes == Spec => []TypeOK
<1> QED BY InitType, NextType, TypeInvImplies, PTL DEF Spec

----------------------------------------------------------------------------
(* What is still to come of a block.                                       *)

\* No segment of a queue has one of the types.
Without(q, types) == \A i \in DOMAIN q : q[i].type \notin types

\* Behind place i of a queue there is the end of the green part, with no red
\* end of the block before it.
EndsGreen(q, i) ==
    \E j \in DOMAIN q :
        /\ j > i /\ q[j].type = "GD_EOB"
        /\ \A k \in DOMAIN q : i < k /\ k < j => q[k].type # "RD_CP_EORP_EOB"

\* Behind every end of the red part there is the end of the green part.
RedEndsGreen(q) == \A i \in DOMAIN q : q[i].type = "RD_CP_EORP" => EndsGreen(q, i)

\* Indices of the tail of a queue.
LEMMA TailAt ==
    ASSUME NEW S, NEW q \in Seq(S), q # <<>>
    PROVE  /\ DOMAIN Tail(q) = 1 .. Len(q) - 1 /\ DOMAIN q = 1 .. Len(q) /\ Len(q) \in Nat \ {0}
           /\ \A i \in 1 .. Len(q) - 1 : Tail(q)[i] = q[i + 1]
           /\ Head(q) = q[1]
OBVIOUS

\* Indices of two queues in a row.
LEMMA JoinedAt ==
    ASSUME NEW S, NEW q \in Seq(S), NEW r \in Seq(S)
    PROVE  /\ DOMAIN (q \o r) = 1 .. Len(q) + Len(r)
           /\ DOMAIN q = 1 .. Len(q) /\ DOMAIN r = 1 .. Len(r)
           /\ Len(q) \in Nat /\ Len(r) \in Nat
           /\ \A i \in 1 .. Len(q) : (q \o r)[i] = q[i]
           /\ \A i \in Len(q) + 1 .. Len(q) + Len(r) : (q \o r)[i] = r[i - Len(q)]
OBVIOUS

\* The types a queue is without.
LEMMA WithoutTail ==
    ASSUME NEW S, NEW q \in Seq(S), q # <<>>, NEW types, Without(q, types)
    PROVE  Without(Tail(q), types) /\ Head(q).type \notin types
<1>1. /\ DOMAIN Tail(q) = 1 .. Len(q) - 1 /\ DOMAIN q = 1 .. Len(q) /\ Len(q) \in Nat \ {0}
      /\ \A i \in 1 .. Len(q) - 1 : Tail(q)[i] = q[i + 1]
      /\ Head(q) = q[1]
    BY TailAt
<1>2. ASSUME NEW i \in DOMAIN Tail(q) PROVE Tail(q)[i].type \notin types
    <2>1. i + 1 \in DOMAIN q /\ Tail(q)[i] = q[i + 1]
        BY <1>1
    <2> QED BY <2>1 DEF Without
<1>3. 1 \in DOMAIN q
    BY <1>1
<1> QED BY <1>1, <1>2, <1>3 DEF Without

\* Appending a segment of another type.
LEMMA WithoutAppended ==
    ASSUME NEW S, NEW q \in Seq(S), NEW m \in S, NEW types, Without(q, types), m.type \notin types
    PROVE  Without(Append(q, m), types)
<1>1. /\ DOMAIN Append(q, m) = 1 .. Len(q) + 1 /\ DOMAIN q = 1 .. Len(q) /\ Len(q) \in Nat
      /\ \A i \in 1 .. Len(q) : Append(q, m)[i] = q[i]
      /\ Append(q, m)[Len(q) + 1] = m
    OBVIOUS
<1>2. ASSUME NEW i \in 1 .. Len(q) + 1 PROVE Append(q, m)[i].type \notin types
    <2>1. CASE i = Len(q) + 1
        BY <1>1, <2>1
    <2>2. CASE i \in 1 .. Len(q)
        BY <1>1, <2>2 DEF Without
    <2> QED BY <1>1, <2>1, <2>2
<1> QED BY <1>1, <1>2 DEF Without

\* The end of the green part draws nearer.
LEMMA EndsGreenTail ==
    ASSUME NEW S, NEW q \in Seq(S), q # <<>>, NEW i \in Nat, EndsGreen(q, i + 1)
    PROVE  EndsGreen(Tail(q), i)
<1>1. /\ DOMAIN Tail(q) = 1 .. Len(q) - 1 /\ DOMAIN q = 1 .. Len(q) /\ Len(q) \in Nat \ {0}
      /\ \A k \in 1 .. Len(q) - 1 : Tail(q)[k] = q[k + 1]
    BY TailAt
<1>2. PICK j \in DOMAIN q :
          /\ j > i + 1 /\ q[j].type = "GD_EOB"
          /\ \A k \in DOMAIN q : i + 1 < k /\ k < j => q[k].type # "RD_CP_EORP_EOB"
    BY DEF EndsGreen
<1>3. j \in Nat /\ j - 1 \in 1 .. Len(q) - 1 /\ j - 1 > i /\ (j - 1) + 1 = j
    BY <1>1, <1>2
<1>4. Tail(q)[j - 1].type = "GD_EOB"
    BY <1>1, <1>2, <1>3
<1>5. ASSUME NEW k \in DOMAIN Tail(q), i < k, k < j - 1 PROVE Tail(q)[k].type # "RD_CP_EORP_EOB"
    <2>1. k + 1 \in DOMAIN q /\ i + 1 < k + 1 /\ k + 1 < j /\ Tail(q)[k] = q[k + 1]
        BY <1>1, <1>3, <1>5
    <2> QED BY <1>2, <2>1
<1> QED BY <1>1, <1>3, <1>4, <1>5 DEF EndsGreen

\* What is first in the queue is not the red end of the block.
LEMMA EndsGreenHead ==
    ASSUME NEW S, NEW q \in Seq(S), EndsGreen(q, 0)
    PROVE  /\ q # <<>> /\ Head(q).type # "RD_CP_EORP_EOB"
           /\ Head(q).type # "GD_EOB" => EndsGreen(Tail(q), 0)
<1>1. PICK j \in DOMAIN q :
          /\ j > 0 /\ q[j].type = "GD_EOB"
          /\ \A k \in DOMAIN q : 0 < k /\ k < j => q[k].type # "RD_CP_EORP_EOB"
    BY DEF EndsGreen
<1>2. q # <<>>
    BY <1>1
<1>3. DOMAIN q = 1 .. Len(q) /\ Len(q) \in Nat \ {0} /\ Head(q) = q[1]
    BY <1>2, TailAt
<1>4. Head(q).type # "RD_CP_EORP_EOB"
    <2>1. CASE j = 1
        BY <1>1, <1>3, <2>1
    <2>2. CASE j # 1
        <3>1. 1 \in DOMAIN q /\ 0 < 1 /\ 1 < j
            BY <1>3, <2>2
        <3> QED BY <1>1, <1>3, <3>1
    <2> QED BY <2>1, <2>2
<1>5. ASSUME Head(q).type # "GD_EOB" PROVE EndsGreen(Tail(q), 0)
    <2>1. j # 1
        BY <1>1, <1>3, <1>5
    <2>2. j > 0 + 1 /\ \A k \in DOMAIN q : 0 + 1 < k /\ k < j => q[k].type # "RD_CP_EORP_EOB"
        BY <1>1, <1>3, <2>1
    <2>3. EndsGreen(q, 0 + 1)
        BY <1>1, <2>2 DEF EndsGreen
    <2> QED BY <1>2, <2>3, EndsGreenTail
<1> QED BY <1>2, <1>4, <1>5

\* What is queued behind it does not matter.
LEMMA EndsGreenJoined ==
    ASSUME NEW S, NEW q \in Seq(S), NEW r \in Seq(S), NEW i \in Nat, EndsGreen(q, i)
    PROVE  EndsGreen(q \o r, i)
<1>1. /\ DOMAIN (q \o r) = 1 .. Len(q) + Len(r)
      /\ DOMAIN q = 1 .. Len(q) /\ Len(q) \in Nat /\ Len(r) \in Nat
      /\ \A k \in 1 .. Len(q) : (q \o r)[k] = q[k]
    BY JoinedAt
<1>2. PICK j \in DOMAIN q :
          /\ j > i /\ q[j].type = "GD_EOB"
          /\ \A k \in DOMAIN q : i < k /\ k < j => q[k].type # "RD_CP_EORP_EOB"
    BY DEF EndsGreen
<1>3. j \in DOMAIN (q \o r) /\ (q \o r)[j].type = "GD_EOB"
    BY <1>1, <1>2
<1>4. ASSUME NEW k \in DOMAIN (q \o r), i < k, k < j PROVE (q \o r)[k].type # "RD_CP_EORP_EOB"
    <2>1. k \in DOMAIN q /\ (q \o r)[k] = q[k]
        BY <1>1, <1>4
    <2> QED BY <1>2, <1>4, <2>1
<1> QED BY <1>2, <1>3, <1>4 DEF EndsGreen

\* The end of a red part that is first is followed by the green one.
LEMMA RedEndsGreenTail ==
    ASSUME NEW S, NEW q \in Seq(S), q # <<>>, RedEndsGreen(q)
    PROVE  /\ RedEndsGreen(Tail(q))
           /\ Head(q).type = "RD_CP_EORP" => EndsGreen(Tail(q), 0)
<1>1. /\ DOMAIN Tail(q) = 1 .. Len(q) - 1 /\ DOMAIN q = 1 .. Len(q) /\ Len(q) \in Nat \ {0}
      /\ \A k \in 1 .. Len(q) - 1 : Tail(q)[k] = q[k + 1]
      /\ Head(q) = q[1]
    BY TailAt
<1>2. ASSUME NEW i \in DOMAIN Tail(q), Tail(q)[i].type = "RD_CP_EORP" PROVE EndsGreen(Tail(q), i)
    <2>1. i \in Nat /\ i + 1 \in DOMAIN q /\ q[i + 1].type = "RD_CP_EORP"
        BY <1>1, <1>2
    <2>2. EndsGreen(q, i + 1)
        BY <2>1 DEF RedEndsGreen
    <2> QED BY <2>1, <2>2, EndsGreenTail
<1>3. ASSUME Head(q).type = "RD_CP_EORP" PROVE EndsGreen(Tail(q), 0)
    <2>1. EndsGreen(q, 0 + 1)
        BY <1>1, <1>3 DEF RedEndsGreen
    <2> QED BY <2>1, EndsGreenTail
<1> QED BY <1>2, <1>3 DEF RedEndsGreen

\* A block that is cut in full goes on behind a red part that ends in it: up
\* to the end of the green part no other end of a red part follows.
LEMMA CutEndsGreen ==
    ASSUME NEW L \in Nat \ {0}, NEW R \in 0 .. L, NEW offset, NEW n, CutAt(offset, n, R, L, 0)
    PROVE  LET segs == SegmentsAt(offset, n, R, L, 0, NoSerial)
           IN  Without(segs, {"RD_CP"}) /\ RedEndsGreen(segs)
<1> DEFINE segs == SegmentsAt(offset, n, R, L, 0, NoSerial)
<1>0. R \in Nat
    OBVIOUS
<1>1. /\ n \in Nat \ {0} /\ n \in 1 .. n
      /\ \A i \in 1 .. n : /\ offset[i] \in Nat /\ offset[i] < L
                           /\ offset[i + 1] = offset[i] + SegmentLength(R, L, offset[i])
    BY DEF CutAt
<1>2. DOMAIN segs = 1 .. n
    BY DEF SegmentsAt
<1>3. ASSUME NEW i \in 1 .. n
      PROVE  segs[i].type = SegmentType(R, L, 0, NoSerial, RedEnded(offset, R, i), offset[i])
    <2>1. CutInto(segs, offset, n, R, L, 0, NoSerial)
        BY <1>0, SegmentFields
    <2> HIDE DEF segs
    <2> QED BY <2>1 DEF CutInto
<1>4. \A i \in 1 .. n : EndsBlock(R, L, offset[i]) <=> (i = n /\ R < L)
    BY BlockSegments
<1> HIDE DEF segs
<1>5. Without(segs, {"RD_CP"})
    <2>1. ASSUME NEW i \in 1 .. n PROVE segs[i].type # "RD_CP"
        BY <1>3 DEF SegmentType, AsksReport
    <2> QED BY <1>2, <2>1 DEF Without
<1>6. ASSUME NEW i \in 1 .. n, segs[i].type = "RD_CP_EORP" PROVE EndsGreen(segs, i)
    <2>1. /\ EndsRed(R, offset[i]) /\ ~(offset[i] + Capacity >= L) /\ ~EndsBlock(R, L, offset[i])
        BY <1>3, <1>6 DEF SegmentType
    <2>2. R < L /\ offset[i + 1] = R
        <3>1. SegmentLength(R, L, offset[i]) = R - offset[i]
            BY <2>1 DEF SegmentLength
        <3>2. offset[i] \in Nat /\ offset[i + 1] = offset[i] + (R - offset[i])
            BY <1>1, <3>1
        <3> QED BY <2>1, <3>2, CapacityAssumption DEF EndsRed
    <2>3. i < n
        <3>1. i # n
            BY <1>4, <2>1, <2>2
        <3> QED BY <1>1, <3>1
    <2>4. segs[n].type = "GD_EOB"
        <3>1. EndsBlock(R, L, offset[n])
            BY <1>1, <1>4, <2>2
        <3> QED BY <1>1, <1>3, <3>1 DEF SegmentType
    <2> DEFINE S == {m \in Nat : i + 1 + m <= n => offset[i + 1 + m] >= R}
    <2>5. 0 \in S
        BY <2>2
    <2>6. ASSUME NEW m \in Nat, m \in S PROVE m + 1 \in S
        <3> SUFFICES ASSUME i + 1 + (m + 1) <= n PROVE offset[i + 1 + (m + 1)] >= R
            OBVIOUS
        <3> DEFINE k == i + 1 + m
        <3>1. k \in 1 .. n /\ i + 1 + (m + 1) = k + 1
            BY <1>1
        <3>2. offset[k] >= R
            BY <2>6, <3>1
        <3> HIDE DEF k
        <3>3. offset[k] \in Nat /\ offset[k] < L /\ offset[k + 1] = offset[k] + SegmentLength(R, L, offset[k])
            BY <1>1, <3>1
        <3>4. SegmentLength(R, L, offset[k]) \in 1 .. Capacity
            <4> DEFINE o == offset[k]
            <4>1. o \in Int /\ o < L /\ L \in Nat
                BY <3>3
            <4> HIDE DEF o
            <4> QED BY <1>0, <4>1, SegmentLengthPositive DEF o
        <3> QED BY <3>1, <3>2, <3>3, <3>4, CapacityAssumption
    <2> HIDE DEF S
    <2>7. Nat \subseteq S
        BY <2>5, <2>6, AllNat
    <2>8. ASSUME NEW k \in 1 .. n, i < k PROVE segs[k].type # "RD_CP_EORP_EOB"
        <3>1. k - i - 1 \in Nat /\ i + 1 + (k - i - 1) = k
            BY <2>8
        <3>2. k - i - 1 \in S
            BY <2>7, <3>1
        <3>3. offset[k] >= R
            BY <3>1, <3>2 DEF S
        <3>4. offset[k] \in Nat
            BY <1>1
        <3>5. ~EndsRed(R, offset[k])
            BY <3>3, <3>4 DEF EndsRed
        <3>6. segs[k].type = SegmentType(R, L, 0, NoSerial, RedEnded(offset, R, k), offset[k])
            BY <1>3
        <3> QED BY <3>5, <3>6 DEF SegmentType
    <2> QED BY <1>1, <1>2, <2>3, <2>4, <2>8 DEF EndsGreen
<1>7. RedEndsGreen(segs)
    BY <1>2, <1>6 DEF RedEndsGreen
<1> QED BY <1>5, <1>7 DEF segs

\* So does the block as it is first queued.
LEMMA FirstBlock ==
    LET block == EncapsulateBlockData(RedLen, BlockLen, 0, 0, NoSerial)
    IN  Without(block, {"RD_CP"}) /\ RedEndsGreen(block)
<1>1. /\ BlockLen \in Nat \ {0} /\ RedLen \in 0 .. BlockLen /\ RedLen \in Nat
      /\ BlockLen = 0 + (IF 0 = 0 THEN BlockLen ELSE 0)
    BY LtpSessionAssumption
<1>2. PICK offset, n :
          /\ CutAt(offset, n, RedLen, BlockLen, 0)
          /\ EncapsulateBlockData(RedLen, BlockLen, 0, 0, NoSerial)
                = SegmentsAt(offset, n, RedLen, BlockLen, 0, NoSerial)
    BY <1>1, BlockIsCut DEF IsCut
<1> QED BY <1>1, <1>2, CutEndsGreen

----------------------------------------------------------------------------
(* A session that is closed.                                               *)

\* Nothing is queued by a closed engine, and nothing will wake it.
ClosedWell(s, queueEmpty) ==
    s.closed => queueEmpty /\ (s.closing = 0 => s.timer = {} /\ ~s.alive)

\* A sender that has nothing left to send or to learn has been told to close.
CloseUnderWay(s) == s.redDone /\ s.blockDone /\ ~s.closed => s.closing > 0

\* The receiver has not been asked for a report.
Unreported ==
    /\ ~ssr["snd"].redDone /\ ssr["snd"].timer = {} /\ ssr["rcv"].timer = {}
    /\ wire["snd"] = <<>> /\ ops["rcv"] = <<>>
    /\ Without(wire["rcv"], CheckpointTypes) /\ Without(app["snd"], {"RD_CP"})

\* The end of the block is still queued, and what comes before it will not
\* take the block as sent when the red part is done.
BlockOpen == \/ Unreported /\ RedEndsGreen(app["snd"])
             \/ EndsGreen(app["snd"], 0)

\* The client has handed no block down.
Untouched ==
    /\ Unreported /\ app["snd"] = <<>> /\ ops["snd"] = <<>>
    /\ ~ssr["snd"].closed /\ ssr["snd"].closing = 0 /\ ~ssr["snd"].alive
    /\ ~ssr["snd"].blockDone

\* What keeps a closed session quiet, with what it takes to stay so.
Closing ==
    /\ \A e \in Engines : ClosedWell(ssr[e], QueueEmpty(e))
    /\ CloseUnderWay(ssr["snd"])
    /\ ~ssr["snd"].active => Untouched
    /\ ssr["snd"].active /\ ~ssr["snd"].blockDone => BlockOpen

\* At first nothing is closed.
LEMMA InitClosing == Init => Closing
<1> SUFFICES ASSUME Init PROVE Closing
    OBVIOUS
<1>1. /\ ~NoSession.active /\ ~NoSession.closed /\ ~NoSession.redDone /\ ~NoSession.blockDone
      /\ NoSession.timer = {} /\ NoSession.closing = 0 /\ ~NoSession.alive
    BY DEF NoSession, NewSession
<1>2. \A e \in Engines : ssr[e] = NoSession /\ ops[e] = <<>> /\ app[e] = <<>> /\ wire[e] = <<>>
    BY DEF Init
<1>3. Without(wire["rcv"], CheckpointTypes) /\ Without(app["snd"], {"RD_CP"})
    BY <1>2 DEF Without, Engines
<1>4. Untouched
    BY <1>1, <1>2, <1>3 DEF Untouched, Unreported, Engines
<1> QED BY <1>1, <1>2, <1>4 DEF Closing, ClosedWell, CloseUnderWay, Engines

\* The queues after Enqueue, engine by engine.
LEMMA EnqueueAt ==
    ASSUME QueuesType, NEW e \in Engines, NEW newOps, NEW newApp, Enqueue(e, newOps, newApp)
    PROVE  /\ ops'[e] = ops[e] \o newOps /\ app'[e] = app[e] \o newApp
           /\ \A f \in Engines \ {e} : ops'[f] = ops[f] /\ app'[f] = app[f]
BY DEF Enqueue, QueuesType

\* What leaves the path was the first of it.
LEMMA ConsumeAt ==
    ASSUME WireType, NEW e \in Engines, Consume(e)
    PROVE  wire'[e] = Tail(wire[e]) /\ \A f \in Engines \ {e} : wire'[f] = wire[f]
BY DEF Consume, WireType

\* A step of the receiver, or of the path.
LEMMA ReceiverClosing ==
    ASSUME TypeInv, Closing, ssr'["snd"] = ssr["snd"], ops'["snd"] = ops["snd"],
           app'["snd"] = app["snd"], ClosedWell(ssr["rcv"], QueueEmpty("rcv"))',
           Unreported => Unreported'
    PROVE  Closing'
<1>1. QueueEmpty("snd")' = QueueEmpty("snd")
    BY DEF QueueEmpty
<1>2. \A e \in Engines : ClosedWell(ssr[e], QueueEmpty(e))'
    BY <1>1 DEF Closing, Engines, ClosedWell
<1>3. CloseUnderWay(ssr["snd"])'
    BY DEF Closing, CloseUnderWay
<1>4. ~ssr'["snd"].active => Untouched'
    BY DEF Closing, Untouched
<1>5. ssr'["snd"].active /\ ~ssr'["snd"].blockDone => BlockOpen'
    BY DEF Closing, BlockOpen, EndsGreen, RedEndsGreen
<1> QED BY <1>2, <1>3, <1>4, <1>5 DEF Closing

\* A step of the path alone.
LEMMA PathClosing ==
    ASSUME TypeInv, Closing, UNCHANGED <<ssr, ops, app>>, NEW e \in Engines,
           wire' = wire \/ (wire[e] # <<>> /\ Consume(e))
    PROVE  Closing'
<1>1. ClosedWell(ssr["rcv"], QueueEmpty("rcv"))'
    BY DEF Closing, QueueEmpty, ClosedWell, Engines
<1>2. Unreported => Unreported'
    <2>1. CASE wire' = wire
        BY <2>1 DEF Unreported, Without
    <2>2. CASE wire[e] # <<>> /\ Consume(e)
        <3> SUFFICES ASSUME Unreported PROVE Unreported'
            OBVIOUS
        <3>1. e = "rcv"
            BY <2>2 DEF Unreported, Engines
        <3>2. wire'["rcv"] = Tail(wire["rcv"]) /\ wire'["snd"] = wire["snd"]
            BY <2>2, <3>1, ConsumeAt DEF TypeInv, Engines
        <3>3. Without(wire'["rcv"], CheckpointTypes)
            BY <2>2, <3>1, <3>2, WithoutTail DEF Unreported, TypeInv, WireType
        <3> QED BY <3>2, <3>3 DEF Unreported
    <2> QED BY <2>1, <2>2
<1> QED BY <1>1, <1>2, ReceiverClosing

\* The start of the transmission.
LEMMA StartClosing == TypeInv /\ Closing /\ StartTransmission => Closing'
<1> SUFFICES ASSUME TypeInv, Closing, StartTransmission PROVE Closing'
    OBVIOUS
<1> DEFINE block == EncapsulateBlockData(RedLen, BlockLen, 0, 0, NoSerial)
<1>1. /\ ~ssr["snd"].active /\ Session("snd", FirstRecord) /\ Enqueue("snd", <<>>, block)
      /\ UNCHANGED <<linkUp, wire, losses, red, delivered, handed, crashed>>
    BY DEF StartTransmission, FirstRecord
<1>2. Untouched
    BY <1>1 DEF Closing
<1>3. block \in Seq(Segs) /\ Without(block, {"RD_CP"}) /\ RedEndsGreen(block)
    BY BlockInSegs, FirstBlock
<1> HIDE DEF block
<1>4. ssr'["snd"] = FirstRecord /\ ssr'["rcv"] = ssr["rcv"]
    BY <1>1 DEF Session, TypeInv, SessionsType, Engines
<1>5. /\ app'["snd"] = block /\ app'["rcv"] = app["rcv"] /\ ops'["rcv"] = ops["rcv"]
    <2>1. /\ app'["snd"] = app["snd"] \o block
          /\ app'["rcv"] = app["rcv"] /\ ops'["rcv"] = ops["rcv"]
        BY <1>1, EnqueueAt DEF TypeInv, Engines
    <2>2. app["snd"] = <<>>
        BY <1>2 DEF Untouched
    <2> QED BY <1>3, <2>1, <2>2
<1>6. /\ ~ssr'["snd"].redDone /\ ssr'["snd"].timer = {} /\ ssr'["snd"].active /\ ~ssr'["snd"].closed
    BY <1>4, FirstRecordFields
<1>7. BlockOpen'
    <2>1. Unreported'
        BY <1>1, <1>2, <1>3, <1>4, <1>5, <1>6 DEF Untouched, Unreported
    <2> QED BY <1>3, <1>5, <2>1 DEF BlockOpen
<1>8. \A e \in Engines : ClosedWell(ssr[e], QueueEmpty(e))'
    BY <1>4, <1>5, <1>6 DEF Closing, ClosedWell, QueueEmpty, Engines
<1> QED BY <1>6, <1>7, <1>8 DEF Closing, CloseUnderWay

\* A step of the sender while a report or its timer shows that it was asked.
LEMMA ReportedClosing ==
    ASSUME TypeInv, Closing, ~Unreported, ssr'["rcv"] = ssr["rcv"], ops'["rcv"] = ops["rcv"],
           app'["rcv"] = app["rcv"], ClosedWell(ssr["snd"], QueueEmpty("snd"))',
           CloseUnderWay(ssr["snd"])', ssr'["snd"].active = ssr["snd"].active,
           ssr["snd"].blockDone => ssr'["snd"].blockDone,
           NEW more \in Seq(Segs), app'["snd"] = app["snd"] \o more
    PROVE  Closing'
<1>1. ssr["snd"].active
    BY DEF Closing, Untouched
<1>2. \A e \in Engines : ClosedWell(ssr[e], QueueEmpty(e))'
    BY DEF Closing, ClosedWell, QueueEmpty, Engines
<1>3. ASSUME ~ssr'["snd"].blockDone PROVE BlockOpen'
    <2>1. EndsGreen(app["snd"], 0)
        BY <1>1, <1>3 DEF Closing, BlockOpen
    <2>2. app["snd"] \in Seq(Segs) /\ 0 \in Nat
        BY DEF TypeInv, QueuesType
    <2>3. EndsGreen(app["snd"] \o more, 0)
        BY <2>1, <2>2, EndsGreenJoined
    <2> QED BY <2>3 DEF BlockOpen
<1> QED BY <1>1, <1>2, <1>3 DEF Closing

\* A report.
LEMMA ReportClosing == TypeInv /\ Closing /\ ReceiveReport => Closing'
<1> SUFFICES ASSUME TypeInv, Closing, ReceiveReport PROVE Closing'
    OBVIOUS
<1>1. PICK seg \in Reports : wire["snd"] # <<>> /\ ReportTaken(seg)
    BY ReportCases
<1> DEFINE filed == StoreClaims(ClaimsOf(ssr["snd"], seg.rp), seg.claims)
<1>2. CASE Dropped("snd")
    BY <1>1, <1>2, PathClosing DEF Dropped, Engines
<1>3. CASE Crash("snd")
    BY <1>3, PathClosing DEF Crash, Engines
<1>4. ASSUME NEW t, NEW again, ReportHandled(seg, filed, t, again) PROVE Closing'
    <2> HIDE DEF filed
    <2> DEFINE ack == <<ReportAck(seg.rp)>>
    <2>1. /\ ~ssr["snd"].closed /\ t.closed = ssr["snd"].closed /\ again \in Seq(Segs)
          /\ t.active = ssr["snd"].active /\ t.blockDone = ssr["snd"].blockDone
          /\ t.closing = (IF t.redDone /\ t.blockDone THEN ssr["snd"].closing + 1 ELSE ssr["snd"].closing)
          /\ Enqueue("snd", ack, again) /\ Session("snd", t)
        BY <1>4 DEF ReportHandled, Reported
    <2> HIDE DEF ack
    <2>2. /\ app'["snd"] = app["snd"] \o again
          /\ app'["rcv"] = app["rcv"] /\ ops'["rcv"] = ops["rcv"]
        BY <2>1, EnqueueAt DEF TypeInv, Engines
    <2>3. ssr'["snd"] = t /\ ssr'["rcv"] = ssr["rcv"]
        BY <2>1 DEF Session, TypeInv, SessionsType, Engines
    <2>4. ~Unreported
        BY <1>1 DEF Unreported
    <2>5. ClosedWell(ssr["snd"], QueueEmpty("snd"))'
        BY <2>1, <2>3 DEF ClosedWell
    <2>6. CloseUnderWay(ssr["snd"])'
        <3>1. ssr["snd"].closing \in Nat
            BY DEF TypeInv, SessionsType, Sessions, Engines
        <3> QED BY <2>1, <2>3, <3>1 DEF CloseUnderWay
    <2> QED BY <2>1, <2>2, <2>3, <2>4, <2>5, <2>6, ReportedClosing
<1> QED BY <1>1, <1>2, <1>3, <1>4 DEF ReportTaken

\* The expiry of the checkpoint timer.
LEMMA CheckpointClosing == TypeInv /\ Closing /\ CheckpointTimeout => Closing'
<1> SUFFICES ASSUME TypeInv, Closing, CheckpointTimeout PROVE Closing'
    OBVIOUS
<1>1. PICK info \in ssr["snd"].timer :
          /\ ~CloseComesFirst("snd")
          /\ Crash("snd") \/ \E t, again : CheckpointHandled(info, t, again)
    BY CheckpointCases
<1>2. CASE Crash("snd")
    BY <1>2, PathClosing DEF Crash, Engines
<1>3. ASSUME NEW t, NEW again, CheckpointHandled(info, t, again), ~CloseComesFirst("snd") PROVE Closing'
    <2>1. /\ t.closed = ssr["snd"].closed /\ again \in Seq(Segs) /\ t.redDone = ssr["snd"].redDone
          /\ t.active = ssr["snd"].active /\ t.blockDone = ssr["snd"].blockDone
          /\ t.closing = ssr["snd"].closing
          /\ Enqueue("snd", <<>>, again) /\ Session("snd", t)
        BY <1>3 DEF CheckpointHandled, TimedOut
    <2>2. /\ app'["snd"] = app["snd"] \o again
          /\ app'["rcv"] = app["rcv"] /\ ops'["rcv"] = ops["rcv"]
        BY <2>1, EnqueueAt DEF TypeInv, Engines
    <2>3. ssr'["snd"] = t /\ ssr'["rcv"] = ssr["rcv"]
        BY <2>1 DEF Session, TypeInv, SessionsType, Engines
    <2>4. ~Unreported
        BY <1>1 DEF Unreported
    <2>5. ~ssr["snd"].closed
        <3>1. ssr["snd"].closing \in Nat /\ ssr["snd"].timer # {}
            BY <1>1 DEF TypeInv, SessionsType, Sessions, Engines
        <3> QED BY <1>3, <3>1 DEF Closing, ClosedWell, CloseComesFirst, Engines
    <2>6. ClosedWell(ssr["snd"], QueueEmpty("snd"))'
        BY <2>1, <2>3, <2>5 DEF ClosedWell
    <2>7. CloseUnderWay(ssr["snd"])'
        BY <2>1, <2>3 DEF Closing, CloseUnderWay
    <2> QED BY <2>1, <2>2, <2>3, <2>4, <2>6, <2>7, ReportedClosing
<1> QED BY <1>1, <1>2, <1>3

\* Without a checkpoint on its way nothing asks the receiver for a report.
LEMMA DataClosing == TypeInv /\ Closing /\ ReceiveData => Closing'
<1> SUFFICES ASSUME TypeInv, Closing, ReceiveData PROVE Closing'
    OBVIOUS
<1>1. PICK seg \in Segs :
          /\ wire["rcv"] # <<>> /\ seg = Head(wire["rcv"])
          /\ Dropped("rcv") \/ DataRefused(seg) \/ \E t, stored, report : DataHandled(seg, t, stored, report)
    BY DataCases
<1>2. CASE Dropped("rcv")
    BY <1>1, <1>2, PathClosing DEF Dropped, Engines
<1>4. CASE DataRefused(seg)
    BY <1>4, PathClosing DEF DataRefused, Crash, Engines
<1>3. ASSUME NEW t, NEW stored, NEW report, DataHandled(seg, t, stored, report) PROVE Closing'
    <2>1. /\ Consume("rcv") /\ Session("rcv", t) /\ Enqueue("rcv", report, <<>>)
          /\ DataRecorded(DataRecord, t, seg, stored) /\ ~DataRecord.closed
          /\ stored \in BOOLEAN
          /\ report = (IF stored /\ seg.type \in CheckpointTypes THEN <<Report(t)>> ELSE <<>>)
          /\ report \in Seq(Reports)
        BY <1>3 DEF DataHandled
    <2>2. /\ ops'["rcv"] = ops["rcv"] \o report /\ app'["rcv"] = app["rcv"] \o <<>>
          /\ ops'["snd"] = ops["snd"] /\ app'["snd"] = app["snd"]
        BY <2>1, EnqueueAt DEF TypeInv, Engines
    <2>3. ssr'["rcv"] = t /\ ssr'["snd"] = ssr["snd"]
        BY <2>1 DEF Session, TypeInv, SessionsType, Engines
    <2>4. wire'["rcv"] = Tail(wire["rcv"]) /\ wire'["snd"] = wire["snd"]
        BY <2>1, ConsumeAt DEF TypeInv, Engines
    <2>5. app["rcv"] = <<>> /\ ops["rcv"] \in Seq(Reports)
        BY DEF TypeInv, QueuesType
    <2>6. ASSUME t.closed PROVE ~stored /\ QueueEmpty("rcv") /\ t.timer = {} /\ ~t.alive
        BY <2>1, <2>6 DEF DataRecorded, MayClose
    <2>7. ClosedWell(ssr["rcv"], QueueEmpty("rcv"))'
        <3> SUFFICES ASSUME t.closed PROVE QueueEmpty("rcv")' /\ t.timer = {} /\ ~t.alive
            BY <2>3 DEF ClosedWell
        <3>1. report = <<>> /\ QueueEmpty("rcv") /\ t.timer = {} /\ ~t.alive
            BY <2>1, <2>6
        <3>2. ops["rcv"] \o report = <<>> /\ app["rcv"] \o <<>> = <<>>
            BY <2>5, <3>1 DEF QueueEmpty
        <3> QED BY <2>2, <3>1, <3>2 DEF QueueEmpty
    <2>8. ASSUME Unreported PROVE Unreported'
        <3>1. wire["rcv"] \in Seq(Segs \union Acks) /\ Without(wire["rcv"], CheckpointTypes)
            BY <2>8 DEF TypeInv, WireType, Unreported
        <3>2. Without(wire'["rcv"], CheckpointTypes) /\ seg.type \notin CheckpointTypes
            BY <1>1, <2>4, <3>1, WithoutTail
        <3>3. report = <<>>
            BY <2>1, <3>2
        <3>4. ops'["rcv"] = <<>>
            <4>1. <<>> \o <<>> = <<>>
                OBVIOUS
            <4> QED BY <2>2, <2>8, <3>3, <4>1 DEF Unreported
        <3>5. DataRecord.timer = {}
            BY <2>8 DEF Unreported, DataRecord, NewSession
        <3>6. t.timer = {}
            BY <2>1, <3>5 DEF DataRecorded, MayClose
        <3> QED BY <2>2, <2>3, <2>4, <2>8, <3>2, <3>4, <3>6 DEF Unreported
    <2> QED BY <2>2, <2>3, <2>7, <2>8, ReceiverClosing
<1> QED BY <1>1, <1>2, <1>3, <1>4

\* An acknowledgment.
LEMMA AckClosing == TypeInv /\ Closing /\ ReceiveReportAck => Closing'
<1> SUFFICES ASSUME TypeInv, Closing, ReceiveReportAck PROVE Closing'
    OBVIOUS
<1>1. PICK seg \in Acks :
          /\ wire["rcv"] # <<>>
          /\ Dropped("rcv") \/ \E t, done : AckHandled(seg, t, done)
    BY AckCases
<1>2. CASE Dropped("rcv")
    BY <1>1, <1>2, PathClosing DEF Dropped, Engines
<1>3. ASSUME NEW t, NEW done, AckHandled(seg, t, done) PROVE Closing'
    <2>1. /\ Consume("rcv") /\ Session("rcv", t) /\ UNCHANGED <<ops, app>>
          /\ t.timer = {}
          /\ t.closed => QueueEmpty("rcv") /\ ~t.alive
        BY <1>3 DEF AckHandled, AckRecorded
    <2>2. ssr'["rcv"] = t /\ ssr'["snd"] = ssr["snd"]
        BY <2>1 DEF Session, TypeInv, SessionsType, Engines
    <2>3. wire'["rcv"] = Tail(wire["rcv"]) /\ wire'["snd"] = wire["snd"]
        BY <2>1, ConsumeAt DEF TypeInv, Engines
    <2>4. ClosedWell(ssr["rcv"], QueueEmpty("rcv"))'
        BY <2>1, <2>2 DEF ClosedWell, QueueEmpty
    <2>5. ASSUME Unreported PROVE Unreported'
        <3>1. wire["rcv"] \in Seq(Segs \union Acks) /\ Without(wire["rcv"], CheckpointTypes)
            BY <2>5 DEF TypeInv, WireType, Unreported
        <3>2. Without(wire'["rcv"], CheckpointTypes)
            BY <1>1, <2>3, <3>1, WithoutTail
        <3> QED BY <2>1, <2>2, <2>3, <2>5, <3>2 DEF Unreported
    <2> QED BY <2>1, <2>2, <2>4, <2>5, ReceiverClosing
<1> QED BY <1>1, <1>2, <1>3

\* The expiry of the report timer: a close that is postponed comes first.
LEMMA ReportTimeoutClosing == TypeInv /\ Closing /\ ReportTimeout => Closing'
<1> SUFFICES ASSUME TypeInv, Closing, ReportTimeout PROVE Closing'
    OBVIOUS
<1>1. /\ ssr["rcv"].timer # {} /\ ~CloseComesFirst("rcv")
      /\ ReportRefused \/ \E t, again : ReportRepeated(t, again)
    BY ReportTimeoutCases
<1>0. CASE ReportRefused
    BY <1>0, PathClosing DEF ReportRefused, Crash, Engines
<1> SUFFICES ASSUME NEW t, NEW again, ReportRepeated(t, again) PROVE Closing'
    BY <1>0, <1>1
<1>2. ReportRepeated(t, again)
    OBVIOUS
<1>3. t.closed = ssr["rcv"].closed /\ Session("rcv", t) /\ Enqueue("rcv", again, <<>>)
    BY <1>2 DEF ReportRepeated, TimedOut
<1>4. ops'["snd"] = ops["snd"] /\ app'["snd"] = app["snd"]
    BY <1>3, EnqueueAt DEF TypeInv, Engines
<1>5. ssr'["rcv"] = t /\ ssr'["snd"] = ssr["snd"]
    BY <1>3 DEF Session, TypeInv, SessionsType, Engines
<1>6. ~ssr["rcv"].closed
    <2>1. ssr["rcv"].closing \in Nat
        BY DEF TypeInv, SessionsType, Sessions, Engines
    <2> QED BY <1>1, <2>1 DEF Closing, ClosedWell, CloseComesFirst, Engines
<1>7. ClosedWell(ssr["rcv"], QueueEmpty("rcv"))'
    BY <1>3, <1>5, <1>6 DEF ClosedWell
<1>8. ~Unreported
    BY <1>1 DEF Unreported
<1> QED BY <1>4, <1>5, <1>7, <1>8, ReceiverClosing

\* A postponed close, and the inactivity event.
LEMMA EndedClosing ==
    ASSUME TypeInv, Closing, NEW e \in Engines, ClosePostponed(e) \/ SessionInactive(e)
    PROVE  Closing'
<1>1. \E t, q : /\ Session(e, t) /\ Ended(ssr[e], t, q) /\ q = QueueEmpty(e)
                /\ UNCHANGED <<ops, app, wire>>
    <2>1. CASE ClosePostponed(e)
        <3>1. PICK t : Session(e, t) /\ Ended(ssr[e], t, TRUE) /\ QueueEmpty(e)
            BY <2>1, PostponedFields
        <3>2. QueueEmpty(e) = TRUE
            BY <3>1 DEF QueueEmpty
        <3> QED BY <2>1, <3>1, <3>2 DEF ClosePostponed
    <2>2. CASE SessionInactive(e)
        BY <2>2, InactiveFields DEF SessionInactive
    <2> QED BY <2>1, <2>2
<1>2. PICK t, q : /\ Session(e, t) /\ Ended(ssr[e], t, q) /\ q = QueueEmpty(e)
                  /\ UNCHANGED <<ops, app, wire>>
    BY <1>1
<1>3. ssr'[e] = t /\ \A f \in Engines \ {e} : ssr'[f] = ssr[f]
    BY <1>2 DEF Session, TypeInv, SessionsType, Engines
<1>4. \A f \in Engines : QueueEmpty(f)' = QueueEmpty(f)
    BY <1>2 DEF QueueEmpty
<1>5. q \in BOOLEAN /\ ssr[e].closing \in Nat
    BY <1>2 DEF QueueEmpty, TypeInv, SessionsType, Sessions
<1>6. ClosedWell(ssr[e], QueueEmpty(e))'
    <2>1. t.closed => q
        BY <1>2, <1>5 DEF Ended, Closing, ClosedWell
    <2> QED BY <1>2, <1>3, <1>4, <1>5, <2>1 DEF Ended, ClosedWell
<1>7. CASE e = "rcv"
    <2>1. Unreported => Unreported'
        <3> SUFFICES ASSUME Unreported PROVE Unreported'
            OBVIOUS
        <3>1. t.timer = {}
            BY <1>2, <1>5, <1>7 DEF Ended, Unreported
        <3> QED BY <1>2, <1>3, <1>7, <3>1 DEF Unreported, Engines
    <2>2. ssr'["snd"] = ssr["snd"] /\ ops'["snd"] = ops["snd"] /\ app'["snd"] = app["snd"]
        BY <1>2, <1>3, <1>7 DEF Engines
    <2> QED BY <1>6, <1>7, <2>1, <2>2, ReceiverClosing
<1>8. CASE e = "snd"
    <2>1. ssr["snd"].active
        <3>1. ssr["snd"].closing > 0 \/ ssr["snd"].alive
            BY <1>8 DEF ClosePostponed, SessionInactive
        <3> QED BY <3>1 DEF Closing, Untouched
    <2>2. ssr'["snd"] = t /\ ssr'["rcv"] = ssr["rcv"]
        BY <1>3, <1>8 DEF Engines
    <2>3. ssr'["snd"].active /\ ssr'["snd"].blockDone
        BY <1>2, <1>8, <2>1, <2>2 DEF Ended
    <2>4. CloseUnderWay(ssr["snd"])'
        BY <1>2, <1>5, <1>8, <2>2 DEF Ended, CloseUnderWay
    <2>5. \A f \in Engines : ClosedWell(ssr[f], QueueEmpty(f))'
        BY <1>4, <1>6, <1>8, <2>2 DEF Engines, Closing, ClosedWell
    <2> QED BY <2>3, <2>4, <2>5 DEF Closing
<1> QED BY <1>7, <1>8 DEF Engines

\* What Send makes of the sender's record, when it is not closed and knows its
\* red part done only with the block.
SentWell(s, t, seg, queueEmpty) ==
    /\ t \in Sessions
    /\ t.active = s.active /\ t.redDone = s.redDone /\ (s.blockDone => t.blockDone)
    /\ ClosedWell(t, queueEmpty) /\ CloseUnderWay(t)
    /\ seg.type \in {"GD_EOB", "RD_CP_EORP_EOB"} => t.blockDone
    /\ seg.type \notin CheckpointTypes => t.timer = s.timer \/ t.blockDone

\* After the callbacks for a segment that the sender sent, its record is in order.
LEMMA SenderCue ==
    ASSUME NEW s \in Sessions, NEW t, NEW seg \in Segs \union Acks, NEW queueEmpty \in BOOLEAN,
           Cued(s, t, seg, queueEmpty), ~s.closed, CloseUnderWay(s),
           seg.type = "RD_CP_EORP_EOB" /\ s.redDone => s.blockDone
    PROVE  SentWell(s, t, seg, queueEmpty)
<1>0. seg.type # "RS" /\ CheckpointTypes = {"RD_CP", "RD_CP_EORP", "RD_CP_EORP_EOB"}
    BY DEF Segs, Acks, DataTypes, RedTypes, GreenTypes, CheckpointTypes
<1>1. /\ t \in Sessions
      /\ t.active = s.active /\ t.redDone = s.redDone /\ (s.blockDone => t.blockDone)
    BY CueKeeps
<1>2. ASSUME NEW u \in Sessions, EndsTo(s, u, queueEmpty)
      PROVE  /\ u.redDone = s.redDone /\ u.blockDone /\ (u.closed => queueEmpty /\ u.redDone)
             /\ u.closed => u.closing = s.closing /\ u.timer = {} /\ ~u.alive
             /\ CloseUnderWay(u) /\ u.closing \in Nat
    <2>1. CASE s.redDone /\ ClosesTo(s, u, queueEmpty)
        BY <2>1 DEF ClosesTo, CloseUnderWay, Sessions
    <2>2. CASE ~s.redDone /\ u = [s EXCEPT !.blockDone = TRUE]
        BY <2>2 DEF CloseUnderWay, Sessions
    <2> QED BY <1>2, <2>1, <2>2 DEF EndsTo
<1>3. CASE seg.type = "GD_EOB"
    <2>1. EndsTo(s, t, queueEmpty)
        BY <1>3 DEF Cued
    <2> QED BY <1>0, <1>1, <1>2, <1>3, <2>1 DEF SentWell, ClosedWell
<1>4. CASE seg.type = "RD_CP_EORP_EOB"
    <2>1. PICK b \in Sessions : EndsTo(s, b, queueEmpty) /\ Arms(b, t, CheckpointInfo(seg))
        BY <1>4 DEF Cued
    <2>2. /\ b.redDone = s.redDone /\ b.blockDone /\ (b.closed => queueEmpty /\ b.redDone)
          /\ b.closed => b.closing = s.closing
          /\ CloseUnderWay(b)
        BY <1>2, <2>1
    <2>3. /\ t.redDone = b.redDone /\ t.blockDone = b.blockDone /\ t.closed = b.closed
          /\ t.closing = b.closing
        BY <2>1 DEF Arms, Sessions
    <2>4. b.closed => b.closing > 0
        BY <1>4, <2>2 DEF CloseUnderWay
    <2>5. ClosedWell(t, queueEmpty) /\ CloseUnderWay(t) /\ t.blockDone
        BY <2>2, <2>3, <2>4 DEF ClosedWell, CloseUnderWay
    <2> QED BY <1>1, <2>5 DEF SentWell
<1>5. CASE seg.type \in {"RD_CP_EORP", "RD_CP"}
    <2>1. Arms(s, t, CheckpointInfo(seg))
        BY <1>5 DEF Cued
    <2>2. /\ t.redDone = s.redDone /\ t.blockDone = s.blockDone /\ t.closed = s.closed
          /\ t.closing = s.closing
        BY <2>1 DEF Arms, Sessions
    <2> QED BY <1>0, <1>1, <1>5, <2>2 DEF SentWell, ClosedWell, CloseUnderWay
<1>6. CASE seg.type \notin CheckpointTypes \union {"GD_EOB", "RS"}
    <2>1. t = s
        BY <1>6 DEF Cued
    <2> QED BY <1>0, <1>6, <2>1 DEF SentWell, ClosedWell
<1> QED BY <1>0, <1>3, <1>4, <1>5, <1>6

\* The sender's next segment, of the two queues.
LEMMA SenderNext ==
    ASSUME TypeInv, NEW seg \in Segs \union Reports \union Acks, Takes("snd", seg),
           (seg \in Acks /\ ops["snd"] # <<>>) \/ (seg \in Segs /\ ops["snd"] = <<>>)
    PROVE  /\ ops'["rcv"] = ops["rcv"] /\ app'["rcv"] = app["rcv"]
           /\ wire'["rcv"] = Append(wire["rcv"], seg) /\ wire'["snd"] = wire["snd"]
           /\ \/ seg \in Acks /\ app'["snd"] = app["snd"]
              \/ /\ seg \in Segs /\ app["snd"] # <<>> /\ seg = Head(app["snd"])
                 /\ app'["snd"] = Tail(app["snd"])
<1>1. wire'["rcv"] = Append(wire["rcv"], seg) /\ wire'["snd"] = wire["snd"]
    BY DEF Takes, Peer, TypeInv, WireType, Engines
<1>2. CASE ops["snd"] # <<>>
    BY <1>1, <1>2 DEF Takes, TypeInv, QueuesType, Engines
<1>3. CASE ops["snd"] = <<>>
    BY <1>1, <1>3 DEF Takes, TypeInv, QueuesType, Engines
<1> QED BY <1>2, <1>3

\* Sending keeps the end of the block in sight.
LEMMA SentBlockOpen ==
    ASSUME TypeInv, NEW seg \in Segs \union Acks, NEW t, SentWell(ssr["snd"], t, seg, QueueEmpty("snd")'),
           ssr'["snd"] = t, ssr'["rcv"] = ssr["rcv"], ~t.blockDone, BlockOpen,
           ops'["rcv"] = ops["rcv"], wire'["snd"] = wire["snd"],
           wire'["rcv"] = Append(wire["rcv"], seg),
           \/ seg \in Acks /\ app'["snd"] = app["snd"]
           \/ /\ seg \in Segs /\ app["snd"] # <<>> /\ seg = Head(app["snd"])
              /\ app'["snd"] = Tail(app["snd"])
    PROVE  BlockOpen'
<1>1. seg.type \notin {"GD_EOB", "RD_CP_EORP_EOB"} /\ t.redDone = ssr["snd"].redDone
    BY DEF SentWell
<1>2. app["snd"] \in Seq(Segs) /\ wire["rcv"] \in Seq(Segs \union Acks)
    BY DEF TypeInv, QueuesType, WireType
<1>3. CASE seg \in Acks /\ app'["snd"] = app["snd"]
    <2>1. seg.type \notin CheckpointTypes
        BY <1>3 DEF Acks, CheckpointTypes, RedTypes
    <2>2. Unreported => Unreported'
        <3> SUFFICES ASSUME Unreported PROVE Unreported'
            OBVIOUS
        <3>1. Without(wire'["rcv"], CheckpointTypes)
            BY <1>2, <2>1, WithoutAppended DEF Unreported
        <3>2. t.timer = {}
            BY <2>1 DEF SentWell, Unreported
        <3> QED BY <1>1, <1>3, <3>1, <3>2 DEF Unreported
    <2> QED BY <1>3, <2>2 DEF BlockOpen
<1>4. CASE /\ seg \in Segs /\ app["snd"] # <<>> /\ seg = Head(app["snd"])
           /\ app'["snd"] = Tail(app["snd"])
    <2>1. CASE EndsGreen(app["snd"], 0)
        <3>1. EndsGreen(Tail(app["snd"]), 0)
            BY <1>1, <1>2, <1>4, <2>1, EndsGreenHead
        <3> QED BY <1>4, <3>1 DEF BlockOpen
    <2>2. CASE Unreported /\ RedEndsGreen(app["snd"])
        <3>1. /\ RedEndsGreen(Tail(app["snd"]))
              /\ seg.type = "RD_CP_EORP" => EndsGreen(Tail(app["snd"]), 0)
            BY <1>2, <1>4, <2>2, RedEndsGreenTail
        <3>2. CASE seg.type = "RD_CP_EORP"
            BY <1>4, <3>1, <3>2 DEF BlockOpen
        <3>3. CASE seg.type # "RD_CP_EORP"
            <4>1. Without(Tail(app["snd"]), {"RD_CP"}) /\ seg.type # "RD_CP"
                BY <1>2, <1>4, <2>2, WithoutTail DEF Unreported
            <4>2. seg.type \notin CheckpointTypes
                BY <1>1, <3>3, <4>1 DEF CheckpointTypes, RedTypes
            <4>3. Without(wire'["rcv"], CheckpointTypes)
                BY <1>2, <2>2, <4>2, WithoutAppended DEF Unreported
            <4>4. t.timer = {}
                BY <2>2, <4>2 DEF SentWell, Unreported
            <4>5. Unreported'
                BY <1>1, <1>4, <2>2, <4>1, <4>3, <4>4 DEF Unreported
            <4> QED BY <1>4, <3>1, <4>5 DEF BlockOpen
        <3> QED BY <3>2, <3>3
    <2> QED BY <2>1, <2>2 DEF BlockOpen
<1> QED BY <1>3, <1>4

\* A segment of the sender.
LEMMA SenderSends ==
    ASSUME TypeInv, Closing, NEW seg \in Segs \union Reports \union Acks, NEW t \in Sessions,
           Takes("snd", seg), Session("snd", t), Cued(ssr["snd"], t, seg, QueueEmpty("snd")'),
           (seg \in Acks /\ ops["snd"] # <<>>) \/ (seg \in Segs /\ ops["snd"] = <<>>)
    PROVE  Closing'
<1> DEFINE q == QueueEmpty("snd")'
           s == ssr["snd"]
<1>1. ssr'["snd"] = t /\ ssr'["rcv"] = ssr["rcv"]
    BY DEF Session, TypeInv, SessionsType, Engines
<1>2. s \in Sessions /\ q \in BOOLEAN /\ seg \in Segs \union Acks /\ Cued(s, t, seg, q)
    BY DEF TypeInv, SessionsType, Engines, QueueEmpty
<1>3. ~s.closed /\ CloseUnderWay(s)
    BY DEF Closing, ClosedWell, Takes, Engines
<1>4. s.active
    BY DEF Closing, Untouched, Takes, QueueEmpty
<1>5. /\ ops'["rcv"] = ops["rcv"] /\ app'["rcv"] = app["rcv"]
      /\ wire'["rcv"] = Append(wire["rcv"], seg) /\ wire'["snd"] = wire["snd"]
      /\ \/ seg \in Acks /\ app'["snd"] = app["snd"]
         \/ /\ seg \in Segs /\ app["snd"] # <<>> /\ seg = Head(app["snd"])
            /\ app'["snd"] = Tail(app["snd"])
    BY SenderNext
<1>6. ASSUME seg.type = "RD_CP_EORP_EOB", s.redDone PROVE s.blockDone
    <2> SUFFICES ASSUME ~s.blockDone PROVE FALSE
        OBVIOUS
    <2>1. EndsGreen(app["snd"], 0)
        BY <1>4, <1>6 DEF Closing, BlockOpen, Unreported
    <2>2. seg \in Segs /\ seg = Head(app["snd"])
        BY <1>5, <1>6 DEF Acks
    <2>3. app["snd"] \in Seq(Segs)
        BY DEF TypeInv, QueuesType
    <2> QED BY <1>6, <2>1, <2>2, <2>3, EndsGreenHead
<1>7. SentWell(s, t, seg, q)
    <2> HIDE DEF s, q
    <2> QED BY <1>2, <1>3, <1>6, SenderCue
<1>8. \A e \in Engines : ClosedWell(ssr[e], QueueEmpty(e))'
    <2>1. QueueEmpty("rcv")' = QueueEmpty("rcv")
        BY <1>5 DEF QueueEmpty
    <2> QED BY <1>1, <1>7, <2>1 DEF SentWell, Closing, ClosedWell, Engines
<1>9. CloseUnderWay(ssr["snd"])' /\ ssr'["snd"].active
    BY <1>1, <1>4, <1>7 DEF SentWell, CloseUnderWay
<1>10. ASSUME ~t.blockDone PROVE BlockOpen'
    <2>1. BlockOpen
        BY <1>4, <1>7, <1>10 DEF SentWell, Closing
    <2> QED BY <1>1, <1>2, <1>5, <1>7, <1>10, <2>1, SentBlockOpen
<1> QED BY <1>1, <1>8, <1>9, <1>10 DEF Closing

\* A report of the receiver.
LEMMA ReceiverSends ==
    ASSUME TypeInv, Closing, NEW seg \in Reports, NEW t \in Sessions,
           Takes("rcv", seg), Session("rcv", t), Cued(ssr["rcv"], t, seg, QueueEmpty("rcv")')
    PROVE  Closing'
<1>1. ssr'["rcv"] = t /\ ssr'["snd"] = ssr["snd"]
    BY DEF Session, TypeInv, SessionsType, Engines
<1>2. Arms(ssr["rcv"], t, Info(NoClaims, seg.rp))
    BY DEF Cued, Reports
<1>3. t.closed = ssr["rcv"].closed
    BY <1>2 DEF Arms, Sessions, TypeInv, SessionsType, Engines
<1>4. ~t.closed
    BY <1>3 DEF Closing, ClosedWell, Takes, Engines
<1>5. ops'["snd"] = ops["snd"] /\ app'["snd"] = app["snd"]
    BY DEF Takes, TypeInv, QueuesType, Engines
<1>6. ~Unreported
    BY DEF Takes, Unreported, QueueEmpty, TypeInv, QueuesType
<1>7. ClosedWell(ssr["rcv"], QueueEmpty("rcv"))'
    BY <1>1, <1>4 DEF ClosedWell
<1> QED BY <1>1, <1>5, <1>6, <1>7, ReceiverClosing

\* Send, and the link-up cue.
LEMMA SendClosing ==
    ASSUME TypeInv, Closing, NEW e \in Engines, Send(e) \/ SetLinkUp(e)
    PROVE  Closing'
<1>1. Transmit(e)
    BY DEF Send, SetLinkUp
<1>2. CASE UNCHANGED <<ssr, ops, app, wire>>
    BY <1>2, PathClosing
<1>3. ASSUME NEW seg \in Segs \union Reports \union Acks, NEW t \in Sessions,
             Takes(e, seg), Session(e, t), Cued(ssr[e], t, seg, QueueEmpty(e)'),
             e = "snd" => (seg \in Acks /\ ops["snd"] # <<>>) \/ (seg \in Segs /\ ops["snd"] = <<>>),
             e = "rcv" => seg \in Reports
      PROVE  Closing'
    <2>1. CASE e = "snd"
        BY <1>3, <2>1, SenderSends
    <2>2. CASE e = "rcv"
        BY <1>3, <2>2, ReceiverSends
    <2> QED BY <2>1, <2>2 DEF Engines
<1> QED BY <1>1, <1>2, <1>3, TransmitCases

\* Every step.
LEMMA NextClosing == TypeInv /\ Closing /\ [Next]_vars => Closing'
<1> SUFFICES ASSUME TypeInv, Closing, [Next]_vars PROVE Closing'
    OBVIOUS
<1>1. CASE UNCHANGED vars
    <2>1. "snd" \in Engines /\ UNCHANGED <<ssr, ops, app>> /\ wire' = wire
        BY <1>1 DEF vars, Engines
    <2> QED BY <2>1, PathClosing
<1>2. ASSUME NEW e \in Engines, SetLinkUp(e) \/ Send(e) PROVE Closing'
    BY <1>2, SendClosing
<1>3. ASSUME NEW e \in Engines, ClosePostponed(e) \/ SessionInactive(e) PROVE Closing'
    BY <1>3, EndedClosing
<1>4. ASSUME NEW e \in Engines, Lose(e) PROVE Closing'
    BY <1>4, PathClosing DEF Lose
<1> QED BY <1>1, <1>2, <1>3, <1>4, StartClosing, ReportClosing, CheckpointClosing, DataClosing,
           AckClosing, ReportTimeoutClosing DEF Next, Event

\* A session is never closed while its engine has segments queued, and none is
\* queued once it is closed: CloseSession, postponed or not, and every handler
\* that would queue an answer agree on it.
THEOREM QueueEmptyTheorem == Spec => []QueueEmptyAfterClose
<1>1. TypeInv /\ Closing => QueueEmptyAfterClose
    BY DEF Closing, ClosedWell, QueueEmptyAfterClose
<1> QED BY <1>1, InitType, NextType, InitClosing, NextClosing, PTL DEF Spec

\* No timer and no inactivity event is left to wake a session that is closed
\* and for which no postponed CloseSession is scheduled.
THEOREM NoTimerTheorem == Spec => []NoTimerAfterClose
<1>1. TypeInv /\ Closing => NoTimerAfterClose
    BY DEF Closing, ClosedWell, NoTimerAfterClose
<1> QED BY <1>1, InitType, NextType, InitClosing, NextClosing, PTL DEF Spec

----------------------------------------------------------------------------
(* The pieces of the red part: the segments it is cut into.                *)

Multiple(o) == \E k \in Nat : o = k * Capacity

\* Where the segments of the red part start and end, the last one where the
\* red part does.
Starts      == {o \in RedUnits : Multiple(o)}
PieceLen(o) == IF o + Capacity > RedLen THEN RedLen - o ELSE Capacity
Piece(o)    == o .. o + PieceLen(o) - 1
Ends        == {u \in 1 .. RedLen : Multiple(u) \/ u = RedLen}

\* Green data does not begin behind a red segment that is full.
RedEndsApart == ~Multiple(RedLen) \/ RedLen \in {0, BlockLen}

\* The multiples of the capacity lie one capacity apart.
LEMMA MultipleSteps ==
    /\ Multiple(0)
    /\ \A o : Multiple(o) => o \in Nat /\ Multiple(o + Capacity)
    /\ \A o, p : Multiple(o) /\ Multiple(p) /\ o < p => o + Capacity <= p
<1>1. Multiple(0)
    <2>1. 0 = 0 * Capacity
        BY CapacityAssumption
    <2> QED BY <2>1 DEF Multiple
<1>2. ASSUME NEW o, Multiple(o) PROVE o \in Nat /\ Multiple(o + Capacity)
    <2>1. PICK k \in Nat : o = k * Capacity
        BY <1>2 DEF Multiple
    <2>2. k * Capacity \in Nat /\ (k + 1) * Capacity = k * Capacity + Capacity
        BY CapacityAssumption
    <2> QED BY <2>1, <2>2 DEF Multiple
<1>3. ASSUME NEW o, NEW p, Multiple(o), Multiple(p), o < p PROVE o + Capacity <= p
    BY <1>3, MultipleBelow DEF Multiple
<1> QED BY <1>1, <1>2, <1>3

\* A piece lies in the red part, and ends at one of the ends.
LEMMA PieceBounds ==
    ASSUME NEW o \in Starts
    PROVE  /\ o \in Nat /\ PieceLen(o) \in 1 .. Capacity /\ o + PieceLen(o) <= RedLen
           /\ Piece(o) \subseteq RedUnits /\ o \in Piece(o)
           /\ o + PieceLen(o) \in Ends /\ o + PieceLen(o) - 1 \in Piece(o)
<1>1. RedLen \in Nat /\ o \in Nat /\ o < RedLen /\ Multiple(o)
    BY LtpSessionAssumption DEF Starts, RedUnits
<1>2. PieceLen(o) \in 1 .. Capacity /\ o + PieceLen(o) <= RedLen
    BY <1>1, CapacityAssumption DEF PieceLen
<1>3. o + PieceLen(o) \in Ends
    <2>1. CASE o + Capacity > RedLen
        BY <1>1, <2>1 DEF PieceLen, Ends
    <2>2. CASE ~(o + Capacity > RedLen)
        BY <1>1, <1>2, <2>2, MultipleSteps, CapacityAssumption DEF PieceLen, Ends
    <2> QED BY <2>1, <2>2
<1> QED BY <1>1, <1>2, <1>3, CapacityAssumption DEF Piece, RedUnits

\* Every unit of the red part lies in one piece.
LEMMA PieceOfUnit ==
    ASSUME NEW u \in RedUnits
    PROVE  \E o \in Starts : u \in Piece(o)
<1>1. RedLen \in Nat /\ u \in Nat /\ u < RedLen
    BY LtpSessionAssumption DEF RedUnits
<1> DEFINE S == {o \in 0 .. u : Multiple(o)}
<1>2. S \subseteq Nat /\ 0 \in S /\ \A y \in S : y <= u
    BY <1>1, MultipleSteps
<1>3. PICK o \in S : \A y \in S : y <= o
    <2> HIDE DEF S
    <2> QED BY <1>1, <1>2, MaxOfNat
<1>4. Multiple(o + Capacity) /\ o \in Nat /\ o <= u
    BY <1>3, MultipleSteps
<1>5. o + Capacity > u
    BY <1>1, <1>3, <1>4, CapacityAssumption
<1>6. o \in Starts
    BY <1>1, <1>3 DEF Starts, RedUnits
<1>7. u \in Piece(o)
    BY <1>1, <1>4, <1>5, CapacityAssumption DEF Piece, PieceLen
<1> QED BY <1>6, <1>7

\* Two pieces of the red part that share a unit are the same piece.
LEMMA PiecesApart ==
    ASSUME NEW o \in Starts, NEW p \in Starts, Piece(o) \cap Piece(p) # {}
    PROVE  o = p
<1>1. /\ o \in Nat /\ PieceLen(o) \in 1 .. Capacity /\ Multiple(o)
      /\ p \in Nat /\ PieceLen(p) \in 1 .. Capacity /\ Multiple(p)
    BY PieceBounds DEF Starts
<1>2. PICK u : u \in Piece(o) /\ u \in Piece(p)
    OBVIOUS
<1>3. u \in Nat /\ o <= u /\ u < o + Capacity /\ p <= u /\ u < p + Capacity
    BY <1>1, <1>2, CapacityAssumption DEF Piece
<1>4. ~(o < p)
    <2> SUFFICES ASSUME o < p PROVE FALSE
        OBVIOUS
    <2>1. o + Capacity <= p
        BY <1>1, MultipleSteps
    <2> QED BY <1>1, <1>3, <2>1, CapacityAssumption
<1>5. ~(p < o)
    <2> SUFFICES ASSUME p < o PROVE FALSE
        OBVIOUS
    <2>1. p + Capacity <= o
        BY <1>1, MultipleSteps
    <2> QED BY <1>1, <1>3, <2>1, CapacityAssumption
<1> QED BY <1>1, <1>4, <1>5

\* The cut of a block or of a gap that starts with a piece goes piece by piece
\* up to the end of the red part.
LEMMA CutStarts ==
    ASSUME NEW size \in Nat, NEW off \in Nat, Multiple(off), NEW offset, NEW n,
           CutAt(offset, n, RedLen, size, off)
    PROVE  /\ \A i \in 1 .. n : offset[i] < RedLen => Multiple(offset[i])
           /\ off < RedLen /\ ~Multiple(RedLen) =>
                 \A i \in 1 .. n : offset[i] >= RedLen => RedEnded(offset, RedLen, i)
<1>0. RedLen \in Nat
    BY LtpSessionAssumption
<1>1. /\ n \in Nat \ {0} /\ offset[1] = off
      /\ \A i \in 1 .. n + 1 : offset[i] \in Nat
      /\ \A i \in 1 .. n : /\ offset[i] < size
                           /\ offset[i + 1] = offset[i] + SegmentLength(RedLen, size, offset[i])
    BY DEF CutAt
<1>2. ASSUME NEW i \in 1 .. n, offset[i] < RedLen
      PROVE  SegmentLength(RedLen, size, offset[i]) =
                IF EndsRed(RedLen, offset[i]) THEN RedLen - offset[i] ELSE Capacity
    <2>1. offset[i] \in Nat
        BY <1>1
    <2>2. ~EndsBlock(RedLen, size, offset[i])
        BY <1>0, <1>2, <2>1 DEF EndsBlock
    <2> QED BY <2>2 DEF SegmentLength
<1> DEFINE S == {k \in Nat : k + 1 <= n =>
                    /\ offset[k + 1] < RedLen => Multiple(offset[k + 1])
                    /\ off < RedLen /\ ~Multiple(RedLen) /\ offset[k + 1] >= RedLen =>
                          RedEnded(offset, RedLen, k + 1)}
<1>3. 0 \in S
    BY <1>0, <1>1
<1>4. ASSUME NEW k \in Nat, k \in S PROVE k + 1 \in S
    <2> SUFFICES ASSUME k + 2 <= n
                 PROVE  /\ offset[k + 2] < RedLen => Multiple(offset[k + 2])
                        /\ off < RedLen /\ ~Multiple(RedLen) /\ offset[k + 2] >= RedLen =>
                              RedEnded(offset, RedLen, k + 2)
        <3>1. (k + 1) + 1 = k + 2
            OBVIOUS
        <3> QED BY <3>1
    <2> DEFINE i == k + 1
               o == offset[i]
    <2>1. i \in 1 .. n /\ k + 2 = i + 1 /\ o \in Nat /\ i \in 1 .. (k + 2) - 1
        BY <1>1
    <2>2. offset[k + 2] = o + SegmentLength(RedLen, size, o) /\ o < size /\ offset[k + 2] \in Nat
        BY <1>1, <2>1
    <2>3. SegmentLength(RedLen, size, o) \in 1 .. Capacity
        <3> HIDE DEF o
        <3>1. o \in Int
            BY <2>1
        <3> QED BY <1>0, <2>2, <3>1, SegmentLengthPositive
    <2>4. /\ o < RedLen => Multiple(o)
          /\ off < RedLen /\ ~Multiple(RedLen) /\ o >= RedLen => RedEnded(offset, RedLen, i)
        BY <1>4, <2>1
    <2>5. o < RedLen => SegmentLength(RedLen, size, o) = IF EndsRed(RedLen, o) THEN RedLen - o ELSE Capacity
        BY <1>2, <2>1
    <2>6. ASSUME offset[k + 2] < RedLen PROVE Multiple(offset[k + 2])
        <3>1. o < RedLen
            BY <1>0, <2>1, <2>2, <2>3, <2>6, CapacityAssumption
        <3>2. ~EndsRed(RedLen, o)
            BY <1>0, <2>1, <2>2, <2>5, <2>6, <3>1
        <3>3. offset[k + 2] = o + Capacity
            BY <2>2, <2>5, <3>1, <3>2
        <3>4. Multiple(o + Capacity)
            BY <2>4, <3>1, MultipleSteps
        <3> QED BY <3>3, <3>4
    <2>7. ASSUME off < RedLen, ~Multiple(RedLen), offset[k + 2] >= RedLen
          PROVE  RedEnded(offset, RedLen, k + 2)
        <3>1. CASE o >= RedLen
            <4>1. PICK j \in 1 .. i - 1 : EndsRed(RedLen, offset[j])
                BY <2>4, <2>7, <3>1 DEF RedEnded
            <4>2. j \in 1 .. (k + 2) - 1
                BY <2>1, <4>1
            <4> QED BY <4>1, <4>2 DEF RedEnded
        <3>2. CASE o < RedLen
            <4>1. EndsRed(RedLen, o)
                <5> SUFFICES ASSUME ~EndsRed(RedLen, o) PROVE FALSE
                    OBVIOUS
                <5>1. offset[k + 2] = o + Capacity /\ o + Capacity <= RedLen
                    BY <1>0, <2>1, <2>2, <2>5, <3>2, CapacityAssumption DEF EndsRed
                <5>2. RedLen = o + Capacity
                    BY <1>0, <2>7, <2>2, <5>1
                <5>3. Multiple(o + Capacity)
                    BY <2>4, <3>2, MultipleSteps
                <5> QED BY <2>7, <5>2, <5>3
            <4> QED BY <2>1, <4>1 DEF RedEnded
        <3> QED BY <1>0, <2>1, <3>1, <3>2
    <2> QED BY <2>6, <2>7
<1> HIDE DEF S
<1>5. Nat \subseteq S
    BY <1>3, <1>4, AllNat
<1>6. ASSUME NEW i \in 1 .. n PROVE i - 1 \in S /\ (i - 1) + 1 = i
    BY <1>1, <1>5
<1> QED BY <1>6 DEF S

\* Claims that start and end where pieces do.
Aligned(cl) == DOMAIN cl \subseteq Starts /\ \A o \in DOMAIN cl : Upper(cl, o) \in Ends

\* A set of units that has each piece as a whole or not at all.
Whole(held) ==
    /\ held \subseteq RedUnits
    /\ \A o \in Starts : Piece(o) \subseteq held \/ Piece(o) \cap held = {}

\* Compacted claims of whole pieces start and end where pieces do.
LEMMA WholeAligned ==
    ASSUME NEW cl, ClaimSet(cl), Compacted(cl), Whole(Bytes(cl))
    PROVE  Aligned(cl)
<1>1. \A p \in DOMAIN cl : p \in Nat /\ Upper(cl, p) \in Nat /\ p < Upper(cl, p)
    BY ClaimSetDomain
<1>2. \A p \in DOMAIN cl : p .. Upper(cl, p) - 1 \subseteq Bytes(cl)
    BY DEF Bytes
<1>3. ASSUME NEW u \in Bytes(cl) PROVE \E o \in Starts : u \in Piece(o) /\ Piece(o) \subseteq Bytes(cl)
    <2>1. PICK o \in Starts : u \in Piece(o)
        BY PieceOfUnit DEF Whole
    <2> QED BY <2>1 DEF Whole
<1>4. ASSUME NEW p \in DOMAIN cl PROVE p \in Starts
    <2>1. p \in p .. Upper(cl, p) - 1
        BY <1>1
    <2>2. PICK o \in Starts : p \in Piece(o) /\ Piece(o) \subseteq Bytes(cl)
        BY <1>2, <1>3, <2>1
    <2>3. o \in Nat /\ PieceLen(o) \in Nat /\ o <= p /\ p < o + PieceLen(o)
        BY <2>2, PieceBounds DEF Piece
    <2>4. ASSUME o < p PROVE FALSE
        <3>1. p - 1 \in Piece(o)
            BY <1>1, <2>3, <2>4 DEF Piece
        <3>2. PICK q \in DOMAIN cl : p - 1 \in q .. Upper(cl, q) - 1
            BY <2>2, <3>1 DEF Bytes
        <3>3. q < p /\ Upper(cl, q) >= p
            BY <1>1, <3>2
        <3> QED BY <1>1, <3>3 DEF Compacted
    <2> QED BY <1>1, <2>2, <2>3, <2>4
<1>5. ASSUME NEW p \in DOMAIN cl PROVE Upper(cl, p) \in Ends
    <2> DEFINE u == Upper(cl, p)
    <2>1. u \in Nat /\ u - 1 \in p .. Upper(cl, p) - 1 /\ p < u
        BY <1>1
    <2>2. PICK o \in Starts : u - 1 \in Piece(o) /\ Piece(o) \subseteq Bytes(cl)
        BY <1>2, <1>3, <2>1
    <2>3. o \in Nat /\ PieceLen(o) \in Nat /\ o <= u - 1 /\ u - 1 < o + PieceLen(o)
        BY <2>2, PieceBounds DEF Piece
    <2>4. ASSUME u # o + PieceLen(o) PROVE FALSE
        <3>1. u \in Piece(o)
            BY <2>1, <2>3, <2>4 DEF Piece
        <3>2. PICK q \in DOMAIN cl : u \in q .. Upper(cl, q) - 1
            BY <2>2, <3>1 DEF Bytes
        <3>3. q \in Nat /\ q <= u /\ u < Upper(cl, q)
            BY <1>1, <3>2
        <3>4. CASE p < q
            BY <1>1, <3>3, <3>4 DEF Compacted
        <3>5. CASE q < p
            <4>1. Upper(cl, q) < p
                BY <3>5 DEF Compacted
            <4> QED BY <1>1, <2>1, <3>3, <4>1
        <3>6. CASE q = p
            BY <2>1, <3>3, <3>6
        <3> QED BY <1>1, <3>3, <3>4, <3>5, <3>6
    <2> QED BY <2>4, PieceBounds
<1> QED BY <1>4, <1>5 DEF Aligned

\* The insertion of a claim that starts and ends where pieces do.
LEMMA InsertAligned ==
    ASSUME NEW cl, ClaimSet(cl), Aligned(cl), NEW off \in Starts, NEW len \in Nat \ {0},
           off + len \in Ends
    PROVE  Aligned(InsertClaim(cl, off, len))
<1> DEFINE r == Recorded(cl, off, len)
           c == CompactClaims(r)
<1>1. InsertClaim(cl, off, len) = c
    BY DEF InsertClaim, Recorded
<1>2. off \in Nat
    BY PieceBounds
<1>3. ClaimSet(r) /\ RecordedAs(cl, off, len, r)
    BY <1>2, RecordedCases
<1> HIDE DEF r
<1>4. Aligned(r)
    BY <1>3 DEF RecordedAs, Aligned
<1>5. /\ DOMAIN c \subseteq DOMAIN r
      /\ \A o \in DOMAIN c : \E m \in DOMAIN r : Upper(c, o) = Upper(r, m)
    <2>1. /\ DOMAIN c = {p \in DOMAIN r : ~Continues(r, p)}
          /\ \A o \in DOMAIN c : \E m \in RunOf(r, o) : Upper(c, o) = Upper(r, m)
        <3> HIDE DEF c
        <3> QED BY <1>3, CompactClaimsRuns DEF c
    <2> QED BY <2>1 DEF RunOf
<1> HIDE DEF c
<1>6. Aligned(c)
    BY <1>4, <1>5 DEF Aligned
<1> QED BY <1>1, <1>6

\* What each insertion keeps, StoreClaims keeps.
LEMMA StoreKeeps ==
    ASSUME NEW P, NEW cl \in P, NEW report, ClaimSet(report),
           \A c \in P : ClaimSet(c),
           \A c \in P, o \in DOMAIN report : InsertClaim(c, o, report[o]) \in P
    PROVE  StoreClaims(cl, report) \in P
<1> DEFINE a == Ascending(DOMAIN report)
           n == Cardinality(DOMAIN report)
<1>1. n \in Nat /\ \A i \in 1 .. n : a[i] \in DOMAIN report
    BY ClaimSetDomain, AscendingLists DEF Lists
<1> HIDE DEF a, n
<1>2. PICK c, k : StoreRun(c, cl, report, a, n) /\ StoredUpTo(c, k, report, a, n)
                  /\ StoreClaims(cl, report) = c[k]
    BY StoreClaimsRun DEF a, n
<1>3. /\ c[0] = cl /\ \A i \in 1 .. n : c[i] = InsertClaim(c[i - 1], a[i], report[a[i]])
      /\ k \in 0 .. n
    BY <1>2 DEF StoreRun, StoredUpTo
<1> DEFINE S == {i \in Nat : i <= n => c[i] \in P}
<1>4. 0 \in S
    BY <1>3
<1>5. ASSUME NEW i \in Nat, i \in S PROVE i + 1 \in S
    <2> SUFFICES ASSUME i + 1 <= n PROVE c[i + 1] \in P
        OBVIOUS
    <2>1. i + 1 \in 1 .. n /\ (i + 1) - 1 = i /\ c[i] \in P
        BY <1>1, <1>5
    <2>2. c[i + 1] = InsertClaim(c[i], a[i + 1], report[a[i + 1]])
        BY <1>3, <2>1
    <2> QED BY <1>1, <2>1, <2>2
<1> HIDE DEF S
<1>6. Nat \subseteq S
    BY <1>4, <1>5, AllNat
<1>7. k \in S /\ k <= n
    BY <1>1, <1>3, <1>6
<1> QED BY <1>2, <1>7 DEF S

\* Aligned claims of a report, filed among aligned ones.
LEMMA StoreAligned ==
    ASSUME NEW cl \in BlockClaims, NEW report \in BlockClaims, Aligned(cl), Aligned(report)
    PROVE  Aligned(StoreClaims(cl, report))
<1> DEFINE P == {c \in ClaimSets : Aligned(c)}
<1>1. ClaimSet(cl) /\ ClaimSet(report)
    BY BlockClaimsBounds
<1>2. cl \in P
    BY <1>1, ClaimSetsAll
<1>3. ASSUME NEW c \in P, NEW o \in DOMAIN report PROVE InsertClaim(c, o, report[o]) \in P
    <2>1. ClaimSet(c) /\ Aligned(c)
        BY ClaimSetsAll
    <2>2. o \in Nat /\ o \in Starts /\ report[o] \in Nat \ {0} /\ o + report[o] \in Ends
        BY <1>1, ClaimSetDomain DEF Aligned, Upper
    <2> HIDE DEF P
    <2>3. Aligned(InsertClaim(c, o, report[o]))
        BY <2>1, <2>2, InsertAligned
    <2>4. ClaimSet(InsertClaim(c, o, report[o]))
        BY <2>1, <2>2, InsertClaimBounds
    <2> QED BY <2>3, <2>4, ClaimSetsAll DEF P
<1>4. \A c \in P : ClaimSet(c)
    BY ClaimSetsAll
<1> HIDE DEF P
<1>5. StoreClaims(cl, report) \in P
    BY <1>1, <1>2, <1>3, <1>4, StoreKeeps
<1> QED BY <1>5 DEF P

\* What is missing of aligned claims, within the red part, starts with a piece.
LEMMA MissingStarts ==
    ASSUME NEW cl \in BlockClaims, Aligned(cl), ~Outside(FindMissingClaims(cl))
    PROVE  DOMAIN FindMissingClaims(cl) \subseteq Starts
<1> DEFINE f == FindMissingClaims(cl)
<1>1. ClaimSet(cl) /\ ClaimSet(f)
    BY BlockClaimsBounds, MissingNotEmpty
<1>2. DOMAIN f = {LastUpper(cl, o) : o \in GapsIn(cl)}
    BY DEF FindMissingClaims, GapsIn
<1>3. \A u \in DOMAIN f : u \in Nat /\ f[u] \in Nat \ {0} /\ u + f[u] <= RedLen
    BY <1>1, ClaimSetDomain, LtpSessionAssumption DEF Outside
<1> HIDE DEF f
<1>4. ASSUME NEW u \in DOMAIN f PROVE u \in Starts
    <2>1. PICK o \in DOMAIN cl : u = LastUpper(cl, o)
        BY <1>2 DEF GapsIn
    <2>2. u = 0 \/ u \in Ends
        BY <1>1, <2>1, LastUpperCases DEF Aligned
    <2>3. u \in Nat /\ u < RedLen
        BY <1>3, LtpSessionAssumption
    <2> QED BY <2>2, <2>3, MultipleSteps, LtpSessionAssumption DEF Ends, Starts, RedUnits
<1> QED BY <1>4 DEF f

\* The segments that carry one of the pieces that start in U.  A checkpoint
\* of the first transmission, which answers no report, ends the red part.
Pieces(U) ==
    {m \in Segs : /\ m.off \in Starts /\ m.off \in U /\ m.len = PieceLen(m.off)
                  /\ m.type \in CheckpointTypes => m.off + m.len = RedLen \/ m.rp # NoSerial}

\* One of the segments asks for a report.
SomeCheckpoint(q) == \E i \in DOMAIN q : q[i].type \in CheckpointTypes

\* A gap of the red part is sent again piece by piece, and with the serial
\* number of a report, or up to the end, it asks for the next one.
LEMMA GapCut ==
    ASSUME NEW o \in Starts, NEW len \in Nat \ {0}, o + len <= RedLen, NEW s \in Nat
    PROVE  LET q == EncapsulateBlockData(RedLen, RedLen, o, len, s)
           IN  /\ q \in Seq(Pieces(o .. o + len - 1))
               /\ s # NoSerial \/ (o + len = RedLen /\ ~Multiple(RedLen)) => SomeCheckpoint(q)
<1> DEFINE size == o + len
           q == EncapsulateBlockData(RedLen, RedLen, o, len, s)
<1>1. /\ RedLen \in Nat /\ RedLen \in 0 .. BlockLen /\ o \in Nat /\ Multiple(o) /\ size \in Nat
      /\ size \in 0 .. BlockLen /\ o < size /\ size <= RedLen
      /\ size = o + (IF len = 0 THEN RedLen ELSE len) /\ len \in Nat
    BY PieceBounds, LtpSessionAssumption DEF Starts
<1> HIDE DEF size
<1> HIDE DEF q
<1>a. IsCut(EncapsulateBlockData(RedLen, RedLen, o, len, s), RedLen, size, o, len, s)
    BY <1>1, BlockIsCut
<1>2. PICK offset, n :
          /\ CutAt(offset, n, RedLen, size, o)
          /\ EncapsulateBlockData(RedLen, RedLen, o, len, s)
                = SegmentsAt(offset, n, RedLen, size, len, s)
    BY <1>a DEF IsCut
<1> DEFINE r == SegmentsAt(offset, n, RedLen, size, len, s)
<1>3. r \in Seq(Segs) /\ CutInto(r, offset, n, RedLen, size, len, s)
    BY <1>1, <1>2, CutInBlock, SegmentFields
<1>4. q = r
    BY <1>2 DEF q, r
<1> HIDE DEF r
<1>5. /\ n \in Nat \ {0} /\ offset[1] = o /\ offset[n + 1] >= size
      /\ \A i \in 1 .. n : /\ offset[i] \in Nat /\ offset[i] < size
                           /\ offset[i + 1] = offset[i] + SegmentLength(RedLen, size, offset[i])
    BY <1>2 DEF CutAt
<1>6. /\ Len(r) = n /\ DOMAIN r = 1 .. n
      /\ \A i \in 1 .. n :
            /\ r[i].off = offset[i] /\ r[i].len = SegmentLength(RedLen, size, offset[i])
            /\ r[i].type = SegmentType(RedLen, size, len, s, RedEnded(offset, RedLen, i), offset[i])
    <2>1. Len(r) = n /\ r \in Seq(Segs)
        BY <1>3 DEF CutInto
    <2>2. DOMAIN r = 1 .. n
        BY <2>1
    <2> QED BY <1>3, <2>1, <2>2 DEF CutInto
<1>7. \A i \in 1 .. n : offset[i] \in Starts
    <2>1. \A i \in 1 .. n : Multiple(offset[i])
        BY <1>1, <1>2, <1>5, CutStarts
    <2> QED BY <1>1, <1>5, <2>1 DEF Starts, RedUnits
<1>8. \A i \in 1 .. n : ~EndsBlock(RedLen, size, offset[i]) /\ SegmentLength(RedLen, size, offset[i]) = PieceLen(offset[i])
    <2>1. ASSUME NEW i \in 1 .. n
          PROVE  ~EndsBlock(RedLen, size, offset[i])
                 /\ SegmentLength(RedLen, size, offset[i]) = PieceLen(offset[i])
        <3>1. offset[i] \in Nat /\ offset[i] < RedLen
            BY <1>1, <1>5
        <3> QED BY <1>1, <3>1, CapacityAssumption DEF EndsBlock, EndsRed, SegmentLength, PieceLen
    <2> QED BY <2>1
<1>9. ASSUME NEW i \in 1 .. n PROVE offset[i] >= o
    <2> DEFINE S == {k \in Nat : k + 1 <= n => offset[k + 1] >= o}
    <2>1. 0 \in S
        BY <1>1, <1>5
    <2>2. ASSUME NEW k \in Nat, k \in S PROVE k + 1 \in S
        <3> SUFFICES ASSUME k + 2 <= n PROVE offset[k + 2] >= o
            <4>1. (k + 1) + 1 = k + 2
                OBVIOUS
            <4> QED BY <4>1
        <3>1. k + 1 \in 1 .. n /\ (k + 1) + 1 = k + 2 /\ offset[k + 1] >= o
            BY <1>5, <2>2
        <3>2. PieceLen(offset[k + 1]) \in Nat /\ offset[k + 1] \in Nat
            BY <1>5, <1>7, <3>1, PieceBounds
        <3>3. offset[k + 2] = offset[k + 1] + PieceLen(offset[k + 1])
            BY <1>5, <1>8, <3>1
        <3> QED BY <1>1, <3>1, <3>2, <3>3
    <2> HIDE DEF S
    <2>3. Nat \subseteq S
        BY <2>1, <2>2, AllNat
    <2>4. i - 1 \in S /\ (i - 1) + 1 = i
        BY <1>5, <2>3
    <2> QED BY <2>4 DEF S
<1>10. q \in Seq(Pieces(o .. size - 1))
    <2>1. ASSUME NEW i \in 1 .. n PROVE r[i] \in Pieces(o .. size - 1)
        <3>1. r[i] \in Segs
            BY <1>3, <1>6
        <3>2. offset[i] \in Nat /\ offset[i] < RedLen /\ offset[i] \in o .. size - 1
            BY <1>1, <1>5, <1>9
        <3>3. /\ r[i].type \in CheckpointTypes =>
                     EndsRed(RedLen, offset[i]) \/ (r[i].type = "RD_CP" /\ s # NoSerial)
              /\ r[i].type = "RD_CP" => r[i].rp = s
            <4>1. /\ r[i].off = offset[i] /\ r[i].rp = IF r[i].type \in {"RD_CP", "RD_CP_EORP"} THEN s ELSE NoSerial
                BY <1>3, <1>5, <1>6 DEF CutInto
            <4> QED BY <1>6, <1>8, <4>1 DEF SegmentType, CheckpointTypes, RedTypes, AsksReport
        <3>4. EndsRed(RedLen, offset[i]) => r[i].off + r[i].len = RedLen
            BY <1>1, <1>6, <1>8, <3>2, CapacityAssumption DEF EndsRed, PieceLen
        <3> QED BY <1>6, <1>7, <1>8, <3>1, <3>2, <3>3, <3>4 DEF Pieces
    <2>2. r \in [1 .. n -> Pieces(o .. size - 1)]
        BY <1>3, <1>6, <2>1
    <2> QED BY <1>4, <1>5, <2>2
<1>11. ASSUME s # NoSerial \/ (o + len = RedLen /\ ~Multiple(RedLen)) PROVE SomeCheckpoint(q)
    <2> DEFINE p == offset[n]
    <2>1. /\ n \in 1 .. n /\ p \in Starts /\ p \in Nat /\ ~EndsBlock(RedLen, size, p)
          /\ p + PieceLen(p) >= size /\ p < RedLen
        <3>1. n \in 1 .. n
            BY <1>5
        <3>2. p \in Starts /\ p \in Nat /\ ~EndsBlock(RedLen, size, p) /\ offset[n + 1] = p + PieceLen(p)
            BY <1>5, <1>7, <1>8, <3>1
        <3> QED BY <1>1, <1>5, <3>1, <3>2
    <2>2. r[n].type = SegmentType(RedLen, size, len, s, RedEnded(offset, RedLen, n), p)
        BY <1>6, <2>1
    <2>3. PieceLen(p) <= Capacity /\ PieceLen(p) \in Nat
        BY <2>1, PieceBounds, CapacityAssumption
    <2> HIDE DEF p
    <2>4. CASE EndsRed(RedLen, p)
        <3>1. r[n].type \in CheckpointTypes
            BY <2>1, <2>2, <2>4 DEF SegmentType, CheckpointTypes, RedTypes
        <3> QED BY <1>4, <1>6, <2>1, <3>1 DEF SomeCheckpoint
    <2>5. CASE ~EndsRed(RedLen, p) /\ s # NoSerial
        <3>1. AsksReport(len, s, p)
            BY <1>1, <2>1, <2>3, <2>5, CapacityAssumption DEF AsksReport, size
        <3>2. RedLen # 0
            BY <2>1
        <3>3. r[n].type \in CheckpointTypes
            BY <2>1, <2>2, <2>5, <3>1, <3>2 DEF SegmentType, CheckpointTypes, RedTypes
        <3> QED BY <1>4, <1>6, <2>1, <3>3 DEF SomeCheckpoint
    <2>6. CASE ~EndsRed(RedLen, p) /\ o + len = RedLen /\ ~Multiple(RedLen)
        <3>1. p + Capacity <= RedLen /\ size = RedLen
            BY <1>1, <2>1, <2>6, CapacityAssumption DEF EndsRed, size
        <3>2. RedLen = p + Capacity
            BY <1>1, <2>1, <2>3, <3>1, CapacityAssumption
        <3>3. Multiple(p + Capacity)
            BY <2>1, MultipleSteps DEF Starts
        <3> QED BY <2>6, <3>2, <3>3
    <2> QED BY <1>11, <2>4, <2>5, <2>6
<1>12. q \in Seq(Pieces(o .. o + len - 1))
    <2> DEFINE last == size - 1
    <2>1. o \in Nat
        BY <1>1
    <2>2. last = o + len - 1
        BY <2>1 DEF size
    <2>3. q \in Seq(Pieces(o .. last))
        BY <1>10
    <2> HIDE DEF last
    <2> QED BY <2>2, <2>3, Zenon
<1> QED BY <1>11, <1>12 DEF q

\* What is sent again of claims that start with pieces.
Again(claims, rp, q) ==
    /\ q \in Seq(Pieces(Bytes(claims)))
    /\ \/ rp # NoSerial /\ claims # NoClaims
       \/ ~Multiple(RedLen) /\ \E o \in DOMAIN claims : DOMAIN claims = {o} /\ Upper(claims, o) = RedLen
       => SomeCheckpoint(q)

\* What is cut for retransmission from reported claims is made of pieces of the red part.
LEMMA AgainPieces ==
    ASSUME NEW claims, ClaimSet(claims), ~Outside(claims), DOMAIN claims \subseteq Starts,
           NEW rp \in Nat
    PROVE  Again(claims, rp, SegmentsOf(claims, rp))
<1> DEFINE offs == Ascending(DOMAIN claims)
           n == Cardinality(DOMAIN claims)
           serial(i) == IF i = Len(offs) THEN rp ELSE NoSerial
           parts == [i \in 1 .. n |->
                       EncapsulateBlockData(RedLen, RedLen, offs[i], claims[offs[i]], serial(i))]
           V == Pieces(Bytes(claims))
<1>1. n \in Nat /\ offs \in [1 .. n -> DOMAIN claims] /\ \A o \in DOMAIN claims : \E i \in 1 .. n : offs[i] = o
    BY ClaimSetDomain, AscendingLists DEF Lists
<1>2. Len(offs) = n
    BY <1>1 DEF Ascending
<1>3. SegmentsOf(claims, rp) = FlattenSeq(parts)
    BY <1>2 DEF SegmentsOf
<1> HIDE DEF offs, n
<1>4. ASSUME NEW i \in 1 .. n
      PROVE  /\ parts[i] \in Seq(V)
             /\ serial(i) # NoSerial \/ (offs[i] + claims[offs[i]] = RedLen /\ ~Multiple(RedLen))
                   => SomeCheckpoint(parts[i])
    <2> DEFINE o == offs[i]
               l == claims[o]
               s == serial(i)
    <2>1. o \in Starts /\ o \in DOMAIN claims /\ l \in Nat \ {0} /\ o + l <= RedLen /\ o \in Nat
        BY <1>1, ClaimSetDomain, LtpSessionAssumption DEF Outside
    <2>2. s \in Nat
        BY DEF NoSerial
    <2>3. parts[i] = EncapsulateBlockData(RedLen, RedLen, o, l, s)
        OBVIOUS
    <2>4. o .. o + l - 1 \subseteq Bytes(claims)
        BY <2>1 DEF Bytes, Upper
    <2> HIDE DEF parts, s, o, l
    <2>5. /\ parts[i] \in Seq(Pieces(o .. o + l - 1))
          /\ s # NoSerial \/ (o + l = RedLen /\ ~Multiple(RedLen)) => SomeCheckpoint(parts[i])
        BY <2>1, <2>2, <2>3, GapCut
    <2>6. Pieces(o .. o + l - 1) \subseteq V
        BY <2>4 DEF Pieces
    <2> HIDE DEF V
    <2>7. parts[i] \in Seq(V)
        BY <2>5, <2>6
    <2> QED BY <2>5, <2>7 DEF o, l, s
<1> HIDE DEF parts, V
<1>5. parts \in Seq(Seq(V)) /\ Len(parts) = n /\ DOMAIN parts = 1 .. n
    <2>1. parts \in [1 .. n -> Seq(V)]
        BY <1>4 DEF parts
    <2> QED BY <1>1, <2>1
<1>6. /\ FlattenSeq(parts) \in Seq(V)
      /\ ToSet(FlattenSeq(parts)) = UNION {ToSet(parts[i]) : i \in 1 .. n}
    BY <1>5, FlattenElements
<1>7. ASSUME NEW i \in 1 .. n, SomeCheckpoint(parts[i]) PROVE SomeCheckpoint(FlattenSeq(parts))
    <2>1. PICK j \in DOMAIN parts[i] : parts[i][j].type \in CheckpointTypes
        BY <1>7 DEF SomeCheckpoint
    <2>2. parts[i][j] \in ToSet(parts[i])
        BY DEF ToSet
    <2>3. parts[i][j] \in ToSet(FlattenSeq(parts))
        BY <1>6, <2>2
    <2> QED BY <2>1, <2>3 DEF ToSet, SomeCheckpoint
<1>8. ASSUME rp # NoSerial, claims # NoClaims PROVE SomeCheckpoint(FlattenSeq(parts))
    <2>1. DOMAIN claims # {}
        <3> SUFFICES ASSUME DOMAIN claims = {} PROVE FALSE
            OBVIOUS
        <3>1. claims = [o \in {} |-> claims[o]]
            BY DEF ClaimSet
        <3> QED BY <1>8, <3>1 DEF NoClaims
    <2>2. n \in 1 .. n
        BY <1>1, <2>1
    <2>3. serial(n) = rp
        BY <1>2
    <2> QED BY <1>4, <1>7, <1>8, <2>2, <2>3
<1>9. ASSUME ~Multiple(RedLen), NEW o \in DOMAIN claims, Upper(claims, o) = RedLen
      PROVE  SomeCheckpoint(FlattenSeq(parts))
    <2>1. PICK i \in 1 .. n : offs[i] = o
        BY <1>1
    <2> QED BY <1>4, <1>7, <1>9, <2>1 DEF Upper
<1> HIDE DEF serial
<1> QED BY <1>3, <1>6, <1>8, <1>9 DEF Again, V

\* What a queue of the sender or the path may hold of the block when the
\* receiver holds `held': red segments carry pieces, and only a checkpoint
\* that ends the red part is sent before a report claimed that end.
DataSound(held) ==
    {m \in Segs :
        /\ m.type \in RedTypes => m.off \in Starts /\ m.len = PieceLen(m.off)
        /\ m.type \in CheckpointTypes =>
               m.off + m.len = RedLen \/ (m.rp # NoSerial /\ RedLen - 1 \in held)}

\* The first transmission is sound, and if the red part does not end with a
\* full segment, its last segment is a checkpoint.
LEMMA FirstPieces ==
    ASSUME RedEndsApart
    PROVE  LET block == EncapsulateBlockData(RedLen, BlockLen, 0, 0, NoSerial)
           IN  /\ block \in Seq(DataSound({}))
               /\ ~Multiple(RedLen) => SomeCheckpoint(block)
<1> DEFINE block == EncapsulateBlockData(RedLen, BlockLen, 0, 0, NoSerial)
<1>1. /\ RedLen \in Nat /\ RedLen \in 0 .. BlockLen /\ BlockLen \in Nat \ {0} /\ 0 < BlockLen
      /\ BlockLen = 0 + (IF 0 = 0 THEN BlockLen ELSE 0) /\ NoSerial \in Nat
      /\ Capacity \in Nat \ {0}
    BY LtpSessionAssumption, CapacityAssumption DEF NoSerial
<1>2. IsCut(block, RedLen, BlockLen, 0, 0, NoSerial)
    BY <1>1, BlockIsCut
<1>3. PICK offset, n : /\ CutAt(offset, n, RedLen, BlockLen, 0)
                       /\ block = SegmentsAt(offset, n, RedLen, BlockLen, 0, NoSerial)
    BY <1>2 DEF IsCut
<1> HIDE DEF block
<1>4. block \in Seq(Segs) /\ CutInto(block, offset, n, RedLen, BlockLen, 0, NoSerial)
    BY <1>1, <1>3, CutInBlock, SegmentFields
<1>5. /\ n \in Nat \ {0} /\ n \in 1 .. n /\ offset[n + 1] >= BlockLen
      /\ \A i \in 1 .. n : /\ offset[i] \in Nat /\ offset[i] < BlockLen
                           /\ offset[i + 1] = offset[i] + SegmentLength(RedLen, BlockLen, offset[i])
    BY <1>3 DEF CutAt
<1>6. /\ DOMAIN block = 1 .. n
      /\ \A i \in 1 .. n :
            /\ block[i].off = offset[i] /\ block[i].len = SegmentLength(RedLen, BlockLen, offset[i])
            /\ block[i].type = SegmentType(RedLen, BlockLen, 0, NoSerial, RedEnded(offset, RedLen, i), offset[i])
    BY <1>4 DEF CutInto
<1>7. /\ \A i \in 1 .. n : offset[i] < RedLen => offset[i] \in Starts
      /\ RedLen # 0 /\ RedLen # BlockLen =>
            \A i \in 1 .. n : offset[i] >= RedLen => RedEnded(offset, RedLen, i)
    <2>1. Multiple(0) /\ 0 \in Nat /\ BlockLen \in Nat
        BY <1>1, MultipleSteps
    <2>2. /\ \A i \in 1 .. n : offset[i] < RedLen => Multiple(offset[i])
          /\ 0 < RedLen /\ ~Multiple(RedLen) =>
                \A i \in 1 .. n : offset[i] >= RedLen => RedEnded(offset, RedLen, i)
        BY <1>3, <2>1, CutStarts
    <2> QED BY <1>1, <1>5, <2>2 DEF Starts, RedUnits, RedEndsApart
<1>8. ASSUME NEW i \in 1 .. n PROVE block[i] \in DataSound({})
    <2> DEFINE m == block[i]
               o == offset[i]
               ended == RedEnded(offset, RedLen, i)
    <2>1. m \in Segs /\ m.off = o /\ m.len = SegmentLength(RedLen, BlockLen, o) /\ o \in Nat /\ o < BlockLen
        BY <1>4, <1>5, <1>6
    <2>2. m.type = SegmentType(RedLen, BlockLen, 0, NoSerial, ended, o)
        BY <1>6
    <2>3. /\ o < RedLen => o \in Starts
          /\ RedLen # 0 /\ RedLen # BlockLen /\ o >= RedLen => ended
        BY <1>7
    <2> HIDE DEF m, o, ended
    <2>4. CASE EndsBlock(RedLen, BlockLen, o)
        <3>1. m.type = "GD_EOB"
            BY <2>2, <2>4 DEF SegmentType
        <3> QED BY <2>1, <3>1 DEF DataSound, RedTypes, CheckpointTypes, m
    <2>5. CASE ~EndsBlock(RedLen, BlockLen, o) /\ EndsRed(RedLen, o)
        <3>1. o < RedLen /\ m.len = RedLen - o /\ PieceLen(o) = RedLen - o
            BY <2>1, <2>5 DEF EndsRed, SegmentLength, PieceLen
        <3>2. m.off + m.len = RedLen
            BY <1>1, <2>1, <3>1
        <3> QED BY <2>1, <2>3, <3>1, <3>2 DEF DataSound, m
    <2>6. CASE ~EndsBlock(RedLen, BlockLen, o) /\ ~EndsRed(RedLen, o)
        <3>1. m.type = IF RedLen = 0 \/ ended THEN "GD" ELSE "RD"
            BY <2>2, <2>6 DEF SegmentType, AsksReport
        <3>2. m.type = "RD" => o < RedLen
            BY <1>1, <2>1, <2>3, <3>1
        <3>3. m.type = "RD" => m.len = PieceLen(o)
            BY <1>1, <2>1, <2>6, <3>2 DEF SegmentLength, PieceLen, EndsRed
        <3> QED BY <2>1, <2>3, <3>1, <3>2, <3>3 DEF DataSound, RedTypes, CheckpointTypes, m
    <2> QED BY <2>4, <2>5, <2>6 DEF m
<1>9. block \in Seq(DataSound({}))
    <2>1. block \in [1 .. n -> DataSound({})]
        BY <1>4, <1>6, <1>8
    <2> QED BY <1>5, <2>1
<1>10. ASSUME ~Multiple(RedLen) PROVE SomeCheckpoint(block)
    <2>1. RedLen # 0
        BY <1>10, MultipleSteps
    <2>2. \E j \in 1 .. n : EndsRed(RedLen, offset[j])
        <3>1. CASE offset[n] >= RedLen /\ RedLen # BlockLen
            BY <1>5, <1>7, <2>1, <3>1 DEF RedEnded
        <3>2. CASE offset[n] < RedLen
            <4> SUFFICES ASSUME ~EndsRed(RedLen, offset[n]) PROVE FALSE
                BY <1>5
            <4>1. offset[n] \in Nat /\ offset[n] + Capacity <= RedLen
                BY <1>1, <1>5, <3>2 DEF EndsRed
            <4>2. offset[n + 1] = offset[n] + Capacity
                BY <1>1, <1>5, <3>2, <4>1 DEF SegmentLength, EndsBlock, EndsRed
            <4>3. RedLen = offset[n] + Capacity
                BY <1>1, <1>5, <4>1, <4>2
            <4>4. offset[n] \in Starts
                BY <1>5, <1>7, <3>2
            <4>5. Multiple(offset[n] + Capacity)
                BY <4>4, MultipleSteps DEF Starts
            <4> QED BY <1>10, <4>3, <4>5
        <3> QED BY <1>1, <1>5, <3>1, <3>2
    <2>3. PICK j \in 1 .. n : EndsRed(RedLen, offset[j])
        BY <2>2
    <2>4. ~EndsBlock(RedLen, BlockLen, offset[j])
        BY <1>1, <1>5, <2>3 DEF EndsBlock, EndsRed
    <2>5. block[j].type \in CheckpointTypes
        <3>1. block[j].type = SegmentType(RedLen, BlockLen, 0, NoSerial, RedEnded(offset, RedLen, j), offset[j])
            BY <1>6, <2>3
        <3> QED BY <2>3, <2>4, <3>1 DEF SegmentType, CheckpointTypes, RedTypes
    <2> QED BY <1>6, <2>5 DEF SomeCheckpoint
<1> QED BY <1>9, <1>10 DEF block

----------------------------------------------------------------------------
(* What the client is given was handed up.                                 *)

\* Notices of data units in U.
Notices(U) == [code : {"RED_PART_RCV", "GP_SEGMENT_RCV"}, data : Seq(U), eob : BOOLEAN]

\* The units of a segment, in order.
LEMMA UnitsRun ==
    ASSUME NEW off \in Nat, NEW len \in Nat
    PROVE  /\ Units(off, len) \in Seq(off .. off + len - 1)
           /\ Len(Units(off, len)) = len
           /\ \A i \in 1 .. len : Units(off, len)[i] = off + i - 1
           /\ ToSet(Units(off, len)) = off .. off + len - 1
<1> DEFINE u == Units(off, len)
<1>1. u = [i \in 1 .. len |-> off + i - 1]
    BY DEF Units
<1>2. u \in [1 .. len -> off .. off + len - 1]
    BY <1>1
<1>3. \A i \in 1 .. len : u[i] = off + i - 1
    BY <1>1
<1> HIDE DEF u
<1>4. u \in Seq(off .. off + len - 1) /\ Len(u) = len /\ DOMAIN u = 1 .. len
    BY <1>2
<1>5. ASSUME NEW v \in off .. off + len - 1 PROVE v \in ToSet(u)
    <2>1. v - off + 1 \in 1 .. len /\ off + (v - off + 1) - 1 = v
        OBVIOUS
    <2> QED BY <1>3, <1>4, <2>1 DEF ToSet
<1>6. ToSet(u) \subseteq off .. off + len - 1
    BY <1>2, <1>4 DEF ToSet
<1> QED BY <1>3, <1>4, <1>5, <1>6 DEF u

\* What is known of the notice of the red part.
RedPartOf(n) ==
    /\ n.code = "RED_PART_RCV" /\ n \in Notices(UnitsStored) /\ ToSet(n.data) = UnitsStored
    /\ DOMAIN red = {} => n.data = <<>>

\* The client is given the units in the red buffer, and no others.
LEMMA RedPartUnits ==
    ASSUME red \in RedBuffers
    PROVE  RedPartOf(RedPart)
<1> DEFINE D == DOMAIN red
           offs == Ascending(D)
           n == Cardinality(D)
           parts == [i \in 1 .. n |-> Units(offs[i], red[offs[i]].len)]
           V == UnitsStored
<1>1. /\ D \subseteq 0 .. BlockLen - 1
      /\ \A o \in D : red[o].len \in 1 .. Capacity /\ red[o].type \in RedTypes
    BY DEF RedBuffers, Buffers
<1>2. D \subseteq Nat /\ IsFiniteSet(D)
    <2> DEFINE R == 0 .. BlockLen - 1
    <2>1. IsFiniteSet(R) /\ R \subseteq Nat
        BY FS_Interval, LtpSessionAssumption
    <2>2. D \subseteq R
        BY <1>1
    <2> HIDE DEF R, D
    <2>3. IsFiniteSet(D)
        BY <2>1, <2>2, FS_Subset
    <2> QED BY <2>1, <2>2, <2>3
<1>3. n \in Nat /\ Lists(offs, D)
    BY <1>2, AscendingLists
<1>4. offs \in [1 .. n -> D] /\ \A o \in D : \E i \in 1 .. n : offs[i] = o
    BY <1>3 DEF Lists
<1>5. Len(offs) = n
    BY <1>3, <1>4
<1>6. RedPart = Notice("RED_PART_RCV", FlattenSeq(parts),
                       offs # <<>> /\ red[Last(offs)].type = "RD_CP_EORP_EOB")
    BY <1>5 DEF RedPart
<1>7. \A o \in D : o \in Nat /\ red[o].len \in Nat
    BY <1>1, <1>2, CapacityAssumption
<1> HIDE DEF D, offs, n, V
<1>8. ASSUME NEW i \in 1 .. n
      PROVE  /\ parts[i] \in Seq(V)
             /\ ToSet(parts[i]) = offs[i] .. offs[i] + red[offs[i]].len - 1
    <2>1. offs[i] \in D /\ offs[i] \in Nat /\ red[offs[i]].len \in Nat
        BY <1>4, <1>7
    <2>2. offs[i] .. offs[i] + red[offs[i]].len - 1 \subseteq V
        BY <2>1 DEF V, UnitsStored, D
    <2> DEFINE s == parts[i]
               r == offs[i] .. offs[i] + red[offs[i]].len - 1
    <2>3. s \in Seq(r) /\ ToSet(s) = r
        BY <2>1, UnitsRun
    <2>4. r \subseteq V
        BY <2>2
    <2> HIDE DEF s, r
    <2>5. s \in Seq(V)
        BY <2>3, <2>4
    <2> QED BY <2>3, <2>5 DEF s, r
<1>9. parts \in Seq(Seq(V)) /\ Len(parts) = n
    <2>1. parts \in [1 .. n -> Seq(V)]
        BY <1>8
    <2> QED BY <1>3, <2>1
<1>10. /\ FlattenSeq(parts) \in Seq(V)
       /\ ToSet(FlattenSeq(parts)) = UNION {ToSet(parts[i]) : i \in 1 .. n}
    <2> HIDE DEF parts
    <2> QED BY <1>9, FlattenElements
<1>11. UNION {ToSet(parts[i]) : i \in 1 .. n} = V
    <2> HIDE DEF parts
    <2>1. UNION {ToSet(parts[i]) : i \in 1 .. n}
            = UNION {offs[i] .. offs[i] + red[offs[i]].len - 1 : i \in 1 .. n}
        BY <1>8
    <2>2. V = UNION {o .. o + red[o].len - 1 : o \in D}
        BY DEF V, UnitsStored, D
    <2> QED BY <1>4, <2>1, <2>2
<1>12. D = {} => FlattenSeq(parts) = <<>>
    <2> SUFFICES ASSUME D = {} PROVE FlattenSeq(parts) = <<>>
        OBVIOUS
    <2>1. n = 0
        BY FS_EmptySet DEF n
    <2> QED BY <2>1 DEF FlattenSeq
<1> DEFINE data == FlattenSeq(parts)
           eob == offs # <<>> /\ red[Last(offs)].type = "RD_CP_EORP_EOB"
<1>13. eob \in BOOLEAN /\ data \in Seq(V) /\ ToSet(data) = V /\ (D = {} => data = <<>>)
    BY <1>10, <1>11, <1>12
<1>14. RedPart = [code |-> "RED_PART_RCV", data |-> data, eob |-> eob]
    BY <1>6 DEF Notice
<1> HIDE DEF data, eob, parts
<1> QED BY <1>13, <1>14 DEF RedPartOf, Notices, V, D

\* The units in a red buffer.
StoredIn(f) == UNION {o .. o + f[o].len - 1 : o \in DOMAIN f}

\* A segment adds its units to the buffer, unless its offset is taken.
InsertedTo(f, g, off, len, type) ==
    /\ off \in DOMAIN f => StoredIn(g) = StoredIn(f)
    /\ off \notin DOMAIN f => StoredIn(g) = StoredIn(f) \union (off .. off + len - 1)
    /\ DOMAIN g = DOMAIN f \union {off}
    /\ \A o \in DOMAIN f : g[o] = f[o]
    /\ off \notin DOMAIN f => g[off] = [len |-> len, type |-> type]

\* That is what the insertion into the buffer does.
LEMMA InsertStored ==
    ASSUME NEW f, NEW off, NEW len, NEW type
    PROVE  InsertedTo(f, Insert(f, off, [len |-> len, type |-> type]), off, len, type)
<1> DEFINE v == [len |-> len, type |-> type]
           g == Insert(f, off, v)
<1>1. /\ DOMAIN g = DOMAIN f \union {off}
      /\ \A o \in DOMAIN f : g[o] = f[o]
      /\ off \notin DOMAIN f => g[off] = v
    BY DEF Insert
<1>2. v.len = len
    OBVIOUS
<1> HIDE DEF g, v
<1>3. CASE off \in DOMAIN f
    <2>1. DOMAIN g = DOMAIN f
        BY <1>1, <1>3
    <2>2. StoredIn(g) = StoredIn(f)
        BY <1>1, <2>1 DEF StoredIn
    <2> QED BY <1>1, <1>3, <2>2 DEF InsertedTo, g, v
<1>4. CASE off \notin DOMAIN f
    <2>1. StoredIn(g) = StoredIn(f) \union (off .. off + len - 1)
        <3>1. \A o \in DOMAIN f : o .. o + g[o].len - 1 = o .. o + f[o].len - 1
            BY <1>1
        <3>2. off .. off + g[off].len - 1 = off .. off + len - 1
            BY <1>1, <1>2, <1>4
        <3> DEFINE r(o) == o .. o + f[o].len - 1
                   s(o) == o .. o + g[o].len - 1
        <3>3. /\ StoredIn(f) = UNION {r(o) : o \in DOMAIN f}
              /\ StoredIn(g) = UNION {s(o) : o \in DOMAIN f \union {off}}
            BY <1>1 DEF StoredIn
        <3>4. \A o \in DOMAIN f : s(o) = r(o)
            BY <3>1
        <3>5. s(off) = off .. off + len - 1
            BY <3>2
        <3> HIDE DEF r, s
        <3> QED BY <3>3, <3>4, <3>5
    <2> QED BY <1>1, <1>4, <2>1 DEF InsertedTo, g, v
<1> QED BY <1>3, <1>4

\* The units the bundle protocol has seen.
HandedUnits == {u \in 0 .. BlockLen - 1 : handed[u] > 0}

\* Whatever is in the red buffer or was given away has been handed up.
HandedInv == UnitsStored \subseteq HandedUnits /\ delivered \in Seq(Notices(HandedUnits))

\* What the notices carry has been handed up.
LEMMA HandedInvImplies ==
    ASSUME HandedInv, NEW n \in ToSet(delivered), NEW u \in ToSet(n.data)
    PROVE  u \in HandedUnits
<1>1. n \in Notices(HandedUnits)
    BY DEF HandedInv, ToSet
<1>2. n.data \in Seq(HandedUnits)
    BY <1>1 DEF Notices
<1> QED BY <1>2 DEF ToSet

\* More units are handed up, more notices are accounted for.
LEMMA MoreNotices ==
    ASSUME NEW U, NEW W, U \subseteq W, NEW d \in Seq(Notices(U))
    PROVE  d \in Seq(Notices(W))
<1>1. Seq(U) \subseteq Seq(W)
    OBVIOUS
<1>2. Notices(U) \subseteq Notices(W)
    BY <1>1 DEF Notices
<1> QED BY <1>2

\* Every data segment that is stored or signalled is handed up with it.
LEMMA DataHandedUp == TypeInv /\ HandedInv /\ ReceiveData => HandedInv'
<1> SUFFICES ASSUME TypeInv, HandedInv, ReceiveData PROVE HandedInv'
    OBVIOUS
<1>1. PICK seg \in Segs :
          \/ Dropped("rcv")
          \/ DataRefused(seg)
          \/ \E t, stored, report : DataHandled(seg, t, stored, report)
    BY DataCases
<1>2. CASE Dropped("rcv") \/ DataRefused(seg)
    BY <1>2 DEF Dropped, DataRefused, Crash, HandedInv, HandedUnits, UnitsStored
<1>3. ASSUME NEW t, NEW stored, NEW report, DataHandled(seg, t, stored, report) PROVE HandedInv'
    <2> DEFINE R == seg.off .. seg.off + seg.len - 1
    <2>1. /\ seg.off \in Nat /\ seg.len \in Nat /\ seg.off + seg.len <= BlockLen /\ BlockLen \in Nat
          /\ seg.len \in 1 .. Capacity
        BY LtpSessionAssumption, CapacityAssumption DEF Segs
    <2>2. /\ handed \in [0 .. BlockLen - 1 -> Nat] /\ handed' = HandUp(seg, stored)
        BY <1>3 DEF DataHandled, TypeInv, BuffersType
    <2>3. HandedUnits \union R \subseteq HandedUnits'
        <3>1. \A u \in 0 .. BlockLen - 1 : handed'[u] = handed[u] + IF u \in R THEN 1 ELSE 0
            BY <2>2 DEF HandUp
        <3>2. R \subseteq 0 .. BlockLen - 1
            BY <2>1
        <3>3. \A u \in 0 .. BlockLen - 1 : handed[u] \in Nat
            BY <2>2
        <3> HIDE DEF R
        <3>4. ASSUME NEW u \in HandedUnits PROVE u \in HandedUnits'
            BY <3>1, <3>3, <3>4 DEF HandedUnits
        <3>5. ASSUME NEW u \in R PROVE u \in HandedUnits'
            BY <3>1, <3>2, <3>3, <3>5 DEF HandedUnits
        <3> QED BY <3>4, <3>5
    <2> DEFINE W == HandedUnits'
    <2>4. UnitsStored' \subseteq W
        <3>1. CASE stored
            <4>1. red' = Insert(red, seg.off, [len |-> seg.len, type |-> seg.type])
                BY <1>3, <3>1 DEF DataHandled
            <4>0. InsertedTo(red, red', seg.off, seg.len, seg.type)
                BY <4>1, InsertStored
            <4>2. StoredIn(red') \subseteq StoredIn(red) \union R
                BY <4>0 DEF InsertedTo
            <4>3. UnitsStored' = StoredIn(red') /\ UnitsStored = StoredIn(red)
                BY DEF UnitsStored, StoredIn
            <4> QED BY <2>3, <4>2, <4>3 DEF HandedInv
        <3>2. CASE ~stored
            <4>1. UnitsStored' = UnitsStored
                BY <1>3, <3>2 DEF DataHandled, UnitsStored
            <4> QED BY <2>3, <4>1 DEF HandedInv
        <3> QED BY <3>1, <3>2
    <2>5. delivered' \in Seq(Notices(W))
        <3> DEFINE n == Notice("GP_SEGMENT_RCV", Units(seg.off, seg.len), seg.type = "GD_EOB")
        <3>1. delivered \in Seq(Notices(W))
            BY <2>3, MoreNotices DEF HandedInv
        <3>2. n \in Notices(W)
            <4>1. Units(seg.off, seg.len) \in Seq(R)
                BY <2>1, UnitsRun
            <4>2. R \subseteq W
                BY <2>3
            <4> HIDE DEF R, W
            <4>3. Units(seg.off, seg.len) \in Seq(W)
                BY <4>1, <4>2
            <4> QED BY <4>3 DEF Notices, Notice
        <3>3. delivered' = delivered \/ delivered' = Append(delivered, n)
            BY <1>3 DEF DataHandled
        <3> HIDE DEF W, n
        <3> QED BY <3>1, <3>2, <3>3
    <2> QED BY <2>4, <2>5 DEF HandedInv
<1> QED BY <1>1, <1>2, <1>3

\* What the red buffer gives away was handed up as it came in.
LEMMA AckHandedUp == TypeInv /\ HandedInv /\ ReceiveReportAck => HandedInv'
<1> SUFFICES ASSUME TypeInv, HandedInv, ReceiveReportAck PROVE HandedInv'
    OBVIOUS
<1>1. PICK seg \in Acks : Dropped("rcv") \/ \E t, done : AckHandled(seg, t, done)
    BY AckCases
<1>2. CASE Dropped("rcv")
    BY <1>2 DEF Dropped, HandedInv, HandedUnits, UnitsStored
<1>3. ASSUME NEW t, NEW done, AckHandled(seg, t, done) PROVE HandedInv'
    <2>1. handed' = handed
        BY <1>3 DEF AckHandled
    <2>2. /\ red' = red \/ red' = [o \in {} |-> 0]
          /\ delivered' = delivered \/ delivered' = Append(delivered, RedPart)
        BY <1>3 DEF AckHandled
    <2>3. UnitsStored' \subseteq UnitsStored
        BY <2>2 DEF UnitsStored
    <2>4. RedPart \in Notices(HandedUnits)
        <3>1. RedPart \in Notices(UnitsStored)
            BY RedPartUnits DEF RedPartOf, TypeInv, BuffersType
        <3>2. RedPart.data \in Seq(UnitsStored)
            BY <3>1 DEF Notices
        <3>3. RedPart.data \in Seq(HandedUnits)
            BY <3>2 DEF HandedInv
        <3> QED BY <3>1, <3>3 DEF Notices
    <2>5. HandedUnits' = HandedUnits
        BY <2>1 DEF HandedUnits
    <2>6. delivered' \in Seq(Notices(HandedUnits))
        BY <2>2, <2>4 DEF HandedInv
    <2> QED BY <2>3, <2>5, <2>6 DEF HandedInv
<1> QED BY <1>1, <1>2, <1>3

\* No other step touches the buffer, the notices or the callback.
LEMMA BuffersUntouched ==
    ASSUME TypeInv, [Next]_vars, ~ReceiveData, ~ReceiveReportAck
    PROVE  UNCHANGED <<red, delivered, handed>>
<1>1. CASE UNCHANGED vars
    BY <1>1 DEF vars
<1>2. CASE StartTransmission
    BY <1>2 DEF StartTransmission
<1>3. CASE ReceiveReport
    <2>1. PICK seg \in Reports : ReportTaken(seg)
        BY <1>3, ReportCases
    <2> QED BY <2>1 DEF ReportTaken, ReportHandled, Dropped, Crash
<1>4. CASE CheckpointTimeout
    <2>1. Crash("snd") \/ \E info, t, again : CheckpointHandled(info, t, again)
        BY <1>4, CheckpointCases
    <2> QED BY <2>1 DEF CheckpointHandled, Crash
<1>5. CASE ReportTimeout
    <2>1. ReportRefused \/ \E t, again : ReportRepeated(t, again)
        BY <1>5, ReportTimeoutCases
    <2> QED BY <2>1 DEF ReportRepeated, ReportRefused, Crash
<1>6. ASSUME NEW e \in Engines,
             SetLinkUp(e) \/ Send(e) \/ ClosePostponed(e) \/ SessionInactive(e) \/ Lose(e)
      PROVE  UNCHANGED <<red, delivered, handed>>
    BY <1>6 DEF SetLinkUp, Send, ClosePostponed, SessionInactive, Lose
<1> QED BY <1>1, <1>2, <1>3, <1>4, <1>5, <1>6 DEF Next, Event

\* So it is from the start.
LEMMA InitHanded == Init => HandedInv
<1> SUFFICES ASSUME Init PROVE HandedInv
    OBVIOUS
<1>1. UnitsStored = {} /\ delivered = <<>>
    BY DEF Init, UnitsStored
<1> QED BY <1>1 DEF HandedInv

\* And after every step.
LEMMA NextHanded == TypeInv /\ HandedInv /\ [Next]_vars => HandedInv'
<1> SUFFICES ASSUME TypeInv, HandedInv, [Next]_vars PROVE HandedInv'
    OBVIOUS
<1>1. CASE UNCHANGED <<red, delivered, handed>>
    BY <1>1 DEF HandedInv, HandedUnits, UnitsStored
<1> QED BY <1>1, BuffersUntouched, DataHandedUp, AckHandedUp

----------------------------------------------------------------------------
(* What the receiver holds, what it reports and what the sender knows.     *)

\* The acknowledgments of reports, which claim the end of the red part.
AcksSound(held) == {m \in Acks : RedLen - 1 \in held}

\* Claims of what is held, made of pieces, up to the end of the red part.
ClaimsWell(cl, held) == Aligned(cl) /\ Bytes(cl) \subseteq held /\ RedLen - 1 \in Bytes(cl)

\* The reports that may be under way.
ReportsSound(held) ==
    {m \in Reports : m.rp # NoSerial /\ Compacted(m.claims) /\ ClaimsWell(m.claims, held)}

\* What the checkpoint timer would send again: one piece.
TimersSound(held) ==
    {i \in Infos : \E o \in Starts :
        /\ i.claims = [x \in {o} |-> PieceLen(o)]
        /\ o + PieceLen(o) = RedLen \/ (i.rp # NoSerial /\ RedLen - 1 \in held)}

\* What is queued and under way.
PathIs(data, acks, there, reports, back, held) ==
    /\ data \in Seq(DataSound(held)) /\ acks \in Seq(AcksSound(held))
    /\ there \in Seq(DataSound(held) \union AcksSound(held))
    /\ reports \in Seq(ReportsSound(held)) /\ back \in Seq(ReportsSound(held))

PathSound(held) ==
    PathIs(app["snd"], ops["snd"], wire["rcv"], ops["rcv"], wire["snd"], held)

\* What the sender knows of the receiver is true.
SenderSound(s, held) ==
    /\ s.redDone => RedUnits \subseteq held
    /\ \A n \in Nat : ClaimsOf(s, n) = NoClaims \/ ClaimsWell(ClaimsOf(s, n), held)
    /\ s.timer \subseteq TimersSound(held)

\* The receiver claims exactly what it holds.
RecordSound(s, held) ==
    /\ Compacted(ClaimsOf(s, s.rp)) /\ Bytes(ClaimsOf(s, s.rp)) = held
    /\ s.active => s.rp # NoSerial
    /\ ~s.active => ~s.redDone /\ held = {}
    /\ s.timer # {} => RedLen - 1 \in held

\* The buffer holds pieces until the red part is given away, once and whole.
StoreSound ==
    /\ \A o \in DOMAIN red : o \in Starts /\ red[o].len = PieceLen(o)
    /\ delivered \in Seq(Notices(Nat)) /\ RedPartIntact
    /\ IF ssr["rcv"].redDone
       THEN DOMAIN red = {} /\ UnitsGiven = RedUnits /\ RedDeliveries # {}
       ELSE RedDeliveries = {}

DataInv ==
    /\ PathSound(UnitsHeld) /\ SenderSound(ssr["snd"], UnitsHeld)
    /\ RecordSound(ssr["rcv"], UnitsHeld) /\ StoreSound

\* What was true when less was held stays true.
LEMMA HeldGrows ==
    ASSUME NEW held, NEW more, held \subseteq more
    PROVE  /\ DataSound(held) \subseteq DataSound(more) /\ AcksSound(held) \subseteq AcksSound(more)
           /\ ReportsSound(held) \subseteq ReportsSound(more)
           /\ TimersSound(held) \subseteq TimersSound(more)
           /\ \A cl : ClaimsWell(cl, held) => ClaimsWell(cl, more)
<1>1. \A cl : ClaimsWell(cl, held) => ClaimsWell(cl, more)
    BY DEF ClaimsWell
<1>2. DataSound(held) \subseteq DataSound(more) /\ AcksSound(held) \subseteq AcksSound(more)
    BY DEF DataSound, AcksSound
<1>3. ReportsSound(held) \subseteq ReportsSound(more)
    BY <1>1 DEF ReportsSound
<1>4. TimersSound(held) \subseteq TimersSound(more)
    BY DEF TimersSound
<1> QED BY <1>1, <1>2, <1>3, <1>4

\* A sound record of the sender stays sound.
LEMMA SenderGrows ==
    ASSUME NEW s, NEW held, NEW more, held \subseteq more, SenderSound(s, held)
    PROVE  SenderSound(s, more)
BY HeldGrows DEF SenderSound

\* So do the queues and the path.
LEMMA PathGrows ==
    ASSUME NEW held, NEW more, held \subseteq more, PathSound(held)
    PROVE  PathSound(more)
<1> DEFINE D == DataSound(held)
           E == DataSound(more)
           A == AcksSound(held)
           B == AcksSound(more)
           R == ReportsSound(held)
           Q == ReportsSound(more)
<1>1. D \subseteq E /\ A \subseteq B /\ R \subseteq Q /\ D \union A \subseteq E \union B
    BY HeldGrows
<1>2. /\ app["snd"] \in Seq(D) /\ ops["snd"] \in Seq(A) /\ wire["rcv"] \in Seq(D \union A)
      /\ ops["rcv"] \in Seq(R) /\ wire["snd"] \in Seq(R)
    BY DEF PathSound, PathIs
<1> HIDE DEF D, E, A, B, R, Q
<1> DEFINE DA == D \union A
           EB == E \union B
<1>3. DA \subseteq EB /\ wire["rcv"] \in Seq(DA)
    BY <1>1, <1>2
<1> HIDE DEF DA, EB
<1>4. Seq(D) \subseteq Seq(E) /\ Seq(A) \subseteq Seq(B) /\ Seq(R) \subseteq Seq(Q) /\ Seq(DA) \subseteq Seq(EB)
    BY <1>1, <1>3
<1>5. /\ app["snd"] \in Seq(E) /\ ops["snd"] \in Seq(B) /\ wire["rcv"] \in Seq(EB)
      /\ ops["rcv"] \in Seq(Q) /\ wire["snd"] \in Seq(Q)
    BY <1>2, <1>3, <1>4
<1> QED BY <1>5 DEF PathSound, PathIs, E, B, Q, EB

\* While the buffer holds pieces, so does what is held.
LEMMA HeldWhole ==
    ASSUME StoreSound
    PROVE  /\ Whole(UnitsHeld)
           /\ UnitsHeld = IF ssr["rcv"].redDone THEN RedUnits ELSE UnitsStored
<1>1. UnitsHeld = IF ssr["rcv"].redDone THEN RedUnits ELSE UnitsStored
    BY DEF StoreSound, UnitsHeld, UnitsStored, UnitsGiven
<1>2. Whole(RedUnits)
    BY PieceBounds DEF Whole
<1>3. Whole(UnitsStored)
    <2>1. UnitsStored = UNION {Piece(o) : o \in DOMAIN red}
        BY DEF StoreSound, UnitsStored, Piece
    <2>2. DOMAIN red \subseteq Starts
        BY DEF StoreSound
    <2>3. \A o \in DOMAIN red : Piece(o) \subseteq RedUnits
        BY <2>2, PieceBounds
    <2>4. ASSUME NEW o \in Starts PROVE Piece(o) \subseteq UnitsStored \/ Piece(o) \cap UnitsStored = {}
        BY <2>1, <2>2, PiecesApart
    <2> QED BY <2>1, <2>3, <2>4 DEF Whole
<1> QED BY <1>1, <1>2, <1>3

\* A step that leaves the buffer and the notices alone changes nothing held.
LEMMA StoreKept ==
    ASSUME StoreSound, UNCHANGED <<red, delivered>>, ssr'["rcv"].redDone = ssr["rcv"].redDone
    PROVE  StoreSound' /\ UnitsHeld' = UnitsHeld
<1>1. /\ UnitsStored' = UnitsStored /\ RedDeliveries' = RedDeliveries /\ UnitsGiven' = UnitsGiven
      /\ RedPartIntact' = RedPartIntact
    BY DEF UnitsStored, RedDeliveries, UnitsGiven, RedPartIntact, IsRedPart
<1> QED BY <1>1 DEF StoreSound, UnitsHeld

\* What a report claims is filed in whole, or on top of earlier claims.
LEMMA FiledWell ==
    ASSUME NEW held, NEW cl \in BlockClaims, cl = NoClaims \/ ClaimsWell(cl, held),
           NEW m \in ReportsSound(held)
    PROVE  ClaimsWell(StoreClaims(cl, m.claims), held)
<1>1. m.claims \in BlockClaims /\ Compacted(m.claims) /\ ClaimsWell(m.claims, held)
    BY DEF ReportsSound, Reports
<1>2. ClaimSet(cl) /\ ClaimSet(m.claims)
    BY <1>1, BlockClaimsBounds
<1>3. Aligned(NoClaims)
    BY DEF Aligned, NoClaims
<1>4. Aligned(cl) /\ Aligned(m.claims)
    BY <1>1, <1>3 DEF ClaimsWell
<1>5. Aligned(StoreClaims(cl, m.claims))
    BY <1>1, <1>4, StoreAligned
<1>6. /\ Bytes(cl) \subseteq Bytes(StoreClaims(cl, m.claims))
      /\ Bytes(StoreClaims(cl, m.claims)) \subseteq Bytes(cl) \union Bytes(m.claims)
    BY <1>2, StoreClaimsBounds
<1>7. CASE cl = NoClaims
    <2>1. Bytes(StoreClaims(cl, m.claims)) = Bytes(m.claims)
        BY <1>1, <1>2, <1>7, StoreClaimsWhole
    <2> QED BY <1>1, <1>5, <2>1 DEF ClaimsWell
<1>8. CASE ClaimsWell(cl, held)
    BY <1>1, <1>5, <1>6, <1>8 DEF ClaimsWell
<1> QED BY <1>7, <1>8

\* Claims up to the end of the red part with no gap in them are all of it.
LEMMA NothingLeft ==
    ASSUME NEW held, NEW cl \in BlockClaims, Bytes(cl) \subseteq held, RedLen - 1 \in Bytes(cl),
           FindMissingClaims(cl) = NoClaims
    PROVE  RedUnits \subseteq held
<1>1. ClaimSet(cl)
    BY BlockClaimsBounds
<1>2. 0 .. RedLen - 1 \subseteq Bytes(cl)
    BY <1>1, NothingMissing
<1> QED BY <1>2 DEF RedUnits

\* Once the end of the red part was claimed, any piece may be sent again.
LEMMA PiecesSound ==
    ASSUME NEW U, NEW held, RedLen - 1 \in held, NEW q \in Seq(Pieces(U))
    PROVE  q \in Seq(DataSound(held))
<1>1. Pieces(U) \subseteq DataSound(held)
    BY DEF Pieces, DataSound
<1> QED BY <1>1

\* What a report makes the sender send again.
Resent(q, held, asks) == q \in Seq(DataSound(held)) /\ (asks => SomeCheckpoint(q))

\* The gaps of a report are sent again as pieces, and the last one asks for
\* the next report.
LEMMA GapsResent ==
    ASSUME NEW held, NEW cl \in BlockClaims, ClaimsWell(cl, held), NEW rp \in Nat, rp # NoSerial,
           ~Outside(FindMissingClaims(cl))
    PROVE  Resent(SegmentsOf(FindMissingClaims(cl), rp), held, FindMissingClaims(cl) # NoClaims)
<1> DEFINE missing == FindMissingClaims(cl)
           q == SegmentsOf(missing, rp)
<1>1. ClaimSet(missing) /\ DOMAIN missing \subseteq Starts /\ ~Outside(missing)
    BY MissingNotEmpty, MissingStarts DEF ClaimsWell
<1> HIDE DEF missing
<1>2. Again(missing, rp, q)
    BY <1>1, AgainPieces
<1>3. RedLen - 1 \in held
    BY DEF ClaimsWell
<1> HIDE DEF q
<1>4. q \in Seq(Pieces(Bytes(missing))) /\ (missing # NoClaims => SomeCheckpoint(q))
    BY <1>2 DEF Again
<1>5. q \in Seq(DataSound(held))
    BY <1>3, <1>4, PiecesSound
<1> QED BY <1>4, <1>5 DEF Resent, q, missing

\* A checkpoint that times out is sent again, and is a checkpoint again.
LEMMA CheckpointResent ==
    ASSUME NEW held, NEW info \in TimersSound(held)
    PROVE  Resent(SegmentsOf(info.claims, info.rp), held, ~Multiple(RedLen))
<1> DEFINE q == SegmentsOf(info.claims, info.rp)
           c == info.claims
<1>1. info.rp \in Nat /\ c \in BlockClaims
    BY DEF TimersSound, Infos
<1>2. PICK o \in Starts :
          /\ c = [x \in {o} |-> PieceLen(o)]
          /\ o + PieceLen(o) = RedLen \/ (info.rp # NoSerial /\ RedLen - 1 \in held)
    BY DEF TimersSound
<1>3. ClaimSet(c)
    BY <1>1, BlockClaimsBounds
<1>4. DOMAIN c = {o} /\ c[o] = PieceLen(o) /\ Upper(c, o) = o + PieceLen(o)
    BY <1>2 DEF Upper
<1>5. o \in Nat /\ PieceLen(o) \in 1 .. Capacity /\ o + PieceLen(o) <= RedLen
    BY PieceBounds
<1>6. ~Outside(c) /\ DOMAIN c \subseteq Starts /\ c # NoClaims
    <2>1. ~Outside(c)
        BY <1>4, <1>5, LtpSessionAssumption, CapacityAssumption DEF Outside
    <2>2. DOMAIN NoClaims = {}
        BY DEF NoClaims
    <2> QED BY <1>4, <2>1, <2>2
<1> HIDE DEF c
<1>7. Again(c, info.rp, q)
    BY <1>1, <1>3, <1>6, AgainPieces DEF c
<1>8. Bytes(c) = Piece(o)
    <2> DEFINE r(p) == p .. Upper(c, p) - 1
    <2>1. r(o) = Piece(o)
        BY <1>4, <1>5 DEF Piece
    <2>2. Bytes(c) = UNION {r(p) : p \in {o}}
        BY <1>4 DEF Bytes
    <2> HIDE DEF r
    <2> QED BY <2>1, <2>2
<1> HIDE DEF q
<1>9. q \in Seq(Pieces(Piece(o)))
    BY <1>7, <1>8 DEF Again
<1>10. Pieces(Piece(o)) \subseteq DataSound(held)
    <2> SUFFICES ASSUME NEW m \in Pieces(Piece(o)) PROVE m \in DataSound(held)
        OBVIOUS
    <2>1. /\ m \in Segs /\ m.off \in Starts /\ m.off \in Piece(o) /\ m.len = PieceLen(m.off)
          /\ m.type \in CheckpointTypes => m.off + m.len = RedLen \/ m.rp # NoSerial
        BY DEF Pieces
    <2>2. m.off = o
        BY <2>1, PieceBounds, PiecesApart
    <2> QED BY <1>2, <2>1, <2>2 DEF DataSound
<1>11. q \in Seq(DataSound(held))
    BY <1>9, <1>10
<1>12. ~Multiple(RedLen) => SomeCheckpoint(q)
    BY <1>2, <1>4, <1>6, <1>7 DEF Again
<1> QED BY <1>11, <1>12 DEF Resent, q, c

\* A step that changes nothing held keeps the invariant if it leaves the
\* queues and the records sound.
LEMMA DataKept ==
    ASSUME DataInv, UNCHANGED <<red, delivered>>, ssr'["rcv"].redDone = ssr["rcv"].redDone,
           PathIs(app'["snd"], ops'["snd"], wire'["rcv"], ops'["rcv"], wire'["snd"], UnitsHeld),
           SenderSound(ssr'["snd"], UnitsHeld), RecordSound(ssr'["rcv"], UnitsHeld)
    PROVE  DataInv'
<1>1. StoreSound' /\ UnitsHeld' = UnitsHeld
    BY StoreKept DEF DataInv
<1> QED BY <1>1 DEF DataInv, PathSound

\* The first of a sound queue, and the rest of it.
LEMMA SoundFirst ==
    ASSUME NEW S, NEW q \in Seq(S), q # <<>>
    PROVE  Head(q) \in S /\ Tail(q) \in Seq(S)
OBVIOUS

\* What the path loses, or a closed session drops, it no longer holds.
LEMMA PathData ==
    ASSUME TypeInv, DataInv, UNCHANGED <<ssr, ops, app, red, delivered>>, NEW e \in Engines,
           wire' = wire \/ (wire[e] # <<>> /\ Consume(e))
    PROVE  DataInv'
<1>1. /\ wire'["rcv"] = wire["rcv"] \/ (wire["rcv"] # <<>> /\ wire'["rcv"] = Tail(wire["rcv"]))
      /\ wire'["snd"] = wire["snd"] \/ (wire["snd"] # <<>> /\ wire'["snd"] = Tail(wire["snd"]))
    BY ConsumeAt DEF TypeInv, Engines
<1>2. PathIs(app'["snd"], ops'["snd"], wire'["rcv"], ops'["rcv"], wire'["snd"], UnitsHeld)
    <2> DEFINE V == DataSound(UnitsHeld) \union AcksSound(UnitsHeld)
               R == ReportsSound(UnitsHeld)
    <2>1. wire["rcv"] \in Seq(V) /\ wire["snd"] \in Seq(R)
        BY DEF DataInv, PathSound, PathIs
    <2> HIDE DEF V, R
    <2>2. wire'["rcv"] \in Seq(V) /\ wire'["snd"] \in Seq(R)
        <3> DEFINE a == wire["rcv"]
                   b == wire["snd"]
        <3>1. a \in Seq(V) /\ (a # <<>> => Tail(a) \in Seq(V))
            BY <2>1, SoundFirst
        <3>2. b \in Seq(R) /\ (b # <<>> => Tail(b) \in Seq(R))
            BY <2>1, SoundFirst
        <3> QED BY <1>1, <3>1, <3>2
    <2> QED BY <2>2 DEF DataInv, PathSound, PathIs, V, R
<1> QED BY <1>2, DataKept DEF DataInv

\* The block goes into an empty session.
LEMMA StartData == RedEndsApart /\ TypeInv /\ DataInv /\ StartTransmission => DataInv'
<1> SUFFICES ASSUME RedEndsApart, TypeInv, DataInv, StartTransmission PROVE DataInv'
    OBVIOUS
<1> DEFINE block == EncapsulateBlockData(RedLen, BlockLen, 0, 0, NoSerial)
<1>1. /\ ssr'["snd"] = FirstRecord /\ ssr'["rcv"] = ssr["rcv"]
      /\ UNCHANGED <<wire, red, delivered>>
    BY DEF StartTransmission, Session, FirstRecord, TypeInv, SessionsType, Engines
<1>2. /\ ops'["snd"] = ops["snd"] \o <<>> /\ app'["snd"] = app["snd"] \o block
      /\ ops'["rcv"] = ops["rcv"]
    BY EnqueueAt DEF StartTransmission, TypeInv, Engines
<1>3. PathIs(app'["snd"], ops'["snd"], wire'["rcv"], ops'["rcv"], wire'["snd"], UnitsHeld)
    <2> DEFINE D == DataSound(UnitsHeld)
               D0 == DataSound({})
               A == AcksSound(UnitsHeld)
    <2>1. block \in Seq(D0)
        BY FirstPieces
    <2>2. D0 \subseteq D
        BY HeldGrows
    <2>3. app["snd"] \in Seq(D) /\ ops["snd"] \in Seq(A)
        BY DEF DataInv, PathSound, PathIs
    <2> HIDE DEF D, D0, A, block
    <2>4. app'["snd"] \in Seq(D) /\ ops'["snd"] \in Seq(A)
        BY <1>2, <2>1, <2>2, <2>3
    <2> QED BY <1>1, <1>2, <2>4 DEF DataInv, PathSound, PathIs, D, A
<1>4. SenderSound(ssr'["snd"], UnitsHeld)
    BY <1>1, FirstRecordFields DEF SenderSound
<1> QED BY <1>1, <1>3, <1>4, DataKept DEF DataInv

\* A report is filed, acknowledged and answered with what it leaves open.
LEMMA ReportData == TypeInv /\ DataInv /\ ReceiveReport => DataInv'
<1> SUFFICES ASSUME TypeInv, DataInv, ReceiveReport PROVE DataInv'
    OBVIOUS
<1>1. PICK seg \in Reports : wire["snd"] # <<>> /\ seg = Head(wire["snd"]) /\ ReportTaken(seg)
    BY ReportCases
<1> DEFINE filed == StoreClaims(ClaimsOf(ssr["snd"], seg.rp), seg.claims)
           held == UnitsHeld
<1>2. CASE Dropped("snd")
    BY <1>1, <1>2, PathData DEF Dropped, Engines
<1>3. CASE Crash("snd")
    BY <1>3, PathData DEF Crash, Engines
<1>4. ASSUME NEW t, NEW again, ReportHandled(seg, filed, t, again) PROVE DataInv'
    <2>1. /\ ssr["snd"] \in Sessions /\ seg.rp \in Nat /\ seg \in ReportsSound(held)
          /\ wire["snd"] \in Seq(ReportsSound(held))
        <3> DEFINE R == ReportsSound(held)
        <3>1. wire["snd"] \in Seq(R)
            BY DEF DataInv, PathSound, PathIs
        <3> HIDE DEF R
        <3>2. seg \in R
            BY <1>1, <3>1, SoundFirst
        <3> QED BY <3>1, <3>2 DEF TypeInv, SessionsType, Engines, Reports, R
    <2>2. seg.rp # NoSerial
        BY <2>1 DEF ReportsSound
    <2>3. /\ ClaimsOf(ssr["snd"], seg.rp) \in BlockClaims
          /\ ClaimsOf(ssr["snd"], seg.rp) = NoClaims \/ ClaimsWell(ClaimsOf(ssr["snd"], seg.rp), held)
        BY <2>1, ClaimsFiled, NoClaimsInBlock DEF DataInv, SenderSound
    <2>4. ClaimsWell(filed, held) /\ filed \in BlockClaims
        <3>1. seg.claims \in BlockClaims
            BY <1>1 DEF Reports
        <3> QED BY <2>1, <2>3, <3>1, FiledWell, StoreInBlock
    <2> HIDE DEF filed, held
    <2>5. /\ ssr'["snd"] = t /\ ssr'["rcv"] = ssr["rcv"]
          /\ UNCHANGED <<red, delivered>>
        BY <1>4 DEF ReportHandled, Session, TypeInv, SessionsType, Engines
    <2>6. /\ ops'["snd"] = ops["snd"] \o <<ReportAck(seg.rp)>> /\ app'["snd"] = app["snd"] \o again
          /\ ops'["rcv"] = ops["rcv"]
          /\ wire'["snd"] = Tail(wire["snd"]) /\ wire'["rcv"] = wire["rcv"]
        BY <1>4, EnqueueAt, ConsumeAt DEF ReportHandled, TypeInv, Engines
    <2>7. RedLen - 1 \in held
        BY <2>4 DEF ClaimsWell
    <2>8. again \in Seq(DataSound(held))
        <3>1. CASE again = <<>>
            BY <3>1
        <3>2. CASE again # <<>>
            <4>1. ~Outside(FindMissingClaims(filed)) /\ again = SegmentsOf(FindMissingClaims(filed), seg.rp)
                BY <1>4, <3>2 DEF ReportHandled
            <4> QED BY <2>1, <2>2, <2>4, <4>1, GapsResent DEF Resent
        <3> QED BY <3>1, <3>2
    <2>9. ReportAck(seg.rp) \in AcksSound(held)
        BY <2>1, <2>7 DEF AcksSound, Acks, ReportAck
    <2>10. PathIs(app'["snd"], ops'["snd"], wire'["rcv"], ops'["rcv"], wire'["snd"], held)
        <3> DEFINE D == DataSound(held)
                   A == AcksSound(held)
                   R == ReportsSound(held)
                   a == ReportAck(seg.rp)
        <3>1. app["snd"] \in Seq(D) /\ ops["snd"] \in Seq(A) /\ wire["snd"] \in Seq(R)
              /\ again \in Seq(D) /\ a \in A
            BY <2>8, <2>9 DEF DataInv, PathSound, PathIs, held
        <3>2. ops'["snd"] = ops["snd"] \o <<a>>
            BY <2>6
        <3> HIDE DEF D, A, R, a
        <3>3. app'["snd"] \in Seq(D) /\ ops'["snd"] \in Seq(A) /\ wire'["snd"] \in Seq(R)
            BY <1>1, <2>6, <3>1, <3>2
        <3> QED BY <2>6, <3>3 DEF DataInv, PathSound, PathIs, D, A, R, held
    <2>11. SenderSound(t, held)
        <3>1. Reported(ssr["snd"], t, seg.rp, filed, FindMissingClaims(filed))
            BY <1>4 DEF ReportHandled
        <3>2. t.timer = {} /\ t.redDone = (ssr["snd"].redDone \/ FindMissingClaims(filed) = NoClaims)
              /\ ClaimsOf(t, seg.rp) = filed
              /\ \A n \in Nat \ {seg.rp} : ClaimsOf(t, n) = ClaimsOf(ssr["snd"], n)
            BY <3>1 DEF Reported
        <3>3. SenderSound(ssr["snd"], held)
            BY DEF DataInv, held
        <3>4. FindMissingClaims(filed) = NoClaims => RedUnits \subseteq held
            BY <2>4, NothingLeft DEF ClaimsWell
        <3> QED BY <2>4, <3>2, <3>3, <3>4 DEF SenderSound
    <2> QED BY <2>5, <2>10, <2>11, DataKept DEF DataInv, held
<1> QED BY <1>1, <1>2, <1>3, <1>4 DEF ReportTaken

\* The checkpoint timer sends its piece again.
LEMMA CheckpointData == TypeInv /\ DataInv /\ CheckpointTimeout => DataInv'
<1> SUFFICES ASSUME TypeInv, DataInv, CheckpointTimeout PROVE DataInv'
    OBVIOUS
<1>1. PICK info \in ssr["snd"].timer : Crash("snd") \/ \E t, again : CheckpointHandled(info, t, again)
    BY CheckpointCases
<1>2. CASE Crash("snd")
    BY <1>2, PathData DEF Crash, Engines
<1>3. ASSUME NEW t, NEW again, CheckpointHandled(info, t, again) PROVE DataInv'
    <2> DEFINE held == UnitsHeld
    <2>1. info \in TimersSound(held)
        BY DEF DataInv, SenderSound
    <2>2. /\ ssr'["snd"] = t /\ ssr'["rcv"] = ssr["rcv"] /\ UNCHANGED <<wire, red, delivered>>
        BY <1>3 DEF CheckpointHandled, Session, TypeInv, SessionsType, Engines
    <2>3. /\ ops'["snd"] = ops["snd"] \o <<>> /\ app'["snd"] = app["snd"] \o again
          /\ ops'["rcv"] = ops["rcv"]
        BY <1>3, EnqueueAt DEF CheckpointHandled, TypeInv, Engines
    <2> HIDE DEF held
    <2>4. again \in Seq(DataSound(held))
        <3>1. CASE again = <<>>
            BY <3>1
        <3>2. CASE again = SegmentsOf(info.claims, info.rp)
            BY <2>1, <3>2, CheckpointResent DEF Resent
        <3> QED BY <1>3, <3>1, <3>2 DEF CheckpointHandled
    <2>5. PathIs(app'["snd"], ops'["snd"], wire'["rcv"], ops'["rcv"], wire'["snd"], held)
        <3> DEFINE D == DataSound(held)
                   A == AcksSound(held)
        <3>1. app["snd"] \in Seq(D) /\ ops["snd"] \in Seq(A) /\ again \in Seq(D)
            BY <2>4 DEF DataInv, PathSound, PathIs, held
        <3> HIDE DEF D, A
        <3>2. app'["snd"] \in Seq(D) /\ ops'["snd"] \in Seq(A)
            BY <2>3, <3>1
        <3> QED BY <2>2, <2>3, <3>2 DEF DataInv, PathSound, PathIs, D, A, held
    <2>6. SenderSound(t, held)
        <3>1. t.redDone = ssr["snd"].redDone /\ t.claims = ssr["snd"].claims /\ t.timer = {}
            BY <1>3 DEF CheckpointHandled, TimedOut
        <3>2. \A n : ClaimsOf(t, n) = ClaimsOf(ssr["snd"], n)
            BY <3>1 DEF ClaimsOf
        <3> QED BY <3>1, <3>2 DEF DataInv, SenderSound, held
    <2> QED BY <2>2, <2>5, <2>6, DataKept DEF DataInv, held
<1> QED BY <1>1, <1>2, <1>3

\* A report of what is held is sound once the end of the red part is held.
LEMMA ReportIsSound ==
    ASSUME NEW s \in Sessions, NEW held, RecordSound(s, held), s.rp # NoSerial,
           Whole(held), RedLen - 1 \in held
    PROVE  Report(s) \in ReportsSound(held)
<1>1. ClaimsOf(s, s.rp) \in BlockClaims /\ Report(s) \in Reports
    BY ClaimsFiled, NoClaimsInBlock, ReportInReports DEF Sessions
<1>2. Report(s).claims = ClaimsOf(s, s.rp) /\ Report(s).rp = s.rp
    BY DEF Report, ReportSegment
<1>3. Compacted(ClaimsOf(s, s.rp)) /\ Bytes(ClaimsOf(s, s.rp)) = held
    BY DEF RecordSound
<1>4. Aligned(ClaimsOf(s, s.rp))
    BY <1>1, <1>3, BlockClaimsBounds, WholeAligned
<1> QED BY <1>1, <1>2, <1>3, <1>4 DEF ReportsSound, ClaimsWell

\* The report timer runs only after a report of the end of the red part.
LEMMA ReportTimeoutData == TypeInv /\ DataInv /\ ReportTimeout => DataInv'
<1> SUFFICES ASSUME TypeInv, DataInv, ReportTimeout PROVE DataInv'
    OBVIOUS
<1> DEFINE s == ssr["rcv"]
           held == UnitsHeld
<1>1. s.timer # {} /\ (ReportRefused \/ \E t, again : ReportRepeated(t, again))
    BY ReportTimeoutCases
<1>0. CASE ReportRefused
    BY <1>0, PathData DEF ReportRefused, Crash, Engines
<1>a. CASE ~ReportRefused
    <2>2. PICK t, again : ReportRepeated(t, again)
        BY <1>1, <1>a
    <2>3. s \in Sessions /\ RecordSound(s, held) /\ Whole(held)
        BY HeldWhole DEF DataInv, TypeInv, SessionsType, Engines
    <2>4. /\ ssr'["rcv"] = t /\ ssr'["snd"] = ssr["snd"] /\ UNCHANGED <<wire, red, delivered>>
        BY <2>2 DEF ReportRepeated, Session, TypeInv, SessionsType, Engines
    <2>5. /\ ops'["rcv"] = ops["rcv"] \o again /\ ops'["snd"] = ops["snd"] /\ app'["snd"] = app["snd"]
        BY <2>2, EnqueueAt DEF ReportRepeated, TypeInv, Engines
    <2>6. TimedOut(s, t, RpRtxLimit) /\ (again = <<>> \/ again = <<Report(s)>>)
        BY <2>2 DEF ReportRepeated
    <2> HIDE DEF s, held
    <2>7. RedLen - 1 \in held /\ s.rp # NoSerial
        <3>1. RedLen - 1 \in held
            BY <1>1, <2>3 DEF RecordSound
        <3>2. CASE s.active
            BY <2>3, <3>1, <3>2 DEF RecordSound
        <3>3. CASE ~s.active
            BY <2>3, <3>1, <3>3 DEF RecordSound
        <3> QED BY <3>1, <3>2, <3>3
    <2>8. Report(s) \in ReportsSound(held)
        BY <2>3, <2>7, ReportIsSound
    <2>9. PathIs(app'["snd"], ops'["snd"], wire'["rcv"], ops'["rcv"], wire'["snd"], held)
        <3> DEFINE R == ReportsSound(held)
                   r == Report(s)
        <3>1. ops["rcv"] \in Seq(R) /\ r \in R /\ (again = <<>> \/ again = <<r>>)
            BY <2>6, <2>8 DEF DataInv, PathSound, PathIs, held
        <3> HIDE DEF R, r
        <3>2. ops'["rcv"] \in Seq(R)
            <4> DEFINE q == ops["rcv"]
            <4>1. q \in Seq(R) /\ q \o <<>> \in Seq(R) /\ q \o <<r>> \in Seq(R)
                BY <3>1
            <4> QED BY <2>5, <3>1, <4>1
        <3> QED BY <2>4, <2>5, <3>2 DEF DataInv, PathSound, PathIs, R, held
    <2>10. RecordSound(t, held) /\ t.redDone = s.redDone
        <3>1. /\ t.active = s.active /\ t.redDone = s.redDone /\ t.rp = s.rp /\ t.claims = s.claims
              /\ t.timer = {}
            BY <2>6 DEF TimedOut
        <3>2. \A n : ClaimsOf(t, n) = ClaimsOf(s, n)
            BY <3>1 DEF ClaimsOf
        <3> QED BY <2>3, <3>1, <3>2 DEF RecordSound
    <2> QED BY <2>4, <2>9, <2>10, DataKept DEF DataInv, held, s
<1> QED BY <1>0, <1>a

\* The checkpoint that leaves is what the timer is set for.
LEMMA TimerOfCheckpoint ==
    ASSUME NEW held, NEW seg \in DataSound(held), seg.type \in CheckpointTypes
    PROVE  CheckpointInfo(seg) \in TimersSound(held)
<1> DEFINE i == CheckpointInfo(seg)
<1>1. /\ seg \in Segs /\ seg.off \in Starts /\ seg.len = PieceLen(seg.off)
      /\ seg.off + seg.len = RedLen \/ (seg.rp # NoSerial /\ RedLen - 1 \in held)
    BY DEF DataSound, CheckpointTypes
<1>2. i = [claims |-> [o \in {seg.off} |-> seg.len], rp |-> seg.rp]
    BY DEF CheckpointInfo, Info
<1>3. i \in Infos
    BY <1>1, <1>2, SegmentClaim DEF Infos, Segs
<1>4. i.claims = [x \in {seg.off} |-> PieceLen(seg.off)] /\ i.rp = seg.rp
    BY <1>1, <1>2
<1> HIDE DEF i
<1> QED BY <1>1, <1>3, <1>4 DEF TimersSound, i

\* What sending does to the timer of the sender.
LEMMA SenderTimer ==
    ASSUME NEW s \in Sessions, NEW t, NEW seg \in Segs \union Acks, NEW queueEmpty \in BOOLEAN,
           Cued(s, t, seg, queueEmpty)
    PROVE  \/ t.timer \subseteq s.timer
           \/ seg.type \in CheckpointTypes /\ t.timer = {CheckpointInfo(seg)}
<1>1. CASE seg.type = "RS"
    BY <1>1 DEF Segs, Acks, DataTypes, RedTypes, GreenTypes
<1>2. CASE seg.type = "GD_EOB"
    <2>1. EndsTo(s, t, queueEmpty)
        BY <1>2 DEF Cued
    <2>2. CASE t = [s EXCEPT !.blockDone = TRUE]
        BY <2>2 DEF Sessions
    <2>3. CASE ClosesTo(s, t, queueEmpty)
        BY <2>3 DEF ClosesTo
    <2> QED BY <2>1, <2>2, <2>3 DEF EndsTo
<1>3. CASE seg.type = "RD_CP_EORP_EOB"
    <2>1. PICK b \in Sessions : Arms(b, t, CheckpointInfo(seg))
        BY <1>3 DEF Cued
    <2>2. t.timer = {CheckpointInfo(seg)}
        BY <2>1 DEF Arms, Sessions
    <2> QED BY <1>3, <2>2 DEF CheckpointTypes, RedTypes
<1>4. CASE seg.type \in {"RD_CP_EORP", "RD_CP"}
    <2>1. Arms(s, t, CheckpointInfo(seg))
        BY <1>4 DEF Cued
    <2>2. t.timer = {CheckpointInfo(seg)}
        BY <2>1 DEF Arms, Sessions
    <2> QED BY <1>4, <2>2 DEF CheckpointTypes, RedTypes
<1>5. CASE seg.type \notin CheckpointTypes \union {"GD_EOB", "RS"}
    <2>1. t = s
        BY <1>5 DEF Cued
    <2> QED BY <2>1
<1> QED BY <1>1, <1>2, <1>3, <1>4, <1>5 DEF CheckpointTypes, RedTypes

\* The sender sends what is sound, and its timer is set for it.
LEMMA SenderSendsData ==
    ASSUME TypeInv, DataInv, UNCHANGED <<red, delivered>>,
           NEW seg \in Segs \union Reports \union Acks, NEW t \in Sessions,
           Takes("snd", seg), Session("snd", t), Cued(ssr["snd"], t, seg, QueueEmpty("snd")'),
           (seg \in Acks /\ ops["snd"] # <<>>) \/ (seg \in Segs /\ ops["snd"] = <<>>)
    PROVE  DataInv'
<1> DEFINE held == UnitsHeld
           s == ssr["snd"]
           D == DataSound(held)
           A == AcksSound(held)
           data == app["snd"]
           acks == ops["snd"]
           there == wire["rcv"]
<1>1. /\ ops'["rcv"] = ops["rcv"] /\ wire'["snd"] = wire["snd"]
      /\ wire'["rcv"] = Append(there, seg)
    BY SenderNext
<1>2. \/ acks # <<>> /\ seg = Head(acks) /\ ops'["snd"] = Tail(acks) /\ app'["snd"] = data
      \/ /\ acks = <<>> /\ data # <<>> /\ seg = Head(data)
         /\ ops'["snd"] = acks /\ app'["snd"] = Tail(data)
    BY DEF Takes, TypeInv, QueuesType, Engines
<1>3. ssr'["snd"] = t /\ ssr'["rcv"] = ssr["rcv"] /\ s \in Sessions
    BY DEF Session, TypeInv, SessionsType, Engines
<1>4. data \in Seq(D) /\ acks \in Seq(A) /\ there \in Seq(D \union A)
    BY DEF DataInv, PathSound, PathIs
<1>5. SenderSound(s, held)
    BY DEF DataInv
<1>6. Cued(s, t, seg, QueueEmpty("snd")') /\ seg \in Segs \union Acks
    OBVIOUS
<1> HIDE DEF held, s, D, A, data, acks, there
<1>7. /\ (acks # <<>> => Head(acks) \in A /\ Tail(acks) \in Seq(A))
      /\ (data # <<>> => Head(data) \in D /\ Tail(data) \in Seq(D))
    BY <1>4, SoundFirst
<1>8. ops'["snd"] \in Seq(A) /\ app'["snd"] \in Seq(D) /\ seg \in D \union A
    BY <1>2, <1>4, <1>7
<1>9. wire'["rcv"] \in Seq(D \union A)
    <2> DEFINE V == D \union A
    <2>1. there \in Seq(V) /\ seg \in V
        BY <1>4, <1>8
    <2> HIDE DEF V
    <2>2. Append(there, seg) \in Seq(V)
        BY <2>1
    <2> QED BY <1>1, <2>2 DEF V
<1>10. PathIs(app'["snd"], ops'["snd"], wire'["rcv"], ops'["rcv"], wire'["snd"], held)
    BY <1>1, <1>8, <1>9 DEF DataInv, PathSound, PathIs, held, D, A
<1>11. SenderSound(t, held)
    <2> DEFINE q == QueueEmpty("snd")'
    <2>1. q \in BOOLEAN /\ Cued(s, t, seg, q)
        BY <1>6 DEF QueueEmpty
    <2> HIDE DEF q
    <2>2. t.redDone = s.redDone /\ t.claims = s.claims
        BY <1>3, <2>1, CueKeeps
    <2>3. t.timer \subseteq s.timer \/ (seg.type \in CheckpointTypes /\ t.timer = {CheckpointInfo(seg)})
        BY <1>3, <1>6, <2>1, SenderTimer
    <2>4. seg.type \in CheckpointTypes => seg \in D
        BY <1>8 DEF A, AcksSound, Acks, CheckpointTypes, RedTypes
    <2>5. seg.type \in CheckpointTypes => CheckpointInfo(seg) \in TimersSound(held)
        BY <2>4, TimerOfCheckpoint DEF D
    <2>6. \A n : ClaimsOf(t, n) = ClaimsOf(s, n)
        BY <2>2 DEF ClaimsOf
    <2> QED BY <1>5, <2>2, <2>3, <2>5, <2>6 DEF SenderSound
<1> QED BY <1>3, <1>10, <1>11, DataKept DEF DataInv, held

\* The receiver's timer is set for a report of the end of the red part.
LEMMA ReceiverSendsData ==
    ASSUME TypeInv, DataInv, UNCHANGED <<red, delivered>>, NEW seg \in Reports, NEW t \in Sessions,
           Takes("rcv", seg), Session("rcv", t), Cued(ssr["rcv"], t, seg, QueueEmpty("rcv")')
    PROVE  DataInv'
<1> DEFINE held == UnitsHeld
           s == ssr["rcv"]
           R == ReportsSound(held)
           reports == ops["rcv"]
           back == wire["snd"]
<1>1. /\ reports # <<>> /\ seg = Head(reports) /\ ops'["rcv"] = Tail(reports)
      /\ app'["snd"] = app["snd"] /\ ops'["snd"] = ops["snd"]
      /\ wire'["snd"] = Append(back, seg) /\ wire'["rcv"] = wire["rcv"]
    BY DEF Takes, Peer, TypeInv, QueuesType, WireType, Engines
<1>2. ssr'["rcv"] = t /\ ssr'["snd"] = ssr["snd"] /\ s \in Sessions
    BY DEF Session, TypeInv, SessionsType, Engines
<1>3. reports \in Seq(R) /\ back \in Seq(R)
    BY DEF DataInv, PathSound, PathIs
<1>4. RecordSound(s, held)
    BY DEF DataInv
<1>5. Cued(s, t, seg, QueueEmpty("rcv")')
    OBVIOUS
<1> HIDE DEF held, s, R, reports, back
<1>6. seg \in R /\ Tail(reports) \in Seq(R)
    BY <1>1, <1>3, SoundFirst
<1>7. Append(back, seg) \in Seq(R)
    BY <1>3, <1>6
<1>8. PathIs(app'["snd"], ops'["snd"], wire'["rcv"], ops'["rcv"], wire'["snd"], held)
    BY <1>1, <1>6, <1>7 DEF DataInv, PathSound, PathIs, held, R
<1>9. RecordSound(t, held) /\ t.redDone = s.redDone
    <2> DEFINE q == QueueEmpty("rcv")'
    <2>1. q \in BOOLEAN /\ Cued(s, t, seg, q)
        BY <1>5 DEF QueueEmpty
    <2> HIDE DEF q
    <2>2. t.active = s.active /\ t.redDone = s.redDone /\ t.rp = s.rp /\ t.claims = s.claims
        BY <1>2, <2>1, CueKeeps
    <2>3. RedLen - 1 \in held
        BY <1>6 DEF R, ReportsSound, ClaimsWell
    <2>4. \A n : ClaimsOf(t, n) = ClaimsOf(s, n)
        BY <2>2 DEF ClaimsOf
    <2> QED BY <1>4, <2>2, <2>3, <2>4 DEF RecordSound
<1> QED BY <1>2, <1>8, <1>9, DataKept DEF DataInv, held, s

\* Send takes a segment from one queue and the path has it.
LEMMA SendData ==
    ASSUME TypeInv, DataInv, NEW e \in Engines, Send(e) \/ SetLinkUp(e)
    PROVE  DataInv'
<1>1. Transmit(e) /\ UNCHANGED <<losses, red, delivered, handed, crashed>>
    BY DEF Send, SetLinkUp
<1>2. CASE UNCHANGED <<ssr, ops, app, wire>>
    BY <1>1, <1>2, PathData
<1>3. ASSUME NEW seg \in Segs \union Reports \union Acks, NEW t \in Sessions,
             Takes(e, seg), Session(e, t), Cued(ssr[e], t, seg, QueueEmpty(e)'),
             e = "snd" => (seg \in Acks /\ ops["snd"] # <<>>) \/ (seg \in Segs /\ ops["snd"] = <<>>),
             e = "rcv" => seg \in Reports
      PROVE  DataInv'
    <2>1. CASE e = "snd"
        BY <1>1, <1>3, <2>1, SenderSendsData
    <2>2. CASE e = "rcv"
        BY <1>1, <1>3, <2>2, ReceiverSendsData
    <2> QED BY <2>1, <2>2 DEF Engines
<1> QED BY <1>1, <1>2, <1>3, TransmitCases

\* Closing a record changes nothing of what it knows.
LEMMA EndedData ==
    ASSUME TypeInv, DataInv, NEW e \in Engines, ClosePostponed(e) \/ SessionInactive(e)
    PROVE  DataInv'
<1> DEFINE held == UnitsHeld
           s == ssr[e]
<1>1. PICK t : \E queueEmpty \in BOOLEAN : Session(e, t) /\ Ended(s, t, queueEmpty)
    <2>1. QueueEmpty(e) \in BOOLEAN
        BY DEF QueueEmpty
    <2> QED BY <2>1, PostponedFields, InactiveFields
<1>2. UNCHANGED <<ops, app, wire, red, delivered>>
    BY DEF ClosePostponed, SessionInactive
<1>3. /\ ssr'[e] = t /\ \A f \in Engines \ {e} : ssr'[f] = ssr[f]
    BY <1>1 DEF Session, TypeInv, SessionsType
<1>4. /\ t.active = s.active /\ t.redDone = s.redDone /\ t.rp = s.rp /\ t.claims = s.claims
      /\ t.timer \subseteq s.timer
    BY <1>1 DEF Ended
<1>5. \A n : ClaimsOf(t, n) = ClaimsOf(s, n)
    BY <1>4 DEF ClaimsOf
<1> HIDE DEF held
<1>6. PathIs(app'["snd"], ops'["snd"], wire'["rcv"], ops'["rcv"], wire'["snd"], held)
    BY <1>2 DEF DataInv, PathSound, held
<1>7. CASE e = "snd"
    <2>1. SenderSound(t, held)
        BY <1>4, <1>5, <1>7 DEF SenderSound, DataInv, held
    <2> QED BY <1>2, <1>3, <1>6, <1>7, <2>1, DataKept DEF DataInv, held, Engines
<1>8. CASE e = "rcv"
    <2>1. RecordSound(t, held)
        BY <1>4, <1>5, <1>8 DEF RecordSound, DataInv, held
    <2> QED BY <1>2, <1>3, <1>4, <1>6, <1>8, <2>1, DataKept DEF DataInv, held, Engines
<1> QED BY <1>7, <1>8 DEF Engines

\* The notices of the red part in a list of notices, and what the list must
\* look like: the first of them has all of it, the others nothing.
RedNotice(n) == n.code = "RED_PART_RCV"
RedGiven(d)  == {d[i] : i \in {j \in DOMAIN d : RedNotice(d[j])}}
RedOnce(d)   == \A i \in DOMAIN d :
                    RedNotice(d[i]) => d[i].data = IF \E j \in 1 .. i - 1 : RedNotice(d[j])
                                                   THEN <<>> ELSE Units(0, RedLen)

\* That is what the property says of the receiving client's notices.
LEMMA NoticesOfRed ==
    /\ RedDeliveries = RedGiven(delivered) /\ RedPartIntact = RedOnce(delivered)
    /\ RedDeliveries' = RedGiven(delivered') /\ RedPartIntact' = RedOnce(delivered')
BY DEF RedDeliveries, RedGiven, RedPartIntact, RedOnce, RedNotice, IsRedPart

\* A green notice is no notice of the red part; one of the red part must be
\* whole if it is the first, and empty if it is not.
LEMMA NoticeAppended ==
    ASSUME NEW d \in Seq(Notices(Nat)), NEW n \in Notices(Nat), RedOnce(d),
           RedNotice(n) => n.data = IF RedGiven(d) = {} THEN Units(0, RedLen) ELSE <<>>
    PROVE  /\ Append(d, n) \in Seq(Notices(Nat)) /\ RedOnce(Append(d, n))
           /\ RedGiven(Append(d, n)) = RedGiven(d) \union (IF RedNotice(n) THEN {n} ELSE {})
<1> DEFINE k == Len(d)
           N == Notices(Nat)
           e == Append(d, n)
<1>0. d \in Seq(N) /\ n \in N
    OBVIOUS
<1> HIDE DEF N
<1>1. /\ k \in Nat /\ DOMAIN d = 1 .. k /\ DOMAIN e = 1 .. k + 1
      /\ e[k + 1] = n /\ \A i \in 1 .. k : e[i] = d[i]
      /\ e \in Seq(N)
    BY <1>0
<1> HIDE DEF k, e
<1>2. ASSUME NEW i \in DOMAIN e, RedNotice(e[i])
      PROVE  e[i].data = IF \E j \in 1 .. i - 1 : RedNotice(e[j]) THEN <<>> ELSE Units(0, RedLen)
    <2>1. \A j \in 1 .. i - 1 : j \in 1 .. k /\ e[j] = d[j]
        BY <1>1
    <2>2. CASE i \in 1 .. k
        <3>1. d[i].data = IF \E j \in 1 .. i - 1 : RedNotice(d[j]) THEN <<>> ELSE Units(0, RedLen)
            BY <1>1, <1>2, <2>2 DEF RedOnce
        <3> QED BY <1>1, <2>1, <2>2, <3>1
    <2>3. CASE i = k + 1
        <3>1. i - 1 = k /\ e[i] = n
            BY <1>1, <2>3
        <3>2. RedGiven(d) = {} <=> ~\E j \in 1 .. k : RedNotice(d[j])
            BY <1>1 DEF RedGiven
        <3>3. (\E j \in 1 .. k : RedNotice(d[j])) <=> (\E j \in 1 .. i - 1 : RedNotice(e[j]))
            BY <2>1, <3>1
        <3> QED BY <1>2, <3>1, <3>2, <3>3
    <2> QED BY <1>1, <2>2, <2>3
<1>3. RedGiven(e) = RedGiven(d) \union (IF RedNotice(n) THEN {n} ELSE {})
    <2>1. \A x \in RedGiven(d) : x \in RedGiven(e)
        BY <1>1 DEF RedGiven
    <2>2. RedNotice(n) => n \in RedGiven(e)
        <3>1. k + 1 \in DOMAIN e /\ e[k + 1] = n
            BY <1>1
        <3> QED BY <3>1 DEF RedGiven
    <2>3. \A x \in RedGiven(e) : x \in RedGiven(d) \/ (RedNotice(n) /\ x = n)
        <3> SUFFICES ASSUME NEW i \in DOMAIN e, RedNotice(e[i])
                     PROVE  e[i] \in RedGiven(d) \/ (RedNotice(n) /\ e[i] = n)
            BY DEF RedGiven
        <3>1. CASE i \in 1 .. k
            BY <1>1, <3>1 DEF RedGiven
        <3>2. CASE i = k + 1
            BY <1>1, <3>2
        <3> QED BY <1>1, <3>1, <3>2
    <2> QED BY <2>1, <2>2, <2>3
<1> QED BY <1>1, <1>2, <1>3 DEF RedOnce, N, e

\* The record a data segment finds knows what is held.
LEMMA RecordFound ==
    ASSUME TypeInv, DataInv
    PROVE  /\ DataRecord \in Sessions /\ RecordSound(DataRecord, UnitsHeld)
           /\ DataRecord.rp # NoSerial /\ DataRecord.active
           /\ DataRecord.redDone = ssr["rcv"].redDone
<1> DEFINE r == ssr["rcv"]
           held == UnitsHeld
<1>1. r \in Sessions /\ RecordSound(r, held)
    BY DEF TypeInv, SessionsType, Engines, DataInv
<1> HIDE DEF held
<1>2. CASE r.active
    BY <1>1, <1>2 DEF DataRecord, RecordSound, held
<1>3. CASE ~r.active
    <2> DEFINE s == NewSession(1)
    <2>1. DataRecord = s /\ s \in Sessions
        BY <1>3, NewSessionType DEF DataRecord
    <2>2. /\ s.rp = 1 /\ s.active = TRUE /\ s.redDone = FALSE /\ s.timer = {}
          /\ s.claims = [x \in {} |-> NoClaims]
        BY DEF NewSession
    <2> HIDE DEF s
    <2>3. ClaimsOf(s, s.rp) = NoClaims
        BY <2>2 DEF ClaimsOf
    <2>4. Compacted(NoClaims) /\ Bytes(NoClaims) = {}
        BY DEF Compacted, Bytes, NoClaims
    <2>5. ~r.redDone /\ held = {}
        BY <1>1, <1>3 DEF RecordSound
    <2>6. RecordSound(s, held) /\ s.rp # NoSerial
        BY <2>2, <2>3, <2>4, <2>5 DEF RecordSound, NoSerial
    <2>7. r.redDone = FALSE
        BY <1>1, <2>5 DEF Sessions
    <2> QED BY <2>1, <2>2, <2>6, <2>7 DEF held
<1> QED BY <1>2, <1>3

\* A segment of the red part that is stored is held from then on.
LEMMA SegmentHeld ==
    ASSUME StoreSound, ~ssr["rcv"].redDone, ssr'["rcv"].redDone = ssr["rcv"].redDone,
           delivered' = delivered, NEW o \in Starts, NEW type,
           red' = Insert(red, o, [len |-> PieceLen(o), type |-> type])
    PROVE  StoreSound' /\ UnitsHeld' = UnitsHeld \union Piece(o)
<1>1. /\ RedDeliveries' = RedDeliveries /\ UnitsGiven' = UnitsGiven /\ RedPartIntact' = RedPartIntact
    BY DEF RedDeliveries, UnitsGiven, RedPartIntact, IsRedPart
<1>2. RedDeliveries = {} /\ UnitsGiven = {}
    BY DEF StoreSound, UnitsGiven
<1>3. UnitsStored = StoredIn(red) /\ UnitsStored' = StoredIn(red')
    BY DEF UnitsStored, StoredIn
<1>4. InsertedTo(red, red', o, PieceLen(o), type)
    BY InsertStored
<1>5. \A p \in DOMAIN red : p \in Starts /\ red[p].len = PieceLen(p)
    BY DEF StoreSound
<1>6. StoredIn(red') = StoredIn(red) \union Piece(o)
    <2>1. CASE o \in DOMAIN red
        <3>1. o .. o + red[o].len - 1 = Piece(o)
            BY <1>5, <2>1 DEF Piece
        <3>2. Piece(o) \subseteq StoredIn(red)
            BY <2>1, <3>1 DEF StoredIn
        <3> QED BY <1>4, <2>1, <3>2 DEF InsertedTo
    <2>2. CASE o \notin DOMAIN red
        BY <1>4, <2>2 DEF InsertedTo, Piece
    <2> QED BY <2>1, <2>2
<1>7. ASSUME NEW p \in DOMAIN red' PROVE p \in Starts /\ red'[p].len = PieceLen(p)
    <2>1. CASE p \in DOMAIN red
        BY <1>4, <1>5, <2>1 DEF InsertedTo
    <2>2. CASE p \notin DOMAIN red
        <3>1. p = o /\ red'[o] = [len |-> PieceLen(o), type |-> type]
            BY <1>4, <2>2 DEF InsertedTo
        <3> QED BY <3>1
    <2> QED BY <2>1, <2>2
<1>8. StoreSound'
    BY <1>1, <1>7 DEF StoreSound
<1> QED BY <1>1, <1>2, <1>3, <1>6, <1>8 DEF UnitsHeld

\* What is recorded of a piece.
LEMMA PieceClaimed ==
    ASSUME NEW s \in Sessions, NEW t \in Sessions, NEW seg \in Segs, NEW held,
           RecordSound(s, held), s.active, Whole(held), DataRecorded(s, t, seg, TRUE),
           seg.off \in Starts, seg.len = PieceLen(seg.off)
    PROVE  RecordSound(t, held \union Piece(seg.off))
<1> DEFINE o == seg.off
           len == seg.len
           cl == ClaimsOf(s, s.rp)
           more == held \union Piece(o)
<1>1. /\ t.active = s.active /\ t.redDone = s.redDone /\ t.rp = s.rp /\ t.timer = s.timer
      /\ ClaimsOf(t, s.rp) = InsertClaim(cl, o, len)
    BY DEF DataRecorded
<1>2. cl \in BlockClaims /\ Compacted(cl) /\ Bytes(cl) = held
    BY ClaimsFiled, NoClaimsInBlock DEF RecordSound, Sessions
<1>3. o \in Nat /\ len \in Nat \ {0} /\ Piece(o) = o .. o + len - 1
    BY PieceBounds DEF Piece
<1>4. ClaimSet(cl)
    BY <1>2, BlockClaimsBounds
<1>5. Piece(o) \subseteq held \/ Piece(o) \cap held = {}
    BY DEF Whole
<1>6. /\ s.active => s.rp # NoSerial
      /\ s.timer # {} => RedLen - 1 \in held
    BY DEF RecordSound
<1>7. o \in Starts
    OBVIOUS
<1> HIDE DEF o, len, cl
<1>8. Compacted(InsertClaim(cl, o, len)) /\ Bytes(InsertClaim(cl, o, len)) = Bytes(cl) \union (o .. o + len - 1)
    BY <1>2, <1>3, <1>4, <1>5, InsertClaimExact
<1>9. Compacted(ClaimsOf(t, t.rp)) /\ Bytes(ClaimsOf(t, t.rp)) = more
    BY <1>1, <1>2, <1>3, <1>8
<1> QED BY <1>1, <1>6, <1>9 DEF RecordSound, o

\* A segment that is not stored changes nothing of what is held.
LEMMA UnstoredData ==
    ASSUME TypeInv, DataInv, NEW seg \in Segs, NEW t, NEW report,
           wire["rcv"] # <<>>, DataHandled(seg, t, FALSE, report)
    PROVE  /\ DataInv' /\ ssr'["snd"] = ssr["snd"] /\ RedDeliveries' = RedDeliveries
           /\ UnitsHeld' = UnitsHeld
<1> DEFINE s == DataRecord
           held == UnitsHeld
<1>1. /\ DataRecorded(s, t, seg, FALSE) /\ report = <<>> /\ red' = red
      /\ delivered' = (IF seg.type \in GreenTypes
                       THEN Append(delivered, Notice("GP_SEGMENT_RCV", Units(seg.off, seg.len),
                                                     seg.type = "GD_EOB"))
                       ELSE delivered)
      /\ Consume("rcv") /\ Session("rcv", t) /\ Enqueue("rcv", report, <<>>)
    BY DEF DataHandled
<1>2. /\ ssr'["rcv"] = t /\ ssr'["snd"] = ssr["snd"]
    BY <1>1 DEF Session, TypeInv, SessionsType, Engines
<1>3. /\ ops'["rcv"] = ops["rcv"] \o <<>> /\ ops'["snd"] = ops["snd"] /\ app'["snd"] = app["snd"]
      /\ wire'["rcv"] = Tail(wire["rcv"]) /\ wire'["snd"] = wire["snd"]
    BY <1>1, EnqueueAt, ConsumeAt DEF TypeInv, Engines
<1>4. /\ s \in Sessions /\ RecordSound(s, held) /\ s.active /\ s.redDone = ssr["rcv"].redDone
      /\ s.rp # NoSerial
    BY RecordFound
<1>5. /\ t \in Sessions /\ t.active = s.active /\ t.redDone = s.redDone /\ t.rp = s.rp
      /\ t.claims = s.claims /\ (t.timer = s.timer \/ t.timer = {})
    BY <1>1 DEF DataRecorded, MayClose
<1> HIDE DEF s, held
<1>6. RecordSound(t, held)
    <2>1. \A n : ClaimsOf(t, n) = ClaimsOf(s, n)
        BY <1>5 DEF ClaimsOf
    <2> QED BY <1>4, <1>5, <2>1 DEF RecordSound
<1>7. PathIs(app'["snd"], ops'["snd"], wire'["rcv"], ops'["rcv"], wire'["snd"], held)
    <2> DEFINE V == DataSound(held) \union AcksSound(held)
               R == ReportsSound(held)
               q == wire["rcv"]
               p == ops["rcv"]
    <2>1. q \in Seq(V) /\ p \in Seq(R) /\ q # <<>>
        BY DEF DataInv, PathSound, PathIs, held
    <2> HIDE DEF V, R
    <2>2. wire'["rcv"] \in Seq(V) /\ ops'["rcv"] \in Seq(R)
        <3>1. Tail(q) \in Seq(V)
            BY <2>1, SoundFirst
        <3>2. p \o <<>> \in Seq(R)
            BY <2>1
        <3> QED BY <1>3, <3>1, <3>2
    <2> QED BY <1>3, <2>2 DEF DataInv, PathSound, PathIs, V, R, held
<1>8. /\ delivered' \in Seq(Notices(Nat)) /\ RedPartIntact' /\ RedDeliveries' = RedDeliveries
    <2> DEFINE n == Notice("GP_SEGMENT_RCV", Units(seg.off, seg.len), seg.type = "GD_EOB")
    <2>1. delivered \in Seq(Notices(Nat)) /\ RedOnce(delivered)
        BY NoticesOfRed DEF DataInv, StoreSound
    <2>2. n \in Notices(Nat) /\ ~RedNotice(n)
        <3> DEFINE u == Units(seg.off, seg.len)
                   r == seg.off .. seg.off + seg.len - 1
                   b == seg.type = "GD_EOB"
                   M == Nat
        <3>0. seg.off \in Nat /\ seg.len \in Nat /\ b \in BOOLEAN
            BY CapacityAssumption DEF Segs
        <3>1. u \in Seq(r)
            BY <3>0, UnitsRun
        <3>4. r \subseteq M
            BY <3>0
        <3>2. n = [code |-> "GP_SEGMENT_RCV", data |-> u, eob |-> b]
            BY DEF Notice
        <3> HIDE DEF u, r, b, n, M
        <3>3. u \in Seq(M)
            BY <3>1, <3>4
        <3> QED BY <3>0, <3>2, <3>3 DEF M,  Notices, RedNotice
    <2> DEFINE N == Seq(Notices(Nat))
               e == Append(delivered, n)
    <2>3. delivered' = delivered \/ delivered' = e
        BY <1>1
    <2>4. e \in N /\ RedOnce(e) /\ RedGiven(e) = RedGiven(delivered)
        <3> HIDE DEF n
        <3> QED BY <2>1, <2>2, NoticeAppended
    <2> HIDE DEF e, N
    <2>5. delivered' \in N /\ RedOnce(delivered') /\ RedGiven(delivered') = RedGiven(delivered)
        BY <2>1, <2>3, <2>4 DEF N
    <2> QED BY <2>5, NoticesOfRed DEF N
<1>9. /\ UnitsGiven' = UnitsGiven /\ UnitsStored' = UnitsStored
    BY <1>1, <1>8 DEF UnitsGiven, UnitsStored
<1>10. UnitsHeld' = held
    BY <1>9 DEF UnitsHeld, held
<1>11. StoreSound'
    BY <1>1, <1>2, <1>4, <1>5, <1>8, <1>9 DEF StoreSound, DataInv
<1> QED BY <1>2, <1>6, <1>7, <1>8, <1>10, <1>11 DEF DataInv, PathSound, held

\* A segment that is stored is held, claimed and, if it is a checkpoint,
\* reported with everything else that is held.
LEMMA StoredData ==
    ASSUME TypeInv, DataInv, NEW seg \in Segs, NEW t, NEW report,
           wire["rcv"] # <<>>, seg = Head(wire["rcv"]), DataHandled(seg, t, TRUE, report)
    PROVE  /\ DataInv' /\ UnitsHeld' = UnitsHeld \union Piece(seg.off) /\ UnitsHeld' \subseteq RedUnits
           /\ ~ssr["rcv"].redDone /\ RedDeliveries' = RedDeliveries /\ ssr'["snd"] = ssr["snd"]
<1> DEFINE s == DataRecord
           held == UnitsHeld
           o == seg.off
           more == held \union Piece(o)
<1>1. /\ DataRecorded(s, t, seg, TRUE) /\ seg.type \in RedTypes /\ ~s.redDone
      /\ report = (IF seg.type \in CheckpointTypes THEN <<Report(t)>> ELSE <<>>)
      /\ red' = Insert(red, seg.off, [len |-> seg.len, type |-> seg.type])
      /\ delivered' = (IF seg.type \in GreenTypes
                       THEN Append(delivered, Notice("GP_SEGMENT_RCV", Units(seg.off, seg.len),
                                                     seg.type = "GD_EOB"))
                       ELSE delivered)
      /\ Consume("rcv") /\ Session("rcv", t) /\ Enqueue("rcv", report, <<>>)
    BY DEF DataHandled
<1>2. /\ ssr'["rcv"] = t /\ ssr'["snd"] = ssr["snd"]
    BY <1>1 DEF Session, TypeInv, SessionsType, Engines
<1>3. /\ ops'["rcv"] = ops["rcv"] \o report /\ ops'["snd"] = ops["snd"] /\ app'["snd"] = app["snd"]
      /\ wire'["rcv"] = Tail(wire["rcv"]) /\ wire'["snd"] = wire["snd"]
    BY <1>1, EnqueueAt, ConsumeAt DEF TypeInv, Engines
<1>4. /\ s \in Sessions /\ RecordSound(s, held) /\ s.active /\ s.redDone = ssr["rcv"].redDone
      /\ s.rp # NoSerial
    BY RecordFound
<1>5. t \in Sessions /\ t.redDone = s.redDone /\ t.rp = s.rp
    BY <1>1 DEF DataRecorded
<1>6. delivered' = delivered
    BY <1>1 DEF RedTypes, GreenTypes
<1>7. Whole(held)
    BY HeldWhole DEF DataInv
<1>8. /\ o \in Starts /\ seg.len = PieceLen(o)
      /\ seg.type \in CheckpointTypes => o + seg.len = RedLen \/ RedLen - 1 \in held
    <2> DEFINE V == DataSound(held) \union AcksSound(held)
               q == wire["rcv"]
    <2>1. q \in Seq(V) /\ q # <<>>
        BY DEF DataInv, PathSound, PathIs
    <2> HIDE DEF V
    <2>2. Head(q) \in V
        BY <2>1, SoundFirst
    <2>3. seg \in DataSound(held)
        BY <2>2 DEF V, AcksSound, Acks, Segs, DataTypes, RedTypes, GreenTypes
    <2> QED BY <1>1, <2>3 DEF DataSound
<1>9. StoreSound' /\ UnitsHeld' = more
    <2>1. red' = Insert(red, o, [len |-> PieceLen(o), type |-> seg.type])
        BY <1>1, <1>8
    <2> QED BY <1>1, <1>2, <1>4, <1>5, <1>6, <1>8, <2>1, SegmentHeld DEF DataInv
<1>10. RedDeliveries' = RedDeliveries
    BY <1>6 DEF RedDeliveries, IsRedPart
<1> HIDE DEF s, held
<1>11. RecordSound(t, more)
    BY <1>1, <1>4, <1>5, <1>7, <1>8, PieceClaimed
<1> HIDE DEF o
<1>12. Whole(more)
    <2>1. Piece(o) \subseteq RedUnits /\ o \in Starts
        BY <1>8, PieceBounds
    <2>2. ASSUME NEW p \in Starts PROVE Piece(p) \subseteq more \/ Piece(p) \cap more = {}
        BY <1>7, <2>1, PiecesApart DEF Whole
    <2> QED BY <1>7, <2>1, <2>2 DEF Whole
<1>13. report \in Seq(ReportsSound(more))
    <2>1. CASE seg.type \in CheckpointTypes
        <3>1. RedLen - 1 \in more
            <4>1. o + seg.len = RedLen => RedLen - 1 \in Piece(o)
                BY <1>8, PieceBounds
            <4> QED BY <1>8, <2>1, <4>1
        <3>2. Report(t) \in ReportsSound(more)
            BY <1>4, <1>5, <1>11, <1>12, <3>1, ReportIsSound
        <3> QED BY <1>1, <2>1, <3>2
    <2>2. CASE seg.type \notin CheckpointTypes
        BY <1>1, <2>2
    <2> QED BY <2>1, <2>2
<1>14. SenderSound(ssr'["snd"], more)
    BY <1>2, SenderGrows DEF DataInv, held
<1>15. PathSound(more)
    BY PathGrows DEF DataInv, held
<1> HIDE DEF more
<1>16. PathIs(app'["snd"], ops'["snd"], wire'["rcv"], ops'["rcv"], wire'["snd"], more)
    <2> DEFINE V == DataSound(more) \union AcksSound(more)
               R == ReportsSound(more)
               q == wire["rcv"]
               p == ops["rcv"]
    <2>1. q \in Seq(V) /\ p \in Seq(R) /\ q # <<>> /\ report \in Seq(R)
        BY <1>13, <1>15 DEF PathSound, PathIs
    <2> HIDE DEF V, R
    <2>2. wire'["rcv"] \in Seq(V) /\ ops'["rcv"] \in Seq(R)
        <3>1. Tail(q) \in Seq(V)
            BY <2>1, SoundFirst
        <3>2. p \o report \in Seq(R)
            BY <2>1
        <3> QED BY <1>3, <3>1, <3>2
    <2> QED BY <1>3, <1>15, <2>2 DEF PathSound, PathIs, V, R
<1>17. DataInv'
    BY <1>2, <1>9, <1>11, <1>14, <1>16 DEF DataInv, PathSound
<1>18. more \subseteq RedUnits
    BY <1>12 DEF Whole
<1> QED BY <1>1, <1>2, <1>4, <1>9, <1>10, <1>17, <1>18 DEF more, o, held, s

\* A data segment is dropped, or changes nothing held, or adds its piece.
LEMMA ReceiveDataData ==
    ASSUME TypeInv, DataInv, ReceiveData
    PROVE  /\ DataInv' /\ ssr'["snd"] = ssr["snd"] /\ RedDeliveries' = RedDeliveries
           /\ \/ UnitsHeld' = UnitsHeld
              \/ RedDeliveries = {} /\ UnitsHeld \subseteq UnitsHeld' /\ UnitsHeld' \subseteq RedUnits
<1>1. PICK seg \in Segs :
              /\ wire["rcv"] # <<>> /\ seg = Head(wire["rcv"])
              /\ \/ Dropped("rcv") /\ ssr["rcv"].closed
                 \/ DataRefused(seg)
                 \/ \E t, stored, report : DataHandled(seg, t, stored, report)
    BY DataCases
<1>2. CASE Dropped("rcv") \/ DataRefused(seg)
    <2>1. DataInv'
        BY <1>1, <1>2, PathData DEF Dropped, DataRefused, Crash, Engines
    <2> QED BY <1>2, <2>1 DEF Dropped, DataRefused, Crash, UnitsHeld, UnitsStored, UnitsGiven, RedDeliveries, IsRedPart
<1>3. ASSUME NEW t, NEW stored, NEW report, DataHandled(seg, t, stored, report)
      PROVE  /\ DataInv' /\ ssr'["snd"] = ssr["snd"] /\ RedDeliveries' = RedDeliveries
             /\ \/ UnitsHeld' = UnitsHeld
                \/ RedDeliveries = {} /\ UnitsHeld \subseteq UnitsHeld' /\ UnitsHeld' \subseteq RedUnits
    <2>1. stored = TRUE \/ stored = FALSE
        BY <1>3 DEF DataHandled
    <2>2. CASE stored = TRUE
        <3>1. DataHandled(seg, t, TRUE, report)
            BY <1>3, <2>2
        <3>2. /\ DataInv' /\ UnitsHeld' = UnitsHeld \union Piece(seg.off) /\ UnitsHeld' \subseteq RedUnits
              /\ ~ssr["rcv"].redDone
              /\ RedDeliveries' = RedDeliveries /\ ssr'["snd"] = ssr["snd"]
            BY <1>1, <3>1, StoredData
        <3>3. RedDeliveries = {}
            BY <3>2 DEF DataInv, StoreSound
        <3> QED BY <3>2, <3>3
    <2>3. CASE stored = FALSE
        <3>1. DataHandled(seg, t, FALSE, report)
            BY <1>3, <2>3
        <3> QED BY <1>1, <3>1, UnstoredData
    <2> QED BY <2>1, <2>2, <2>3
<1> QED BY <1>1, <1>2, <1>3

\* Where the pieces before the i-th one end.
EndBefore(offs, i) == IF i = 0 THEN 0 ELSE offs[i] + PieceLen(offs[i])

\* Listed from the smallest, each piece starts where the one before it ends.
LEMMA StartsInOrder ==
    ASSUME NEW offs, NEW n \in Nat, n = Cardinality(Starts), Lists(offs, Starts)
    PROVE  /\ EndBefore(offs, n) = RedLen
           /\ \A i \in 1 .. n : offs[i] \in Starts /\ offs[i] = EndBefore(offs, i - 1)
<1>1. /\ \A i \in 1 .. n : offs[i] \in Starts
      /\ \A i, j \in 1 .. n : i < j => offs[i] < offs[j]
      /\ \A o \in Starts : \E i \in 1 .. n : offs[i] = o
    BY DEF Lists
<1>2. \A o \in Starts : /\ o \in Nat /\ Multiple(o) /\ o < RedLen
                        /\ PieceLen(o) \in 1 .. Capacity /\ o + PieceLen(o) <= RedLen
    BY PieceBounds, LtpSessionAssumption DEF Starts, RedUnits
<1>3. RedLen \in Nat /\ (RedLen > 0 => 0 \in Starts)
    BY MultipleSteps, LtpSessionAssumption DEF Starts, RedUnits
<1>4. ASSUME NEW i \in 1 .. n, offs[i] + PieceLen(offs[i]) < RedLen
      PROVE  \E j \in 1 .. n : i < j /\ offs[j] = offs[i] + PieceLen(offs[i])
    <2> DEFINE o == offs[i]
               e == o + PieceLen(o)
    <2>1. o \in Starts /\ o \in Nat /\ Multiple(o)
        BY <1>1, <1>2
    <2>2. PieceLen(o) = Capacity /\ e = o + Capacity /\ e \in Nat
        BY <1>2, <1>3, <1>4, <2>1, CapacityAssumption DEF PieceLen
    <2>3. e \in Starts
        BY <1>3, <1>4, <2>1, <2>2, MultipleSteps DEF Starts, RedUnits
    <2>4. PICK j \in 1 .. n : offs[j] = e
        BY <1>1, <2>3
    <2>5. o < e
        BY <2>1, <2>2, CapacityAssumption
    <2>6. ~(j < i) /\ j # i
        <3>1. CASE j < i
            <4>1. offs[j] < offs[i]
                BY <1>1, <3>1
            <4> QED BY <2>1, <2>2, <2>4, <2>5, <4>1
        <3>2. CASE j = i
            BY <2>1, <2>2, <2>4, <2>5, <3>2
        <3> QED BY <2>1, <2>2, <2>4, <2>5, <3>1, <3>2
    <2> QED BY <2>4, <2>6
<1>5. EndBefore(offs, n) = RedLen
    <2>1. CASE n = 0
        <3>1. ~(RedLen > 0)
            BY <1>1, <1>3, <2>1
        <3> QED BY <1>3, <2>1, <3>1 DEF EndBefore
    <2>2. CASE n # 0
        <3>1. n \in 1 .. n /\ offs[n] \in Starts
            BY <1>1, <2>2
        <3>2. ~(offs[n] + PieceLen(offs[n]) < RedLen)
            BY <1>4, <3>1
        <3> QED BY <1>2, <1>3, <2>2, <3>1, <3>2 DEF EndBefore
    <2> QED BY <2>1, <2>2
<1>6. ASSUME NEW i \in 1 .. n PROVE offs[i] = EndBefore(offs, i - 1)
    <2>1. CASE i = 1
        <3>1. 0 \in Starts
            BY <1>1, <1>2, <1>3
        <3>2. PICK j \in 1 .. n : offs[j] = 0
            BY <1>1, <3>1
        <3>3. ~(1 < j)
            <4> SUFFICES ASSUME 1 < j PROVE FALSE
                OBVIOUS
            <4>1. offs[1] < offs[j] /\ offs[1] \in Nat
                BY <1>1, <1>2, <2>1
            <4> QED BY <3>2, <4>1
        <3> QED BY <2>1, <3>2, <3>3 DEF EndBefore
    <2>2. CASE i # 1
        <3> DEFINE k == i - 1
                   o == offs[k]
                   e == o + PieceLen(o)
                   p == offs[i]
        <3>1. k \in 1 .. n /\ k < i /\ k # 0
            BY <2>2
        <3>2. o \in Starts /\ p \in Starts /\ o < p
            BY <1>1, <3>1
        <3>3. /\ o \in Nat /\ p \in Nat /\ p < RedLen /\ o + Capacity <= p
              /\ PieceLen(o) \in 1 .. Capacity
            BY <1>2, <3>2, MultipleSteps
        <3>4. e <= p /\ e < RedLen /\ e \in Nat
            BY <1>3, <3>3, CapacityAssumption
        <3>5. PICK j \in 1 .. n : k < j /\ offs[j] = e
            BY <1>4, <3>1, <3>4
        <3>6. ~(i < j)
            <4> SUFFICES ASSUME i < j PROVE FALSE
                OBVIOUS
            <4>1. offs[i] < offs[j]
                BY <1>1
            <4> QED BY <3>3, <3>4, <3>5, <4>1
        <3>7. j = i
            BY <3>1, <3>5, <3>6
        <3> QED BY <3>1, <3>5, <3>7 DEF EndBefore
    <2> QED BY <2>1, <2>2
<1> QED BY <1>1, <1>5, <1>6

\* Two runs of units, one behind the other.
LEMMA UnitsJoined ==
    ASSUME NEW a \in Nat, NEW b \in Nat
    PROVE  Units(0, a) \o Units(a, b) = Units(0, a + b)
<1> DEFINE s == Units(0, a)
           t == Units(a, b)
           u == Units(0, a + b)
<1>1. /\ s \in Seq(0 .. 0 + a - 1) /\ Len(s) = a /\ \A i \in 1 .. a : s[i] = 0 + i - 1
      /\ t \in Seq(a .. a + b - 1) /\ Len(t) = b /\ \A i \in 1 .. b : t[i] = a + i - 1
      /\ a + b \in Nat
      /\ u \in Seq(0 .. 0 + (a + b) - 1) /\ Len(u) = a + b /\ \A i \in 1 .. a + b : u[i] = 0 + i - 1
    <2>1. a + b \in Nat /\ 0 \in Nat
        OBVIOUS
    <2> HIDE DEF s, t, u
    <2> QED BY <2>1, UnitsRun DEF s, t, u
<1> HIDE DEF s, t, u
<1>2. s \in Seq(Nat) /\ t \in Seq(Nat) /\ u \in Seq(Nat)
    <2> DEFINE A == 0 .. 0 + a - 1
               B == a .. a + b - 1
               C == 0 .. 0 + (a + b) - 1
               M == Nat
    <2>1. A \subseteq M /\ B \subseteq M /\ C \subseteq M
        OBVIOUS
    <2>2. s \in Seq(A) /\ t \in Seq(B) /\ u \in Seq(C)
        BY <1>1
    <2> HIDE DEF A, B, C, M
    <2>3. s \in Seq(M) /\ t \in Seq(M) /\ u \in Seq(M)
        BY <2>1, <2>2
    <2> QED BY <2>3 DEF M
<1>3. s \o t \in Seq(Nat) /\ Len(s \o t) = a + b
    BY <1>1, <1>2
<1> DEFINE v == s \o t
<1>4. /\ \A i \in 1 .. Len(s) : v[i] = s[i]
      /\ \A i \in Len(s) + 1 .. Len(s) + Len(t) : v[i] = t[i - Len(s)]
    BY <1>2, JoinedAt
<1>6. v \in Seq(Nat) /\ Len(v) = a + b
    BY <1>3
<1> HIDE DEF v
<1>7. ASSUME NEW i \in 1 .. a + b PROVE v[i] = u[i]
    <2>0. i \in Int /\ a \in Int /\ b \in Int /\ u[i] = 0 + i - 1
        BY <1>1
    <2>1. CASE i <= a
        <3>1. v[i] = s[i] /\ i \in 1 .. a
            BY <1>1, <1>4, <2>0, <2>1
        <3> QED BY <1>1, <2>0, <3>1
    <2>2. CASE i > a
        <3>1. v[i] = t[i - a] /\ i - a \in 1 .. b
            BY <1>1, <1>4, <2>0, <2>2
        <3> QED BY <1>1, <2>0, <3>1
    <2> QED BY <2>0, <2>1, <2>2
<1>8. v = u
    BY <1>1, <1>2, <1>6, <1>7
<1> QED BY <1>8 DEF s, t, u, v

\* A red buffer that holds all of the red part gives it away in order.
LEMMA RedPartWhole ==
    ASSUME red \in RedBuffers, UnitsStored = RedUnits,
           \A o \in DOMAIN red : o \in Starts /\ red[o].len = PieceLen(o)
    PROVE  RedPart.data = Units(0, RedLen)
<1> DEFINE D == DOMAIN red
           offs == Ascending(D)
           n == Cardinality(D)
           parts == [i \in 1 .. n |-> Units(offs[i], red[offs[i]].len)]
<1>1. D = Starts
    <2>1. ASSUME NEW o \in Starts PROVE o \in D
        <3>1. o \in UnitsStored
            BY DEF Starts
        <3>2. PICK p \in D : o \in p .. p + red[p].len - 1
            BY <3>1 DEF UnitsStored
        <3>3. p \in Starts /\ o \in Piece(p) /\ o \in Piece(o)
            BY <3>2, PieceBounds DEF Piece
        <3>4. o = p
            BY <3>3, PiecesApart
        <3> QED BY <3>4
    <2> QED BY <2>1
<1>2. D \subseteq Nat /\ IsFiniteSet(D)
    <2> DEFINE R == 0 .. RedLen - 1
    <2>1. IsFiniteSet(R) /\ R \subseteq Nat
        BY FS_Interval, LtpSessionAssumption
    <2>2. D \subseteq R
        BY <1>1 DEF Starts, RedUnits
    <2> HIDE DEF R, D
    <2>3. IsFiniteSet(D)
        BY <2>1, <2>2, FS_Subset
    <2> QED BY <2>1, <2>2, <2>3
<1>3. n \in Nat /\ Lists(offs, D)
    BY <1>2, AscendingLists
<1>4. Len(offs) = n
    BY <1>3 DEF Lists
<1>5. RedPart.data = FlattenSeq(parts)
    BY <1>4 DEF RedPart, Notice
<1>6. /\ EndBefore(offs, n) = RedLen
      /\ \A i \in 1 .. n : offs[i] \in Starts /\ offs[i] = EndBefore(offs, i - 1)
    BY <1>1, <1>3, StartsInOrder
<1> HIDE DEF offs, n
<1>7. ASSUME NEW i \in 1 .. n
      PROVE  /\ parts[i] = Units(offs[i], PieceLen(offs[i]))
             /\ offs[i] \in Nat /\ PieceLen(offs[i]) \in Nat
             /\ parts[i] \in Seq(Nat)
    <2> DEFINE o == offs[i]
               len == PieceLen(o)
               r == o .. o + len - 1
               M == Nat
    <2>1. o \in Starts /\ o \in Nat /\ len \in Nat
        BY <1>6, PieceBounds
    <2>2. parts[i] = Units(o, len)
        BY <1>1, <2>1
    <2>3. Units(o, len) \in Seq(r)
        BY <2>1, UnitsRun
    <2>4. r \subseteq M
        BY <2>1
    <2> HIDE DEF o, len, r, M, parts
    <2>5. parts[i] \in Seq(M)
        BY <2>2, <2>3, <2>4
    <2> QED BY <2>1, <2>2, <2>5 DEF o, len, M
<1>8. parts \in Seq(Seq(Nat)) /\ Len(parts) = n
    <2>1. parts \in [1 .. n -> Seq(Nat)]
        BY <1>7
    <2> QED BY <1>3, <2>1
<1> HIDE DEF parts
<1>9. PICK f : Gathers(f, Nat, parts) /\ FlattenSeq(parts) = f[n]
    BY <1>8, Flattened
<1>10. f[0] = <<>> /\ \A i \in 1 .. n : f[i] = f[i - 1] \o parts[i]
    BY <1>8, <1>9 DEF Gathers
<1> DEFINE S == {i \in Nat : i <= n => f[i] = Units(0, EndBefore(offs, i))}
<1>11. 0 \in S
    BY <1>10 DEF EndBefore, Units
<1>12. ASSUME NEW i \in Nat, i \in S PROVE i + 1 \in S
    <2> SUFFICES ASSUME i + 1 <= n PROVE f[i + 1] = Units(0, EndBefore(offs, i + 1))
        OBVIOUS
    <2> DEFINE k == i + 1
               o == offs[k]
               len == PieceLen(o)
    <2>1. k \in 1 .. n /\ k - 1 = i /\ k # 0
        BY <1>3
    <2>2. f[k - 1] = Units(0, EndBefore(offs, k - 1))
        BY <1>3, <1>12, <2>1
    <2> HIDE DEF k
    <2>3. o = EndBefore(offs, k - 1) /\ o \in Nat /\ len \in Nat /\ parts[k] = Units(o, len)
        BY <1>6, <1>7, <2>1
    <2>4. f[k] = Units(0, o) \o Units(o, len)
        BY <1>10, <2>1, <2>2, <2>3
    <2>5. f[k] = Units(0, o + len)
        BY <2>3, <2>4, UnitsJoined
    <2> QED BY <2>1, <2>5 DEF EndBefore, k
<1>13. Nat \subseteq S
    <2> HIDE DEF S
    <2> QED BY <1>11, <1>12, AllNat
<1>14. n \in S
    BY <1>3, <1>13
<1>15. f[n] = Units(0, RedLen)
    BY <1>3, <1>6, <1>14
<1> QED BY <1>5, <1>9, <1>15

\* The red part is given away: all of it the first time, nothing again.
GivenAway ==
    /\ RedPart \in Notices(Nat) /\ RedNotice(RedPart)
    /\ RedPart.data = IF RedGiven(delivered) = {} THEN Units(0, RedLen) ELSE <<>>
    /\ ToSet(RedPart.data) \subseteq RedUnits

\* A complete red part is given to the client once and whole.
LEMMA RedPartGiven ==
    ASSUME red \in RedBuffers, StoreSound, ~ssr["rcv"].redDone => RedUnits \subseteq UnitsHeld
    PROVE  GivenAway /\ UnitsHeld = RedUnits /\ (RedGiven(delivered) = {} => ToSet(RedPart.data) = RedUnits)
<1>1. RedPartOf(RedPart)
    BY RedPartUnits
<1>2. /\ Whole(UnitsHeld)
      /\ UnitsHeld = IF ssr["rcv"].redDone THEN RedUnits ELSE UnitsStored
    BY HeldWhole
<1>3. UnitsHeld = RedUnits
    BY <1>2 DEF Whole
<1>4. RedDeliveries = RedGiven(delivered)
    BY NoticesOfRed
<1>5. RedPart \in Notices(Nat)
    <2> DEFINE V == UnitsStored
               M == Nat
    <2>1. RedPart \in Notices(V)
        BY <1>1 DEF RedPartOf
    <2>2. V \subseteq M
        <3>1. UnitsStored \subseteq UnitsHeld
            BY DEF UnitsHeld
        <3>2. RedUnits \subseteq Nat
            BY LtpSessionAssumption DEF RedUnits
        <3> QED BY <1>3, <3>1, <3>2
    <2> HIDE DEF V, M
    <2>3. Seq(V) \subseteq Seq(M)
        BY <2>2
    <2>4. RedPart \in Notices(M)
        BY <2>1, <2>3 DEF Notices
    <2> QED BY <2>4 DEF M
<1>6. RedNotice(RedPart)
    BY <1>1 DEF RedPartOf, RedNotice
<1>7. CASE ssr["rcv"].redDone
    <2>1. RedGiven(delivered) # {} /\ DOMAIN red = {}
        BY <1>4, <1>7 DEF StoreSound
    <2>2. RedPart.data = <<>>
        BY <1>1, <2>1 DEF RedPartOf
    <2>3. ToSet(<<>>) = {}
        BY DEF ToSet
    <2> QED BY <1>3, <1>5, <1>6, <2>1, <2>2, <2>3 DEF GivenAway
<1>8. CASE ~ssr["rcv"].redDone
    <2>1. RedGiven(delivered) = {} /\ UnitsStored = RedUnits
          /\ \A o \in DOMAIN red : o \in Starts /\ red[o].len = PieceLen(o)
        BY <1>2, <1>3, <1>4, <1>8 DEF StoreSound
    <2>2. RedPart.data = Units(0, RedLen)
        BY <2>1, RedPartWhole
    <2>3. ToSet(RedPart.data) = RedUnits
        BY <1>1, <2>1 DEF RedPartOf
    <2> QED BY <1>3, <1>5, <1>6, <2>1, <2>2, <2>3 DEF GivenAway
<1> QED BY <1>7, <1>8

\* The store after the red part was given away.
LEMMA StoreGivenAway ==
    ASSUME red \in RedBuffers, StoreSound, ~ssr["rcv"].redDone => RedUnits \subseteq UnitsHeld,
           ssr'["rcv"].redDone, red' = [o \in {} |-> 0], delivered' = Append(delivered, RedPart)
    PROVE  StoreSound' /\ UnitsHeld' = UnitsHeld /\ UnitsHeld = RedUnits /\ RedDeliveries' # {}
<1> DEFINE d == delivered
           n == RedPart
           e == Append(d, n)
<1>1. /\ n \in Notices(Nat) /\ RedNotice(n) /\ ToSet(n.data) \subseteq RedUnits
      /\ n.data = IF RedGiven(d) = {} THEN Units(0, RedLen) ELSE <<>>
      /\ UnitsHeld = RedUnits /\ (RedGiven(d) = {} => ToSet(n.data) = RedUnits)
    BY RedPartGiven DEF GivenAway
<1>2. d \in Seq(Notices(Nat)) /\ RedOnce(d) /\ RedDeliveries = RedGiven(d)
    BY NoticesOfRed DEF StoreSound
<1>3. RedDeliveries' = RedGiven(e) /\ RedPartIntact' = RedOnce(e) /\ delivered' = e
    BY NoticesOfRed
<1>4. RedGiven(d) # {} => UnitsGiven = RedUnits
    BY <1>2 DEF StoreSound
<1> HIDE DEF d, n, e
<1>5. e \in Seq(Notices(Nat)) /\ RedOnce(e) /\ RedGiven(e) = RedGiven(d) \union {n}
    BY <1>1, <1>2, NoticeAppended DEF e
<1>6. UnitsGiven' = RedUnits
    <2> DEFINE r(x) == ToSet(x.data)
    <2>1. /\ UnitsGiven' = UNION {r(x) : x \in RedGiven(d) \union {n}}
          /\ UnitsGiven = UNION {r(x) : x \in RedGiven(d)}
        BY <1>2, <1>3, <1>5 DEF UnitsGiven
    <2>2. r(n) \subseteq RedUnits /\ (RedGiven(d) = {} => r(n) = RedUnits)
        BY <1>1
    <2> HIDE DEF r
    <2> QED BY <1>4, <2>1, <2>2
<1>7. DOMAIN red' = {} /\ UnitsStored' = {}
    BY DEF UnitsStored
<1>8. UnitsHeld' = RedUnits
    BY <1>6, <1>7 DEF UnitsHeld
<1>9. StoreSound'
    BY <1>3, <1>5, <1>6, <1>7 DEF StoreSound
<1> QED BY <1>1, <1>3, <1>5, <1>8, <1>9

\* An acknowledged report moves on to the next serial number, with the same
\* claims, and gives the red part away when it is complete.
LEMMA AckHandledData ==
    ASSUME TypeInv, DataInv, NEW seg \in Acks, NEW t, NEW done,
           wire["rcv"] # <<>>, seg = Head(wire["rcv"]), AckHandled(seg, t, done)
    PROVE  /\ DataInv' /\ UnitsHeld' = UnitsHeld /\ ssr'["snd"] = ssr["snd"]
           /\ \/ RedDeliveries' = RedDeliveries
              \/ RedDeliveries' # {} /\ UnitsHeld = RedUnits
<1> DEFINE s == ssr["rcv"]
           held == UnitsHeld
           cl == ClaimsOf(s, s.rp)
<1>1. /\ done = (s.redDone \/ FindMissingClaims(cl) = NoClaims)
      /\ AckRecorded(s, t, seg.rp, done)
      /\ Consume("rcv") /\ Session("rcv", t)
      /\ s.rp <= seg.rp => /\ red' = (IF done THEN [o \in {} |-> 0] ELSE red)
                           /\ delivered' = (IF done THEN Append(delivered, RedPart) ELSE delivered)
      /\ ~(s.rp <= seg.rp) => UNCHANGED <<red, delivered>>
      /\ UNCHANGED <<ops, app>>
    BY DEF AckHandled
<1>2. ssr'["rcv"] = t /\ ssr'["snd"] = ssr["snd"]
    BY <1>1 DEF Session, TypeInv, SessionsType, Engines
<1>3. wire'["rcv"] = Tail(wire["rcv"]) /\ wire'["snd"] = wire["snd"]
    BY <1>1, ConsumeAt DEF TypeInv, Engines
<1>4. s \in Sessions /\ RecordSound(s, held) /\ red \in RedBuffers
    BY DEF TypeInv, SessionsType, BuffersType, Engines, DataInv
<1>5. /\ t \in Sessions /\ t.active = s.active /\ t.timer = {}
      /\ s.rp <= seg.rp  => /\ t.rp = s.rp + 1 /\ t.redDone = done
                            /\ ClaimsOf(t, s.rp + 1) = ClaimsOf(s, s.rp)
      /\ ~(s.rp <= seg.rp) => t.rp = s.rp /\ t.redDone = s.redDone /\ t.claims = s.claims
    BY <1>1 DEF AckRecorded
<1> DEFINE V == DataSound(held) \union AcksSound(held)
           q == wire["rcv"]
<1>6. q \in Seq(V) /\ q # <<>>
    BY DEF DataInv, PathSound, PathIs
<1> HIDE DEF V
<1>7. Head(q) \in V /\ Tail(q) \in Seq(V)
    BY <1>6, SoundFirst
<1> HIDE DEF held, s
<1>8. RedLen - 1 \in held
    BY <1>7 DEF V, AcksSound, Acks, DataSound, Segs, DataTypes, RedTypes, GreenTypes
<1>9. s.active /\ s.rp # NoSerial /\ s.rp \in Nat /\ s.redDone \in BOOLEAN
    BY <1>4, <1>8 DEF RecordSound, Sessions
<1>10. cl \in BlockClaims /\ Compacted(cl) /\ Bytes(cl) = held
    BY <1>4, <1>9, ClaimsFiled, NoClaimsInBlock DEF RecordSound
<1> HIDE DEF cl
<1>11. RecordSound(t, held)
    <2>1. CASE s.rp <= seg.rp
        <3>1. t.rp = s.rp + 1 /\ ClaimsOf(t, t.rp) = cl
            BY <1>5, <2>1 DEF cl
        <3>2. t.rp # NoSerial
            BY <1>9, <3>1 DEF NoSerial
        <3> QED BY <1>5, <1>9, <1>10, <3>1, <3>2 DEF RecordSound
    <2>2. CASE ~(s.rp <= seg.rp)
        <3>1. t.rp = s.rp /\ ClaimsOf(t, t.rp) = cl
            BY <1>5, <2>2 DEF ClaimsOf, cl
        <3> QED BY <1>5, <1>9, <1>10, <3>1 DEF RecordSound
    <2> QED BY <2>1, <2>2
<1>12. PathIs(app'["snd"], ops'["snd"], wire'["rcv"], ops'["rcv"], wire'["snd"], held)
    <2>1. wire'["rcv"] \in Seq(V)
        BY <1>3, <1>7
    <2> QED BY <1>1, <1>3, <2>1 DEF DataInv, PathSound, PathIs, V, held
<1>13. /\ StoreSound' /\ UnitsHeld' = held
       /\ RedDeliveries' = RedDeliveries \/ (RedDeliveries' # {} /\ held = RedUnits)
    <2>1. CASE s.rp <= seg.rp /\ done
        <3>1. ~s.redDone => RedUnits \subseteq held
            <4> SUFFICES ASSUME ~s.redDone PROVE RedUnits \subseteq held
                OBVIOUS
            <4>1. FindMissingClaims(cl) = NoClaims
                BY <1>1, <2>1 DEF cl
            <4> QED BY <1>8, <1>10, <4>1, NothingLeft
        <3> QED BY <1>1, <1>2, <1>4, <1>5, <2>1, <3>1, StoreGivenAway DEF DataInv, held, s
    <2>2. CASE ~(s.rp <= seg.rp /\ done)
        <3>1. UNCHANGED <<red, delivered>>
            BY <1>1, <2>2
        <3>2. t.redDone = s.redDone
            <4>1. CASE s.rp <= seg.rp
                <5>1. t.redDone = FALSE /\ s.redDone = FALSE
                    BY <1>1, <1>5, <1>9, <2>2, <4>1
                <5> QED BY <5>1
            <4>2. CASE ~(s.rp <= seg.rp)
                BY <1>5, <4>2
            <4> QED BY <4>1, <4>2
        <3>3. StoreSound' /\ UnitsHeld' = UnitsHeld
            BY <1>2, <3>1, <3>2, StoreKept DEF DataInv, s
        <3>4. RedDeliveries' = RedDeliveries
            BY <3>1 DEF RedDeliveries, IsRedPart
        <3> QED BY <3>3, <3>4 DEF held
    <2> QED BY <2>1, <2>2
<1>14. DataInv'
    BY <1>2, <1>11, <1>12, <1>13 DEF DataInv, PathSound, held
<1> QED BY <1>2, <1>13, <1>14 DEF held

\* The acknowledgment of a report is dropped or handled.
LEMMA AckData ==
    ASSUME TypeInv, DataInv, ReceiveReportAck
    PROVE  /\ DataInv' /\ UnitsHeld' = UnitsHeld /\ ssr'["snd"] = ssr["snd"]
           /\ \/ RedDeliveries' = RedDeliveries
              \/ RedDeliveries' # {} /\ UnitsHeld = RedUnits
<1>1. PICK seg \in Acks :
              /\ wire["rcv"] # <<>> /\ seg = Head(wire["rcv"])
              /\ \/ Dropped("rcv") /\ ssr["rcv"].closed
                 \/ \E t, done : AckHandled(seg, t, done)
    BY AckCases
<1>2. CASE Dropped("rcv")
    <2>1. DataInv'
        BY <1>1, <1>2, PathData DEF Dropped, Engines
    <2> QED BY <1>2, <2>1 DEF Dropped, UnitsHeld, UnitsStored, UnitsGiven, RedDeliveries, IsRedPart
<1>3. ASSUME NEW t, NEW done, AckHandled(seg, t, done)
      PROVE  /\ DataInv' /\ UnitsHeld' = UnitsHeld /\ ssr'["snd"] = ssr["snd"]
             /\ \/ RedDeliveries' = RedDeliveries
                \/ RedDeliveries' # {} /\ UnitsHeld = RedUnits
    BY <1>1, <1>3, AckHandledData
<1> QED BY <1>1, <1>2, <1>3

\* At first nothing is held, claimed or known.
LEMMA InitData == Init => DataInv
<1> SUFFICES ASSUME Init PROVE DataInv
    OBVIOUS
<1>1. \A e \in Engines : ssr[e] = NoSession /\ ops[e] = <<>> /\ app[e] = <<>> /\ wire[e] = <<>>
    BY DEF Init
<1>2. red = [o \in {} |-> 0] /\ delivered = <<>>
    BY DEF Init
<1>3. /\ ~NoSession.active /\ ~NoSession.redDone /\ NoSession.timer = {}
      /\ NoSession.claims = [s \in {} |-> NoClaims]
    BY DEF NoSession, NewSession
<1>4. RedDeliveries = {} /\ UnitsGiven = {} /\ UnitsStored = {} /\ UnitsHeld = {} /\ RedPartIntact
    BY <1>2 DEF RedDeliveries, UnitsGiven, UnitsStored, UnitsHeld, RedPartIntact
<1>5. \A n : ClaimsOf(NoSession, n) = NoClaims
    BY <1>3 DEF ClaimsOf
<1>6. Compacted(NoClaims) /\ Bytes(NoClaims) = {}
    BY DEF Compacted, Bytes, NoClaims
<1>7. PathSound(UnitsHeld)
    <2> DEFINE D == DataSound(UnitsHeld)
               A == AcksSound(UnitsHeld)
               DA == D \union A
               R == ReportsSound(UnitsHeld)
    <2>1. /\ app["snd"] = <<>> /\ ops["snd"] = <<>> /\ wire["rcv"] = <<>>
          /\ ops["rcv"] = <<>> /\ wire["snd"] = <<>>
        BY <1>1 DEF Engines
    <2> HIDE DEF D, A, DA, R
    <2>2. <<>> \in Seq(D) /\ <<>> \in Seq(A) /\ <<>> \in Seq(DA) /\ <<>> \in Seq(R)
        OBVIOUS
    <2> QED BY <2>1, <2>2 DEF PathSound, PathIs, D, A, DA, R
<1>8. SenderSound(ssr["snd"], UnitsHeld) /\ RecordSound(ssr["rcv"], UnitsHeld)
    BY <1>1, <1>3, <1>4, <1>5, <1>6 DEF SenderSound, RecordSound, Engines
<1>9. StoreSound
    BY <1>1, <1>2, <1>3, <1>4 DEF StoreSound, Engines
<1> QED BY <1>7, <1>8, <1>9 DEF DataInv

\* Every step.
LEMMA NextData == RedEndsApart /\ TypeInv /\ DataInv /\ [Next]_vars => DataInv'
<1> SUFFICES ASSUME RedEndsApart, TypeInv, DataInv, [Next]_vars PROVE DataInv'
    OBVIOUS
<1>1. CASE UNCHANGED vars
    <2>1. "snd" \in Engines /\ UNCHANGED <<ssr, ops, app, red, delivered>> /\ wire' = wire
        BY <1>1 DEF vars, Engines
    <2> QED BY <2>1, PathData
<1>2. ASSUME NEW e \in Engines, SetLinkUp(e) \/ Send(e) PROVE DataInv'
    BY <1>2, SendData
<1>3. ASSUME NEW e \in Engines, ClosePostponed(e) \/ SessionInactive(e) PROVE DataInv'
    BY <1>3, EndedData
<1>4. ASSUME NEW e \in Engines, Lose(e) PROVE DataInv'
    BY <1>4, PathData DEF Lose
<1> QED BY <1>1, <1>2, <1>3, <1>4, StartData, ReportData, CheckpointData, ReceiveDataData,
           AckData, ReportTimeoutData DEF Next, Event

\* The invariant says what the properties say.
LEMMA DataInvImplies ==
    ASSUME TypeInv, DataInv
    PROVE  ClaimsExact /\ ReportsReachEnd /\ AckSound /\ RedPartIntact
<1>1. ClaimsExact
    BY DEF DataInv, RecordSound, ClaimsExact, Claimed
<1>2. AckSound
    BY DEF DataInv, SenderSound, AckSound
<1>3. RedPartIntact
    BY DEF DataInv, StoreSound
<1>4. ReportsReachEnd
    <2> DEFINE R == ReportsSound(UnitsHeld)
    <2>1. ops["rcv"] \in Seq(R) /\ wire["snd"] \in Seq(R) /\ app["rcv"] = <<>>
        BY DEF DataInv, PathSound, PathIs, TypeInv, QueuesType
    <2> HIDE DEF R
    <2>2. ToSet(ops["rcv"]) \subseteq R /\ ToSet(wire["snd"]) \subseteq R /\ ToSet(app["rcv"]) = {}
        BY <2>1 DEF ToSet
    <2>3. InFlight("snd") \union Queued("rcv") \subseteq R
        BY <2>2 DEF InFlight, Queued
    <2>4. \A m \in R : RedLen - 1 \in Bytes(m.claims)
        BY DEF R, ReportsSound, ClaimsWell
    <2> QED BY <2>3, <2>4 DEF ReportsReachEnd
<1> QED BY <1>1, <1>2, <1>3, <1>4

\* What the receiver would report is what it holds of the red part, through
\* every loss, retransmission and change of the serial number: InsertClaim
\* and the red buffer take the same segments, and the claims survive the copy
\* to the next report.
THEOREM ClaimsExactTheorem ==
    ASSUME RedEndsApart
    PROVE  Spec => []ClaimsExact
<1>1. TypeInv /\ DataInv /\ [Next]_vars => DataInv'
    BY NextData
<1>2. TypeInv /\ DataInv => ClaimsExact
    BY DataInvImplies
<1> QED BY <1>1, <1>2, InitType, NextType, InitData, PTL DEF Spec

\* Every report under way claims the last unit of the red part, so that its
\* gaps are all that is missing.
THEOREM ReportsReachEndTheorem ==
    ASSUME RedEndsApart
    PROVE  Spec => []ReportsReachEnd
<1>1. TypeInv /\ DataInv /\ [Next]_vars => DataInv'
    BY NextData
<1>2. TypeInv /\ DataInv => ReportsReachEnd
    BY DataInvImplies
<1> QED BY <1>1, <1>2, InitType, NextType, InitData, PTL DEF Spec

\* When the sender takes its red part as acknowledged, the receiver has all
\* of it: FindMissingClaims finds nothing only in the claims of all of it.
THEOREM AckSoundTheorem ==
    ASSUME RedEndsApart
    PROVE  Spec => []AckSound
<1>1. TypeInv /\ DataInv /\ [Next]_vars => DataInv'
    BY NextData
<1>2. TypeInv /\ DataInv => AckSound
    BY DataInvImplies
<1> QED BY <1>1, <1>2, InitType, NextType, InitData, PTL DEF Spec

\* The first RED_PART_RCV carries the red part whole and in order, every later
\* one is empty.
THEOREM RedPartIntactTheorem ==
    ASSUME RedEndsApart
    PROVE  Spec => []RedPartIntact
<1>1. TypeInv /\ DataInv /\ [Next]_vars => DataInv'
    BY NextData
<1>2. TypeInv /\ DataInv => RedPartIntact
    BY DataInvImplies
<1> QED BY <1>1, <1>2, InitType, NextType, InitData, PTL DEF Spec

\* Whatever the client is given, the bundle protocol was handed before; and
\* all of the red part was handed to it before the sender took it as
\* acknowledged: what the sender knows, the receiver holds.
THEOREM HandedUpTheorem ==
    ASSUME RedEndsApart
    PROVE  Spec => []HandedUp
<1>1. TypeInv /\ DataInv /\ HandedInv => HandedUp
    <2> SUFFICES ASSUME TypeInv, DataInv, HandedInv PROVE HandedUp
        OBVIOUS
    <2>1. \A n \in ToSet(delivered) : \A u \in ToSet(n.data) : u \in HandedUnits
        BY HandedInvImplies
    <2>2. UnitsGiven \subseteq HandedUnits
        BY <2>1 DEF UnitsGiven, RedDeliveries, ToSet
    <2>3. UnitsHeld \subseteq HandedUnits
        BY <2>2 DEF UnitsHeld, HandedInv
    <2>4. ssr["snd"].redDone => RedUnits \subseteq HandedUnits
        BY <2>3 DEF DataInv, SenderSound
    <2> QED BY <2>1, <2>4 DEF HandedUp, HandedUnits
<1>2. TypeInv /\ DataInv /\ [Next]_vars => DataInv'
    BY NextData
<1> QED BY <1>1, <1>2, InitType, NextType, InitData, InitHanded, NextHanded, PTL DEF Spec

----------------------------------------------------------------------------
(* The session implements the delivery of the red part.                    *)

\* What the sender took as acknowledged stays acknowledged.
LEMMA AckedStays ==
    ASSUME TypeInv, Closing, [Next]_vars, ssr["snd"].redDone
    PROVE  ssr'["snd"].redDone
<1> DEFINE s == ssr["snd"]
           r == ssr'["snd"]
<1>0. s \in Sessions /\ s.redDone
    BY DEF TypeInv, SessionsType, Engines
<1>1. CASE UNCHANGED vars
    BY <1>0, <1>1 DEF vars
<1>2. CASE StartTransmission
    BY <1>2 DEF StartTransmission, Closing, Untouched, Unreported
<1>3. CASE ReceiveReport
    <2>1. PICK seg \in Reports : ReportTaken(seg)
        BY <1>3, ReportCases
    <2>2. CASE Dropped("snd") \/ Crash("snd")
        BY <1>0, <2>2 DEF Dropped, Crash
    <2>3. ASSUME NEW filed, NEW t, NEW again, ReportHandled(seg, filed, t, again) PROVE r.redDone
        <3>1. r = t /\ t.redDone
            BY <1>0, <2>3 DEF ReportHandled, Reported, Session, TypeInv, SessionsType, Engines
        <3> QED BY <3>1
    <2> QED BY <2>1, <2>2, <2>3 DEF ReportTaken
<1>4. CASE CheckpointTimeout
    <2>1. Crash("snd") \/ \E info, t, again : CheckpointHandled(info, t, again)
        BY <1>4, CheckpointCases
    <2>2. CASE Crash("snd")
        BY <1>0, <2>2 DEF Crash
    <2>3. ASSUME NEW info, NEW t, NEW again, CheckpointHandled(info, t, again) PROVE r.redDone
        <3>1. r = t /\ t.redDone
            BY <1>0, <2>3 DEF CheckpointHandled, TimedOut, Session, TypeInv, SessionsType, Engines
        <3> QED BY <3>1
    <2> QED BY <2>1, <2>2, <2>3
<1>5. CASE ReceiveData
    <2>1. PICK seg \in Segs :
              Dropped("rcv") \/ DataRefused(seg) \/ \E t, stored, report : DataHandled(seg, t, stored, report)
        BY <1>5, DataCases
    <2>2. r = s
        BY <2>1 DEF Dropped, DataRefused, Crash, DataHandled, Session, TypeInv, SessionsType, Engines
    <2> QED BY <1>0, <2>2
<1>6. CASE ReceiveReportAck
    <2>1. PICK seg \in Acks : Dropped("rcv") \/ \E t, done : AckHandled(seg, t, done)
        BY <1>6, AckCases
    <2>2. r = s
        BY <2>1 DEF Dropped, AckHandled, Session, TypeInv, SessionsType, Engines
    <2> QED BY <1>0, <2>2
<1>7. CASE ReportTimeout
    <2>1. ReportRefused \/ \E t, again : ReportRepeated(t, again)
        BY <1>7, ReportTimeoutCases
    <2>2. r = s
        BY <2>1 DEF ReportRefused, Crash, ReportRepeated, Session, TypeInv, SessionsType, Engines
    <2> QED BY <1>0, <2>2
<1>8. ASSUME NEW e \in Engines, SetLinkUp(e) \/ Send(e) PROVE r.redDone
    <2>1. Transmit(e)
        BY <1>8 DEF SetLinkUp, Send
    <2>2. CASE UNCHANGED <<ssr, ops, app, wire>>
        BY <1>0, <2>2
    <2>3. ASSUME NEW seg \in Segs \union Reports \union Acks, NEW t \in Sessions,
                 Session(e, t), Cued(ssr[e], t, seg, QueueEmpty(e)')
          PROVE  r.redDone
        <3> DEFINE q == QueueEmpty(e)'
                   x == ssr[e]
        <3>1. q \in BOOLEAN /\ x \in Sessions /\ Cued(x, t, seg, q)
            BY <2>3 DEF QueueEmpty, TypeInv, SessionsType
        <3>4. seg \in Segs \union Reports \union Acks
            OBVIOUS
        <3> HIDE DEF q, x
        <3>5. t.redDone = x.redDone
            BY <3>1, <3>4, CueKeeps
        <3>2. t.redDone = ssr[e].redDone
            BY <3>5 DEF x
        <3>3. r = IF e = "snd" THEN t ELSE s
            BY <2>3 DEF Session, TypeInv, SessionsType, Engines
        <3> QED BY <1>0, <3>2, <3>3
    <2> QED BY <2>1, <2>2, <2>3, TransmitCases
<1>9. ASSUME NEW e \in Engines, ClosePostponed(e) \/ SessionInactive(e) PROVE r.redDone
    <2>1. PICK t : \E queueEmpty \in BOOLEAN : Session(e, t) /\ Ended(ssr[e], t, queueEmpty)
        <3>1. QueueEmpty(e) \in BOOLEAN
            BY DEF QueueEmpty
        <3> QED BY <1>9, <3>1, PostponedFields, InactiveFields
    <2>2. t.redDone = ssr[e].redDone
        BY <2>1 DEF Ended
    <2>3. r = IF e = "snd" THEN t ELSE s
        BY <2>1 DEF Session, TypeInv, SessionsType, Engines
    <2> QED BY <1>0, <2>2, <2>3
<1>10. ASSUME NEW e \in Engines, Lose(e) PROVE r.redDone
    BY <1>0, <1>10 DEF Lose
<1> QED BY <1>1, <1>2, <1>3, <1>4, <1>5, <1>6, <1>7, <1>8, <1>9, <1>10 DEF Next, Event

\* A step of the session delivers units, gives the red part away, takes it as
\* acknowledged, or is no step of the delivery.
LEMMA StepDelivers ==
    ASSUME RedEndsApart, TypeInv, Closing, DataInv, TypeInv', DataInv', [Next]_vars
    PROVE  [Delivery!Next]_(Delivery!vars)
<1> DEFINE held == UnitsHeld
           given == RedDeliveries # {}
           acked == ssr["snd"].redDone
           h == held'
           g == given'
           a == acked'
<1>1. held \subseteq RedUnits /\ (acked => RedUnits \subseteq held)
    BY HeldWhole DEF DataInv, Whole, SenderSound
<1>2. a => RedUnits \subseteq h
    BY DEF DataInv, SenderSound
<1>3. acked \in BOOLEAN /\ a \in BOOLEAN /\ (acked => a) /\ g \in BOOLEAN /\ given \in BOOLEAN
    BY AckedStays DEF TypeInv, SessionsType, Engines, Sessions
<1>5. \/ h = held /\ g = given
      \/ ~given /\ g = given /\ held \subseteq h /\ h \subseteq RedUnits /\ a = acked
      \/ h = held /\ g = TRUE /\ held = RedUnits /\ a = acked
    <2>1. CASE ReceiveData
        <3>1. /\ ssr'["snd"] = ssr["snd"] /\ RedDeliveries' = RedDeliveries
              /\ \/ UnitsHeld' = UnitsHeld
                 \/ RedDeliveries = {} /\ UnitsHeld \subseteq UnitsHeld' /\ UnitsHeld' \subseteq RedUnits
            BY <2>1, ReceiveDataData
        <3> QED BY <3>1
    <2>2. CASE ReceiveReportAck
        <3>1. /\ UnitsHeld' = UnitsHeld /\ ssr'["snd"] = ssr["snd"]
              /\ \/ RedDeliveries' = RedDeliveries
                 \/ RedDeliveries' # {} /\ UnitsHeld = RedUnits
            BY <2>2, AckData
        <3> QED BY <3>1
    <2>3. CASE ~ReceiveData /\ ~ReceiveReportAck
        <3>1. UNCHANGED <<red, delivered>>
            BY <2>3, BuffersUntouched
        <3> QED BY <3>1 DEF UnitsHeld, UnitsStored, UnitsGiven, RedDeliveries, IsRedPart
    <2> QED BY <2>1, <2>2, <2>3
<1>6. /\ Delivery!Next = (Delivery!Arrive \/ Delivery!Give \/ Delivery!Acknowledge)
      /\ Delivery!vars = <<held, given, acked>> /\ Delivery!vars' = <<h, g, a>>
      /\ Delivery!Arrive = (/\ ~given
                            /\ h \in {S \in SUBSET RedUnits : held \subseteq S}
                            /\ g = given /\ a = acked)
      /\ Delivery!Give = (~given /\ held = RedUnits /\ g = TRUE /\ h = held /\ a = acked)
      /\ Delivery!Acknowledge = (held = RedUnits /\ a = TRUE /\ h = held /\ g = given)
    BY DEF Delivery!Next, Delivery!vars, Delivery!Arrive, Delivery!Give, Delivery!Acknowledge
<1> HIDE DEF held, given, acked, h, g, a
<1> QED BY <1>1, <1>2, <1>3, <1>5, <1>6

\* Every step of the two engines, with whatever the path loses and the timers
\* repeat, is a step of the delivery service or none of it.
THEOREM DeliveryTheorem ==
    ASSUME RedEndsApart
    PROVE  Spec => ImplementsDelivery
<1>1. Init => Delivery!Init
    <2> SUFFICES ASSUME Init PROVE Delivery!Init
        OBVIOUS
    <2>1. RedDeliveries = {} /\ UnitsHeld = {}
        BY DEF Init, RedDeliveries, UnitsHeld, UnitsGiven, UnitsStored
    <2>2. ssr["snd"].redDone = FALSE
        BY DEF Init, Engines, NoSession, NewSession
    <2> QED BY <2>1, <2>2 DEF Delivery!Init
<1>2. TypeInv /\ DataInv /\ [Next]_vars => DataInv'
    BY NextData
<1>3. TypeInv /\ Closing /\ DataInv /\ TypeInv' /\ DataInv' /\ [Next]_vars
          => [Delivery!Next]_(Delivery!vars)
    BY StepDelivers
<1> QED BY <1>1, <1>2, <1>3, InitType, NextType, InitClosing, NextClosing, InitData, PTL
        DEF Spec, ImplementsDelivery, Delivery!Spec

----------------------------------------------------------------------------
(* The receiver can always send its report.                                *)

\* No segment of the red part is of one byte.
NoSingleByte == \A o \in Starts : PieceLen(o) # 1

\* The bound of the report lies above all that is claimed.
Covered(s) == Bytes(ClaimsOf(s, s.rp)) \subseteq 0 .. s.high - 1

\* Claims of whole pieces, compacted and below the bound, are accepted.
LEMMA WholeAccepted ==
    ASSUME NoSingleByte, NEW s \in Sessions, NEW held, RecordSound(s, held), Whole(held), Covered(s),
           s.rp # NoSerial
    PROVE  Accepted(s)
<1> DEFINE cl == ClaimsOf(s, s.rp)
<1>1. cl \in BlockClaims /\ Compacted(cl) /\ Bytes(cl) = held
    BY ClaimsFiled, NoClaimsInBlock DEF RecordSound, Sessions
<1>2. ClaimSet(cl) /\ s.high \in Nat
    BY <1>1, BlockClaimsBounds, LtpSessionAssumption DEF Sessions
<1>3. Bytes(cl) \subseteq 0 .. s.high - 1
    BY DEF Covered
<1> HIDE DEF cl
<1>4. \A o \in DOMAIN cl : o \in Nat /\ cl[o] \in Nat \ {0} /\ o < Upper(cl, o) /\ Upper(cl, o) = o + cl[o]
    BY <1>2, ClaimSetDomain DEF Upper
<1>5. \A o \in DOMAIN cl : o .. Upper(cl, o) - 1 \subseteq Bytes(cl)
    BY DEF Bytes
<1>6. Aligned(cl)
    BY <1>1, <1>2, WholeAligned
<1>7. ASSUME NEW o \in DOMAIN cl PROVE cl[o] > 1
    <2>1. o \in Starts /\ o \in Nat /\ cl[o] \in Nat \ {0} /\ Upper(cl, o) = o + cl[o]
        BY <1>4, <1>6 DEF Aligned
    <2>2. PieceLen(o) \in 1 .. Capacity /\ PieceLen(o) # 1 /\ o \in Piece(o)
        BY <2>1, PieceBounds DEF NoSingleByte
    <2>3. o \in Bytes(cl)
        BY <1>5, <2>1
    <2>4. Piece(o) \subseteq Bytes(cl)
        BY <1>1, <2>1, <2>2, <2>3 DEF Whole
    <2>5. o + 1 \in Piece(o)
        BY <2>1, <2>2, CapacityAssumption DEF Piece
    <2>6. PICK p \in DOMAIN cl : o + 1 \in p .. Upper(cl, p) - 1
        BY <2>4, <2>5 DEF Bytes
    <2>7. p \in Nat /\ Upper(cl, p) = p + cl[p] /\ cl[p] \in Nat
        BY <1>4
    <2>8. /\ o < p => Upper(cl, o) < p
          /\ p < o => Upper(cl, p) < o
        BY <1>1 DEF Compacted
    <2>9. p = o
        BY <2>1, <2>6, <2>7, <2>8
    <2> QED BY <2>1, <2>6, <2>9
<1>8. ASSUME NEW o \in DOMAIN cl PROVE LastUpper(cl, o) <= o
    <2>1. CASE Before(cl, o) = {}
        BY <1>4, <2>1 DEF LastUpper
    <2>2. CASE Before(cl, o) # {}
        <3>1. PICK q \in DOMAIN cl : q < o
            BY <2>2 DEF Before
        <3>2. PICK p \in DOMAIN cl : p < o /\ LastUpper(cl, o) = Upper(cl, p)
            BY <1>2, <3>1, Predecessor
        <3> QED BY <1>1, <1>4, <3>2 DEF Compacted
    <2> QED BY <2>1, <2>2
<1>9. ASSUME NEW o \in DOMAIN cl PROVE Upper(cl, o) <= s.high
    <2>1. Upper(cl, o) - 1 \in Bytes(cl) /\ Upper(cl, o) \in Nat
        BY <1>4, <1>5
    <2>2. Upper(cl, o) - 1 \in 0 .. s.high - 1
        BY <1>3, <2>1
    <2> QED BY <1>2, <2>1, <2>2
<1> QED BY <1>7, <1>8, <1>9 DEF Accepted, cl

\* A piece that is claimed is below the new bound.
LEMMA PieceCovered ==
    ASSUME TypeInv, DataInv, Covered(DataRecord), NEW seg \in Segs, NEW t,
           wire["rcv"] # <<>>, seg = Head(wire["rcv"]), DataRecorded(DataRecord, t, seg, TRUE),
           seg.type \in RedTypes
    PROVE  /\ Covered(t) /\ t \in Sessions /\ t.rp # NoSerial
           /\ \E more : RecordSound(t, more) /\ Whole(more)
<1> DEFINE s == DataRecord
           held == UnitsHeld
           o == seg.off
           len == seg.len
           cl == ClaimsOf(s, s.rp)
           more == held \union Piece(o)
<1>1. /\ s \in Sessions /\ RecordSound(s, held) /\ s.active /\ s.rp # NoSerial
    BY RecordFound
<1>2. /\ t \in Sessions /\ t.rp = s.rp /\ t.high = Raised(s.high, o + len)
      /\ ClaimsOf(t, s.rp) = InsertClaim(cl, o, len)
    BY DEF DataRecorded
<1>3. Whole(held)
    BY HeldWhole DEF DataInv
<1>4. o \in Starts /\ len = PieceLen(o)
    <2> DEFINE V == DataSound(held) \union AcksSound(held)
               q == wire["rcv"]
    <2>1. q \in Seq(V) /\ q # <<>>
        BY DEF DataInv, PathSound, PathIs
    <2> HIDE DEF V
    <2>2. Head(q) \in V
        BY <2>1, SoundFirst
    <2>3. seg \in DataSound(held)
        BY <2>2 DEF V, AcksSound, Acks, Segs, DataTypes, RedTypes, GreenTypes
    <2> QED BY <2>3 DEF DataSound
<1>5. cl \in BlockClaims /\ Compacted(cl) /\ Bytes(cl) = held /\ Bytes(cl) \subseteq 0 .. s.high - 1
    BY <1>1, ClaimsFiled, NoClaimsInBlock DEF RecordSound, Sessions, Covered
<1>6. s.high \in Nat
    BY <1>1, LtpSessionAssumption DEF Sessions
<1>7. /\ o \in Nat /\ len \in Nat \ {0} /\ Piece(o) = o .. o + len - 1 /\ Piece(o) \subseteq RedUnits
    BY <1>4, PieceBounds DEF Piece
<1> HIDE DEF s, held, o, len
<1>8. RecordSound(t, more)
    BY <1>1, <1>2, <1>3, <1>4, PieceClaimed DEF s, o, len
<1>9. Bytes(ClaimsOf(t, t.rp)) = more
    BY <1>8 DEF RecordSound
<1>10. Whole(more)
    <2>2. ASSUME NEW p \in Starts PROVE Piece(p) \subseteq more \/ Piece(p) \cap more = {}
        BY <1>3, <1>4, <1>7, PiecesApart DEF Whole
    <2> QED BY <1>3, <1>7, <2>2 DEF Whole
<1>11. more \subseteq 0 .. t.high - 1
    <2>1. t.high \in Nat /\ s.high <= t.high /\ o + len <= t.high
        BY <1>2, <1>6, <1>7 DEF Raised
    <2>2. \A u \in held : u \in 0 .. t.high - 1
        BY <1>5, <1>6, <2>1
    <2>3. \A u \in o .. o + len - 1 : u \in 0 .. t.high - 1
        BY <1>7, <2>1
    <2> QED BY <1>7, <2>2, <2>3
<1>12. Covered(t)
    BY <1>9, <1>11 DEF Covered
<1> QED BY <1>1, <1>2, <1>8, <1>10, <1>12

\* What keeps the claims and their bound keeps the record covered.
LEMMA CoveredKept ==
    ASSUME NEW s, NEW t, Covered(s), t.rp = s.rp, t.claims = s.claims, t.high = s.high
    PROVE  Covered(t)
<1>1. ClaimsOf(t, t.rp) = ClaimsOf(s, s.rp)
    BY DEF ClaimsOf
<1> QED BY <1>1 DEF Covered

\* The claims stay below their bound, and the receiver does not end.
Reporting == Covered(ssr["rcv"]) /\ "rcv" \notin crashed

\* A data segment.
LEMMA DataReporting ==
    NoSingleByte /\ TypeInv /\ DataInv /\ Reporting /\ ReceiveData => Reporting'
<1> SUFFICES ASSUME NoSingleByte, TypeInv, DataInv, Reporting, ReceiveData PROVE Reporting'
    OBVIOUS
<1>1. PICK seg \in Segs :
          /\ wire["rcv"] # <<>> /\ seg = Head(wire["rcv"])
          /\ \/ Dropped("rcv")
             \/ DataRefused(seg)
             \/ \E t, stored, report : DataHandled(seg, t, stored, report)
    BY DataCases
<1>2. Covered(DataRecord)
    <2>1. CASE ssr["rcv"].active
        BY <2>1 DEF DataRecord, Reporting
    <2>2. CASE ~ssr["rcv"].active
        <3> DEFINE s == NewSession(1)
        <3>1. DataRecord = s /\ s.rp = 1 /\ s.claims = [x \in {} |-> NoClaims]
            BY <2>2 DEF DataRecord, NewSession
        <3>2. ClaimsOf(s, s.rp) = NoClaims
            BY <3>1 DEF ClaimsOf
        <3>3. Bytes(NoClaims) = {}
            BY DEF Bytes, NoClaims
        <3> HIDE DEF s
        <3> QED BY <3>1, <3>2, <3>3 DEF Covered
    <2> QED BY <2>1, <2>2
<1>3. CASE Dropped("rcv")
    BY <1>3, CoveredKept DEF Dropped, Reporting
<1>4. CASE DataRefused(seg)
    <2>1. PICK t : DataRecorded(DataRecord, t, seg, TRUE) /\ ~Accepted(t)
        BY <1>4 DEF DataRefused
    <2>2. seg.type \in RedTypes
        BY <1>4 DEF DataRefused, CheckpointTypes, RedTypes
    <2>3. Accepted(t)
        <3>1. /\ Covered(t) /\ t \in Sessions /\ t.rp # NoSerial
              /\ \E more : RecordSound(t, more) /\ Whole(more)
            BY <1>1, <1>2, <2>1, <2>2, PieceCovered
        <3> QED BY <3>1, WholeAccepted
    <2> QED BY <2>1, <2>3
<1>5. ASSUME NEW t, NEW stored, NEW report, DataHandled(seg, t, stored, report) PROVE Reporting'
    <2>1. /\ DataRecorded(DataRecord, t, seg, stored) /\ crashed' = crashed
          /\ stored \in BOOLEAN /\ (stored => seg.type \in RedTypes)
        BY <1>5 DEF DataHandled
    <2>2. ssr'["rcv"] = t
        BY <1>5 DEF DataHandled, Session, TypeInv, SessionsType, Engines
    <2>3. CASE stored = TRUE
        BY <1>1, <1>2, <2>1, <2>2, <2>3, PieceCovered DEF Reporting
    <2>4. CASE stored = FALSE
        <3>1. t.rp = DataRecord.rp /\ t.claims = DataRecord.claims /\ t.high = DataRecord.high
            BY <2>1, <2>4 DEF DataRecorded
        <3>2. Covered(t)
            BY <1>2, <3>1, CoveredKept
        <3> QED BY <2>1, <2>2, <3>2 DEF Reporting
    <2> QED BY <2>1, <2>3, <2>4
<1> QED BY <1>1, <1>3, <1>4, <1>5

\* An acknowledgment copies the claims to the next serial number.
LEMMA AckReporting == TypeInv /\ Reporting /\ ReceiveReportAck => Reporting'
<1> SUFFICES ASSUME TypeInv, Reporting, ReceiveReportAck PROVE Reporting'
    OBVIOUS
<1> DEFINE s == ssr["rcv"]
<1>1. PICK seg \in Acks : Dropped("rcv") \/ \E t, done : AckHandled(seg, t, done)
    BY AckCases
<1>2. CASE Dropped("rcv")
    BY <1>2 DEF Dropped, Reporting
<1>3. ASSUME NEW t, NEW done, AckHandled(seg, t, done) PROVE Reporting'
    <2>1. AckRecorded(s, t, seg.rp, done) /\ crashed' = crashed
        BY <1>3 DEF AckHandled
    <2>2. ssr'["rcv"] = t
        BY <1>3 DEF AckHandled, Session, TypeInv, SessionsType, Engines
    <2>3. t.high = s.high /\ ClaimsOf(t, t.rp) = ClaimsOf(s, s.rp)
        <3>1. CASE s.rp <= seg.rp
            BY <2>1, <3>1 DEF AckRecorded
        <3>2. CASE ~(s.rp <= seg.rp)
            BY <2>1, <3>2 DEF AckRecorded, ClaimsOf
        <3> QED BY <2>1, <3>1, <3>2 DEF AckRecorded
    <2>4. Covered(t)
        BY <2>3 DEF Covered, Reporting
    <2> QED BY <2>1, <2>2, <2>4 DEF Reporting
<1> QED BY <1>1, <1>2, <1>3

\* A report that is repeated is accepted as it was.
LEMMA ReportTimeoutReporting ==
    NoSingleByte /\ TypeInv /\ DataInv /\ Reporting /\ ReportTimeout => Reporting'
<1> SUFFICES ASSUME NoSingleByte, TypeInv, DataInv, Reporting, ReportTimeout PROVE Reporting'
    OBVIOUS
<1> DEFINE s == ssr["rcv"]
           held == UnitsHeld
<1>1. s.timer # {} /\ (ReportRefused \/ \E t, again : ReportRepeated(t, again))
    BY ReportTimeoutCases
<1>2. s \in Sessions /\ RecordSound(s, held) /\ Whole(held) /\ Covered(s)
    BY HeldWhole DEF DataInv, TypeInv, SessionsType, Engines, Reporting
<1>3. CASE ReportRefused
    <2>1. RedLen - 1 \in held
        BY <1>1, <1>2 DEF RecordSound
    <2>2. s.rp # NoSerial
        BY <1>2, <2>1 DEF RecordSound
    <2>3. Accepted(s)
        BY <1>2, <2>2, WholeAccepted
    <2> QED BY <1>3, <2>3 DEF ReportRefused
<1>4. ASSUME NEW t, NEW again, ReportRepeated(t, again) PROVE Reporting'
    <2>1. t.rp = s.rp /\ t.claims = s.claims /\ t.high = s.high /\ crashed' = crashed
        BY <1>4 DEF ReportRepeated, TimedOut
    <2>2. ssr'["rcv"] = t
        BY <1>4 DEF ReportRepeated, Session, TypeInv, SessionsType, Engines
    <2>3. Covered(t)
        BY <1>2, <2>1, CoveredKept
    <2> QED BY <2>1, <2>2, <2>3 DEF Reporting
<1> QED BY <1>1, <1>3, <1>4

\* No other step touches what the receiver claims.
LEMMA NextReporting ==
    NoSingleByte /\ TypeInv /\ DataInv /\ Reporting /\ [Next]_vars => Reporting'
<1> SUFFICES ASSUME NoSingleByte, TypeInv, DataInv, Reporting, [Next]_vars PROVE Reporting'
    OBVIOUS
<1> DEFINE s == ssr["rcv"]
           r == ssr'["rcv"]
<1>0. ASSUME r.rp = s.rp, r.claims = s.claims, r.high = s.high, crashed' \in {crashed, {"snd"}}
      PROVE  Reporting'
    BY <1>0, CoveredKept DEF Reporting
<1>1. CASE UNCHANGED vars
    BY <1>0, <1>1 DEF vars
<1>2. CASE StartTransmission
    <2>1. r = s /\ crashed' = crashed
        BY <1>2 DEF StartTransmission, Session, TypeInv, SessionsType, Engines
    <2> QED BY <1>0, <2>1
<1>3. CASE ReceiveReport
    <2>1. PICK seg \in Reports : ReportTaken(seg)
        BY <1>3, ReportCases
    <2>2. r = s /\ crashed' \in {crashed, {"snd"}}
        BY <2>1 DEF ReportTaken, ReportHandled, Dropped, Crash, Session, TypeInv, SessionsType, Engines
    <2> QED BY <1>0, <2>2
<1>4. CASE CheckpointTimeout
    <2>1. Crash("snd") \/ \E info, t, again : CheckpointHandled(info, t, again)
        BY <1>4, CheckpointCases
    <2>2. r = s /\ crashed' \in {crashed, {"snd"}}
        BY <2>1 DEF CheckpointHandled, Crash, Session, TypeInv, SessionsType, Engines
    <2> QED BY <1>0, <2>2
<1>5. ASSUME NEW e \in Engines, SetLinkUp(e) \/ Send(e) PROVE Reporting'
    <2>1. Transmit(e) /\ crashed' = crashed
        BY <1>5 DEF SetLinkUp, Send
    <2>2. CASE UNCHANGED <<ssr, ops, app, wire>>
        BY <1>0, <2>1, <2>2
    <2>3. ASSUME NEW seg \in Segs \union Reports \union Acks, NEW t \in Sessions,
                 Session(e, t), Cued(ssr[e], t, seg, QueueEmpty(e)')
          PROVE  Reporting'
        <3> DEFINE q == QueueEmpty(e)'
                   x == ssr[e]
        <3>1. q \in BOOLEAN /\ x \in Sessions /\ Cued(x, t, seg, q)
            BY <2>3 DEF QueueEmpty, TypeInv, SessionsType
        <3>4. seg \in Segs \union Reports \union Acks
            OBVIOUS
        <3> HIDE DEF q, x
        <3>5. t.rp = x.rp /\ t.claims = x.claims /\ t.high = x.high
            BY <3>1, <3>4, CueKeeps
        <3>2. t.rp = ssr[e].rp /\ t.claims = ssr[e].claims /\ t.high = ssr[e].high
            BY <3>5 DEF x
        <3>3. r = IF e = "rcv" THEN t ELSE s
            BY <2>3 DEF Session, TypeInv, SessionsType, Engines
        <3>6. r.rp = s.rp /\ r.claims = s.claims /\ r.high = s.high
            BY <3>2, <3>3
        <3> QED BY <1>0, <2>1, <3>6
    <2> QED BY <2>1, <2>2, <2>3, TransmitCases
<1>6. ASSUME NEW e \in Engines, ClosePostponed(e) \/ SessionInactive(e) PROVE Reporting'
    <2>1. PICK t : \E queueEmpty \in BOOLEAN : Session(e, t) /\ Ended(ssr[e], t, queueEmpty)
        <3>1. QueueEmpty(e) \in BOOLEAN
            BY DEF QueueEmpty
        <3> QED BY <1>6, <3>1, PostponedFields, InactiveFields
    <2>2. t.rp = ssr[e].rp /\ t.claims = ssr[e].claims /\ t.high = ssr[e].high
        BY <2>1 DEF Ended
    <2>3. r = IF e = "rcv" THEN t ELSE s
        BY <2>1 DEF Session, TypeInv, SessionsType, Engines
    <2>4. r.rp = s.rp /\ r.claims = s.claims /\ r.high = s.high
        BY <2>2, <2>3
    <2>5. crashed' = crashed
        BY <1>6 DEF ClosePostponed, SessionInactive
    <2> QED BY <1>0, <2>4, <2>5
<1>7. ASSUME NEW e \in Engines, Lose(e) PROVE Reporting'
    BY <1>0, <1>7 DEF Lose
<1> QED BY <1>1, <1>2, <1>3, <1>4, <1>5, <1>6, <1>7, DataReporting, AckReporting,
           ReportTimeoutReporting DEF Next, Event

\* When no segment of the red part is of one byte, every claim that comes to
\* be reported is longer than one byte, starts behind the one before it and
\* lies within the bounds of the report, whatever was lost and repeated: the
\* receiver is never ended by AddReceptionClaim.
THEOREM ReportsAcceptedTheorem ==
    ASSUME RedEndsApart, NoSingleByte
    PROVE  Spec => []ReportsAccepted
<1>1. Init => Reporting
    <2> SUFFICES ASSUME Init PROVE Reporting
        OBVIOUS
    <2> DEFINE s == ssr["rcv"]
    <2>1. s.claims = [x \in {} |-> NoClaims] /\ crashed = {}
        BY DEF Init, Engines, NoSession, NewSession
    <2>2. ClaimsOf(s, s.rp) = NoClaims /\ Bytes(NoClaims) = {}
        BY <2>1 DEF ClaimsOf, Bytes, NoClaims
    <2> QED BY <2>1, <2>2 DEF Reporting, Covered
<1>2. TypeInv /\ DataInv /\ [Next]_vars => DataInv'
    BY NextData
<1>3. TypeInv /\ DataInv /\ Reporting /\ [Next]_vars => Reporting'
    BY NextReporting
<1>4. Reporting => ReportsAccepted
    BY DEF Reporting, ReportsAccepted
<1> QED BY <1>1, <1>2, <1>3, <1>4, InitType, NextType, InitData, PTL DEF Spec

----------------------------------------------------------------------------
(* The exchange does not stop without a word.                              *)

\* A sender that waits for its red part to be acknowledged, and may still
\* retransmit, has a timer running or a checkpoint to send.
Waits(s, q) ==
    s.active /\ ~s.redDone /\ ~s.closed /\ s.rtx < CpRtxLimit
        => s.timer # {} \/ SomeCheckpoint(q)

Busy == Waits(ssr["snd"], app["snd"])

\* A checkpoint stays one when segments are queued behind it.
LEMMA CheckpointJoined ==
    ASSUME NEW S, NEW p \in Seq(S), NEW q \in Seq(S), SomeCheckpoint(p) \/ SomeCheckpoint(q)
    PROVE  SomeCheckpoint(p \o q)
<1>1. CASE SomeCheckpoint(p)
    <2>1. PICK i \in DOMAIN p : p[i].type \in CheckpointTypes
        BY <1>1 DEF SomeCheckpoint
    <2>2. i \in DOMAIN (p \o q) /\ (p \o q)[i] = p[i]
        BY <2>1
    <2> QED BY <2>1, <2>2 DEF SomeCheckpoint
<1>2. CASE SomeCheckpoint(q)
    <2>1. PICK i \in DOMAIN q : q[i].type \in CheckpointTypes
        BY <1>2 DEF SomeCheckpoint
    <2>2. Len(p) + i \in DOMAIN (p \o q) /\ (p \o q)[Len(p) + i] = q[i]
        BY <2>1
    <2> QED BY <2>1, <2>2 DEF SomeCheckpoint
<1> QED BY <1>1, <1>2

\* It is the first segment, or one behind it.
LEMMA CheckpointTail ==
    ASSUME NEW S, NEW q \in Seq(S), SomeCheckpoint(q), Head(q).type \notin CheckpointTypes
    PROVE  SomeCheckpoint(Tail(q))
<1>1. PICK i \in DOMAIN q : q[i].type \in CheckpointTypes
    BY DEF SomeCheckpoint
<1>2. i # 1 /\ i \in 1 .. Len(q)
    BY <1>1
<1>3. i - 1 \in DOMAIN Tail(q) /\ Tail(q)[i - 1] = q[i]
    BY <1>2
<1> QED BY <1>1, <1>3 DEF SomeCheckpoint

\* At first there is no sender.
LEMMA InitBusy == Init => Busy
BY DEF Init, Busy, Waits, Engines, NoSession, NewSession

\* A step that leaves the sender alone.
LEMMA BusyKept ==
    ASSUME Busy, ssr'["snd"] = ssr["snd"], app'["snd"] = app["snd"]
    PROVE  Busy'
BY DEF Busy, Waits

\* The first transmission has a checkpoint.
LEMMA StartBusy == ~Multiple(RedLen) /\ TypeInv /\ StartTransmission => Busy'
<1> SUFFICES ASSUME ~Multiple(RedLen), TypeInv, StartTransmission PROVE Busy'
    OBVIOUS
<1> DEFINE block == EncapsulateBlockData(RedLen, BlockLen, 0, 0, NoSerial)
<1>1. Enqueue("snd", <<>>, block)
    BY DEF StartTransmission
<1>2. block \in Seq(Segs) /\ SomeCheckpoint(block)
    BY FirstPieces, BlockInSegs DEF RedEndsApart
<1> HIDE DEF block
<1>3. app["snd"] \in Seq(Segs) /\ app'["snd"] = app["snd"] \o block
    BY <1>1, EnqueueAt DEF TypeInv, QueuesType, Engines
<1>4. SomeCheckpoint(app'["snd"])
    BY <1>2, <1>3, CheckpointJoined
<1> QED BY <1>4 DEF Busy, Waits

\* A report that leaves something open makes the sender ask again.
LEMMA ReportBusy == TypeInv /\ DataInv /\ Busy /\ ReceiveReport => Busy'
<1> SUFFICES ASSUME TypeInv, DataInv, Busy, ReceiveReport PROVE Busy'
    OBVIOUS
<1>1. PICK seg \in Reports : wire["snd"] # <<>> /\ seg = Head(wire["snd"]) /\ ReportTaken(seg)
    BY ReportCases
<1> DEFINE filed == StoreClaims(ClaimsOf(ssr["snd"], seg.rp), seg.claims)
           held == UnitsHeld
<1>2. CASE Dropped("snd") \/ Crash("snd")
    BY <1>2, BusyKept DEF Dropped, Crash
<1>3. ASSUME NEW t, NEW again, ReportHandled(seg, filed, t, again) PROVE Busy'
    <2>1. /\ ssr["snd"] \in Sessions /\ seg.rp \in Nat /\ seg.claims \in BlockClaims
          /\ seg \in ReportsSound(held)
        <3> DEFINE R == ReportsSound(held)
        <3>1. wire["snd"] \in Seq(R)
            BY DEF DataInv, PathSound, PathIs
        <3> HIDE DEF R
        <3>2. seg \in R
            BY <1>1, <3>1, SoundFirst
        <3> QED BY <3>2 DEF TypeInv, SessionsType, Engines, Reports, R
    <2>2. seg.rp # NoSerial
        BY <2>1 DEF ReportsSound
    <2>3. /\ ClaimsOf(ssr["snd"], seg.rp) \in BlockClaims
          /\ ClaimsOf(ssr["snd"], seg.rp) = NoClaims \/ ClaimsWell(ClaimsOf(ssr["snd"], seg.rp), held)
        BY <2>1, ClaimsFiled, NoClaimsInBlock DEF DataInv, SenderSound
    <2>4. ClaimsWell(filed, held) /\ filed \in BlockClaims
        BY <2>1, <2>3, FiledWell, StoreInBlock
    <2> HIDE DEF filed, held
    <2>5. /\ ssr'["snd"] = t /\ app'["snd"] = app["snd"] \o again
          /\ app["snd"] \in Seq(Segs) /\ again \in Seq(Segs)
        BY <1>3, EnqueueAt DEF ReportHandled, Session, TypeInv, SessionsType, QueuesType, Engines
    <2>6. ASSUME ~t.redDone, t.rtx < CpRtxLimit PROVE SomeCheckpoint(again)
        <3>1. Reported(ssr["snd"], t, seg.rp, filed, FindMissingClaims(filed))
            BY <1>3 DEF ReportHandled
        <3>2. FindMissingClaims(filed) # NoClaims
            BY <2>6, <3>1 DEF Reported
        <3>3. ssr["snd"].rtx < CpRtxLimit
            <4>1. /\ ssr["snd"].rtx <= t.rtx /\ t.rtx < CpRtxLimit /\ ssr["snd"].rtx \in Nat
                  /\ t.rtx \in Nat /\ CpRtxLimit \in Nat
                BY <2>1, <2>6, <3>1, LtpSessionAssumption DEF Reported, Sessions
            <4> QED BY <4>1
        <3>4. /\ again = SegmentsOf(FindMissingClaims(filed), seg.rp)
              /\ ~Outside(FindMissingClaims(filed))
            BY <1>3, <3>2, <3>3 DEF ReportHandled
        <3> QED BY <2>1, <2>2, <2>4, <3>2, <3>4, GapsResent DEF Resent
    <2>7. ~t.redDone /\ t.rtx < CpRtxLimit => SomeCheckpoint(app'["snd"])
        BY <2>5, <2>6, CheckpointJoined
    <2> QED BY <2>5, <2>7 DEF Busy, Waits
<1> QED BY <1>1, <1>2, <1>3 DEF ReportTaken

\* A checkpoint that timed out is queued again.
LEMMA CheckpointBusy ==
    ~Multiple(RedLen) /\ TypeInv /\ DataInv /\ Busy /\ CheckpointTimeout => Busy'
<1> SUFFICES ASSUME ~Multiple(RedLen), TypeInv, DataInv, Busy, CheckpointTimeout PROVE Busy'
    OBVIOUS
<1>1. PICK info \in ssr["snd"].timer : Crash("snd") \/ \E t, again : CheckpointHandled(info, t, again)
    BY CheckpointCases
<1>2. CASE Crash("snd")
    BY <1>2, BusyKept DEF Crash
<1>3. ASSUME NEW t, NEW again, CheckpointHandled(info, t, again) PROVE Busy'
    <2> DEFINE held == UnitsHeld
    <2>1. info \in TimersSound(held)
        BY DEF DataInv, SenderSound
    <2> HIDE DEF held
    <2>2. /\ ssr'["snd"] = t /\ app'["snd"] = app["snd"] \o again
          /\ app["snd"] \in Seq(Segs) /\ again \in Seq(Segs) /\ ssr["snd"] \in Sessions
        BY <1>3, EnqueueAt DEF CheckpointHandled, Session, TypeInv, SessionsType, QueuesType, Engines
    <2>3. ASSUME t.rtx < CpRtxLimit PROVE SomeCheckpoint(again)
        <3>1. ssr["snd"].rtx < CpRtxLimit
            <4>1. /\ ssr["snd"].rtx <= t.rtx /\ ssr["snd"].rtx \in Nat /\ t.rtx \in Nat
                  /\ CpRtxLimit \in Nat
                BY <1>3, <2>2, LtpSessionAssumption DEF CheckpointHandled, TimedOut, Sessions
            <4> QED BY <2>3, <4>1
        <3>2. again = SegmentsOf(info.claims, info.rp)
            BY <1>3, <3>1 DEF CheckpointHandled
        <3> QED BY <2>1, <3>2, CheckpointResent DEF Resent
    <2>4. t.rtx < CpRtxLimit => SomeCheckpoint(app'["snd"])
        BY <2>2, <2>3, CheckpointJoined
    <2> QED BY <2>2, <2>4 DEF Busy, Waits
<1> QED BY <1>1, <1>2, <1>3

\* A checkpoint that leaves starts the timer, and nothing else that leaves
\* stops it before the red part is done.
LEMMA CueWaits ==
    ASSUME NEW s \in Sessions, NEW t, NEW seg \in Segs \union Acks, NEW queueEmpty \in BOOLEAN,
           Cued(s, t, seg, queueEmpty)
    PROVE  \/ t.timer # {}
           \/ seg.type \notin CheckpointTypes /\ (t.timer = s.timer \/ s.redDone)
<1>1. CASE seg.type = "RS"
    BY <1>1 DEF Segs, Acks, DataTypes, RedTypes, GreenTypes
<1>2. CASE seg.type = "GD_EOB"
    <2>1. EndsTo(s, t, queueEmpty)
        BY <1>2 DEF Cued
    <2>2. s.redDone \/ t.timer = s.timer
        BY <2>1 DEF EndsTo, Sessions
    <2> QED BY <1>2, <2>2 DEF CheckpointTypes, RedTypes
<1>3. CASE seg.type = "RD_CP_EORP_EOB"
    <2>1. PICK b \in Sessions : Arms(b, t, CheckpointInfo(seg))
        BY <1>3 DEF Cued
    <2>2. t.timer = {CheckpointInfo(seg)}
        BY <2>1 DEF Arms, Sessions
    <2> QED BY <2>2
<1>4. CASE seg.type \in {"RD_CP_EORP", "RD_CP"}
    <2>1. Arms(s, t, CheckpointInfo(seg))
        BY <1>4 DEF Cued
    <2>2. t.timer = {CheckpointInfo(seg)}
        BY <2>1 DEF Arms, Sessions
    <2> QED BY <2>2
<1>5. CASE seg.type \notin CheckpointTypes \union {"GD_EOB", "RS"}
    <2>1. t = s
        BY <1>5 DEF Cued
    <2> QED BY <1>5, <2>1
<1> QED BY <1>1, <1>2, <1>3, <1>4, <1>5 DEF CheckpointTypes, RedTypes

\* The sender sends.
LEMMA SenderSendsBusy ==
    ASSUME TypeInv, Closing, Busy, NEW seg \in Segs \union Reports \union Acks, NEW t \in Sessions,
           Takes("snd", seg), Session("snd", t), Cued(ssr["snd"], t, seg, QueueEmpty("snd")'),
           (seg \in Acks /\ ops["snd"] # <<>>) \/ (seg \in Segs /\ ops["snd"] = <<>>)
    PROVE  Busy'
<1> DEFINE s == ssr["snd"]
           q == QueueEmpty("snd")'
           data == app["snd"]
<1>1. /\ ssr'["snd"] = t /\ s \in Sessions /\ q \in BOOLEAN /\ seg \in Segs \union Acks
      /\ Cued(s, t, seg, q) /\ data \in Seq(Segs)
    BY DEF Session, TypeInv, SessionsType, QueuesType, QueueEmpty, Engines
<1>2. \/ seg \in Acks /\ app'["snd"] = data
      \/ seg \in Segs /\ seg = Head(data) /\ app'["snd"] = Tail(data)
    BY SenderNext
<1>3. ~s.closed /\ Waits(s, data)
    BY DEF Closing, ClosedWell, Takes, Engines, Busy
<1> HIDE DEF s, q, data
<1> DEFINE Kept(u) == t.active = u.active /\ t.redDone = u.redDone /\ t.rtx = u.rtx
<1>4. Kept(s)
    <2>1. \A u \in Sessions, b \in BOOLEAN : Cued(u, t, seg, b) => Kept(u)
        BY CueKeeps
    <2> QED BY <1>1, <2>1, Zenon
<1>5. \/ t.timer # {}
      \/ seg.type \notin CheckpointTypes /\ (t.timer = s.timer \/ s.redDone)
    BY <1>1, CueWaits
<1>6. seg.type \notin CheckpointTypes /\ SomeCheckpoint(data) => SomeCheckpoint(app'["snd"])
    BY <1>1, <1>2, CheckpointTail
<1>7. Waits(t, app'["snd"])
    BY <1>3, <1>4, <1>5, <1>6 DEF Waits
<1> QED BY <1>1, <1>7 DEF Busy

\* A close, or the inactivity event.
LEMMA EndedBusy ==
    ASSUME TypeInv, Busy, NEW e \in Engines, ClosePostponed(e) \/ SessionInactive(e)
    PROVE  Busy'
<1> DEFINE s == ssr[e]
<1>1. PICK t : \E queueEmpty \in BOOLEAN : Session(e, t) /\ Ended(s, t, queueEmpty)
    <2>1. QueueEmpty(e) \in BOOLEAN
        BY DEF QueueEmpty
    <2> QED BY <2>1, PostponedFields, InactiveFields
<1>2. app'["snd"] = app["snd"]
    BY DEF ClosePostponed, SessionInactive
<1>3. ssr'["snd"] = IF e = "snd" THEN t ELSE ssr["snd"]
    BY <1>1 DEF Session, TypeInv, SessionsType, Engines
<1>4. /\ t.active = s.active /\ t.redDone = s.redDone /\ t.rtx = s.rtx
      /\ t.closed \/ (t.closed = s.closed /\ t.timer = s.timer)
    BY <1>1 DEF Ended
<1>5. CASE e = "snd"
    BY <1>2, <1>3, <1>4, <1>5 DEF Busy, Waits
<1>6. CASE e = "rcv"
    BY <1>2, <1>3, <1>6, BusyKept
<1> QED BY <1>5, <1>6 DEF Engines

\* Every step.
LEMMA NextBusy ==
    ~Multiple(RedLen) /\ TypeInv /\ Closing /\ DataInv /\ Busy /\ [Next]_vars => Busy'
<1> SUFFICES ASSUME ~Multiple(RedLen), TypeInv, Closing, DataInv, Busy, [Next]_vars PROVE Busy'
    OBVIOUS
<1>1. CASE UNCHANGED vars
    BY <1>1, BusyKept DEF vars
<1>2. CASE ReceiveData
    <2>1. PICK seg \in Segs :
              Dropped("rcv") \/ DataRefused(seg) \/ \E t, stored, report : DataHandled(seg, t, stored, report)
        BY <1>2, DataCases
    <2>2. ssr'["snd"] = ssr["snd"]
        BY <2>1 DEF Dropped, DataRefused, Crash, DataHandled, Session, TypeInv, SessionsType, Engines
    <2>3. app'["snd"] = app["snd"]
        BY <2>1, EnqueueAt DEF Dropped, DataRefused, Crash, DataHandled, TypeInv, Engines
    <2> QED BY <2>2, <2>3, BusyKept
<1>3. CASE ReceiveReportAck
    <2>1. PICK seg \in Acks : Dropped("rcv") \/ \E t, done : AckHandled(seg, t, done)
        BY <1>3, AckCases
    <2>2. ssr'["snd"] = ssr["snd"] /\ app'["snd"] = app["snd"]
        BY <1>3, <2>1 DEF Dropped, AckHandled, Session, TypeInv, SessionsType, Engines
    <2> QED BY <2>2, BusyKept
<1>4. CASE ReportTimeout
    <2>1. ReportRefused \/ \E t, again : ReportRepeated(t, again)
        BY <1>4, ReportTimeoutCases
    <2>2. ssr'["snd"] = ssr["snd"]
        BY <2>1 DEF ReportRefused, Crash, ReportRepeated, Session, TypeInv, SessionsType, Engines
    <2>3. app'["snd"] = app["snd"]
        BY <2>1, EnqueueAt DEF ReportRefused, Crash, ReportRepeated, TypeInv, Engines
    <2> QED BY <2>2, <2>3, BusyKept
<1>5. ASSUME NEW e \in Engines, SetLinkUp(e) \/ Send(e) PROVE Busy'
    <2>1. Transmit(e)
        BY <1>5 DEF SetLinkUp, Send
    <2>2. CASE UNCHANGED <<ssr, ops, app, wire>>
        BY <2>2, BusyKept
    <2>3. ASSUME NEW seg \in Segs \union Reports \union Acks, NEW t \in Sessions,
                 Takes(e, seg), Session(e, t), Cued(ssr[e], t, seg, QueueEmpty(e)'),
                 e = "snd" => (seg \in Acks /\ ops["snd"] # <<>>) \/ (seg \in Segs /\ ops["snd"] = <<>>)
          PROVE  Busy'
        <3>1. CASE e = "snd"
            BY <2>3, <3>1, SenderSendsBusy
        <3>2. CASE e = "rcv"
            <4>1. ssr'["snd"] = ssr["snd"] /\ app'["snd"] = app["snd"]
                BY <2>3, <3>2 DEF Session, Takes, TypeInv, SessionsType, QueuesType, Engines
            <4> QED BY <4>1, BusyKept
        <3> QED BY <3>1, <3>2 DEF Engines
    <2> QED BY <2>1, <2>2, <2>3, TransmitCases
<1>6. ASSUME NEW e \in Engines, ClosePostponed(e) \/ SessionInactive(e) PROVE Busy'
    BY <1>6, EndedBusy
<1>7. ASSUME NEW e \in Engines, Lose(e) PROVE Busy'
    BY <1>7, BusyKept DEF Lose
<1> QED BY <1>1, <1>2, <1>3, <1>4, <1>5, <1>6, <1>7, StartBusy, ReportBusy, CheckpointBusy
        DEF Next, Event

\* When nothing is scheduled any more but, perhaps, the inactivity event, the
\* red part is acknowledged, the session closed or every retransmission used,
\* whatever was lost and whichever timers expired early: a red part that does
\* not end with a full segment is never left without a checkpoint or a timer.
THEOREM NoSilentStopTheorem ==
    ASSUME ~Multiple(RedLen)
    PROVE  Spec => []NoSilentStop
<1>1. TypeInv /\ Busy => NoSilentStop
    <2> SUFFICES ASSUME TypeInv, Busy, AtRest, ~ssr["snd"].redDone, ~ssr["snd"].closed
                 PROVE  ssr["snd"].rtx = CpRtxLimit
        BY DEF NoSilentStop
    <2>1. ssr["snd"].active /\ ssr["snd"].timer = {} /\ app["snd"] = <<>>
        BY DEF AtRest, Quiet, QueueEmpty, Engines
    <2>2. ~SomeCheckpoint(app["snd"])
        BY <2>1 DEF SomeCheckpoint
    <2>3. ~(ssr["snd"].rtx < CpRtxLimit)
        BY <2>1, <2>2 DEF Busy, Waits
    <2>4. ssr["snd"].rtx \in Nat /\ ssr["snd"].rtx <= CpRtxLimit /\ CpRtxLimit \in Nat
        BY LtpSessionAssumption DEF TypeInv, SessionsType, Sessions, Engines
    <2> QED BY <2>3, <2>4
<1>2. TypeInv /\ DataInv /\ [Next]_vars => DataInv'
    BY NextData DEF RedEndsApart
<1>3. TypeInv /\ Closing /\ DataInv /\ Busy /\ [Next]_vars => Busy'
    BY NextBusy
<1> QED BY <1>1, <1>2, <1>3, InitType, NextType, InitClosing, NextClosing, InitData, InitBusy, PTL
        DEF Spec
=============================================================================
