----------------------------- MODULE LtpSession -----------------------------
(***************************************************************************)
(* One LTP session: the engine that sends a block (its SenderSessionState- *)
(* Record), the engine that receives it (its ReceiverSessionStateRecord),  *)
(* the convergence layer adapter of each, and the datagram path between    *)
(* them, which keeps the order of what it does not lose.                   *)
(*                                                                         *)
(* Every action is one event of the simulator's event list: a call of the  *)
(* client, a scheduled LtpProtocol::Send, a datagram handed up by the      *)
(* adapter, the expiry of a timer, a postponed CloseSession.               *)
(***************************************************************************)
EXTENDS LtpClaims, LtpSegmentation, Integers, Sequences, SequencesExt, FiniteSetsExt

CONSTANTS
    BlockLen,              \* bytes in the block the client hands down
    RedLen,                \* bytes of its red prefix
    CpRtxLimit,            \* attribute CheckPointRtxLimit
    RpRtxLimit,            \* attribute ReportSegmentRtxLimit
    Lossy,                 \* segment types the path may lose
    MaxLoss,               \* bound: how many segments it loses
    TimersOutliveAnswers   \* TRUE: no timer expires while its answer is under way

ASSUME LtpSessionAssumption ==
    /\ BlockLen \in Nat \ {0}
    /\ RedLen \in 0 .. BlockLen
    /\ CpRtxLimit \in Nat
    /\ RpRtxLimit \in Nat
    /\ MaxLoss \in Nat
    /\ BlockLen < WordMod     \* offsets of segments are uint32_t
    /\ TimersOutliveAnswers \in BOOLEAN

Engines == {"snd", "rcv"}
Peer(e) == IF e = "snd" THEN "rcv" ELSE "snd"

VARIABLES
    ssr,       \* per engine, the session state record
    ops,       \* per engine, m_txQueue.m_internalOps
    app,       \* per engine, m_txQueue.m_appData
    linkUp,    \* per engine, the adapter's m_linkState
    sending,   \* per engine, an LtpProtocol::Send event is scheduled
    wire,      \* per engine, the datagrams on their way to it
    losses,    \* datagrams lost so far
    red,       \* the receiver's m_rxRedBuffer: offset -> [len, type]
    delivered, \* RED_PART_RCV and GP_SEGMENT_RCV notices to the receiving client
    handed,    \* per unit of the block, how often m_bpCallback handed it up
    crashed    \* the engine that has ended the process, if one has

vars == <<ssr, ops, app, linkUp, sending, wire, losses, red, delivered, handed, crashed>>

----------------------------------------------------------------------------
(* Segments and session state records.                                     *)

Notice(code, data, eob) == [code |-> code, data |-> data, eob |-> eob]
Units(off, len) == [i \in 1 .. len |-> off + i - 1]

ReportSegment(rp, claims) == [type |-> "RS", rp |-> rp, claims |-> claims]
ReportAck(rp)             == [type |-> "RAS", rp |-> rp]

\* RedSegmentInfo, as far as the timers and RetransmitSegment use it.
Info(claims, rp) == [claims |-> claims, rp |-> rp]

\* rp is m_currentRpSerialNumber and rtx is m_cpTxCnt or m_rpTxCnt; closing
\* counts the postponed CloseSession events and ends the SESSION_END notices;
\* alive says that the inactivity event is scheduled.  claims maps a report
\* serial number to the claims filed under it.  high is m_highBound.  timer
\* holds the argument of the running checkpoint or report timer.
NewSession(firstRp) ==
    [active |-> TRUE, redDone |-> FALSE, blockDone |-> FALSE, closed |-> FALSE,
     fullGreen |-> FALSE, rp |-> firstRp, rtx |-> 0, closing |-> 0, ends |-> 0,
     alive |-> FALSE, timer |-> {}, high |-> 0, claims |-> [s \in {} |-> NoClaims]]

NoSession == [NewSession(NoSerial) EXCEPT !.active = FALSE]

ClaimsOf(s, rp) == IF rp \in DOMAIN s.claims THEN s.claims[rp] ELSE NoClaims

WithClaims(s, rp, cl) ==
    [s EXCEPT !.claims = [n \in DOMAIN @ \union {rp} |-> IF n = rp THEN cl ELSE @[n]]]

QueueEmpty(e) == ops[e] = <<>> /\ app[e] = <<>>

\* (Mutant: the session is closed over what is still queued.)
BugCloseSession(s, queueEmpty) ==
    [s EXCEPT !.blockDone = TRUE, !.closed = TRUE, !.ends = @ + 1,
              !.timer = {}, !.alive = FALSE]

\* (Mutant: the timer is left running.)
BugCloseKeepsTimer(s, queueEmpty) ==
    IF queueEmpty
    THEN [s EXCEPT !.blockDone = TRUE, !.closed = TRUE, !.ends = @ + 1, !.alive = FALSE]
    ELSE [s EXCEPT !.blockDone = TRUE, !.closing = @ + 1]

\* (Mutant: the events are cancelled and a close that must wait is forgotten.)
BugCloseForgotten(s, queueEmpty) ==
    IF queueEmpty
    THEN [s EXCEPT !.blockDone = TRUE, !.closed = TRUE, !.ends = @ + 1,
                   !.timer = {}, !.alive = FALSE]
    ELSE [s EXCEPT !.blockDone = TRUE, !.timer = {}, !.alive = FALSE]

\* CloseSession marks the block finished; while segments are queued it is
\* postponed, otherwise it cancels the timer and the inactivity event.
CloseSession(s, queueEmpty) ==
    IF queueEmpty
    THEN [s EXCEPT !.blockDone = TRUE, !.closed = TRUE, !.ends = @ + 1,
                   !.timer = {}, !.alive = FALSE]
    ELSE [s EXCEPT !.blockDone = TRUE, !.closing = @ + 1]

CloseWhenDone(s, queueEmpty) ==
    IF s.redDone /\ s.blockDone THEN CloseSession(s, queueEmpty) ELSE s

Session(e, s) == ssr' = [ssr EXCEPT ![e] = s]

\* (Mutant: Send is not scheduled.)
BugEnqueue(e, newOps, newApp) ==
    /\ ops' = [ops EXCEPT ![e] = @ \o newOps]
    /\ app' = [app EXCEPT ![e] = @ \o newApp]
    /\ sending' = sending

\* Enqueue and, with the link up, schedule Send.
Enqueue(e, newOps, newApp) ==
    /\ ops' = [ops EXCEPT ![e] = @ \o newOps]
    /\ app' = [app EXCEPT ![e] = @ \o newApp]
    /\ sending' = [sending EXCEPT ![e] = @ \/ (linkUp[e] /\ <<newOps, newApp>> # <<<<>>, <<>>>>)]

FirstOf(q) == IF q = <<>> THEN {} ELSE {Head(q)}

Consume(e) == wire' = [wire EXCEPT ![e] = Tail(@)]

----------------------------------------------------------------------------
(* The convergence layer adapter and the link.                             *)

EndOfBlockSent(s, queueEmpty) ==
    CloseWhenDone([s EXCEPT !.blockDone = TRUE], queueEmpty)

\* (Mutant: the timer is not started.)
BugArm(s, info) == s

Arm(s, info) == [s EXCEPT !.timer = {info}]

\* The callbacks the adapter makes once a segment has left.  A checkpoint
\* that ends the block falls through from the one case into the next.
LinkStateCue(s, seg, queueEmpty) ==
    LET checkpoint == Info([o \in {seg.off} |-> seg.len], seg.rp)
    IN  CASE seg.type = "GD_EOB" -> EndOfBlockSent(s, queueEmpty)
          [] seg.type = "RD_CP_EORP_EOB" -> Arm(EndOfBlockSent(s, queueEmpty), checkpoint)
          [] seg.type \in {"RD_CP_EORP", "RD_CP"} -> Arm(s, checkpoint)
          [] seg.type = "RS" -> Arm(s, Info(NoClaims, seg.rp))
          [] OTHER -> s

\* LtpProtocol::Send: one segment leaves, internal operations first, and the
\* event is scheduled again; it ends on an empty queue.
Transmit(e) ==
    IF QueueEmpty(e)
    THEN /\ sending' = [sending EXCEPT ![e] = FALSE]
         /\ UNCHANGED <<ssr, ops, app, wire>>
    ELSE LET urgent == ops[e] # <<>>
             seg    == IF urgent THEN Head(ops[e]) ELSE Head(app[e])
         IN  /\ ops' = IF urgent THEN [ops EXCEPT ![e] = Tail(@)] ELSE ops
             /\ app' = IF urgent THEN app ELSE [app EXCEPT ![e] = Tail(@)]
             /\ wire' = [wire EXCEPT ![Peer(e)] = Append(@, seg)]
             /\ sending' = [sending EXCEPT ![e] = TRUE]
             /\ Session(e, LinkStateCue(ssr[e], seg, ops'[e] = <<>> /\ app'[e] = <<>>))

Send(e) ==
    /\ sending[e]
    /\ Transmit(e)
    /\ UNCHANGED <<linkUp, losses, red, delivered, handed, crashed>>

\* The link-up cue calls Send with the session the adapter was last given;
\* before there is one nothing is found and nothing happens.
SetLinkUp(e) ==
    /\ ~linkUp[e]
    /\ linkUp' = [linkUp EXCEPT ![e] = TRUE]
    /\ Transmit(e)
    /\ UNCHANGED <<losses, red, delivered, handed, crashed>>

Lose(e) ==
    /\ wire[e] # <<>>
    /\ Head(wire[e]).type \in Lossy
    /\ losses < MaxLoss
    /\ losses' = losses + 1
    /\ Consume(e)
    /\ UNCHANGED <<ssr, ops, app, linkUp, sending, red, delivered, handed, crashed>>

----------------------------------------------------------------------------
(* The sending engine.                                                     *)

StartTransmission ==
    /\ ~ssr["snd"].active
    /\ Session("snd", [NewSession(NoSerial) EXCEPT !.fullGreen = (RedLen = 0)])
    /\ Enqueue("snd", <<>>, EncapsulateBlockData(RedLen, BlockLen, 0, 0, NoSerial))
    /\ UNCHANGED <<linkUp, wire, losses, red, delivered, handed, crashed>>

\* The segments RetransmitSegment makes of the claims that are to be sent
\* again; only those of the last claim carry the serial number of the report.
SegmentsOf(claims, rp) ==
    LET offs == Ascending(DOMAIN claims)
        serial(i) == IF i = Len(offs) THEN rp ELSE NoSerial
    IN  FlattenSeq([i \in 1 .. Len(offs) |->
            EncapsulateBlockData(RedLen, RedLen, offs[i], claims[offs[i]], serial(i))])

\* A claim that ends behind the red part makes EncapsulateSegment copy bytes
\* from behind m_txData, up to 2^32 of them: the simulator is killed.
Outside(claims) == \E o \in DOMAIN claims : o + claims[o] > RedLen

\* (Mutant: one retransmission too many.)
BugMayRetransmit(s) == CpRtxLimit >= s.rtx

\* RetransmitSegment: nothing once the limit is reached; the count goes up
\* only if the link is up.
MayRetransmit(s) == CpRtxLimit > s.rtx
Counted(s) == [s EXCEPT !.rtx = IF linkUp["snd"] THEN @ + 1 ELSE @]

Crash(e) ==
    /\ crashed' = {e}
    /\ UNCHANGED <<ssr, ops, app, linkUp, sending, wire, losses, red, delivered, handed>>

\* A datagram for a session that is closed is dropped.
Dropped(e) ==
    /\ Consume(e)
    /\ UNCHANGED <<ssr, ops, app, linkUp, sending, losses, red, delivered, handed, crashed>>

\* Receive, LTPTYPE_RS: acknowledge, stop the checkpoint timer, file the
\* claims, send again what they leave open or take the red part as done.
ReceiveReport ==
    \E seg \in FirstOf(wire["snd"]) :
    \E filed \in {StoreClaims(ClaimsOf(ssr["snd"], seg.rp), seg.claims)} :
    \E missing \in {FindMissingClaims(filed)} :
        LET s == WithClaims([ssr["snd"] EXCEPT !.alive = TRUE, !.timer = {}], seg.rp, filed)
            again == missing # NoClaims /\ MayRetransmit(s)
            answered == [s EXCEPT !.redDone = @ \/ missing = NoClaims]
        IN  IF s.closed THEN Dropped("snd")
            ELSE IF again /\ Outside(missing) THEN Crash("snd")
            ELSE /\ Consume("snd")
                 /\ Enqueue("snd", <<ReportAck(seg.rp)>>,
                            IF again THEN SegmentsOf(missing, seg.rp) ELSE <<>>)
                 \* the acknowledgment is queued: a close is postponed
                 /\ Session("snd", CloseWhenDone(IF again THEN Counted(answered)
                                                 ELSE answered, FALSE))
                 /\ UNCHANGED <<linkUp, losses, red, delivered, handed, crashed>>

Carries(q, types) == \E m \in ToSet(q) : m.type \in types

\* The timer was set for a round trip; with TimersOutliveAnswers it does not
\* expire before what it waits for is lost.
CheckpointUnanswered ==
    /\ ~Carries(wire["rcv"], CheckpointTypes)
    /\ ~Carries(ops["rcv"] \o wire["snd"], {"RS"})

\* A postponed CloseSession comes back sooner than any timer expires.
CloseComesFirst(e) == ssr[e].closing > 0 /\ QueueEmpty(e)

CheckpointTimeout ==
    /\ ~CloseComesFirst("snd")
    /\ TimersOutliveAnswers => CheckpointUnanswered
    /\ \E info \in ssr["snd"].timer :
         LET s == [ssr["snd"] EXCEPT !.timer = {}]
         IN  IF MayRetransmit(s) /\ Outside(info.claims) THEN Crash("snd")
             ELSE /\ Enqueue("snd", <<>>, IF MayRetransmit(s)
                                          THEN SegmentsOf(info.claims, info.rp) ELSE <<>>)
                  /\ Session("snd", IF MayRetransmit(s) THEN Counted(s) ELSE s)
                  /\ UNCHANGED <<linkUp, wire, losses, red, delivered, handed, crashed>>

----------------------------------------------------------------------------
(* The receiving engine.                                                   *)

\* (Mutant: the claims of the serial number before.)
BugReport(s) == ReportSegment(s.rp, ClaimsOf(s, s.rp - 1))

\* ReportSegmentTransmission files the claims it sends once more, which
\* changes nothing: each is already claimed.
Report(s) == ReportSegment(s.rp, ClaimsOf(s, s.rp))

\* (Mutant: the bound of the last segment, not of the highest.)
BugRaised(high, upper) == upper

\* SetHighBound.
Raised(high, upper) == IF upper > high THEN upper ELSE high

\* AddReceptionClaim ends the process (NS_FATAL_ERROR) unless each claim is
\* longer than one byte, starts behind the one added before it, and ends
\* within the bounds of the report, which are 0 and the highest end received.
Accepted(s) ==
    LET claims == ClaimsOf(s, s.rp)
    IN  \A o \in DOMAIN claims : /\ claims[o] > 1
                                /\ LastUpper(claims, o) <= o
                                /\ Upper(claims, o) <= s.high

\* (Mutant: what goes into the red buffer is not handed up.)
BugHandUp(seg, stored) ==
    [u \in DOMAIN handed |-> handed[u] +
        IF ~stored /\ u \in seg.off .. seg.off + seg.len - 1 THEN 1 ELSE 0]

\* m_bpCallback gets every data segment, stored or not.
HandUp(seg, stored) ==
    [u \in DOMAIN handed |-> handed[u] +
        IF u \in seg.off .. seg.off + seg.len - 1 THEN 1 ELSE 0]

\* Receive, data segments.  The first one creates the record; any other
\* keeps an open session alive.  A red segment that comes when the red part
\* is done ("miss-colored") is handed up but not stored; the test for a
\* finished red part behind LTPTYPE_RD_CP_EORP_EOB is therefore never true.
\* A checkpoint is answered by a report, or ends the process.
ReceiveData ==
    \E seg \in {m \in FirstOf(wire["rcv"]) : m.type \in DataTypes} :
    \E s \in {IF ssr["rcv"].active THEN [ssr["rcv"] EXCEPT !.alive = TRUE] ELSE NewSession(1)} :
    \E claimed \in {WithClaims([s EXCEPT !.high = Raised(@, seg.off + seg.len)],
                              s.rp, InsertClaim(ClaimsOf(s, s.rp), seg.off, seg.len))} :
        LET storedRed == seg.type \in RedTypes /\ ~s.redDone
            green == [s EXCEPT !.fullGreen = @ \/ seg.off = 0,
                               !.blockDone = @ \/ seg.type = "GD_EOB"]
            next ==
                CASE storedRed -> [claimed EXCEPT !.blockDone = @ \/ seg.type = "RD_CP_EORP_EOB"]
                  [] seg.type = "GD" -> green
                  [] seg.type = "GD_EOB" ->
                        IF green.fullGreen THEN CloseSession(green, QueueEmpty("rcv"))
                        ELSE CloseWhenDone(green, QueueEmpty("rcv"))
                  [] OTHER -> s
            reports == storedRed /\ seg.type \in CheckpointTypes
        IN  IF ssr["rcv"].closed THEN Dropped("rcv")
            ELSE IF reports /\ ~Accepted(claimed) THEN Crash("rcv")
            ELSE /\ Consume("rcv")
                 /\ Session("rcv", next)
                 /\ red' = IF storedRed
                           THEN Insert(red, seg.off, [len |-> seg.len, type |-> seg.type])
                           ELSE red
                 /\ Enqueue("rcv", IF reports THEN <<Report(claimed)>> ELSE <<>>, <<>>)
                 /\ handed' = HandUp(seg, storedRed)
                 /\ delivered' = IF seg.type \in GreenTypes
                        THEN Append(delivered, Notice("GP_SEGMENT_RCV", Units(seg.off, seg.len),
                                                      seg.type = "GD_EOB"))
                        ELSE delivered
                 /\ UNCHANGED <<linkUp, losses, crashed>>

\* SignifyRedPartReception empties the red buffer in the order of offsets.
RedPart ==
    LET offs == Ascending(DOMAIN red)
    IN  Notice("RED_PART_RCV",
               FlattenSeq([i \in 1 .. Len(offs) |-> Units(offs[i], red[offs[i]].len)]),
               offs # <<>> /\ red[Last(offs)].type = "RD_CP_EORP_EOB")

\* Receive, LTPTYPE_RAS: stop the report timer; if the report is the current
\* one, see whether the red part is complete, and count the serial number up
\* with the claims copied to it.
ReceiveReportAck ==
    \E seg \in {m \in FirstOf(wire["rcv"]) : m.type = "RAS"} :
        LET s == [ssr["rcv"] EXCEPT !.alive = TRUE, !.timer = {}]
            done == s.redDone \/ FindMissingClaims(ClaimsOf(s, s.rp)) = NoClaims
            next == WithClaims([s EXCEPT !.redDone = done, !.rp = @ + 1],
                               s.rp + 1, ClaimsOf(s, s.rp))
        IN  IF s.closed THEN Dropped("rcv")
            ELSE /\ Consume("rcv")
                 /\ IF s.rp <= seg.rp
                    THEN /\ Session("rcv", CloseWhenDone(next, QueueEmpty("rcv")))
                         /\ red' = IF done THEN [o \in {} |-> 0] ELSE red
                         /\ delivered' = IF done THEN Append(delivered, RedPart) ELSE delivered
                    ELSE Session("rcv", s) /\ UNCHANGED <<red, delivered>>
                 /\ UNCHANGED <<ops, app, linkUp, sending, losses, handed, crashed>>

ReportUnanswered ==
    /\ ~Carries(wire["snd"], {"RS"})
    /\ ~Carries(ops["snd"] \o wire["rcv"], {"RAS"})

\* RetransmitReport sends the current report, whichever one the timer was for.
ReportTimeout ==
    /\ ssr["rcv"].timer # {}
    /\ ~CloseComesFirst("rcv")
    /\ TimersOutliveAnswers => ReportUnanswered
    /\ LET s == [ssr["rcv"] EXCEPT !.timer = {}]
           again == RpRtxLimit > s.rtx
       IN  IF again /\ ~Accepted(s) THEN Crash("rcv")
           ELSE /\ Enqueue("rcv", IF again THEN <<Report(s)>> ELSE <<>>, <<>>)
                /\ Session("rcv", IF again THEN [s EXCEPT !.rtx = @ + 1] ELSE s)
                /\ UNCHANGED <<linkUp, wire, losses, red, delivered, handed, crashed>>

----------------------------------------------------------------------------
(* Both engines.                                                           *)

\* A postponed CloseSession comes back every m_localDelays; while the queue
\* is not empty it changes nothing but its own time.
ClosePostponed(e) ==
    /\ ssr[e].closing > 0
    /\ QueueEmpty(e)
    /\ Session(e, CloseSession([ssr[e] EXCEPT !.closing = @ - 1], TRUE))
    /\ UNCHANGED <<ops, app, linkUp, sending, wire, losses, red, delivered, handed, crashed>>

\* SignalSessionInactive.  With TimersOutliveAnswers the inactivity limit is
\* longer than everything else that can still happen.
Quiet == \A e \in Engines : /\ wire[e] = <<>> /\ QueueEmpty(e)
                            /\ ssr[e].timer = {} /\ ssr[e].closing = 0

SessionInactive(e) ==
    /\ ssr[e].alive
    /\ ~CloseComesFirst(e)
    /\ TimersOutliveAnswers => Quiet
    /\ Session(e, CloseSession([ssr[e] EXCEPT !.alive = FALSE], QueueEmpty(e)))
    /\ UNCHANGED <<ops, app, linkUp, sending, wire, losses, red, delivered, handed, crashed>>

----------------------------------------------------------------------------
Init ==
    /\ ssr = [e \in Engines |-> NoSession]
    /\ ops = [e \in Engines |-> <<>>]
    /\ app = [e \in Engines |-> <<>>]
    /\ linkUp = [e \in Engines |-> FALSE]
    /\ sending = [e \in Engines |-> FALSE]
    /\ wire = [e \in Engines |-> <<>>]
    /\ losses = 0
    /\ red = [o \in {} |-> 0]
    /\ delivered = <<>>
    /\ handed = [u \in 0 .. BlockLen - 1 |-> 0]
    /\ crashed = {}

\* What the simulator has scheduled, and what the path delivers.
Event ==
    \/ StartTransmission
    \/ ReceiveReport
    \/ CheckpointTimeout
    \/ ReceiveData
    \/ ReceiveReportAck
    \/ ReportTimeout
    \/ \E e \in Engines : \/ SetLinkUp(e)
                          \/ Send(e)
                          \/ ClosePostponed(e)
                          \/ SessionInactive(e)

Next == crashed = {} /\ (Event \/ \E e \in Engines : Lose(e))

Spec == Init /\ [][Next]_vars

\* The simulator runs until its event list is empty, and a datagram that is
\* not lost arrives.
Fairness == WF_vars(crashed = {} /\ Event)

FairSpec == Spec /\ Fairness

----------------------------------------------------------------------------
(* What the properties speak about.                                        *)

RedUnits == 0 .. RedLen - 1

InFlight(e) == ToSet(wire[e])
Queued(e)   == ToSet(ops[e]) \union ToSet(app[e])

IsRedPart(i)  == delivered[i].code = "RED_PART_RCV"
RedDeliveries == {delivered[i] : i \in {j \in DOMAIN delivered : IsRedPart(j)}}
UnitsStored   == UNION {o .. o + red[o].len - 1 : o \in DOMAIN red}
UnitsGiven    == UNION {ToSet(n.data) : n \in RedDeliveries}
UnitsHeld     == UnitsStored \union UnitsGiven

Claimed == ClaimsOf(ssr["rcv"], ssr["rcv"].rp)

\* Nothing is scheduled any more but, perhaps, an inactivity event.
AtRest == /\ Quiet
          /\ ssr["snd"].active
          /\ \A e \in Engines : linkUp[e] /\ ~sending[e]

----------------------------------------------------------------------------
(* Type correctness.                                                       *)

IsClaims(f) == \A o \in DOMAIN f : /\ o \in Nat /\ f[o] \in Nat \ {0}
                                   /\ o + f[o] <= BlockLen

IsSegment(m) ==
    \/ /\ m.type \in DataTypes
       /\ m.off \in Nat /\ m.len \in 1 .. Capacity /\ m.rp \in Nat
       /\ m.off + m.len <= BlockLen
    \/ m.type = "RS" /\ m.rp \in Nat /\ IsClaims(m.claims)
    \/ m.type = "RAS" /\ m.rp \in Nat

IsSession(s) ==
    /\ \A b \in {s.active, s.redDone, s.blockDone, s.closed, s.fullGreen, s.alive} :
           b \in BOOLEAN
    /\ s.rp \in Nat /\ s.closing \in Nat /\ s.ends \in Nat /\ s.high \in 0 .. BlockLen
    /\ Cardinality(s.timer) <= 1 /\ \A info \in s.timer : IsClaims(info.claims)
    /\ \A n \in DOMAIN s.claims : n \in Nat /\ IsClaims(s.claims[n])

\* The variables have their types: no retransmission counter is above its
\* attribute, at most one timer of an engine runs, and what is claimed, sent,
\* armed with a timer or stored begins and ends within the block.
TypeOK ==
    /\ \A e \in Engines : /\ IsSession(ssr[e])
                          /\ \A m \in Queued(e) \union InFlight(e) : IsSegment(m)
                          /\ linkUp[e] \in BOOLEAN /\ sending[e] \in BOOLEAN
    /\ ssr["snd"].rtx \in 0 .. CpRtxLimit
    /\ ssr["rcv"].rtx \in 0 .. RpRtxLimit
    /\ losses \in 0 .. MaxLoss
    /\ \A o \in DOMAIN red : /\ o \in Nat /\ red[o].len \in 1 .. Capacity
                             /\ o + red[o].len <= BlockLen /\ red[o].type \in RedTypes
    /\ \A u \in DOMAIN handed : handed[u] \in Nat
    /\ crashed \in SUBSET Engines

----------------------------------------------------------------------------
(* Safety.                                                                 *)

\* The sender takes its red part as acknowledged only when every unit of it
\* is in the receiver's buffer or was given to the receiver's client.
AckSound == ssr["snd"].redDone => RedUnits \subseteq UnitsHeld

\* The receiving client is given the red part once and whole: the first
\* RED_PART_RCV has all of it in order, any later one is empty.
RedPartIntact ==
    \A i \in DOMAIN delivered :
        IsRedPart(i) => delivered[i].data = IF \E j \in 1 .. i - 1 : IsRedPart(j)
                                              THEN <<>> ELSE Units(0, RedLen)

\* The claims the receiver would report are what it holds of the red part, no
\* unit more and none less, through every retransmission and serial number.
ClaimsExact == Bytes(Claimed) = UnitsHeld

\* A report always claims the last unit of the red part.  FindMissingClaims
\* sees only gaps in front of a claim, so a report that ended earlier would
\* make the sender take a red part with a missing tail as complete.
ReportsReachEnd ==
    \A m \in InFlight("snd") \union Queued("rcv") :
        m.type = "RS" => RedLen - 1 \in Bytes(m.claims)

\* The receiver never ends the process over a claim it is about to report:
\* through any losses and retransmissions the claims are in order, apart and
\* within the bounds of the report.  That each is longer than one byte holds
\* only when no segment of the red part is of one byte.
ReportsAccepted == "rcv" \notin crashed

\* Once a session is closed and no postponed close is left, nothing can wake
\* it: neither timer nor inactivity event is scheduled.
NoTimerAfterClose ==
    \A e \in Engines :
        ssr[e].closed /\ ssr[e].closing = 0 => ssr[e].timer = {} /\ ~ssr[e].alive

\* A session is not closed over segments it has still to send, and gets none
\* afterwards.
QueueEmptyAfterClose == \A e \in Engines : ssr[e].closed => QueueEmpty(e)

\* Over a link that is up, no segment waits in a queue without a Send event
\* to fetch it, whichever of the handlers queued it.
NothingStalls == \A e \in Engines : linkUp[e] /\ ~QueueEmpty(e) => sending[e]

\* The exchange does not come to rest with the red part unacknowledged unless
\* the checkpoint retransmissions are used up or the session was closed.
NoSilentStop ==
    AtRest => \/ ssr["snd"].redDone
              \/ ssr["snd"].closed
              \/ ssr["snd"].rtx = CpRtxLimit

\* Whatever the client is given, of the red part or of the green one, the
\* bundle protocol was handed before, through its callback; and the sender does
\* not take the red part as acknowledged before all of it was handed up.
HandedUp ==
    /\ \A n \in ToSet(delivered) : \A u \in ToSet(n.data) : handed[u] > 0
    /\ ssr["snd"].redDone => \A u \in RedUnits : handed[u] > 0

----------------------------------------------------------------------------
(* Implementation of the delivery service.                                 *)

Delivery == INSTANCE LtpDelivery WITH
                Red   <- RedUnits,
                held  <- UnitsHeld,
                given <- RedDeliveries # {},
                acked <- ssr["snd"].redDone

\* Every step of the session is a step of the reliable delivery of the red
\* part, or changes nothing of it.
ImplementsDelivery == Delivery!Spec

----------------------------------------------------------------------------
(* Liveness.                                                               *)

\* The red part reaches the receiving client and the sender learns it.
SenderLearns == <>(ssr["snd"].redDone /\ RedDeliveries # {})

\* Both records are closed.
AllClose == <>(\A e \in Engines : ssr[e].closed)

----------------------------------------------------------------------------
(* What the documentation and the comments say and the code does not do.   *)

\* "Find missing claims between the upper and lower bound": what the sender
\* retransmits lies within its red part.
MissingWithinRed == "snd" \notin crashed
=============================================================================
