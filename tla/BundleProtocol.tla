---------------------------- MODULE BundleProtocol ----------------------------
(***************************************************************************)
(* BundleProtocol over its TCP convergence layer: sources, each on a node  *)
(* of its own, cut packets into bundles and store them; the convergence    *)
(* layer writes stored bundles into one connection per source; the node of *)
(* the destinations collects what its connections give it in one buffer    *)
(* and cuts the bundles out again.                                         *)
(*                                                                         *)
(* A bundle is BpHeader, BpPayloadHeader and payload, in units: both       *)
(* headers make HeaderSize units, of which DefaultHeader are there also    *)
(* without the dictionary of endpoint names; those are taken to hold all   *)
(* that the lengths are read from.  TCP keeps order and loses nothing of a *)
(* connection that is established.                                         *)
(***************************************************************************)
EXTENDS Integers, Sequences, FiniteSets, SequencesExt

CONSTANTS
    Sources, Dests,
    Routed,         \* destinations that the static routing knows
    BundleSize,     \* m_bundleSize
    DefaultHeader,  \* GetSerializedSize () of the two headers when empty
    HeaderSize,     \* and of those of a bundle
    TxBuffer,       \* size of a TCP send buffer
    MaxPacket,      \* bound: longest packet an application sends
    MaxBundles      \* bound: bundles of a source

ASSUME BundleAssumption ==
    /\ Routed \subseteq Dests
    /\ BundleSize \in Nat \ {0}
    /\ DefaultHeader \in Nat /\ HeaderSize \in Nat /\ DefaultHeader < HeaderSize
    /\ TxBuffer \in Nat /\ MaxPacket \in Nat /\ MaxBundles \in Nat

VARIABLES
    seq,         \* seq[s]: m_seq of the node of s
    store,       \* store[s]: BpSendBundleStore
    conn,        \* conn[s]: the socket in m_l4SendSockets
    stream,      \* stream[s]: units in that connection, not yet received
    listening,   \* the destinations' node accepts connections
    registered,  \* BpRegistration of that node
    buffer,      \* m_bpRxBufferPacket
    events,      \* RetreiveBundle events that are scheduled
    recv         \* BpRecvBundleStore

vars == <<seq, store, conn, stream, listening, registered, buffer, events, recv>>
sender   == <<seq, store>>
receiver == <<registered, buffer, events, recv>>

Bundle == [src : Sources, dst : Dests, seq : 0 .. MaxBundles - 1, len : 1 .. BundleSize]
Unit   == [of : Bundle, at : 1 .. HeaderSize + BundleSize]

\* A bundle as it is written into the connection.
Units(b) == [k \in 1 .. HeaderSize + b.len |-> [of |-> b, at |-> k]]

----------------------------------------------------------------------------
(* The sender.                                                             *)

\* (Mutant: the room in the send buffer is not looked at.)
BugAccepts(c, b) == c.conn # "failed"

\* Units that were received but not acknowledged and still take room in the
\* send buffer.
Unacknowledged(s) == IF conn[s] = "established" THEN 0 .. TxBuffer - Len(stream[s]) ELSE {0}

\* TcpSocketBase::Send refuses what does not fit in whole, and everything
\* when the connection failed.
Accepts(c, b) ==
    /\ c.conn # "failed"
    /\ Len(c.stream) + c.held + Len(Units(b)) <= TxBuffer

\* (Mutant: the bundle that was handed over is sent and stays in the store.)
BugSendPacket(c, d) ==
    IF (c.conn = "none" /\ d \notin Routed) \/ c.store = <<>> THEN c
    ELSE [c EXCEPT !.conn = IF @ = "none" THEN "connecting" ELSE @,
                   !.stream = IF Accepts(c, Last(c.store)) THEN @ \o Units(Last(c.store))
                                                           ELSE @]

\* BpTcpClaProtocol::SendPacket for a bundle to d: the connection of the
\* source is made when there is none, and the bundle that is oldest in the
\* store goes into it.  What Socket::Send returns is not looked at.
SendPacket(c, d) ==
    IF c.conn = "none" /\ d \notin Routed THEN c
    ELSE LET open == [c EXCEPT !.conn = IF @ = "none" THEN "connecting" ELSE @]
         IN IF c.store = <<>> THEN open
            ELSE [open EXCEPT
                    !.store  = Tail(@),
                    !.stream = IF Accepts(open, Head(c.store))
                                 THEN @ \o Units(Head(c.store)) ELSE @]

\* Lengths of the payloads that a packet is cut into.
Fragments(total) ==
    [k \in 1 .. (total + BundleSize - 1) \div BundleSize |->
        IF k * BundleSize <= total THEN BundleSize ELSE total % BundleSize]

Stored(c, s, d, len) ==
    [c EXCEPT !.store = Append(@, [src |-> s, dst |-> d, seq |-> c.seq, len |-> len]),
              !.seq = @ + 1]

\* Each bundle is stored and the convergence layer is called, twice after the
\* first one.
StoreAndSend(c, s, d, len, k) ==
    LET once == SendPacket(Stored(c, s, d, len), d)
    IN IF k = 1 THEN SendPacket(once, d) ELSE once

\* The node of s when it has stored bundles of all these lengths.
AfterSending(s, d, lens, held) ==
    LET cla[k \in 0 .. Len(lens)] ==
            IF k = 0 THEN [seq |-> seq[s], store |-> store[s], conn |-> conn[s],
                           stream |-> stream[s], held |-> held]
            ELSE StoreAndSend(cla[k - 1], s, d, lens[k], k)
    IN cla[Len(lens)]

\* BundleProtocol::Send.
Send(s, d, total, held) ==
    LET lens  == Fragments(total)
        after == AfterSending(s, d, lens, held)
    IN /\ seq[s] + Len(lens) <= MaxBundles
       /\ seq'    = [seq EXCEPT ![s] = after.seq]
       /\ store'  = [store EXCEPT ![s] = after.store]
       /\ conn'   = [conn EXCEPT ![s] = after.conn]
       /\ stream' = [stream EXCEPT ![s] = after.stream]
       /\ UNCHANGED <<listening, receiver>>

----------------------------------------------------------------------------
(* The connection.                                                         *)

\* A connection that nobody listens for is refused; its socket stays in the
\* map and ConnectionFailed and NormalClose do nothing.
Connect(s) ==
    /\ conn[s] = "connecting"
    /\ conn'   = [conn EXCEPT ![s] = IF listening THEN "established" ELSE "failed"]
    /\ stream' = [stream EXCEPT ![s] = IF listening THEN @ ELSE <<>>]
    /\ UNCHANGED <<sender, listening, receiver>>

----------------------------------------------------------------------------
(* The receiver.                                                           *)

\* StartBundleProtocol or an application registers an endpoint.
Register(d) ==
    /\ d \notin registered
    /\ registered' = registered \union {d}
    /\ listening' = TRUE
    /\ UNCHANGED <<sender, conn, stream, buffer, events, recv>>

\* BundleProtocol::Close leaves the connections, the listening socket and
\* the stored bundles alone.
Close(d) ==
    /\ d \in registered
    /\ registered' = registered \ {d}
    /\ UNCHANGED <<sender, conn, stream, listening, buffer, events, recv>>

\* BpTcpClaProtocol::DataRecv and ReceivePacket: what has arrived on one
\* connection goes to the end of the buffer.
ReceivePacket(s) ==
    /\ conn[s] = "established"
    /\ \E n \in 1 .. Len(stream[s]) :
          /\ buffer'  = buffer \o SubSeq(stream[s], 1, n)
          /\ stream'  = [stream EXCEPT ![s] = SubSeq(@, n + 1, Len(@))]
    /\ events' = events + 1
    /\ UNCHANGED <<sender, conn, listening, registered, recv>>

\* The length and the destination that RetreiveBundle and ProcessBundle read
\* at the front of the buffer: those of the bundle, or anything when what is
\* there is not the beginning of one.
Totals == IF Head(buffer).at = 1 THEN {HeaderSize + Head(buffer).of.len}
                                 ELSE DefaultHeader .. Len(buffer) + 1
ReadDest == IF Head(buffer).at = 1 THEN {Head(buffer).of.dst} ELSE Dests \union {"other"}

\* (Mutant: it waits for as much as the longest bundle takes.)
BugMayHoldHeader == Len(buffer) >= HeaderSize + BundleSize

MayHoldHeader == Len(buffer) > DefaultHeader

ProcessBundle(packet, d) ==
    recv' = IF d \in registered THEN [recv EXCEPT ![d] = Append(@, packet)] ELSE recv

\* (Mutant: no further event is scheduled.)
BugCutBundle(total) ==
    /\ \E d \in ReadDest : ProcessBundle(SubSeq(buffer, 1, total), d)
    /\ buffer' = SubSeq(buffer, total + 1, Len(buffer))
    /\ events' = events - 1

CutBundle(total) ==
    /\ \E d \in ReadDest : ProcessBundle(SubSeq(buffer, 1, total), d)
    /\ buffer' = SubSeq(buffer, total + 1, Len(buffer))
    /\ UNCHANGED events                 \* this one is done, another is scheduled

NothingToCut == /\ events' = events - 1
                /\ UNCHANGED <<buffer, recv>>

RetreiveBundle ==
    /\ events > 0
    /\ IF MayHoldHeader
         THEN \E total \in Totals :
                 IF Len(buffer) >= total THEN CutBundle(total) ELSE NothingToCut
         ELSE NothingToCut
    /\ UNCHANGED <<sender, conn, stream, listening, registered>>

\* BundleProtocol::Receive.  An empty queue and none are the same here.
Receive(d) ==
    /\ d \in registered
    /\ recv[d] # <<>>
    /\ recv' = [recv EXCEPT ![d] = Tail(@)]
    /\ UNCHANGED <<sender, conn, stream, listening, registered, buffer, events>>

----------------------------------------------------------------------------

Init ==
    /\ seq = [s \in Sources |-> 0]
    /\ store = [s \in Sources |-> <<>>]
    /\ conn = [s \in Sources |-> "none"]
    /\ stream = [s \in Sources |-> <<>>]
    /\ listening = FALSE
    /\ registered = {}
    /\ buffer = <<>>
    /\ events = 0
    /\ recv = [d \in Dests |-> <<>>]

Next ==
    \/ \E s \in Sources :
          \/ \E d \in Dests, total \in 1 .. MaxPacket, held \in Unacknowledged(s) :
                Send(s, d, total, held)
          \/ Connect(s)
          \/ ReceivePacket(s)
    \/ \E d \in Dests : Register(d) \/ Close(d) \/ Receive(d)
    \/ RetreiveBundle

Spec == Init /\ [][Next]_vars

\* TCP connects and delivers, and the simulator runs what is scheduled.
Fairness == /\ \A s \in Sources : WF_vars(Connect(s)) /\ WF_vars(ReceivePacket(s))
            /\ WF_vars(RetreiveBundle)

FairSpec == Spec /\ Fairness

----------------------------------------------------------------------------
(* Invariants.                                                             *)

TypeOK ==
    /\ seq \in [Sources -> 0 .. MaxBundles]
    /\ \A s \in Sources : store[s] \in Seq(Bundle) /\ stream[s] \in Seq(Unit)
    /\ conn \in [Sources -> {"none", "connecting", "established", "failed"}]
    /\ \A s \in Sources : Len(stream[s]) <= TxBuffer
    /\ listening \in BOOLEAN
    /\ registered \subseteq Dests
    /\ buffer \in Seq(Unit)
    /\ events \in Nat
    /\ \A d \in Dests : recv[d] \in Seq(Seq(Unit))

\* Never does a whole bundle lie at the front of the buffer with no
\* RetreiveBundle event to come: the chain of events that ReceivePacket starts
\* does not break off before the buffer is worked off, however the stream was
\* cut into segments.
WholeBundleAtFront ==
    MayHoldHeader /\ \A total \in Totals : Len(buffer) >= total

NoBundleStuck == WholeBundleAtFront => events > 0

----------------------------------------------------------------------------
(* The service.                                                            *)

\* A packet is one bundle, from its first unit to its last.
IsBundle(packet) == packet = Units(packet[1].of)

Name(b) == [src |-> b.src, dst |-> b.dst, seq |-> b.seq]

NameOfPacket(packet) ==
    IF IsBundle(packet) THEN Name(packet[1].of) ELSE [Name(packet[1].of) EXCEPT !.seq = "broken"]

\* The bundles that begin in a sequence of units.
Begun(units) ==
    LET first == SelectSeq(units, LAMBDA u : u.at = 1)
    IN [i \in DOMAIN first |-> Name(first[i].of)]

OnTheWay(s) ==
    Begun(SelectSeq(buffer, LAMBDA u : u.of.src = s) \o stream[s])
    \o [i \in DOMAIN store[s] |-> Name(store[s][i])]

Service == INSTANCE BundleDelivery WITH
              MaxFragments <- (MaxPacket + BundleSize - 1) \div BundleSize,
              sent  <- seq,
              pipe  <- [s \in Sources |-> OnTheWay(s)],
              inbox <- [d \in Dests |-> [i \in DOMAIN recv[d] |-> NameOfPacket(recv[d][i])]]

\* Storing, the byte stream and cutting out again neither break, repeat nor
\* reorder the bundles of a source: "The bundles are sent in a FIFO order",
\* and the application gets them in this order.
ImplementsService == Service!Spec

----------------------------------------------------------------------------
(* Liveness.                                                               *)

Underway(s, k) == \E u \in ToSet(buffer \o stream[s]) : u.of.src = s /\ u.of.seq = k

\* A bundle that is in the connection is taken out of it and out of the
\* buffer, whole, in the end.
BundlesArrive == \A s \in Sources, k \in 0 .. MaxBundles - 1 : Underway(s, k) ~> ~Underway(s, k)

----------------------------------------------------------------------------
(* What the documentation and the tests say and the code does not do.      *)

\* "All the bundles generated by a sender bundle node are correctly received":
\* what is stored for an endpoint are bundles as they were sent to it.
BundlesIntact ==
    \A d \in Dests : \A p \in ToSet(recv[d]) : IsBundle(p) /\ p[1].of.dst = d
=============================================================================
