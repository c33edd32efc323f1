------------------------ MODULE BundleProtocol_proofs ------------------------
(***************************************************************************)
(* Proofs about the bundle protocol, for any number of sources and         *)
(* destinations and all sizes: no whole bundle is left lying in the        *)
(* receive buffer, and every operation keeps the types.                    *)
(***************************************************************************)
EXTENDS BundleProtocol, DataLemmas, SequenceTheorems, TLAPS

\* What RetreiveBundle and the other operations preserve.
IInv == events \in Nat /\ NoBundleStuck

\* RetreiveBundle gives its event up only when no whole bundle is in front.
LEMMA RetreiveStep == IInv /\ RetreiveBundle => IInv'
<1> SUFFICES ASSUME IInv, RetreiveBundle PROVE IInv'
  OBVIOUS
<1> events \in Nat /\ events > 0
  BY DEF IInv, RetreiveBundle
<1>1. CASE \E total \in Totals : CutBundle(total)
  <2>1. events' = events
    BY <1>1 DEF CutBundle
  <2> QED  BY <2>1 DEF IInv, NoBundleStuck
<1>2. CASE NothingToCut /\ ~WholeBundleAtFront
  <2>1. events' = events - 1 /\ buffer' = buffer
    BY <1>2 DEF NothingToCut
  <2>2. ~WholeBundleAtFront'
    BY <1>2, <2>1 DEF WholeBundleAtFront, MayHoldHeader, Totals
  <2> QED  BY <2>1, <2>2 DEF IInv, NoBundleStuck
<1> QED
  BY <1>1, <1>2 DEF RetreiveBundle, WholeBundleAtFront

\* No operation takes the last event from a buffer with a whole bundle in front.
LEMMA Step == IInv /\ [Next]_vars => IInv'
<1> SUFFICES ASSUME IInv, [Next]_vars PROVE IInv'
  OBVIOUS
<1>1. ASSUME UNCHANGED <<buffer, events>> PROVE IInv'
  BY <1>1 DEF IInv, NoBundleStuck, WholeBundleAtFront, MayHoldHeader, Totals
<1>2. CASE UNCHANGED vars
  BY <1>1, <1>2 DEF vars
<1>3. ASSUME NEW s \in Sources, NEW d \in Dests, NEW total, NEW held, Send(s, d, total, held)
      PROVE  IInv'
  BY <1>1, <1>3 DEF Send, receiver
<1>4. ASSUME NEW s \in Sources, Connect(s) PROVE IInv'
  BY <1>1, <1>4 DEF Connect, receiver
<1>5. ASSUME NEW s \in Sources, ReceivePacket(s) PROVE IInv'
  <2>1. events' = events + 1 /\ events \in Nat
    BY <1>5 DEF ReceivePacket, IInv
  <2> QED  BY <2>1 DEF IInv, NoBundleStuck
<1>6. ASSUME NEW d \in Dests, Register(d) \/ Close(d) \/ Receive(d) PROVE IInv'
  BY <1>1, <1>6 DEF Register, Close, Receive
<1>7. CASE RetreiveBundle
  BY <1>7, RetreiveStep
<1> QED
  BY <1>2, <1>3, <1>4, <1>5, <1>6, <1>7 DEF Next

\* However the byte streams of any number of sources are cut into segments,
\* RetreiveBundle events are left as long as a whole bundle is at the front of
\* the buffer, so that none waits for data that may never come.
THEOREM WorkedOff == Spec => []NoBundleStuck
<1>1. ASSUME Init  PROVE IInv
  <2>1. events = 0 /\ Len(buffer) = 0 /\ DefaultHeader \in Nat
    BY <1>1, BundleAssumption DEF Init
  <2>2. ~WholeBundleAtFront
    BY <2>1, 0 <= DefaultHeader DEF WholeBundleAtFront, MayHoldHeader
  <2> QED  BY <2>1, <2>2 DEF IInv, NoBundleStuck
<1>2. IInv => NoBundleStuck
  BY DEF IInv
<1> QED
  BY <1>1, <1>2, Step, PTL DEF Spec

----------------------------------------------------------------------------
(***************************************************************************)
(* Types: what Send does to the store and the stream, bundle by bundle.    *)
(***************************************************************************)
ConnStates == {"none", "connecting", "established", "failed"}

\* The node of a source, as the convergence layer sees it.
Nodes ==
    {c \in [seq : 0 .. MaxBundles, store : Seq(Bundle), conn : ConnStates, stream : Seq(Unit),
            held : Nat] : Len(c.stream) <= TxBuffer}

\* A packet is cut into payloads that are neither empty nor too long.
LEMMA FragmentsFit ==
    ASSUME NEW total \in Nat \ {0}
    PROVE  Fragments(total) \in Seq(1 .. BundleSize)
<1> DEFINE B == BundleSize
           n == (total + B - 1) \div B
           q == total \div B
           r == total % B
<1>1. B \in Nat \ {0} /\ total \in Nat \ {0}
  BY BundleAssumption
<1>2. n \in Nat /\ q \in Nat /\ r \in 0 .. B - 1
  BY <1>1
<1>3. n * B <= total + B - 1 /\ total = q * B + r
  BY <1>1
<1> HIDE DEF n, q, r, B
<1>4. ASSUME NEW k \in 1 .. n, ~(k * B <= total) PROVE r \in 1 .. B
  <2>1. CASE r = 0
    <3>1. q < k
      <4> SUFFICES ASSUME k <= q PROVE FALSE
        BY <1>2
      <4>1. k * B <= q * B
        BY <1>1, <1>2
      <4> QED
        BY <1>1, <1>2, <1>3, <1>4, <2>1, <4>1
    <3>2. q + 1 <= n
      BY <1>2, <3>1
    <3>3. (q + 1) * B <= n * B
      BY <1>1, <1>2, <3>2
    <3>4. (q + 1) * B = q * B + B
      BY <1>1, <1>2
    <3>5. q * B \in Nat
      BY <1>1, <1>2
    <3> QED
      BY <1>1, <1>2, <1>3, <2>1, <3>3, <3>4, <3>5
  <2> QED
    BY <1>1, <1>2, <2>1
<1>5. \A k \in 1 .. n : (IF k * B <= total THEN B ELSE r) \in 1 .. B
  BY <1>1, <1>4
<1>6. Fragments(total) = [k \in 1 .. n |-> IF k * B <= total THEN B ELSE r]
  BY DEF Fragments, n, r, B
<1> QED
  BY <1>2, <1>5, <1>6 DEF B

\* A bundle in units.
LEMMA UnitsTyped ==
    ASSUME NEW b \in Bundle
    PROVE  /\ Units(b) \in Seq(Unit)
           /\ Len(Units(b)) \in Nat
<1>1. HeaderSize + b.len \in Nat /\ HeaderSize + b.len <= HeaderSize + BundleSize
  BY BundleAssumption DEF Bundle
<1>2. \A k \in 1 .. HeaderSize + b.len : [of |-> b, at |-> k] \in Unit
  BY <1>1, BundleAssumption DEF Unit
<1> QED
  BY <1>1, <1>2 DEF Units

\* SendPacket moves a bundle from the store into the stream, or drops it.
LEMMA SendPacketTyped ==
    ASSUME NEW c \in Nodes, NEW d
    PROVE  /\ SendPacket(c, d) \in Nodes
           /\ SendPacket(c, d).seq = c.seq /\ SendPacket(c, d).held = c.held
<1> DEFINE open == [c EXCEPT !.conn = IF @ = "none" THEN "connecting" ELSE @]
<1>1. open \in Nodes /\ open.seq = c.seq /\ open.held = c.held /\ open.stream = c.stream
  BY DEF Nodes, ConnStates
<1>2. CASE c.conn = "none" /\ d \notin Routed
  BY <1>2 DEF SendPacket
<1>3. CASE ~(c.conn = "none" /\ d \notin Routed) /\ c.store = <<>>
  BY <1>1, <1>3 DEF SendPacket
<1>4. CASE ~(c.conn = "none" /\ d \notin Routed) /\ c.store # <<>>
  <2> DEFINE b == Head(c.store)
             stream1 == IF Accepts(open, b) THEN c.stream \o Units(b) ELSE c.stream
             t == [open EXCEPT !.store = Tail(@), !.stream = stream1]
  <2>1. b \in Bundle /\ Tail(c.store) \in Seq(Bundle)
    <3> DEFINE s == c.store
    <3>1. s \in Seq(Bundle) /\ s # <<>>
      BY <1>4 DEF Nodes
    <3> HIDE DEF s
    <3>2. Head(s) \in Bundle /\ Tail(s) \in Seq(Bundle)
      BY <3>1
    <3> QED
      BY <3>2 DEF s
  <2>2. SendPacket(c, d) = t
    BY <1>1, <1>4 DEF SendPacket
  <2>3. open.store = c.store /\ c.stream \in Seq(Unit) /\ Len(c.stream) <= TxBuffer /\ c.held \in Nat
    BY DEF Nodes
  <2> HIDE DEF b, open
  <2>4. stream1 \in Seq(Unit) /\ Len(stream1) <= TxBuffer
    <3>1. Units(b) \in Seq(Unit) /\ Len(Units(b)) \in Nat
      BY <2>1, UnitsTyped
    <3>2. CASE Accepts(open, b)
      <4>1. Len(c.stream) + c.held + Len(Units(b)) <= TxBuffer
        BY <1>1, <3>2 DEF Accepts
      <4>2. /\ c.stream \o Units(b) \in Seq(Unit)
            /\ Len(c.stream \o Units(b)) = Len(c.stream) + Len(Units(b))
            /\ Len(c.stream) \in Nat
        BY <2>3, <3>1
      <4> QED
        BY <2>3, <3>1, <3>2, <4>1, <4>2, BundleAssumption
    <3>3. CASE ~Accepts(open, b)
      BY <2>3, <3>3
    <3> QED
      BY <3>2, <3>3
  <2>5. t.store = Tail(c.store) /\ t.stream = stream1 /\ t.seq = c.seq /\ t.held = c.held
    BY <1>1, <2>3 DEF Nodes
  <2> HIDE DEF stream1
  <2>6. t \in Nodes
    BY <1>1, <2>1, <2>3, <2>4 DEF Nodes
  <2> QED
    BY <2>2, <2>5, <2>6
<1> QED
  BY <1>2, <1>3, <1>4

\* A bundle that is stored has the next sequence number.
LEMMA StoreAndSendTyped ==
    ASSUME NEW c \in Nodes, c.seq < MaxBundles, NEW s \in Sources, NEW d \in Dests,
           NEW len \in 1 .. BundleSize, NEW k
    PROVE  /\ StoreAndSend(c, s, d, len, k) \in Nodes
           /\ StoreAndSend(c, s, d, len, k).seq = c.seq + 1
           /\ StoreAndSend(c, s, d, len, k).held = c.held
<1> DEFINE b == [src |-> s, dst |-> d, seq |-> c.seq, len |-> len]
           c1 == Stored(c, s, d, len)
           c2 == SendPacket(c1, d)
<1>1. c.seq \in 0 .. MaxBundles - 1 /\ c.seq + 1 \in 0 .. MaxBundles
  BY BundleAssumption DEF Nodes
<1>2. b \in Bundle
  BY <1>1 DEF Bundle
<1>3. c1 = [c EXCEPT !.store = Append(c.store, b), !.seq = c.seq + 1]
  BY DEF Stored
<1>4. Append(c.store, b) \in Seq(Bundle)
  <2>1. c.store \in Seq(Bundle)
    BY DEF Nodes
  <2> HIDE DEF b
  <2> QED
    BY <1>2, <2>1
<1>5. c1 \in Nodes /\ c1.seq = c.seq + 1 /\ c1.held = c.held
  <2> HIDE DEF b, c1
  <2> QED
    BY <1>1, <1>3, <1>4 DEF Nodes
<1> HIDE DEF c1, b
<1>6. c2 \in Nodes /\ c2.seq = c1.seq /\ c2.held = c1.held
  BY <1>5, SendPacketTyped
<1> HIDE DEF c2
<1>7. /\ SendPacket(c2, d) \in Nodes
      /\ SendPacket(c2, d).seq = c2.seq /\ SendPacket(c2, d).held = c2.held
  BY <1>6, SendPacketTyped
<1>8. StoreAndSend(c, s, d, len, k) = IF k = 1 THEN SendPacket(c2, d) ELSE c2
  BY DEF StoreAndSend, c1, c2
<1> QED
  BY <1>5, <1>6, <1>7, <1>8

NodeOf(s, held) ==
    [seq |-> seq[s], store |-> store[s], conn |-> conn[s], stream |-> stream[s], held |-> held]

\* Send stores one bundle after the other, up to the bound.
LEMMA AfterSendingTyped ==
    ASSUME NEW s \in Sources, NEW d \in Dests, NEW held, NodeOf(s, held) \in Nodes,
           NEW lens \in Seq(1 .. BundleSize), seq[s] + Len(lens) <= MaxBundles
    PROVE  /\ AfterSending(s, d, lens, held) \in Nodes
           /\ AfterSending(s, d, lens, held).seq = seq[s] + Len(lens)
<1> DEFINE n == Len(lens)
           first == NodeOf(s, held)
           step == [k \in 1 .. n |-> [c \in Nodes |->
                       IF c.seq < MaxBundles THEN StoreAndSend(c, s, d, lens[k], k) ELSE c]]
           cla[k \in 0 .. n] == IF k = 0 THEN first ELSE StoreAndSend(cla[k - 1], s, d, lens[k], k)
<1>1. n \in Nat /\ (\A k \in 1 .. n : lens[k] \in 1 .. BundleSize) /\ MaxBundles \in Nat
  BY BundleAssumption
<1>2. AfterSending(s, d, lens, held) = cla[n]
  BY DEF AfterSending, NodeOf
<1>3. first \in Nodes /\ first.seq = seq[s] /\ seq[s] \in Nat /\ seq[s] + n <= MaxBundles
  BY DEF NodeOf, Nodes
<1>4. step \in [1 .. n -> [Nodes -> Nodes]]
  <2>1. ASSUME NEW k \in 1 .. n, NEW c \in Nodes
        PROVE  (IF c.seq < MaxBundles THEN StoreAndSend(c, s, d, lens[k], k) ELSE c) \in Nodes
    BY <1>1, StoreAndSendTyped
  <2> QED
    BY <2>1
<1>5. PICK f : StepsFrom(f, Nodes, first, step, n)
  <2> HIDE DEF step, first, n
  <2> QED
    BY <1>1, <1>3, <1>4, StepsExist
<1> HIDE DEF first
<1>6. /\ f \in [0 .. n -> Nodes] /\ f[0] = first
      /\ \A k \in 1 .. n : f[k] = step[k][f[k - 1]]
  BY <1>5, Zenon DEF StepsFrom
<1>7. ASSUME NEW k \in 1 .. n
      PROVE  f[k] = IF f[k - 1].seq < MaxBundles THEN StoreAndSend(f[k - 1], s, d, lens[k], k)
                                                 ELSE f[k - 1]
  <2>1. k - 1 \in 0 .. n
    BY <1>1
  <2>2. f[k - 1] \in Nodes
    BY <1>6, <2>1
  <2>3. step[k][f[k - 1]] = IF f[k - 1].seq < MaxBundles
                               THEN StoreAndSend(f[k - 1], s, d, lens[k], k) ELSE f[k - 1]
    BY <2>2
  <2> HIDE DEF step
  <2> QED
    BY <1>6, <2>3, Zenon
<1> HIDE DEF step
<1> DEFINE S == {k \in Nat : k <= n => f[k].seq = seq[s] + k}
<1>8. 0 \in S
  BY <1>3, <1>6
<1>9. ASSUME NEW k \in Nat, k \in S PROVE k + 1 \in S
  <2> SUFFICES ASSUME k + 1 <= n PROVE f[k + 1].seq = seq[s] + (k + 1)
    OBVIOUS
  <2>1. k + 1 \in 1 .. n /\ (k + 1) - 1 = k /\ k \in 0 .. n
    BY <1>1
  <2>2. f[k] \in Nodes /\ f[k].seq = seq[s] + k /\ f[k].seq < MaxBundles
    BY <1>1, <1>3, <1>6, <1>9, <2>1
  <2>3. f[k + 1] = StoreAndSend(f[k], s, d, lens[k + 1], k + 1)
    BY <1>7, <2>1, <2>2
  <2>4. f[k + 1].seq = f[k].seq + 1
    BY <1>1, <2>1, <2>2, <2>3, StoreAndSendTyped
  <2> QED
    BY <1>3, <2>2, <2>4
<1>10. Nat \subseteq S
  <2> HIDE DEF S
  <2> QED
    BY <1>8, <1>9, AllNat
<1>11. \A k \in 0 .. n : f[k].seq = seq[s] + k
  BY <1>10
<1>12. f = [k \in 0 .. n |-> IF k = 0 THEN first ELSE StoreAndSend(f[k - 1], s, d, lens[k], k)]
  <2>1. ASSUME NEW k \in 0 .. n
        PROVE  f[k] = IF k = 0 THEN first ELSE StoreAndSend(f[k - 1], s, d, lens[k], k)
    <3>1. CASE k = 0
      BY <1>6, <3>1
    <3>2. CASE k # 0
      <4>1. k \in 1 .. n /\ k - 1 \in 0 .. n
        BY <1>1, <3>2
      <4>2. f[k - 1].seq < MaxBundles
        BY <1>1, <1>3, <1>11, <4>1
      <4> QED
        BY <1>7, <3>2, <4>1, <4>2
    <3> QED
      BY <3>1, <3>2
  <2> QED
    BY <1>6, <2>1
<1>13. cla = [k \in 0 .. n |-> IF k = 0 THEN first ELSE StoreAndSend(cla[k - 1], s, d, lens[k], k)]
  <2> HIDE DEF n
  <2> QED
    BY <1>12
<1> HIDE DEF cla
<1> DEFINE T == {k \in Nat : k <= n => cla[k] = f[k]}
<1>14. 0 \in T
  BY <1>1, <1>6, <1>13
<1>15. ASSUME NEW k \in Nat, k \in T PROVE k + 1 \in T
  <2> SUFFICES ASSUME k + 1 <= n PROVE cla[k + 1] = f[k + 1]
    OBVIOUS
  <2>1. k + 1 \in 0 .. n /\ (k + 1) - 1 = k /\ k + 1 # 0
    BY <1>1
  <2>2. cla[k] = f[k]
    BY <1>1, <1>15, <2>1
  <2>3. cla[k + 1] = StoreAndSend(cla[(k + 1) - 1], s, d, lens[k + 1], k + 1)
    BY <1>13, <2>1, Zenon
  <2>4. f[k + 1] = StoreAndSend(f[(k + 1) - 1], s, d, lens[k + 1], k + 1)
    BY <1>12, <2>1, Zenon
  <2> QED
    BY <2>1, <2>2, <2>3, <2>4
<1>16. Nat \subseteq T
  <2> HIDE DEF T
  <2> QED
    BY <1>14, <1>15, AllNat
<1>17. cla[n] = f[n] /\ n \in 0 .. n
  BY <1>1, <1>16
<1> QED
  BY <1>2, <1>6, <1>11, <1>17

\* The types, and that the queues are functions.
TypeInv ==
    /\ TypeOK
    /\ store \in [Sources -> Seq(Bundle)]
    /\ stream \in [Sources -> Seq(Unit)]
    /\ recv \in [Dests -> Seq(Seq(Unit))]

\* Send: what is stored and sent has its types.
LEMMA SendTyped ==
    ASSUME TypeInv, NEW s \in Sources, NEW d \in Dests, NEW total \in 1 .. MaxPacket,
           NEW held \in Unacknowledged(s), Send(s, d, total, held)
    PROVE  TypeInv'
<1> USE DEF TypeInv, TypeOK
<1> DEFINE lens == Fragments(total)
           after == AfterSending(s, d, lens, held)
<1>1. held \in Nat
  <2>1. Len(stream[s]) \in Nat
    OBVIOUS
  <2> QED
    BY <2>1, BundleAssumption DEF Unacknowledged
<1>2. NodeOf(s, held) \in Nodes
  BY <1>1 DEF NodeOf, Nodes, ConnStates
<1>3. lens \in Seq(1 .. BundleSize)
  BY FragmentsFit
<1>4. /\ seq[s] + Len(lens) <= MaxBundles
      /\ seq'    = [seq EXCEPT ![s] = after.seq]
      /\ store'  = [store EXCEPT ![s] = after.store]
      /\ conn'   = [conn EXCEPT ![s] = after.conn]
      /\ stream' = [stream EXCEPT ![s] = after.stream]
      /\ UNCHANGED <<listening, receiver>>
  BY Zenon DEF Send
<1> HIDE DEF lens
<1>5. after \in Nodes
  BY <1>2, <1>3, <1>4, AfterSendingTyped
<1> HIDE DEF after
<1>6. /\ after.seq \in 0 .. MaxBundles /\ after.store \in Seq(Bundle) /\ after.conn \in ConnStates
      /\ after.stream \in Seq(Unit) /\ Len(after.stream) <= TxBuffer
  BY <1>5 DEF Nodes
<1>7. /\ seq' \in [Sources -> 0 .. MaxBundles] /\ conn' \in [Sources -> ConnStates]
      /\ store' \in [Sources -> Seq(Bundle)] /\ stream' \in [Sources -> Seq(Unit)]
  BY <1>4, <1>6 DEF ConnStates
<1>8. \A x \in Sources : Len(stream'[x]) <= TxBuffer
  BY <1>4, <1>6
<1> QED
  BY <1>4, <1>7, <1>8 DEF receiver, ConnStates

\* Connect: a refused connection is emptied.
LEMMA ConnectTyped ==
    ASSUME TypeInv, NEW s \in Sources, Connect(s)
    PROVE  TypeInv'
<1> USE DEF TypeInv, TypeOK
<1>1. PICK u \in {stream[s], <<>>} : stream' = [stream EXCEPT ![s] = u]
  BY DEF Connect
<1>2. u \in Seq(Unit) /\ Len(u) <= TxBuffer
  <2>1. <<>> \in Seq(Unit) /\ Len(<<>>) = 0 /\ TxBuffer \in Nat
    BY BundleAssumption
  <2>2. stream[s] \in Seq(Unit) /\ Len(stream[s]) <= TxBuffer
    OBVIOUS
  <2>3. u = stream[s] \/ u = <<>>
    BY <1>1
  <2>4. CASE u = <<>>
    <3>1. u \in Seq(Unit) /\ Len(u) = 0
      BY <2>1, <2>4
    <3> QED
      BY <2>1, <3>1, 0 <= TxBuffer
  <2> QED
    BY <2>2, <2>3, <2>4
<1>3. stream' \in [Sources -> Seq(Unit)] /\ \A x \in Sources : Len(stream'[x]) <= TxBuffer
  BY <1>1, <1>2
<1>4. conn' \in [Sources -> {"none", "connecting", "established", "failed"}]
  BY DEF Connect
<1> QED
  BY <1>3, <1>4 DEF Connect, sender, receiver

\* ReceivePacket: a prefix of the stream goes to the buffer.
LEMMA ReceivePacketTyped ==
    ASSUME TypeInv, NEW s \in Sources, ReceivePacket(s)
    PROVE  TypeInv'
<1> USE DEF TypeInv, TypeOK
<1>1. PICK n \in 1 .. Len(stream[s]) :
          /\ buffer' = buffer \o SubSeq(stream[s], 1, n)
          /\ stream' = [stream EXCEPT ![s] = SubSeq(@, n + 1, Len(@))]
  BY DEF ReceivePacket
<1> DEFINE u == stream[s]
           taken == SubSeq(u, 1, n)
           rest == SubSeq(u, n + 1, Len(u))
<1>2. u \in Seq(Unit) /\ Len(u) <= TxBuffer /\ Len(u) \in Nat /\ n \in 1 .. Len(u)
  BY <1>1
<1>3. stream' = [stream EXCEPT ![s] = rest] /\ buffer' = buffer \o taken
  BY <1>1
<1> HIDE DEF u
<1>4. taken \in Seq(Unit)
  BY <1>2
<1>5. rest \in Seq(Unit) /\ Len(rest) <= TxBuffer
  <2>1. Len(rest) = Len(u) - n
    BY <1>2
  <2> QED
    BY <1>2, <2>1, BundleAssumption
<1> HIDE DEF taken, rest
<1>6. stream' \in [Sources -> Seq(Unit)] /\ \A x \in Sources : Len(stream'[x]) <= TxBuffer
  BY <1>3, <1>5
<1>7. buffer' \in Seq(Unit)
  BY <1>3, <1>4
<1>8. events' \in Nat
  BY DEF ReceivePacket
<1> QED
  BY <1>6, <1>7, <1>8 DEF ReceivePacket, sender

\* RetreiveBundle: the buffer is cut where it is long enough.
LEMMA RetreiveTyped ==
    ASSUME TypeInv, RetreiveBundle
    PROVE  TypeInv'
<1> USE DEF TypeInv, TypeOK
<1>1. events \in Nat /\ events > 0
  BY DEF RetreiveBundle
<1>2. CASE NothingToCut
  BY <1>1, <1>2 DEF NothingToCut, RetreiveBundle, sender
<1>3. CASE MayHoldHeader /\ \E total \in Totals : Len(buffer) >= total /\ CutBundle(total)
  <2>1. PICK total \in Totals : Len(buffer) >= total /\ CutBundle(total)
    BY <1>3
  <2>2. buffer # <<>> /\ Len(buffer) \in Nat
    BY <1>3, BundleAssumption DEF MayHoldHeader
  <2>3. total \in Nat /\ total <= Len(buffer)
    <3>1. Head(buffer) \in Unit
      BY <2>2
    <3>2. Head(buffer).of.len \in Nat
      BY <3>1, BundleAssumption DEF Unit, Bundle
    <3> QED
      BY <2>1, <2>2, <3>2, BundleAssumption DEF Totals
  <2> DEFINE packet == SubSeq(buffer, 1, total)
             rest == SubSeq(buffer, total + 1, Len(buffer))
  <2>4. packet \in Seq(Unit) /\ rest \in Seq(Unit)
    BY <2>2, <2>3
  <2>5. PICK d : recv' = IF d \in registered THEN [recv EXCEPT ![d] = Append(@, packet)] ELSE recv
    BY <2>1 DEF CutBundle, ProcessBundle
  <2>6. buffer' = rest /\ events' = events
    BY <2>1 DEF CutBundle
  <2> HIDE DEF packet, rest
  <2>7. recv' \in [Dests -> Seq(Seq(Unit))]
    <3>1. CASE d \in registered
      <4>1. d \in Dests /\ recv[d] \in Seq(Seq(Unit))
        BY <3>1
      <4> DEFINE longer == Append(recv[d], packet)
      <4>2. longer \in Seq(Seq(Unit))
        BY <2>4, <4>1
      <4>3. recv' = [recv EXCEPT ![d] = longer]
        BY <2>5, <3>1
      <4> HIDE DEF longer
      <4> QED
        BY <4>1, <4>2, <4>3
    <3> QED
      BY <2>5, <3>1
  <2> QED
    BY <2>4, <2>6, <2>7 DEF RetreiveBundle, sender
<1> QED
  BY <1>2, <1>3 DEF RetreiveBundle

\* Register, Close and Receive.
LEMMA EndpointTyped ==
    ASSUME TypeInv, NEW d \in Dests, Register(d) \/ Close(d) \/ Receive(d)
    PROVE  TypeInv'
<1> USE DEF TypeInv, TypeOK
<1>1. CASE Register(d)
  BY <1>1 DEF Register, sender
<1>2. CASE Close(d)
  BY <1>2 DEF Close, sender
<1>3. CASE Receive(d)
  <2> DEFINE later == Tail(recv[d])
  <2>1. recv[d] \in Seq(Seq(Unit)) /\ recv[d] # <<>> /\ recv' = [recv EXCEPT ![d] = later]
    BY <1>3 DEF Receive
  <2>2. later \in Seq(Seq(Unit))
    BY <2>1
  <2> HIDE DEF later
  <2>3. recv' \in [Dests -> Seq(Seq(Unit))]
    BY <2>1, <2>2
  <2> QED
    BY <1>3, <2>3 DEF Receive, sender
<1> QED
  BY <1>1, <1>2, <1>3

\* The node's maps keep their types through every operation: bundles of a
\* source are numbered within the bound, no payload is empty or longer than
\* m_bundleSize, what is in a connection or in the receive buffer are units of
\* bundles, the send buffer is never over-filled, and no RetreiveBundle event
\* is taken that was not scheduled.
THEOREM BundleTypes == Spec => []TypeOK
<1>1. Init => TypeInv
  <2> SUFFICES ASSUME Init PROVE TypeInv
    OBVIOUS
  <2>1. <<>> \in Seq(Bundle) /\ <<>> \in Seq(Unit) /\ <<>> \in Seq(Seq(Unit)) /\ Len(<<>>) = 0
    OBVIOUS
  <2>2. MaxBundles \in Nat /\ TxBuffer \in Nat /\ 0 \in 0 .. MaxBundles
    BY BundleAssumption
  <2>3. \A s \in Sources : Len(stream[s]) <= TxBuffer
    BY <2>1, <2>2 DEF Init
  <2> QED
    BY <2>1, <2>2, <2>3 DEF Init, TypeInv, TypeOK
<1>2. TypeInv /\ [Next]_vars => TypeInv'
  <2> SUFFICES ASSUME TypeInv, [Next]_vars PROVE TypeInv'
    OBVIOUS
  <2>1. CASE UNCHANGED vars
    BY <2>1 DEF vars, TypeInv, TypeOK
  <2> QED
    BY <2>1, SendTyped, ConnectTyped, ReceivePacketTyped, RetreiveTyped, EndpointTyped DEF Next
<1>3. TypeInv => TypeOK
  BY DEF TypeInv
<1> QED
  BY <1>1, <1>2, <1>3, PTL DEF Spec
==============================================================================
