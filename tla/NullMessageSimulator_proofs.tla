---------------------- MODULE NullMessageSimulator_proofs ----------------------
(***************************************************************************)
(* For any number of ranks, any topology with one channel between two      *)
(* ranks at most, any delays and transmission times: guarantees are kept,  *)
(* they grow, and no rank gets an event of its past.  The channels matter: *)
(* a rank with two channels to the same neighbour can break a guarantee.   *)
(* They do not matter to the types, which come last.                       *)
(***************************************************************************)
EXTENDS NullMessageSimulator, DataLemmas, TLAPS

Events == [ts : Nat, kind : Kinds, arg : Ranks \union Links \union {0}]
Messages == [rxTime : Nat, guarantee : Nat]

\* Every pair of ranks is joined by one channel at most.
OneChannel == \A k, l \in Links : Ends[k] = Ends[l] => k = l

IsNull(e, n) == e.kind = "null" /\ e.arg = n

Typed ==
    /\ pc \in [Ranks -> Places]
    /\ now \in [Ranks -> Nat]
    /\ events \in [Ranks -> SUBSET Events]
    /\ safe \in [Ranks -> Nat]
    /\ guarantee \in [Ranks -> [Ranks -> Nat]]
    /\ stop \in [Ranks -> BOOLEAN]
    /\ busy \in [Ranks -> SUBSET Links]
    /\ net \in [Ranks -> [Ranks -> Seq(Messages)]]

\* The stop is in the queue until it is executed.
StopAhead(r) ==
    /\ stop[r] => ~At(r, "event")
    /\ ~stop[r] => Event(StopTime, "stop", 0) \in events[r]

Clock(r) ==
    /\ now[r] <= safe[r]
    /\ \A e \in events[r] : now[r] <= e.ts
    /\ At(r, "idle") => safe[r] = 0

Addressed(r) == \A e \in events[r] : e.kind = "null" => e.arg \in Neighbours(r)

\* For each neighbour one null message event is ahead, within its interval.
NullAhead(r, n) ==
    /\ At(r, "idle") => \A e \in events[r] : ~IsNull(e, n)
    /\ \A e \in events[r] : IsNull(e, n) => /\ e.ts <= now[r] + NullInterval(r, n)
                                            /\ \A f \in events[r] : IsNull(f, n) => e = f
    /\ ~At(r, "idle") /\ ~stop[r] => \/ \E e \in events[r] : IsNull(e, n)
                                     \/ StopTime <= now[r] + NullInterval(r, n)

Local == \A r \in Ranks : /\ StopAhead(r)
                          /\ Clock(r)
                          /\ Addressed(r)
                          /\ \A n \in Neighbours(r) : NullAhead(r, n)

\* What n does next can only be as late as g needs it, as no event that may
\* send to r is due before ...
Quiet(n, r, g) ==
    /\ \A e \in events[n] : IsNull(e, r) \/ g <= e.ts + BundleDelay(n, r)
    /\ At(n, "event") => g <= now[n] + BundleDelay(n, r)

\* ... or the channel l is busy until then.
Occupied(n, r, g, l) ==
    /\ l \in busy[n]
    /\ Ends[l] = {n, r}
    /\ \A e \in events[n] :
          IsNull(e, r) \/ (e.kind = "complete" /\ e.arg = l) => g <= e.ts + BundleDelay(n, r)

\* n can keep the promise that no packet it sends to r arrives before g.
Covered(n, r, g) == /\ g <= safe[n] + BundleDelay(n, r)
                    /\ Quiet(n, r, g) \/ \E l \in Links : Occupied(n, r, g, l)

\* The message m honours the guarantee g, and brings no earlier one.
Follows(m, g) == g <= m.guarantee /\ (IsPacket(m) => g <= m.rxTime)

\* Whatever n has promised to r is honoured behind it and will be.
Kept(n, r) ==
    /\ At(n, "idle") => net[n][r] = <<>>
    /\ safe[r] <= guarantee[r][n]
    /\ Covered(n, r, guarantee[r][n])
    /\ \A j \in DOMAIN net[n][r] :
          /\ Covered(n, r, net[n][r][j].guarantee)
          /\ Follows(net[n][r][j], guarantee[r][n])
          /\ \A i \in 1 .. j - 1 : Follows(net[n][r][j], net[n][r][i].guarantee)

Channels == \A r \in Ranks : /\ \A n \in Neighbours(r) : Kept(n, r)
                             /\ \A n \in Ranks \ Neighbours(r) : net[n][r] = <<>>

IInv == Typed /\ Local /\ Channels

----------------------------------------------------------------------------
\* What the channels of a rank say about its neighbours.
LEMMA Topology ==
    /\ \A r \in Ranks : /\ Neighbours(r) \subseteq Ranks \ {r}
                        /\ Neighbours(r) # {}
                        /\ \A n \in Neighbours(r) : /\ r \in Neighbours(n)
                                                    /\ BundleDelay(r, n) \in Nat
                                                    /\ NullInterval(r, n) \in Nat
    /\ \A r \in Ranks : \A l \in {k \in Links : r \in Ends[k]} :
          /\ Other(r, l) \in Neighbours(r)
          /\ Ends[l] = {r, Other(r, l)}
          /\ BundleDelay(r, Other(r, l)) <= Latency[l]
          /\ Latency[l] \in Nat
<1> USE NullMessageAssumption DEF Links, Ranks
<1>1. ASSUME NEW l \in Links
      PROVE  \E r, n \in Ranks : r # n /\ Ends[l] = {r, n}
  OBVIOUS
<1>2. ASSUME NEW r \in Ranks, NEW n \in Neighbours(r)
      PROVE  /\ n \in Ranks \ {r}
             /\ r \in Neighbours(n)
             /\ \E l \in Links : Ends[l] = {r, n}
  <2>1. PICK l \in Links : r \in Ends[l] /\ n \in Ends[l] /\ n # r
    BY <1>2 DEF Neighbours
  <2>2. Ends[l] = {r, n} /\ n \in Ranks
    BY <1>1, <2>1
  <2>3. r \in Neighbours(n)
    BY <2>1 DEF Neighbours
  <2> QED  BY <2>1, <2>2, <2>3
<1>3. ASSUME NEW r, NEW n, NEW l \in Links, Ends[l] = {r, n}
      PROVE  BundleDelay(r, n) \in Nat /\ BundleDelay(r, n) <= Latency[l] /\ Latency[l] \in Nat
  <2> DEFINE S == {Latency[k] : k \in {j \in Links : Ends[j] = {r, n}}}
  <2>1. S \subseteq Nat /\ Latency[l] \in S /\ S # {}
    BY <1>3
  <2> HIDE DEF S
  <2>2. Min(S) \in S /\ \A y \in S : Min(S) <= y
    BY <2>1, MinOfNat
  <2>3. Min(S) = BundleDelay(r, n)
    BY DEF BundleDelay, S
  <2> QED  BY <2>1, <2>2, <2>3
<1>4. ASSUME NEW r \in Ranks, NEW n \in Neighbours(r)
      PROVE  NullInterval(r, n) \in Nat /\ BundleDelay(r, n) \in Nat
  <2>1. PICK l \in Links : Ends[l] = {r, n}
    BY <1>2
  <2>2. BundleDelay(r, n) \in Nat /\ Tune \in Nat
    BY <2>1, <1>3
  <2>3. Tune * BundleDelay(r, n) \in Nat
    BY <2>2
  <2> QED  BY <2>2, <2>3 DEF NullInterval
<1>5. ASSUME NEW r \in Ranks, NEW l \in Links, r \in Ends[l]
      PROVE  Ends[l] = {r, Other(r, l)} /\ Other(r, l) \in Neighbours(r)
  <2>1. PICK n \in Ranks : n # r /\ Ends[l] = {r, n}
    BY <1>1, <1>5
  <2>2. Other(r, l) = n
    BY <2>1 DEF Other
  <2> QED  BY <2>1, <2>2, <1>5 DEF Neighbours
<1> QED
  BY <1>2, <1>3, <1>4, <1>5

\* The times that a rank computes from a queue of events.
LEMMA Times ==
    ASSUME NEW r \in Ranks, safe[r] \in Nat, NEW q \in SUBSET Events, q # {}
    PROVE  /\ NextTime(q) \in Nat
           /\ \E e \in q : e.ts = NextTime(q)
           /\ \A e \in q : NextTime(q) <= e.ts
           /\ \A n \in Neighbours(r) :
                 /\ GuaranteeTime(r, n, q) \in Nat
                 /\ GuaranteeTime(r, n, q) <= safe[r] + BundleDelay(r, n)
                 /\ GuaranteeTime(r, n, q) <= NextTime(q) + BundleDelay(r, n)
                 /\ \A g \in Nat : /\ g <= safe[r] + BundleDelay(r, n)
                                   /\ g <= NextTime(q) + BundleDelay(r, n)
                                   => g <= GuaranteeTime(r, n, q)
<1> DEFINE S == {e.ts : e \in q}
<1>1. S \subseteq Nat /\ S # {}
  BY DEF Events
<1> HIDE DEF S
<1>2. Min(S) \in S /\ \A t \in S : Min(S) <= t
  BY <1>1, MinOfNat
<1>3. NextTime(q) = Min(S)
  BY DEF NextTime, S
<1>4. /\ NextTime(q) \in Nat
      /\ \E e \in q : e.ts = NextTime(q)
      /\ \A e \in q : NextTime(q) <= e.ts
  BY <1>1, <1>2, <1>3 DEF S
<1>5. LET m == Min({NextTime(q), safe[r]})
      IN  m \in {NextTime(q), safe[r]} /\ m <= NextTime(q) /\ m <= safe[r]
  BY <1>4, MinOfNat
<1>6. \A n \in Neighbours(r) : BundleDelay(r, n) \in Nat
  BY Topology
<1> QED
  BY <1>4, <1>5, <1>6 DEF GuaranteeTime

\* A step of one rank leaves what belongs to another one alone.
LEMMA Elsewhere ==
    ASSUME Typed, NEW r \in Ranks, RankStep(r), NEW x \in Ranks, x # r
    PROVE  /\ pc'[x] = pc[x] /\ now'[x] = now[x] /\ events'[x] = events[x]
           /\ safe'[x] = safe[x] /\ stop'[x] = stop[x] /\ busy'[x] = busy[x]
           /\ guarantee'[x] = guarantee[x]
<1>1. ASSUME NEW k, Receive(r, k)  PROVE events'[x] = events[x] /\ guarantee'[x] = guarantee[x]
  BY <1>1 DEF Receive, SetEvents, Typed
<1>2. ASSUME NEW e, NEW q, Invoke(r, e, q)
      PROVE  pc'[x] = pc[x] /\ events'[x] = events[x] /\ busy'[x] = busy[x]
  BY <1>2 DEF Invoke, NullMessageEventHandler, Goto, SetEvents, Typed
<1>3. CASE Start(r) \/ Schedule(r) \/ StopReceiving(r) \/ Leave(r)
  BY <1>3 DEF Start, Schedule, StopReceiving, Leave, Goto, SetEvents, Typed
<1>4. CASE ProcessOneEvent(r)
  BY <1>2, <1>4 DEF ProcessOneEvent, Typed
<1>5. ASSUME NEW l \in Links, TransmitStart(r, l)
      PROVE  /\ events'[x] = events[x] /\ busy'[x] = busy[x]
             /\ UNCHANGED <<pc, now, safe, guarantee, stop>>
  BY <1>5 DEF TransmitStart, SetEvents, Typed
<1>6. CASE ReceiveNonBlocking(r) \/ ReceiveBlocking(r)
  <2>1. /\ events'[x] = events[x] /\ guarantee'[x] = guarantee[x]
        /\ UNCHANGED <<now, stop, busy>>
    BY <1>1, <1>6 DEF ReceiveNonBlocking, ReceiveBlocking
  <2>2. pc'[x] = pc[x] /\ safe'[x] = safe[x]
    BY <1>6 DEF ReceiveNonBlocking, ReceiveBlocking, Goto, Typed
  <2> QED  BY <2>1, <2>2
<1> QED
  BY <1>3, <1>4, <1>5, <1>6 DEF RankStep

\* What a rank receives honours the guarantee it held.
LEMMA FirstMessage ==
    ASSUME IInv, NEW r \in Ranks, NEW n \in Neighbours(r), Receive(r, n)
    PROVE  LET m == Head(net[n][r])
           IN  /\ m \in Messages /\ 1 \in DOMAIN net[n][r] /\ m = net[n][r][1]
               /\ Tail(net[n][r]) \in Seq(Messages)
               /\ safe[r] <= guarantee[r][n] /\ guarantee[r][n] <= m.guarantee
               /\ IsPacket(m) => guarantee[r][n] <= m.rxTime
               /\ guarantee' = [guarantee EXCEPT ![r][n] = m.guarantee]
               /\ net' = [net EXCEPT ![n][r] = Tail(@)]
               /\ events' = [events EXCEPT ![r] =
                     IF IsPacket(m) THEN Scheduled(@, Event(m.rxTime, "call", 0)) ELSE @]
<1> DEFINE s == net[n][r]
<1>1. s \in Seq(Messages) /\ s # <<>>
  BY Topology DEF Receive, IInv, Typed
<1>2. Head(s) \in Messages /\ 1 \in DOMAIN s /\ Head(s) = s[1] /\ Tail(s) \in Seq(Messages)
  BY <1>1
<1>3. safe[r] <= guarantee[r][n] /\ Follows(s[1], guarantee[r][n])
  BY <1>2 DEF IInv, Channels, Kept
<1> HIDE DEF s
<1>4. /\ guarantee' = [guarantee EXCEPT ![r][n] = Head(s).guarantee]
      /\ net' = [net EXCEPT ![n][r] = Tail(@)]
      /\ events' = [events EXCEPT ![r] = IF IsPacket(Head(s))
               THEN Scheduled(@, Event(Head(s).rxTime, "call", 0)) ELSE @]
  BY DEF Receive, SetEvents, s
<1> QED  BY <1>2, <1>3, <1>4 DEF s, Follows

\* The safe time grows, up to the least that the neighbours guarantee.
LEMMA SafeStep ==
    ASSUME IInv, Next, NEW r \in Ranks
    PROVE  /\ safe'[r] \in Nat /\ safe[r] <= safe'[r]
           /\ \A n \in Neighbours(r) : safe'[r] <= guarantee'[r][n]
<1>1. PICK x \in Ranks : RankStep(x)
  BY DEF Next
<1>2. /\ safe[r] \in Nat
      /\ \A n \in Neighbours(r) : /\ n \in Ranks /\ guarantee[r][n] \in Nat
                                  /\ safe[r] <= guarantee[r][n]
  BY Topology DEF IInv, Typed, Channels, Kept
<1>3. CASE safe'[r] = safe[r] /\ guarantee'[r] = guarantee[r]
  BY <1>2, <1>3
<1>4. ASSUME NEW k \in Neighbours(x), Receive(x, k)
      PROVE  \A n \in Neighbours(r) : guarantee'[r][n] \in Nat /\ safe[r] <= guarantee'[r][n]
  <2> DEFINE g == Head(net[k][x]).guarantee
  <2>1. guarantee' = [guarantee EXCEPT ![x][k] = g] /\ g \in Nat /\ guarantee[x][k] <= g
    BY FirstMessage, <1>4 DEF Messages
  <2> HIDE DEF g
  <2>2. ASSUME NEW n \in Neighbours(r)
        PROVE  guarantee'[r][n] = IF r = x /\ n = k THEN g ELSE guarantee[r][n]
    BY <1>2, <2>1 DEF IInv, Typed
  <2> QED  BY <1>2, <2>1, <2>2
<1>5. ASSUME \A n \in Neighbours(r) : guarantee'[r][n] \in Nat /\ safe[r] <= guarantee'[r][n],
             safe'[r] = SafeTime(r, guarantee'[r])
      PROVE  /\ safe'[r] \in Nat /\ safe[r] <= safe'[r]
             /\ \A n \in Neighbours(r) : safe'[r] <= guarantee'[r][n]
  <2> DEFINE S == {guarantee'[r][n] : n \in Neighbours(r)}
  <2>1. S \subseteq Nat /\ S # {} /\ \A t \in S : safe[r] <= t
    BY <1>5, Topology
  <2> HIDE DEF S
  <2>2. Min(S) \in S /\ \A t \in S : Min(S) <= t
    BY <2>1, MinOfNat
  <2>3. safe'[r] = Min(S)
    BY <1>5 DEF S, SafeTime
  <2> QED  BY <2>1, <2>2, <2>3 DEF S
<1>6. CASE ReceiveNonBlocking(x)
  <2>1. PICK k \in Neighbours(x) : Receive(x, k)
    BY <1>6 DEF ReceiveNonBlocking
  <2>2. safe' = safe
    BY <1>6 DEF ReceiveNonBlocking
  <2> QED  BY <1>2, <1>4, <2>1, <2>2
<1>7. CASE ReceiveBlocking(x)
  <2>1. PICK k \in Neighbours(x) : Receive(x, k)
    BY <1>7 DEF ReceiveBlocking
  <2>2. safe' = [safe EXCEPT ![x] = SafeTime(x, guarantee'[x])]
    BY <1>7 DEF ReceiveBlocking
  <2>3. CASE r = x
    BY <1>4, <1>5, <2>1, <2>2, <2>3 DEF IInv, Typed
  <2>4. CASE r # x
    BY <1>1, <1>3, <2>4, Elsewhere DEF IInv
  <2> QED  BY <2>3, <2>4
<1>8. CASE StopReceiving(x)
  <2>1. safe' = [safe EXCEPT ![x] = SafeTime(x, guarantee[x])] /\ guarantee' = guarantee
    BY <1>8 DEF StopReceiving
  <2>2. CASE r = x
    <3>1. guarantee'[r] = guarantee[r] /\ safe'[r] = SafeTime(r, guarantee[r])
      BY <2>1, <2>2 DEF IInv, Typed
    <3>2. SafeTime(r, guarantee[r]) = SafeTime(r, guarantee'[r])
      BY <3>1
    <3> QED  BY <1>2, <1>5, <3>1, <3>2
  <2> QED  BY <1>3, <2>1, <2>2 DEF IInv, Typed
<1> QED
  BY <1>1, <1>3, <1>6, <1>7, <1>8
  DEF RankStep, Start, ProcessOneEvent, Schedule, TransmitStart, Leave

\* Every step keeps the types and puts every queue in order.
LEMMA LocalStep == IInv /\ Next => Typed' /\ Local'
<1> SUFFICES ASSUME IInv, NEW r \in Ranks, RankStep(r)
            PROVE  Typed' /\ Local'
  BY DEF Next
<1>1. /\ pc[r] \in Places /\ now[r] \in Nat /\ safe[r] \in Nat
      /\ events[r] \in SUBSET Events
      /\ StopAhead(r) /\ Clock(r) /\ Addressed(r)
      /\ \A n \in Neighbours(r) : NullAhead(r, n)
  BY DEF IInv, Typed, Local
<1>2. /\ StopTime \in Nat
      /\ \A n \in Neighbours(r) : n \in Ranks /\ NullInterval(r, n) \in Nat
  BY NullMessageAssumption, Topology
<1>4. SUFFICES /\ Typed'
               /\ StopAhead(r)' /\ Clock(r)' /\ Addressed(r)'
               /\ \A n \in Neighbours(r) : NullAhead(r, n)'
  BY Elsewhere DEF Local, StopAhead, Clock, Addressed, NullAhead, At, IInv
<1>5. CASE Start(r)
  <2>1. /\ pc'[r] = "loop" /\ now'[r] = now[r] /\ safe'[r] = safe[r] /\ stop'[r] = stop[r]
        /\ events'[r] = events[r] \union
                {e \in {NullMessageEvent(r, n, 0) : n \in Neighbours(r)} : e.ts < StopTime}
    BY <1>5 DEF Start, Goto, SetEvents, IInv, Typed
  <2>2. events'[r] \in SUBSET Events
    BY <1>1, <1>2, <2>1 DEF NullMessageEvent, Event, Events, Kinds
  <2>3. Typed'
    <3>1. net' \in [Ranks -> [Ranks -> Seq(Messages)]]
      <4>1. \A n \in Neighbours(r) : Message(0, BundleDelay(r, n)) \in Messages
        BY Topology DEF Message, Messages
      <4>2. [n \in Ranks |-> IF n \in Neighbours(r) THEN <<Message(0, BundleDelay(r, n))>>
                             ELSE <<>>] \in [Ranks -> Seq(Messages)]
        BY <4>1
      <4> QED  BY <1>5, <4>2 DEF Start, IInv, Typed
    <3>2. events' \in [Ranks -> SUBSET Events]
      BY <1>5, <2>2 DEF Start, SetEvents, IInv, Typed
    <3> QED  BY <1>5, <3>1, <3>2 DEF Start, Goto, IInv, Typed, Places
  <2>4. StopAhead(r)' /\ Addressed(r)'
    BY <1>1, <1>5, <2>1 DEF StopAhead, Addressed, At, Start, NullMessageEvent, Event
  <2>5. Clock(r)'
    <3>1. now[r] = 0
      BY <1>1, <1>5 DEF Clock, Start, At
    <3>2. \A n \in Neighbours(r) : NullMessageEvent(r, n, 0).ts \in Nat
      BY <1>2 DEF NullMessageEvent, Event
    <3> QED  BY <1>1, <1>5, <2>1, <3>1, <3>2 DEF Clock, At
  <2>6. ASSUME NEW n \in Neighbours(r)  PROVE NullAhead(r, n)'
    <3> DEFINE f == NullMessageEvent(r, n, 0)
    <3>1. f.ts = NullInterval(r, n) /\ IsNull(f, n) /\ NullInterval(r, n) \in Nat
      BY <1>2 DEF NullMessageEvent, Event, IsNull
    <3>2. \A e \in events'[r] : IsNull(e, n) => e = f
      BY <1>1, <1>5, <2>1 DEF NullAhead, IsNull, At, Start, NullMessageEvent, Event
    <3>3. f.ts < StopTime => f \in events'[r]
      BY <2>1
    <3> HIDE DEF f
    <3> QED  BY <1>1, <1>2, <2>1, <3>1, <3>2, <3>3 DEF NullAhead, At
  <2> QED  BY <2>3, <2>4, <2>5, <2>6
<1>6. CASE ProcessOneEvent(r)
  <2>1. PICK e \in events[r] :
          /\ e.ts = NextTime(events[r])
          /\ now' = [now EXCEPT ![r] = e.ts]
          /\ stop' = [stop EXCEPT ![r] = e.kind = "stop"]
          /\ Invoke(r, e, events[r] \ {e})
    BY <1>6 DEF ProcessOneEvent
  <2>2. /\ ~stop[r] /\ pc[r] = "loop"
        /\ e.ts <= safe[r] /\ \A f \in events[r] : e.ts <= f.ts
    BY <1>1, <1>6, <2>1, Times DEF ProcessOneEvent, IsFinished, IsSafe, At
  <2>3. /\ e \in Events /\ e.ts \in Nat /\ now[r] <= e.ts
        /\ now'[r] = e.ts /\ stop'[r] = (e.kind = "stop") /\ safe'[r] = safe[r]
        /\ now' \in [Ranks -> Nat] /\ stop' \in [Ranks -> BOOLEAN] /\ safe' = safe
        /\ guarantee' = guarantee
    BY <1>1, <1>6, <2>1 DEF IInv, Typed, Events, Clock, ProcessOneEvent
  <2>4. CASE e.kind \in {"call", "complete"}
    <3>1. /\ pc' = [pc EXCEPT ![r] = "event"]
          /\ events' = [events EXCEPT ![r] = @ \ {e}]
          /\ net' = net
          /\ busy' = [busy EXCEPT ![r] = IF e.kind = "complete" THEN @ \ {e.arg} ELSE @]
      BY <2>1, <2>4 DEF Invoke, Goto, SetEvents
    <3>2. Typed'
      BY <2>3, <3>1 DEF IInv, Typed, Places
    <3>3. pc'[r] = "event" /\ events'[r] = events[r] \ {e}
      BY <3>1 DEF IInv, Typed
    <3>4. StopAhead(r)' /\ Addressed(r)'
      BY <1>1, <2>2, <2>3, <2>4, <3>3 DEF StopAhead, Addressed, At, Event
    <3>5. Clock(r)'
      BY <1>1, <2>2, <2>3, <3>3 DEF Clock, At
    <3>6. ASSUME NEW n \in Neighbours(r)  PROVE NullAhead(r, n)'
      <4>1. NullAhead(r, n) /\ NullInterval(r, n) \in Nat /\ \A f \in events[r] : f.ts \in Nat
        BY <1>1, <1>2 DEF Events
      <4> QED  BY <1>1, <1>2, <2>2, <2>3, <2>4, <3>3, <4>1 DEF NullAhead, IsNull, At
    <3> QED  BY <3>2, <3>4, <3>5, <3>6
  <2>5. CASE e.kind = "null"
    <3> DEFINE q == events[r] \ {e}
               f == NullMessageEvent(r, e.arg, e.ts)
    <3>1. e.arg \in Neighbours(r) /\ f \in Events /\ f.ts = e.ts + NullInterval(r, e.arg)
      BY <1>1, <1>2, <2>3, <2>5 DEF Addressed, NullMessageEvent, Event, Events
    <3>2. /\ pc' = [pc EXCEPT ![r] = "receive"]
          /\ events' = [events EXCEPT ![r] = Scheduled(q, f)]
          /\ busy' = busy
          /\ net' = [net EXCEPT ![r][e.arg] = Append(@, Message(0, GuaranteeTime(r, e.arg, q)))]
      BY <2>1, <2>5 DEF Invoke, NullMessageEventHandler, Goto, SetEvents, Sends
    <3>3. Scheduled(q, f) \in SUBSET Events
      BY <1>1, <3>1 DEF Scheduled
    <3>4. GuaranteeTime(r, e.arg, q) \in Nat
      <4>1. q # {} /\ q \in SUBSET Events
        BY <1>1, <2>2, <2>5 DEF StopAhead, Event
      <4> QED  BY <1>1, <3>1, <4>1, Times
    <3>5. Message(0, GuaranteeTime(r, e.arg, q)) \in Messages
      BY <3>4 DEF Message, Messages
    <3>6. net' \in [Ranks -> [Ranks -> Seq(Messages)]]
      <4>1. e.arg \in Ranks
        BY <1>2, <3>1
      <4> QED  BY <3>2, <3>5, <4>1 DEF IInv, Typed
    <3>7. Typed'
      BY <2>3, <3>2, <3>3, <3>6 DEF IInv, Typed, Places
    <3>8. /\ pc'[r] = "receive" /\ f.kind = "null" /\ f.arg = e.arg
          /\ IF f.ts >= StopTime THEN events'[r] = q ELSE events'[r] = q \union {f}
      BY <3>2 DEF IInv, Typed, Scheduled, NullMessageEvent, Event
    <3> HIDE DEF f
    <3>9. StopAhead(r)' /\ Addressed(r)'
      BY <1>1, <2>2, <2>3, <2>5, <3>1, <3>8 DEF StopAhead, Addressed, At, Event
    <3>10. Clock(r)'
      BY <1>1, <1>2, <2>2, <2>3, <3>1, <3>8 DEF Clock, At
    <3>11. ASSUME NEW n \in Neighbours(r)  PROVE NullAhead(r, n)'
      <4>1. NullAhead(r, n) /\ NullInterval(r, n) \in Nat /\ \A d \in events[r] : d.ts \in Nat
        BY <1>1, <1>2 DEF Events
      <4>2. CASE n = e.arg
        BY <1>1, <1>2, <2>2, <2>3, <2>5, <3>1, <3>8, <4>1, <4>2 DEF NullAhead, IsNull, At
      <4>3. CASE n # e.arg
        BY <1>1, <1>2, <2>2, <2>3, <2>5, <3>1, <3>8, <4>1, <4>3 DEF NullAhead, IsNull, At
      <4> QED  BY <4>2, <4>3
    <3> QED  BY <3>7, <3>9, <3>10, <3>11
  <2>6. CASE e.kind \in {"cancelled", "stop"}
    <3>1. /\ pc' = [pc EXCEPT ![r] = "receive"]
          /\ events' = [events EXCEPT ![r] = @ \ {e}]
          /\ busy' = busy /\ net' = net
      BY <2>1, <2>6 DEF Invoke, Goto, SetEvents, IInv, Typed
    <3>2. Typed'
      BY <2>3, <3>1 DEF IInv, Typed, Places
    <3>3. pc'[r] = "receive" /\ events'[r] = events[r] \ {e}
      BY <3>1 DEF IInv, Typed
    <3>4. StopAhead(r)' /\ Addressed(r)'
      BY <1>1, <2>2, <2>3, <2>6, <3>3 DEF StopAhead, Addressed, At, Event
    <3>5. Clock(r)'
      BY <1>1, <2>2, <2>3, <3>3 DEF Clock, At
    <3>6. ASSUME NEW n \in Neighbours(r)  PROVE NullAhead(r, n)'
      <4>1. NullAhead(r, n) /\ NullInterval(r, n) \in Nat /\ \A f \in events[r] : f.ts \in Nat
        BY <1>1, <1>2 DEF Events
      <4> QED  BY <1>1, <1>2, <2>2, <2>3, <2>6, <3>3, <4>1 DEF NullAhead, IsNull, At
    <3> QED  BY <3>2, <3>4, <3>5, <3>6
  <2> QED  BY <2>3, <2>4, <2>5, <2>6 DEF Events, Kinds
<1>7. CASE Schedule(r)
  <2>1. PICK ts \in now[r] .. StopTime - 1 :
          SetEvents(r, events[r] \union {Event(ts, "call", 0)})
    BY <1>7 DEF Schedule
  <2>2. Event(ts, "call", 0) \in Events /\ ts \in Nat
    BY <1>1 DEF Event, Events, Kinds
  <2>3. Typed'
    BY <1>7, <2>1, <2>2 DEF Schedule, SetEvents, IInv, Typed
  <2>4. /\ pc'[r] = pc[r] /\ now'[r] = now[r] /\ safe'[r] = safe[r] /\ stop'[r] = stop[r]
        /\ events'[r] = events[r] \union {Event(ts, "call", 0)}
    BY <1>7, <2>1 DEF Schedule, SetEvents, IInv, Typed
  <2> QED  BY <1>1, <1>2, <1>7, <2>2, <2>3, <2>4
           DEF Schedule, StopAhead, Clock, Addressed, NullAhead, IsNull, At, Event
<1>8. ASSUME NEW l \in Links, TransmitStart(r, l)
      PROVE  /\ Typed' /\ StopAhead(r)' /\ Clock(r)' /\ Addressed(r)'
             /\ \A n \in Neighbours(r) : NullAhead(r, n)'
  <2> DEFINE n == Other(r, l)
             f == NullMessageEvent(r, n, now[r])
  <2>1. PICK txTime \in TxTimes :
          LET c == Event(now[r] + txTime, "complete", l)
              q == Scheduled(events[r], c)
          IN  /\ net' = [net EXCEPT ![r][n] = Append(@,
                    Message(now[r] + txTime + Latency[l], GuaranteeTime(r, n, q)))]
              /\ events' = [events EXCEPT ![r] = Rescheduled(r, n, now[r], q)]
    BY <1>8 DEF TransmitStart, Sends, SetEvents
  <2> DEFINE c == Event(now[r] + txTime, "complete", l)
             q == Scheduled(events[r], c)
             m == Message(now[r] + txTime + Latency[l], GuaranteeTime(r, n, q))
             R == {IF IsNull(e, n) THEN Event(e.ts, "cancelled", n) ELSE e : e \in q}
  <2>2. /\ n \in Neighbours(r) /\ n \in Ranks /\ Latency[l] \in Nat /\ txTime \in Nat
        /\ NullInterval(r, n) \in Nat /\ pc[r] = "event" /\ ~stop[r]
    BY <1>1, <1>2, <1>8, Topology, NullMessageAssumption DEF TransmitStart, StopAhead, At
  <2>3. /\ c \in Events /\ c.ts = now[r] + txTime /\ c.kind = "complete"
        /\ f \in Events /\ f.ts = now[r] + NullInterval(r, n) /\ IsNull(f, n)
    BY <1>1, <2>2 DEF Event, Events, NullMessageEvent, IsNull, Kinds
  <2>4. /\ q = events[r] \/ q = events[r] \union {c}
        /\ q \in SUBSET Events /\ Event(StopTime, "stop", 0) \in q
    BY <1>1, <2>2, <2>3 DEF Scheduled, StopAhead
  <2>5. m \in Messages
    <3>1. GuaranteeTime(r, n, q) \in Nat
      BY <1>1, <2>2, <2>4, Times
    <3> HIDE DEF q
    <3> QED  BY <1>1, <2>2, <3>1 DEF Message, Messages
  <2>6. R \in SUBSET Events
    BY <2>2, <2>4 DEF Event, Events, Kinds
  <2>7. Rescheduled(r, n, now[r], q) = IF f.ts >= StopTime THEN R ELSE R \union {f}
    BY DEF Rescheduled, Scheduled, IsNull
  <2>8. net' \in [Ranks -> [Ranks -> Seq(Messages)]]
    BY <2>1, <2>2, <2>5 DEF IInv, Typed
  <2>9. /\ busy' \in [Ranks -> SUBSET Links]
        /\ pc' = pc /\ now' = now /\ safe' = safe /\ guarantee' = guarantee /\ stop' = stop
    BY <1>8 DEF TransmitStart, IInv, Typed
  <2>10. /\ events' \in [Ranks -> SUBSET Events]
         /\ events'[r] = IF f.ts >= StopTime THEN R ELSE R \union {f}
    BY <2>1, <2>3, <2>6, <2>7 DEF IInv, Typed
  <2>11. Typed'
    BY <2>8, <2>9, <2>10 DEF IInv, Typed
  <2>12. StopAhead(r)' /\ Addressed(r)'
    <3>1. \A e \in R : e.kind = "null" => e \in events[r]
      BY <2>3, <2>4 DEF Event
    <3>2. Event(StopTime, "stop", 0) \in R
      BY <2>4 DEF IsNull, Event
    <3> HIDE DEF R, f
    <3> QED  BY <1>1, <2>2, <2>3, <2>9, <2>10, <3>1, <3>2 DEF StopAhead, Addressed, At, IsNull
  <2>13. Clock(r)'
    <3>1. \A e \in R : \E d \in q : e.ts = d.ts
      BY DEF Event
    <3> HIDE DEF R, f, c, q
    <3>2. \A d \in q : now[r] <= d.ts
      BY <1>1, <2>2, <2>3, <2>4 DEF Clock
    <3> QED  BY <1>1, <2>2, <2>3, <2>9, <2>10, <3>1, <3>2 DEF Clock, At
  <2>14. ASSUME NEW k \in Neighbours(r)  PROVE NullAhead(r, k)'
    <3>1. CASE k = n
      <4>1. \A e \in R : ~IsNull(e, k)
        BY <3>1 DEF IsNull, Event
      <4> HIDE DEF R, f
      <4> QED  BY <1>1, <1>2, <2>2, <2>3, <2>9, <2>10, <3>1, <4>1 DEF NullAhead, At
    <3>2. CASE k # n
      <4>1. \A e : IsNull(e, k) => (e \in R <=> e \in events[r])
        BY <2>3, <2>4, <3>2 DEF IsNull, Event
      <4>2. ~IsNull(f, k)
        BY <2>3, <3>2 DEF IsNull
      <4> HIDE DEF R, f
      <4>3. \A e : IsNull(e, k) => (e \in events'[r] <=> e \in events[r])
        BY <2>10, <4>1, <4>2
      <4> QED  BY <1>1, <2>2, <2>9, <4>3 DEF NullAhead, At
    <3> QED  BY <3>1, <3>2
  <2> QED  BY <2>11, <2>12, <2>13, <2>14
<1>9. ASSUME NEW n \in Neighbours(r), Receive(r, n),
             pc' \in [Ranks -> Places], safe' \in [Ranks -> Nat],
             now[r] <= safe'[r], pc[r] # "idle", pc'[r] \notin {"idle", "event"},
             UNCHANGED <<now, stop, busy>>
      PROVE  /\ Typed' /\ StopAhead(r)' /\ Clock(r)' /\ Addressed(r)'
             /\ \A k \in Neighbours(r) : NullAhead(r, k)'
  <2> DEFINE m == Head(net[n][r])
             e == Event(m.rxTime, "call", 0)
  <2>1. n \in Ranks /\ m \in Messages /\ e \in Events /\ e.ts = m.rxTime /\ e.kind = "call"
    BY FirstMessage, <1>2, <1>9 DEF Event, Events, Messages, Kinds
  <2>2. IsPacket(m) => now[r] <= m.rxTime
    <3>1. guarantee[r][n] \in Nat
      BY <1>2 DEF IInv, Typed
    <3>2. /\ safe[r] <= guarantee[r][n]
          /\ IsPacket(m) => guarantee[r][n] <= m.rxTime
      BY FirstMessage, <1>9
    <3> HIDE DEF m
    <3> QED  BY <1>1, <2>1, <3>1, <3>2 DEF Clock, Messages
  <2>3. /\ events' = [events EXCEPT ![r] = IF IsPacket(m) THEN Scheduled(@, e) ELSE @]
        /\ guarantee' = [guarantee EXCEPT ![r][n] = m.guarantee]
        /\ net' = [net EXCEPT ![n][r] = Tail(@)] /\ Tail(net[n][r]) \in Seq(Messages)
    BY FirstMessage, <1>9
  <2> HIDE DEF m, e
  <2>4. net' \in [Ranks -> [Ranks -> Seq(Messages)]]
    BY <2>1, <2>3 DEF IInv, Typed
  <2>5. guarantee' \in [Ranks -> [Ranks -> Nat]]
    BY <2>1, <2>3 DEF IInv, Typed, Messages
  <2>6. events' \in [Ranks -> SUBSET Events]
    BY <2>1, <2>3 DEF IInv, Typed, Scheduled
  <2>7. Typed'
    BY <1>9, <2>4, <2>5, <2>6 DEF IInv, Typed
  <2>8. /\ now'[r] = now[r] /\ stop'[r] = stop[r]
        /\ events'[r] = events[r] \/ (IsPacket(m) /\ events'[r] = events[r] \union {e})
    <3>1. events'[r] = IF IsPacket(m) THEN Scheduled(events[r], e) ELSE events[r]
      BY <2>3 DEF IInv, Typed
    <3> QED  BY <1>9, <3>1 DEF Scheduled
  <2>9. StopAhead(r)' /\ Addressed(r)'
    BY <1>1, <1>9, <2>1, <2>8 DEF StopAhead, Addressed, At
  <2>10. Clock(r)'
    BY <1>1, <1>9, <2>1, <2>2, <2>8 DEF Clock, At
  <2>11. \A k \in Neighbours(r) : NullAhead(r, k)'
    BY <1>1, <1>9, <2>1, <2>8 DEF NullAhead, IsNull, At
  <2> QED  BY <2>7, <2>9, <2>10, <2>11
<1>10. CASE ReceiveNonBlocking(r)
  <2>1. PICK n \in Neighbours(r) : Receive(r, n)
    BY <1>10 DEF ReceiveNonBlocking
  <2>2. /\ pc' \in [Ranks -> Places] /\ safe' \in [Ranks -> Nat] /\ now[r] <= safe'[r]
        /\ pc[r] # "idle" /\ pc'[r] \notin {"idle", "event"}
        /\ UNCHANGED <<now, stop, busy>>
    BY <1>1, <1>10 DEF ReceiveNonBlocking, Goto, At, Clock, Places, IInv, Typed
  <2> QED  BY <1>9, <2>1, <2>2
<1>11. CASE StopReceiving(r)
  <2>1. safe'[r] \in Nat /\ safe[r] <= safe'[r]
    BY SafeStep DEF Next
  <2>2. /\ Typed'
        /\ pc'[r] = "loop" /\ now'[r] = now[r] /\ stop'[r] = stop[r] /\ events'[r] = events[r]
        /\ pc[r] # "idle"
    BY <1>11, <2>1 DEF StopReceiving, Goto, At, Places, IInv, Typed
  <2> QED  BY <1>1, <2>1, <2>2 DEF StopAhead, Clock, Addressed, NullAhead, At
<1>12. CASE ReceiveBlocking(r)
  <2>1. PICK n \in Neighbours(r) : Receive(r, n)
    BY <1>12 DEF ReceiveBlocking
  <2>2. safe'[r] \in Nat /\ safe[r] <= safe'[r]
    BY SafeStep DEF Next
  <2>3. /\ pc' \in [Ranks -> Places] /\ safe' \in [Ranks -> Nat] /\ now[r] <= safe'[r]
        /\ pc[r] # "idle" /\ pc'[r] \notin {"idle", "event"}
        /\ UNCHANGED <<now, stop, busy>>
    BY <1>1, <1>12, <2>2 DEF ReceiveBlocking, At, Clock, IInv, Typed
  <2> QED  BY <1>9, <2>1, <2>3
<1>13. CASE Leave(r)
  <2>1. /\ pc'[r] = "done" /\ now'[r] = now[r] /\ safe'[r] = safe[r] /\ stop'[r] = stop[r]
        /\ events'[r] = events[r] /\ pc[r] = "loop"
    BY <1>13 DEF Leave, Goto, At, IInv, Typed
  <2>2. Typed'
    BY <1>13 DEF Leave, Goto, Places, IInv, Typed
  <2> QED  BY <1>1, <2>1, <2>2 DEF StopAhead, Clock, Addressed, NullAhead, At
<1> QED
  BY <1>5, <1>6, <1>7, <1>8, <1>10, <1>11, <1>12, <1>13 DEF RankStep

\* Every step keeps what the channels promise.
LEMMA ChannelStep == OneChannel /\ IInv /\ Next => Channels'
<1> SUFFICES ASSUME OneChannel, IInv, NEW r \in Ranks, RankStep(r)
            PROVE  Channels'
  BY DEF Next
<1> Typed' /\ Local'
  BY LocalStep DEF Next
<1>0. ASSUME NEW s \in Seq(Messages), NEW j \in DOMAIN s  PROVE s[j].guarantee \in Nat
  <2>1. s[j] \in Messages
    OBVIOUS
  <2> QED  BY <2>1 DEF Messages
<1>1. /\ now[r] \in Nat /\ safe[r] \in Nat /\ now[r]' \in Nat /\ safe[r]' \in Nat
      /\ events[r] \in SUBSET Events /\ events'[r] \in SUBSET Events
      /\ StopAhead(r) /\ Clock(r) /\ Clock(r)' /\ Addressed(r)
      /\ \A n \in Neighbours(r) : NullAhead(r, n)
  BY DEF IInv, Typed, Local
<1>2. /\ StopTime \in Nat
      /\ \A n \in Neighbours(r) : /\ n \in Ranks
                                  /\ BundleDelay(r, n) \in Nat
                                  /\ NullInterval(r, n) \in Nat
  BY NullMessageAssumption, Topology
\* All events of r are in the future of its clock, which is behind its safe time.
<1>3. ASSUME NEW k \in Neighbours(r), NEW g \in Nat, g <= now[r]' + BundleDelay(r, k)
      PROVE  Covered(r, k, g)' /\ Quiet(r, k, g)'
  <2>1. /\ g <= safe[r]' + BundleDelay(r, k)
        /\ \A e \in events'[r] : g <= e.ts + BundleDelay(r, k)
    BY <1>1, <1>2, <1>3 DEF Clock, Events
  <2> QED  BY <1>3, <2>1 DEF Covered, Quiet
<1>5. safe[r] <= safe[r]'
  BY SafeStep DEF Next
\* What r can keep before its step it can keep behind it.
<1>4. ASSUME NEW k \in Neighbours(r), NEW g \in Nat, Covered(r, k, g)
      PROVE  Covered(r, k, g)'
  <2> DEFINE B == BundleDelay(r, k)
  <2>1. B \in Nat /\ g <= safe[r] + B
    BY <1>2, <1>4 DEF Covered
  <2> HIDE DEF B
  <2>2. CASE Start(r)
    <3>1. safe[r] = 0
      BY <1>1, <2>2 DEF Start, Clock, At
    <3> QED  BY <1>1, <1>3, <2>1, <3>1 DEF B
  <2>3. CASE ProcessOneEvent(r)
    <3>1. PICK e \in events[r] :
            /\ now' = [now EXCEPT ![r] = e.ts]
            /\ Invoke(r, e, events[r] \ {e})
      BY <2>3 DEF ProcessOneEvent
    <3>2. now[r]' = e.ts /\ safe[r]' = safe[r]
      BY <2>3, <3>1 DEF ProcessOneEvent, IInv, Typed
    <3>3. /\ \A f \in events'[r] : \/ f \in events[r]
                                   \/ e.kind = "null" /\ f.kind = "null" /\ f.arg = e.arg
          /\ e.kind = "null" => ~At(r, "event")'
          /\ \A l \in busy[r] : l \in busy'[r] \/ (e.kind = "complete" /\ e.arg = l)
      <4>1. CASE e.kind = "null"
        <5>1. /\ pc'[r] = "receive" /\ busy' = busy
              /\ events'[r] = Scheduled(events[r] \ {e}, NullMessageEvent(r, e.arg, e.ts))
          BY <3>1, <4>1 DEF Invoke, NullMessageEventHandler, Goto, SetEvents, IInv, Typed
        <5> QED  BY <4>1, <5>1 DEF Scheduled, NullMessageEvent, Event, At
      <4>2. CASE e.kind # "null"
        <5>1. /\ events'[r] = events[r] \ {e}
              /\ busy'[r] = IF e.kind = "complete" THEN busy[r] \ {e.arg} ELSE busy[r]
          BY <3>1, <4>2 DEF Invoke, SetEvents, IInv, Typed
        <5> QED  BY <4>2, <5>1
      <4> QED  BY <4>1, <4>2
    <3>4. CASE g <= e.ts + BundleDelay(r, k)
      BY <1>3, <3>2, <3>4
    <3>5. CASE ~(g <= e.ts + BundleDelay(r, k))
      <4>1. CASE Quiet(r, k, g)
        <5>1. IsNull(e, k)
          BY <3>1, <3>5, <4>1 DEF Quiet
        <5> QED  BY <1>4, <3>2, <3>3, <4>1, <5>1 DEF Covered, Quiet, IsNull
      <4>2. ASSUME NEW l \in Links, Occupied(r, k, g, l)  PROVE Covered(r, k, g)'
        <5>1. ~IsNull(e, k) /\ ~(e.kind = "complete" /\ e.arg = l)
          BY <3>1, <3>5, <4>2 DEF Occupied
        <5>2. Occupied(r, k, g, l)'
          BY <3>3, <4>2, <5>1 DEF Occupied, IsNull
        <5> QED  BY <1>4, <3>2, <5>2 DEF Covered
      <4> QED  BY <1>4, <4>1, <4>2 DEF Covered
    <3> QED  BY <3>4, <3>5
  <2>4. CASE Schedule(r)
    <3>1. PICK ts \in now[r] .. StopTime - 1 :
            events' = [events EXCEPT ![r] = @ \union {Event(ts, "call", 0)}]
      BY <2>4 DEF Schedule, SetEvents
    <3>2. /\ events'[r] = events[r] \union {Event(ts, "call", 0)}
          /\ now[r]' = now[r] /\ safe[r]' = safe[r] /\ busy'[r] = busy[r] /\ At(r, "event")
      BY <2>4, <3>1 DEF Schedule, IInv, Typed
    <3>3. CASE Quiet(r, k, g)
      BY <1>3, <3>2, <3>3 DEF Quiet
    <3>4. ASSUME NEW l \in Links, Occupied(r, k, g, l)  PROVE Covered(r, k, g)'
      <4>1. Occupied(r, k, g, l)'
        BY <3>2, <3>4 DEF Occupied, Event, IsNull
      <4> QED  BY <1>4, <3>2, <4>1 DEF Covered
    <3> QED  BY <1>4, <3>3, <3>4 DEF Covered
  <2>5. ASSUME NEW l \in Links, TransmitStart(r, l)  PROVE Covered(r, k, g)'
    <3> DEFINE n == Other(r, l)
    <3>1. PICK txTime \in TxTimes :
            LET c == Event(now[r] + txTime, "complete", l)
                q == Scheduled(events[r], c)
            IN  events' = [events EXCEPT ![r] = Rescheduled(r, n, now[r], q)]
      BY <2>5 DEF TransmitStart, SetEvents
    <3>2. /\ now[r]' = now[r] /\ safe[r]' = safe[r] /\ At(r, "event")
          /\ busy[r] \subseteq busy'[r] /\ l \notin busy[r]
          /\ Ends[l] = {r, n} /\ n \in Neighbours(r)
      <4>1. r \in Ends[l] /\ l \notin busy[r]
        BY <2>5 DEF TransmitStart
      <4>2. Ends[l] = {r, n} /\ n \in Neighbours(r)
        BY <4>1, Topology
      <4>3. /\ now' = now /\ safe' = safe /\ At(r, "event")
            /\ busy' = [busy EXCEPT ![r] = @ \union {l}]
        BY <2>5 DEF TransmitStart
      <4> QED  BY <4>1, <4>2, <4>3 DEF IInv, Typed
    <3>3. CASE Quiet(r, k, g)
      BY <1>3, <3>2, <3>3 DEF Quiet
    <3>4. ASSUME NEW i \in Links, Occupied(r, k, g, i)  PROVE Covered(r, k, g)'
      <4>1. i # l /\ k # n
        BY <3>2, <3>4 DEF Occupied, OneChannel
      <4>2. \A e \in events'[r] :
              IsNull(e, k) \/ (e.kind = "complete" /\ e.arg = i) => e \in events[r]
        <5>1. events'[r] = Rescheduled(r, n, now[r],
                  Scheduled(events[r], Event(now[r] + txTime, "complete", l)))
          BY <3>1 DEF IInv, Typed
        <5> HIDE DEF n
        <5> QED  BY <4>1, <5>1
                 DEF Rescheduled, Scheduled, NullMessageEvent, Event, IsNull
      <4>3. Occupied(r, k, g, i)'
        BY <3>2, <3>4, <4>2 DEF Occupied
      <4> QED  BY <1>4, <3>2, <4>3 DEF Covered
    <3> QED  BY <1>4, <3>3, <3>4 DEF Covered
  <2>6. ASSUME NEW n \in Neighbours(r), Receive(r, n), ~At(r, "event")', safe[r] <= safe[r]',
               UNCHANGED busy
        PROVE  Covered(r, k, g)'
    <3> DEFINE m == Head(net[n][r])
               e == Event(m.rxTime, "call", 0)
    <3>1. e.ts = m.rxTime /\ e.kind = "call" /\ m.rxTime \in Nat
      BY FirstMessage, <2>6 DEF Event, Messages
    <3>2. /\ safe[r] <= guarantee[r][n]
          /\ IsPacket(m) => guarantee[r][n] <= m.rxTime
          /\ events' = [events EXCEPT ![r] = IF IsPacket(m) THEN Scheduled(@, e) ELSE @]
      BY FirstMessage, <2>6
    <3> HIDE DEF m, e
    <3>3. guarantee[r][n] \in Nat /\ busy'[r] = busy[r]
      BY <1>2, <2>6 DEF IInv, Typed
    <3>4. \A f \in events'[r] : f \in events[r] \/ (f = e /\ g <= f.ts + BundleDelay(r, k))
      <4>1. events'[r] = IF IsPacket(m) THEN Scheduled(events[r], e) ELSE events[r]
        BY <3>2 DEF IInv, Typed
      <4>2. IsPacket(m) => g <= e.ts + BundleDelay(r, k)
        BY <1>1, <2>1, <3>1, <3>2, <3>3 DEF B
      <4> QED  BY <4>1, <4>2 DEF Scheduled
    <3>5. g <= safe[r]' + BundleDelay(r, k)
      BY <1>1, <2>1, <2>6 DEF B
    <3>6. CASE Quiet(r, k, g)
      <4>1. Quiet(r, k, g)'
        BY <2>6, <3>4, <3>6 DEF Quiet, IsNull
      <4> QED  BY <3>5, <4>1 DEF Covered
    <3>7. ASSUME NEW l \in Links, Occupied(r, k, g, l)  PROVE Covered(r, k, g)'
      <4>1. Occupied(r, k, g, l)'
        BY <3>1, <3>3, <3>4, <3>7 DEF Occupied, IsNull
      <4> QED  BY <3>5, <4>1 DEF Covered
    <3> QED  BY <1>4, <3>6, <3>7 DEF Covered
  <2>7. CASE ReceiveNonBlocking(r)
    BY <1>1, <2>6, <2>7 DEF ReceiveNonBlocking, Goto, At, IInv, Typed
  <2>8. CASE StopReceiving(r) \/ Leave(r)
    <3>1. /\ events'[r] = events[r] /\ busy'[r] = busy[r] /\ now[r]' = now[r]
          /\ ~At(r, "event")' /\ safe[r] <= safe[r]'
      BY <1>1, <1>5, <2>8 DEF StopReceiving, Leave, Goto, At, IInv, Typed
    <3>2. g <= safe[r]' + BundleDelay(r, k)
      BY <1>1, <2>1, <3>1 DEF B
    <3>3. Quiet(r, k, g) => Quiet(r, k, g)'
      BY <3>1 DEF Quiet
    <3>4. \A l \in Links : Occupied(r, k, g, l) => Occupied(r, k, g, l)'
      BY <3>1 DEF Occupied
    <3> QED  BY <1>4, <3>2, <3>3, <3>4 DEF Covered
  <2>9. CASE ReceiveBlocking(r)
    BY <1>1, <1>5, <2>6, <2>9 DEF ReceiveBlocking, At, IInv, Typed
  <2> QED
    BY <2>2, <2>3, <2>4, <2>5, <2>7, <2>8, <2>9 DEF RankStep
<1>6. ASSUME NEW x \in Ranks, NEW k \in Neighbours(x), NEW g \in Nat, Covered(x, k, g)
      PROVE  Covered(x, k, g)'
  <2>1. CASE x = r
    BY <1>4, <1>6, <2>1
  <2>2. CASE x # r
    BY <1>6, <2>2, Elsewhere DEF IInv, Covered, Quiet, Occupied, At
  <2> QED  BY <2>1, <2>2
<1>7. /\ guarantee \in [Ranks -> [Ranks -> Nat]] /\ net \in [Ranks -> [Ranks -> Seq(Messages)]]
      /\ \A x \in Ranks : \A n \in Neighbours(x) : n \in Ranks /\ Kept(n, x)
      /\ \A x \in Ranks : \A n \in Ranks \ Neighbours(x) : net[n][x] = <<>>
  BY Topology DEF IInv, Typed, Channels
<1>8. \A x \in Ranks : \A n \in Neighbours(x) : safe[x]' <= guarantee[x][n]'
  BY SafeStep DEF Next
\* Nothing is sent or received on the way from n to x.
<1>9. ASSUME NEW x \in Ranks, NEW n \in Neighbours(x), At(n, "idle")' => At(n, "idle"),
             net'[n][x] = net[n][x], guarantee'[x][n] = guarantee[x][n]
      PROVE  Kept(n, x)'
  <2>1. guarantee[x][n] \in Nat /\ Kept(n, x) /\ x \in Neighbours(n) /\ n \in Ranks
    BY <1>7, Topology
  <2>2. net[n][x] \in Seq(Messages)
    BY <1>7, <2>1
  <2>3. \A j \in DOMAIN net[n][x] : net[n][x][j].guarantee \in Nat
    BY <1>0, <2>2
  <2>4. \A g \in Nat : Covered(n, x, g) => Covered(n, x, g)'
    BY <1>6, <2>1
  <2>5. (At(n, "idle") => net[n][x] = <<>>)'
    BY <1>9, <2>1 DEF Kept
  <2>6. Covered(n, x, guarantee[x][n])'
    BY <1>9, <2>1, <2>4 DEF Kept
  <2>7. ASSUME NEW j \in DOMAIN net[n][x]
        PROVE  /\ Covered(n, x, net[n][x][j].guarantee)'
               /\ Follows(net[n][x][j], guarantee[x][n])'
               /\ (\A i \in 1 .. j - 1 : Follows(net[n][x][j], net[n][x][i].guarantee))'
    <3>1. /\ Covered(n, x, net[n][x][j].guarantee)
          /\ Follows(net[n][x][j], guarantee[x][n])
          /\ \A i \in 1 .. j - 1 : Follows(net[n][x][j], net[n][x][i].guarantee)
      BY <2>1 DEF Kept
    <3>2. Covered(n, x, net[n][x][j].guarantee)'
      BY <1>9, <2>3, <2>4, <3>1
    <3> QED  BY <1>9, <3>1, <3>2 DEF Follows, IsPacket
  <2> QED  BY <1>8, <1>9, <2>5, <2>6, <2>7 DEF Kept
\* r sends m to n.
<1>10. ASSUME NEW n \in Neighbours(r), NEW m \in Messages, ~At(r, "idle")',
              \A x \in Ranks : At(x, "idle")' => At(x, "idle"),
              net' = [net EXCEPT ![r][n] = Append(@, m)], guarantee' = guarantee,
              Covered(r, n, m.guarantee)',
              \A g \in Nat : Covered(r, n, g) => Follows(m, g)
       PROVE  Channels'
  <2> DEFINE s == net[r][n]
  <2>1. /\ n \in Ranks /\ r \in Neighbours(n) /\ s \in Seq(Messages)
        /\ guarantee[n][r] \in Nat /\ Kept(r, n)
    BY <1>7, Topology
  <2>2. \A x, k \in Ranks : net'[k][x] = IF k = r /\ x = n THEN Append(s, m) ELSE net[k][x]
    BY <1>7, <1>10, <2>1
  <2>3. net'[r][n] = Append(s, m)
    BY <2>1, <2>2
  <2> HIDE DEF s
  <2>4. /\ DOMAIN Append(s, m) = 1 .. Len(s) + 1 /\ DOMAIN s = 1 .. Len(s) /\ Len(s) \in Nat
        /\ \A j \in 1 .. Len(s) : Append(s, m)[j] = s[j]
        /\ \A j \in DOMAIN s : s[j].guarantee \in Nat
        /\ Append(s, m)[Len(s) + 1] = m
    BY <1>0, <2>1
  <2>5. /\ Covered(r, n, guarantee[n][r])
        /\ \A j \in DOMAIN s : /\ Covered(r, n, s[j].guarantee)
                               /\ Follows(s[j], guarantee[n][r])
                               /\ \A i \in 1 .. j - 1 : Follows(s[j], s[i].guarantee)
    BY <2>1 DEF Kept, s
  <2>6. \A g \in Nat : Covered(r, n, g) => Covered(r, n, g)'
    BY <1>4
  <2>7. Covered(r, n, guarantee[n][r])'
    BY <1>10, <2>1, <2>5, <2>6
  <2>8. ASSUME NEW j \in DOMAIN Append(s, m)
        PROVE  /\ Covered(r, n, net[r][n][j].guarantee)'
               /\ Follows(net[r][n][j], guarantee[n][r])'
               /\ (\A i \in 1 .. j - 1 : Follows(net[r][n][j], net[r][n][i].guarantee))'
    <3>1. CASE j = Len(s) + 1
      <4>1. net'[r][n][j] = m /\ \A i \in 1 .. j - 1 : net'[r][n][i] = s[i] /\ i \in DOMAIN s
        BY <2>3, <2>4, <3>1
      <4>2. Follows(m, guarantee[n][r]) /\ \A i \in DOMAIN s : Follows(m, s[i].guarantee)
        BY <1>10, <2>1, <2>4, <2>5
      <4> QED  BY <1>10, <4>1, <4>2 DEF Follows, IsPacket
    <3>2. CASE j \in DOMAIN s
      <4>1. net'[r][n][j] = s[j] /\ \A i \in 1 .. j - 1 : net'[r][n][i] = s[i]
        BY <2>3, <2>4, <3>2
      <4>2. Covered(r, n, net[r][n][j].guarantee)'
        BY <2>4, <2>5, <2>6, <3>2, <4>1
      <4> QED  BY <1>10, <2>5, <3>2, <4>1, <4>2 DEF Follows, IsPacket
    <3> QED  BY <2>4, <3>1, <3>2
  <2>9. Kept(r, n)'
    BY <1>8, <1>10, <2>1, <2>3, <2>7, <2>8 DEF Kept
  <2>10. ASSUME NEW x \in Ranks, NEW k \in Neighbours(x)  PROVE Kept(k, x)'
    BY <1>7, <1>9, <1>10, <2>2, <2>9
  <2>11. ASSUME NEW x \in Ranks, NEW k \in Ranks \ Neighbours(x)  PROVE net'[k][x] = <<>>
    BY <1>7, <2>1, <2>2
  <2> QED  BY <2>10, <2>11 DEF Channels
\* r receives the first message of n.
<1>11. ASSUME NEW n \in Neighbours(r), Receive(r, n),
              \A x \in Ranks : At(x, "idle")' => At(x, "idle")
       PROVE  Channels'
  <2> DEFINE s == net[n][r]
  <2>1. /\ n \in Ranks /\ s \in Seq(Messages) /\ s # <<>> /\ Kept(n, r) /\ r \in Neighbours(n)
        /\ guarantee' = [guarantee EXCEPT ![r][n] = Head(s).guarantee]
        /\ net' = [net EXCEPT ![n][r] = Tail(s)]
    BY <1>7, <1>11, Topology DEF Receive
  <2>2. /\ \A x, k \in Ranks : net'[k][x] = IF k = n /\ x = r THEN Tail(s) ELSE net[k][x]
        /\ \A x, k \in Ranks : guarantee'[x][k] = IF x = r /\ k = n THEN Head(s).guarantee
                                                                   ELSE guarantee[x][k]
    BY <1>7, <2>1
  <2>3. net'[n][r] = Tail(s) /\ guarantee'[r][n] = Head(s).guarantee
    BY <2>1, <2>2
  <2> HIDE DEF s
  <2>4. /\ DOMAIN s = 1 .. Len(s) /\ Len(s) \in Nat \ {0} /\ Head(s) = s[1]
        /\ DOMAIN Tail(s) = 1 .. Len(s) - 1
        /\ \A j \in 1 .. Len(s) - 1 : Tail(s)[j] = s[j + 1]
        /\ \A j \in DOMAIN s : s[j].guarantee \in Nat
    BY <1>0, <2>1
  <2>5. \A j \in DOMAIN s : /\ Covered(n, r, s[j].guarantee)
                           /\ \A i \in 1 .. j - 1 : Follows(s[j], s[i].guarantee)
    BY <2>1 DEF Kept, s
  <2>6. \A g \in Nat : Covered(n, r, g) => Covered(n, r, g)'
    BY <1>6, <2>1
  <2>7. Covered(n, r, guarantee[r][n])'
    BY <2>3, <2>4, <2>5, <2>6
  <2>8. ASSUME NEW j \in DOMAIN Tail(s)
        PROVE  /\ Covered(n, r, net[n][r][j].guarantee)'
               /\ Follows(net[n][r][j], guarantee[r][n])'
               /\ (\A i \in 1 .. j - 1 : Follows(net[n][r][j], net[n][r][i].guarantee))'
    <3>1. /\ j + 1 \in DOMAIN s /\ net'[n][r][j] = s[j + 1] /\ 1 \in 1 .. (j + 1) - 1
          /\ \A i \in 1 .. j - 1 : net'[n][r][i] = s[i + 1] /\ i + 1 \in 1 .. (j + 1) - 1
      BY <2>3, <2>4
    <3>2. Follows(s[j + 1], s[1].guarantee)
      BY <2>5, <3>1
    <3>3. \A i \in 1 .. j - 1 : Follows(s[j + 1], s[i + 1].guarantee)
      BY <2>5, <3>1
    <3>4. Covered(n, r, net[n][r][j].guarantee)'
      BY <2>4, <2>5, <2>6, <3>1
    <3> QED  BY <2>3, <2>4, <3>1, <3>2, <3>3, <3>4 DEF Follows, IsPacket
  <2>9. (At(n, "idle") => net[n][r] = <<>>)'
    BY <1>11, <2>1 DEF Kept, s
  <2>10. Kept(n, r)'
    BY <1>8, <2>3, <2>7, <2>8, <2>9 DEF Kept
  <2>11. ASSUME NEW x \in Ranks, NEW k \in Neighbours(x)  PROVE Kept(k, x)'
    BY <1>7, <1>9, <1>11, <2>2, <2>10
  <2>12. ASSUME NEW x \in Ranks, NEW k \in Ranks \ Neighbours(x)  PROVE net'[k][x] = <<>>
    BY <1>7, <2>1, <2>2
  <2> QED  BY <2>11, <2>12 DEF Channels
<1>12. CASE Start(r)
  <2>1. /\ net' = [net EXCEPT ![r] = [n \in Ranks |-> IF n \in Neighbours(r)
                                          THEN <<Message(0, BundleDelay(r, n))>> ELSE <<>>]]
        /\ guarantee' = guarantee /\ ~At(r, "idle")' /\ safe[r] = 0
        /\ \A x \in Ranks : At(x, "idle")' => At(x, "idle")
    BY <1>1, <1>12 DEF Start, Goto, At, Clock, IInv, Typed
  <2>2. \A x, n \in Ranks : net'[n][x] = IF n # r THEN net[n][x] ELSE
                              IF x \in Neighbours(r) THEN <<Message(0, BundleDelay(r, x))>> ELSE <<>>
    BY <1>7, <2>1
  <2>3. ASSUME NEW x \in Neighbours(r)  PROVE Kept(r, x)'
    <3> DEFINE m == Message(0, BundleDelay(r, x))
    <3>1. /\ x \in Ranks /\ r \in Neighbours(x) /\ guarantee[x][r] \in Nat /\ Kept(r, x)
          /\ BundleDelay(r, x) \in Nat
      BY <1>2, <1>7, Topology
    <3>2. net'[r][x] = <<m>> /\ m.guarantee = BundleDelay(r, x) /\ ~IsPacket(m)
      <4>1. net'[r][x] = <<m>>
        BY <2>2, <3>1
      <4>2. m.guarantee = BundleDelay(r, x) /\ ~IsPacket(m)
        BY DEF Message, IsPacket
      <4> QED  BY <4>1, <4>2
    <3> HIDE DEF m
    <3>3. Covered(r, x, m.guarantee)'
      BY <1>1, <1>3, <3>1, <3>2
    <3>4. Covered(r, x, guarantee[x][r]) /\ Follows(m, guarantee[x][r])
      BY <2>1, <3>1, <3>2 DEF Kept, Covered, Follows
    <3>5. Covered(r, x, guarantee[x][r])'
      BY <1>4, <2>1, <3>1, <3>4
    <3>6. /\ DOMAIN net'[r][x] = {1} /\ net'[r][x][1] = m /\ 1 .. 1 - 1 = {}
      BY <3>2
    <3>7. Follows(net[r][x][1], guarantee[x][r])' /\ Covered(r, x, net[r][x][1].guarantee)'
      BY <2>1, <3>3, <3>4, <3>6 DEF Follows, IsPacket
    <3> QED  BY <1>8, <2>1, <3>1, <3>5, <3>6, <3>7 DEF Kept
  <2>4. ASSUME NEW x \in Ranks, NEW n \in Neighbours(x)  PROVE Kept(n, x)'
    <3>1. CASE n = r
      BY <2>3, <3>1, Topology
    <3>2. CASE n # r
      BY <1>7, <1>9, <2>1, <2>2, <3>2
    <3> QED  BY <3>1, <3>2
  <2>5. ASSUME NEW x \in Ranks, NEW n \in Ranks \ Neighbours(x)  PROVE net'[n][x] = <<>>
    <3>1. n = r => x \notin Neighbours(r)
      BY Topology
    <3> QED  BY <1>7, <2>2, <3>1
  <2> QED  BY <2>4, <2>5 DEF Channels
<1>13. CASE ProcessOneEvent(r)
  <2>1. PICK e \in events[r] :
          /\ e.ts = NextTime(events[r])
          /\ now' = [now EXCEPT ![r] = e.ts]
          /\ Invoke(r, e, events[r] \ {e})
    BY <1>13 DEF ProcessOneEvent
  <2>2. /\ pc[r] = "loop" /\ guarantee' = guarantee /\ safe' = safe /\ ~stop[r]
        /\ \A f \in events[r] : e.ts <= f.ts
    BY <1>1, <1>13, <2>1, Times DEF ProcessOneEvent, IsFinished, At
  <2>3. ~At(r, "idle")' /\ \A x \in Ranks : At(x, "idle")' => At(x, "idle")
    BY <2>1, <2>2 DEF Invoke, Goto, At, IInv, Typed
  <2>4. CASE e.kind # "null"
    <3>1. net' = net
      BY <2>1, <2>4 DEF Invoke
    <3> QED  BY <1>7, <1>9, <2>2, <2>3, <3>1 DEF Channels
  <2>5. CASE e.kind = "null"
    <3> DEFINE n == e.arg
               q == events[r] \ {e}
               G == GuaranteeTime(r, n, q)
    <3>1. /\ n \in Neighbours(r) /\ BundleDelay(r, n) \in Nat /\ NullAhead(r, n)
          /\ IsNull(e, n)
      BY <1>1, <1>2, <2>5 DEF Addressed, IsNull
    <3>2. q \in SUBSET Events /\ Event(StopTime, "stop", 0) \in q
      BY <1>1, <2>2, <2>5 DEF StopAhead, Event
    <3>3. /\ G \in Nat /\ G <= safe[r] + BundleDelay(r, n)
          /\ \A f \in q : NextTime(q) <= f.ts
          /\ NextTime(q) \in Nat /\ G <= NextTime(q) + BundleDelay(r, n)
          /\ \E f \in q : f.ts = NextTime(q)
          /\ \A g \in Nat : /\ g <= safe[r] + BundleDelay(r, n)
                            /\ g <= NextTime(q) + BundleDelay(r, n)
                            => g <= G
      BY <1>1, <3>1, <3>2, Times
    <3>4. /\ pc'[r] = "receive" /\ events'[r] = Scheduled(q, NullMessageEvent(r, n, e.ts))
          /\ net' = [net EXCEPT ![r][n] = Append(@, Message(0, G))]
      BY <2>1, <2>5 DEF Invoke, NullMessageEventHandler, Goto, SetEvents, Sends, IInv, Typed
    <3> HIDE DEF G
    <3>5. PICK m \in Messages : m = Message(0, G) /\ m.guarantee = G /\ ~IsPacket(m)
      <4>1. /\ Message(0, G) \in Messages /\ Message(0, G).guarantee = G
            /\ ~IsPacket(Message(0, G))
        BY <3>3 DEF Message, Messages, IsPacket
      <4> QED  BY <4>1
    <3>6. Covered(r, n, m.guarantee)'
      <4>1. \A f \in events'[r] : IsNull(f, n) \/ f \in q
        BY <3>4 DEF Scheduled, NullMessageEvent, Event, IsNull
      <4>2. \A f \in q : f.ts \in Nat /\ NextTime(q) <= f.ts
        BY <3>2, <3>3 DEF Events
      <4> HIDE DEF q
      <4>3. \A f \in events'[r] : IsNull(f, n) \/ m.guarantee <= f.ts + BundleDelay(r, n)
        BY <3>1, <3>3, <3>5, <4>1, <4>2
      <4>4. m.guarantee <= safe[r]' + BundleDelay(r, n) /\ ~At(r, "event")'
        BY <2>2, <3>3, <3>4, <3>5 DEF At
      <4>5. Quiet(r, n, m.guarantee)'
        BY <4>3, <4>4 DEF Quiet
      <4> QED  BY <4>4, <4>5 DEF Covered
    <3>7. ASSUME NEW g \in Nat, Covered(r, n, g)  PROVE Follows(m, g)
      <4>1. g <= safe[r] + BundleDelay(r, n)
        BY <3>7 DEF Covered
      <4>2. PICK f \in q : f.ts = NextTime(q)
        BY <3>3
      <4>3. ~IsNull(f, n) /\ e.ts <= f.ts /\ f.ts \in Nat /\ e.ts \in Nat
        BY <1>1, <2>2, <3>1, <4>2 DEF NullAhead, Events
      <4>4. g <= NextTime(q) + BundleDelay(r, n)
        <5>1. CASE Quiet(r, n, g)
          BY <4>2, <4>3, <5>1 DEF Quiet
        <5>2. ASSUME NEW l \in Links, Occupied(r, n, g, l)
              PROVE  g <= NextTime(q) + BundleDelay(r, n)
          <6>1. g <= e.ts + BundleDelay(r, n)
            BY <3>1, <5>2 DEF Occupied
          <6> QED  BY <3>1, <4>2, <4>3, <6>1
        <5> QED  BY <3>7, <5>1, <5>2 DEF Covered
      <4> QED  BY <3>3, <3>5, <4>1, <4>4 DEF Follows
    <3> QED  BY <1>10, <2>2, <2>3, <3>1, <3>4, <3>5, <3>6, <3>7
  <2> QED  BY <2>4, <2>5
<1>14. ASSUME NEW l \in Links, TransmitStart(r, l)  PROVE Channels'
  <2> DEFINE n == Other(r, l)
             f == NullMessageEvent(r, n, now[r])
  <2>1. PICK txTime \in TxTimes :
          LET q == Scheduled(events[r], Event(now[r] + txTime, "complete", l))
          IN  /\ net' = [net EXCEPT ![r][n] = Append(@,
                    Message(now[r] + txTime + Latency[l], GuaranteeTime(r, n, q)))]
              /\ events' = [events EXCEPT ![r] = Rescheduled(r, n, now[r], q)]
    BY <1>14 DEF TransmitStart, Sends, SetEvents
  <2> DEFINE c == Event(now[r] + txTime, "complete", l)
             q == Scheduled(events[r], c)
             G == GuaranteeTime(r, n, q)
             R == {IF IsNull(e, n) THEN Event(e.ts, "cancelled", n) ELSE e : e \in q}
  <2>2. /\ r \in Ends[l] /\ l \notin busy[r] /\ pc[r] = "event" /\ ~stop[r]
        /\ pc' = pc /\ now' = now /\ safe' = safe /\ guarantee' = guarantee
        /\ busy' = [busy EXCEPT ![r] = @ \union {l}] /\ txTime \in Nat
    BY <1>1, <1>14, NullMessageAssumption DEF TransmitStart, StopAhead, At
  <2>3. /\ Ends[l] = {r, n} /\ n \in Neighbours(r) /\ NullAhead(r, n)
        /\ Latency[l] \in Nat /\ BundleDelay(r, n) \in Nat /\ BundleDelay(r, n) <= Latency[l]
        /\ NullInterval(r, n) \in Nat
    BY <1>1, <1>2, <2>2, Topology
  <2>4. /\ c \in Events /\ c.ts = now[r] + txTime
        /\ f.ts = now[r] + NullInterval(r, n) /\ f.kind = "null" /\ IsNull(f, n)
    BY <1>1, <2>2, <2>3 DEF Event, Events, NullMessageEvent, IsNull, Kinds
  <2>5. /\ q \in SUBSET Events /\ events[r] \subseteq q /\ Event(StopTime, "stop", 0) \in q
        /\ \A e \in q : e = c \/ e \in events[r]
    BY <1>1, <2>2, <2>4 DEF Scheduled, StopAhead
  <2>6. /\ G \in Nat /\ G <= safe[r] + BundleDelay(r, n)
        /\ \A e \in q : NextTime(q) <= e.ts
        /\ NextTime(q) \in Nat /\ G <= NextTime(q) + BundleDelay(r, n)
        /\ \E e \in q : e.ts = NextTime(q)
        /\ \A g \in Nat : /\ g <= safe[r] + BundleDelay(r, n)
                          /\ g <= NextTime(q) + BundleDelay(r, n)
                          => g <= G
    BY <1>1, <2>3, <2>5, Times
  <2>7. events'[r] = IF f.ts >= StopTime THEN R ELSE R \union {f}
    BY <2>1 DEF Rescheduled, Scheduled, IsNull, IInv, Typed
  <2> HIDE DEF G
  <2>8. PICK m \in Messages : /\ m = Message(now[r] + txTime + Latency[l], G)
                              /\ m.guarantee = G /\ m.rxTime = now[r] + txTime + Latency[l]
    <3> DEFINE t == now[r] + txTime + Latency[l]
    <3>1. t \in Nat
      BY <1>1, <2>2, <2>3
    <3> HIDE DEF t
    <3>2. Message(t, G) \in Messages /\ Message(t, G).guarantee = G /\ Message(t, G).rxTime = t
      BY <2>6, <3>1 DEF Message, Messages
    <3> QED  BY <3>2 DEF t
  <2>9. net' = [net EXCEPT ![r][n] = Append(@, m)]
    BY <2>1, <2>8 DEF G
  <2>10. now[r] <= NextTime(q)
    <3>1. PICK e \in q : e.ts = NextTime(q)
      BY <2>6
    <3> QED  BY <1>1, <2>2, <2>4, <2>5, <3>1 DEF Clock, Events
  <2>11. NextTime(q) <= f.ts \/ f.ts >= StopTime
    <3>1. CASE \E e \in events[r] : IsNull(e, n)
      BY <1>1, <2>3, <2>4, <2>5, <2>6, <3>1 DEF NullAhead, Events
    <3>2. CASE StopTime <= now[r] + NullInterval(r, n)
      BY <1>1, <1>2, <2>3, <2>4, <3>2
    <3> QED  BY <2>2, <2>3, <3>1, <3>2 DEF NullAhead, At
  <2>12. Occupied(r, n, m.guarantee, l)'
    <3>1. \A e \in R : ~IsNull(e, n) /\ (e.kind = "complete" => e \in q)
      BY DEF IsNull, Event
    <3>2. \A e \in q : e.ts \in Nat /\ NextTime(q) <= e.ts
      BY <2>5, <2>6 DEF Events
    <3> HIDE DEF R, q, f
    <3>3. ASSUME NEW e \in events'[r], IsNull(e, n) \/ e.kind = "complete"
          PROVE  m.guarantee <= e.ts + BundleDelay(r, n)
      <4>1. CASE e \in R
        BY <2>3, <2>6, <2>8, <3>1, <3>2, <3>3, <4>1
      <4>2. CASE e = f /\ ~(f.ts >= StopTime)
        BY <1>1, <2>3, <2>4, <2>6, <2>8, <2>11, <4>2
      <4> QED  BY <2>7, <4>1, <4>2
    <3>4. l \in busy'[r]
      BY <2>2 DEF IInv, Typed
    <3> QED  BY <2>3, <3>3, <3>4 DEF Occupied
  <2>13. Covered(r, n, m.guarantee)'
    BY <2>2, <2>6, <2>8, <2>12 DEF Covered
  <2>14. ASSUME NEW g \in Nat, Covered(r, n, g)  PROVE Follows(m, g)
    <3>1. \A i \in Links : ~Occupied(r, n, g, i)
      BY <2>2, <2>3 DEF Occupied, OneChannel
    <3>2. g <= now[r] + BundleDelay(r, n)
      BY <2>2, <2>14, <3>1 DEF Covered, Quiet, At
    <3>3. g <= safe[r] + BundleDelay(r, n) /\ g <= NextTime(q) + BundleDelay(r, n)
      BY <1>1, <2>3, <2>6, <2>10, <3>2 DEF Clock
    <3>4. g <= m.rxTime
      BY <1>1, <2>2, <2>3, <2>8, <3>2
    <3> QED  BY <2>6, <2>8, <3>3, <3>4 DEF Follows
  <2>15. ~At(r, "idle")' /\ \A x \in Ranks : At(x, "idle")' => At(x, "idle")
    BY <2>2 DEF At
  <2> QED  BY <1>10, <2>2, <2>3, <2>9, <2>13, <2>14, <2>15
<1>15. CASE Schedule(r) \/ StopReceiving(r) \/ Leave(r)
  <2>1. net' = net /\ guarantee' = guarantee /\ \A x \in Ranks : At(x, "idle")' => At(x, "idle")
    BY <1>15 DEF Schedule, StopReceiving, Leave, Goto, At, IInv, Typed
  <2> QED  BY <1>7, <1>9, <2>1 DEF Channels
<1>16. CASE ReceiveNonBlocking(r) \/ ReceiveBlocking(r)
  BY <1>11, <1>16 DEF ReceiveNonBlocking, ReceiveBlocking, Goto, At, IInv, Typed
<1> QED
  BY <1>12, <1>13, <1>14, <1>15, <1>16 DEF RankStep

\* The invariant holds in every reachable state.
THEOREM Invariance == ASSUME OneChannel PROVE Spec => []IInv
<1>1. ASSUME Init  PROVE IInv
  <2> USE <1>1, NullMessageAssumption DEF Init
  <2>1. PICK T \in [Ranks -> SUBSET First] :
          events = [r \in Ranks |-> {Event(StopTime, "stop", 0)} \union
                                    {Event(t, "call", 0) : t \in T[r]}]
    OBVIOUS
  <2>2. ASSUME NEW r \in Ranks, NEW e \in events[r]
        PROVE  e \in Events /\ e.ts \in Nat /\ e.kind # "null"
    <3>1. T[r] \subseteq Nat
      BY <2>1
    <3>2. e = Event(StopTime, "stop", 0) \/ \E t \in Nat : e = Event(t, "call", 0)
      BY <2>1, <2>2, <3>1
    <3>3. CASE e = Event(StopTime, "stop", 0)
      <4>1. StopTime \in Nat
        OBVIOUS
      <4> QED  BY <3>3, <4>1 DEF Event, Events, Kinds
    <3>4. ASSUME NEW t \in Nat, e = Event(t, "call", 0)
          PROVE  e \in Events /\ e.ts \in Nat /\ e.kind # "null"
      BY <3>4 DEF Event, Events, Kinds
    <3> QED  BY <3>2, <3>3, <3>4
  <2>4. Typed
    <3>1. events \in [Ranks -> SUBSET Events]
      BY <2>1, <2>2
    <3>2. net \in [Ranks -> [Ranks -> Seq(Messages)]]
      OBVIOUS
    <3> QED  BY <3>1, <3>2 DEF Typed, Places
  <2>5. ASSUME NEW r \in Ranks
        PROVE  /\ StopAhead(r) /\ Clock(r) /\ Addressed(r)
               /\ \A n \in Neighbours(r) : NullAhead(r, n)
    BY <2>1, <2>2 DEF StopAhead, Clock, Addressed, NullAhead, IsNull, At
  <2>6. ASSUME NEW r \in Ranks, NEW n \in Neighbours(r)  PROVE Kept(n, r)
    <3>1. /\ n \in Ranks /\ r \in Neighbours(n) /\ BundleDelay(n, r) \in Nat
          /\ guarantee[r][n] = 0 /\ safe[n] = 0 /\ safe[r] = 0 /\ now[n] = 0 /\ net[n][r] = <<>>
      BY Topology
    <3>2. Covered(n, r, 0)
      BY <2>2, <3>1 DEF Covered, Quiet
    <3> QED  BY <3>1, <3>2 DEF Kept
  <2> QED  BY <2>4, <2>5, <2>6 DEF IInv, Local, Channels
<1>2. ASSUME IInv, UNCHANGED vars  PROVE IInv'
  <2>1. Typed'
    BY <1>2 DEF vars, IInv, Typed
  <2>2. Local'
    BY <1>2 DEF vars, IInv, Local, StopAhead, Clock, Addressed, NullAhead, At
  <2>3. Channels'
    <3>1. ASSUME NEW n \in Ranks, NEW r \in Ranks, NEW g, Covered(n, r, g)
          PROVE  Covered(n, r, g)'
      BY <1>2, <3>1 DEF vars, Covered, Quiet, Occupied, At
    <3>2. ASSUME NEW r \in Ranks, NEW n \in Neighbours(r)  PROVE Kept(n, r)'
      <4>1. n \in Ranks /\ Kept(n, r)
        BY <1>2, Topology DEF IInv, Channels
      <4>2. Covered(n, r, guarantee[r][n])'
        BY <1>2, <3>1, <4>1 DEF vars, Kept
      <4>3. \A j \in DOMAIN net[n][r] : Covered(n, r, net[n][r][j].guarantee)'
        BY <1>2, <3>1, <4>1 DEF vars, Kept
      <4> QED  BY <1>2, <4>1, <4>2, <4>3 DEF vars, Kept, Follows, At
    <3> QED  BY <1>2, <3>2 DEF vars, IInv, Channels
  <2> QED  BY <2>1, <2>2, <2>3 DEF IInv
<1>3. IInv /\ [Next]_vars => IInv'
  BY <1>2, LocalStep, ChannelStep DEF IInv
<1>4. Init => IInv
  BY <1>1
<1> QED
  BY <1>3, <1>4, PTL DEF Spec

\* No packet comes before a guarantee that its receiver holds, or that a
\* message in front of it brings.
THEOREM Honesty == ASSUME OneChannel PROVE Spec => []GuaranteeHonoured
<1>1. ASSUME IInv, NEW n \in Ranks, NEW r \in Ranks, NEW j \in DOMAIN net[n][r], IsPacket(net[n][r][j])
      PROVE  /\ net[n][r][j].rxTime >= guarantee[r][n]
             /\ \A i \in 1 .. j - 1 : net[n][r][j].rxTime >= net[n][r][i].guarantee
  <2>1. n \in Neighbours(r)
    BY <1>1 DEF IInv, Channels
  <2>2. /\ guarantee[r][n] <= net[n][r][j].rxTime
        /\ \A i \in 1 .. j - 1 : net[n][r][i].guarantee <= net[n][r][j].rxTime
    BY <1>1, <2>1 DEF IInv, Channels, Kept, Follows
  <2> QED  BY <2>2
<1>2. IInv => GuaranteeHonoured
  BY <1>1 DEF GuaranteeHonoured
<1> QED
  BY <1>2, Invariance, PTL

\* No guarantee that a rank holds or has still to receive is behind its clock.
THEOREM Foresight == ASSUME OneChannel PROVE Spec => []GuaranteeAhead
<1>1. ASSUME IInv, NEW r \in Ranks, NEW n \in Neighbours(r)
      PROVE  /\ guarantee[r][n] >= safe[r] /\ safe[r] >= now[r]
             /\ \A i \in DOMAIN net[n][r] : net[n][r][i].guarantee >= guarantee[r][n]
  <2>1. safe[r] <= guarantee[r][n] /\ now[r] <= safe[r]
    BY <1>1 DEF IInv, Local, Clock, Channels, Kept
  <2>2. \A i \in DOMAIN net[n][r] : guarantee[r][n] <= net[n][r][i].guarantee
    BY <1>1 DEF IInv, Channels, Kept, Follows
  <2> QED  BY <2>1, <2>2
<1>2. IInv => GuaranteeAhead
  BY <1>1 DEF GuaranteeAhead
<1> QED
  BY <1>2, Invariance, PTL

\* No event and no packet ever comes from the past of the rank it is for.
THEOREM Causality == ASSUME OneChannel PROVE Spec => []NoStraggler
<1>1. ASSUME IInv, NEW r \in Ranks
      PROVE  \A e \in events[r] : e.ts >= now[r]
  BY <1>1 DEF IInv, Local, Clock
<1>2. ASSUME IInv, NEW r \in Ranks, NEW n \in Ranks, NEW i \in DOMAIN net[n][r],
             IsPacket(net[n][r][i])
      PROVE  net[n][r][i].rxTime >= now[r]
  <2>1. n \in Neighbours(r)
    BY <1>2 DEF IInv, Channels
  <2>2. /\ guarantee[r][n] <= net[n][r][i].rxTime
        /\ safe[r] <= guarantee[r][n] /\ now[r] <= safe[r]
    BY <1>2, <2>1 DEF IInv, Local, Clock, Channels, Kept, Follows
  <2>3. net[n][r] \in Seq(Messages)
    BY <1>2 DEF IInv, Typed
  <2>4. net[n][r][i] \in Messages
    BY <2>3
  <2>5. /\ now[r] \in Nat /\ safe[r] \in Nat /\ guarantee[r][n] \in Nat
        /\ net[n][r][i].rxTime \in Nat
    BY <1>2, <2>4 DEF IInv, Typed, Messages
  <2> QED  BY <2>2, <2>5
<1>3. IInv => NoStraggler
  BY <1>1, <1>2 DEF NoStraggler
<1> QED
  BY <1>3, Invariance, PTL

----------------------------------------------------------------------------
(***************************************************************************)
(* Types need no assumption on the channels: a queue holds the stop until  *)
(* it is executed, nothing in it is later, and so the least time of a      *)
(* queue is always that of an event.                                       *)
(***************************************************************************)
\* The queue of r ends with the stop.
Queued(r) ==
    /\ StopAhead(r)
    /\ Addressed(r)
    /\ \A e \in events[r] : e.ts <= StopTime
    /\ now[r] <= StopTime

TypeInv ==
    /\ Typed
    /\ work \in [Ranks -> 0 .. MaxWork]
    /\ \A r \in Ranks : Queued(r)

\* What a rank receives is a message.
LEMMA FirstTyped ==
    ASSUME TypeInv, NEW r \in Ranks, NEW n \in Neighbours(r), Receive(r, n)
    PROVE  Head(net[n][r]) \in Messages /\ Tail(net[n][r]) \in Seq(Messages)
<1> DEFINE s == net[n][r]
<1>1. s \in Seq(Messages) /\ s # <<>>
  BY Topology DEF Receive, TypeInv, Typed
<1> HIDE DEF s
<1>2. Head(s) \in Messages /\ Tail(s) \in Seq(Messages)
  BY <1>1
<1> QED  BY <1>2 DEF s

\* A message that is received is taken from the channel, and a packet that
\* comes before the stop becomes an event.
LEMMA ReceivedTyped ==
    ASSUME TypeInv, NEW r \in Ranks, NEW n \in Neighbours(r), Receive(r, n),
           pc' \in [Ranks -> Places], safe' \in [Ranks -> Nat], pc'[r] # "event",
           UNCHANGED <<now, stop, busy>>
    PROVE  Typed' /\ Queued(r)'
<1> DEFINE m == Head(net[n][r])
           e == Event(m.rxTime, "call", 0)
<1>1. n \in Ranks /\ StopTime \in Nat
  BY Topology, NullMessageAssumption
<1>2. m \in Messages /\ Tail(net[n][r]) \in Seq(Messages)
  BY FirstTyped
<1>3. e \in Events /\ e.ts = m.rxTime /\ e.kind = "call" /\ m.rxTime \in Nat /\ m.guarantee \in Nat
  BY <1>2 DEF Event, Events, Messages, Kinds
<1>4. /\ events' = [events EXCEPT ![r] = IF IsPacket(m) THEN Scheduled(@, e) ELSE @]
      /\ guarantee' = [guarantee EXCEPT ![r][n] = m.guarantee]
      /\ net' = [net EXCEPT ![n][r] = Tail(@)]
  BY DEF Receive, SetEvents
<1> HIDE DEF m, e
<1>5. net' \in [Ranks -> [Ranks -> Seq(Messages)]]
  BY <1>1, <1>2, <1>4 DEF TypeInv, Typed
<1>6. guarantee' \in [Ranks -> [Ranks -> Nat]]
  BY <1>1, <1>3, <1>4 DEF TypeInv, Typed
<1>7. events' \in [Ranks -> SUBSET Events]
  BY <1>3, <1>4 DEF TypeInv, Typed, Scheduled
<1>8. events'[r] = events[r] \/ (e.ts < StopTime /\ events'[r] = events[r] \union {e})
  <2>1. events'[r] = IF IsPacket(m) THEN Scheduled(events[r], e) ELSE events[r]
    BY <1>4 DEF TypeInv, Typed
  <2> QED  BY <1>1, <1>3, <2>1 DEF Scheduled
<1>9. Queued(r)'
  BY <1>1, <1>3, <1>8 DEF TypeInv, Queued, StopAhead, Addressed, At
<1> QED  BY <1>5, <1>6, <1>7, <1>9 DEF TypeInv, Typed

\* The guarantees a rank holds give a safe time.
LEMMA SafeTyped ==
    ASSUME NEW r \in Ranks, NEW times \in [Ranks -> Nat]
    PROVE  SafeTime(r, times) \in Nat
<1> DEFINE S == {times[n] : n \in Neighbours(r)}
<1>1. S \subseteq Nat /\ S # {}
  BY Topology
<1> HIDE DEF S
<1>2. Min(S) \in S
  BY <1>1, MinOfNat
<1> QED  BY <1>1, <1>2 DEF SafeTime, S

\* Executing an event leaves the queue of the others, which still has the stop.
LEMMA ProcessedTyped ==
    ASSUME TypeInv, NEW r \in Ranks, ProcessOneEvent(r)
    PROVE  Typed' /\ Queued(r)'
<1>1. /\ pc[r] \in Places /\ now[r] \in Nat /\ safe[r] \in Nat /\ events[r] \in SUBSET Events
      /\ StopAhead(r) /\ Addressed(r) /\ \A d \in events[r] : d.ts <= StopTime
      /\ StopTime \in Nat /\ \A n \in Neighbours(r) : n \in Ranks /\ NullInterval(r, n) \in Nat
  BY NullMessageAssumption, Topology DEF TypeInv, Typed, Queued
<1>2. PICK e \in events[r] :
        /\ e.ts = NextTime(events[r])
        /\ now' = [now EXCEPT ![r] = e.ts]
        /\ stop' = [stop EXCEPT ![r] = e.kind = "stop"]
        /\ Invoke(r, e, events[r] \ {e})
  BY DEF ProcessOneEvent
<1>3. /\ ~stop[r] /\ e \in Events /\ e.ts \in Nat /\ e.ts <= StopTime
      /\ now'[r] = e.ts /\ stop'[r] = (e.kind = "stop")
      /\ now' \in [Ranks -> Nat] /\ stop' \in [Ranks -> BOOLEAN]
      /\ safe' = safe /\ guarantee' = guarantee
  BY <1>1, <1>2 DEF TypeInv, Typed, Events, ProcessOneEvent, IsFinished
<1>4. CASE e.kind \in {"call", "complete"}
  <2>1. /\ pc' = [pc EXCEPT ![r] = "event"]
        /\ events' = [events EXCEPT ![r] = @ \ {e}]
        /\ net' = net
        /\ busy' = [busy EXCEPT ![r] = IF e.kind = "complete" THEN @ \ {e.arg} ELSE @]
    BY <1>2, <1>4 DEF Invoke, Goto, SetEvents
  <2>2. Typed'
    BY <1>3, <2>1 DEF TypeInv, Typed, Places
  <2>3. pc'[r] = "event" /\ events'[r] = events[r] \ {e}
    BY <2>1 DEF TypeInv, Typed
  <2> QED  BY <1>1, <1>3, <1>4, <2>2, <2>3 DEF Queued, StopAhead, Addressed, At, Event
<1>5. CASE e.kind = "null"
  <2> DEFINE q == events[r] \ {e}
             f == NullMessageEvent(r, e.arg, e.ts)
  <2>1. e.arg \in Neighbours(r) /\ f \in Events /\ f.kind = "null" /\ f.arg = e.arg /\ f.ts \in Nat
    BY <1>1, <1>3, <1>5 DEF Addressed, NullMessageEvent, Event, Events
  <2>2. /\ pc' = [pc EXCEPT ![r] = "receive"]
        /\ events' = [events EXCEPT ![r] = Scheduled(q, f)]
        /\ busy' = busy
        /\ net' = [net EXCEPT ![r][e.arg] = Append(@, Message(0, GuaranteeTime(r, e.arg, q)))]
    BY <1>2, <1>5 DEF Invoke, NullMessageEventHandler, Goto, SetEvents, Sends
  <2> HIDE DEF f
  <2>3. /\ Scheduled(q, f) = q \/ (f.ts < StopTime /\ Scheduled(q, f) = q \union {f})
        /\ Scheduled(q, f) \in SUBSET Events
    BY <1>1, <2>1 DEF Scheduled
  <2>4. GuaranteeTime(r, e.arg, q) \in Nat
    <3>1. q # {} /\ q \in SUBSET Events
      BY <1>1, <1>3, <1>5 DEF StopAhead, Event
    <3> QED  BY <1>1, <2>1, <3>1, Times
  <2>5. net' \in [Ranks -> [Ranks -> Seq(Messages)]]
    <3>1. e.arg \in Ranks
      BY <1>1, <2>1
    <3>2. Message(0, GuaranteeTime(r, e.arg, q)) \in Messages
      BY <2>4 DEF Message, Messages
    <3> QED  BY <2>2, <3>1, <3>2 DEF TypeInv, Typed
  <2>6. Typed'
    BY <1>3, <2>2, <2>3, <2>5 DEF TypeInv, Typed, Places
  <2>7. pc'[r] = "receive" /\ (events'[r] = q \/ (f.ts < StopTime /\ events'[r] = q \union {f}))
    BY <2>2, <2>3 DEF TypeInv, Typed
  <2> QED  BY <1>1, <1>3, <1>5, <2>1, <2>6, <2>7 DEF Queued, StopAhead, Addressed, At, Event
<1>6. CASE e.kind \in {"cancelled", "stop"}
  <2>1. /\ pc' = [pc EXCEPT ![r] = "receive"]
        /\ events' = [events EXCEPT ![r] = @ \ {e}]
        /\ busy' = busy /\ net' = net
    BY <1>2, <1>6 DEF Invoke, Goto, SetEvents
  <2>2. Typed'
    BY <1>3, <2>1 DEF TypeInv, Typed, Places
  <2>3. pc'[r] = "receive" /\ events'[r] = events[r] \ {e}
    BY <2>1 DEF TypeInv, Typed
  <2> QED  BY <1>1, <1>3, <1>6, <2>2, <2>3 DEF Queued, StopAhead, Addressed, At, Event
<1> QED  BY <1>3, <1>4, <1>5, <1>6 DEF Events, Kinds

\* A transmission sends a packet and puts the end of it in the queue.
LEMMA TransmittedTyped ==
    ASSUME TypeInv, NEW r \in Ranks, NEW l \in Links, TransmitStart(r, l)
    PROVE  Typed' /\ Queued(r)'
<1> DEFINE n == Other(r, l)
           f == NullMessageEvent(r, n, now[r])
<1>1. /\ now[r] \in Nat /\ safe[r] \in Nat /\ events[r] \in SUBSET Events /\ now[r] <= StopTime
      /\ StopAhead(r) /\ Addressed(r) /\ \A d \in events[r] : d.ts <= StopTime
      /\ StopTime \in Nat
  BY NullMessageAssumption DEF TypeInv, Typed, Queued
<1>2. PICK txTime \in TxTimes :
        LET c == Event(now[r] + txTime, "complete", l)
            q == Scheduled(events[r], c)
        IN  /\ net' = [net EXCEPT ![r][n] = Append(@,
                  Message(now[r] + txTime + Latency[l], GuaranteeTime(r, n, q)))]
            /\ events' = [events EXCEPT ![r] = Rescheduled(r, n, now[r], q)]
  BY DEF TransmitStart, Sends, SetEvents
<1> DEFINE c == Event(now[r] + txTime, "complete", l)
           q == Scheduled(events[r], c)
           m == Message(now[r] + txTime + Latency[l], GuaranteeTime(r, n, q))
           R == {IF IsNull(e, n) THEN Event(e.ts, "cancelled", n) ELSE e : e \in q}
<1>3. /\ n \in Neighbours(r) /\ n \in Ranks /\ Latency[l] \in Nat /\ txTime \in Nat
      /\ NullInterval(r, n) \in Nat /\ pc[r] = "event" /\ ~stop[r]
  BY <1>1, Topology, NullMessageAssumption DEF TransmitStart, StopAhead, At
<1>4. /\ c \in Events /\ c.ts \in Nat /\ c.kind = "complete"
      /\ f \in Events /\ f.ts \in Nat /\ IsNull(f, n)
  BY <1>1, <1>3 DEF Event, Events, NullMessageEvent, IsNull, Kinds
<1>5. /\ q = events[r] \/ (c.ts < StopTime /\ q = events[r] \union {c})
      /\ q \in SUBSET Events /\ Event(StopTime, "stop", 0) \in q
  BY <1>1, <1>3, <1>4 DEF Scheduled, StopAhead
<1>6. m \in Messages
  <2>1. GuaranteeTime(r, n, q) \in Nat
    BY <1>1, <1>3, <1>5, Times
  <2> HIDE DEF q
  <2> QED  BY <1>1, <1>3, <2>1 DEF Message, Messages
<1>7. R \in SUBSET Events
  BY <1>3, <1>5 DEF Event, Events, Kinds
<1>8. Rescheduled(r, n, now[r], q) = IF f.ts >= StopTime THEN R ELSE R \union {f}
  BY DEF Rescheduled, Scheduled, IsNull
<1>9. net' \in [Ranks -> [Ranks -> Seq(Messages)]]
  <2>1. net' = [net EXCEPT ![r][n] = Append(@, m)]
    BY <1>2
  <2> HIDE DEF m
  <2> QED  BY <1>3, <1>6, <2>1 DEF TypeInv, Typed
<1>10. /\ busy' \in [Ranks -> SUBSET Links]
       /\ pc' = pc /\ now' = now /\ safe' = safe /\ guarantee' = guarantee /\ stop' = stop
  BY DEF TransmitStart, TypeInv, Typed
<1>11. /\ events' \in [Ranks -> SUBSET Events]
       /\ events'[r] = IF f.ts >= StopTime THEN R ELSE R \union {f}
  BY <1>2, <1>4, <1>7, <1>8 DEF TypeInv, Typed
<1>12. Typed'
  BY <1>9, <1>10, <1>11 DEF TypeInv, Typed
<1>13. \A e \in R : e.kind = "null" => e \in events[r]
  BY <1>4, <1>5 DEF Event
<1>14. Event(StopTime, "stop", 0) \in R
  BY <1>5 DEF IsNull, Event
<1>15. \A e \in R : e.ts <= StopTime
  <2>1. \A d \in q : d.ts <= StopTime
    <3> HIDE DEF c, q
    <3> QED  BY <1>1, <1>4, <1>5
  <2>2. \A e \in R : \E d \in q : e.ts = d.ts
    BY DEF Event
  <2> HIDE DEF R, q
  <2> QED  BY <2>1, <2>2
<1> HIDE DEF R, f
<1>16. Queued(r)'
  BY <1>1, <1>3, <1>4, <1>10, <1>11, <1>13, <1>14, <1>15
  DEF Queued, StopAhead, Addressed, At, IsNull
<1> QED  BY <1>12, <1>16

\* Every step keeps the types.
LEMMA TypeStep == TypeInv /\ Next => TypeInv'
<1> SUFFICES ASSUME TypeInv, NEW r \in Ranks, RankStep(r)
             PROVE  TypeInv'
  BY DEF Next
<1>1. /\ pc[r] \in Places /\ now[r] \in Nat /\ now[r] <= StopTime
      /\ events[r] \in SUBSET Events
      /\ StopAhead(r) /\ Addressed(r) /\ \A d \in events[r] : d.ts <= StopTime
      /\ StopTime \in Nat /\ \A n \in Neighbours(r) : n \in Ranks /\ NullInterval(r, n) \in Nat
  BY NullMessageAssumption, Topology DEF TypeInv, Typed, Queued
<1>2. work' \in [Ranks -> 0 .. MaxWork]
  <2>1. ASSUME Work(r) PROVE work' \in [Ranks -> 0 .. MaxWork]
    <3>1. work[r] + 1 \in 0 .. MaxWork
      BY <2>1, NullMessageAssumption DEF Work, TypeInv
    <3> QED  BY <2>1, <3>1 DEF Work, TypeInv
  <2>2. Work(r) \/ work' = work
    BY DEF RankStep, Start, ProcessOneEvent, Schedule, TransmitStart, ReceiveNonBlocking, StopReceiving,
           ReceiveBlocking, Leave
  <2> QED  BY <2>1, <2>2 DEF TypeInv
<1>3. SUFFICES Typed' /\ Queued(r)'
  <2>1. ASSUME NEW x \in Ranks, x # r PROVE Queued(x)'
    BY <2>1, Elsewhere DEF TypeInv, Queued, StopAhead, Addressed, At
  <2> QED  BY <1>2, <1>3, <2>1 DEF TypeInv
<1>4. CASE Start(r)
  <2>1. /\ pc'[r] = "loop" /\ now'[r] = now[r] /\ stop'[r] = stop[r]
        /\ events'[r] = events[r] \union
                {e \in {NullMessageEvent(r, n, 0) : n \in Neighbours(r)} : e.ts < StopTime}
    BY <1>4 DEF Start, Goto, SetEvents, TypeInv, Typed
  <2>2. \A n \in Neighbours(r) : NullMessageEvent(r, n, 0) \in Events
    BY <1>1 DEF NullMessageEvent, Event, Events, Kinds
  <2>3. net' \in [Ranks -> [Ranks -> Seq(Messages)]]
    <3>1. \A n \in Neighbours(r) : Message(0, BundleDelay(r, n)) \in Messages
      BY Topology DEF Message, Messages
    <3>2. [n \in Ranks |-> IF n \in Neighbours(r) THEN <<Message(0, BundleDelay(r, n))>>
                           ELSE <<>>] \in [Ranks -> Seq(Messages)]
      BY <3>1
    <3> QED  BY <1>4, <3>2 DEF Start, TypeInv, Typed
  <2>4. events' \in [Ranks -> SUBSET Events]
    BY <1>1, <1>4, <2>2 DEF Start, SetEvents, TypeInv, Typed
  <2>5. Typed'
    BY <1>4, <2>3, <2>4 DEF Start, Goto, TypeInv, Typed, Places
  <2>6. StopAhead(r)' /\ Addressed(r)'
    BY <1>1, <1>4, <2>1 DEF StopAhead, Addressed, At, NullMessageEvent, Event
  <2>7. \A e \in events'[r] : e.ts <= StopTime
    BY <1>1, <2>1, <2>2 DEF Events
  <2> QED  BY <1>1, <2>1, <2>5, <2>6, <2>7 DEF Queued
<1>5. CASE ProcessOneEvent(r)
  BY <1>5, ProcessedTyped
<1>6. CASE Schedule(r)
  <2>1. PICK ts \in now[r] .. StopTime - 1 :
          SetEvents(r, events[r] \union {Event(ts, "call", 0)})
    BY <1>6 DEF Schedule
  <2>2. Event(ts, "call", 0) \in Events /\ ts \in Nat /\ ts <= StopTime
    BY <1>1 DEF Event, Events, Kinds
  <2>3. Typed'
    BY <1>6, <2>1, <2>2 DEF Schedule, SetEvents, TypeInv, Typed
  <2>4. /\ pc'[r] = pc[r] /\ now'[r] = now[r] /\ stop'[r] = stop[r]
        /\ events'[r] = events[r] \union {Event(ts, "call", 0)}
    BY <1>6, <2>1 DEF Schedule, SetEvents, TypeInv, Typed
  <2> QED  BY <1>1, <2>2, <2>3, <2>4 DEF Queued, StopAhead, Addressed, At, Event
<1>7. ASSUME NEW l \in Links, TransmitStart(r, l) PROVE Typed' /\ Queued(r)'
  BY <1>7, TransmittedTyped
<1>8. CASE ReceiveNonBlocking(r)
  <2>1. PICK n \in Neighbours(r) : Receive(r, n)
    BY <1>8 DEF ReceiveNonBlocking
  <2>2. /\ pc' \in [Ranks -> Places] /\ safe' \in [Ranks -> Nat] /\ pc'[r] # "event"
        /\ UNCHANGED <<now, stop, busy>>
    BY <1>8 DEF ReceiveNonBlocking, Goto, Places, TypeInv, Typed
  <2> QED  BY <2>1, <2>2, ReceivedTyped
<1>9. CASE StopReceiving(r)
  <2>1. SafeTime(r, guarantee[r]) \in Nat
    BY SafeTyped DEF TypeInv, Typed
  <2>2. Typed'
    BY <1>9, <2>1 DEF StopReceiving, Goto, Places, TypeInv, Typed
  <2>3. pc'[r] = "loop" /\ now'[r] = now[r] /\ stop'[r] = stop[r] /\ events'[r] = events[r]
    BY <1>9 DEF StopReceiving, Goto, TypeInv, Typed
  <2> QED  BY <1>1, <2>2, <2>3 DEF Queued, StopAhead, Addressed, At
<1>10. CASE ReceiveBlocking(r)
  <2>1. PICK n \in Neighbours(r) : Receive(r, n)
    BY <1>10 DEF ReceiveBlocking
  <2>2. guarantee'[r] \in [Ranks -> Nat]
    <3>1. n \in Ranks /\ Head(net[n][r]) \in Messages
      BY <1>1, <2>1, FirstTyped
    <3>2. Head(net[n][r]).guarantee \in Nat
      BY <3>1 DEF Messages
    <3>3. guarantee' = [guarantee EXCEPT ![r][n] = Head(net[n][r]).guarantee]
      BY <2>1 DEF Receive
    <3> QED  BY <3>1, <3>2, <3>3 DEF TypeInv, Typed
  <2>3. SafeTime(r, guarantee'[r]) \in Nat
    BY <2>2, SafeTyped
  <2>4. /\ pc' \in [Ranks -> Places] /\ safe' \in [Ranks -> Nat] /\ pc'[r] # "event"
        /\ UNCHANGED <<now, stop, busy>>
    BY <1>10, <2>3 DEF ReceiveBlocking, At, TypeInv, Typed
  <2> QED  BY <2>1, <2>4, ReceivedTyped
<1>11. CASE Leave(r)
  <2>1. /\ pc'[r] = "done" /\ now'[r] = now[r] /\ stop'[r] = stop[r] /\ events'[r] = events[r]
    BY <1>11 DEF Leave, Goto, TypeInv, Typed
  <2>2. Typed'
    BY <1>11 DEF Leave, Goto, Places, TypeInv, Typed
  <2> QED  BY <1>1, <2>1, <2>2 DEF Queued, StopAhead, Addressed, At
<1> QED
  BY <1>4, <1>5, <1>6, <1>7, <1>8, <1>9, <1>10, <1>11 DEF RankStep

\* Whatever the channels, the variables have their types and no event that is
\* later than the stop is ever in a queue.
THEOREM NullMessageTypes == Spec => []TypeOK
<1>1. ASSUME Init PROVE TypeInv
  <2> USE <1>1, NullMessageAssumption DEF Init
  <2>1. PICK T \in [Ranks -> SUBSET First] :
          events = [r \in Ranks |-> {Event(StopTime, "stop", 0)} \union
                                    {Event(t, "call", 0) : t \in T[r]}]
    OBVIOUS
  <2>2. ASSUME NEW r \in Ranks, NEW e \in events[r]
        PROVE  e \in Events /\ e.ts <= StopTime /\ e.kind # "null"
    <3>1. T[r] \subseteq 0 .. StopTime - 1
      BY <2>1
    <3>2. e = Event(StopTime, "stop", 0) \/ \E t \in 0 .. StopTime - 1 : e = Event(t, "call", 0)
      BY <2>1, <2>2, <3>1
    <3>3. CASE e = Event(StopTime, "stop", 0)
      <4>1. StopTime \in Nat
        OBVIOUS
      <4> QED  BY <3>3, <4>1 DEF Event, Events, Kinds
    <3>4. ASSUME NEW t \in 0 .. StopTime - 1, e = Event(t, "call", 0)
          PROVE  e \in Events /\ e.ts <= StopTime /\ e.kind # "null"
      <4>1. t \in Nat /\ t <= StopTime
        OBVIOUS
      <4> QED  BY <3>4, <4>1 DEF Event, Events, Kinds
    <3> QED  BY <3>2, <3>3, <3>4
  <2>3. Typed
    <3>1. events \in [Ranks -> SUBSET Events]
      BY <2>1, <2>2
    <3>2. net \in [Ranks -> [Ranks -> Seq(Messages)]]
      OBVIOUS
    <3> QED  BY <3>1, <3>2 DEF Typed, Places
  <2>4. ASSUME NEW r \in Ranks PROVE Queued(r)
    BY <2>1, <2>2 DEF Queued, StopAhead, Addressed, At
  <2> QED  BY <2>3, <2>4 DEF TypeInv
<1>2. ASSUME TypeInv, UNCHANGED vars PROVE TypeInv'
  BY <1>2 DEF vars, TypeInv, Typed, Queued, StopAhead, Addressed, At
<1>3. TypeInv /\ [Next]_vars => TypeInv'
  BY <1>2, TypeStep
<1>4. ASSUME TypeInv PROVE TypeOK
  <2>1. now \in [Ranks -> 0 .. StopTime]
    BY <1>4, NullMessageAssumption DEF TypeInv, Typed, Queued
  <2>2. \A r \in Ranks : \A e \in events[r] : e.ts \in 0 .. StopTime /\ e.kind \in Kinds
    BY <1>4, NullMessageAssumption DEF TypeInv, Typed, Queued, Events
  <2>3. ASSUME NEW n \in Ranks, NEW r \in Ranks, NEW i \in DOMAIN net[n][r]
        PROVE  net[n][r][i].rxTime \in Nat /\ net[n][r][i].guarantee \in Nat
    <3>1. net[n][r] \in Seq(Messages)
      BY <1>4 DEF TypeInv, Typed
    <3>2. net[n][r][i] \in Messages
      BY <3>1
    <3> QED  BY <3>2 DEF Messages
  <2> QED  BY <1>4, <2>1, <2>2, <2>3 DEF TypeInv, Typed, TypeOK
<1> QED
  BY <1>1, <1>3, <1>4, PTL DEF Spec
================================================================================
