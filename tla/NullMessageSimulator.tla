------------------------ MODULE NullMessageSimulator ------------------------
(***************************************************************************)
(* NullMessageSimulatorImpl, NullMessageMpiInterface and the remote        *)
(* channel bundles: each rank runs on until the next event is later than   *)
(* what its neighbours guarantee.  A guarantee comes with every packet     *)
(* and, where there are none, with null messages sent at intervals.        *)
(*                                                                         *)
(* MPI keeps the messages of one sender in order, loses none and delivers  *)
(* each at any later moment; a small message is buffered by MPI_Isend.     *)
(* Events of the same time are taken in any order.                         *)
(***************************************************************************)
EXTENDS Integers, Sequences, FiniteSetsExt

CONSTANTS
    N,           \* number of ranks, MpiInterface::GetSize ()
    Ends,        \* Ends[l]: the two ranks that remote channel l joins
    Latency,     \* Latency[l]: its delay
    TxTimes,     \* times a packet may take to be transmitted
    Tune,        \* SchedulerTune, in percent
    StopTime,    \* argument of Simulator::Stop, called on every rank
    First,       \* times of the events a rank may have scheduled before Run
    MaxWork      \* bound: events and packets that the calls of a rank cause

Ranks == 0 .. N - 1
Links == DOMAIN Ends

Neighbours(r) == (UNION {Ends[l] : l \in {k \in Links : r \in Ends[k]}}) \ {r}
Other(r, l) == CHOOSE n \in Ends[l] : n # r

\* RemoteChannelBundle::AddChannel: the least delay of the channels to n.
BundleDelay(r, n) == Min({Latency[l] : l \in {k \in Links : Ends[k] = {r, n}}})

\* Time (double) rounds.
NullInterval(r, n) == (Tune * BundleDelay(r, n) + 50) \div 100

ASSUME NullMessageAssumption ==
    /\ N \in Nat \ {0}
    /\ Latency \in [Links -> Nat \ {0}]
    /\ \A l \in Links : \E r, n \in Ranks : r # n /\ Ends[l] = {r, n}
    /\ \A r \in Ranks : Neighbours(r) # {}
    /\ TxTimes \subseteq Nat \ {0}
    /\ Tune \in 1 .. 100
    /\ \A r \in Ranks : \A n \in Neighbours(r) : NullInterval(r, n) > 0
    /\ StopTime \in Nat \ {0}
    /\ First \subseteq 0 .. StopTime - 1
    /\ MaxWork \in Nat

VARIABLES
    pc,         \* where a rank is in Run
    now,        \* m_currentTs
    events,     \* m_events
    safe,       \* m_safeTime
    guarantee,  \* guarantee[r][n]: m_guaranteeTime of the bundle of r for n
    stop,       \* m_stop
    busy,       \* busy[r]: the channels whose device at r is transmitting
    work,       \* events and packets that its calls have caused
    net         \* net[n][r]: sent by n to r and not yet received

vars == <<pc, now, events, safe, guarantee, stop, busy, work, net>>

\* idle: before Run; loop: at its head; event: in a function of the simulated
\* nodes that ProcessOneEvent calls; receive: in front of
\* HandleArrivingMessagesNonBlocking; done: behind the loop.
Places == {"idle", "loop", "event", "receive", "done"}

\* call: anything the simulated nodes do; complete: TransmitComplete on the
\* channel arg; null: NullMessageEventHandler for the neighbour arg;
\* cancelled: an event that Cancel has left in the queue.
Kinds == {"call", "complete", "null", "cancelled", "stop"}

Event(ts, kind, arg) == [ts |-> ts, kind |-> kind, arg |-> arg]

\* The receive time of a null message is zero.
Message(rxTime, time) == [rxTime |-> rxTime, guarantee |-> time]
IsPacket(m) == m.rxTime > 0

At(r, place) == pc[r] = place
Goto(r, place) == pc' = [pc EXCEPT ![r] = place]

\* (Mutant: events of the time of the stop and later stay in the queue.)
BugScheduled(q, e) == q \union {e}

\* The stop event was scheduled before Run: of the events of its time it is the
\* first, and what is scheduled for then or later is never looked at.
Scheduled(q, e) == IF e.ts >= StopTime THEN q ELSE q \union {e}

NextTime(q) == Min({e.ts : e \in q})

IsFinished(r) == events[r] = {} \/ stop[r]

\* (Mutant: the safe time is left out, as if no neighbour could interfere.)
BugGuaranteeTime(r, n, q) == NextTime(q) + BundleDelay(r, n)

\* (Mutant: the delay of the bundle is forgotten.)
BugGuaranteeDelay(r, n, q) == Min({NextTime(q), safe[r]})

\* CalculateGuaranteeTime, with q as the queue: no packet that r sends later
\* should reach n before.
GuaranteeTime(r, n, q) == Min({NextTime(q), safe[r]}) + BundleDelay(r, n)

\* ScheduleNullMessageEvent, at the time ts.
NullMessageEvent(r, n, ts) == Event(ts + NullInterval(r, n), "null", n)

\* RescheduleNullMessageEvent at the time ts: Cancel only marks the old event.
Rescheduled(r, n, ts, q) ==
    Scheduled({IF e.kind = "null" /\ e.arg = n THEN Event(e.ts, "cancelled", n) ELSE e : e \in q},
              NullMessageEvent(r, n, ts))

Sends(r, n, m) == net' = [net EXCEPT ![r][n] = Append(@, m)]
SetEvents(r, q) == events' = [events EXCEPT ![r] = q]

----------------------------------------------------------------------------
(* Run.                                                                    *)

\* CalculateLookAhead and InitializeNullMessageEvents.
Start(r) ==
    /\ At(r, "idle")
    /\ Goto(r, "loop")
    /\ net' = [net EXCEPT ![r] = [n \in Ranks |->
                  IF n \in Neighbours(r) THEN <<Message(0, BundleDelay(r, n))>> ELSE <<>>]]
    /\ SetEvents(r, events[r] \union
                    {e \in {NullMessageEvent(r, n, 0) : n \in Neighbours(r)} : e.ts < StopTime})
    /\ UNCHANGED <<now, safe, guarantee, stop, busy, work>>

\* (Mutant: the handler does not schedule itself again.)
BugNullMessageEventHandler(r, n, ts, q) ==
    /\ Sends(r, n, Message(0, GuaranteeTime(r, n, q)))
    /\ SetEvents(r, q)

\* The queue q is without the event that is executed, at the time ts.
NullMessageEventHandler(r, n, ts, q) ==
    /\ Sends(r, n, Message(0, GuaranteeTime(r, n, q)))
    /\ SetEvents(r, Scheduled(q, NullMessageEvent(r, n, ts)))

\* The functions of the simulated nodes take steps of their own, below.
Invoke(r, e, q) ==
    \/ /\ e.kind \in {"call", "complete"}
       /\ Goto(r, "event")
       /\ busy' = [busy EXCEPT ![r] = IF e.kind = "complete" THEN @ \ {e.arg} ELSE @]
       /\ SetEvents(r, q)
       /\ UNCHANGED net
    \/ /\ e.kind = "null"
       /\ Goto(r, "receive")
       /\ NullMessageEventHandler(r, e.arg, e.ts, q)
       /\ UNCHANGED busy
    \/ /\ e.kind \in {"cancelled", "stop"}
       /\ Goto(r, "receive")
       /\ SetEvents(r, q)
       /\ UNCHANGED <<net, busy>>

\* (Mutant: the time of the rank is tested, not that of its next event.)
BugIsSafeNow(r) == now[r] <= safe[r]

IsSafe(r) == NextTime(events[r]) <= safe[r]

ProcessOneEvent(r) ==
    /\ At(r, "loop")
    /\ ~IsFinished(r)
    /\ IsSafe(r)
    /\ \E e \in events[r] :
          /\ e.ts = NextTime(events[r])
          /\ now' = [now EXCEPT ![r] = e.ts]
          /\ stop' = [stop EXCEPT ![r] = e.kind = "stop"]
          /\ Invoke(r, e, events[r] \ {e})
    /\ UNCHANGED <<safe, guarantee, work>>

----------------------------------------------------------------------------
(* What the simulated nodes do in an event: schedule others, for now or    *)
(* later, and start transmissions on devices that are idle.                *)

Work(r) == work[r] < MaxWork /\ work' = [work EXCEPT ![r] = @ + 1]

Schedule(r) ==
    /\ At(r, "event")
    /\ Work(r)
    /\ \E ts \in now[r] .. StopTime - 1 : SetEvents(r, events[r] \union {Event(ts, "call", 0)})
    /\ UNCHANGED <<pc, now, safe, guarantee, stop, busy, net>>

\* PointToPointNetDevice::TransmitStart schedules the end of the transmission
\* and calls that of the remote channel, which calls SendPacket.
TransmitStart(r, l) ==
    /\ At(r, "event")
    /\ r \in Ends[l] /\ l \notin busy[r]
    /\ Work(r)
    /\ busy' = [busy EXCEPT ![r] = @ \union {l}]
    /\ \E txTime \in TxTimes :
          LET n == Other(r, l)
              q == Scheduled(events[r], Event(now[r] + txTime, "complete", l))
          IN  /\ Sends(r, n, Message(now[r] + txTime + Latency[l], GuaranteeTime(r, n, q)))
              /\ SetEvents(r, Rescheduled(r, n, now[r], q))
    /\ UNCHANGED <<pc, now, safe, guarantee, stop>>

----------------------------------------------------------------------------
(* Receiving.                                                              *)

\* RemoteChannelBundleManager::GetSafeTime.
SafeTime(r, times) == Min({times[n] : n \in Neighbours(r)})

\* The loop of ReceiveMessages, for the first message of n.
Receive(r, n) ==
    /\ net[n][r] # <<>>
    /\ LET m == Head(net[n][r])
       IN  /\ guarantee' = [guarantee EXCEPT ![r][n] = m.guarantee]
           /\ SetEvents(r, IF IsPacket(m) THEN Scheduled(events[r], Event(m.rxTime, "call", 0))
                                          ELSE events[r])
    /\ net' = [net EXCEPT ![n][r] = Tail(@)]

\* MPI_Testany finds a message when the event has been executed, ...
ReceiveNonBlocking(r) ==
    /\ At(r, "event") \/ At(r, "receive")
    /\ \E n \in Neighbours(r) : Receive(r, n)
    /\ Goto(r, "receive")
    /\ UNCHANGED <<now, safe, stop, busy, work>>

\* ... or it finds none, which may also be under way: CalculateSafeTime.
StopReceiving(r) ==
    /\ At(r, "event") \/ At(r, "receive")
    /\ safe' = [safe EXCEPT ![r] = SafeTime(r, guarantee[r])]
    /\ Goto(r, "loop")
    /\ UNCHANGED <<now, events, guarantee, stop, busy, work, net>>

\* MPI_Waitany: one message, then CalculateSafeTime.
ReceiveBlocking(r) ==
    /\ At(r, "loop")
    /\ ~IsFinished(r)
    /\ ~IsSafe(r)
    /\ \E n \in Neighbours(r) : Receive(r, n)
    /\ safe' = [safe EXCEPT ![r] = SafeTime(r, guarantee'[r])]
    /\ UNCHANGED <<pc, now, stop, busy, work>>

Leave(r) ==
    /\ At(r, "loop")
    /\ IsFinished(r)
    /\ Goto(r, "done")
    /\ UNCHANGED <<now, events, safe, guarantee, stop, busy, work, net>>

----------------------------------------------------------------------------
Init ==
    /\ pc = [r \in Ranks |-> "idle"]
    /\ now = [r \in Ranks |-> 0]
    /\ \E T \in [Ranks -> SUBSET First] :
          events = [r \in Ranks |-> {Event(StopTime, "stop", 0)} \union
                                    {Event(t, "call", 0) : t \in T[r]}]
    /\ safe = [r \in Ranks |-> 0]
    /\ guarantee = [r \in Ranks |-> [n \in Ranks |-> 0]]
    /\ stop = [r \in Ranks |-> FALSE]
    /\ busy = [r \in Ranks |-> {}]
    /\ work = [r \in Ranks |-> 0]
    /\ net = [n \in Ranks |-> [r \in Ranks |-> <<>>]]

RankStep(r) ==
    \/ Start(r)
    \/ ProcessOneEvent(r)
    \/ Schedule(r)
    \/ \E l \in Links : TransmitStart(r, l)
    \/ ReceiveNonBlocking(r)
    \/ StopReceiving(r)
    \/ ReceiveBlocking(r)
    \/ Leave(r)

Next == \E r \in Ranks : RankStep(r)

Spec == Init /\ [][Next]_vars

\* Every process runs on, and MPI_Waitany returns when a message has come.
FairSpec == Spec /\ \A r \in Ranks : WF_vars(RankStep(r))

----------------------------------------------------------------------------
(* Properties.                                                             *)

\* The variables have their types, and nothing is scheduled behind the stop.
TypeOK ==
    /\ pc \in [Ranks -> Places]
    /\ now \in [Ranks -> 0 .. StopTime]
    /\ \A r \in Ranks : \A e \in events[r] : e.ts \in 0 .. StopTime /\ e.kind \in Kinds
    /\ safe \in [Ranks -> Nat]
    /\ guarantee \in [Ranks -> [Ranks -> Nat]]
    /\ stop \in [Ranks -> BOOLEAN]
    /\ busy \in [Ranks -> SUBSET Links]
    /\ work \in [Ranks -> 0 .. MaxWork]
    /\ \A n, r \in Ranks : \A i \in DOMAIN net[n][r] :
          net[n][r][i].rxTime \in Nat /\ net[n][r][i].guarantee \in Nat

\* "No PacketMessage will ever arrive on any incoming channel in this bundle
\* with a ReceiveTime less than this": less than the guarantee time that is
\* held, or that any message in front of the packet brings.
GuaranteeHonoured ==
    \A n, r \in Ranks : \A j \in DOMAIN net[n][r] :
        IsPacket(net[n][r][j]) =>
            /\ net[n][r][j].rxTime >= guarantee[r][n]
            /\ \A i \in 1 .. j - 1 : net[n][r][j].rxTime >= net[n][r][i].guarantee

\* "NS_ASSERT (next.key.m_ts >= m_currentTs)" and "NS_ASSERT (tAbsolute >=
\* TimeStep (m_currentTs))": no event and no packet comes from the past.
NoStraggler ==
    \A r \in Ranks : /\ \A e \in events[r] : e.ts >= now[r]
                     /\ \A n \in Ranks : \A i \in DOMAIN net[n][r] :
                           IsPacket(net[n][r][i]) => net[n][r][i].rxTime >= now[r]

\* "NS_ASSERT (m_safeTime >= Time (m_currentTs))" and "NS_ASSERT (time >=
\* Simulator::Now ())": no guarantee held or under way is behind the clock.
GuaranteeAhead ==
    \A r \in Ranks : \A n \in Neighbours(r) :
        /\ guarantee[r][n] >= safe[r]
        /\ safe[r] >= now[r]
        /\ \A i \in DOMAIN net[n][r] : net[n][r][i].guarantee >= guarantee[r][n]

\* A simulation that every rank stops at the same time ends on every rank:
\* the null messages keep coming until none has to wait any more.
AllEnd == <>(\A r \in Ranks : At(r, "done"))
=============================================================================
