------------------------ MODULE DistributedSimulator ------------------------
(***************************************************************************)
(* DistributedSimulatorImpl and GrantedTimeWindowMpiInterface: N processes *)
(* ("ranks") each run a part of one simulation.  A rank executes its       *)
(* events in time order up to its granted time; there it takes in what the *)
(* others have sent and joins a collective that grants the next window.    *)
(*                                                                         *)
(* The steps of different ranks interleave.  Between two MPI calls a rank  *)
(* touches nothing that is shared, so what the code does from one to the   *)
(* next is one action; an MPI collective is one action of all ranks.       *)
(***************************************************************************)
EXTENDS Integers, FiniteSets, FiniteSetsExt

CONSTANTS
    N,           \* number of ranks, MpiInterface::GetSize ()
    Delay,       \* Delay[i][j]: least delay of a channel from rank i to rank j
    LookAheads,  \* LookAheads[i]: what the lookahead file of rank i may say
    UserBounds,  \* arguments of BoundLookAhead
    Interval,    \* m_dynamic_state_update_interval_ns
    StartTimes,  \* times of the events a simulation may be set up with
    StopTimes,   \* arguments of Simulator::Stop, called on every rank
    MaxTime,     \* GetMaximumSimulationTime ()
    Horizon,     \* bound: nothing is scheduled after it
    MaxNew,      \* bound: a rank schedules for itself up to this m_uid
    MaxSent      \* bound: messages a rank sends

Ranks == 0 .. N - 1

ASSUME SimulatorAssumption ==
    /\ N \in Nat \ {0}
    /\ Delay \in [Ranks -> [Ranks -> Nat]]
    /\ LookAheads \in [Ranks -> SUBSET Nat]
    /\ UserBounds \subseteq Nat
    /\ Interval \in Nat \ {0}
    /\ StartTimes \subseteq 0 .. Horizon
    /\ StopTimes \subseteq 0 .. Horizon
    /\ MaxTime \in Nat
    /\ Horizon \in Nat
    /\ Horizon < MaxTime
    /\ MaxNew \in Nat
    /\ MaxSent \in Nat

\* The files are written outside the program: for each rank no more than the
\* delay of any channel that leads to it.
ASSUME LookAheadAssumption ==
    \A i, j \in Ranks : i # j => \A la \in LookAheads[i] : la <= Delay[j][i]

VARIABLES
    pc,          \* where a rank is in Run
    now,         \* m_currentTs
    events,      \* m_events
    uid,         \* m_uid
    stop,        \* m_stop
    granted,     \* m_grantedTime
    lookAhead,   \* m_lookAhead
    nextUpdate,  \* nextUpdateTime of Run, no further than Horizon
    tx, rx,      \* g_txCount and g_rxCount
    net          \* what was given to MPI_Isend and not yet received

vars == <<pc, now, events, uid, stop, granted, lookAhead, nextUpdate, tx, rx, net>>

\* idle: before Run; start and reduce: in MPI_Allreduce, at the start of Run
\* and in its loop; loop: at the head of the loop; check: behind the test for
\* an update; receive: in ReceiveMessages; gather: in MPI_Allgather; execute:
\* behind it; done: behind the loop.
Places == {"idle", "start", "loop", "reduce", "check", "receive", "gather", "execute", "done"}

Event   == [ts : Nat, uid : Nat, stop : BOOLEAN]
Message == [from : Ranks, nr : Nat, to : Ranks, ts : Nat]

To(i) == {m \in net : m.to = i}

At(i, place) == pc[i] = place
Goto(i, place) == pc' = [pc EXCEPT ![i] = place]

IsLocalFinished(i) == events[i] = {} \/ stop[i]

EventTimes(i) == {e.ts : e \in events[i]}

NextTs(i) == IF IsLocalFinished(i) THEN MaxTime ELSE Min(EventTimes(i))

\* The sum over all ranks, as Run adds up the counts of the LBTS messages.
Total(f) ==
    LET sum[k \in Ranks] == IF k = 0 THEN f[0] ELSE sum[k - 1] + f[k]
    IN  sum[N - 1]

----------------------------------------------------------------------------
(* Before Run.                                                             *)

BoundLookAhead(i) ==
    /\ At(i, "idle")
    /\ \E bound \in UserBounds :
          /\ bound > 0
          /\ lookAhead' = [lookAhead EXCEPT ![i] = Min({@, bound})]
    /\ UNCHANGED <<pc, now, events, uid, stop, granted, nextUpdate, tx, rx, net>>

\* CalculateLookAhead up to its MPI_Allreduce: the file is read, what is
\* granted is the lookahead.  The result of the MPI_Allreduce is for a rank
\* whose lookahead is the maximum time, which std::stoi does not return.
CalculateLookAhead(i) ==
    \E la \in IF N = 1 THEN {0} ELSE LookAheads[i] :
        /\ lookAhead' = [lookAhead EXCEPT ![i] = la]
        /\ granted' = [granted EXCEPT ![i] = la]

\* Run, begun at time 0: the next update comes after the first interval.
StartRun(i) ==
    /\ At(i, "idle")
    /\ CalculateLookAhead(i)
    /\ nextUpdate' = [nextUpdate EXCEPT ![i] = Min({Horizon, Interval + 1})]
    /\ Goto(i, "start")
    /\ UNCHANGED <<now, events, uid, stop, tx, rx, net>>

----------------------------------------------------------------------------
(* The loop of Run.                                                        *)

\* The next event is behind the time of the next update.  No event is later
\* than Horizon, so an update time behind it may be taken for Horizon.
Recalculate(i) ==
    /\ At(i, "loop")
    /\ NextTs(i) > nextUpdate[i]
    /\ CalculateLookAhead(i)
    /\ nextUpdate' = [nextUpdate EXCEPT ![i] = Min({Horizon, @ + Interval})]
    /\ Goto(i, "reduce")
    /\ UNCHANGED <<now, events, uid, stop, tx, rx, net>>

\* MPI_Allreduce returns when every rank has called it.
Allreduce ==
    /\ \A i \in Ranks : pc[i] \in {"start", "reduce"}
    /\ pc' = [i \in Ranks |-> IF pc[i] = "start" THEN "loop" ELSE "check"]
    /\ UNCHANGED <<now, events, uid, stop, granted, lookAhead, nextUpdate, tx, rx, net>>

\* The test for an update is behind rank i, whether it called for one or not.
Checked(i) == At(i, "check") \/ (At(i, "loop") /\ NextTs(i) <= nextUpdate[i])

\* The next event is beyond the window, or there is none.
WindowDone(i) == NextTs(i) > granted[i] \/ IsLocalFinished(i)

StartReceiving(i) ==
    /\ Checked(i)
    /\ WindowDone(i)
    /\ Goto(i, "receive")
    /\ UNCHANGED <<now, events, uid, stop, granted, lookAhead, nextUpdate, tx, rx, net>>

\* One round of ReceiveMessages: MPI_Testany may find any message that has
\* arrived; its event is scheduled at the time the sender gave.
ReceiveMessage(i) ==
    /\ At(i, "receive")
    /\ \E m \in To(i) :
          /\ net' = net \ {m}
          /\ events' = [events EXCEPT ![i] =
                           @ \union {[ts |-> m.ts, uid |-> uid[i], stop |-> FALSE]}]
    /\ uid' = [uid EXCEPT ![i] = @ + 1]
    /\ rx' = [rx EXCEPT ![i] = @ + 1]
    /\ UNCHANGED <<pc, now, stop, granted, lookAhead, nextUpdate, tx>>

\* MPI_Testany finds nothing more (a message may still be under way); the
\* rank calls MPI_Allgather with its counts, whether it is finished, and the
\* time of its next event, none of which changes until the call returns.
JoinAllgather(i) ==
    /\ At(i, "receive")
    /\ Goto(i, "gather")
    /\ UNCHANGED <<now, events, uid, stop, granted, lookAhead, nextUpdate, tx, rx, net>>

\* (Mutant: the loop forgets the first rank.)
BugSmallestTime == Min({NextTs(i) : i \in Ranks \ {0}})

SmallestTime == Min({NextTs(i) : i \in Ranks})

\* A new window only if no message is under way.
Grant == IF Total(rx) = Total(tx)
         THEN [i \in Ranks |-> SmallestTime + lookAhead[i]]
         ELSE granted

\* (Mutant: a rank that is finished ends the loop with messages under way.)
BugGlobalFinished == \A i \in Ranks : IsLocalFinished(i)

GlobalFinished == (\A i \in Ranks : IsLocalFinished(i)) /\ Total(rx) = Total(tx)

Allgather ==
    /\ \A i \in Ranks : At(i, "gather")
    /\ granted' = Grant
    /\ pc' = [i \in Ranks |-> IF GlobalFinished THEN "done" ELSE "execute"]
    /\ UNCHANGED <<now, events, uid, stop, lookAhead, nextUpdate, tx, rx, net>>

\* An event may schedule one of its own rank, now or later, ...
NewEvents(i, t) ==
    {{}} \union {{[ts |-> ts, uid |-> uid[i], stop |-> FALSE]} :
                    ts \in IF uid[i] <= MaxNew THEN t .. Horizon ELSE {}}

\* (Mutant: a packet is sent before the one that was sent is counted.)
BugPackets(i) == [from : {i}, nr : {tx[i] + 1}, to : Ranks \ {i}, ts : 0 .. Horizon]

Packets(i) == [from : {i}, nr : {tx[i]}, to : Ranks \ {i}, ts : 0 .. Horizon]

\* (Mutant: the packet may come before the delay of the channel is over.)
BugNewMessages(i, t) ==
    {{}} \union {{m} : m \in {p \in Packets(i) : tx[i] < MaxSent /\ p.ts >= t}}

\* ... and send one packet to another rank (SendPacket), which is received
\* when the transmission and the delay of the channel are over.
NewMessages(i, t) ==
    {{}} \union {{m} : m \in {p \in Packets(i) : /\ tx[i] < MaxSent
                                                 /\ p.ts >= t + Delay[i][p.to]}}

Invoke(i, e) ==
    IF e.stop
    THEN /\ stop' = [stop EXCEPT ![i] = TRUE]
         /\ events' = [events EXCEPT ![i] = @ \ {e}]
         /\ UNCHANGED <<uid, tx, net>>
    ELSE \E new \in NewEvents(i, e.ts), out \in NewMessages(i, e.ts) :
            /\ events' = [events EXCEPT ![i] = (@ \ {e}) \union new]
            /\ uid' = [uid EXCEPT ![i] = IF new = {} THEN @ ELSE @ + 1]
            /\ net' = net \union out
            /\ tx' = [tx EXCEPT ![i] = IF out = {} THEN @ ELSE @ + 1]
            /\ UNCHANGED stop

\* The scheduler hands out the event with the smallest time and, among those,
\* the smallest uid.
IsFirst(i, e) ==
    \A f \in events[i] : e.ts < f.ts \/ (e.ts = f.ts /\ e.uid <= f.uid)

\* (Mutant: the end of the window does not belong to it.)
BugInWindow(i) == ~IsLocalFinished(i) /\ NextTs(i) < granted[i]

InWindow(i) == ~IsLocalFinished(i) /\ NextTs(i) <= granted[i]

ProcessOneEvent(i) ==
    /\ Checked(i) \/ At(i, "execute")
    /\ InWindow(i)
    /\ \E e \in events[i] :
          /\ IsFirst(i, e)
          /\ now' = [now EXCEPT ![i] = e.ts]
          /\ Invoke(i, e)
    /\ Goto(i, "loop")
    /\ UNCHANGED <<granted, lookAhead, nextUpdate, rx>>

NothingToProcess(i) ==
    /\ At(i, "execute")
    /\ ~InWindow(i)
    /\ Goto(i, "loop")
    /\ UNCHANGED <<now, events, uid, stop, granted, lookAhead, nextUpdate, tx, rx, net>>

----------------------------------------------------------------------------
Init ==
    /\ pc = [i \in Ranks |-> "idle"]
    /\ now = [i \in Ranks |-> 0]
    /\ \E T \in [Ranks -> SUBSET StartTimes] :
          events = [i \in Ranks |->
                      {[ts |-> t, uid |-> 0, stop |-> FALSE] : t \in T[i]} \union
                      {[ts |-> t, uid |-> 1, stop |-> TRUE] : t \in StopTimes}]
    /\ uid = [i \in Ranks |-> 2]
    /\ stop = [i \in Ranks |-> FALSE]
    /\ granted = [i \in Ranks |-> 0]
    /\ lookAhead = [i \in Ranks |-> MaxTime]
    /\ nextUpdate = [i \in Ranks |-> 0]
    /\ tx = [i \in Ranks |-> 0]
    /\ rx = [i \in Ranks |-> 0]
    /\ net = {}

RankStep(i) ==
    \/ BoundLookAhead(i)
    \/ StartRun(i)
    \/ Recalculate(i)
    \/ StartReceiving(i)
    \/ ReceiveMessage(i)
    \/ JoinAllgather(i)
    \/ ProcessOneEvent(i)
    \/ NothingToProcess(i)

Next == Allreduce \/ Allgather \/ \E i \in Ranks : RankStep(i)

Spec == Init /\ [][Next]_vars

\* Every process runs on; a message that was sent is found by MPI_Testany if
\* the receiver asks often enough.
Fairness ==
    /\ WF_vars(Allreduce)
    /\ WF_vars(Allgather)
    /\ \A i \in Ranks : /\ WF_vars(StartRun(i) \/ Recalculate(i) \/ StartReceiving(i)
                                   \/ JoinAllgather(i) \/ ProcessOneEvent(i)
                                   \/ NothingToProcess(i))
                        /\ SF_vars(ReceiveMessage(i))

FairSpec == Spec /\ Fairness

----------------------------------------------------------------------------
(* Properties.                                                             *)

Pending(i) == IF stop[i] THEN {} ELSE events[i]

\* The variables have their types, in particular each message in transit is
\* counted once by its sender.
TypeOK ==
    /\ pc \in [Ranks -> Places]
    /\ now \in [Ranks -> Nat]
    /\ events \in [Ranks -> SUBSET Event]
    /\ uid \in [Ranks -> Nat]
    /\ stop \in [Ranks -> BOOLEAN]
    /\ granted \in [Ranks -> Nat]
    /\ lookAhead \in [Ranks -> Nat]
    /\ nextUpdate \in [Ranks -> Nat]
    /\ tx \in [Ranks -> Nat]
    /\ rx \in [Ranks -> Nat]
    /\ net \subseteq Message
    /\ \A m \in net : m.nr < tx[m.from]

\* "NS_ASSERT (next.key.m_ts >= m_currentTs)": no rank ever gets hold of an
\* event of its past, neither from its own queue nor from another rank, with
\* whatever delay MPI delivers.
NoStraggler ==
    \A i \in Ranks : /\ \A e \in events[i] : e.ts >= now[i]
                     /\ \A m \in To(i) : m.ts >= now[i]

\* No rank is ahead, or may go ahead, of anything that another one has still
\* to execute by more than the delay of the channel between the two.
NoneRunsAhead ==
    \A i, j \in Ranks : i # j =>
        \A e \in Pending(j) : /\ now[i] <= e.ts + Delay[j][i]
                              /\ granted[i] <= e.ts + Delay[j][i]

\* The difference of the totals is the number of messages in transit, so that
\* equal totals mean that there are none.
CountsBalance == Total(tx) = Total(rx) + Cardinality(net)

\* The loops end together, with every queue empty or stopped and with no
\* message left in transit.
NothingLost ==
    (\E i \in Ranks : At(i, "done")) =>
        /\ net = {}
        /\ \A i \in Ranks : At(i, "done") /\ Pending(i) = {}

\* Simulation time of a rank never goes back.
TimeAdvances == [][\A i \in Ranks : now'[i] >= now[i]]_vars

\* One rank waits in MPI_Allgather and another in MPI_Allreduce, which go on
\* only when every rank has called the same one.
Split == \E i, j \in Ranks : At(i, "gather") /\ At(j, "reduce")

\* Unless the ranks get into different collectives, the simulation ends on
\* every rank once nothing is left to execute, with whatever lookahead.
Ends == <>(Split \/ \A i \in Ranks : At(i, "done"))

----------------------------------------------------------------------------
(* What the documentation and the comments say and the code does not do.   *)

\* "If local task is finished then continue to participate in allgather
\* synchronizations with other tasks".
TasksSynchronise == ~Split
=============================================================================
