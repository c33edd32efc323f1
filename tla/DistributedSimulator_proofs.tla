--------------------- MODULE DistributedSimulator_proofs ---------------------
(***************************************************************************)
(* For any number of ranks, any delays, lookahead files, sets of events    *)
(* and bounds: the distributed simulator is causal.  No rank gets hold of  *)
(* an event of its past, and the loops end with no message in transit.     *)
(***************************************************************************)
EXTENDS DistributedSimulator, DataLemmas, TLAPS

----------------------------------------------------------------------------
(* Sums over the ranks.                                                    *)

\* s holds the partial sums of f up to n.
Sums(f, s, n) == s = [k \in 0 .. n |-> IF k = 0 THEN f[0] ELSE s[k - 1] + f[k]]

\* The recursion of Total has a solution for every function on the ranks.
LEMMA SumsExist ==
    ASSUME NEW f \in [Ranks -> Nat]
    PROVE  \E s : Sums(f, s, N - 1)
<1> DEFINE S == {n \in Nat : n < N => \E s : Sums(f, s, n)}
<1>1. 0 \in S
    <2> DEFINE s == [k \in 0 .. 0 |-> f[0]]
    <2>1. Sums(f, s, 0)
        BY DEF Sums
    <2> QED BY <2>1
<1>2. ASSUME NEW n \in Nat, n \in S PROVE n + 1 \in S
    <2> SUFFICES ASSUME n + 1 < N PROVE \E s : Sums(f, s, n + 1)
        OBVIOUS
    <2>1. PICK s : Sums(f, s, n)
        BY <1>2, SimulatorAssumption
    <2> DEFINE t == [k \in 0 .. n + 1 |-> IF k = n + 1 THEN s[n] + f[n + 1] ELSE s[k]]
    <2>2. ASSUME NEW k \in 0 .. n + 1
          PROVE  t[k] = IF k = 0 THEN f[0] ELSE t[k - 1] + f[k]
        <3>1. CASE k = n + 1
            BY <3>1
        <3>2. CASE k # n + 1
            <4>1. k \in 0 .. n /\ t[k] = s[k] /\ (k # 0 => t[k - 1] = s[k - 1])
                BY <3>2
            <4>2. s[k] = IF k = 0 THEN f[0] ELSE s[k - 1] + f[k]
                BY <2>1, <4>1 DEF Sums
            <4> QED BY <4>1, <4>2
        <3> QED BY <3>1, <3>2
    <2>3. Sums(f, t, n + 1)
        <3> HIDE DEF t
        <3>1. t = [k \in 0 .. n + 1 |-> t[k]]
            BY DEF t
        <3> QED BY <2>2, <3>1 DEF Sums
    <2> QED BY <2>3
<1>3. N - 1 \in S
    <2> HIDE DEF S
    <2> QED BY <1>1, <1>2, AllNat, SimulatorAssumption
<1> QED BY <1>3, SimulatorAssumption

\* Total is the last one of partial sums that follow its recursion.
LEMMA TotalIsSum ==
    ASSUME NEW f \in [Ranks -> Nat]
    PROVE  \E s : /\ Total(f) = s[N - 1]
                  /\ \A k \in Ranks : s[k] = IF k = 0 THEN f[0] ELSE s[k - 1] + f[k]
                  /\ s \in [Ranks -> Nat]
<1> DEFINE s == CHOOSE s : Sums(f, s, N - 1)
<1>1. Sums(f, s, N - 1)
    BY SumsExist
<1>2. Total(f) = s[N - 1]
    BY DEF Total, Sums, Ranks
<1> HIDE DEF s
<1>3. \A k \in Ranks : s[k] = IF k = 0 THEN f[0] ELSE s[k - 1] + f[k]
    BY <1>1 DEF Sums, Ranks
<1> DEFINE S == {n \in Nat : n < N => s[n] \in Nat}
<1>4. 0 \in S
    BY <1>3, SimulatorAssumption DEF Ranks
<1>5. ASSUME NEW n \in Nat, n \in S PROVE n + 1 \in S
    <2> SUFFICES ASSUME n + 1 < N PROVE s[n + 1] \in Nat
        OBVIOUS
    <2>1. s[n] \in Nat /\ f[n + 1] \in Nat /\ n + 1 \in Ranks
        BY <1>5, SimulatorAssumption DEF Ranks
    <2>2. s[n + 1] = s[n] + f[n + 1]
        BY <1>3, <2>1
    <2> QED BY <2>1, <2>2
<1>6. \A n \in Nat : n \in S
    <2> HIDE DEF S
    <2> QED BY <1>4, <1>5, AllNat
<1>7. s \in [Ranks -> Nat]
    <2>1. s = [k \in Ranks |-> s[k]]
        BY <1>1 DEF Sums, Ranks
    <2>2. \A k \in Ranks : s[k] \in Nat
        BY <1>6, SimulatorAssumption DEF Ranks
    <2> QED BY <2>1, <2>2
<1> QED BY <1>2, <1>3, <1>7

\* The total of the counts of all ranks is a natural number.
LEMMA TotalType ==
    ASSUME NEW f \in [Ranks -> Nat]
    PROVE  Total(f) \in Nat
<1>1. PICK s \in [Ranks -> Nat] : Total(f) = s[N - 1]
    BY TotalIsSum
<1>2. N - 1 \in Ranks
    BY SimulatorAssumption DEF Ranks
<1> QED BY <1>1, <1>2

\* One more at one rank is one more in total.
LEMMA TotalPlusOne ==
    ASSUME NEW f \in [Ranks -> Nat], NEW i \in Ranks
    PROVE  Total([f EXCEPT ![i] = @ + 1]) = Total(f) + 1
<1> DEFINE g == [f EXCEPT ![i] = @ + 1]
<1>1. g \in [Ranks -> Nat]
    OBVIOUS
<1>2. g[i] = f[i] + 1 /\ \A k \in Ranks : k # i => g[k] = f[k]
    OBVIOUS
<1> HIDE DEF g
<1>3. PICK s \in [Ranks -> Nat] :
          /\ Total(f) = s[N - 1]
          /\ \A k \in Ranks : s[k] = IF k = 0 THEN f[0] ELSE s[k - 1] + f[k]
    BY TotalIsSum
<1>4. PICK t \in [Ranks -> Nat] :
          /\ Total(g) = t[N - 1]
          /\ \A k \in Ranks : t[k] = IF k = 0 THEN g[0] ELSE t[k - 1] + g[k]
    BY <1>1, TotalIsSum
<1> DEFINE S == {n \in Nat : n < N => t[n] = IF n < i THEN s[n] ELSE s[n] + 1}
<1>5. 0 \in S
    <2>1. 0 \in Ranks /\ i \in Nat
        BY SimulatorAssumption DEF Ranks
    <2>2. t[0] = g[0] /\ s[0] = f[0]
        BY <1>3, <1>4, <2>1
    <2> QED BY <1>2, <2>1, <2>2
<1>6. ASSUME NEW n \in Nat, n \in S PROVE n + 1 \in S
    <2> SUFFICES ASSUME n + 1 < N
                 PROVE  t[n + 1] = IF n + 1 < i THEN s[n + 1] ELSE s[n + 1] + 1
        OBVIOUS
    <2>1. n \in Ranks /\ n + 1 \in Ranks /\ i \in Nat
        BY SimulatorAssumption DEF Ranks
    <2>2. t[n] = IF n < i THEN s[n] ELSE s[n] + 1
        BY <1>6, SimulatorAssumption
    <2>3. t[n + 1] = t[n] + g[n + 1] /\ s[n + 1] = s[n] + f[n + 1]
        BY <1>3, <1>4, <2>1
    <2>4. s[n] \in Nat /\ f[n + 1] \in Nat
        BY <2>1
    <2> QED BY <1>2, <2>1, <2>2, <2>3, <2>4
<1>7. N - 1 \in S
    <2> HIDE DEF S
    <2> QED BY <1>5, <1>6, AllNat, SimulatorAssumption
<1>8. t[N - 1] = s[N - 1] + 1
    BY <1>7, SimulatorAssumption DEF Ranks
<1> QED BY <1>3, <1>4, <1>8 DEF g

\* Before anything is sent or received, both totals are zero.
LEMMA TotalOfZeros == Total([i \in Ranks |-> 0]) = 0
<1> DEFINE f == [i \in Ranks |-> 0]
<1>1. PICK s \in [Ranks -> Nat] :
          /\ Total(f) = s[N - 1]
          /\ \A k \in Ranks : s[k] = IF k = 0 THEN f[0] ELSE s[k - 1] + f[k]
    BY TotalIsSum
<1> DEFINE S == {n \in Nat : n < N => s[n] = 0}
<1>2. 0 \in S
    BY <1>1, SimulatorAssumption DEF Ranks
<1>3. ASSUME NEW n \in Nat, n \in S PROVE n + 1 \in S
    BY <1>1, <1>3, SimulatorAssumption DEF Ranks
<1>4. N - 1 \in S
    <2> HIDE DEF S
    <2> QED BY <1>2, <1>3, AllNat, SimulatorAssumption
<1> QED BY <1>1, <1>4, SimulatorAssumption

----------------------------------------------------------------------------
(* The inductive invariant.  NoStraggler is not inductive: the rest says   *)
(* why what another rank is about to send cannot come too early.           *)

\* Messages are counted, and each one took the delay of its channel.
InTransit ==
    /\ IsFiniteSet(net)
    /\ \A m \in net : m.to # m.from /\ m.ts >= Delay[m.from][m.to]

LookAheadSafe ==
    \A i \in Ranks : ~At(i, "idle") =>
        \A j \in Ranks \ {i} : lookAhead[i] <= Delay[j][i]

\* Nothing that starts at time t on another rank reaches the past of rank i,
\* nor the window it was granted.
Beyond(t, i) ==
    \A j \in Ranks \ {i} : /\ now[i] <= t + Delay[j][i]
                           /\ granted[i] <= t + Delay[j][i]

InFuture ==
    \A i \in Ranks : /\ \A e \in events[i] : e.ts >= now[i]
                     /\ \A m \in To(i) : m.ts >= now[i] /\ m.ts >= granted[i]

OutOfReach ==
    \A i \in Ranks : /\ \A k \in Ranks : \A e \in Pending(k) : Beyond(e.ts, i)
                     /\ \A m \in net : Beyond(m.ts, i)

IInv == /\ TypeOK
        /\ InTransit
        /\ CountsBalance
        /\ LookAheadSafe
        /\ InFuture
        /\ OutOfReach
        /\ NothingLost

\* The delay of a channel is a natural number.
LEMMA DelayType == \A i, j \in Ranks : Delay[i][j] \in Nat
BY SimulatorAssumption

\* Whatever events the ranks are set up with, the invariant holds before Run.
LEMMA InitIInv == Init => IInv
<1> SUFFICES ASSUME Init PROVE IInv
    OBVIOUS
<1>1. TypeOK
    <2>1. PICK T \in [Ranks -> SUBSET StartTimes] :
              events = [i \in Ranks |->
                          {[ts |-> t, uid |-> 0, stop |-> FALSE] : t \in T[i]} \union
                          {[ts |-> t, uid |-> 1, stop |-> TRUE] : t \in StopTimes}]
        BY DEF Init
    <2>2. ASSUME NEW i \in Ranks PROVE events[i] \in SUBSET Event
        <3>1. T[i] \subseteq StartTimes
            OBVIOUS
        <3>2. \A t \in T[i] \union StopTimes : t \in Nat
            BY <3>1, SimulatorAssumption
        <3>3. events[i] = {[ts |-> t, uid |-> 0, stop |-> FALSE] : t \in T[i]} \union
                          {[ts |-> t, uid |-> 1, stop |-> TRUE] : t \in StopTimes}
            BY <2>1
        <3>4. ASSUME NEW t \in T[i] \union StopTimes, NEW u \in {0, 1}, NEW b \in BOOLEAN
              PROVE  [ts |-> t, uid |-> u, stop |-> b] \in Event
            BY <3>2 DEF Event
        <3>5. \A e \in events[i] : e \in Event
            BY <3>3, <3>4
        <3> QED BY <3>5
    <2>3. events \in [Ranks -> SUBSET Event]
        BY <2>1, <2>2
    <2> QED BY <2>3, SimulatorAssumption DEF Init, TypeOK, Places
<1>2. CountsBalance
    <2>1. tx = [i \in Ranks |-> 0] /\ rx = [i \in Ranks |-> 0] /\ net = {}
        BY DEF Init
    <2>2. Total(tx) = 0 /\ Total(rx) = 0 /\ Cardinality(net) = 0
        BY <2>1, TotalOfZeros, FS_EmptySet
    <2> QED BY <2>2 DEF CountsBalance
<1>3. ASSUME NEW i \in Ranks, NEW j \in Ranks
      PROVE  now[i] = 0 /\ granted[i] = 0 /\ Delay[j][i] \in Nat /\ pc[i] = "idle"
    BY DelayType DEF Init
<1>4. \A i \in Ranks : \A e \in events[i] : e.ts \in Nat
    BY <1>1 DEF TypeOK, Event
<1>5. net = {}
    BY DEF Init
<1>6. InTransit /\ LookAheadSafe /\ NothingLost
    BY <1>3, <1>5, FS_EmptySet DEF InTransit, LookAheadSafe, NothingLost, At
<1>7. InFuture
    BY <1>3, <1>4, <1>5 DEF InFuture, To
<1>8. OutOfReach
    BY <1>3, <1>4, <1>5 DEF OutOfReach, Beyond, Pending
<1> QED BY <1>1, <1>2, <1>6, <1>7, <1>8 DEF IInv

\* The steps that change nothing but the place of the ranks.
LEMMA PlaceStep ==
    ASSUME IInv, pc' \in [Ranks -> Places],
           \A i \in Ranks : /\ pc[i] # "done" /\ pc'[i] # "done"
                            /\ pc[i] = "idle" <=> pc'[i] = "idle",
           UNCHANGED <<now, events, uid, stop, granted, lookAhead, nextUpdate, tx, rx, net>>
    PROVE  IInv'
<1>1. TypeOK'
    BY DEF IInv, TypeOK
<1>2. InTransit' /\ CountsBalance' /\ InFuture' /\ OutOfReach'
    BY DEF IInv, InTransit, CountsBalance, InFuture, OutOfReach, Beyond, Pending, To
<1>3. LookAheadSafe'
    BY DEF IInv, LookAheadSafe, At
<1>4. NothingLost'
    BY DEF NothingLost, At
<1> QED BY <1>1, <1>2, <1>3, <1>4 DEF IInv

\* While a rank can still take a step, none is done.
LEMMA NoneDone ==
    ASSUME IInv, NEW i \in Ranks, pc[i] # "done"
    PROVE  \A j \in Ranks : pc[j] # "done"
BY DEF IInv, NothingLost, At

\* BoundLookAhead is called before Run and touches nothing but the lookahead,
\* which CalculateLookAhead overwrites.
LEMMA BoundLookAheadStep ==
    ASSUME IInv, NEW i \in Ranks, BoundLookAhead(i)
    PROVE  IInv'
<1>1. PICK b \in UserBounds : lookAhead' = [lookAhead EXCEPT ![i] = Min({@, b})]
    BY DEF BoundLookAhead
<1>2. lookAhead' \in [Ranks -> Nat]
    <2>1. lookAhead \in [Ranks -> Nat]
        BY DEF IInv, TypeOK
    <2>2. {lookAhead[i], b} \subseteq Nat
        BY <2>1, SimulatorAssumption
    <2>3. Min({lookAhead[i], b}) \in Nat
        BY <2>2, MinOfNat
    <2> QED BY <1>1, <2>1, <2>3
<1>3. UNCHANGED <<pc, now, events, uid, stop, granted, nextUpdate, tx, rx, net>> /\ pc[i] = "idle"
    BY DEF BoundLookAhead, At
<1>4. TypeOK'
    BY <1>2, <1>3 DEF IInv, TypeOK
<1>5. InTransit' /\ CountsBalance' /\ InFuture' /\ OutOfReach' /\ NothingLost'
    BY <1>3 DEF IInv, InTransit, CountsBalance, InFuture, OutOfReach, Beyond, Pending, To,
                NothingLost, At
<1>6. LookAheadSafe'
    BY <1>1, <1>3 DEF IInv, TypeOK, LookAheadSafe, At
<1> QED BY <1>4, <1>5, <1>6 DEF IInv

\* A lookahead that is read is a safe window from time 0 on.
LEMMA CalculateStep ==
    ASSUME IInv, NEW i \in Ranks, CalculateLookAhead(i), pc[i] # "done",
           pc' \in [Ranks -> Places], nextUpdate' \in [Ranks -> Nat], pc'[i] # "done",
           \A j \in Ranks \ {i} : pc'[j] = pc[j],
           UNCHANGED <<now, events, uid, stop, tx, rx, net>>
    PROVE  IInv'
<1>1. PICK la \in IF N = 1 THEN {0} ELSE LookAheads[i] :
          /\ lookAhead' = [lookAhead EXCEPT ![i] = la]
          /\ granted' = [granted EXCEPT ![i] = la]
    BY DEF CalculateLookAhead
<1>2. la \in Nat
    BY SimulatorAssumption
<1>3. \A j \in Ranks \ {i} : la <= Delay[j][i]
    <2>1. CASE N = 1
        BY <2>1 DEF Ranks
    <2>2. CASE N # 1
        BY <2>2, LookAheadAssumption
    <2> QED BY <2>1, <2>2
<1>4. TypeOK
    BY DEF IInv
<1>5. TypeOK'
    BY <1>1, <1>2, <1>4 DEF TypeOK
<1>6. InTransit' /\ CountsBalance'
    BY DEF IInv, InTransit, CountsBalance
<1>7. /\ granted'[i] = la /\ lookAhead'[i] = la
      /\ \A j \in Ranks \ {i} : granted'[j] = granted[j] /\ lookAhead'[j] = lookAhead[j]
    BY <1>1, <1>4 DEF TypeOK
<1>8. LookAheadSafe'
    BY <1>3, <1>7 DEF IInv, LookAheadSafe, At
<1>9. InFuture'
    <2>1. \A m \in net : m.to = i => m.ts >= la
        <3> SUFFICES ASSUME NEW m \in net, m.to = i PROVE m.ts >= la
            OBVIOUS
        <3>1. m.from \in Ranks /\ m.ts \in Nat
            BY <1>4 DEF TypeOK, Message
        <3>2. m.from # i /\ m.ts >= Delay[m.from][i]
            BY DEF IInv, InTransit
        <3> QED BY <1>2, <1>3, <3>1, <3>2, DelayType
    <2> QED BY <1>7, <2>1 DEF IInv, InFuture, To
<1>10. OutOfReach'
    <2>1. \A x \in Nat : \A j \in Ranks \ {i} : la <= x + Delay[j][i]
        BY <1>2, <1>3, DelayType
    <2>2. \A m \in net : m.ts \in Nat
        BY <1>4 DEF TypeOK, Message
    <2>3. \A j \in Ranks : \A e \in Pending(j) : e.ts \in Nat
        BY <1>4 DEF TypeOK, Event, Pending
    <2> QED BY <1>7, <2>1, <2>2, <2>3 DEF IInv, OutOfReach, Beyond, Pending
<1>11. NothingLost'
    BY NoneDone DEF NothingLost, At
<1> QED BY <1>5, <1>6, <1>8, <1>9, <1>10, <1>11 DEF IInv

\* Run begins with CalculateLookAhead.
LEMMA StartRunStep ==
    ASSUME IInv, NEW i \in Ranks, StartRun(i)
    PROVE  IInv'
<1>1. Min({Horizon, Interval + 1}) \in Nat
    BY MinOfNat, SimulatorAssumption
<1>2. TypeOK
    BY DEF IInv
<1>3. pc' \in [Ranks -> Places] /\ nextUpdate' \in [Ranks -> Nat]
    BY <1>1, <1>2 DEF StartRun, TypeOK, Goto, Places
<1>4. pc[i] # "done" /\ pc'[i] # "done" /\ \A j \in Ranks \ {i} : pc'[j] = pc[j]
    BY <1>2 DEF StartRun, TypeOK, Goto, At
<1> QED BY <1>3, <1>4, CalculateStep DEF StartRun

\* So does every later update of the lookahead, within the loop.
LEMMA RecalculateStep ==
    ASSUME IInv, NEW i \in Ranks, Recalculate(i)
    PROVE  IInv'
<1>1. TypeOK
    BY DEF IInv
<1>2. Min({Horizon, nextUpdate[i] + Interval}) \in Nat
    <2>1. {Horizon, nextUpdate[i] + Interval} \subseteq Nat
        BY <1>1, SimulatorAssumption DEF TypeOK
    <2> QED BY <2>1, MinOfNat
<1>3. pc' \in [Ranks -> Places] /\ nextUpdate' \in [Ranks -> Nat]
    BY <1>1, <1>2 DEF Recalculate, TypeOK, Goto, Places
<1>4. pc[i] # "done" /\ pc'[i] # "done" /\ \A j \in Ranks \ {i} : pc'[j] = pc[j]
    BY <1>1 DEF Recalculate, TypeOK, Goto, At
<1> QED BY <1>3, <1>4, CalculateStep DEF Recalculate

\* A message that is received moves from the path into the queue, and from
\* the one total to the other.
LEMMA ReceiveMessageStep ==
    ASSUME IInv, NEW i \in Ranks, ReceiveMessage(i)
    PROVE  IInv'
<1>1. PICK m \in To(i) :
          /\ net' = net \ {m}
          /\ events' = [events EXCEPT ![i] =
                           @ \union {[ts |-> m.ts, uid |-> uid[i], stop |-> FALSE]}]
    BY DEF ReceiveMessage
<1> DEFINE new == [ts |-> m.ts, uid |-> uid[i], stop |-> FALSE]
<1>2. TypeOK /\ InTransit /\ m \in net /\ m.to = i /\ m \in Message
    BY <1>1 DEF IInv, To, TypeOK
<1>3. new \in Event /\ new.ts = m.ts
    BY <1>2 DEF TypeOK, Message, Event
<1>4. /\ uid' = [uid EXCEPT ![i] = @ + 1]
      /\ rx' = [rx EXCEPT ![i] = @ + 1]
      /\ UNCHANGED <<pc, now, stop, granted, lookAhead, nextUpdate, tx>>
    BY DEF ReceiveMessage
<1>5. /\ events' \in [Ranks -> SUBSET Event]
      /\ \A j \in Ranks : events'[j] \subseteq events[j] \union {new}
      /\ \A j \in Ranks \ {i} : events'[j] = events[j]
    BY <1>1, <1>2, <1>3 DEF TypeOK
<1> HIDE DEF new
<1>6. TypeOK'
    BY <1>1, <1>2, <1>4, <1>5 DEF TypeOK
<1>7. InTransit'
    BY <1>1, <1>2, FS_RemoveElement DEF InTransit
<1>8. CountsBalance'
    <2>1. Cardinality(net') = Cardinality(net) - 1 /\ Cardinality(net) \in Nat
        BY <1>1, <1>2, FS_RemoveElement, FS_CardinalityType DEF InTransit
    <2>2. Total(rx') = Total(rx) + 1 /\ Total(rx) \in Nat
        BY <1>2, <1>4, TotalPlusOne, TotalType DEF TypeOK
    <2> QED BY <1>4, <2>1, <2>2 DEF IInv, CountsBalance
<1>9. LookAheadSafe'
    BY <1>4 DEF IInv, LookAheadSafe, At
<1>10. InFuture'
    <2>1. new.ts >= now[i]
        BY <1>1, <1>3 DEF IInv, InFuture
    <2> QED BY <1>1, <1>4, <1>5, <2>1 DEF IInv, InFuture, To
<1>11. OutOfReach'
    <2>1. \A j \in Ranks : Beyond(new.ts, j)
        BY <1>2, <1>3 DEF IInv, OutOfReach
    <2>2. \A j \in Ranks : Pending(j)' \subseteq Pending(j) \union {new}
        BY <1>4, <1>5 DEF Pending
    <2> QED BY <1>1, <1>4, <2>1, <2>2 DEF IInv, OutOfReach, Beyond
<1>12. NothingLost'
    <2>1. pc[i] # "done"
        BY DEF ReceiveMessage, At
    <2> QED BY <1>4, <2>1, NoneDone DEF NothingLost, At
<1> QED BY <1>6, <1>7, <1>8, <1>9, <1>10, <1>11, <1>12 DEF IInv

\* The time that a rank reports as its next one is a natural number, no later
\* than that of any event it has still to execute.
LEMMA NextTsType ==
    ASSUME TypeOK, NEW i \in Ranks
    PROVE  NextTs(i) \in Nat /\ \A e \in Pending(i) : NextTs(i) <= e.ts
<1>1. EventTimes(i) \subseteq Nat
    BY DEF EventTimes, TypeOK, Event
<1>2. CASE IsLocalFinished(i)
    BY <1>2, SimulatorAssumption DEF NextTs, IsLocalFinished, Pending
<1>3. CASE ~IsLocalFinished(i)
    <2>1. EventTimes(i) # {}
        BY <1>3 DEF EventTimes, IsLocalFinished
    <2> QED BY <1>1, <1>3, <2>1, MinOfNat DEF NextTs, EventTimes, Pending
<1> QED BY <1>2, <1>3

\* A window is granted when nothing is in transit: every event that is still
\* to be executed is then in a queue, at SmallestTime or later.
LEMMA AllgatherStep ==
    ASSUME IInv, Allgather
    PROVE  IInv'
<1>1. TypeOK /\ IsFiniteSet(net)
    BY DEF IInv, InTransit
<1> DEFINE Nexts == {NextTs(i) : i \in Ranks}
<1>2. Nexts \subseteq Nat /\ Nexts # {}
    <2>1. \A i \in Ranks : NextTs(i) \in Nat
        BY <1>1, NextTsType
    <2>2. 0 \in Ranks
        BY SimulatorAssumption DEF Ranks
    <2> QED BY <2>1, <2>2
<1>3. SmallestTime \in Nat /\ \A i \in Ranks : SmallestTime <= NextTs(i)
    BY <1>2, MinOfNat DEF SmallestTime
<1>4. SmallestTime \in Nat /\ \A i \in Ranks : \A e \in Pending(i) : SmallestTime <= e.ts /\ e.ts \in Nat
    <2>1. \A i \in Ranks : \A e \in Pending(i) : e.ts \in Nat
        BY <1>1 DEF TypeOK, Event, Pending
    <2> QED BY <1>1, <1>3, <2>1, NextTsType
<1>5. Total(rx) = Total(tx) => net = {}
    <2>1. Total(rx) \in Nat /\ Total(tx) \in Nat
        BY <1>1, TotalType DEF TypeOK
    <2>2. Cardinality(net) \in Nat /\ (Cardinality(net) = 0 => net = {})
        BY <1>1, FS_EmptySet, FS_CardinalityType
    <2> QED BY <2>1, <2>2 DEF IInv, CountsBalance
<1>6. /\ UNCHANGED <<now, events, uid, stop, lookAhead, nextUpdate, tx, rx, net>>
      /\ \A i \in Ranks : pc[i] = "gather"
      /\ granted' = Grant
      /\ pc' = [i \in Ranks |-> IF GlobalFinished THEN "done" ELSE "execute"]
    BY DEF Allgather, At
<1>7. \/ net = {} /\ granted' = [i \in Ranks |-> SmallestTime + lookAhead[i]]
      \/ granted' = granted
    BY <1>5, <1>6 DEF Grant
<1>8. TypeOK'
    <2>1. granted' \in [Ranks -> Nat]
        BY <1>1, <1>3, <1>7 DEF TypeOK
    <2>2. pc' \in [Ranks -> Places]
        BY <1>6 DEF Places
    <2> QED BY <1>1, <1>6, <2>1, <2>2 DEF TypeOK
<1>9. InTransit' /\ CountsBalance'
    BY <1>6 DEF IInv, InTransit, CountsBalance
<1>10. LookAheadSafe'
    BY <1>6 DEF IInv, LookAheadSafe, At
<1>11. InFuture'
    BY <1>6, <1>7 DEF IInv, InFuture, To
<1>12. OutOfReach'
    <2>1. CASE granted' = granted
        BY <1>6, <2>1 DEF IInv, OutOfReach, Beyond, Pending
    <2>2. CASE net = {} /\ granted' = [i \in Ranks |-> SmallestTime + lookAhead[i]]
        <3> SUFFICES ASSUME NEW i \in Ranks, NEW k \in Ranks, NEW e \in Pending(k),
                            NEW j \in Ranks \ {i}
                     PROVE  granted'[i] <= e.ts + Delay[j][i]
            BY <1>6, <2>2 DEF IInv, OutOfReach, Beyond, Pending
        <3>1. lookAhead[i] <= Delay[j][i] /\ lookAhead[i] \in Nat
            BY <1>1, <1>6 DEF IInv, LookAheadSafe, At, TypeOK
        <3>2. SmallestTime <= e.ts /\ e.ts \in Nat
            BY <1>4
        <3> QED BY <1>3, <2>2, <3>1, <3>2, DelayType
    <2> QED BY <1>7, <2>1, <2>2
<1>13. NothingLost'
    <2>1. CASE GlobalFinished
        BY <1>5, <1>6, <2>1 DEF GlobalFinished, IsLocalFinished, NothingLost, At, Pending
    <2>2. CASE ~GlobalFinished
        BY <1>6, <2>2 DEF NothingLost, At
    <2> QED BY <2>1, <2>2
<1> QED BY <1>8, <1>9, <1>10, <1>11, <1>12, <1>13 DEF IInv

\* What an event of rank i schedules on its own rank is not earlier than it,
\* and what it sends takes the delay of the channel.
LEMMA InvokeStep ==
    ASSUME TypeOK, NEW i \in Ranks, NEW e \in events[i], Invoke(i, e)
    PROVE  \E new, out :
              /\ events' = [events EXCEPT ![i] = (@ \ {e}) \union new]
              /\ net' = net \union out
              /\ \A x \in new : x \in Event /\ x.ts >= e.ts
              /\ \/ out = {} /\ tx' = tx
                 \/ \E m \in Message :
                       /\ out = {m} /\ m.from = i /\ m.to # i /\ m.nr = tx[i]
                       /\ m.ts >= e.ts + Delay[i][m.to]
                       /\ tx' = [tx EXCEPT ![i] = @ + 1]
              /\ uid' \in [Ranks -> Nat]
              /\ stop' \in [Ranks -> BOOLEAN]
              /\ \A j \in Ranks : stop[j] => stop'[j]
<1>1. e \in Event /\ e.ts \in Nat
    BY DEF TypeOK, Event
<1>2. CASE e.stop
    <2>1. /\ stop' = [stop EXCEPT ![i] = TRUE]
          /\ events' = [events EXCEPT ![i] = (@ \ {e}) \union {}]
          /\ uid' = uid /\ tx' = tx /\ net' = net \union {}
        BY <1>2 DEF Invoke
    <2>2. uid' \in [Ranks -> Nat] /\ stop' \in [Ranks -> BOOLEAN]
        BY <2>1 DEF TypeOK
    <2>3. \A j \in Ranks : stop[j] => stop'[j]
        BY <2>1 DEF TypeOK
    <2> WITNESS {}, {}
    <2> QED BY <2>1, <2>2, <2>3
<1>3. CASE ~e.stop
    <2>1. PICK new \in NewEvents(i, e.ts), out \in NewMessages(i, e.ts) :
              /\ events' = [events EXCEPT ![i] = (@ \ {e}) \union new]
              /\ uid' = [uid EXCEPT ![i] = IF new = {} THEN @ ELSE @ + 1]
              /\ net' = net \union out
              /\ tx' = [tx EXCEPT ![i] = IF out = {} THEN @ ELSE @ + 1]
              /\ stop' = stop
        BY <1>3 DEF Invoke
    <2>2. \A x \in new : x \in Event /\ x.ts >= e.ts
        <3> SUFFICES ASSUME NEW x \in new PROVE x \in Event /\ x.ts >= e.ts
            OBVIOUS
        <3>1. PICK ts \in e.ts .. Horizon : x = [ts |-> ts, uid |-> uid[i], stop |-> FALSE]
            BY <2>1 DEF NewEvents
        <3>2. ts \in Nat /\ ts >= e.ts /\ uid[i] \in Nat
            BY <1>1, SimulatorAssumption DEF TypeOK
        <3> QED BY <3>1, <3>2 DEF Event
    <2>3. \/ out = {}
          \/ \E m \in Packets(i) : out = {m} /\ m.ts >= e.ts + Delay[i][m.to]
        BY <2>1 DEF NewMessages
    <2>4. \A m \in Packets(i) : m \in Message /\ m.from = i /\ m.to # i /\ m.nr = tx[i]
        <3>1. tx[i] \in Nat /\ \A ts \in 0 .. Horizon : ts \in Nat
            BY SimulatorAssumption DEF TypeOK
        <3> QED BY <3>1 DEF Packets, Message
    <2>5. out = {} => tx' = tx
        BY <2>1 DEF TypeOK
    <2>6. out # {} => tx' = [tx EXCEPT ![i] = @ + 1]
        BY <2>1
    <2>7. uid' \in [Ranks -> Nat] /\ stop' \in [Ranks -> BOOLEAN] /\ \A j \in Ranks : stop[j] => stop'[j]
        BY <2>1 DEF TypeOK
    <2> QED BY <2>1, <2>2, <2>3, <2>4, <2>5, <2>6, <2>7
<1> QED BY <1>2, <1>3

\* An event is executed within the window, so that what other ranks sent or
\* will send comes later; what it sends lies beyond the windows of the others.
LEMMA ProcessOneEventStep ==
    ASSUME IInv, NEW i \in Ranks, ProcessOneEvent(i)
    PROVE  IInv'
<1>1. TypeOK /\ InTransit
    BY DEF IInv
<1>2. PICK e \in events[i] : /\ IsFirst(i, e)
                             /\ now' = [now EXCEPT ![i] = e.ts]
                             /\ Invoke(i, e)
    BY DEF ProcessOneEvent
<1>3. /\ pc' = [pc EXCEPT ![i] = "loop"]
      /\ pc[i] \in {"check", "loop", "execute"}
      /\ InWindow(i)
      /\ UNCHANGED <<granted, lookAhead, nextUpdate, rx>>
    BY DEF ProcessOneEvent, Checked, At, Goto
<1>4. e \in Pending(i) /\ e \in Event /\ e.ts \in Nat
    BY <1>1, <1>3 DEF InWindow, IsLocalFinished, Pending, TypeOK, Event
<1>5. e.ts <= granted[i] /\ granted[i] \in Nat /\ \A f \in events[i] : e.ts <= f.ts
    <2>1. \A f \in events[i] : f.ts \in Nat
        BY <1>1 DEF TypeOK, Event
    <2>2. \A f \in events[i] : e.ts <= f.ts
        BY <1>2, <1>4, <2>1 DEF IsFirst
    <2>3. NextTs(i) \in EventTimes(i)
        <3>1. EventTimes(i) # {} /\ EventTimes(i) \subseteq Nat
            BY <2>1 DEF EventTimes
        <3> QED BY <1>3, <3>1, MinOfNat DEF NextTs, InWindow
    <2>4. NextTs(i) <= granted[i]
        BY <1>3 DEF InWindow
    <2>5. granted[i] \in Nat
        BY <1>1 DEF TypeOK
    <2> QED BY <1>4, <2>1, <2>2, <2>3, <2>4, <2>5 DEF EventTimes
<1>6. PICK new, out :
          /\ events' = [events EXCEPT ![i] = (@ \ {e}) \union new]
          /\ net' = net \union out
          /\ \A x \in new : x \in Event /\ x.ts >= e.ts
          /\ \/ out = {} /\ tx' = tx
             \/ \E m \in Message :
                   /\ out = {m} /\ m.from = i /\ m.to # i /\ m.nr = tx[i]
                   /\ m.ts >= e.ts + Delay[i][m.to]
                   /\ tx' = [tx EXCEPT ![i] = @ + 1]
          /\ uid' \in [Ranks -> Nat]
          /\ stop' \in [Ranks -> BOOLEAN]
          /\ \A j \in Ranks : stop[j] => stop'[j]
    BY <1>1, <1>2, InvokeStep
<1>7. /\ now'[i] = e.ts
      /\ \A j \in Ranks \ {i} : now'[j] = now[j] /\ events'[j] = events[j]
      /\ events'[i] \subseteq events[i] \union new
    BY <1>1, <1>2, <1>6 DEF TypeOK
<1>8. \A x \in new \union out : x.ts \in Nat /\ x.ts >= e.ts
    <2>1. \A x \in new : x.ts \in Nat /\ x.ts >= e.ts
        BY <1>6 DEF Event
    <2>2. ASSUME NEW x \in out PROVE x.ts \in Nat /\ x.ts >= e.ts
        <3>1. x \in Message /\ x.ts >= e.ts + Delay[i][x.to]
            BY <1>6
        <3>2. x.ts \in Nat /\ Delay[i][x.to] \in Nat
            BY <3>1, DelayType DEF Message
        <3> QED BY <1>4, <3>1, <3>2
    <2> QED BY <2>1, <2>2
<1>9. TypeOK'
    <2>1. now' \in [Ranks -> Nat] /\ events' \in [Ranks -> SUBSET Event] /\ pc' \in [Ranks -> Places]
        BY <1>1, <1>2, <1>3, <1>4, <1>6 DEF TypeOK, Places
    <2>2. tx' \in [Ranks -> Nat] /\ \A j \in Ranks : tx'[j] >= tx[j]
        BY <1>1, <1>6 DEF TypeOK
    <2>3. net' \subseteq Message
        BY <1>1, <1>6 DEF TypeOK
    <2>4. ASSUME NEW m \in net' PROVE m.nr < tx'[m.from]
        <3>1. m.nr \in Nat /\ m.from \in Ranks
            BY <2>3 DEF Message
        <3>2. CASE m \in net
            <4>1. m.nr < tx[m.from] /\ tx[m.from] \in Nat /\ tx'[m.from] \in Nat
                BY <1>1, <2>2, <3>1, <3>2 DEF TypeOK
            <4> QED BY <2>2, <3>1, <4>1
        <3>3. CASE m \in out
            <4>1. m.from = i /\ m.nr = tx[i] /\ tx' = [tx EXCEPT ![i] = @ + 1]
                BY <1>6, <3>3
            <4> QED BY <1>1, <4>1 DEF TypeOK
        <3> QED BY <1>6, <3>2, <3>3
    <2> QED BY <1>1, <1>3, <1>6, <2>1, <2>2, <2>3, <2>4 DEF TypeOK
<1>10. InTransit'
    <2>1. IsFiniteSet(net')
        BY <1>1, <1>6, FS_AddElement DEF InTransit
    <2>2. ASSUME NEW m \in out PROVE m.to # m.from /\ m.ts >= Delay[m.from][m.to]
        <3>1. /\ m \in Message /\ m.from = i /\ m.to # i
              /\ m.ts >= e.ts + Delay[i][m.to]
            BY <1>6
        <3>2. m.ts \in Nat /\ Delay[i][m.to] \in Nat
            BY <3>1, DelayType DEF Message
        <3> QED BY <1>4, <3>1, <3>2
    <2> QED BY <1>1, <1>6, <2>1, <2>2 DEF InTransit
<1>11. CountsBalance'
    <2>1. CASE out = {} /\ tx' = tx
        BY <1>3, <1>6, <2>1 DEF IInv, CountsBalance
    <2>2. ASSUME NEW m \in Message, out = {m}, m.from = i, m.nr = tx[i],
                 tx' = [tx EXCEPT ![i] = @ + 1]
          PROVE  CountsBalance'
        <3>1. m \notin net
            BY <1>1, <2>2 DEF TypeOK
        <3>2. Cardinality(net') = Cardinality(net) + 1 /\ Cardinality(net) \in Nat
            BY <1>1, <1>6, <2>2, <3>1, FS_AddElement, FS_CardinalityType DEF InTransit
        <3>3. Total(tx') = Total(tx) + 1 /\ Total(tx) \in Nat /\ Total(rx) \in Nat
            BY <1>1, <2>2, TotalPlusOne, TotalType DEF TypeOK
        <3> QED BY <1>3, <3>2, <3>3 DEF IInv, CountsBalance
    <2> QED BY <1>6, <2>1, <2>2
<1>12. LookAheadSafe'
    BY <1>1, <1>3 DEF IInv, LookAheadSafe, At, TypeOK
<1>13. InFuture'
    <2>1. ASSUME NEW j \in Ranks, NEW f \in events'[j] PROVE f.ts >= now'[j]
        BY <1>5, <1>7, <1>8, <2>1 DEF IInv, InFuture
    <2>2. ASSUME NEW m \in net, NEW j \in Ranks, m.to = j
          PROVE  m.ts >= now'[j] /\ m.ts >= granted'[j]
        <3>1. m.ts \in Nat /\ m.ts >= now[j] /\ m.ts >= granted[j]
            BY <1>1, <2>2 DEF IInv, InFuture, To, TypeOK, Message
        <3> QED BY <1>3, <1>4, <1>5, <1>7, <3>1
    <2>3. ASSUME NEW m \in out, NEW j \in Ranks, m.to = j
          PROVE  m.ts >= now'[j] /\ m.ts >= granted'[j]
        <3>1. j # i /\ m.ts >= e.ts + Delay[i][j]
            BY <1>6, <2>3
        <3>2. now[j] <= e.ts + Delay[i][j] /\ granted[j] <= e.ts + Delay[i][j]
            BY <1>4, <3>1 DEF IInv, OutOfReach, Beyond
        <3>3. now[j] \in Nat /\ granted[j] \in Nat /\ Delay[i][j] \in Nat
            BY <1>1, DelayType DEF TypeOK
        <3> QED BY <1>3, <1>4, <1>7, <1>8, <3>1, <3>2, <3>3
    <2> QED BY <1>6, <2>1, <2>2, <2>3 DEF InFuture, To
<1>14. OutOfReach'
    <2>1. ASSUME NEW x \in Nat, NEW j \in Ranks, Beyond(x, j) PROVE Beyond(x, j)'
        <3> SUFFICES ASSUME NEW k \in Ranks \ {j}
                     PROVE  /\ now'[j] <= x + Delay[k][j]
                            /\ granted'[j] <= x + Delay[k][j]
            BY DEF Beyond
        <3>1. now[j] <= x + Delay[k][j] /\ granted[j] <= x + Delay[k][j]
            BY <2>1 DEF Beyond
        <3>2. Delay[k][j] \in Nat
            BY DelayType
        <3> QED BY <1>3, <1>4, <1>5, <1>7, <3>1, <3>2
    <2>2. ASSUME NEW x \in new \union out, NEW j \in Ranks PROVE Beyond(x.ts, j)
        <3> SUFFICES ASSUME NEW k \in Ranks \ {j}
                     PROVE  now[j] <= x.ts + Delay[k][j] /\ granted[j] <= x.ts + Delay[k][j]
            BY DEF Beyond
        <3>1. now[j] <= e.ts + Delay[k][j] /\ granted[j] <= e.ts + Delay[k][j]
            BY <1>4 DEF IInv, OutOfReach, Beyond
        <3>2. Delay[k][j] \in Nat /\ now[j] \in Nat /\ granted[j] \in Nat
            BY <1>1, DelayType DEF TypeOK
        <3> QED BY <1>4, <1>8, <3>1, <3>2
    <2>3. ASSUME NEW j \in Ranks, NEW k \in Ranks, NEW f \in Pending(k)'
          PROVE  Beyond(f.ts, j)'
        <3>1. f \in Pending(k) \/ f \in new
            BY <1>6, <1>7, <2>3 DEF Pending
        <3>2. f.ts \in Nat
            BY <1>9, <2>3 DEF TypeOK, Event, Pending
        <3>3. Beyond(f.ts, j)
            BY <2>2, <3>1 DEF IInv, OutOfReach
        <3> QED BY <2>1, <3>2, <3>3
    <2>4. ASSUME NEW j \in Ranks, NEW m \in net' PROVE Beyond(m.ts, j)'
        <3>1. m \in net \/ m \in out
            BY <1>6
        <3>2. m.ts \in Nat
            BY <1>9 DEF TypeOK, Message
        <3>3. Beyond(m.ts, j)
            BY <2>2, <3>1 DEF IInv, OutOfReach
        <3> QED BY <2>1, <3>2, <3>3
    <2> QED BY <2>3, <2>4 DEF OutOfReach
<1>15. NothingLost'
    <2>1. \A j \in Ranks : pc'[j] # "done"
        BY <1>1, <1>3, NoneDone DEF TypeOK
    <2> QED BY <2>1 DEF NothingLost, At
<1> QED BY <1>9, <1>10, <1>11, <1>12, <1>13, <1>14, <1>15 DEF IInv

\* Every step, of one rank or of all, preserves the invariant.
LEMMA NextIInv == IInv /\ [Next]_vars => IInv'
<1> SUFFICES ASSUME IInv, [Next]_vars PROVE IInv'
    OBVIOUS
<1>1. CASE UNCHANGED vars
    BY <1>1 DEF vars, IInv, TypeOK, InTransit, CountsBalance, LookAheadSafe, InFuture,
                OutOfReach, Beyond, Pending, To, NothingLost, At
<1>2. CASE Allreduce
    <2>1. pc' \in [Ranks -> Places]
        BY <1>2 DEF Allreduce, Places
    <2>2. \A i \in Ranks : /\ pc[i] # "done" /\ pc'[i] # "done"
                           /\ pc[i] = "idle" <=> pc'[i] = "idle"
        BY <1>2 DEF Allreduce
    <2> QED BY <1>2, <2>1, <2>2, PlaceStep DEF Allreduce
<1>3. CASE Allgather
    BY <1>3, AllgatherStep
<1>4. ASSUME NEW i \in Ranks, RankStep(i) PROVE IInv'
    <2>1. CASE BoundLookAhead(i)
        BY <2>1, BoundLookAheadStep
    <2>2. CASE StartRun(i)
        BY <2>2, StartRunStep
    <2>3. CASE Recalculate(i)
        BY <2>3, RecalculateStep
    <2>4. CASE StartReceiving(i) \/ JoinAllgather(i) \/ NothingToProcess(i)
        <3>1. /\ pc[i] \in {"check", "loop", "receive", "execute"}
              /\ \E p \in {"receive", "gather", "loop"} : pc' = [pc EXCEPT ![i] = p]
              /\ UNCHANGED <<now, events, uid, stop, granted, lookAhead, nextUpdate, tx, rx, net>>
            BY <2>4 DEF StartReceiving, Checked, JoinAllgather, NothingToProcess, At, Goto
        <3>2. pc \in [Ranks -> Places] /\ \A j \in Ranks : pc[j] # "done"
            BY <3>1, NoneDone DEF IInv, TypeOK
        <3>3. pc' \in [Ranks -> Places]
            BY <3>1, <3>2 DEF Places
        <3>4. \A j \in Ranks : /\ pc[j] # "done" /\ pc'[j] # "done"
                               /\ pc[j] = "idle" <=> pc'[j] = "idle"
            BY <3>1, <3>2
        <3> QED BY <3>1, <3>3, <3>4, PlaceStep
    <2>5. CASE ReceiveMessage(i)
        BY <2>5, ReceiveMessageStep
    <2>6. CASE ProcessOneEvent(i)
        BY <2>6, ProcessOneEventStep
    <2> QED BY <1>4, <2>1, <2>2, <2>3, <2>4, <2>5, <2>6 DEF RankStep
<1> QED BY <1>1, <1>2, <1>3, <1>4 DEF Next

----------------------------------------------------------------------------
(* The theorems.                                                           *)

\* The inductive invariant holds in every state of the distributed simulator.
THEOREM Invariance == Spec => []IInv
BY InitIInv, NextIInv, PTL DEF Spec

\* The variables of Run and of the MPI interface have their types.
THEOREM TypeCorrectness == Spec => []TypeOK
<1>1. IInv => TypeOK
    BY DEF IInv
<1> QED BY <1>1, Invariance, PTL

\* The assertion of ProcessOneEvent never fails: whatever the number of
\* ranks, the delays and the order in which MPI delivers, no rank gets an
\* event of its past.
THEOREM Causality == Spec => []NoStraggler
<1>1. IInv => NoStraggler
    BY DEF IInv, InFuture, NoStraggler
<1> QED BY <1>1, Invariance, PTL

\* No rank is ahead of what another one has to execute by more than the
\* delay from that one to it.
THEOREM BoundedLead == Spec => []NoneRunsAhead
<1>1. IInv => NoneRunsAhead
    BY DEF IInv, OutOfReach, Beyond, NoneRunsAhead
<1> QED BY <1>1, Invariance, PTL

\* The totals that the ranks compare differ by the messages in transit.
THEOREM Balance == Spec => []CountsBalance
<1>1. IInv => CountsBalance
    BY DEF IInv
<1> QED BY <1>1, Invariance, PTL

\* All ranks leave the loop together, with nothing to execute or in transit.
THEOREM CleanEnd == Spec => []NothingLost
<1>1. IInv => NothingLost
    BY DEF IInv
<1> QED BY <1>1, Invariance, PTL

\* The clock of a rank never goes back.
THEOREM ClocksAdvance == Spec => TimeAdvances
<1>1. IInv /\ [Next]_vars => [\A i \in Ranks : now'[i] >= now[i]]_vars
    <2> SUFFICES ASSUME IInv, Next PROVE \A i \in Ranks : now'[i] >= now[i]
        OBVIOUS
    <2>1. now \in [Ranks -> Nat]
        BY DEF IInv, TypeOK
    <2>2. now' = now \/ \E i \in Ranks : ProcessOneEvent(i)
        BY DEF Next, RankStep, Allreduce, Allgather, BoundLookAhead, StartRun, Recalculate,
               StartReceiving, ReceiveMessage, JoinAllgather, NothingToProcess
    <2>3. ASSUME NEW i \in Ranks, ProcessOneEvent(i) PROVE \A j \in Ranks : now'[j] >= now[j]
        <3>1. PICK e \in events[i] : now' = [now EXCEPT ![i] = e.ts]
            BY <2>3 DEF ProcessOneEvent
        <3>2. e.ts >= now[i] /\ e.ts \in Nat
            BY DEF IInv, InFuture, TypeOK, Event
        <3> QED BY <2>1, <3>1, <3>2
    <2> QED BY <2>1, <2>2, <2>3
<1> QED BY <1>1, Invariance, PTL DEF Spec, TimeAdvances
=============================================================================
