# SAG platform: models, model checking and proofs

The platform is an ns-3 simulator extended for space-air-ground networks. Its
directories under `src/` are ns-3 modules; the logic that is the platform's own
sits in `ltp-protocol` (Licklider Transmission Protocol), `bundle-protocol`,
`mpi` (distributed simulation with a lookahead that changes as satellites move),
`bgp` with `bgp-lib`, `quic`, `scpstp`, and the mobility models `satellite` and
`earth`. The other directories are ns-3's own.

The models here follow the code, line by line where control is concerned;
`PROJECT.json` maps each definition to its lines.

## 1. Inventory

### 1.1 LTP (`src/ltp-protocol/model`)

* **Reception claims** (`ltp-session-state-record.cc`, 530-755). State: per report
  serial number a `std::set` of (offset, length) ordered *by offset alone*.
  Operations: `InsertClaim`, `CompactClaims`, `StoreClaims`, `GetClaims`,
  `FindMissingClaims`. Correct when the claims are what was received, no unit more
  or less, in normal form, and when the gaps are their complement. Hard: any order
  of arrival, repeated and overlapping claims, unsigned subtraction.
* **Segmentation** (`ltp-protocol.cc`, `EncapsulateBlockData`). A pure function of
  the red length, the block length, and the gap that is to be sent again. Correct
  when the segments tile the block, none mixes colours, and the checkpoint and
  end-of-block marks sit where the receiver waits for them. Hard: boundaries that
  fall together.
* **Sessions** (`ltp-protocol.cc`, `ltp-session-state-record.cc`). Two engines with a
  `SessionStateRecord` each: flags for red part and block finished, closed, the
  current report serial number, retransmission counts, two timers, an inactivity
  event, the red buffer. Operations: `StartTransmission`, `Receive` with its branch
  per segment type, `Send`, `RetransmitSegment`, `RetransmitReport`, `CloseSession`,
  `SignalSessionInactive`, `CancelSession`. Correct when acknowledgment is sound,
  the red part is delivered whole and once, and both records are closed in the end.
  Hard: lost segments of every type, timers racing their answers, closing that
  must wait for queues, retry limits.
* **Convergence layer adapter** (`ltp-udp-convergence-layer-adapter.cc`,
  `ltp-queue-set.cc`). State: link up, a queue of internal operations and one of
  application data, the active session id. Calls back into the protocol on each
  segment that leaves (link state cues), which arms the timers.
* **Headers, IP resolution, helper**: encoding and set-up.

The client calls `StartTransmission`; segments go into the record's queues; `Send`
events of the simulator fetch them through the adapter; the adapter's cue arms
timers and marks the end of block; the peer's `Receive` answers into its own
queues. Notices go to the client service, data also to the bundle layer through
`m_bpCallback`.

### 1.2 Distributed simulation (`src/mpi/model`)

* **Granted time window** (`distributed-simulator-impl.cc`,
  `granted-time-window-mpi-interface.cc`). N processes, each with an event list, a
  current time, a granted time, a lookahead that is read from a file again at every
  update interval, and counts of sent and received messages. They share nothing but
  MPI messages and two collectives. Correct when no rank receives an event of its
  past, and when all stop together and lose nothing. Hard: messages that are under
  way when a window is computed, the order of collectives, the end.
* **Null messages** (`null-message-simulator-impl.cc`, `null-message-mpi-interface.cc`,
  `remote-channel-bundle*.cc`). The other synchroniser: no collectives; a rank runs on
  until its next event is later than its safe time, the least of what its neighbours
  guarantee. A guarantee comes with every packet and, at intervals, with a null message.
  Correct when guarantees are kept, nothing comes from the past, and nobody waits for
  ever. Hard: guarantees computed in the middle of an event, circular waiting, the end.

### 1.3 Bundle protocol (`src/bundle-protocol/model`)

State: registrations, a store of bundles to send per source and one of received bundles
per destination, one reassembly buffer, and a convergence layer: TCP
(`bp-tcp-cla-protocol.cc`, one connection per source endpoint) or LTP
(`bp-ltp-cla-protocol.cc`). Operations: `Register`, `Send` with fragmentation,
`SendPacket` of the convergence layer, `ReceivePacket`, `RetreiveBundle`,
`ProcessBundle`, `Receive`, `Close`. `SendPacket` does not send the bundle it is given
but calls back for the oldest of the same source. Correct when the bundles of a source
arrive in order, whole and once, or not at all. Hard: segments that end anywhere, a
buffer fed by several connections, sockets that refuse.

### 1.4 BGP (`src/bgp`, `src/bgp-lib/libbgp`)

`Bgp` (sockets, peers, periodic reconnection), `BgpFsm` (session states, hold timer,
collision resolution), `BgpRib4`, `RouteEventBus` (calls to all subscribers). Correct
when of two colliding sessions exactly one survives and when withdrawn routes vanish
from every neighbour. Hard: both ends decide alone; callbacks while iterating.

### 1.5 Visualizer (`src/visualizer`)

Two threads. `SimulationThread` waits for an event, `go`, takes the lock and runs the
simulator to a target time; the GTK main loop has a timer (`update_view_timeout`) that
takes the lock, shows the model, sets the next target and sets `go`, idle functions
(`update_model`) that the simulation thread queues, and clicks. A handler that finds
the lock taken runs the main loop itself, so that handlers nest. A few handlers
(`autoscale_view`, the tooltip of a Wi-Fi link, the count of nodes in
`set_show_transmissions_mode`) read the model without the lock. Correct when the lock keeps
apart those that take it, no message of a paused simulation is lost, playing
goes on, pausing stops it and closing the window ends it. Hard: timers that are removed
and replaced below a handler that will return, leftovers of `go`, joining a thread that
waits for a lock.

### 1.6 The rest

`core` (event list, `Cancel`/`Remove`/`IsExpired`), `quic` (streams, packet number
spaces, acknowledgments), `scpstp` (TCP with selective negative acknowledgments),
`satellite` and `earth` (floating-point orbits; no state machine), and the ns-3
modules. `PROJECT.json` lists them all with their status, and under `hazards` what
in this code a test hardly reaches.

## 2. Modules

| module | what it is |
|---|---|
| `LtpClaims` | operators for reception claims |
| `LtpSegmentation` | `EncapsulateBlockData` and the segment types |
| `MCLtpData` | both over bounded data: any order of claims; every block and every gap |
| `LtpSession` | one session: both engines, adapters, the lossy path; uses the two above |
| `LtpDelivery` | abstract: reliable delivery of the red part |
| `MCLtpSession` | instances for TLC |
| `DataLemmas` | least and greatest numbers, functions defined step by step, flattened sequences, for the proofs |
| `LtpData_proofs` | what the operators of `LtpClaims` and `LtpSegmentation` return, for every claim set and every block |
| `MCLtpData_proofs` | the five invariants of `MCLtpData`, for every size |
| `LtpSession_proofs` | all safety properties of `LtpSession`, and that it implements `LtpDelivery` |
| `DistributedSimulator` | N ranks in `Run`, with the MPI interface |
| `MCDistributedSimulator` | instances for TLC |
| `DistributedSimulator_proofs` | all safety properties of `DistributedSimulator` |
| `NullMessageSimulator` | N ranks that are synchronised by guarantees |
| `MCNullMessageSimulator` | instances for TLC |
| `NullMessageSimulator_proofs` | guarantees and causality for every topology with one channel per pair of ranks |
| `Visualizer` | the two threads, the lock, timers and nested handlers |
| `Visualizer_proofs` | types, the lock, the lead of the model over the view, the timer, the messages |
| `BundleProtocol` | sources, TCP connections, the receiver and its buffer |
| `BundleDelivery` | abstract: bundles in order, at most once |
| `BundleProtocol_proofs` | types, and that the receive buffer is worked off |

### 2.1 LTP

`LtpClaims` holds a set of claims as a function from offset to length, which is what
a `std::set` that compares offsets is: a second claim with the same offset is not
inserted (`Insert`), and the order of the set is that of the offsets (`Ascending`). `FindMissingClaims` subtracts modulo `WordMod` (64 in the runs, 2^32 in the
code; the runs need only that it exceeds twice any block).

`LtpSegmentation` counts in units, `Capacity` of which fit into a segment behind its
headers; a unit is a byte, the capacity is small; `SegmentLength` and `SegmentType` are the two branches of the loop over a block,
`EncapsulateSegment` what it builds from them. In the code the capacity depends on the encoded size of offsets and serial
numbers; that dependence is left out (a hazard without a property).

`LtpSession` has one action per event of the simulator: `StartTransmission`, `Send`,
`SetLinkUp`, `CheckpointTimeout`, `ReportTimeout`, `ClosePostponed`,
`SessionInactive`, and for each kind of arriving segment one branch of
`LtpProtocol::Receive` (`ReceiveData`, `ReceiveReport`, `ReceiveReportAck`); `Lose` is
the path. `ssr[e]` is the session state record of engine `e`, `ops` and `app` its two
queues, `red` the receiver's red buffer, `wire` the datagrams under way.

* `sending[e]` says that at least one `Send` event is scheduled. The code may have
  several; each of them does the same and re-schedules itself while segments are
  left, so one stands for all.
* `Send` does not test the link, as in the code; nothing in the repository takes a
  link down (the link-down callback is not set by the helper), so it only comes up.
* `CheckpointTimeout` and `ReportTimeout` may happen at any moment if
  `TimersOutliveAnswers` is FALSE. The code computes a timer as twice the one-way light
  time plus twice the local delays plus one second, so that with delays set right the
  answer is first; TRUE states that. `CloseComesFirst`: a postponed `CloseSession` is
  due after `m_localDelays`, sooner than any timer.
* `Crash(e)` is the end of the process, and `crashed` says in which engine it came. The sender
  crashes when it copies up to 2^32 bytes from behind its copy of the red part, which it does
  only after the wrapped subtraction. The receiver crashes in `AddReceptionClaim`
  (`ltp-header.cc` 1073-1085, `NS_FATAL_ERROR`), before a report is queued, unless the claims
  are longer than one byte, in order, apart, and within the bounds of the report, 0 and
  the highest end received (`Accepted`; `high` is `m_highBound`, `Raised` is `SetHighBound`).
* A claim of one byte is all there is to report when the red part's last segment has one byte
  and the one before it is lost: the code ends there. The sizes of the runs, segments of three bytes
  and red parts of 5 or 11, leave two bytes for the last segment, so that the runs show what the
  session does when it can go on; `ReportsAccepted` says that nothing else ends the receiver.
* `LtpSessionAssumption` asks for a block shorter than 2^32 (`BlockLen < WordMod`), as the code's
  32-bit claim lengths do.
* A block is one session. `CancelSession`, the cancellation segments, suspension
  by a link that goes down, and several sessions on one adapter are not modelled.

`LtpDelivery` is the promise: units arrive, the whole red part is given to the client
once, the sender may count it as acknowledged only when all of it has arrived.
`ImplementsDelivery` maps `held` to what the receiver has stored or given, `given` to
the first RED_PART_RCV notice, and `acked` to the sender's red-part-finished flag.

### 2.2 Distributed simulation

`pc[i]` says where rank `i` is in `Run`; between two MPI calls a rank touches only its
own variables, so what it does there is one action. `Allreduce` and `Allgather` are
steps of all ranks at once. A message is in `net` from `MPI_Isend` until
`MPI_Testany` returns it; any message may be next. `JoinAllgather` may be taken while
messages are under way: `MPI_Testany` then does not see them.

* `StartRun` is a `Run` that begins at time 0. A second `Run`, begun later, would start with the next
  update one nanosecond earlier (`distributed-simulator-impl.cc` 441-443); it is left out.
* One event that is executed schedules at most one event of its own rank and sends at
  most one packet; an event that does more is a chain of events with the same time.
* A cancelled event is one that does nothing; `Remove` and the destroy list do not
  reach another rank and are left out.
* `NextTs` of a rank that is finished is `MaxTime`. `nextUpdate` saturates at `Horizon`,
  which is exact, since no event is later.
* The result of `MPI_Allreduce` in `CalculateLookAhead` is used only for a rank whose
  lookahead is the maximum time; `std::stoi` cannot return that. With one rank the
  lookahead is zero, as in the code.
* `CalculateLookAhead` also sets the granted time to the lookahead, an absolute time;
  after the start this only makes the window smaller.
* `LookAheadAssumption`: the lookahead file of a rank says no more than the delay of any
  channel that leads to it. The files are written by the platform's Python tools from
  the same positions as the delays. The theorems rest on it.
* The counts are natural numbers; in the code they are 32 bits wide, and as only their
  equality is tested a wrap does not matter while fewer than 2^32 messages are in transit.

### 2.3 Null messages

Ranks share only the messages in `net[n][r]`, a sequence per ordered pair since MPI does
not reorder the messages of one sender. `ProcessOneEvent` takes the next event. If it calls
the simulated nodes, the rank stays in it (place "event"), and what the nodes do are steps
of their own: `Schedule` an event, `TransmitStart` on an idle device, in any order and
number. Then the rank tests for messages, one in a step of `ReceiveNonBlocking`, until
`MPI_Testany` finds none (`StopReceiving`, which computes the safe time; a message may be
under way all the same). When its next event is past the safe time, it waits for a message
(`ReceiveBlocking`) and computes the safe time after each.

* `MaxWork` bounds what the nodes of a rank schedule and send. `events` is a set: two calls
  of one time are one, which may do what both do.
* `busy` is what `PointToPointNetDevice` keeps: a device transmits one packet at a time, and
  takes the next in the event that ends the last one. That is why packets on *one* channel
  cannot break the guarantee, and packets on two channels can (finding 3).
* `GuaranteeTime` is evaluated on the queue as it is when `SendPacket` is called: after the
  end of this transmission is scheduled, before anything later in the same event.
* Every rank schedules its stop before `Run`. Events of the stop time or later never
  execute and are not kept (`Scheduled`). Events of one time are taken in any order,
  with the stop first, since it was scheduled first.
* A cancelled null-message event stays in the queue and does nothing, as in the code.
* `NullMessageAssumption` asks that the interval of null messages does not round to zero.

### 2.4 Visualizer

`sim` is the place of the simulation thread in `run`, `stack` the handlers of the view
thread that have been called and have not returned. A handler is split wherever the
other thread can come between: at the lock, at `go`, and at what both threads touch.

* `Gtk.main_iteration` inside `update_view_timeout` is the place "events": a source may be
  dispatched there, and its handler is put on top.
* `timers` are the live GLib sources; an identifier is never used twice, so the number of
  the click that made the timer gives its identifier (`NewId`); the first one is that of the
  timer that `create_gui` starts by calling `_speed_changed` (1046). Removing one that is gone only warns.
  `_update_timeout_id` may name a timer that is not the one that returns: the code sets it
  to `None` whichever timer ends, and the model does the same.
* A period takes no real time; a timer may be dispatched whenever none of its handlers is
  on the stack. Idle functions come first, by their priority.
* `PyViz::Pause` records a message and does not end the round: `RunUntil` is one step
  with any number of messages, up to `MaxMessages` in all.
* `RunUntil` may end before the target: a script may have scheduled `Simulator::Stop`.
* Handlers that touch the model wait for the lock, and while they do the main loop does not run:
  `set_nodes_of_interest` ("touch"), `update_model` ("model"), and others that change none of the
  variables, which `Query` calls as "model": the tooltip of a node (223-283), dragging a node
  (1592-1630), the window with the last packets and other information windows (1692-1699).
* Handlers that read the model without the lock are "count" (`NodeList::GetNNodes` at 781, before
  `set_nodes_of_interest`) and "reading" (`autoscale_view` 1507-1541, called once by a timer of
  200 ms; the tooltip of a Wi-Fi link, `plugins/wifi_intrastructure_link.py` 89-105, called by
  `_canvas_tooltip_cb`; the constructor of `show_last_packets.py` 112; `has_mobility` 495-510). They
  count as clicks, come at any moment, also in the middle of a round, and change nothing, so no
  property claims that they are safe. Whether they race with the simulator in fact depends on
  the interpreter's lock: it is assumed that the bindings release it during
  `SimulatorRunUntil`, since the two threads would otherwise exclude each other.
* An `update_view` that raises is left out: the `finally` would release the lock (1443), GLib would
  drop the source, and the messages taken would be lost.
* The simulation runs up to `MaxTime`, a bound of the model: a target never exceeds it.

### 2.5 Bundles

`Send` is one step: the loop over the fragments with its calls of the convergence layer,
two for the first (`StoreAndSend`), is the recursive function in `AfterSending`. A bundle on the wire is a sequence of
units, each with the bundle it is of and its place in it, so that the model can tell what
was cut out of the buffer from what was sent.

* TCP is modelled by how the convergence layer uses it: `Accepts` is `TcpSocketBase::Send`
  (refused when the connection failed or the rest of the send buffer is too small), data
  are queued while connecting, and a connection that nobody listens for fails.
* When the front of the buffer is not the beginning of a bundle, the length and the
  destination read there can be anything (`Totals`, `ReadDest`).
* `RetreiveBundle` takes the length from both headers in the buffer if there is more than an empty
  header takes; `DefaultHeader` is that size, `HeaderSize` the real one.
* All destinations are on one node, all sources on others. Sources are registered.

`BundleDelivery` is the promise: a queue per source from which bundles may be dropped, and
whose first may be stored once for its destination. `ImplementsService` maps the queue to
what has begun in the buffer, the stream and the store, in this order.

## 3. Runs

| run | question | bounds |
|---|---|---|
| `ltp_data` | do the claims of segments lose or invent anything, are the gaps the complement; do segments tile a block, keep colours apart and ask for reports | every cut of 7 units in every order and repetition; every interval of 5 units, overlapping; blocks up to 13 units, segments of 2: every red length and gap |
| `ltp_session` | exact claims, reports that are taken, client data, refinement of the delivery service | segments of 3, red 11, green 2: four red segments, gaps in front and between; two losses of any segment, two retries |
| `ltp_early_timers` | closing, timers, queues and soundness when a timer may expire at any time | segments of 3, red 5, no green part; one loss, retries 2 and 1 |
| `ltp_progress` | liveness | segments of 3, red 5, green 3; data segments are lost, three times, four retries |
| `mpi_two_ranks` | all safety properties with lookahead files that change, and the end | 2 ranks, times up to 3, updates every 1, so that one falls between two events |
| `null_messages` | guarantees, causality, the end | 2 ranks, delay 3, stop at 7: two null messages and an answer to an answer; two calls or packets of each rank |
| `visualizer` | one thread at a time inside the lock, drift, messages, timers, pause and quit | two periods, end at 3, three clicks or tooltips: enough for play, speed and pause to meet below one waiting handler; one message; one set of nodes, as no property looks at which one |
| `bundle` | refinement of the service, the chain of events, arrival | one source, two destinations of which one is routed; three bundles, packets of two; a send buffer for one bundle and a part |

Four more runs are expected to find a violation (below).

Each bound is chosen so that the case in question occurs: a red part of 5 or 11 ends
within a segment of 3, and its last segment has the two bytes that a claim needs; a loss of the first or the last segment gives a gap in front or at
the end; two losses hit a report and its repetition; the time of the ranks is long
enough for a window to be granted, used and left, or for a guarantee to be used and
renewed; a segment of a stream can end inside either header, and hold more than a bundle.
Each passing property has a mutant, an operator named `Bug...` beside the one it
changes, under which TLC finds it violated.

Deadlock is not checked, since every one of these systems stops: a session at rest, a
simulation that is over or out of messages to send (`MaxNew`, `MaxSent`, `MaxWork`), ranks in
collectives that do not match, a view without a click, a node without a packet. That
nothing stops too early is what the liveness properties and `NothingStalls`,
`NoSilentStop`, `NoBundleStuck` and `PlayingTicks` say.

Four runs show where the code does not do what a comment, a header or a test says;
`findings` in `PROJECT.json` quotes each.

1. `ltp_outside_red` (`MissingWithinRed`): reports repeated under one serial number with
   newer claims leave overlapping claims at the sender; the gap between them wraps. Every claim in the run is of
   two bytes or more, so that no report ends the receiver before.
2. `mpi_collectives` (`TasksSynchronise`): a rank may be in `MPI_Allreduce` while another is
   in `MPI_Allgather`. Which of the two MPI does then is undefined; the model lets both
   wait (`Split`). The safety properties hold nevertheless, and `Ends` says that a
   simulation ends unless it is split.
3. `null_two_links` (`GuaranteeHonoured`): with two channels between the same two ranks,
   a packet can arrive before the time that another one, sent by the same event, has
   guaranteed.
4. `bundle_two_sources` (`BundlesIntact`): the segments of two senders interleave in the one
   receive buffer, and bundles are cut out that nobody sent.

More were noticed while modelling, are in the models as the code has them where they are
modelled, and have no run:

* LTP: a red part that ends with a full segment has no checkpoint (`ltp-protocol.cc` 1175),
  so nobody reports it; the session runs therefore use red parts that end inside a segment.
  A report with a claim of one byte ends the simulation (`ltp-header.cc` 1073-1085). If a green part
  follows such a red part, `endOfRedPart` is never set either and the green segments before the
  last go out as red ones: the receiver then holds "red" data outside the red part. A report
  that reaches a closed session is not acknowledged (609), so the receiver repeats it to its
  limit. In a gap that starts late in the block every retransmitted segment is a checkpoint,
  not only the last (1204 compares an offset in the block with the length of the gap). The
  segment that creates a session does not start its inactivity event (615).
* `Run` overwrites the bound given to `BoundLookAhead` (`distributed-simulator-impl.cc` 434).
* Null messages: a tuning that rounds the interval to zero repeats them for ever; without
  a stop event `Next` is asked for the head of an empty queue; a rank that stops before its
  neighbour leaves it waiting.
* Visualizer: the handlers that read the model without the lock (2.4); "signal emitted after every simulation period" (`core.py` 711) is only queued, so
  the next round may start before it; two timers may be live when one
  that ends forgets the identifier of the other; a `go` left over runs one more round after a pause.
* Bundles: a bundle is lost when `Socket::Send` refuses it (`bp-tcp-cla-protocol.cc` 128); the
  connection depends on the source only (95), so a destination on another node gets
  nothing; every full fragment of a packet has the same offset (`bundle-protocol.cc` 259).

### Fairness

LTP: `WF(crashed = {} /\ Event)`: the simulator takes the next event until its list is empty,
and a datagram that is not lost arrives. `SetLinkUp` is one of those events (the
helper schedules the activation of the link). Losses are not fair, and bounded.
`SenderLearns` and `AllClose` are claimed for losses of data segments only: a lost report
or acknowledgment can lead to finding 1 or to reports that nobody acknowledges.

MPI, both simulators: weak fairness of the collectives and of every rank's own steps
(processes run); in the granted-window simulator strong fairness of `ReceiveMessage` (a
message that was sent is seen by `MPI_Testany` if the receiver asks again and again).
In the null-message simulator weak fairness of a rank's steps is enough, as
`MPI_Waitany` returns when something has come. `BoundLookAhead` is a call of the user and not fair.

Visualizer: weak fairness of each thread, of idle functions and of timers that are due;
strong fairness of `NoEventPending`, since timers are due at intervals of 100 ms or more and
the inner loop finds nothing pending in between. Clicks are not fair.

Bundles: TCP connects and delivers, the simulator runs scheduled events. Sending and
receiving by applications are not fair.

## 4. Theorems

All hold for every value of the constants that satisfies the assumptions
`SimulatorAssumption`, `LookAheadAssumption`, `NullMessageAssumption`,
`LtpSessionAssumption`, `CapacityAssumption`, `WordModAssumption`, `MCLtpDataAssumption`,
`VisualizerAssumption` and `BundleAssumption`. Four conditions are hypotheses of single
theorems, since the code breaks the property without them; on an instance that does not meet
the condition TLC finds a counterexample:

* `OneChannel` (guarantees and causality of the null messages): no two remote channels join
  the same two ranks. Without it, finding 3.
* `RedEndsApart` (data of a session): no green part follows a red part that ends with a full
  segment. Otherwise green segments are sent as red ones (see above), and claims, reports and
  red data are no longer about the red part.
* `~Multiple(RedLen)` (`NoSilentStop`): the red part does not end with a full segment.
  Otherwise it has no checkpoint, and the sender waits for nothing.
* `NoSingleByte` (`ReportsAccepted`, with `RedEndsApart`): no segment of the red part is of one byte.
  Otherwise a claim may be, and `AddReceptionClaim` ends the process.

All invariants of all passing runs are proved; so are `TimeAdvances` and the refinement
`ImplementsDelivery`.

`DistributedSimulator_proofs`: `TypeCorrectness`, `Causality` (`NoStraggler`), `BoundedLead`
(`NoneRunsAhead`), `CleanEnd` (`NothingLost`), and, of what no run checks, `Balance`
(`CountsBalance`) and `ClocksAdvance` (`TimeAdvances`), from `Invariance`:

    IInv == TypeOK /\ InTransit /\ CountsBalance /\ LookAheadSafe
            /\ InFuture /\ OutOfReach /\ NothingLost

* `NoStraggler` is not inductive: it says nothing of the messages another rank is about
  to send. `OutOfReach` bounds them: whatever a rank has still to execute, or will
  receive, is by no more than the delay of the channel before the time another rank may
  reach. `InFuture` adds that windows and clocks stay behind what is pending.
* The step that matters is `Allgather`. A window is granted only if the totals agree; by
  `CountsBalance` the net is then empty, so that the smallest next event of all ranks
  bounds everything that is still to come, and by `LookAheadSafe` the lookahead adds no
  more than a delay. Without the counts the step would not preserve `OutOfReach`.
* `CountsBalance` sums over the ranks. A sum is a recursive function; what it needs is
  that changing one rank by one changes the total by one. Induction with an operator
  argument is not available to the provers, so the lemmas derive it from the well-foundedness of
  inclusion between finite sets (a least rank at which a claim fails).

`NullMessageSimulator_proofs`: `Honesty` (`GuaranteeHonoured`), `Foresight`
(`GuaranteeAhead`) and `Causality` (`NoStraggler`), from `Invariance`:

    IInv == Typed /\ Local /\ Channels

* A guarantee is given in the middle of an event, for a future the rank has not seen.
  `Channels` says what makes it good. A guarantee `g` of `n` for `r`, held or under way, is no
  later than the safe time of `n` plus the delay; and until `g` less the delay either `n` is
  *quiet*, so that all it executes before are null messages, or the channel is *occupied*,
  so that nothing can be sent on it. In both cases the next packet arrives at `g` or later.
* `TransmitStart` keeps it: what the channel had promised as a quiet rank is now promised by
  its being occupied, or the null message event, which lies within its interval
  (`NullAhead`) and the interval within the delay, has limited the promise. The end of the
  transmission is an event of the queue, so an occupied channel turns quiet again when it
  is executed. This is where `OneChannel` is needed: a second channel of the pair is not
  occupied by the first, and finding 3 is the counterexample.
* `Local` keeps clock, queue and safe time of a rank in order; `Kept`, a part of `Channels`, says
  that the guarantees of one channel grow, from which the safe time never falls.
* A safe time and a guarantee are minima; `DataLemmas` derives that a set of natural
  numbers has one from the well-foundedness of the order.
* `NullMessageTypes` (`TypeOK`) does not need `OneChannel`: what it carries along is that the stop
  is in the queue until it is executed, that nothing in a queue is later, and where a message
  under way is addressed to.

`LtpData_proofs` says what the operators of claims and segments return, and the proofs about
sessions use only that:

* `InsertClaimExact`: in claims that are in normal form, inserting a span that is apart from
  what is there, or already in it, adds its units and nothing else, and leaves normal form.
  `CompactClaims` merges runs; `RunTouches` and `EveryClaimInRun` say that the runs partition
  the claims. `InsertClaimBounds` is what remains for *any* claim: nothing is invented.
* `MissingBytes`, `NothingMissing`: the gaps are the complement below the last claim, and
  there are none only if the claims have no hole from 0 on. The 32-bit subtraction is exact
  since both ends are within the block.
* `StoreClaimsWhole`: a report stored under a number that had no claims is stored whole; the
  loop does not break off. `StoreClaimsBounds` is for a number that has claims.
* `BlockIsCut`, `BlockSegments`: the loop of `EncapsulateBlockData` ends, its segments follow one
  another, and their types are as their offsets say.

What is defined by a recursive function over a bounded range needs induction over numbers,
which `AllNat` of `DataLemmas` gives without an operator parameter: a set of numbers with 0
and with the successor of each of its members holds them all. `StepsExist` gives the function.

`MCLtpData_proofs`: `NothingInvented`, `NothingForgotten` and `MissingIsTheRest` from `ClaimsInv`
(claims in normal form, exactly what was received, if the pieces are apart; within what was
received in any case), `BlockIsTiled` and `GapIsFilledAndReported` from the lemmas on segments. The first has
a checkpoint exactly where a red part ends inside a segment, the second no other than the last one in a
gap at the start: further the code does not go (see the list in section 3).

`LtpSession_proofs`, each invariant on top of the ones before:

* `NoStall` (`NothingStalls`), by `QInv == Shape /\ NothingStalls`: every handler that queues a
  segment also schedules `Send` when the link is up, `Send` schedules itself while something
  is left, and the cue of a link that comes up sends what was queued before.
* `SessionTypes` (`TypeOK`), by `TypeInv`: what is in queues and on the path is a data segment, a
  report or an acknowledgment of *this* block: it begins and ends (offset plus length) within it, and
  so does every claim that is filed, reported or armed with a timer. The retransmission counters stay within
  their attribute because a handler looks before it counts, and a retransmitted segment stays
  within the block because gaps are cut to it or the sender has crashed.
* `QueueEmptyTheorem`, `NoTimerTheorem`, by `Closing`: a closed session has empty queues and nothing
  to wake it; a sender that has sent the block and learned of its red part has been told to
  close; and, what makes it inductive, as long as the end of the block is queued either the
  red part is unreported, or no checkpoint is queued behind it.
* `ClaimsExactTheorem`, `ReportsReachEndTheorem`, `AckSoundTheorem` and `RedPartIntactTheorem`, by
  `DataInv`, under `RedEndsApart`. A red segment under way is a piece of the red part
  as it was first cut; a report under way, or in a timer, claims only what is held and
  claims the end; what the sender has filed under a report number is within what is held, too,
  so that gaps may be stale but acknowledgment is not. The receiver's claims are exactly its
  buffer. *Piece* is what makes it inductive: gaps begin and end where segments did, so a
  retransmission is cut at the same offsets (`GapCut`, `AgainPieces`), and a claim that comes
  twice is in the record or apart from it.
* `HandedUpTheorem` (`HandedUp`), under `RedEndsApart`, by `HandedInv`: what is in the red buffer was handed
  up as well; with `AckSound` that covers what the sender takes as acknowledged.
* `ReportsAcceptedTheorem` (`ReportsAccepted`), under `RedEndsApart` and `NoSingleByte`: claims in normal
  form are in order and apart; each covers a whole segment (`PieceCovered`), so it is longer than
  one byte; and all of them end at or below `high`, which only grows (`WholeAccepted`, `Reporting`).
* `DeliveryTheorem` (`ImplementsDelivery`), from the same invariant: storing a red segment is
  `Arrive`, the first RED_PART_RCV is `Give`, the report that leaves no gap is `Acknowledge`,
  every other step is a stutter.
* `NoSilentStopTheorem` (`NoSilentStop`), by `Busy`: while an open session waits for its red part,
  a timer runs or a checkpoint is queued whose cue will arm one. A retransmission ends
  with a checkpoint whichever gap it fills.

`Visualizer_proofs`: `LockHeld`, from `LockInv`: the lock is "sim" exactly while the simulation
thread is between acquire and release, and "view" exactly while the innermost handler is
where it holds it. What makes it inductive is `Nested`: every handler below the
innermost waits in the main loop, so none of them is inside the lock. `ThreadSafety`
(`LockKeepsApart`) follows: no handler is inside the lock together with a round or with
another handler. It says nothing of the handlers that take no lock. `BoundedAhead` (`NeverAhead`) from `AheadInv`: the target, too, is at
most a period ahead of the view; only `UpdateView` moves it, and only together with the view.
`TimerWhilePlaying` (`PlayingTicks`) is inductive. `EveryMessageShown` (`MessagesKept`) and
`VisualizerTypes` (`TypeOK`) come from `MessageInv`, which counts the messages that open handlers
carry handler by handler and not as a sum: only the handler on top changes its count.

`BundleProtocol_proofs`: `WorkedOff` (`NoBundleStuck`) for any number of sources and any cut of
the streams. The number of events goes down only when `RetreiveBundle` finds less than a
bundle, and what it finds is all of the buffer at that moment. `BundleTypes` (`TypeOK`), from
`TypeInv`, which adds that the maps of queues are functions: `AfterSendingTyped` follows the loop
over fragments and has each bundle take the next sequence number below the bound, and no
bundle enter a stream that has no room for it.

Only model-checked: the liveness properties (`SenderLearns`, `AllClose`, `Ends`, `AllEnd`,
`PauseRests`, `QuitEnds`, `BundlesArrive`), which need fairness and ENABLED, and the refinement
`ImplementsService`, whose mapping filters sequences with `SelectSeq`: the provers know
nothing of what that returns.

## 5. Plan

What is left, in this order; what matters most to the platform's results comes first.

| step | modules | abstract specification, composition | runs and bounds | theorems |
|---|---|---|---|---|
| 1 | `BundleProtocol_proofs` extended | `BundleDelivery`, its queue described without `SelectSeq` | `bundle` | `ImplementsService` for one source |
| 2 | `LtpCla` | two sessions over one adapter; each should be a session of its own | two blocks of one red and one green segment, one loss | no segment leaves under another session's timer, or where that fails, a run that shows it |
| 3 | `BundleProtocol` over `LtpSession` | `BundleDelivery`; the byte stream replaced by the notices of the session | one bundle of two segments, one loss | none |
| 4 | `BgpFsm`, `BgpRib` | two speakers agree on at most one session; routes of a closed session are withdrawn | two speakers, two connections, one hold-timer expiry; three speakers, one prefix | type correctness and the agreement |
| 5 | `EventList` | `Cancel`, `Remove`, `IsExpired` against a set of pending events | three events | the order of execution |
| 6 | SCPS-TP, QUIC | negative acknowledgments; stream and connection states | one stream, two losses | to be seen |

For step 1: the invariant needed says that the buffer followed by the stream of the one source
is the concatenation of the units of a sequence of bundles with ascending numbers, less a
part of the first; with it the bundles that have begun can be named without a filter.

## 6. Not modelled

Encodings, sockets, logging, helpers; floating-point mobility; ns-3's own protocols;
tools, bindings and bridges to outside software. The reasons stand with each component in
`PROJECT.json`.

The platform's logic is in C++. Of the Python in the repository nearly all lines are
bindings that a generator wrote (`src/*/bindings/modulegen__gcc_*.py`: declarations of
C++ classes, without any behaviour), so a share of Python lines says little about how much of
the system is modelled; the visualizer is the part of the Python that has state and
concurrency.

Beyond the reach of the provers here: fairness and ENABLED, induction over data given as an
operator, and modules with RECURSIVE operators.
