----------------------------- MODULE Visualizer -----------------------------
(***************************************************************************)
(* The two threads of the visualizer: SimulationThread runs the model from *)
(* target time to target time, and the view thread is the GTK main loop    *)
(* with its timers, idle functions and clicks.  They share a lock, the     *)
(* event go, and the fields of the simulation thread.                      *)
(*                                                                         *)
(* While update_view_timeout waits for the lock it runs the main loop, so  *)
(* that its callers and other handlers nest: stack holds the handlers that *)
(* have been called and have not returned, the innermost last.             *)
(***************************************************************************)
EXTENDS Integers, Sequences, FiniteSetsExt

CONSTANTS
    Periods,      \* sample periods, one for each setting of the speed
    Nodes,        \* sets of nodes of interest
    MaxTime,      \* bound: end of the simulated time
    MaxMessages,  \* bound: calls of PyViz::Pause
    MaxClicks     \* bound: clicks, tooltips and the like

ASSUME VisualizerAssumption ==
    /\ Periods \subseteq Nat \ {0}
    /\ \E p \in Periods : \A q \in Periods : q <= p
    /\ Nodes # {}
    /\ MaxTime \in Nat
    /\ MaxMessages \in Nat
    /\ MaxClicks \in Nat

VARIABLES
    sim,            \* where SimulationThread.run is
    lock,           \* who holds simulation.lock
    go,             \* simulation.go
    quit,           \* simulation.quit
    target,         \* simulation.target_time
    pauseMessages,  \* number of simulation.pause_messages
    now,            \* Simulator::Now
    helper,         \* number of PyViz::m_pauseMessages
    interest,       \* PyViz::m_nodesOfInterest
    stack,          \* handlers under way in the view thread
    play,           \* the play button is active
    timers,         \* GLib: live sources that call update_view_timeout
    timeoutId,      \* _update_timeout_id, 0 for None
    idle,           \* GLib: idle sources that call update_model
    period,         \* sample_period
    shown,          \* the time that update_view has shown last
    dialogs,        \* number of messages shown in dialogs
    raised,         \* number of messages there have been
    clicks          \* clicks there have been

simVars == <<sim, now, helper, raised>>
viewVars == <<stack, play, timers, timeoutId, period, shown, dialogs, clicks>>
vars == <<simVars, viewVars, lock, go, quit, target, pauseMessages, interest, idle>>

(***************************************************************************)
(* A handler is where it is and what it has in its local variables: the    *)
(* source that called it, messages to be shown, an argument.               *)
(***************************************************************************)
Handler(at, source, messages, arg) ==
    [at |-> at, source |-> source, messages |-> messages, arg |-> arg]

SimPlaces == {"loop", "wait", "clear", "check", "acquire", "enter", "running", "post", "release", "end"}

\* update_view_timeout: spin, events, take, show, release, return.  Others:
\* model and touch wait for the lock, modelling and touching hold it, count and
\* reading read the model without it.
ViewPlaces == {"spin", "events", "take", "show", "release", "return", "model", "modelling",
               "count", "touch", "touching", "reading", "quit", "wake", "join"}

Top == stack[Len(stack)]
TopAt(place) == stack # <<>> /\ Top.at = place
Step(place) == stack' = [stack EXCEPT ![Len(stack)].at = place]
Call(handler) == stack' = Append(stack, handler)
Done == stack' = SubSeq(stack, 1, Len(stack) - 1)

----------------------------------------------------------------------------
(* SimulationThread.run.                                                   *)

SimStep(from, to) == sim = from /\ sim' = to

Loop ==
    /\ SimStep("loop", IF quit THEN "end" ELSE "wait")
    /\ UNCHANGED <<viewVars, now, helper, raised, lock, go, quit, target, pauseMessages, interest, idle>>

Wait ==
    /\ go
    /\ SimStep("wait", "clear")
    /\ UNCHANGED <<viewVars, now, helper, raised, lock, go, quit, target, pauseMessages, interest, idle>>

Clear ==
    /\ SimStep("clear", "check")
    /\ go' = FALSE
    /\ UNCHANGED <<viewVars, now, helper, raised, lock, quit, target, pauseMessages, interest, idle>>

CheckQuit ==
    /\ SimStep("check", IF quit THEN "end" ELSE "acquire")
    /\ UNCHANGED <<viewVars, now, helper, raised, lock, go, quit, target, pauseMessages, interest, idle>>

Acquire ==
    /\ lock = "free"
    /\ SimStep("acquire", "enter")
    /\ lock' = "sim"
    /\ UNCHANGED <<viewVars, now, helper, raised, go, quit, target, pauseMessages, interest, idle>>

\* (Mutant: the messages of the round before are kept.)
BugCleared == helper

Cleared == 0

\* SimulatorRunUntil drops the messages of the round before ...
EnterRunUntil ==
    /\ SimStep("enter", IF now >= target THEN "post" ELSE "running")
    /\ helper' = Cleared
    /\ UNCHANGED <<viewVars, now, raised, lock, go, quit, target, pauseMessages, interest, idle>>

\* ... and runs the model, which may call PyViz::Pause: that records a message
\* and does not end the round.  A Simulator::Stop of the script does.
RunUntil ==
    /\ SimStep("running", "post")
    /\ now' \in now .. target
    /\ \E n \in 0 .. MaxMessages - raised :
          /\ helper' = helper + n
          /\ raised' = raised + n
    /\ UNCHANGED <<viewVars, lock, go, quit, target, pauseMessages, interest, idle>>

\* (Mutant: the messages replace those that have not been shown yet.)
BugExtended == helper

Extended == pauseMessages + helper

Post ==
    /\ SimStep("post", "release")
    /\ pauseMessages' = Extended
    /\ idle' = idle + 1
    /\ UNCHANGED <<viewVars, now, helper, raised, lock, go, quit, target, interest>>

Release ==
    /\ SimStep("release", "loop")
    /\ lock' = "free"
    /\ UNCHANGED <<viewVars, now, helper, raised, go, quit, target, pauseMessages, interest, idle>>

Sim == Loop \/ Wait \/ Clear \/ CheckQuit \/ Acquire \/ EnterRunUntil \/ RunUntil \/ Post \/ Release

----------------------------------------------------------------------------
(* The main loop: a source may be dispatched by Gtk.main, or by            *)
(* update_view_timeout while the lock is taken.  update_model comes first, *)
(* then clicks, then timers; a source that is being dispatched is not      *)
(* dispatched again.                                                       *)

\* Gtk.main has returned when the handler that closes the window has.
Dispatching == (stack = <<>> /\ ~quit) \/ TopAt("events")

SourceIsFree(id) == \A i \in DOMAIN stack : stack[i].source # id

DispatchIdle ==
    /\ Dispatching
    /\ idle > 0
    /\ idle' = idle - 1
    /\ Call(Handler("model", 0, 0, 0))
    /\ UNCHANGED <<simVars, play, timers, timeoutId, period, shown, dialogs, clicks, lock, go, quit,
                   target, pauseMessages, interest>>

DispatchTimer ==
    /\ Dispatching
    /\ idle = 0
    /\ \E id \in timers : SourceIsFree(id) /\ Call(Handler("spin", id, 0, 0))
    /\ UNCHANGED <<simVars, play, timers, timeoutId, period, shown, dialogs, clicks, lock, go, quit,
                   target, pauseMessages, interest, idle>>

Click ==
    /\ Dispatching
    /\ idle = 0
    /\ clicks < MaxClicks
    /\ clicks' = clicks + 1

\* GLib.source_remove of an identifier that is not in use only warns.
Removed(id) == timers \ {id}

\* Identifiers are never used twice; create_gui has used the first.
NewId == clicks + 2

\* (Mutant: a timer that has an identifier is thought to run.)
BugStartUpdateTimer ==
    IF timeoutId # 0 THEN UNCHANGED <<timeoutId, timers>>
    ELSE timeoutId' = NewId /\ timers' = timers \union {NewId}

\* _start_update_timer.
StartUpdateTimer ==
    /\ timeoutId' = NewId
    /\ timers' = Removed(timeoutId) \union {NewId}

TogglePlay ==
    /\ Click
    /\ play' = ~play
    /\ IF play' THEN StartUpdateTimer
                ELSE timers' = Removed(timeoutId) /\ UNCHANGED timeoutId
    /\ UNCHANGED <<simVars, stack, period, shown, dialogs, lock, go, quit, target, pauseMessages,
                   interest, idle>>

SpeedChanged ==
    /\ Click
    /\ period' \in Periods
    /\ StartUpdateTimer
    /\ UNCHANGED <<simVars, stack, play, shown, dialogs, lock, go, quit, target, pauseMessages,
                   interest, idle>>

\* A click that leads to set_nodes_of_interest; for the transmissions of all
\* nodes they are counted first, without the lock.
Select ==
    /\ Click
    /\ \E nodes \in Nodes, at \in {"count", "touch"} : Call(Handler(at, 0, 0, nodes))
    /\ UNCHANGED <<simVars, play, timers, timeoutId, period, shown, dialogs, lock, go, quit,
                   target, pauseMessages, interest, idle>>

\* Handlers that only read the model: the tooltip of a node, with the lock, and
\* without it the tooltip of a Wi-Fi link, and autoscale_view, which the timer
\* that start sets calls once.
Query ==
    /\ Click
    /\ \E at \in {"model", "reading"} : Call(Handler(at, 0, 0, 0))
    /\ UNCHANGED <<simVars, play, timers, timeoutId, period, shown, dialogs, lock, go, quit,
                   target, pauseMessages, interest, idle>>

\* The window is closed.
Close ==
    /\ Dispatching
    /\ idle = 0
    /\ ~quit
    /\ Call(Handler("quit", 0, 0, 0))
    /\ timers' = Removed(timeoutId)
    /\ timeoutId' = 0
    /\ UNCHANGED <<simVars, play, period, shown, dialogs, clicks, lock, go, quit, target,
                   pauseMessages, interest, idle>>

----------------------------------------------------------------------------
(* The handlers.                                                           *)

TakeLock(from, to) ==
    /\ TopAt(from)
    /\ lock = "free"
    /\ lock' = "view"
    /\ Step(to)
    /\ UNCHANGED <<simVars, play, timers, timeoutId, period, shown, dialogs, clicks, go, quit,
                   target, pauseMessages, interest, idle>>

\* update_view_timeout tries the lock and, if it is taken, runs the main loop
\* until no event is pending.
TryLock ==
    \/ TakeLock("spin", "take")
    \/ /\ TopAt("spin") /\ lock # "free" /\ Step("events")
       /\ UNCHANGED <<simVars, play, timers, timeoutId, period, shown, dialogs, clicks, lock, go,
                      quit, target, pauseMessages, interest, idle>>

NoEventPending ==
    /\ TopAt("events")
    /\ idle = 0
    /\ Step("spin")
    /\ UNCHANGED <<simVars, play, timers, timeoutId, period, shown, dialogs, clicks, lock, go, quit,
                   target, pauseMessages, interest, idle>>

TakeMessages ==
    /\ TopAt("take")
    /\ stack' = [stack EXCEPT ![Len(stack)] = [@ EXCEPT !.at = "show", !.messages = pauseMessages]]
    /\ pauseMessages' = 0
    /\ UNCHANGED <<simVars, play, timers, timeoutId, period, shown, dialogs, clicks, lock, go, quit,
                   target, interest, idle>>

\* (Mutant: the target is a period behind the last target, not behind the view.)
BugNextTarget == Min({target + period, MaxTime})

NextTarget == Min({now + period, MaxTime})

UpdateView ==
    /\ TopAt("show")
    /\ shown' = now
    /\ target' = NextTarget
    /\ Step("release")
    /\ UNCHANGED <<simVars, play, timers, timeoutId, period, dialogs, clicks, lock, go, quit,
                   pauseMessages, interest, idle>>

ReleaseView ==
    /\ TopAt("release")
    /\ lock' = "free"
    /\ Step("return")
    /\ UNCHANGED <<simVars, play, timers, timeoutId, period, shown, dialogs, clicks, go, quit,
                   target, pauseMessages, interest, idle>>

\* A message turns the play button off, which removes the timer; a timer that
\* finds the button off ends.
ReturnPaused ==
    /\ TopAt("return")
    /\ ~play \/ Top.messages > 0
    /\ dialogs' = dialogs + Top.messages
    /\ play' = FALSE
    /\ timers' = (IF play THEN Removed(timeoutId) ELSE timers) \ {Top.source}
    /\ timeoutId' = 0
    /\ Done
    /\ UNCHANGED <<simVars, period, shown, clicks, lock, go, quit, target, pauseMessages, interest, idle>>

\* (Mutant: the play button is not looked at.)
BugReturnPlaying ==
    /\ TopAt("return")
    /\ Top.messages = 0
    /\ go' = TRUE
    /\ Done
    /\ UNCHANGED <<simVars, play, timers, timeoutId, period, shown, dialogs, clicks, lock, quit,
                   target, pauseMessages, interest, idle>>

ReturnPlaying ==
    /\ TopAt("return")
    /\ play
    /\ Top.messages = 0
    /\ go' = TRUE
    /\ Done
    /\ UNCHANGED <<simVars, play, timers, timeoutId, period, shown, dialogs, clicks, lock, quit,
                   target, pauseMessages, interest, idle>>

\* do_simulation_periodic_update reads the samples of the helper; a tooltip
\* reads the node.
UpdateModel ==
    \/ TakeLock("model", "modelling")
    \/ /\ TopAt("modelling")
       /\ lock' = "free"
       /\ Done
       /\ UNCHANGED <<simVars, play, timers, timeoutId, period, shown, dialogs, clicks, go, quit,
                      target, pauseMessages, interest, idle>>

\* (Mutant: the lock is not waited for.)
BugWaitToTouch == TopAt("touch") /\ Step("touching") /\
    UNCHANGED <<simVars, play, timers, timeoutId, period, shown, dialogs, clicks, lock, go, quit,
                target, pauseMessages, interest, idle>>

WaitToTouch == TakeLock("touch", "touching")

\* The nodes have been counted.
Count ==
    /\ TopAt("count")
    /\ Step("touch")
    /\ UNCHANGED <<simVars, play, timers, timeoutId, period, shown, dialogs, clicks, lock, go, quit,
                   target, pauseMessages, interest, idle>>

\* What was to be read has been read.
HaveRead ==
    /\ TopAt("reading")
    /\ Done
    /\ UNCHANGED <<simVars, play, timers, timeoutId, period, shown, dialogs, clicks, lock, go, quit,
                   target, pauseMessages, interest, idle>>

SetNodesOfInterest ==
    /\ TopAt("touching")
    /\ interest' = Top.arg
    /\ lock' = "free"
    /\ Done
    /\ UNCHANGED <<simVars, play, timers, timeoutId, period, shown, dialogs, clicks, go, quit,
                   target, pauseMessages, idle>>

\* (Mutant: the thread is woken before it is told to quit.)
BugQuit ==
    \/ TopAt("quit") /\ Step("wake") /\ go' = TRUE /\ UNCHANGED quit
    \/ TopAt("wake") /\ Step("join") /\ quit' = TRUE /\ UNCHANGED go

Quit ==
    \/ TopAt("quit") /\ Step("wake") /\ quit' = TRUE /\ UNCHANGED go
    \/ TopAt("wake") /\ Step("join") /\ go' = TRUE /\ UNCHANGED quit

QuitStep ==
    /\ Quit
    /\ UNCHANGED <<simVars, play, timers, timeoutId, period, shown, dialogs, clicks, lock, target,
                   pauseMessages, interest, idle>>

Join ==
    /\ TopAt("join")
    /\ sim = "end"
    /\ Done
    /\ UNCHANGED <<simVars, play, timers, timeoutId, period, shown, dialogs, clicks, lock, go, quit,
                   target, pauseMessages, interest, idle>>

Handle ==
    \/ TryLock \/ NoEventPending \/ TakeMessages \/ UpdateView \/ ReleaseView \/ ReturnPaused \/ ReturnPlaying
    \/ UpdateModel \/ Count \/ HaveRead \/ WaitToTouch \/ SetNodesOfInterest \/ QuitStep \/ Join

----------------------------------------------------------------------------
\* create_gui has started a timer, for the speed it shows first.
Init ==
    /\ sim = "loop" /\ lock = "free" /\ go = FALSE /\ quit = FALSE
    /\ target = 0 /\ pauseMessages = 0 /\ now = 0 /\ helper = 0 /\ idle = 0
    /\ interest \in Nodes
    /\ stack = <<>> /\ play = FALSE /\ timers = {1} /\ timeoutId = 1
    /\ period \in Periods
    /\ shown = 0 /\ dialogs = 0 /\ raised = 0 /\ clicks = 0

Next == Sim \/ DispatchIdle \/ DispatchTimer \/ TogglePlay \/ SpeedChanged \/ Select \/ Query \/ Close \/ Handle

Spec == Init /\ [][Next]_vars

\* Both threads run on, due sources are dispatched, and again and again none is
\* due, as timers need 100 ms; clicks need not come.
FairSpec ==
    /\ Spec
    /\ WF_vars(Sim)
    /\ WF_vars(Handle)
    /\ SF_vars(NoEventPending)
    /\ WF_vars(DispatchIdle)
    /\ WF_vars(DispatchTimer)

----------------------------------------------------------------------------
(* Properties.                                                             *)

TypeOK ==
    /\ sim \in SimPlaces
    /\ lock \in {"free", "sim", "view"}
    /\ go \in BOOLEAN /\ quit \in BOOLEAN /\ play \in BOOLEAN
    /\ {target, now, shown} \subseteq 0 .. MaxTime
    /\ {pauseMessages, helper, dialogs, raised} \subseteq 0 .. MaxMessages
    /\ \A i \in DOMAIN stack : /\ stack[i].at \in ViewPlaces
                               /\ stack[i].source \in 0 .. MaxClicks + 1
                               /\ stack[i].messages \in 0 .. MaxMessages
    /\ timers \subseteq 1 .. MaxClicks + 1
    /\ timeoutId \in 0 .. MaxClicks + 1
    /\ idle \in Nat
    /\ period \in Periods
    /\ interest \in Nodes

SimHolds == {"enter", "running", "post", "release"}
ViewHolds == {"take", "show", "release", "modelling", "touching"}

\* The lock keeps apart what waits for it: no handler, however deep it is nested,
\* is between its acquire and its release while a round runs, nor while another
\* handler is, for which it would wait for ever.  (Handlers that count or read
\* take no lock, and may be in the model in the middle of a round.)
LockKeepsApart ==
    \A i \in DOMAIN stack : stack[i].at \in ViewHolds =>
        /\ sim \notin SimHolds
        /\ \A j \in DOMAIN stack : stack[j].at \in ViewHolds => i = j

\* The model is never more than one sample period ahead of the view, also when
\* a go is left over from an earlier timer, or two timers run.
NeverAhead == now <= shown + Max(Periods)

\* Every call of PyViz::Pause leads to one line of one dialog: its message is
\* shown, in the list, in a handler that will show it, or in the helper of the
\* round that has not been left.
MessagesKept ==
    raised = dialogs + pauseMessages
             + MapThenSumSet(LAMBDA i : stack[i].messages, DOMAIN stack)
             + IF sim = "post" THEN helper ELSE 0

\* While the play button is on there is a timer, whatever was clicked while
\* another one waited for the lock.
PlayingTicks == (play /\ ~quit /\ ~TopAt("quit")) => timers # {}

\* When the play button is off, the simulation comes to rest.
PauseRests == ~play ~> (play \/ quit \/ (sim = "wait" /\ ~go))

\* _quit returns, and with it the main loop and every handler below.
QuitEnds == quit ~> (sim = "end" /\ stack = <<>>)
=============================================================================
