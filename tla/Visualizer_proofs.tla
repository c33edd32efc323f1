-------------------------- MODULE Visualizer_proofs -------------------------
(***************************************************************************)
(* Proofs about Visualizer: the lock keeps apart a round and the handlers  *)
(* that wait for it, however deep these nest, the model stays within a     *)
(* sample period of the view, the play button has a timer, and every       *)
(* message is shown once.                                                  *)
(***************************************************************************)
EXTENDS Visualizer, DataLemmas, TLAPS, SequenceTheorems

Handlers == [at : ViewPlaces, source : Nat, messages : Nat, arg : Nodes \union {0}]

\* Handlers that have called others wait in the main loop.
Nested(s) ==
    /\ s \in Seq(Handlers)
    /\ \A i \in 1 .. Len(s) - 1 : s[i].at = "events"

InnermostHolds(s) == s # <<>> /\ s[Len(s)].at \in ViewHolds

Typed ==
    /\ sim \in SimPlaces
    /\ lock \in {"free", "sim", "view"}
    /\ timers \subseteq Nat
    /\ clicks \in Nat
    /\ pauseMessages \in Nat
    /\ helper \in Nat
    /\ raised \in Nat

(***************************************************************************)
(* The lock is held by the thread that is behind its acquire, and in the   *)
(* view thread by the innermost handler.                                   *)
(***************************************************************************)
LockInv ==
    /\ Typed
    /\ Nested(stack)
    /\ sim \in SimHolds <=> lock = "sim"
    /\ InnermostHolds(stack) <=> lock = "view"

----------------------------------------------------------------------------
\* A handler that is called from the main loop is the innermost one.
LEMMA Called ==
    ASSUME NEW s, Nested(s), NEW h \in Handlers, s = <<>> \/ s[Len(s)].at = "events"
    PROVE  /\ Nested(Append(s, h))
           /\ InnermostHolds(Append(s, h)) <=> h.at \in ViewHolds
<1>1. /\ Append(s, h) \in Seq(Handlers)
      /\ Len(Append(s, h)) = Len(s) + 1
      /\ Append(s, h)[Len(s) + 1] = h
      /\ \A i \in 1 .. Len(s) : Append(s, h)[i] = s[i]
      /\ Len(s) \in Nat
      /\ s = <<>> => Len(s) = 0
  BY DEF Nested
<1>2. \A i \in 1 .. Len(s) : Append(s, h)[i].at = "events"
  BY <1>1 DEF Nested
<1>3. Nested(Append(s, h))
  BY <1>1, <1>2 DEF Nested
<1>4. Append(s, h) # <<>>
  BY <1>1
<1> QED
  BY <1>1, <1>3, <1>4 DEF InnermostHolds

\* The innermost handler may go on while the others wait.
LEMMA Moved ==
    ASSUME NEW s, Nested(s), s # <<>>, NEW h \in Handlers
    PROVE  /\ Nested([s EXCEPT ![Len(s)] = h])
           /\ InnermostHolds([s EXCEPT ![Len(s)] = h]) <=> h.at \in ViewHolds
<1> DEFINE t == [s EXCEPT ![Len(s)] = h]
<1>1. Len(s) \in Nat \ {0} /\ s \in Seq(Handlers)
  BY EmptySeq DEF Nested
<1>2. /\ t \in Seq(Handlers)
      /\ Len(t) = Len(s)
      /\ \A j \in 1 .. Len(s) : t[j] = IF j = Len(s) THEN h ELSE s[j]
  BY <1>1, ExceptSeq
<1>3. \A i \in 1 .. Len(s) - 1 : s[i].at = "events"
  BY DEF Nested
<1> HIDE DEF t
<1>4. /\ Nested(t)
      /\ t # <<>>
      /\ t[Len(t)] = h
  BY <1>1, <1>2, <1>3 DEF Nested
<1> QED
  BY <1>4 DEF InnermostHolds, t

\* When the innermost handler returns, its caller is in the main loop.
LEMMA Returned ==
    ASSUME NEW s, Nested(s), s # <<>>
    PROVE  /\ Nested(SubSeq(s, 1, Len(s) - 1))
           /\ ~InnermostHolds(SubSeq(s, 1, Len(s) - 1))
<1> DEFINE t == SubSeq(s, 1, Len(s) - 1)
<1>1. Len(s) \in Nat \ {0} /\ s \in Seq(Handlers)
  BY EmptySeq DEF Nested
<1>2. \A i \in 1 .. Len(s) - 1 : s[i] \in Handlers
  BY <1>1, ElementOfSeq
<1> DEFINE n == Len(s) - 1
<1>3. /\ SubSeq(s, 1, n) \in Seq(Handlers)
      /\ Len(SubSeq(s, 1, n)) = n
      /\ \A i \in 1 .. n : SubSeq(s, 1, n)[i] = s[i]
  <2>1. n \in Nat /\ \A i \in 1 .. n : s[i] \in Handlers
    BY <1>1, <1>2
  <2> HIDE DEF n
  <2>2. /\ SubSeq(s, 1, n) \in Seq(Handlers)
        /\ Len(SubSeq(s, 1, n)) = IF 1 <= n THEN n - 1 + 1 ELSE 0
        /\ \A i \in 1 .. n - 1 + 1 : SubSeq(s, 1, n)[i] = s[1 + i - 1]
    BY <2>1, SubSeqProperties
  <2> QED
    BY <2>1, <2>2
<1>4. t # <<>> => Len(t) \in 1 .. Len(s) - 1
  BY <1>1, <1>3, EmptySeq
<1>5. \A i \in 1 .. Len(s) - 1 : t[i].at = "events"
  BY <1>3 DEF Nested
<1>6. Nested(t)
  BY <1>1, <1>3, <1>5 DEF Nested
<1>7. t # <<>> => t[Len(t)].at \notin ViewHolds
  BY <1>4, <1>5 DEF ViewHolds
<1> HIDE DEF t
<1> QED
  BY <1>6, <1>7 DEF InnermostHolds, t

----------------------------------------------------------------------------
\* The simulation thread takes the lock when it is free and gives it back.
LEMMA SimKeepsLock == LockInv /\ Sim => LockInv'
<1> SUFFICES ASSUME LockInv, Sim PROVE LockInv'
  OBVIOUS
<1> USE VisualizerAssumption DEF SimStep, SimPlaces, SimHolds
<1>1. stack' = stack /\ timers' = timers /\ clicks' = clicks
  BY DEF Sim, viewVars, Loop, Wait, Clear, CheckQuit, Acquire, EnterRunUntil, RunUntil, Post, Release
<1>2. Nested(stack)' /\ (InnermostHolds(stack)' <=> InnermostHolds(stack))
  BY <1>1 DEF LockInv, Nested, InnermostHolds
<1>3. Typed' /\ (sim' \in SimHolds <=> lock' = "sim") /\ (lock' = "view" <=> lock = "view")
  <2>1. CASE Loop \/ Wait \/ Clear \/ CheckQuit
    BY <1>1, <2>1 DEF LockInv, Typed, Loop, Wait, Clear, CheckQuit
  <2>2. CASE Acquire \/ Release
    BY <1>1, <2>2 DEF LockInv, Typed, Acquire, Release
  <2>3. CASE EnterRunUntil
    BY <1>1, <2>3 DEF LockInv, Typed, EnterRunUntil, Cleared
  <2>4. CASE RunUntil
    BY <1>1, <2>4 DEF LockInv, Typed, RunUntil
  <2>5. CASE Post
    BY <1>1, <2>5 DEF LockInv, Typed, Post, Extended
  <2> QED
    BY <2>1, <2>2, <2>3, <2>4, <2>5 DEF Sim
<1> QED
  BY <1>2, <1>3 DEF LockInv

\* Handlers are called while the innermost one is in the main loop.
LEMMA DispatchKeepsLock ==
    LockInv /\ (DispatchIdle \/ DispatchTimer \/ TogglePlay \/ SpeedChanged \/ Select \/ Query \/ Close)
        => LockInv'
<1> SUFFICES ASSUME LockInv,
                    \/ DispatchIdle \/ DispatchTimer \/ TogglePlay \/ SpeedChanged
                    \/ Select \/ Query \/ Close
             PROVE  LockInv'
  OBVIOUS
<1>1. /\ UNCHANGED <<simVars, lock, pauseMessages>>
      /\ timers' \subseteq Nat
      /\ clicks' \in Nat
  <2>1. timers \subseteq Nat /\ clicks \in Nat
    BY DEF LockInv, Typed
  <2>2. clicks + 1 \in Nat
    BY <2>1
  <2>3. ASSUME StartUpdateTimer \/ timers' = Removed(timeoutId) \/ timers' = timers
        PROVE  timers' \subseteq Nat
    <3>1. Removed(timeoutId) \subseteq Nat
      BY <2>1 DEF Removed
    <3>2. CASE StartUpdateTimer
      BY <2>1, <3>1, <3>2 DEF StartUpdateTimer, NewId
    <3>3. CASE timers' = Removed(timeoutId) \/ timers' = timers
      BY <2>1, <3>1, <3>3
    <3> QED
      BY <2>3, <3>2, <3>3
  <2>4. CASE DispatchIdle \/ DispatchTimer
    BY <2>1, <2>4 DEF DispatchIdle, DispatchTimer
  <2>5. CASE TogglePlay
    <3>1. StartUpdateTimer \/ timers' = Removed(timeoutId)
      BY <2>5, Zenon DEF TogglePlay
    <3>2. clicks' = clicks + 1
      BY <2>5, Zenon DEF TogglePlay, Click
    <3>3. UNCHANGED <<simVars, lock, pauseMessages>>
      BY <2>5, Zenon DEF TogglePlay
    <3> QED
      BY <2>2, <2>3, <3>1, <3>2, <3>3
  <2>6. CASE SpeedChanged
    BY <2>2, <2>3, <2>6 DEF SpeedChanged, Click
  <2>7. CASE Select \/ Query
    BY <2>2, <2>3, <2>7 DEF Select, Query, Click
  <2>8. CASE Close
    BY <2>1, <2>3, <2>8 DEF Close
  <2> QED
    BY <2>4, <2>5, <2>6, <2>7, <2>8
<1>2. Typed' /\ (sim' \in SimHolds <=> lock' = "sim")
  BY <1>1 DEF LockInv, Typed, simVars
<1>3. Nested(stack') /\ (InnermostHolds(stack') <=> InnermostHolds(stack))
  <2>1. CASE TogglePlay \/ SpeedChanged
    BY <2>1 DEF TogglePlay, SpeedChanged, LockInv
  <2>2. CASE DispatchIdle \/ DispatchTimer \/ Select \/ Query \/ Close
    <3>1. stack = <<>> \/ stack[Len(stack)].at = "events"
      BY <2>2 DEF DispatchIdle, DispatchTimer, Select, Query, Close, Click, Dispatching, TopAt, Top
    <3>2. ~InnermostHolds(stack)
      BY <3>1 DEF InnermostHolds, ViewHolds
    <3>3. PICK h \in Handlers : h.at \notin ViewHolds /\ stack' = Append(stack, h)
      <4>1. \A at \in {"model", "spin", "count", "touch", "reading", "quit"}, source \in Nat,
               arg \in Nodes \union {0} :
               LET h == Handler(at, source, 0, arg) IN h \in Handlers /\ h.at \notin ViewHolds
        BY DEF Handler, Handlers, ViewHolds, ViewPlaces
      <4>2. CASE DispatchIdle \/ Close
        BY <4>1, <4>2 DEF DispatchIdle, Close, Call
      <4>3. CASE DispatchTimer
        BY <4>1, <4>3 DEF DispatchTimer, Call, LockInv, Typed
      <4>4. CASE Select \/ Query
        BY <4>1, <4>4 DEF Select, Query, Call
      <4> QED
        BY <2>2, <4>2, <4>3, <4>4
    <3> QED
      BY <3>1, <3>2, <3>3, Called DEF LockInv
  <2> QED
    BY <2>1, <2>2
<1>4. Nested(stack)' /\ (InnermostHolds(stack)' <=> InnermostHolds(stack))
  BY <1>3 DEF Nested, InnermostHolds
<1>5. lock' = lock
  BY <1>1
<1> QED
  BY <1>2, <1>4, <1>5 DEF LockInv

\* The innermost handler takes the lock when it is free, and returns without it.
LEMMA HandleKeepsLock == LockInv /\ Handle => LockInv'
<1> SUFFICES ASSUME LockInv, Handle PROVE LockInv'
  OBVIOUS
<1> USE DEF LockInv
<1>1. stack # <<>> /\ Top \in Handlers
  <2>1. stack # <<>>
    BY DEF Handle, TryLock, NoEventPending, TakeMessages, UpdateView, ReleaseView, ReturnPaused,
           ReturnPlaying, UpdateModel, Count, HaveRead, WaitToTouch, SetNodesOfInterest, QuitStep,
           Quit, Join, TakeLock, TopAt
  <2> QED
    BY <2>1, EmptySeq, ElementOfSeq DEF Nested, Top
<1>2. ASSUME NEW place \in ViewPlaces, Step(place)
      PROVE  Nested(stack') /\ (InnermostHolds(stack') <=> place \in ViewHolds)
  <2> DEFINE h == [Top EXCEPT !.at = place]
  <2>1. h \in Handlers /\ h.at = place
    BY <1>1, <1>2 DEF Handlers
  <2>2. stack' = [stack EXCEPT ![Len(stack)] = h]
    BY <1>1, <1>2 DEF Step, Top
  <2> HIDE DEF h
  <2> QED
    BY <1>1, <2>1, <2>2, Moved
<1>3. ASSUME Done PROVE Nested(stack') /\ ~InnermostHolds(stack')
  BY <1>1, <1>3, Returned DEF Done
<1>4. ASSUME NEW place \in ViewPlaces, TopAt(place)
      PROVE  InnermostHolds(stack) <=> place \in ViewHolds
  BY <1>1, <1>4 DEF TopAt, Top, InnermostHolds
<1>5. ASSUME NEW from \in ViewPlaces, NEW to \in ViewHolds, TakeLock(from, to) PROVE LockInv'
  <2>1. to \in ViewPlaces
    BY DEF ViewHolds, ViewPlaces
  <2>2. Nested(stack') /\ InnermostHolds(stack')
    BY <1>2, <1>5, <2>1 DEF TakeLock
  <2> QED
    BY <1>5, <2>2 DEF TakeLock, simVars, Typed, Nested, InnermostHolds
<1>6. ASSUME UNCHANGED <<simVars, clicks>>, timers' \subseteq Nat, pauseMessages' \in Nat,
             Nested(stack'),
             \/ lock' = lock /\ (InnermostHolds(stack') <=> InnermostHolds(stack))
             \/ lock' = "free" /\ lock = "view" /\ ~InnermostHolds(stack')
      PROVE  LockInv'
  BY <1>6 DEF simVars, Typed, SimHolds, Nested, InnermostHolds
<1> USE DEF ViewHolds, ViewPlaces
<1>7. CASE TryLock
  <2>1. CASE TakeLock("spin", "take")
    BY <1>5, <2>1
  <2>2. CASE ~TakeLock("spin", "take")
    BY <1>2, <1>4, <1>6, <1>7, <2>2 DEF TryLock, Typed
  <2> QED
    BY <2>1, <2>2
<1>8. CASE NoEventPending
  BY <1>2, <1>4, <1>6, <1>8 DEF NoEventPending, Typed
<1>9. CASE TakeMessages
  <2> DEFINE h == [Top EXCEPT !.at = "show", !.messages = pauseMessages]
  <2>1. h \in Handlers /\ h.at = "show"
    BY <1>1 DEF Handlers, Typed
  <2>2. stack' = [stack EXCEPT ![Len(stack)] = h]
    BY <1>1, <1>9 DEF TakeMessages, Top
  <2>3. Nested(stack') /\ InnermostHolds(stack')
    BY <1>1, <2>1, <2>2, Moved
  <2> QED
    BY <1>4, <1>6, <1>9, <2>3 DEF TakeMessages, Typed
<1>10. CASE UpdateView
  BY <1>2, <1>4, <1>6, <1>10 DEF UpdateView, Typed
<1>11. CASE ReleaseView
  BY <1>2, <1>4, <1>6, <1>11 DEF ReleaseView, Typed
<1>12. CASE ReturnPaused
  BY <1>3, <1>4, <1>6, <1>12 DEF ReturnPaused, Typed, Removed
<1>13. CASE ReturnPlaying
  BY <1>3, <1>4, <1>6, <1>13 DEF ReturnPlaying, Typed
<1>14. CASE UpdateModel
  <2>1. CASE TakeLock("model", "modelling")
    BY <1>5, <2>1
  <2>2. CASE ~TakeLock("model", "modelling")
    BY <1>3, <1>4, <1>6, <1>14, <2>2 DEF UpdateModel, Typed
  <2> QED
    BY <2>1, <2>2
<1>15. CASE WaitToTouch
  BY <1>5, <1>15 DEF WaitToTouch
<1>16. CASE SetNodesOfInterest
  BY <1>3, <1>4, <1>6, <1>16 DEF SetNodesOfInterest, Typed
<1>17. CASE QuitStep
  BY <1>2, <1>4, <1>6, <1>17 DEF QuitStep, Quit, Typed
<1>18. CASE Join
  BY <1>3, <1>4, <1>6, <1>18 DEF Join, Typed
<1>19. CASE Count
  BY <1>2, <1>4, <1>6, <1>19 DEF Count, Typed
<1>20. CASE HaveRead
  BY <1>3, <1>4, <1>6, <1>20 DEF HaveRead, Typed
<1> QED
  BY <1>7, <1>8, <1>9, <1>10, <1>11, <1>12, <1>13, <1>14, <1>15, <1>16, <1>17, <1>18, <1>19, <1>20
  DEF Handle

\* Every step of every thread keeps the lock invariant.
LEMMA LockStep == LockInv /\ [Next]_vars => LockInv'
<1>1. LockInv /\ UNCHANGED vars => LockInv'
  BY DEF LockInv, Typed, vars, simVars, viewVars, Nested, InnermostHolds
<1> QED
  BY <1>1, SimKeepsLock, DispatchKeepsLock, HandleKeepsLock DEF Next

\* The lock is where the threads are, in every reachable state.
THEOREM LockHeld == Spec => []LockInv
<1>1. ASSUME Init  PROVE LockInv
  <2>1. Nested(<<>>) /\ ~InnermostHolds(<<>>)
    BY DEF Nested, InnermostHolds
  <2> QED  BY <1>1, <2>1 DEF Init, LockInv, Typed, SimPlaces, SimHolds
<1> QED
  BY <1>1, LockStep, PTL DEF Spec

\* The lock keeps apart what waits for it: while a handler is between its
\* acquire and its release no round runs, and no other handler is there too.
THEOREM ThreadSafety == Spec => []LockKeepsApart
<1>1. LockInv => LockKeepsApart
  <2> SUFFICES ASSUME LockInv, NEW i \in DOMAIN stack, stack[i].at \in ViewHolds
               PROVE  /\ sim \notin SimHolds
                      /\ \A j \in DOMAIN stack : stack[j].at \in ViewHolds => i = j
    BY DEF LockKeepsApart
  <2>1. DOMAIN stack = 1 .. Len(stack) /\ Len(stack) \in Nat
    BY LenProperties DEF LockInv, Nested
  <2>2. \A j \in DOMAIN stack : stack[j].at \in ViewHolds => j = Len(stack)
    <3> SUFFICES ASSUME NEW j \in DOMAIN stack, j # Len(stack) PROVE stack[j].at \notin ViewHolds
      OBVIOUS
    <3>1. j \in 1 .. Len(stack) - 1
      BY <2>1
    <3> QED
      BY <3>1 DEF LockInv, Nested, ViewHolds
  <2>3. stack # <<>>
    BY <2>1, EmptySeq
  <2>4. lock = "view"
    BY <2>2, <2>3 DEF LockInv, InnermostHolds
  <2> QED
    BY <2>2, <2>4 DEF LockInv
<1> QED
  BY <1>1, LockHeld, PTL

----------------------------------------------------------------------------
(***************************************************************************)
(* The target is set from what the view shows, under the lock, and the     *)
(* model does not pass it, so neither a go that is left over nor a second  *)
(* timer takes it further.                                                 *)
(***************************************************************************)
AheadInv ==
    /\ now \in Nat
    /\ shown \in Nat
    /\ target \in Nat
    /\ period \in Periods
    /\ target <= shown + Max(Periods)
    /\ NeverAhead

\* The largest of the sample periods.
LEMMA LargestPeriod == Max(Periods) \in Nat /\ \A p \in Periods : p \in Nat /\ p <= Max(Periods)
<1>1. PICK m \in Periods : \A q \in Periods : q <= m
  BY VisualizerAssumption
<1>2. \A q \in Periods : m >= q
  BY <1>1, VisualizerAssumption
<1>3. Max(Periods) \in Periods /\ \A q \in Periods : Max(Periods) >= q
  BY <1>2 DEF Max
<1> QED
  BY <1>3, VisualizerAssumption

\* No step takes the simulation ahead of its target, or the target too far.
LEMMA AheadStep == AheadInv /\ [Next]_vars => AheadInv'
<1> SUFFICES ASSUME AheadInv, [Next]_vars PROVE AheadInv'
  OBVIOUS
<1> USE LargestPeriod, VisualizerAssumption DEF AheadInv, NeverAhead
<1>1. CASE UpdateView
  <2>1. now + period \in Nat
    OBVIOUS
  <2>2. target' \in Nat /\ target' <= now + period
    BY <1>1, <2>1, MinOfNat DEF UpdateView, NextTarget
  <2> QED
    BY <1>1, <2>1, <2>2 DEF UpdateView, simVars
<1>2. CASE RunUntil
  BY <1>2 DEF RunUntil, viewVars
<1>3. ASSUME UNCHANGED <<now, shown, target>>, period' \in Periods
      PROVE  AheadInv'
  BY <1>3
<1>4. CASE UNCHANGED vars
  BY <1>3, <1>4 DEF vars, simVars, viewVars
<1>5. CASE Loop \/ Wait \/ Clear \/ CheckQuit \/ Acquire \/ EnterRunUntil \/ Post \/ Release
  BY <1>3, <1>5 DEF Loop, Wait, Clear, CheckQuit, Acquire, EnterRunUntil, Post, Release, viewVars
<1>6. CASE DispatchIdle \/ DispatchTimer \/ TogglePlay \/ SpeedChanged \/ Select \/ Query \/ Close
  BY <1>3, <1>6 DEF DispatchIdle, DispatchTimer, TogglePlay, SpeedChanged, Select, Query, Close, simVars
<1>7. CASE TryLock \/ NoEventPending \/ TakeMessages \/ ReleaseView \/ ReturnPaused
  BY <1>3, <1>7 DEF TryLock, TakeLock, NoEventPending, TakeMessages, ReleaseView, ReturnPaused, simVars
<1>8. CASE \/ ReturnPlaying \/ UpdateModel \/ Count \/ HaveRead
           \/ WaitToTouch \/ SetNodesOfInterest \/ QuitStep \/ Join
  BY <1>3, <1>8 DEF ReturnPlaying, UpdateModel, Count, HaveRead, WaitToTouch, TakeLock,
     SetNodesOfInterest, QuitStep, Join, simVars
<1> QED
  BY <1>1, <1>2, <1>4, <1>5, <1>6, <1>7, <1>8 DEF Next, Sim, Handle

\* The model is never more than one sample period ahead of the view.
THEOREM BoundedAhead == Spec => []NeverAhead
<1>1. Init => AheadInv
  BY LargestPeriod DEF Init, AheadInv, NeverAhead
<1>2. AheadInv => NeverAhead
  BY DEF AheadInv
<1> QED
  BY <1>1, <1>2, AheadStep, PTL DEF Spec

----------------------------------------------------------------------------
(***************************************************************************)
(* Only the handler that closes the window takes the timer away while the  *)
(* button is on, and nothing else is dispatched before it tells the        *)
(* simulation thread to quit.                                              *)
(***************************************************************************)
\* A step that no handler at "quit" takes keeps the timer of the play button.
LEMMA TimerKept ==
    ASSUME PlayingTicks, ~TopAt("quit"), play' => (play \/ timers' # {}), quit' = quit,
           play' => (timers \subseteq timers' \/ timers' # {})
    PROVE  PlayingTicks'
BY DEF PlayingTicks

\* Every step leaves a timer while the button is on.
LEMMA PlayStep == PlayingTicks /\ [Next]_vars => PlayingTicks'
<1> SUFFICES ASSUME PlayingTicks, [Next]_vars PROVE PlayingTicks'
  OBVIOUS
<1>1. ASSUME UNCHANGED <<play, quit, timers, stack>> PROVE PlayingTicks'
  BY <1>1 DEF PlayingTicks, TopAt, Top
<1>2. CASE UNCHANGED vars
  BY <1>1, <1>2 DEF vars, viewVars
<1>3. CASE Sim
  BY <1>1, <1>3 DEF Sim, Loop, Wait, Clear, CheckQuit, Acquire, EnterRunUntil, RunUntil, Post, Release,
     viewVars
<1>4. ASSUME Dispatching PROVE ~TopAt("quit")
  BY <1>4 DEF Dispatching, TopAt
<1>5. ASSUME NEW place \in ViewPlaces \ {"quit"}, TopAt(place) PROVE ~TopAt("quit")
  BY <1>5 DEF TopAt
<1>6. CASE DispatchIdle \/ DispatchTimer \/ Select \/ Query
  BY <1>4, <1>6, TimerKept DEF DispatchIdle, DispatchTimer, Select, Query, Click
<1>7. ASSUME StartUpdateTimer PROVE timers' # {}
  BY <1>7 DEF StartUpdateTimer
<1>8. CASE TogglePlay
  <2>1. play' => timers' # {}
    BY <1>7, <1>8, Zenon DEF TogglePlay
  <2>2. ~TopAt("quit") /\ quit' = quit
    BY <1>4, <1>8, Zenon DEF TogglePlay, Click
  <2> QED
    BY <2>1, <2>2, TimerKept
<1>9. CASE SpeedChanged
  BY <1>4, <1>7, <1>9, TimerKept DEF SpeedChanged, Click
<1>10. CASE Close
  <2>1. Len(stack') = Len(stack) + 1 /\ stack'[Len(stack')] = Handler("quit", 0, 0, 0)
    BY <1>10 DEF Close, Call
  <2> QED
    BY <2>1 DEF PlayingTicks, TopAt, Top, Handler
<1>11. CASE TryLock \/ NoEventPending \/ TakeMessages \/ UpdateView \/ ReleaseView
  BY <1>5, <1>11, TimerKept DEF TryLock, TakeLock, NoEventPending, TakeMessages, UpdateView, ReleaseView,
     ViewPlaces
<1>12. CASE ReturnPaused
  BY <1>12 DEF ReturnPaused, PlayingTicks
<1>13. CASE \/ ReturnPlaying \/ UpdateModel \/ Count \/ HaveRead
            \/ WaitToTouch \/ SetNodesOfInterest \/ Join
  BY <1>5, <1>13, TimerKept DEF ReturnPlaying, UpdateModel, Count, HaveRead, WaitToTouch, TakeLock,
     SetNodesOfInterest, Join, ViewPlaces
<1>14. CASE QuitStep
  <2>1. CASE TopAt("quit")
    BY <1>14, <2>1 DEF QuitStep, Quit, PlayingTicks, TopAt
  <2>2. CASE ~TopAt("quit")
    BY <1>14, <2>2, TimerKept DEF QuitStep, Quit
  <2> QED
    BY <2>1, <2>2
<1> QED
  BY <1>2, <1>3, <1>6, <1>8, <1>9, <1>10, <1>11, <1>12, <1>13, <1>14 DEF Next, Handle

\* While the play button is on there is a timer, whatever was clicked while
\* another one waited for the lock.
THEOREM TimerWhilePlaying == Spec => []PlayingTicks
<1>1. Init => PlayingTicks
  BY DEF Init, PlayingTicks
<1> QED
  BY <1>1, PlayStep, PTL DEF Spec

----------------------------------------------------------------------------
(***************************************************************************)
(* A message is in one place at a time: only the innermost handler has     *)
(* some, between the moment it takes them and its return, and the helper   *)
(* has none when a round begins.                                           *)
(***************************************************************************)
\* The handlers there can be.
Proper ==
    {h \in Handlers :
        /\ h.source \in 0 .. MaxClicks + 1
        /\ h.at \in {"count", "touch", "touching"} => h.arg \in Nodes
        /\ h.messages = 0 \/ h.at \in {"show", "release", "return"}}

\* The messages of the innermost handler.
Carried(s) == IF s = <<>> THEN 0 ELSE s[Len(s)].messages

\* The ranges of all that is not on the stack.
Ranges ==
    /\ sim \in SimPlaces
    /\ lock \in {"free", "sim", "view"}
    /\ now \in 0 .. MaxTime /\ shown \in 0 .. MaxTime /\ target \in 0 .. MaxTime
    /\ raised \in 0 .. MaxMessages
    /\ helper \in 0 .. raised
    /\ sim = "running" => helper = 0
    /\ clicks \in 0 .. MaxClicks
    /\ timers \subseteq 1 .. MaxClicks + 1
    /\ timeoutId \in 0 .. MaxClicks + 1
    /\ idle \in Nat
    /\ period \in Periods
    /\ interest \in Nodes

Flags == go \in BOOLEAN /\ quit \in BOOLEAN /\ play \in BOOLEAN

\* The messages, counted where they are.
Counted ==
    /\ pauseMessages \in Nat
    /\ dialogs \in Nat
    /\ raised = dialogs + pauseMessages + Carried(stack) + IF sim = "post" THEN helper ELSE 0

MessageInv ==
    /\ LockInv
    /\ stack \in Seq(Proper)
    /\ Ranges
    /\ Flags
    /\ Counted

\* A handler that is called has no messages, and neither has its caller.
LEMMA CalledCarries ==
    ASSUME NEW s \in Seq(Proper), NEW h \in Proper, h.messages = 0,
           s = <<>> \/ s[Len(s)].at = "events"
    PROVE  /\ Append(s, h) \in Seq(Proper)
           /\ Carried(s) = 0 /\ Carried(Append(s, h)) = 0
<1> HIDE DEF Proper
<1>1. /\ Append(s, h) \in Seq(Proper)
      /\ Len(Append(s, h)) = Len(s) + 1
      /\ Append(s, h)[Len(s) + 1] = h
      /\ Append(s, h) # <<>>
  OBVIOUS
<1>2. s # <<>> => s[Len(s)] \in Proper
  BY EmptySeq, ElementOfSeq
<1>3. s # <<>> => s[Len(s)].messages = 0
  BY <1>2 DEF Proper
<1> QED
  BY <1>1, <1>3 DEF Carried

\* A handler that goes on keeps the messages it is left with.
LEMMA MovedCarries ==
    ASSUME NEW s \in Seq(Proper), s # <<>>, NEW h \in Proper
    PROVE  /\ [s EXCEPT ![Len(s)] = h] \in Seq(Proper)
           /\ Carried([s EXCEPT ![Len(s)] = h]) = h.messages
           /\ s[Len(s)] \in Proper
<1> DEFINE t == [s EXCEPT ![Len(s)] = h]
<1>1. Len(s) \in Nat \ {0}
  BY EmptySeq
<1>2. /\ t \in Seq(Proper)
      /\ Len(t) = Len(s)
      /\ \A j \in 1 .. Len(s) : t[j] = IF j = Len(s) THEN h ELSE s[j]
  BY <1>1, ExceptSeq
<1>3. s[Len(s)] \in Proper
  BY <1>1, ElementOfSeq
<1> HIDE DEF t
<1>4. t # <<>> /\ t[Len(t)] = h
  BY <1>1, <1>2
<1> QED
  BY <1>2, <1>3, <1>4 DEF Carried, t

\* A handler that returns leaves no messages on the stack.
LEMMA ReturnedCarries ==
    ASSUME NEW s \in Seq(Proper), s # <<>>, Nested(s)
    PROVE  /\ SubSeq(s, 1, Len(s) - 1) \in Seq(Proper)
           /\ Carried(SubSeq(s, 1, Len(s) - 1)) = 0
<1> DEFINE n == Len(s) - 1
           t == SubSeq(s, 1, n)
<1>1. n \in Nat /\ \A i \in 1 .. n : s[i] \in Proper
  BY EmptySeq, ElementOfSeq
<1>2. \A i \in 1 .. n : s[i].messages = 0
  BY <1>1 DEF Nested, Proper
<1> HIDE DEF n
<1>3. /\ t \in Seq(Proper)
      /\ Len(t) = n
      /\ \A i \in 1 .. n : t[i] = s[i]
  <2>1. /\ SubSeq(s, 1, n) \in Seq(Proper)
        /\ Len(SubSeq(s, 1, n)) = IF 1 <= n THEN n - 1 + 1 ELSE 0
        /\ \A i \in 1 .. n - 1 + 1 : SubSeq(s, 1, n)[i] = s[1 + i - 1]
    BY <1>1, SubSeqProperties
  <2> QED
    BY <1>1, <2>1
<1>4. t # <<>> => n \in 1 .. n
  BY <1>1, <1>3, EmptySeq
<1>5. Carried(t) = 0
  <2> HIDE DEF t
  <2> QED BY <1>2, <1>3, <1>4 DEF Carried
<1> QED
  BY <1>3, <1>5 DEF n

\* A sum over an interval that has at most one term that is not zero.
LEMMA SumOfOne ==
    ASSUME NEW s, NEW n \in Nat, NEW k, NEW v \in Nat,
           \A i \in 1 .. n : s[i].messages = IF i = k THEN v ELSE 0
    PROVE  MapThenSumSet(LAMBDA i : s[i].messages, 1 .. n) = IF k \in 1 .. n THEN v ELSE 0
<1> DEFINE I == 1 .. n
           iter[t \in SUBSET I] == IF t = {} THEN 0
                                   ELSE LET x == CHOOSE x \in t : TRUE
                                        IN  s[x].messages + iter[t \ {x}]
           g == [t \in SUBSET I |-> IF k \in t THEN v ELSE 0]
           x(t) == CHOOSE x \in t : TRUE
<1>1. MapThenSumSet(LAMBDA i : s[i].messages, I) = iter[I]
  BY DEF MapThenSumSet, MapThenFoldSet
<1>2. ASSUME NEW t \in SUBSET I, t # {}
      PROVE  x(t) \in t /\ t \ {x(t)} \in SUBSET I
  BY <1>2
<1>3. ASSUME NEW t \in SUBSET I
      PROVE  g[t] = IF t = {} THEN 0 ELSE s[x(t)].messages + g[t \ {x(t)}]
  <2>1. CASE t = {}
    BY <2>1
  <2>2. CASE t # {}
    <3>1. x(t) \in t /\ t \ {x(t)} \in SUBSET I
      BY <1>2, <2>2
    <3>2. s[x(t)].messages = IF x(t) = k THEN v ELSE 0
      BY <3>1
    <3>3. g[t \ {x(t)}] = IF k \in t \ {x(t)} THEN v ELSE 0
      BY <3>1
    <3>4. s[x(t)].messages + g[t \ {x(t)}] = IF k \in t THEN v ELSE 0
      <4> HIDE DEF x, g
      <4> QED BY <3>1, <3>2, <3>3
    <3> HIDE DEF x
    <3> QED BY <2>2, <3>4
  <2> QED
    BY <2>1, <2>2
<1>4. g = [t \in SUBSET I |-> IF t = {} THEN 0 ELSE s[x(t)].messages + g[t \ {x(t)}]]
  <2> DEFINE h == [t \in SUBSET I |-> IF t = {} THEN 0 ELSE s[x(t)].messages + g[t \ {x(t)}]]
  <2>1. \A t \in SUBSET I : g[t] = h[t]
    <3> HIDE DEF x, g
    <3> QED BY <1>3
  <2> QED
    <3> HIDE DEF x
    <3> QED BY <2>1
<1>5. iter = [t \in SUBSET I |-> IF t = {} THEN 0 ELSE s[x(t)].messages + iter[t \ {x(t)}]]
  <2> HIDE DEF g
  <2> QED BY <1>4
<1> HIDE DEF iter
<1> DEFINE S == {c \in Nat : \A t \in SUBSET I : Cardinality(t) = c => iter[t] = g[t]}
<1>6. IsFiniteSet(I) /\ Cardinality(I) \in Nat
  BY FS_Interval, FS_CardinalityType
<1>7. \A t \in SUBSET I : IsFiniteSet(t)
  BY <1>6, FS_Subset
<1>8. 0 \in S
  <2> SUFFICES ASSUME NEW t \in SUBSET I, Cardinality(t) = 0 PROVE iter[t] = g[t]
    OBVIOUS
  <2>1. t = {}
    BY <1>7, FS_EmptySet
  <2>2. iter[t] = 0
    BY <1>5, <2>1
  <2> QED
    BY <2>1, <2>2
<1>9. ASSUME NEW c \in Nat, c \in S PROVE c + 1 \in S
  <2> HIDE DEF x, g, I
  <2> SUFFICES ASSUME NEW t \in SUBSET I, Cardinality(t) = c + 1 PROVE iter[t] = g[t]
    OBVIOUS
  <2>1. IsFiniteSet(t) /\ t # {}
    BY <1>7, FS_EmptySet
  <2>2. x(t) \in t /\ t \ {x(t)} \in SUBSET I
    BY <1>2, <2>1
  <2>3. Cardinality(t \ {x(t)}) = c
    <3> HIDE DEF x
    <3>1. Cardinality(t \ {x(t)}) = Cardinality(t) - 1
      BY <2>1, <2>2, FS_RemoveElement
    <3> QED BY <3>1
  <2> HIDE DEF x, g
  <2>4. iter[t \ {x(t)}] = g[t \ {x(t)}]
    BY <1>9, <2>2, <2>3
  <2>5. iter[t] = s[x(t)].messages + iter[t \ {x(t)}]
    BY <1>5, <2>1
  <2>6. g[t] = s[x(t)].messages + g[t \ {x(t)}]
    BY <1>3, <2>1
  <2> QED
    BY <2>4, <2>5, <2>6
<1>10. Nat \subseteq S
  <2> HIDE DEF S
  <2> QED BY <1>8, <1>9, AllNat
<1>11. iter[I] = g[I]
  <2> HIDE DEF g, x
  <2> QED BY <1>6, <1>10
<1> QED
  BY <1>1, <1>11

\* A source that is started has an identifier in range.
LEMMA TimersInRange ==
    ASSUME Ranges, StartUpdateTimer, clicks < MaxClicks
    PROVE  timers' \subseteq 1 .. MaxClicks + 1 /\ timeoutId' \in 0 .. MaxClicks + 1
<1>1. NewId \in 1 .. MaxClicks + 1
  BY VisualizerAssumption DEF Ranges, NewId
<1>2. Removed(timeoutId) \subseteq 1 .. MaxClicks + 1
  BY DEF Ranges, Removed
<1> QED
  BY <1>1, <1>2 DEF StartUpdateTimer

\* What a step sets a flag to.
LEMMA FlagsStep == Flags /\ [Next]_vars => Flags'
<1> SUFFICES ASSUME Flags, [Next]_vars PROVE Flags'
  OBVIOUS
<1>1. go' = go \/ go' = TRUE \/ go' = FALSE
  <2>1. CASE UNCHANGED vars
    BY <2>1, Zenon DEF vars
  <2>2. CASE Sim
    BY <2>2, Zenon DEF Sim, Loop, Wait, Clear, CheckQuit, Acquire, EnterRunUntil, RunUntil, Post, Release
  <2>3. CASE DispatchIdle \/ DispatchTimer \/ TogglePlay \/ SpeedChanged \/ Select \/ Query \/ Close
    BY <2>3, Zenon DEF DispatchIdle, DispatchTimer, TogglePlay, SpeedChanged, Select, Query, Close
  <2>4. CASE Handle
    BY <2>4, Zenon DEF Handle, TryLock, TakeLock, NoEventPending, TakeMessages, UpdateView, ReleaseView,
       ReturnPaused, ReturnPlaying, UpdateModel, Count, HaveRead, WaitToTouch, SetNodesOfInterest,
       QuitStep, Quit, Join
  <2> QED
    BY <2>1, <2>2, <2>3, <2>4, Zenon DEF Next
<1>2. quit' = quit \/ quit' = TRUE
  <2>1. CASE UNCHANGED vars
    BY <2>1, Zenon DEF vars
  <2>2. CASE Sim
    BY <2>2, Zenon DEF Sim, Loop, Wait, Clear, CheckQuit, Acquire, EnterRunUntil, RunUntil, Post, Release
  <2>3. CASE DispatchIdle \/ DispatchTimer \/ TogglePlay \/ SpeedChanged \/ Select \/ Query \/ Close
    BY <2>3, Zenon DEF DispatchIdle, DispatchTimer, TogglePlay, SpeedChanged, Select, Query, Close
  <2>4. CASE Handle
    BY <2>4, Zenon DEF Handle, TryLock, TakeLock, NoEventPending, TakeMessages, UpdateView, ReleaseView,
       ReturnPaused, ReturnPlaying, UpdateModel, Count, HaveRead, WaitToTouch, SetNodesOfInterest,
       QuitStep, Quit, Join
  <2> QED
    BY <2>1, <2>2, <2>3, <2>4, Zenon DEF Next
<1>3. play' = play \/ play' = ~play \/ play' = FALSE
  <2>1. CASE UNCHANGED vars
    BY <2>1, Zenon DEF vars, viewVars
  <2>2. CASE Sim
    BY <2>2, Zenon DEF Sim, Loop, Wait, Clear, CheckQuit, Acquire, EnterRunUntil, RunUntil, Post, Release,
       viewVars
  <2>3. CASE DispatchIdle \/ DispatchTimer \/ TogglePlay \/ SpeedChanged \/ Select \/ Query \/ Close
    BY <2>3, Zenon DEF DispatchIdle, DispatchTimer, TogglePlay, SpeedChanged, Select, Query, Close
  <2>4. CASE Handle
    BY <2>4, Zenon DEF Handle, TryLock, TakeLock, NoEventPending, TakeMessages, UpdateView, ReleaseView,
       ReturnPaused, ReturnPlaying, UpdateModel, Count, HaveRead, WaitToTouch, SetNodesOfInterest,
       QuitStep, Quit, Join
  <2> QED
    BY <2>1, <2>2, <2>3, <2>4, Zenon DEF Next
<1>4. TRUE \in BOOLEAN /\ FALSE \in BOOLEAN /\ (~play) \in BOOLEAN
  OBVIOUS
<1> QED
  BY <1>1, <1>2, <1>3, <1>4, Zenon DEF Flags

\* Every step keeps the ranges; what a handler sets as nodes of interest was clicked.
LEMMA RangesStep == Ranges /\ stack \in Seq(Proper) /\ [Next]_vars => Ranges'
<1> SUFFICES ASSUME Ranges, stack \in Seq(Proper), [Next]_vars PROVE Ranges'
  OBVIOUS
<1> USE VisualizerAssumption
<1>1. CASE UNCHANGED vars
  BY <1>1 DEF vars, simVars, viewVars, Ranges
<1>2. CASE Loop \/ Wait \/ Clear \/ CheckQuit \/ Acquire \/ Post \/ Release
  <2>1. /\ UNCHANGED <<viewVars, now, helper, raised, target, interest>>
        /\ sim' \in SimPlaces \ {"running"}
        /\ idle' = idle \/ idle' = idle + 1
    BY <1>2 DEF Loop, Wait, Clear, CheckQuit, Acquire, Post, Release, SimStep, SimPlaces
  <2>2. lock' \in {"free", "sim", "view"}
    BY <1>2 DEF Loop, Wait, Clear, CheckQuit, Acquire, Post, Release, Ranges
  <2> QED
    BY <2>1, <2>2 DEF viewVars, Ranges
<1>3. CASE EnterRunUntil
  BY <1>3 DEF EnterRunUntil, viewVars, Ranges, SimStep, SimPlaces, Cleared
<1>4. CASE RunUntil
  BY <1>4 DEF RunUntil, viewVars, Ranges, SimStep, SimPlaces
<1>5. CASE DispatchIdle \/ DispatchTimer
  <2>1. /\ UNCHANGED <<simVars, timers, timeoutId, period, shown, clicks, lock, target, interest>>
        /\ idle' = idle \/ (idle > 0 /\ idle' = idle - 1)
    BY <1>5 DEF DispatchIdle, DispatchTimer
  <2> QED
    BY <2>1 DEF Ranges, simVars
<1>6. Removed(timeoutId) \subseteq 1 .. MaxClicks + 1
  BY DEF Ranges, Removed
<1>7. ASSUME Click PROVE clicks' \in 0 .. MaxClicks /\ clicks < MaxClicks
  BY <1>7 DEF Click, Ranges
<1>8. CASE TogglePlay
  <2>1. /\ UNCHANGED <<simVars, lock, go, quit, target, shown, idle, period, interest>>
        /\ Click /\ play' = ~play
        /\ StartUpdateTimer \/ (timers' = Removed(timeoutId) /\ timeoutId' = timeoutId)
    BY <1>8, Zenon DEF TogglePlay
  <2>2. timers' \subseteq 1 .. MaxClicks + 1 /\ timeoutId' \in 0 .. MaxClicks + 1
    <3>1. CASE StartUpdateTimer
      BY <1>7, <2>1, <3>1, TimersInRange
    <3>2. CASE ~StartUpdateTimer
      BY <1>6, <2>1, <3>2 DEF Ranges
    <3> QED
      BY <3>1, <3>2
  <2> QED
    BY <1>7, <2>1, <2>2 DEF Ranges, simVars
<1>9. CASE SpeedChanged
  <2>1. timers' \subseteq 1 .. MaxClicks + 1 /\ timeoutId' \in 0 .. MaxClicks + 1
    BY <1>7, <1>9, TimersInRange DEF SpeedChanged
  <2> QED
    BY <1>7, <1>9, <2>1 DEF SpeedChanged, Ranges, simVars
<1>10. CASE Select \/ Query
  BY <1>7, <1>10 DEF Select, Query, Ranges, simVars
<1>11. CASE Close
  BY <1>6, <1>11 DEF Close, Ranges, simVars
<1>12. CASE TryLock \/ NoEventPending \/ TakeMessages \/ ReleaseView \/ WaitToTouch \/ Join
  BY <1>12 DEF TryLock, TakeLock, NoEventPending, TakeMessages, ReleaseView, WaitToTouch, Join, Ranges,
     simVars
<1>13. CASE UpdateView
  <2>1. now + period \in Nat
    BY DEF Ranges
  <2>2. {now + period, MaxTime} \subseteq Nat /\ {now + period, MaxTime} # {}
    BY <2>1
  <2>3. NextTarget \in Nat /\ NextTarget <= MaxTime
    BY <2>2, MinOfNat DEF NextTarget
  <2>4. target' \in 0 .. MaxTime
    BY <1>13, <2>3 DEF UpdateView
  <2> QED
    BY <1>13, <2>4 DEF UpdateView, Ranges, simVars
<1>14. CASE ReturnPaused
  <2>1. timers' \subseteq 1 .. MaxClicks + 1
    BY <1>6, <1>14, Zenon DEF ReturnPaused, Ranges
  <2> QED
    BY <1>14, <2>1 DEF ReturnPaused, Ranges, simVars
<1>15. CASE ReturnPlaying \/ UpdateModel
  BY <1>15 DEF ReturnPlaying, UpdateModel, TakeLock, Ranges, simVars
<1>16. CASE SetNodesOfInterest
  <2>1. stack # <<>> /\ Top.at = "touching"
    BY <1>16 DEF SetNodesOfInterest, TopAt
  <2>2. Top \in Proper
    BY <2>1, EmptySeq, ElementOfSeq DEF Top
  <2>3. Top.arg \in Nodes
    BY <2>1, <2>2 DEF Proper
  <2> QED
    BY <1>16, <2>3 DEF SetNodesOfInterest, Ranges, simVars
<1>17. CASE QuitStep
  BY <1>17 DEF QuitStep, Quit, Ranges, simVars
<1>18. CASE Count \/ HaveRead
  BY <1>18 DEF Count, HaveRead, Ranges, simVars
<1> QED
  BY <1>1, <1>2, <1>3, <1>4, <1>5, <1>8, <1>9, <1>10, <1>11, <1>12, <1>13, <1>14, <1>15, <1>16, <1>17,
     <1>18
  DEF Next, Sim, Handle

\* The simulation thread raises messages and posts them.
LEMMA SimCounts == MessageInv /\ Sim => stack' \in Seq(Proper) /\ Counted'
<1> SUFFICES ASSUME MessageInv, Sim PROVE stack' \in Seq(Proper) /\ Counted'
  OBVIOUS
<1> USE VisualizerAssumption
<1>1. stack' = stack /\ dialogs' = dialogs
  BY DEF Sim, viewVars, Loop, Wait, Clear, CheckQuit, Acquire, EnterRunUntil, RunUntil, Post, Release
<1>2. Carried(stack) \in Nat
  BY EmptySeq, ElementOfSeq DEF MessageInv, Carried, Proper, Handlers
<1>3. Carried(stack)' = Carried(stack)
  BY <1>1 DEF Carried
<1>4. helper \in Nat /\ raised \in Nat
  BY DEF MessageInv, Ranges
<1>5. Counted'
  <2>1. CASE Loop \/ Wait \/ Clear \/ CheckQuit \/ Acquire \/ Release
    BY <1>1, <1>3, <2>1 DEF MessageInv, Counted, Loop, Wait, Clear, CheckQuit, Acquire, Release, SimStep
  <2>2. CASE EnterRunUntil
    BY <1>1, <1>2, <1>3, <2>2 DEF MessageInv, Counted, EnterRunUntil, SimStep, Cleared
  <2>3. CASE RunUntil
    <3>1. helper = 0 /\ sim = "running" /\ sim' = "post" /\ pauseMessages' = pauseMessages
      BY <2>3 DEF MessageInv, Ranges, RunUntil, SimStep
    <3>2. PICK n \in 0 .. MaxMessages - raised : helper' = helper + n /\ raised' = raised + n
      BY <2>3 DEF RunUntil
    <3> QED
      BY <1>1, <1>2, <1>3, <1>4, <3>1, <3>2 DEF MessageInv, Counted
  <2>4. CASE Post
    BY <1>1, <1>2, <1>3, <1>4, <2>4 DEF MessageInv, Counted, Post, SimStep, Extended
  <2> QED
    BY <2>1, <2>2, <2>3, <2>4 DEF Sim
<1> QED
  BY <1>1, <1>5 DEF MessageInv

\* No handler has messages when it is called.
LEMMA DispatchCounts ==
    MessageInv /\ (DispatchIdle \/ DispatchTimer \/ TogglePlay \/ SpeedChanged \/ Select \/ Query \/ Close)
        => stack' \in Seq(Proper) /\ Counted'
<1> SUFFICES ASSUME MessageInv,
                    \/ DispatchIdle \/ DispatchTimer \/ TogglePlay \/ SpeedChanged
                    \/ Select \/ Query \/ Close
             PROVE  stack' \in Seq(Proper) /\ Counted'
  OBVIOUS
<1>1. UNCHANGED <<simVars, pauseMessages, dialogs>>
  <2>1. CASE TogglePlay
    BY <2>1, Zenon DEF TogglePlay
  <2>2. CASE ~TogglePlay
    BY <2>2 DEF DispatchIdle, DispatchTimer, SpeedChanged, Select, Query, Close
  <2> QED
    BY <2>1, <2>2
<1>2. stack' \in Seq(Proper) /\ Carried(stack') = Carried(stack)
  <2>1. CASE TogglePlay \/ SpeedChanged
    <3>1. stack' = stack
      BY <2>1, Zenon DEF TogglePlay, SpeedChanged
    <3> QED
      BY <3>1 DEF MessageInv
  <2>2. CASE DispatchIdle \/ DispatchTimer \/ Select \/ Query \/ Close
    <3>1. stack = <<>> \/ stack[Len(stack)].at = "events"
      BY <2>2 DEF DispatchIdle, DispatchTimer, Select, Query, Close, Click, Dispatching, TopAt, Top
    <3>2. PICK h \in Proper : h.messages = 0 /\ stack' = Append(stack, h)
      <4>1. \A at \in {"model", "spin", "reading", "quit"}, source \in 0 .. MaxClicks + 1 :
               LET h == Handler(at, source, 0, 0) IN h \in Proper /\ h.messages = 0
        BY VisualizerAssumption DEF Handler, Handlers, Proper, ViewPlaces
      <4>2. \A nodes \in Nodes, at \in {"count", "touch"} :
               LET h == Handler(at, 0, 0, nodes) IN h \in Proper /\ h.messages = 0
        BY VisualizerAssumption DEF Handler, Handlers, Proper, ViewPlaces
      <4>3. 0 \in 0 .. MaxClicks + 1
        BY VisualizerAssumption
      <4>4. CASE DispatchIdle \/ Close
        BY <4>1, <4>3, <4>4 DEF DispatchIdle, Close, Call
      <4>5. CASE DispatchTimer
        <5>1. PICK id \in timers : Call(Handler("spin", id, 0, 0))
          BY <4>5 DEF DispatchTimer
        <5>2. id \in 0 .. MaxClicks + 1
          BY DEF MessageInv, Ranges
        <5> QED
          BY <4>1, <5>1, <5>2 DEF Call
      <4>6. CASE Select
        BY <4>2, <4>6 DEF Select, Call
      <4>7. CASE Query
        BY <4>1, <4>3, <4>7 DEF Query, Call
      <4> QED
        BY <2>2, <4>4, <4>5, <4>6, <4>7
    <3> QED
      BY <3>1, <3>2, CalledCarries DEF MessageInv
  <2> QED
    BY <2>1, <2>2
<1>3. Carried(stack)' = Carried(stack)
  BY <1>2 DEF Carried
<1> QED
  BY <1>1, <1>2, <1>3 DEF MessageInv, Counted, simVars

\* A handler takes all messages there are, and shows all it took.
LEMMA HandleCounts == MessageInv /\ Handle => stack' \in Seq(Proper) /\ Counted'
<1> SUFFICES ASSUME MessageInv, Handle PROVE stack' \in Seq(Proper) /\ Counted'
  OBVIOUS
<1>1. stack \in Seq(Proper) /\ Nested(stack) /\ stack # <<>>
  <2>1. stack # <<>>
    BY DEF Handle, TryLock, NoEventPending, TakeMessages, UpdateView, ReleaseView, ReturnPaused,
           ReturnPlaying, UpdateModel, Count, HaveRead, WaitToTouch, SetNodesOfInterest, QuitStep,
           Quit, Join, TakeLock, TopAt
  <2> QED
    BY <2>1 DEF MessageInv, LockInv
<1>2. Top \in Proper /\ Carried(stack) = Top.messages /\ Top.messages \in Nat
  BY <1>1, EmptySeq, ElementOfSeq DEF Top, Carried, Proper, Handlers
<1>3. ASSUME UNCHANGED simVars, stack' \in Seq(Proper), pauseMessages' \in Nat, dialogs' \in Nat,
             dialogs' + pauseMessages' + Carried(stack') = dialogs + pauseMessages + Carried(stack)
      PROVE  stack' \in Seq(Proper) /\ Counted'
  <2>1. Carried(stack)' = Carried(stack')
    BY DEF Carried
  <2> QED
    BY <1>3, <2>1 DEF MessageInv, Counted, simVars
<1>4. ASSUME NEW from \in ViewPlaces, NEW to \in ViewPlaces, TopAt(from), Step(to),
             to \in {"count", "touch", "touching"} => from \in {"count", "touch", "touching"},
             from \in {"show", "release", "return"} => to \in {"show", "release", "return"},
             UNCHANGED <<simVars, pauseMessages, dialogs>>
      PROVE  stack' \in Seq(Proper) /\ Counted'
  <2> DEFINE h == [Top EXCEPT !.at = to]
  <2>1. h \in Proper /\ h.messages = Top.messages
    BY <1>2, <1>4 DEF Proper, Handlers, TopAt
  <2>2. stack' = [stack EXCEPT ![Len(stack)] = h]
    BY <1>4 DEF Step, Top
  <2> HIDE DEF h
  <2>3. stack' \in Seq(Proper) /\ Carried(stack') = Top.messages
    BY <1>1, <2>1, <2>2, MovedCarries
  <2> QED
    BY <1>2, <1>3, <1>4, <2>3 DEF MessageInv, Counted
<1>5. ASSUME Done PROVE stack' \in Seq(Proper) /\ Carried(stack') = 0
  BY <1>1, <1>5, ReturnedCarries DEF Done
<1>6. ASSUME Done, Top.messages = 0, UNCHANGED <<simVars, pauseMessages, dialogs>>
      PROVE  stack' \in Seq(Proper) /\ Counted'
  BY <1>2, <1>3, <1>5, <1>6 DEF MessageInv, Counted
<1>7. ASSUME NEW at \in ViewPlaces \ {"show", "release", "return"}, TopAt(at)
      PROVE  Top.messages = 0
  BY <1>2, <1>7 DEF TopAt, Proper
<1> USE DEF ViewPlaces
<1>8. ASSUME NEW from \in {"spin", "model", "touch"}, NEW to \in {"take", "modelling", "touching"},
             from = "touch" <=> to = "touching", TakeLock(from, to)
      PROVE  stack' \in Seq(Proper) /\ Counted'
  BY <1>4, <1>8 DEF TakeLock
<1>9. CASE TryLock
  <2>1. CASE TakeLock("spin", "take")
    BY <1>8, <2>1
  <2>2. CASE ~TakeLock("spin", "take")
    BY <1>4, <1>9, <2>2 DEF TryLock
  <2> QED
    BY <2>1, <2>2
<1>10. CASE NoEventPending
  BY <1>4, <1>10 DEF NoEventPending
<1>11. CASE TakeMessages
  <2> DEFINE h == [Top EXCEPT !.at = "show", !.messages = pauseMessages]
  <2>1. h \in Proper /\ h.messages = pauseMessages
    BY <1>2 DEF Proper, Handlers, MessageInv, Counted
  <2>2. stack' = [stack EXCEPT ![Len(stack)] = h]
    BY <1>11 DEF TakeMessages, Top
  <2> HIDE DEF h
  <2>3. stack' \in Seq(Proper) /\ Carried(stack') = pauseMessages
    BY <1>1, <2>1, <2>2, MovedCarries
  <2>4. Top.messages = 0
    BY <1>7, <1>11 DEF TakeMessages
  <2> QED
    BY <1>2, <1>3, <1>11, <2>3, <2>4 DEF TakeMessages, MessageInv, Counted
<1>12. CASE UpdateView
  BY <1>4, <1>12 DEF UpdateView
<1>13. CASE ReleaseView
  BY <1>4, <1>13 DEF ReleaseView
<1>14. CASE ReturnPaused
  BY <1>2, <1>3, <1>5, <1>14 DEF ReturnPaused, MessageInv, Counted
<1>15. CASE ReturnPlaying
  BY <1>6, <1>15 DEF ReturnPlaying
<1>16. CASE UpdateModel
  <2>1. CASE TakeLock("model", "modelling")
    BY <1>8, <2>1
  <2>2. CASE ~TakeLock("model", "modelling")
    BY <1>6, <1>7, <1>16, <2>2 DEF UpdateModel
  <2> QED
    BY <2>1, <2>2
<1>17. CASE WaitToTouch
  BY <1>8, <1>17 DEF WaitToTouch
<1>18. CASE SetNodesOfInterest
  BY <1>6, <1>7, <1>18 DEF SetNodesOfInterest
<1>19. CASE QuitStep
  BY <1>4, <1>19 DEF QuitStep, Quit
<1>20. CASE Join
  BY <1>6, <1>7, <1>20 DEF Join
<1>21. CASE Count
  BY <1>4, <1>21 DEF Count
<1>22. CASE HaveRead
  BY <1>6, <1>7, <1>22 DEF HaveRead
<1> QED
  BY <1>9, <1>10, <1>11, <1>12, <1>13, <1>14, <1>15, <1>16, <1>17, <1>18, <1>19, <1>20, <1>21, <1>22
  DEF Handle

\* Every step keeps the messages where the dialogs will find them.
LEMMA MessageStep == MessageInv /\ [Next]_vars => MessageInv'
<1> SUFFICES ASSUME MessageInv, [Next]_vars PROVE MessageInv'
  OBVIOUS
<1>1. LockInv' /\ Ranges' /\ Flags'
  BY LockStep, RangesStep, FlagsStep DEF MessageInv
<1>2. stack' \in Seq(Proper) /\ Counted'
  <2>1. CASE UNCHANGED vars
    BY <2>1 DEF vars, simVars, viewVars, MessageInv, Counted, Carried
  <2>2. CASE Next
    BY <2>2, SimCounts, DispatchCounts, HandleCounts DEF Next
  <2> QED
    BY <2>1, <2>2
<1>3. (stack \in Seq(Proper))'
  BY <1>2 DEF Proper, Handlers
<1> QED
  BY <1>1, <1>2, <1>3 DEF MessageInv

\* The messages are counted right in every reachable state.
LEMMA MessagesCounted == Spec => []MessageInv
<1>1. ASSUME Init PROVE MessageInv
  <2>1. LockInv
    <3>1. Nested(<<>>) /\ ~InnermostHolds(<<>>)
      BY DEF Nested, InnermostHolds
    <3> QED
      BY <1>1, <3>1 DEF Init, LockInv, Typed, SimPlaces, SimHolds
  <2>2. stack \in Seq(Proper)
    BY <1>1, EmptySeq DEF Init
  <2>3. Ranges
    BY <1>1, VisualizerAssumption DEF Init, Ranges, SimPlaces
  <2>a. Flags
    BY <1>1, Zenon DEF Init, Flags
  <2>4. Counted
    BY <1>1 DEF Init, Counted, Carried
  <2> QED
    BY <2>1, <2>2, <2>3, <2>4, <2>a DEF MessageInv
<1> QED
  BY <1>1, MessageStep, PTL DEF Spec

\* In the words of MessagesKept: the innermost handler has all messages there
\* are on the stack.
LEMMA CarriedIsTheSum ==
    ASSUME MessageInv
    PROVE  MapThenSumSet(LAMBDA i : stack[i].messages, DOMAIN stack) = Carried(stack)
<1> DEFINE n == Len(stack)
<1>1. n \in Nat /\ DOMAIN stack = 1 .. n /\ (stack # <<>> => n \in 1 .. n)
  BY LenProperties, EmptySeq DEF MessageInv
<1>2. \A i \in 1 .. n : stack[i] \in Proper
  BY ElementOfSeq DEF MessageInv
<1>3. Carried(stack) \in Nat
  BY <1>1, <1>2 DEF Carried, Proper, Handlers
<1>4. stack = <<>> => n = 0
  BY EmptySeq
<1>5. \A i \in 1 .. n : stack[i].messages = IF i = n THEN Carried(stack) ELSE 0
  <2> SUFFICES ASSUME NEW i \in 1 .. n
               PROVE  stack[i].messages = IF i = n THEN Carried(stack) ELSE 0
    OBVIOUS
  <2>1. CASE i = n
    BY <1>1, <1>4, <2>1 DEF Carried
  <2>2. CASE i # n
    <3>1. \A j \in 1 .. n - 1 : stack[j].at = "events"
      BY DEF MessageInv, LockInv, Nested
    <3>2. n \in Nat
      BY <1>1
    <3> HIDE DEF n
    <3>3. i \in 1 .. n - 1
      BY <2>2, <3>2
    <3>4. stack[i].at = "events"
      BY <3>1, <3>3
    <3> QED
      BY <1>2, <2>2, <3>4 DEF Proper
  <2> QED
    BY <2>1, <2>2
<1> HIDE DEF n
<1>6. MapThenSumSet(LAMBDA i : stack[i].messages, 1 .. n) = IF n \in 1 .. n THEN Carried(stack) ELSE 0
  BY <1>1, <1>3, <1>5, SumOfOne
<1>7. n \notin 1 .. n => Carried(stack) = 0
  BY <1>1 DEF Carried
<1> QED
  BY <1>1, <1>6, <1>7

\* Every call of PyViz::Pause leads to one line of one dialog.
THEOREM EveryMessageShown == Spec => []MessagesKept
<1>1. MessageInv => MessagesKept
  BY CarriedIsTheSum, Zenon DEF MessageInv, Counted, MessagesKept
<1> QED
  BY <1>1, MessagesCounted, PTL

\* Every variable stays in its range, the messages below those raised.
THEOREM VisualizerTypes == Spec => []TypeOK
<1>1. ASSUME MessageInv PROVE TypeOK
  <2> DEFINE n == Len(stack)
  <2>1. n \in Nat /\ DOMAIN stack = 1 .. n
    BY LenProperties DEF MessageInv
  <2>2. \A i \in 1 .. n : stack[i] \in Proper
    BY <1>1, ElementOfSeq DEF MessageInv
  <2>3. Carried(stack) \in Nat
    BY <1>1, EmptySeq, ElementOfSeq DEF MessageInv, Carried, Proper, Handlers
  <2>4. /\ raised \in 0 .. MaxMessages /\ helper \in 0 .. MaxMessages
        /\ pauseMessages \in 0 .. MaxMessages /\ dialogs \in 0 .. MaxMessages
        /\ Carried(stack) \in 0 .. MaxMessages
    BY <1>1, <2>3, VisualizerAssumption DEF MessageInv, Ranges, Counted
  <2>5. \A i \in 1 .. n : /\ stack[i].at \in ViewPlaces
                          /\ stack[i].source \in 0 .. MaxClicks + 1
                          /\ stack[i].messages \in 0 .. MaxMessages
    <3> SUFFICES ASSUME NEW i \in 1 .. n
                 PROVE  /\ stack[i].at \in ViewPlaces
                        /\ stack[i].source \in 0 .. MaxClicks + 1
                        /\ stack[i].messages \in 0 .. MaxMessages
      OBVIOUS
    <3>1. stack[i] \in Proper /\ stack # <<>>
      BY <2>1, <2>2, EmptySeq
    <3>2. CASE i = n
      BY <2>4, <3>1, <3>2 DEF Carried, Proper, Handlers
    <3>3. CASE i # n
      <4>1. \A j \in 1 .. n - 1 : stack[j].at = "events"
        BY <1>1 DEF MessageInv, LockInv, Nested
      <4>2. n \in Nat
        BY <2>1
      <4> HIDE DEF n
      <4>3. i \in 1 .. n - 1
        BY <3>3, <4>2
      <4>4. stack[i].at = "events"
        BY <4>1, <4>3
      <4> QED
        BY <3>1, <4>4, VisualizerAssumption DEF Proper, Handlers
    <3> QED
      BY <3>2, <3>3
  <2> HIDE DEF n
  <2>6. go \in BOOLEAN /\ quit \in BOOLEAN /\ play \in BOOLEAN
    BY <1>1, Zenon DEF MessageInv, Flags
  <2>7. /\ {target, now, shown} \subseteq 0 .. MaxTime
        /\ {pauseMessages, helper, dialogs, raised} \subseteq 0 .. MaxMessages
    BY <1>1, <2>4 DEF MessageInv, Ranges
  <2> QED
    BY <1>1, <2>1, <2>5, <2>6, <2>7, Zenon DEF MessageInv, Ranges, TypeOK
<1> QED
  BY <1>1, MessagesCounted, PTL
=============================================================================
