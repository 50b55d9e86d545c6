---------------------------- MODULE LeTimerProofs ----------------------------
(***************************************************************************)
(* A BaseLeTimer leaks no event, is not called once it is gone or stopped, *)
(* and a loop timer stays armed: for any number of timers and events, and  *)
(* any interleaving of the loop with what callbacks do.                    *)
(*                                                                         *)
(* EventsOwned follows the pointer from the event to the timer.  It is not *)
(* inductive alone: freeing m_event is harmless to the other timers only   *)
(* because the pointer holds the other way round too (Linked).             *)
(***************************************************************************)
EXTENDS LeTimer, TLAPS

\* A timer's m_event exists, calls that timer, and is persistent for a loop
\* timer; a timer that does not exist has none.
Linked ==
  \A t \in Timer :
    /\ t \notin timers => tm[t] = FreshTimer
    /\ tm[t].event # NoEvent =>
         /\ tm[t].event \in events
         /\ ev[tm[t].event].arg = t
         /\ ev[tm[t].event].persist = tm[t].loop

TimerInv == TimerTypeOK /\ Linked /\ EventsOwned /\ StoppedIsSilent

\* The parts of the invariant that the actions on the loop alone keep.
timerPart == <<timers, tm, events, ev>>

TimerRecord == [event : Event \cup {NoEvent},
                state : {"S_WAIT_START_TIMER", "S_WAIT_TIME_OUT"}, loop : BOOLEAN]
EventRecord == [arg : Timer \cup {NoTimer}, persist : BOOLEAN,
                queue : {"idle", "pending", "active"}]

LEMMA TimerInitInv == TimerInit => TimerInv
<1> SUFFICES ASSUME TimerInit PROVE TimerInv
  OBVIOUS
<1>1. FreshTimer \in TimerRecord /\ BlankEvent \in EventRecord
  BY DEF FreshTimer, BlankEvent, TimerRecord, EventRecord
<1>2. TimerTypeOK
  BY <1>1 DEF TimerInit, OffLoop, TimerTypeOK, TimerRecord, EventRecord
<1>3. Linked /\ EventsOwned /\ StoppedIsSilent
  BY DEF TimerInit, Linked, EventsOwned, StoppedIsSilent, FreshTimer
<1> QED BY <1>2, <1>3 DEF TimerInv

\* Putting an event in another queue keeps the type.
LEMMA QueueType ==
  ASSUME NEW f \in [Event -> EventRecord], NEW e \in Event,
         NEW q \in {"idle", "pending", "active"}
  PROVE  [f EXCEPT ![e].queue = q] \in [Event -> EventRecord]
<1>1. f[e] \in EventRecord
  OBVIOUS
<1>2. [f[e] EXCEPT !.queue = q] \in EventRecord
  BY <1>1 DEF EventRecord
<1> QED BY <1>2

LEMMA LoopAloneInv ==
  ASSUME TimerInv, TimerTypeOK', UNCHANGED timerPart
  PROVE  TimerInv'
  BY DEF TimerInv, timerPart, Linked, EventsOwned, StoppedIsSilent, Armed

\* Events that do not belong to t are not those of another timer.
LEMMA OthersEvents ==
  ASSUME TimerInv, NEW t \in Timer, NEW u \in Timer, u # t, tm[u].event # NoEvent
  PROVE  tm[u].event # tm[t].event
<1> SUFFICES ASSUME tm[u].event = tm[t].event PROVE FALSE
  OBVIOUS
<1>1. ev[tm[u].event].arg = u /\ ev[tm[t].event].arg = t
  BY DEF TimerInv, Linked
<1> QED BY <1>1

LEMMA CreateTimerInv == ASSUME TimerInv, NEW t \in Timer, CreateTimer(t) PROVE TimerInv'
<1> USE DEF TimerInv
<1>1. TimerTypeOK'
  BY DEF CreateTimer, TimerTypeOK
<1>2. Linked' /\ EventsOwned'
  BY DEF CreateTimer, TimerTypeOK, Linked, EventsOwned
<1>3. StoppedIsSilent'
  BY DEF CreateTimer, TimerTypeOK, Linked, StoppedIsSilent, Armed, FreshTimer
<1> QED BY <1>1, <1>2, <1>3

LEMMA DeleteTimerInv == ASSUME TimerInv, NEW t \in Timer, DeleteTimer(t) PROVE TimerInv'
<1> USE DEF TimerInv
<1>1. TimerTypeOK'
  BY DEF DeleteTimer, Freed, ClearedEv, TimerTypeOK, FreshTimer, BlankEvent
<1>2. \A u \in Timer \ {t} : tm'[u] = tm[u]
  BY DEF DeleteTimer, TimerTypeOK
<1>3. tm'[t] = FreshTimer
  BY DEF DeleteTimer, TimerTypeOK
<1>4. \A e \in events' : e \in events /\ ev'[e] = ev[e] /\ e # tm[t].event
  BY DEF DeleteTimer, Freed, ClearedEv, TimerTypeOK
<1>5. ASSUME NEW u \in Timer \ {t}, tm[u].event # NoEvent
      PROVE tm[u].event \in events' /\ ev'[tm[u].event] = ev[tm[u].event]
  <2>1. tm[u].event \in events /\ tm[u].event # tm[t].event
    BY <1>5, OthersEvents DEF Linked
  <2> QED BY <2>1 DEF DeleteTimer, Freed, ClearedEv, TimerTypeOK
<1>6. Linked'
  <2> SUFFICES ASSUME NEW u \in Timer
               PROVE  /\ u \notin timers' => tm'[u] = FreshTimer
                      /\ tm'[u].event # NoEvent =>
                           /\ tm'[u].event \in events'
                           /\ ev'[tm'[u].event].arg = u
                           /\ ev'[tm'[u].event].persist = tm'[u].loop
    BY DEF Linked
  <2>1. CASE u = t
    BY <2>1, <1>3 DEF FreshTimer
  <2>2. CASE u # t
    BY <2>2, <1>2, <1>5 DEF Linked, DeleteTimer
  <2> QED BY <2>1, <2>2
<1>7. EventsOwned'
  <2> SUFFICES ASSUME NEW e \in events'
               PROVE  ev'[e].arg \in timers' /\ tm'[ev'[e].arg].event = e
    BY DEF EventsOwned
  <2>1. ev[e].arg \in timers /\ tm[ev[e].arg].event = e /\ ev'[e] = ev[e]
    BY <1>4 DEF EventsOwned
  <2>2. ev[e].arg # t
    BY <2>1, <1>4
  <2> QED BY <2>1, <2>2, <1>2 DEF DeleteTimer, TimerTypeOK
<1>8. StoppedIsSilent'
  <2> SUFFICES ASSUME NEW u \in timers', tm'[u].state = "S_WAIT_START_TIMER" PROVE ~Armed(u)'
    BY DEF StoppedIsSilent
  <2>1. u \in timers /\ u \in Timer \ {t} /\ tm'[u] = tm[u]
    BY <1>2 DEF DeleteTimer, TimerTypeOK
  <2> QED BY <2>1, <1>5 DEF StoppedIsSilent, Armed
<1> QED BY <1>1, <1>6, <1>7, <1>8

LEMMA StartTimerInv ==
  ASSUME TimerInv, NEW t \in Timer, NEW is_loop \in BOOLEAN, StartTimer(t, is_loop)
  PROVE  TimerInv'
<1> USE DEF TimerInv
<1>e. PICK e \in Event \ Freed(t) :
        /\ events' = Freed(t) \cup {e}
        /\ ev' = [ClearedEv(t) EXCEPT ![e] =
                    [arg |-> t, persist |-> is_loop,
                     queue |-> IF eb THEN "pending" ELSE "idle"]]
        /\ tm' = [tm EXCEPT ![t] = [event |-> e, state |-> "S_WAIT_TIME_OUT", loop |-> is_loop]]
  BY DEF StartTimer
<1>n. e # NoEvent /\ t \in timers /\ timers' = timers
  BY TimerConstants DEF StartTimer
<1>0. ClearedEv(t) \in [Event -> [arg : Timer \cup {NoTimer}, persist : BOOLEAN,
                                  queue : {"idle", "pending", "active"}]]
  BY DEF ClearedEv, BlankEvent, TimerTypeOK
<1>1. TimerTypeOK'
  BY <1>0, <1>e DEF StartTimer, Freed, TimerTypeOK
<1>2. \A u \in Timer \ {t} : tm'[u] = tm[u]
  BY <1>e DEF TimerTypeOK
<1>3. /\ tm'[t].event = e /\ tm'[t].state = "S_WAIT_TIME_OUT" /\ tm'[t].loop = is_loop
      /\ ev'[e].arg = t /\ ev'[e].persist = is_loop
  BY <1>e, <1>0 DEF TimerTypeOK
<1>4. \A d \in events' \ {e} : d \in events /\ d # tm[t].event /\ ev'[d] = ev[d]
  BY <1>e DEF Freed, ClearedEv, TimerTypeOK
<1>5. ASSUME NEW u \in Timer \ {t}, tm[u].event # NoEvent
      PROVE tm[u].event \in events' \ {e}
  <2>1. tm[u].event \in events /\ tm[u].event # tm[t].event
    BY <1>5, OthersEvents DEF Linked
  <2> QED BY <2>1, <1>e DEF Freed
<1>6. Linked'
  <2> SUFFICES ASSUME NEW u \in Timer
               PROVE  /\ u \notin timers' => tm'[u] = FreshTimer
                      /\ tm'[u].event # NoEvent =>
                           /\ tm'[u].event \in events'
                           /\ ev'[tm'[u].event].arg = u
                           /\ ev'[tm'[u].event].persist = tm'[u].loop
    BY DEF Linked
  <2>1. CASE u = t
    BY <2>1, <1>3, <1>e, <1>n
  <2>2. CASE u # t
    BY <2>2, <1>2, <1>4, <1>5, <1>n DEF Linked
  <2> QED BY <2>1, <2>2
<1>7. EventsOwned'
  <2> SUFFICES ASSUME NEW d \in events'
               PROVE  ev'[d].arg \in timers' /\ tm'[ev'[d].arg].event = d
    BY DEF EventsOwned
  <2>1. CASE d = e
    BY <2>1, <1>3, <1>n
  <2>2. CASE d # e
    <3>1. d \in events /\ d # tm[t].event /\ ev'[d] = ev[d]
      BY <2>2, <1>4
    <3>2. ev[d].arg \in timers /\ tm[ev[d].arg].event = d
      BY <3>1 DEF EventsOwned
    <3>3. ev[d].arg \in Timer \ {t}
      BY <3>1, <3>2 DEF TimerTypeOK
    <3> QED BY <3>1, <3>2, <3>3, <1>2, <1>n
  <2> QED BY <2>1, <2>2
<1>8. StoppedIsSilent'
  <2> SUFFICES ASSUME NEW u \in timers', tm'[u].state = "S_WAIT_START_TIMER" PROVE ~Armed(u)'
    BY DEF StoppedIsSilent
  <2>1. u \in timers /\ u \in Timer \ {t} /\ tm'[u] = tm[u]
    BY <1>2, <1>3, <1>n DEF TimerTypeOK
  <2> QED BY <2>1, <1>4, <1>5 DEF StoppedIsSilent, Armed
<1> QED BY <1>1, <1>6, <1>7, <1>8

\* What the loop and StopTimer do to the queues: nothing else changes, and an
\* event that was idle stays idle unless it belongs to a started timer.
LEMMA QueuesInv ==
  ASSUME TimerInv, TimerTypeOK', UNCHANGED <<timers, events>>,
         \A e \in Event : ev'[e].arg = ev[e].arg /\ ev'[e].persist = ev[e].persist,
         \A t \in Timer : tm'[t].event = tm[t].event /\ tm'[t].loop = tm[t].loop,
         \A t \in Timer : t \notin timers => tm'[t] = tm[t],
         StoppedIsSilent'
  PROVE  TimerInv'
<1> USE DEF TimerInv
<1>1. Linked'
  <2> SUFFICES ASSUME NEW u \in Timer
               PROVE  /\ u \notin timers' => tm'[u] = FreshTimer
                      /\ tm'[u].event # NoEvent =>
                           /\ tm'[u].event \in events'
                           /\ ev'[tm'[u].event].arg = u
                           /\ ev'[tm'[u].event].persist = tm'[u].loop
    BY DEF Linked
  <2>1. tm[u].event # NoEvent => tm[u].event \in Event
    BY DEF TimerTypeOK
  <2> QED BY <2>1 DEF Linked
<1>2. EventsOwned'
  BY DEF EventsOwned, TimerTypeOK
<1> QED BY <1>1, <1>2

LEMMA StopTimerInv == ASSUME TimerInv, NEW t \in Timer, StopTimer(t) PROVE TimerInv'
<1> USE DEF TimerInv
<1> DEFINE d == tm[t].event
<1>0. d \in Event /\ t \in timers
  BY DEF StopTimer, TimerTypeOK
<1>1. TimerTypeOK'
  <2>1. ev' \in [Event -> EventRecord]
    BY <1>0, QueueType DEF StopTimer, TimerTypeOK, EventRecord
  <2>2. tm' \in [Timer -> TimerRecord]
    <3>1. [tm[t] EXCEPT !.state = "S_WAIT_START_TIMER"] \in TimerRecord
      BY DEF TimerTypeOK, TimerRecord
    <3> QED BY <3>1 DEF StopTimer, TimerTypeOK, TimerRecord
  <2> QED BY <2>1, <2>2 DEF StopTimer, TimerTypeOK, EventRecord, TimerRecord
<1>2. \A e \in Event : /\ ev'[e].arg = ev[e].arg /\ ev'[e].persist = ev[e].persist
                       /\ ev'[e].queue = IF e = d THEN "idle" ELSE ev[e].queue
  BY <1>0 DEF StopTimer, TimerTypeOK
<1>3. \A u \in Timer : /\ tm'[u].event = tm[u].event /\ tm'[u].loop = tm[u].loop
                       /\ u # t => tm'[u] = tm[u]
  BY DEF StopTimer, TimerTypeOK
<1>4. StoppedIsSilent'
  <2> SUFFICES ASSUME NEW u \in timers', tm'[u].state = "S_WAIT_START_TIMER" PROVE ~Armed(u)'
    BY DEF StoppedIsSilent
  <2>1. u \in timers /\ u \in Timer
    BY DEF StopTimer, TimerTypeOK
  <2>2. CASE u = t
    BY <2>1, <2>2, <1>0, <1>2, <1>3 DEF Armed
  <2>3. CASE u # t
    BY <2>1, <2>3, <1>2, <1>3 DEF StoppedIsSilent, Armed, TimerTypeOK
  <2> QED BY <2>2, <2>3
<1> QED BY <1>0, <1>1, <1>2, <1>3, <1>4, QueuesInv DEF StopTimer

LEMMA TimerCBInv == ASSUME TimerInv, NEW e \in Event, TimerCB(e) PROVE TimerInv'
<1> USE DEF TimerInv
<1>1. TimerTypeOK'
  <2> DEFINE q == IF ev[e].persist THEN "pending" ELSE "idle"
  <2>1. ev' = [ev EXCEPT ![e].queue = q] /\ q \in {"idle", "pending", "active"}
    BY DEF TimerCB
  <2>2. ev' \in [Event -> EventRecord]
    BY <2>1, QueueType DEF TimerTypeOK, EventRecord
  <2>3. loop' \in [at : {"off", "poll", "run"}, cb : Timer \cup {NoTimer},
                   exit : {"no", "asked", "term"}, stop : BOOLEAN]
    BY DEF TimerCB, TimerTypeOK
  <2> QED BY <2>2, <2>3 DEF TimerCB, TimerTypeOK, EventRecord
<1>2. \A d \in Event : /\ ev'[d].arg = ev[d].arg /\ ev'[d].persist = ev[d].persist
                       /\ d # e => ev'[d] = ev[d]
  BY DEF TimerCB, TimerTypeOK
<1>3. StoppedIsSilent'
  <2> SUFFICES ASSUME NEW u \in timers', tm'[u].state = "S_WAIT_START_TIMER" PROVE ~Armed(u)'
    BY DEF StoppedIsSilent
  <2>1. u \in timers /\ tm' = tm /\ ~Armed(u)
    BY DEF TimerCB, StoppedIsSilent
  <2>2. tm[u].event # e
    BY <2>1, TimerConstants DEF TimerCB, Armed
  <2> QED BY <2>1, <2>2, <1>2 DEF Armed, TimerTypeOK
<1> QED BY <1>1, <1>2, <1>3, QueuesInv DEF TimerCB

LEMMA PollInv ==
  ASSUME TimerInv, NEW es \in SUBSET Queued("pending"), Poll(es)
  PROVE  TimerInv'
<1> USE DEF TimerInv
<1>0. es \subseteq Event /\ \A d \in es : ev[d].queue = "pending"
  BY DEF Queued, TimerTypeOK
<1>1. TimerTypeOK'
  BY DEF Poll, TimerTypeOK
<1>2. \A d \in Event : /\ ev'[d].arg = ev[d].arg /\ ev'[d].persist = ev[d].persist
                       /\ d \notin es => ev'[d] = ev[d]
  BY DEF Poll, TimerTypeOK
<1>3. StoppedIsSilent'
  <2> SUFFICES ASSUME NEW u \in timers', tm'[u].state = "S_WAIT_START_TIMER" PROVE ~Armed(u)'
    BY DEF StoppedIsSilent
  <2>1. u \in timers /\ tm' = tm /\ ~Armed(u)
    BY DEF Poll, StoppedIsSilent
  <2>2. tm[u].event \notin es
    BY <2>1, <1>0, TimerConstants DEF Armed
  <2> QED BY <2>1, <2>2, <1>2 DEF Armed, TimerTypeOK
<1> QED BY <1>1, <1>2, <1>3, QueuesInv DEF Poll

LEMMA TimerStepInv == TimerInv /\ [TimerNext]_timerVars => TimerInv'
<1> SUFFICES ASSUME TimerInv, [TimerNext]_timerVars PROVE TimerInv'
  OBVIOUS
<1>1. CASE LoopExitCB \/ TurnEnds \/ LoopReturns \/ OnTimerReturns
  <2>1. TimerTypeOK' /\ UNCHANGED timerPart
    BY <1>1 DEF LoopExitCB, TurnEnds, LoopReturns, OnTimerReturns, TimerInv, TimerTypeOK, timerPart
  <2> QED BY <2>1, LoopAloneInv
<1>2. CASE InitBase \/ StopDispatch \/ dispatch
  <2>1. TimerTypeOK' /\ UNCHANGED timerPart
    BY <1>2 DEF InitBase, StopDispatch, dispatch, TimerInv, TimerTypeOK, timerPart
  <2> QED BY <2>1, LoopAloneInv
<1>3. CASE UNCHANGED timerVars
  <2>1. TimerTypeOK' /\ UNCHANGED timerPart
    BY <1>3 DEF timerVars, TimerInv, TimerTypeOK, timerPart
  <2> QED BY <2>1, LoopAloneInv
<1>4. ASSUME NEW t \in Timer, CreateTimer(t) \/ DeleteTimer(t) \/ StopTimer(t) PROVE TimerInv'
  BY <1>4, CreateTimerInv, DeleteTimerInv, StopTimerInv
<1>5. ASSUME NEW t \in Timer, NEW is_loop \in BOOLEAN, StartTimer(t, is_loop) PROVE TimerInv'
  BY <1>5, StartTimerInv
<1>6. ASSUME NEW e \in Event, TimerCB(e) PROVE TimerInv'
  BY <1>6, TimerCBInv
<1>7. ASSUME NEW es \in SUBSET Queued("pending"), Poll(es) PROVE TimerInv'
  BY <1>7, PollInv
<1> QED
  BY <1>1, <1>2, <1>3, <1>4, <1>5, <1>6, <1>7 DEF TimerNext, UserStep, LoopStep

LEMMA TimerInvAlways == TimerSpec => []TimerInv
<1> QED BY TimerInitInv, TimerStepInv, PTL DEF TimerSpec

\* The model has its type.
THEOREM TimerTypeCorrect == TimerSpec => []TimerTypeOK
<1>1. TimerInv => TimerTypeOK
  BY DEF TimerInv
<1> QED BY <1>1, TimerInvAlways, PTL

\* timer_mgr.h:36: no event is leaked, and none calls a timer that is gone.
THEOREM EventsStayOwned == TimerSpec => []EventsOwned
<1>1. TimerInv => EventsOwned
  BY DEF TimerInv
<1> QED BY <1>1, TimerInvAlways, PTL

\* A timer that was stopped or never started is in none of the loop's queues.
THEOREM StoppedStaysSilent == TimerSpec => []StoppedIsSilent
<1>1. TimerInv => StoppedIsSilent
  BY DEF TimerInv
<1> QED BY <1>1, TimerInvAlways, PTL

\* Both, for whatever OnTimer does.
THEOREM EventsStayExact == TimerSpec => []EventsExact
<1>1. EventsOwned /\ StoppedIsSilent => EventsExact
  BY DEF EventsExact
<1> QED BY <1>1, EventsStayOwned, StoppedStaysSilent, PTL

\* A loop timer that is started stays armed until it is stopped or deleted.
THEOREM LoopTimerStaysArmed == TimerSpec => LoopStaysArmed
<1> DEFINE Stays ==
      \A t \in timers \cap timers' :
        /\ Armed(t) /\ tm[t].loop
        /\ tm'[t].state = "S_WAIT_TIME_OUT" /\ tm'[t].loop
        => Armed(t)'
<1>1. ASSUME TimerInv, [TimerNext]_timerVars PROVE [Stays]_timerVars
  <2> SUFFICES ASSUME NEW t \in timers, Armed(t), tm[t].loop, t \in timers',
                      tm'[t].state = "S_WAIT_TIME_OUT"
               PROVE  Armed(t)'
    OBVIOUS
  <2> USE DEF TimerInv
  <2> DEFINE d == tm[t].event
  <2>0. /\ t \in Timer /\ d \in Event /\ ev[d].arg = t /\ ev[d].persist
        /\ ev[d].queue # "idle" /\ tm[t].state # "S_WAIT_START_TIMER"
    BY <1>1 DEF TimerTypeOK, Linked, StoppedIsSilent, Armed
  <2>1. CASE tm' = tm /\ ev' = ev
    BY <2>1 DEF Armed
  <2>2. ASSUME NEW u \in Timer, DeleteTimer(u) \/ StopTimer(u) PROVE Armed(t)'
    <3>1. u # t
      BY <1>1, <2>2, <2>0 DEF DeleteTimer, StopTimer, TimerTypeOK
    <3>2. tm[u].event # d
      BY <3>1, <2>0, OthersEvents, <1>1, TimerConstants
    <3> QED
      BY <2>2, <1>1, <3>1, <3>2, <2>0, TimerConstants
         DEF DeleteTimer, StopTimer, ClearedEv, Armed, TimerTypeOK
  <2>3. ASSUME NEW u \in Timer, NEW is_loop \in BOOLEAN, StartTimer(u, is_loop)
        PROVE Armed(t)'
    <3>1. u # t
      BY <2>3, <2>0 DEF StartTimer
    <3>2. tm[u].event # d /\ d \in Freed(u)
      BY <3>1, <2>0, OthersEvents, <1>1, TimerConstants DEF Freed, Linked, Armed
    <3> QED
      BY <2>3, <1>1, <3>1, <3>2, <2>0, TimerConstants DEF StartTimer, ClearedEv, Armed, TimerTypeOK
  <2>4. ASSUME NEW e \in Event, TimerCB(e) PROVE Armed(t)'
    BY <1>1, <2>4, <2>0, TimerConstants DEF TimerCB, Armed, TimerTypeOK
  <2>5. ASSUME NEW es \in SUBSET Queued("pending"), Poll(es) PROVE Armed(t)'
    BY <1>1, <2>5, <2>0, TimerConstants DEF Poll, Armed, TimerTypeOK
  <2>6. ASSUME NEW u \in Timer, CreateTimer(u) PROVE Armed(t)'
    BY <2>6, <2>1 DEF CreateTimer
  <2>7. CASE \/ LoopExitCB \/ TurnEnds \/ LoopReturns \/ OnTimerReturns
             \/ InitBase \/ StopDispatch \/ dispatch \/ UNCHANGED timerVars
    BY <2>7, <2>1
       DEF LoopExitCB, TurnEnds, LoopReturns, OnTimerReturns, InitBase, StopDispatch, dispatch,
           timerVars
  <2> QED
    BY <1>1, <2>2, <2>3, <2>4, <2>5, <2>6, <2>7 DEF TimerNext, UserStep, LoopStep
<1> QED BY <1>1, TimerInvAlways, PTL DEF TimerSpec, LoopStaysArmed
=============================================================================
