------------------------------ MODULE LeTimer ------------------------------
(***************************************************************************)
(* BaseLeTimer (timer_mgr.cc) on the event loop of LibEventMgr             *)
(* (lev_mgr.cc).  A timer owns at most one libevent event; the loop keeps  *)
(* the events, moves those whose time is up to its active queue, and calls *)
(* TimerCB for each of them.  User code runs outside dispatch() or inside  *)
(* OnTimer, where it may start, stop, delete or create any timer, the one  *)
(* being called included, and ask the loop to stop.                        *)
(*                                                                         *)
(* libevent itself is external: an event is idle, pending in the timeout   *)
(* heap, or active; a persistent one is pending again before its callback  *)
(* runs, and freeing or deleting an event takes it out of both queues.     *)
(***************************************************************************)
EXTENDS Naturals, FiniteSets

CONSTANTS
  Timer,      \* the BaseLeTimer objects user code may create
  Event,      \* the addresses event_new can return
  NoTimer, NoEvent   \* null pointers

ASSUME TimerConstants == NoTimer \notin Timer /\ NoEvent \notin Event

VARIABLES
  eb,         \* LibEventMgr::m_eb is set
  timers,     \* the timers that exist
  tm,         \* [Timer -> m_event, m_state, and is_loop of the last start]
  events,     \* the events event_new returned and nobody freed
  ev,         \* [Event -> callback argument, EV_PERSIST, queue]
  loop        \* the dispatch() in progress, and whether StopDispatch was called for it

timerVars == <<eb, timers, tm, events, ev, loop>>

FreshTimer == [event |-> NoEvent, state |-> "S_WAIT_START_TIMER", loop |-> FALSE]
BlankEvent == [arg |-> NoTimer, persist |-> FALSE, queue |-> "idle"]
OffLoop == [at |-> "off", cb |-> NoTimer, exit |-> "no", stop |-> FALSE]

TimerInit ==
  /\ eb = FALSE /\ timers = {} /\ events = {}
  /\ tm = [t \in Timer |-> FreshTimer]
  /\ ev = [e \in Event |-> BlankEvent]
  /\ loop = OffLoop

\* User code runs before and after dispatch() and inside OnTimer.
UserRuns == loop.at = "off" \/ loop.cb # NoTimer

(***************************************************************************)
(* libevent.                                                               *)
(***************************************************************************)
\* event_free of m_event, if there is one: event_del, then the memory is gone.
Freed(t) == events \ {tm[t].event}
ClearedEv(t) == [e \in Event |-> IF e = tm[t].event THEN BlankEvent ELSE ev[e]]

(***************************************************************************)
(* BaseLeTimer.                                                            *)
(***************************************************************************)
CreateTimer(t) ==
  /\ UserRuns /\ t \notin timers /\ loop.cb # t
  /\ timers' = timers \cup {t}
  /\ UNCHANGED <<eb, tm, events, ev, loop>>

DeleteTimer(t) ==
  /\ UserRuns /\ t \in timers
  /\ timers' = timers \ {t}
  /\ events' = Freed(t)
  /\ ev' = ClearedEv(t)
  /\ tm' = [tm EXCEPT ![t] = FreshTimer]
  /\ UNCHANGED <<eb, loop>>

\* The event of the last start is freed before the new one is made.  Without
\* an event base event_add fails, which is logged and otherwise ignored.
StartTimer(t, is_loop) ==
  /\ UserRuns /\ t \in timers
  /\ tm[t].state = "S_WAIT_START_TIMER"
  /\ \E e \in Event \ Freed(t) :
       /\ events' = Freed(t) \cup {e}
       /\ ev' = [ClearedEv(t) EXCEPT ![e] =
                   [arg |-> t, persist |-> is_loop,
                    queue |-> IF eb THEN "pending" ELSE "idle"]]
       /\ tm' = [tm EXCEPT ![t] = [event |-> e, state |-> "S_WAIT_TIME_OUT", loop |-> is_loop]]
  /\ UNCHANGED <<eb, timers, loop>>

\* Mutant: event_del is forgotten.
StopTimerKeepsEvent(t) ==
  /\ UserRuns /\ t \in timers
  /\ tm[t].event # NoEvent /\ tm[t].state = "S_WAIT_TIME_OUT"
  /\ tm' = [tm EXCEPT ![t].state = "S_WAIT_START_TIMER"]
  /\ UNCHANGED <<eb, timers, events, ev, loop>>

StopTimer(t) ==
  /\ UserRuns /\ t \in timers
  /\ tm[t].event # NoEvent /\ tm[t].state = "S_WAIT_TIME_OUT"
  /\ ev' = [ev EXCEPT ![tm[t].event].queue = "idle"]
  /\ tm' = [tm EXCEPT ![t].state = "S_WAIT_START_TIMER"]
  /\ UNCHANGED <<eb, timers, events, loop>>

\* Mutant: OnTimer is not called.
TimerCBSilent(e) ==
  /\ loop.at = "run" /\ loop.cb = NoTimer
  /\ e \in events /\ ev[e].queue = "active"
  /\ ev' = [ev EXCEPT ![e].queue = IF ev[e].persist THEN "pending" ELSE "idle"]
  /\ loop' = [loop EXCEPT !.cb = NoTimer]
  /\ UNCHANGED <<eb, timers, tm, events>>

\* TimerCB calls OnTimer and touches neither the state nor, afterwards, the
\* object.
TimerCB(e) ==
  /\ loop.at = "run" /\ loop.cb = NoTimer
  /\ e \in events /\ ev[e].queue = "active"
  /\ ev' = [ev EXCEPT ![e].queue = IF ev[e].persist THEN "pending" ELSE "idle"]
  /\ loop' = [loop EXCEPT !.cb = ev[e].arg]
  /\ UNCHANGED <<eb, timers, tm, events>>

OnTimerReturns ==
  /\ loop.cb # NoTimer
  /\ loop' = [loop EXCEPT !.cb = NoTimer]
  /\ UNCHANGED <<eb, timers, tm, events, ev>>

(***************************************************************************)
(* LibEventMgr.                                                            *)
(***************************************************************************)
InitBase ==
  /\ UserRuns /\ ~eb
  /\ eb' = TRUE
  /\ UNCHANGED <<timers, tm, events, ev, loop>>

\* A new loop forgets that an earlier one was told to leave.
dispatch ==
  /\ loop.at = "off" /\ eb
  /\ loop' = [loop EXCEPT !.at = "poll", !.exit = IF @ = "term" THEN "no" ELSE @]
  /\ UNCHANGED <<eb, timers, tm, events, ev>>

\* event_base_loopexit(m_eb, NULL) queues an event of its own, which is
\* active at once and runs among those of the same turn.
StopDispatch ==
  /\ UserRuns /\ eb /\ loop.exit # "asked"
  /\ loop' = [loop EXCEPT !.exit = "asked", !.stop = TRUE]
  /\ UNCHANGED <<eb, timers, tm, events, ev>>

(***************************************************************************)
(* One turn of event_base_loop.                                            *)
(***************************************************************************)
Queued(q) == {e \in events : ev[e].queue = q}

\* The time of the events in es is up; with the loop's own exit event queued
\* the turn need not wait for any.
Poll(es) ==
  /\ loop.at = "poll" /\ loop.exit # "term"
  /\ es # {} \/ Queued("active") # {} \/ loop.exit = "asked"
  /\ ev' = [e \in Event |-> IF e \in es THEN [ev[e] EXCEPT !.queue = "active"] ELSE ev[e]]
  /\ loop' = [loop EXCEPT !.at = "run"]
  /\ UNCHANGED <<eb, timers, tm, events>>

LoopExitCB ==
  /\ loop.at = "run" /\ loop.cb = NoTimer /\ loop.exit = "asked"
  /\ loop' = [loop EXCEPT !.exit = "term"]
  /\ UNCHANGED <<eb, timers, tm, events, ev>>

TurnEnds ==
  /\ loop.at = "run" /\ loop.cb = NoTimer
  /\ loop.exit # "asked" /\ Queued("active") = {}
  /\ loop' = [loop EXCEPT !.at = "poll"]
  /\ UNCHANGED <<eb, timers, tm, events, ev>>

\* The loop returns when told to, or when no event is left to wait for.
LoopReturns ==
  /\ loop.at = "poll"
  /\ loop.exit = "term" \/ (loop.exit = "no" /\ Queued("pending") \cup Queued("active") = {})
  /\ loop' = [loop EXCEPT !.at = "off", !.stop = FALSE]
  /\ UNCHANGED <<eb, timers, tm, events, ev>>

LoopStep ==
  \/ \E es \in SUBSET Queued("pending") : Poll(es)
  \/ \E e \in Event : TimerCB(e)
  \/ LoopExitCB \/ TurnEnds \/ LoopReturns

UserStep ==
  \/ \E t \in Timer : CreateTimer(t) \/ DeleteTimer(t) \/ StopTimer(t)
  \/ \E t \in Timer, is_loop \in BOOLEAN : StartTimer(t, is_loop)
  \/ InitBase \/ StopDispatch \/ dispatch

TimerNext == UserStep \/ LoopStep \/ OnTimerReturns

TimerSpec == TimerInit /\ [][TimerNext]_timerVars

\* The thread inside dispatch() runs, OnTimer returns, and the clock passes
\* the deadline of an event that stays pending however often the loop turns.
TimerFairness ==
  /\ WF_timerVars(LoopStep) /\ WF_timerVars(OnTimerReturns) /\ WF_timerVars(LoopExitCB)
  /\ \A e \in Event :
       SF_timerVars(\E es \in SUBSET Queued("pending") : e \in es /\ Poll(es))

(***************************************************************************)
(* Properties.                                                             *)
(***************************************************************************)
TimerTypeOK ==
  /\ eb \in BOOLEAN /\ timers \subseteq Timer /\ events \subseteq Event
  /\ tm \in [Timer -> [event : Event \cup {NoEvent},
                       state : {"S_WAIT_START_TIMER", "S_WAIT_TIME_OUT"}, loop : BOOLEAN]]
  /\ ev \in [Event -> [arg : Timer \cup {NoTimer}, persist : BOOLEAN,
                       queue : {"idle", "pending", "active"}]]
  /\ loop \in [at : {"off", "poll", "run"}, cb : Timer \cup {NoTimer},
               exit : {"no", "asked", "term"}, stop : BOOLEAN]

Armed(t) == tm[t].event # NoEvent /\ ev[tm[t].event].queue # "idle"

\* timer_mgr.h:36: no event is leaked and none calls back a timer that does
\* not exist: whatever a callback stops, restarts or deletes, each event that
\* libevent holds is the m_event of a timer that still exists.
EventsOwned ==
  \A e \in events : ev[e].arg \in timers /\ tm[ev[e].arg].event = e

\* A timer whose StopTimer returned, or that was never started, is in none of
\* the loop's queues: its OnTimer stays silent until the next StartTimer, even
\* when its event was already active in the same turn as the callback that
\* stopped it.
StoppedIsSilent ==
  \A t \in timers : tm[t].state = "S_WAIT_START_TIMER" => ~Armed(t)

\* Every event belongs to a timer that waits for it, and to no other.
EventsExact == EventsOwned /\ StoppedIsSilent

\* lev_mgr.cc:88: StopDispatch makes dispatch() return after the callbacks of
\* the events that are active, even if it is called before dispatch().
StopEnds == loop.stop /\ loop.at # "off" ~> loop.at = "off"

\* A started timer calls OnTimer while the loop runs, unless it is stopped or
\* deleted first.
ArmedFires ==
  \A t \in Timer :
    t \in timers /\ Armed(t) /\ loop.at # "off"
      ~> loop.cb = t \/ loop.at = "off" \/ ~(t \in timers /\ Armed(t))

\* A loop timer started on an event base stays armed, through its own
\* callbacks and those of others, until it is stopped or deleted.
LoopStaysArmed ==
  [][\A t \in timers \cap timers' :
       /\ Armed(t) /\ tm[t].loop
       /\ tm'[t].state = "S_WAIT_TIME_OUT" /\ tm'[t].loop
       => Armed(t)']_timerVars

\* What user code relies on the loop for: timers that are waited for go off, as
\* often as asked, and the loop ends when told to.
LoopServes == ArmedFires /\ LoopStaysArmed /\ StopEnds
=============================================================================
