------------------------------ MODULE AeTimer ------------------------------
(***************************************************************************)
(* The time event of the redis event loop (ae.c): HiredisEventMgr makes    *)
(* one, whose callback TimerCb reconnects lost connections and asks to be  *)
(* called again after TIMER_MILLISECONDS.  The loop compares the time it   *)
(* is due with the clock of the system, which somebody may set at any      *)
(* moment; processTimeEvents tries to notice when it was set back.         *)
(*                                                                         *)
(* A millisecond is a step of the clock.  The callback may take time, and  *)
(* so may every other step of the loop.                                    *)
(***************************************************************************)
EXTENDS Integers

CONSTANTS
  Second,               \* milliseconds of a second (1000)
  TIMER_MILLISECONDS,
  MaxClock,             \* bound: the last time of the clock
  MaxBusy               \* bound: milliseconds one call of processTimeEvents takes

ASSUME TimeConstants ==
  /\ Second \in Nat \ {0} /\ TIMER_MILLISECONDS \in Nat \ {0}
  /\ MaxClock \in Nat /\ MaxBusy \in Nat

Clock == Second .. MaxClock   \* after the first second of 1970

VARIABLES
  clock,      \* gettimeofday, in milliseconds
  lastTime,   \* the second processTimeEvents ran last
  te,         \* the aeTimeEvent: when_sec and when_ms
  at,         \* where the loop is
  busy,       \* how long processTimeEvents has been running; how long it had, and
  moved,      \*   whether the clock was set meanwhile: now, and when te was armed
  waited,     \* milliseconds since te was armed, up to TIMER_MILLISECONDS
  set         \* the clock was set since te was armed

timeVars == <<clock, lastTime, te, at, busy, moved, waited, set>>

Sec(t) == t \div Second
Ms(t) == t % Second
Due == te.when_sec * Second + te.when_ms

\* aeCreateEventLoop; the time event is not there yet.
TimeInit ==
  /\ clock \in Clock /\ lastTime = Sec(clock)
  /\ te = [when_sec |-> 0, when_ms |-> 0] /\ at = "init"
  /\ busy = [now |-> 0, armed |-> 0] /\ moved = [now |-> FALSE, armed |-> FALSE]
  /\ waited = 0 /\ set = FALSE

Elapse ==
  /\ clock < MaxClock /\ (at # "idle" => busy.now < MaxBusy)
  /\ clock' = clock + 1
  /\ busy' = IF at = "idle" THEN busy ELSE [busy EXCEPT !.now = @ + 1]
  /\ waited' = IF waited < TIMER_MILLISECONDS THEN waited + 1 ELSE waited
  /\ UNCHANGED <<lastTime, te, at, moved, set>>

SetClock(t) ==
  /\ clock' = t /\ set' = TRUE
  /\ moved' = IF at = "idle" THEN moved ELSE [moved EXCEPT !.now = TRUE]
  /\ UNCHANGED <<lastTime, te, at, busy, waited>>

\* The second and the millisecond that lie TIMER_MILLISECONDS ahead.
aeAddMillisecondsToNow ==
  LET when_sec == Sec(clock) + Sec(TIMER_MILLISECONDS)
      when_ms == Ms(clock) + Ms(TIMER_MILLISECONDS)
  IN IF when_ms >= Second
     THEN [when_sec |-> when_sec + 1, when_ms |-> when_ms - Second]
     ELSE [when_sec |-> when_sec, when_ms |-> when_ms]

Arm ==
  /\ te' = aeAddMillisecondsToNow
  /\ busy' = [busy EXCEPT !.armed = busy.now] /\ moved' = [moved EXCEPT !.armed = moved.now]
  /\ waited' = 0 /\ set' = FALSE

aeCreateTimeEvent ==
  /\ at = "init" /\ at' = "idle" /\ Arm
  /\ UNCHANGED <<clock, lastTime>>

\* Mutant: lastTime stays the time of aeCreateEventLoop.
BeginTimeEventsForgets ==
  /\ at = "idle" /\ at' = "look"
  /\ te' = IF Sec(clock) < lastTime THEN [te EXCEPT !.when_sec = 0] ELSE te
  /\ busy' = [busy EXCEPT !.now = 0] /\ moved' = [moved EXCEPT !.now = FALSE]
  /\ UNCHANGED <<clock, lastTime, waited, set>>

\* processTimeEvents up to its loop: a clock that went back makes te due at once.
BeginTimeEvents ==
  /\ at = "idle" /\ at' = "look"
  /\ te' = IF Sec(clock) < lastTime THEN [te EXCEPT !.when_sec = 0] ELSE te
  /\ lastTime' = Sec(clock)
  /\ busy' = [busy EXCEPT !.now = 0] /\ moved' = [moved EXCEPT !.now = FALSE]
  /\ UNCHANGED <<clock, waited, set>>

IsDue == \/ Sec(clock) > te.when_sec
         \/ Sec(clock) = te.when_sec /\ Ms(clock) >= te.when_ms

CallTimer ==
  /\ at = "look" /\ IsDue /\ at' = "timeProc"
  /\ UNCHANGED <<clock, lastTime, te, busy, moved, waited, set>>

\* te is armed again, and the list is looked through from its head again.
TimerReturns ==
  /\ at = "timeProc" /\ at' = "look" /\ Arm
  /\ UNCHANGED <<clock, lastTime>>

EndTimeEvents ==
  /\ at = "look" /\ ~IsDue /\ at' = "idle"
  /\ UNCHANGED <<clock, lastTime, te, busy, moved, waited, set>>

TimeNext ==
  \/ Elapse \/ \E t \in Clock : SetClock(t)
  \/ aeCreateTimeEvent \/ BeginTimeEvents \/ CallTimer \/ TimerReturns \/ EndTimeEvents

TimeSpec == TimeInit /\ [][TimeNext]_timeVars

(***************************************************************************)
(* Properties.                                                             *)
(***************************************************************************)
TimeTypeOK ==
  /\ clock \in Clock /\ lastTime \in Nat /\ te \in [when_sec : Nat, when_ms : 0 .. Second - 1]
  /\ at \in {"init", "idle", "look", "timeProc"}
  /\ busy \in [now : 0 .. MaxBusy, armed : 0 .. MaxBusy]
  /\ moved \in [now : BOOLEAN, armed : BOOLEAN]
  /\ waited \in 0 .. TIMER_MILLISECONDS /\ set \in BOOLEAN

\* ae.c:285 "force all the time events to be processed ASAP when this happens":
\* wherever the clock is set to, the reconnect timer is never put off.  When the
\* loop has looked at it and not called it, it is due within its interval, a
\* second - by which the clock may go back unnoticed - and what processing took.
\* The exception is a clock set in the middle of processTimeEvents, between the
\* two times it is read.  And it is called early only after the clock was set.
TimerOnTime ==
  [][/\ at = "look" /\ at' = "idle" =>
          moved.now \/ moved.armed \/ Due - clock < TIMER_MILLISECONDS + Second + busy.armed
     /\ at' = "timeProc" /\ at = "look" =>
          moved.armed \/ set \/ waited = TIMER_MILLISECONDS]_timeVars
=============================================================================
