------------------------------- MODULE MCLoop -------------------------------
(***************************************************************************)
(* Timers, HTTP requests and the single process share no state; they are   *)
(* checked in one run.  The variable subject picks, once, the part whose   *)
(* steps are taken; the others stay in their initial state, where none of  *)
(* the actions their fairness is about is enabled.                         *)
(***************************************************************************)
EXTENDS LeTimer, HttpSvr, SingleProgress

VARIABLE subject

allVars == <<subject, timerVars, pairVars, singleVars>>

Init ==
  /\ subject \in {"timer", "http", "single"}
  /\ TimerInit /\ PairInit /\ SingleInit

TimerTurn == subject = "timer" /\ TimerNext /\ UNCHANGED <<subject, pairVars, singleVars>>
HttpTurn == subject = "http" /\ PairNext /\ UNCHANGED <<subject, timerVars, singleVars>>
SingleTurn == subject = "single" /\ SingleNext /\ UNCHANGED <<subject, timerVars, pairVars>>

Next == TimerTurn \/ HttpTurn \/ SingleTurn

Spec == Init /\ [][Next]_allVars /\ TimerFairness /\ HttpFairness /\ SingleFairness

\* Every part has its type.
PartsTypeOK == TimerTypeOK /\ HttpTypeOK /\ SvrTypeOK /\ SingleTypeOK
=============================================================================
