--------------------------- MODULE SingleProgress ---------------------------
(***************************************************************************)
(* SingleProgress and file_lock (single_progress.cpp): processes that call *)
(* CheckSingle to be the only one of their name, and processes that call   *)
(* StopSingle to make that one leave.  The lock is a POSIX record lock on  *)
(* "./<name>.lock": the kernel keeps it for a process until lockf(F_ULOCK) *)
(* or the end of the process, whatever ends it.                            *)
(***************************************************************************)
EXTENDS Naturals, FiniteSets

CONSTANTS
  Proc,      \* process ids of the program, which the system may use again
  Stopper,   \* processes that call StopSingle
  NoProc

ASSUME SingleConstants == NoProc \notin Proc

VARIABLES
  pc,        \* [Proc -> how far the process is]
  m_is_exit, \* [Proc -> SingleProgress::m_is_exit]
  fileMade,  \* the lock file exists
  holder,    \* the process the kernel keeps the lock for
  target     \* [Stopper -> the pid F_GETLK reported, not yet signalled]

singleVars == <<pc, m_is_exit, fileMade, holder, target>>

SingleInit ==
  /\ pc = [p \in Proc |-> "none"]
  /\ m_is_exit = [p \in Proc |-> FALSE]
  /\ fileMade = FALSE /\ holder = NoProc
  /\ target = [s \in Stopper |-> NoProc]

At(p, here, there) == pc[p] = here /\ pc' = [pc EXCEPT ![p] = there]

\* The process ends: the kernel releases its lock.
Gone(p) ==
  /\ pc' = [pc EXCEPT ![p] = "none"]
  /\ m_is_exit' = [m_is_exit EXCEPT ![p] = FALSE]
  /\ holder' = IF holder = p THEN NoProc ELSE holder

\* file_lock::lock, first half: open creates the file (if it cannot, the
\* process ends as in Dies).
LockOpens(p) ==
  /\ At(p, "none", "opened")
  /\ fileMade' = TRUE
  /\ UNCHANGED <<m_is_exit, holder, target>>

\* lockf(F_TEST): a lock of another process makes CheckSingle exit(1).
LockTests(p) ==
  /\ IF holder \in {NoProc, p}
     THEN At(p, "opened", "tested") /\ UNCHANGED <<m_is_exit, holder>>
     ELSE pc[p] = "opened" /\ Gone(p)
  /\ UNCHANGED <<fileMade, target>>

\* Mutant: the result of F_TEST is trusted, the lock not waited for.
LockTakenUnchecked(p) ==
  /\ At(p, "tested", "locked")
  /\ holder' = p
  /\ UNCHANGED <<m_is_exit, fileMade, target>>

\* lockf(F_LOCK) waits until the lock is free.
LockTaken(p) ==
  /\ At(p, "tested", "locked")
  /\ holder \in {NoProc, p}
  /\ holder' = p
  /\ UNCHANGED <<m_is_exit, fileMade, target>>

\* The rest of CheckSingle: signal(SIGUSR1, catch_signal).
CatchesSignal(p) ==
  /\ At(p, "locked", "running")
  /\ UNCHANGED <<m_is_exit, fileMade, holder, target>>

\* Mutant: IsExit clears the flag and the program does not leave.
TimerForgetsExit(p) ==
  /\ At(p, "running", "running") /\ m_is_exit[p]
  /\ m_is_exit' = [m_is_exit EXCEPT ![p] = FALSE]
  /\ UNCHANGED <<fileMade, holder, target>>

\* The timer of the program finds IsExit() and runs the user's clean-up.
TimerSeesExit(p) ==
  /\ At(p, "running", "leaving") /\ m_is_exit[p]
  /\ UNCHANGED <<m_is_exit, fileMade, holder, target>>

\* exit(): ~file_lock unlocks, and the process ends.
Leaves(p) == pc[p] = "leaving" /\ Gone(p) /\ UNCHANGED <<fileMade, target>>

\* The process ends by itself or by a signal of somebody else, at any point.
Dies(p) == pc[p] # "none" /\ Gone(p) /\ UNCHANGED <<fileMade, target>>

\* Mutant: l_pid is used although no lock was found.
StopLooksUnchecked(s) ==
  /\ target[s] = NoProc /\ fileMade
  /\ target' = [target EXCEPT ![s] = IF holder = NoProc THEN s ELSE holder]
  /\ UNCHANGED <<pc, m_is_exit, fileMade, holder>>

\* file_lock::kill, first half: open without O_CREAT, then F_GETLK.
StopLooks(s) ==
  /\ target[s] = NoProc /\ fileMade
  /\ target' = [target EXCEPT ![s] = holder]
  /\ UNCHANGED <<pc, m_is_exit, fileMade, holder>>

\* Second half: ::kill of the pid read before.  Until CheckSingle has
\* installed catch_signal, SIGUSR1 ends the process it reaches.
StopSignals(s) ==
  /\ target[s] # NoProc
  /\ target' = [target EXCEPT ![s] = NoProc]
  /\ LET p == target[s]
     IN CASE pc[p] = "none" -> UNCHANGED <<pc, m_is_exit, holder>>
          [] pc[p] \in {"opened", "tested", "locked"} -> Gone(p)
          [] pc[p] \in {"running", "leaving"} ->
               m_is_exit' = [m_is_exit EXCEPT ![p] = TRUE] /\ UNCHANGED <<pc, holder>>
  /\ UNCHANGED fileMade

ProcStep(p) ==
  LockOpens(p) \/ LockTests(p) \/ LockTaken(p) \/ CatchesSignal(p)
    \/ TimerSeesExit(p) \/ Leaves(p) \/ Dies(p)

SingleNext ==
  \/ \E p \in Proc : ProcStep(p)
  \/ \E s \in Stopper : StopLooks(s) \/ StopSignals(s)

SingleSpec == SingleInit /\ [][SingleNext]_singleVars

\* A process that is not blocked runs, and its timer goes off.
SingleFairness ==
  \A p \in Proc :
    /\ WF_singleVars(LockTests(p)) /\ WF_singleVars(CatchesSignal(p))
    /\ WF_singleVars(TimerSeesExit(p)) /\ WF_singleVars(Leaves(p))
    /\ SF_singleVars(LockTaken(p))

(***************************************************************************)
(* Properties.                                                             *)
(***************************************************************************)
SingleTypeOK ==
  /\ pc \in [Proc -> {"none", "opened", "tested", "locked", "running", "leaving"}]
  /\ m_is_exit \in [Proc -> BOOLEAN]
  /\ fileMade \in BOOLEAN /\ holder \in Proc \cup {NoProc}
  /\ target \in [Stopper -> Proc \cup {NoProc}]

\* Past file_lock::lock: what CheckSingle is there to allow one process at a time.
Admitted(p) == pc[p] \in {"locked", "running", "leaving"}

\* The lock the kernel keeps is that of the process which was admitted, so
\* that StopSingle, which trusts the pid it reads, cannot pick another one
\* that runs.
HolderAdmitted == \A p \in Proc : Admitted(p) <=> holder = p

\* single_progress.hpp:61: CheckSingle makes the process unique, however the
\* test and the lock of several starting processes interleave, whichever of
\* them die and whatever signals are on their way; and the lock tells which.
OnlyOne == HolderAdmitted /\ \A p, q \in Proc : Admitted(p) /\ Admitted(q) => p = q

\* single_progress.hpp:64: a process that was told to leave does, once its
\* timer has looked at IsExit, and its lock goes with it.
ToldLeaves == \A p \in Proc : m_is_exit[p] ~> pc[p] = "none" /\ holder # p
=============================================================================
