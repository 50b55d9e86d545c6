------------------------------- MODULE AeLoop -------------------------------
(***************************************************************************)
(* The file events of the event loop under RedisConn: ae.c and ae_epoll.c, *)
(* driven by the adapter libae.h.  Each context has an attachment (struct  *)
(* redisAeEvents) that remembers which events it asked for; the loop keeps *)
(* a mask and a pointer to an attachment for each descriptor, and epoll    *)
(* keeps its interest.  aeProcessEvents takes a batch of fired events from *)
(* epoll and works through it; the callbacks ask for events, close their   *)
(* own descriptor or any other, and open new ones, which get the lowest    *)
(* free number, while the rest of the batch waits.                         *)
(*                                                                         *)
(* Time events are the timer of RedisConn (TimerCb) and not repeated here. *)
(***************************************************************************)
EXTENDS Integers, FiniteSetsExt, SequencesExt

CONSTANTS
  Att,       \* addresses of redisAeEvents
  MaxFd,     \* bound: descriptors are 0 .. MaxFd
  setsize,   \* aeCreateEventLoop(setsize)
  NoAtt

ASSUME AeConstants == NoAtt \notin Att /\ MaxFd \in Nat /\ setsize \in Nat \ {0}

Fd == 0 .. MaxFd
Events == {"READABLE", "WRITABLE"}

VARIABLES
  att,       \* [Att -> fd, or -1 if it is not allocated, and what it asked for]
  file,      \* [Fd -> aeFileEvent: mask and clientData]
  epoll,     \* [Fd -> the events epoll watches]
  maxfd,
  fired,     \* what is left of the batch
  calling    \* the callback that runs: event, clientData, fd; at : where the loop is

aeVars == <<att, file, epoll, maxfd, fired, calling>>

NoAttachment == [fd |-> -1, wants |-> {}]
NotCalling == [at |-> "off", e |-> NoAtt, event |-> "none"]

AeInit ==
  /\ att = [e \in Att |-> NoAttachment]
  /\ file = [fd \in Fd |-> [mask |-> {}, data |-> NoAtt]]
  /\ epoll = [fd \in Fd |-> {}]
  /\ maxfd = -1 /\ fired = <<>> /\ calling = NotCalling

(***************************************************************************)
(* ae.c.                                                                   *)
(***************************************************************************)
Allocated == {e \in Att : att[e].fd # -1}
Highest(f) == Max({-1} \cup {fd \in Fd : f[fd].mask # {}})

\* A descriptor that does not fit is refused (AE_ERR), which nobody looks at.
aeCreateFileEvent(e, fd, mask) ==
  IF fd >= setsize THEN UNCHANGED <<file, epoll, maxfd>>
  ELSE /\ epoll' = [epoll EXCEPT ![fd] = file[fd].mask \cup mask]
       /\ file' = [file EXCEPT ![fd] = [mask |-> @.mask \cup mask, data |-> e]]
       /\ maxfd' = IF fd > maxfd THEN fd ELSE maxfd

\* Mutant: maxfd is lowered by one instead of to the next descriptor in use.
aeDeleteFileEventNextMax(fd, mask) ==
  IF fd >= setsize \/ file[fd].mask = {} THEN UNCHANGED <<file, epoll, maxfd>>
  ELSE LET f == [file EXCEPT ![fd].mask = @ \ mask]
       IN /\ epoll' = [epoll EXCEPT ![fd] = f[fd].mask]
          /\ file' = f
          /\ maxfd' = IF fd = maxfd /\ f[fd].mask = {} THEN fd - 1 ELSE maxfd

aeDeleteFileEvent(fd, mask) ==
  IF fd >= setsize \/ file[fd].mask = {} THEN UNCHANGED <<file, epoll, maxfd>>
  ELSE LET f == [file EXCEPT ![fd].mask = @ \ mask]
       IN /\ epoll' = [epoll EXCEPT ![fd] = f[fd].mask]
          /\ file' = f
          /\ maxfd' = IF fd = maxfd /\ f[fd].mask = {} THEN Highest(f) ELSE maxfd

(***************************************************************************)
(* libae.h, called by hiredis in the callbacks and outside the loop.       *)
(***************************************************************************)
UserTurn == calling.at \in {"off", "callback"}

\* redisAsyncConnect and redisAeAttach: a new socket and its attachment.
Attach(e) ==
  /\ UserTurn /\ e \notin Allocated
  /\ LET free == Fd \ {att[d].fd : d \in Att}
     IN free # {} /\ att' = [att EXCEPT ![e] = [fd |-> Min(free), wants |-> {}]]
  /\ UNCHANGED <<file, epoll, maxfd, fired, calling>>

\* redisAeAddRead, redisAeAddWrite.
Add(e, event) ==
  /\ UserTurn /\ e \in Allocated /\ event \notin att[e].wants
  /\ att' = [att EXCEPT ![e].wants = @ \cup {event}]
  /\ aeCreateFileEvent(e, att[e].fd, {event})
  /\ UNCHANGED <<fired, calling>>

\* redisAeDelWrite; redisAeDelRead is called by redisAeCleanup only.
DelWrite(e) ==
  /\ UserTurn /\ e \in Allocated /\ "WRITABLE" \in att[e].wants
  /\ att' = [att EXCEPT ![e].wants = @ \ {"WRITABLE"}]
  /\ aeDeleteFileEvent(att[e].fd, {"WRITABLE"})
  /\ UNCHANGED <<fired, calling>>

\* Mutant: the read event is left with the loop.
CleanupKeepsRead(e) ==
  /\ UserTurn /\ e \in Allocated
  /\ att' = [att EXCEPT ![e] = NoAttachment]
  /\ aeDeleteFileEvent(att[e].fd, {"WRITABLE"})
  /\ UNCHANGED <<fired, calling>>

\* redisAeCleanup, then close(fd), as __redisAsyncFree and redisFree do.
\* Deleting no event at all when none is wanted is left to aeDeleteFileEvent.
Cleanup(e) ==
  /\ UserTurn /\ e \in Allocated
  /\ att' = [att EXCEPT ![e] = NoAttachment]
  /\ aeDeleteFileEvent(att[e].fd, att[e].wants)
  /\ UNCHANGED <<fired, calling>>

(***************************************************************************)
(* aeProcessEvents with AE_DONT_WAIT.                                      *)
(***************************************************************************)
\* What epoll_wait may report of fd: what is watched, and errors and hang-ups,
\* which aeApiPoll turns into WRITABLE and nothing else.
Reports(fd) ==
  IF epoll[fd] = {} THEN {} ELSE SUBSET (epoll[fd] \cup {"WRITABLE"}) \ {{}}

\* Without a descriptor in use epoll is not asked.
aeApiPoll(fds) ==
  /\ calling.at = "off" /\ maxfd # -1
  /\ fds # {} /\ \A fd \in fds : Reports(fd) # {}
  /\ \E order \in SetToSeqs(fds), mask \in [fds -> SUBSET Events] :
       /\ \A fd \in fds : mask[fd] \in Reports(fd)
       /\ fired' = [j \in DOMAIN order |-> [fd |-> order[j], mask |-> mask[order[j]]]]
  /\ calling' = [calling EXCEPT !.at = "read"]
  /\ UNCHANGED <<att, file, epoll, maxfd>>

\* Mutant: fe->mask is not looked at again.
StillValidAlways(f, event) == event \in f.mask

\* fe->mask & mask & event, with the mask of now.
StillValid(f, event) == event \in file[f.fd].mask \cap f.mask

Call(f, event) == [at |-> "callback", e |-> file[f.fd].data, event |-> event]

\* rfileProc, if the event is still wanted.
FireRead ==
  /\ calling.at = "read"
  /\ calling' = IF StillValid(Head(fired), "READABLE")
                THEN Call(Head(fired), "READABLE") ELSE [calling EXCEPT !.at = "write"]
  /\ UNCHANGED <<att, file, epoll, maxfd, fired>>

\* wfileProc, which is never the same as rfileProc here, then the next event.
FireWrite ==
  /\ calling.at = "write"
  /\ fired' = Tail(fired)
  /\ calling' = IF StillValid(Head(fired), "WRITABLE") THEN Call(Head(fired), "WRITABLE")
                ELSE IF fired' = <<>> THEN NotCalling ELSE [calling EXCEPT !.at = "read"]
  /\ UNCHANGED <<att, file, epoll, maxfd>>

CallbackReturns ==
  /\ calling.at = "callback"
  /\ calling' = IF calling.event = "READABLE" THEN [NotCalling EXCEPT !.at = "write"]
                ELSE IF fired = <<>> THEN NotCalling ELSE [NotCalling EXCEPT !.at = "read"]
  /\ UNCHANGED <<att, file, epoll, maxfd, fired>>

AeNext ==
  \/ \E e \in Att : \/ Attach(e) \/ DelWrite(e) \/ Cleanup(e)
                    \/ \E event \in Events : Add(e, event)
  \/ \E fds \in SUBSET Fd : aeApiPoll(fds)
  \/ FireRead \/ FireWrite \/ CallbackReturns

AeSpec == AeInit /\ [][AeNext]_aeVars

(***************************************************************************)
(* Properties.                                                             *)
(***************************************************************************)
AeTypeOK ==
  /\ att \in [Att -> [fd : Fd \cup {-1}, wants : SUBSET Events]]
  /\ file \in [Fd -> [mask : SUBSET Events, data : Att \cup {NoAtt}]]
  /\ epoll \in [Fd -> SUBSET Events]
  /\ maxfd \in -1 .. MaxFd
  /\ \A j \in DOMAIN fired : fired[j] \in [fd : Fd, mask : SUBSET Events]
  /\ calling \in [at : {"off", "read", "write", "callback"}, e : Att \cup {NoAtt},
                  event : Events \cup {"none"}]

\* What the three layers know of a descriptor agrees, whatever callbacks close
\* and open: epoll watches exactly what the attachment of the descriptor asked
\* for, the loop points to that attachment, nothing is watched for a descriptor
\* that is closed, and maxfd, without which nothing is polled, is exact.
LayersAgree ==
  /\ \A fd \in Fd : epoll[fd] = file[fd].mask
  /\ \A e \in Allocated : att[e].fd < setsize => file[att[e].fd].mask = att[e].wants
  /\ \A fd \in Fd : file[fd].mask # {} => att[file[fd].data].fd = fd
  /\ maxfd = Highest(file)

\* ae.c:397: an event of the batch that an earlier callback made pointless is
\* not delivered: a callback starts only for an attachment that exists and
\* asked for this event, never for one that was freed meanwhile.
CallbacksCurrent ==
  [][calling'.at = "callback" /\ calling.at # "callback"
       => calling'.e \in Allocated /\ calling'.event \in att[calling'.e].wants]_aeVars
=============================================================================
