---------------------------- MODULE AeLoopProofs ----------------------------
(***************************************************************************)
(* The attachments of libae.h, the table of ae.c and the interest of epoll *)
(* agree, maxfd is exact and no callback starts for an attachment that is  *)
(* gone: for any number of attachments and descriptors and any setsize.    *)
(*                                                                         *)
(* LayersAgree speaks of the attachment the table points to.  That it is   *)
(* the only one with that descriptor (Distinct), and that a descriptor     *)
(* without an attachment has no entry, is what a reused descriptor needs.  *)
(*                                                                         *)
(* The time event of the loop (AeTimer) follows at the end: TimerOnTime    *)
(* for any length of a second and any interval.                            *)
(***************************************************************************)
EXTENDS AeLoop, AeTimer, FiniteSetTheorems, WellFoundedInduction, TLAPS

FileEvent == [mask : SUBSET Events, data : Att \cup {NoAtt}]
Fired == [fd : Fd, mask : SUBSET Events]

Distinct == \A d, e \in Allocated : att[d].fd = att[e].fd => d = e

Entries ==
  \A fd \in Fd : file[fd].mask # {} => file[fd].data \in Att /\ fd < setsize

\* In a batch there is an event to look at; a READABLE callback runs while its
\* event is still the first one.
InBatch ==
  /\ fired \in Seq(Fired)
  /\ calling.at \in {"read", "write"} => fired # <<>>
  /\ calling.at = "callback" /\ calling.event = "READABLE" => fired # <<>>

AeInv == AeTypeOK /\ InBatch /\ Distinct /\ Entries /\ LayersAgree

-----------------------------------------------------------------------------
(* Highest is the largest descriptor in use, or -1.                        *)

LEMMA FdFacts ==
  /\ \A fd \in Fd : fd \in Int /\ fd \in Nat /\ fd # -1
  /\ IsFiniteSet(Fd) /\ MaxFd \in Nat /\ setsize \in Nat
<1>1. \A fd \in Fd : fd \in Int /\ fd \in Nat /\ fd # -1
  BY AeConstants DEF Fd
<1>2. IsFiniteSet(Fd)
  BY AeConstants, FS_Interval DEF Fd
<1> QED BY <1>1, <1>2, AeConstants

\* A finite set of integers has a largest element: among the sets of elements
\* above some x one is smallest, and it is empty.
LEMMA LargestExists ==
  ASSUME NEW S \in SUBSET Int, S # {}, IsFiniteSet(S)
  PROVE  \E x \in S : \A y \in S : x >= y
<1> DEFINE Above(x) == {y \in S : y > x}
           T == {Above(x) : x \in S}
           R == StrictSubsetOrdering(S)
<1>1. T \subseteq FiniteSubsetsOf(S) /\ T # {}
  <2>1. ASSUME NEW x \in S PROVE Above(x) \in FiniteSubsetsOf(S)
    <3>1. Above(x) \subseteq S
      OBVIOUS
    <3> QED BY <3>1, FS_Subset DEF FiniteSubsetsOf
  <2> QED BY <2>1
<1>2. IsWellFoundedOn(R, FiniteSubsetsOf(S))
  BY FS_StrictSubsetOrderingWellFounded
<1>3. \E A \in T : \A B \in T : ~ (<<B, A>> \in R)
  <2> HIDE DEF T, R
  <2> QED BY <1>1, <1>2, WFMin
<1>4. PICK x \in S : \A y \in S : ~ (<<Above(y), Above(x)>> \in R)
  BY <1>3
<1>5. ASSUME NEW y \in S, y > x PROVE FALSE
  <2>0. \A z \in S : z \in Int
    OBVIOUS
  <2>1. ASSUME NEW z \in Above(y) PROVE z \in Above(x)
    <3>1. z \in S /\ z > y
      OBVIOUS
    <3>2. z > x
      BY <1>5, <2>0, <3>1
    <3> QED BY <3>1, <3>2
  <2>2. y \in Above(x) /\ y \notin Above(y)
    BY <1>5, <2>0
  <2>3. Above(y) # Above(x)
    BY <2>2
  <2>4. <<Above(y), Above(x)>> \in R
    BY <2>1, <2>3 DEF StrictSubsetOrdering
  <2> QED BY <2>4, <1>4
<1> QED BY <1>5

InUse(f) == {-1} \cup {fd \in Fd : f[fd].mask # {}}

LEMMA HighestFacts ==
  ASSUME NEW f PROVE Highest(f) \in InUse(f) /\ \A y \in InUse(f) : Highest(f) >= y
<1>1. InUse(f) \in SUBSET Int /\ InUse(f) # {}
  <2>1. \A y \in InUse(f) : y \in Int
    BY FdFacts DEF InUse
  <2> QED BY <2>1 DEF InUse
<1>2. IsFiniteSet(InUse(f))
  <2>1. IsFiniteSet({fd \in Fd : f[fd].mask # {}})
    BY FdFacts, FS_Subset
  <2> QED BY <2>1, FS_AddElement DEF InUse
<1>3. \E x \in InUse(f) : \A y \in InUse(f) : x >= y
  BY <1>1, <1>2, LargestExists
<1> QED BY <1>3 DEF Highest, Max, InUse

LEMMA HighestIs ==
  ASSUME NEW f, NEW m \in InUse(f), \A y \in InUse(f) : m >= y
  PROVE  Highest(f) = m
<1>1. \A y \in InUse(f) : y \in Int
  BY FdFacts DEF InUse
<1>2. Highest(f) \in Int /\ m \in Int /\ m >= Highest(f) /\ Highest(f) >= m
  BY <1>1, HighestFacts
<1> QED BY <1>2

\* Only the descriptors in use matter.
LEMMA HighestSame ==
  ASSUME NEW f, NEW g, \A fd \in Fd : f[fd].mask # {} <=> g[fd].mask # {}
  PROVE  Highest(f) = Highest(g)
  BY DEF Highest

-----------------------------------------------------------------------------
(* The inductive invariant.                                                *)

LEMMA AeInitInv == AeInit => AeInv
<1> SUFFICES ASSUME AeInit PROVE AeInv
  OBVIOUS
<1>1. AeTypeOK
  BY FdFacts DEF AeInit, AeTypeOK, NoAttachment, NotCalling, Fd
<1>2. InBatch
  BY DEF AeInit, InBatch, NotCalling
<1>3. Allocated = {} /\ \A fd \in Fd : file[fd].mask = {} /\ epoll[fd] = {}
  BY DEF AeInit, Allocated, NoAttachment
<1>4. maxfd = Highest(file)
  <2>1. InUse(file) = {-1}
    BY <1>3 DEF InUse
  <2>2. Highest(file) = -1
    BY <2>1, HighestFacts
  <2> QED BY <2>2 DEF AeInit
<1>5. Distinct /\ Entries /\ LayersAgree
  BY <1>3, <1>4 DEF Distinct, Entries, LayersAgree
<1> QED BY <1>1, <1>2, <1>5 DEF AeInv

\* Steps of the loop leave the layers alone.
LEMMA LoopInv ==
  ASSUME AeInv, UNCHANGED <<att, file, epoll, maxfd>>, AeTypeOK', InBatch'
  PROVE  AeInv'
<1>1. Allocated' = Allocated /\ Highest(file)' = Highest(file)
  BY DEF Allocated, Highest
<1> QED BY <1>1 DEF AeInv, Distinct, Entries, LayersAgree

LEMMA PollInv == ASSUME AeInv, NEW fds \in SUBSET Fd, aeApiPoll(fds) PROVE AeInv'
<1> USE DEF AeInv
<1>1. PICK order \in SetToSeqs(fds), mask \in [fds -> SUBSET Events] :
        fired' = [j \in DOMAIN order |-> [fd |-> order[j], mask |-> mask[order[j]]]]
  BY DEF aeApiPoll
<1>2. Cardinality(fds) \in Nat \ {0}
  <2>1. IsFiniteSet(fds) /\ fds # {}
    BY FdFacts, FS_Subset DEF aeApiPoll
  <2> QED BY <2>1, FS_CardinalityType, FS_EmptySet
<1>3. order \in [1 .. Cardinality(fds) -> fds]
  BY DEF SetToSeqs
<1>4. fired' \in [1 .. Cardinality(fds) -> Fired]
  BY <1>1, <1>3 DEF Fired
<1>5. fired' \in Seq(Fired) /\ fired' # <<>>
  BY <1>2, <1>4
<1>6. AeTypeOK'
  <2>1. \A j \in DOMAIN fired' : fired'[j] \in Fired
    BY <1>4
  <2> QED BY <2>1 DEF aeApiPoll, AeTypeOK, Fired
<1> QED BY <1>5, <1>6, LoopInv DEF aeApiPoll, InBatch

LEMMA HeadFacts ==
  ASSUME NEW q \in Seq(Fired), q # <<>>
  PROVE  Head(q) \in Fired /\ Tail(q) \in Seq(Fired)
  OBVIOUS

LEMMA SeqFired == ASSUME NEW q \in Seq(Fired) PROVE \A j \in DOMAIN q : q[j] \in Fired
  OBVIOUS

\* A callback that starts is one for an entry of the table.
LEMMA CallType ==
  ASSUME AeInv, NEW f \in Fired, NEW event \in Events
  PROVE  Call(f, event) \in [at : {"off", "read", "write", "callback"},
                             e : Att \cup {NoAtt}, event : Events \cup {"none"}]
<1>1. file[f.fd].data \in Att \cup {NoAtt}
  BY DEF AeInv, AeTypeOK, Fired
<1> QED BY <1>1 DEF Call

LEMMA FireReadInv == ASSUME AeInv, FireRead PROVE AeInv'
<1> USE DEF AeInv
<1>1. Head(fired) \in Fired /\ fired # <<>>
  BY HeadFacts DEF FireRead, InBatch
<1>2. "READABLE" \in Events
  BY DEF Events
<1>3. calling' = Call(Head(fired), "READABLE") \/ calling' = [calling EXCEPT !.at = "write"]
  BY DEF FireRead
<1>4. AeTypeOK'
  BY <1>1, <1>2, <1>3, CallType DEF FireRead, AeTypeOK
<1>5. InBatch'
  BY <1>1 DEF FireRead, InBatch
<1> QED BY <1>4, <1>5, LoopInv DEF FireRead

LEMMA FireWriteInv == ASSUME AeInv, FireWrite PROVE AeInv'
<1> USE DEF AeInv
<1>1. Head(fired) \in Fired /\ fired' \in Seq(Fired)
  BY HeadFacts DEF FireWrite, InBatch
<1>2. "WRITABLE" \in Events
  BY DEF Events
<1>3. \/ calling' = Call(Head(fired), "WRITABLE")
      \/ calling' = NotCalling
      \/ calling' = [calling EXCEPT !.at = "read"] /\ fired' # <<>>
  BY DEF FireWrite
<1>4. NotCalling \in [at : {"off", "read", "write", "callback"},
                      e : Att \cup {NoAtt}, event : Events \cup {"none"}]
  BY DEF NotCalling
<1>5. calling' \in [at : {"off", "read", "write", "callback"},
                    e : Att \cup {NoAtt}, event : Events \cup {"none"}]
  <2>1. calling \in [at : {"off", "read", "write", "callback"},
                     e : Att \cup {NoAtt}, event : Events \cup {"none"}]
    BY DEF AeTypeOK
  <2>2. [calling EXCEPT !.at = "read"] \in [at : {"off", "read", "write", "callback"},
                     e : Att \cup {NoAtt}, event : Events \cup {"none"}]
    BY <2>1
  <2>3. Call(Head(fired), "WRITABLE") \in [at : {"off", "read", "write", "callback"},
                     e : Att \cup {NoAtt}, event : Events \cup {"none"}]
    BY <1>1, <1>2, CallType
  <2> QED BY <1>3, <1>4, <2>2, <2>3
<1>6. AeTypeOK'
  BY <1>1, <1>5, SeqFired DEF FireWrite, AeTypeOK, Fired
<1>7. InBatch'
  BY <1>1, <1>3 DEF InBatch, Call, NotCalling, AeTypeOK
<1> QED BY <1>6, <1>7, LoopInv DEF FireWrite

LEMMA AttachInv == ASSUME AeInv, NEW e \in Att, Attach(e) PROVE AeInv'
<1> USE DEF AeInv
<1> DEFINE free == Fd \ {att[d].fd : d \in Att}
           n == Min(free)
<1>1. n \in free
  <2>1. free # {} /\ \A x \in free : x \in Int
    BY FdFacts DEF Attach
  <2>2. \E x \in free : \A y \in free : x =< y
    <3> DEFINE neg == {-x : x \in free}
    <3>1. neg \in SUBSET Int /\ neg # {}
      <4>1. \A k \in neg : k \in Int
        BY <2>1
      <4> QED BY <4>1, <2>1
    <3>2. IsFiniteSet(neg)
      <4>1. IsFiniteSet(free)
        BY FdFacts, FS_Subset
      <4>2. [x \in free |-> -x] \in Surjection(free, neg)
        BY DEF Surjection
      <4> QED BY <4>1, <4>2, FS_Surjection
    <3>3. PICK m \in neg : \A k \in neg : m >= k
      <4> HIDE DEF neg
      <4> QED BY <3>1, <3>2, LargestExists
    <3>4. PICK x \in free : m = -x
      OBVIOUS
    <3>5. ASSUME NEW y \in free PROVE x =< y
      <4>1. -x >= -y
        BY <3>3, <3>4
      <4> QED BY <4>1, <2>1
    <3> QED BY <3>5
  <2> HIDE DEF free
  <2> QED BY <2>2 DEF Min
<1>2. att' = [att EXCEPT ![e] = [fd |-> n, wants |-> {}]]
  BY DEF Attach
<1>3. n \in Fd /\ n # -1 /\ \A d \in Att : att[d].fd # n
  <2> HIDE DEF n
  <2> QED BY <1>1, FdFacts
<1> HIDE DEF n
<1>4. att'[e] = [fd |-> n, wants |-> {}] /\ \A d \in Att \ {e} : att'[d] = att[d]
  BY <1>2 DEF AeTypeOK
<1>5. AeTypeOK'
  BY <1>2, <1>3 DEF Attach, AeTypeOK
<1>6. Allocated' = Allocated \cup {e}
  BY <1>3, <1>4 DEF Allocated
<1>7. file[n].mask = {}
  BY <1>3 DEF LayersAgree, Entries
<1>8. Distinct'
  BY <1>3, <1>4, <1>6 DEF Distinct, Allocated
<1>9. Entries' /\ Highest(file)' = Highest(file)
  BY DEF Attach, Entries, Highest
<1>10. ASSUME NEW d \in Allocated', att'[d].fd < setsize
       PROVE  file'[att'[d].fd].mask = att'[d].wants
  <2>1. file' = file
    BY DEF Attach
  <2>2. CASE d = e
    BY <2>1, <2>2, <1>4, <1>7
  <2>3. CASE d # e
    <3>1. d \in Allocated /\ att'[d] = att[d]
      BY <2>3, <1>4, <1>6 DEF Allocated
    <3> QED BY <2>1, <3>1, <1>10 DEF LayersAgree
  <2> QED BY <2>2, <2>3
<1>11. \A fd \in Fd : file'[fd].mask # {} => att'[file'[fd].data].fd = fd
  <2> SUFFICES ASSUME NEW fd \in Fd, file[fd].mask # {} PROVE att'[file[fd].data].fd = fd
    BY DEF Attach
  <2>1. file[fd].data \in Att /\ att[file[fd].data].fd = fd
    BY DEF Entries, LayersAgree
  <2>2. fd # -1
    BY FdFacts
  <2>3. file[fd].data # e
    BY <2>1, <2>2 DEF Attach, Allocated
  <2> QED BY <2>1, <2>3, <1>4
<1>12. LayersAgree'
  BY <1>9, <1>10, <1>11 DEF LayersAgree, Attach
<1> QED BY <1>5, <1>8, <1>9, <1>12 DEF Attach, InBatch

\* A change of the table entry of one descriptor, seen by every layer.
LEMMA TableInv ==
  ASSUME AeInv, AeTypeOK', UNCHANGED <<fired, calling>>,
         NEW e \in Allocated, NEW n \in Fd, n = att[e].fd, n < setsize,
         \A d \in Att \ {e} : att'[d] = att[d],
         att'[e].fd \in {n, -1}, att'[e].fd = -1 => file'[n].mask = {},
         att'[e].fd = n => file'[n].mask = att'[e].wants,
         file'[n].mask # {} => file'[n].data = e,
         \A fd \in Fd \ {n} : file'[fd] = file[fd],
         \A fd \in Fd \ {n} : epoll'[fd] = epoll[fd], epoll'[n] = file'[n].mask,
         maxfd' = Highest(file')
  PROVE  AeInv'
<1> USE DEF AeInv
<1>1. e \in Att /\ n # -1
  BY FdFacts DEF Allocated
<1>2. Allocated' \subseteq Allocated /\ \A d \in Allocated' : att'[d].fd = att[d].fd
  BY <1>1 DEF Allocated
<1>3. Distinct'
  BY <1>2 DEF Distinct
<1>4. Entries'
  BY <1>1 DEF Entries
<1>5. \A fd \in Fd : epoll'[fd] = file'[fd].mask
  BY DEF LayersAgree
<1>6. ASSUME NEW d \in Allocated', att'[d].fd < setsize
      PROVE  file'[att'[d].fd].mask = att'[d].wants
  <2>1. CASE d = e
    BY <2>1, <1>1 DEF Allocated
  <2>2. CASE d # e
    <3>1. d \in Allocated /\ d \in Att /\ att'[d] = att[d]
      BY <2>2, <1>2 DEF Allocated
    <3>2. att[d].fd # n
      BY <2>2, <3>1 DEF Distinct
    <3>3. att[d].fd \in Fd
      BY <3>1 DEF Allocated, AeTypeOK
    <3> QED BY <3>1, <3>2, <3>3, <1>6 DEF LayersAgree
  <2> QED BY <2>1, <2>2
<1>7. ASSUME NEW fd \in Fd, file'[fd].mask # {} PROVE att'[file'[fd].data].fd = fd
  <2>1. CASE fd = n
    BY <2>1, <1>7
  <2>2. CASE fd # n
    <3>1. file'[fd] = file[fd] /\ file[fd].data \in Att /\ att[file[fd].data].fd = fd
      BY <2>2, <1>7 DEF Entries, LayersAgree
    <3>2. file[fd].data # e
      BY <3>1, <2>2
    <3> QED BY <3>1, <3>2
  <2> QED BY <2>1, <2>2
<1>8. LayersAgree'
  BY <1>5, <1>6, <1>7 DEF LayersAgree
<1>9. InBatch'
  BY DEF InBatch
<1> QED BY <1>3, <1>4, <1>8, <1>9

\* A change that only the attachment of a descriptor beyond setsize sees.
LEMMA BeyondInv ==
  ASSUME AeInv, AeTypeOK', UNCHANGED <<fired, calling, file, epoll, maxfd>>,
         NEW e \in Allocated, NEW n \in Int, n = att[e].fd, n >= setsize \/ file[n].mask = {},
         \A d \in Att \ {e} : att'[d] = att[d],
         att'[e].fd = -1 \/ (att'[e].fd = n /\ n >= setsize)
  PROVE  AeInv'
<1> USE DEF AeInv
<1>0. e \in Att /\ n # -1 /\ n \in Fd /\ setsize \in Nat
  BY FdFacts DEF Allocated, AeTypeOK
<1>1. Allocated' \subseteq Allocated /\ \A d \in Allocated' : att'[d].fd = att[d].fd
  BY <1>0 DEF Allocated
<1>2. Distinct' /\ Entries' /\ InBatch' /\ Highest(file)' = Highest(file)
  BY <1>1 DEF Distinct, Entries, InBatch, Highest
<1>3. ASSUME NEW d \in Allocated', att'[d].fd < setsize
      PROVE  file'[att'[d].fd].mask = att'[d].wants
  <2>1. d # e
    BY <1>0, <1>3 DEF Allocated
  <2>2. att'[d] = att[d] /\ d \in Allocated
    BY <2>1, <1>1 DEF Allocated
  <2> QED BY <2>2, <1>3 DEF LayersAgree
<1>4. ASSUME NEW fd \in Fd, file'[fd].mask # {} PROVE att'[file'[fd].data].fd = fd
  <2>1. file[fd].data \in Att /\ att[file[fd].data].fd = fd /\ fd < setsize
    BY <1>4 DEF Entries, LayersAgree
  <2>2. file[fd].data # e
    BY <2>1, <1>0, <1>4, FdFacts
  <2> QED BY <2>1, <2>2
<1>5. LayersAgree'
  BY <1>2, <1>3, <1>4 DEF LayersAgree
<1> QED BY <1>2, <1>5

LEMMA AddInv ==
  ASSUME AeInv, NEW e \in Att, NEW event \in Events, Add(e, event)
  PROVE  AeInv'
<1> USE DEF AeInv
<1> DEFINE n == att[e].fd
<1>1. e \in Allocated /\ n \in Fd /\ n # -1
  BY DEF Add, Allocated, AeTypeOK
<1>2. att' = [att EXCEPT ![e].wants = @ \cup {event}]
  BY DEF Add
<1>3. /\ att'[e].fd = n /\ att'[e].wants = att[e].wants \cup {event}
      /\ \A d \in Att \ {e} : att'[d] = att[d]
  BY <1>2 DEF AeTypeOK
<1>4. att' \in [Att -> [fd : Fd \cup {-1}, wants : SUBSET Events]]
  <2>1. [att[e] EXCEPT !.wants = @ \cup {event}] \in [fd : Fd \cup {-1}, wants : SUBSET Events]
    BY DEF AeTypeOK
  <2> QED BY <2>1, <1>2 DEF AeTypeOK
<1>5. CASE n >= setsize
  <2>1. UNCHANGED <<fired, calling, file, epoll, maxfd>>
    BY <1>5 DEF Add, aeCreateFileEvent
  <2>2. AeTypeOK'
    BY <2>1, <1>4 DEF AeTypeOK
  <2>3. n \in Int
    BY <1>1, FdFacts
  <2> HIDE DEF n
  <2> QED BY <2>1, <2>2, <2>3, <1>1, <1>3, <1>5, BeyondInv DEF n
<1>6. CASE ~(n >= setsize)
  <2>1. /\ epoll' = [epoll EXCEPT ![n] = file[n].mask \cup {event}]
        /\ file' = [file EXCEPT ![n] = [mask |-> @.mask \cup {event}, data |-> e]]
        /\ maxfd' = IF n > maxfd THEN n ELSE maxfd
        /\ UNCHANGED <<fired, calling>>
    BY <1>6 DEF Add, aeCreateFileEvent
  <2>2. /\ file'[n] = [mask |-> file[n].mask \cup {event}, data |-> e]
        /\ epoll'[n] = file[n].mask \cup {event}
        /\ \A fd \in Fd \ {n} : file'[fd] = file[fd] /\ epoll'[fd] = epoll[fd]
    BY <2>1, <1>1 DEF AeTypeOK
  <2>3. n < setsize /\ n \in Int /\ maxfd \in Int
    <3>1. n \in Int /\ setsize \in Int
      BY <1>1, FdFacts
    <3>2. maxfd \in Int
      BY DEF AeTypeOK
    <3> HIDE DEF n
    <3> QED BY <3>1, <3>2, <1>6
  <2>4. file[n].mask = att[e].wants
    BY <1>1, <2>3 DEF LayersAgree
  <2>5. maxfd' = Highest(file')
    <3>1. maxfd \in InUse(file) /\ \A y \in InUse(file) : maxfd >= y
      BY HighestFacts DEF LayersAgree
    <3>2. InUse(file') = InUse(file) \cup {n}
      BY <2>2, <1>1 DEF InUse
    <3>3. \A y \in InUse(file) : y \in Int
      BY FdFacts DEF InUse
    <3>4. maxfd' \in {maxfd, n} /\ maxfd' >= maxfd /\ maxfd' >= n /\ maxfd' \in Int
      <4> HIDE DEF n
      <4> QED BY <2>1, <2>3
    <3>5. ASSUME NEW y \in InUse(file') PROVE maxfd' >= y
      <4>1. CASE y = n
        BY <4>1, <3>4
      <4>2. CASE y \in InUse(file)
        <5>1. maxfd >= y /\ y \in Int
          BY <4>2, <3>1, <3>3
        <5> QED BY <5>1, <3>4, <2>3
      <4> QED BY <4>1, <4>2, <3>2
    <3>6. maxfd' \in InUse(file')
      BY <3>1, <3>2, <3>4
    <3> QED BY <3>5, <3>6, HighestIs
  <2>6. AeTypeOK'
    <3>1. file' \in [Fd -> FileEvent]
      <4>1. [mask |-> file[n].mask \cup {event}, data |-> e] \in FileEvent
        BY <1>1 DEF FileEvent, AeTypeOK
      <4> QED BY <4>1, <2>1 DEF FileEvent, AeTypeOK
    <3>2. epoll' \in [Fd -> SUBSET Events]
      BY <2>1, <1>1 DEF AeTypeOK
    <3>3. maxfd' \in -1 .. MaxFd
      BY <2>1, <1>1, FdFacts DEF AeTypeOK, Fd
    <3> QED BY <1>4, <2>1, <3>1, <3>2, <3>3 DEF AeTypeOK, FileEvent
  <2>7. /\ att'[e].fd \in {n, -1} /\ att'[e].fd # -1
        /\ file'[n].mask = att'[e].wants /\ file'[n].data = e /\ epoll'[n] = file'[n].mask
        /\ \A fd \in Fd \ {n} : file'[fd] = file[fd]
        /\ \A fd \in Fd \ {n} : epoll'[fd] = epoll[fd]
        /\ UNCHANGED <<fired, calling>>
    BY <1>1, <1>3, <2>1, <2>2, <2>4
  <2> HIDE DEF n
  <2> QED BY <1>1, <1>3, <2>3, <2>5, <2>6, <2>7, TableInv DEF n
<1> QED BY <1>5, <1>6

\* aeDeleteFileEvent keeps maxfd exact.
LEMMA DeleteFacts ==
  ASSUME AeInv, NEW n \in Fd, NEW mask \in SUBSET Events, aeDeleteFileEvent(n, mask),
         n < setsize, file[n].mask # {}
  PROVE  /\ file'[n] = [file[n] EXCEPT !.mask = @ \ mask] /\ epoll'[n] = file'[n].mask
         /\ file'[n].mask = file[n].mask \ mask /\ file'[n].data = file[n].data
         /\ \A fd \in Fd \ {n} : file'[fd] = file[fd] /\ epoll'[fd] = epoll[fd]
         /\ file' \in [Fd -> FileEvent] /\ epoll' \in [Fd -> SUBSET Events]
         /\ maxfd' \in -1 .. MaxFd /\ maxfd' = Highest(file')
<1> USE DEF AeInv
<1> DEFINE f == [file EXCEPT ![n].mask = @ \ mask]
<1>1. ~(n >= setsize \/ file[n].mask = {})
  BY FdFacts
<1>2. /\ epoll' = [epoll EXCEPT ![n] = f[n].mask] /\ file' = f
      /\ maxfd' = IF n = maxfd /\ f[n].mask = {} THEN Highest(f) ELSE maxfd
  BY <1>1 DEF aeDeleteFileEvent
<1>3. file[n] \in FileEvent /\ f[n] = [file[n] EXCEPT !.mask = @ \ mask]
  BY DEF AeTypeOK, FileEvent
<1>4. f[n] \in FileEvent /\ f[n].mask = file[n].mask \ mask /\ f[n].data = file[n].data
  BY <1>3 DEF FileEvent
<1>5. f \in [Fd -> FileEvent] /\ \A fd \in Fd \ {n} : f[fd] = file[fd]
  BY <1>3, <1>4 DEF AeTypeOK, FileEvent
<1> HIDE DEF f
<1>6. epoll' \in [Fd -> SUBSET Events] /\ epoll'[n] = f[n].mask
      /\ \A fd \in Fd \ {n} : epoll'[fd] = epoll[fd]
  BY <1>2, <1>4 DEF AeTypeOK, FileEvent
<1>7. maxfd' = Highest(f)
  <2>1. CASE n = maxfd /\ f[n].mask = {}
    BY <2>1, <1>2
  <2>2. CASE ~(n = maxfd /\ f[n].mask = {})
    <3>1. maxfd \in InUse(file) /\ \A y \in InUse(file) : maxfd >= y
      BY HighestFacts DEF LayersAgree
    <3>2. InUse(f) \subseteq InUse(file)
      BY <1>4, <1>5 DEF InUse
    <3>3. maxfd \in InUse(f)
      BY <2>2, <3>1, <1>5 DEF InUse
    <3>4. Highest(f) = maxfd
      BY <3>1, <3>2, <3>3, HighestIs
    <3> QED BY <2>2, <3>4, <1>2
  <2> QED BY <2>1, <2>2
<1>8. Highest(f) \in -1 .. MaxFd
  BY HighestFacts, FdFacts DEF InUse, Fd
<1> QED BY <1>2, <1>3, <1>4, <1>5, <1>6, <1>7, <1>8

LEMMA DelWriteInv == ASSUME AeInv, NEW e \in Att, DelWrite(e) PROVE AeInv'
<1> USE DEF AeInv
<1> DEFINE n == att[e].fd
           mask == {"WRITABLE"}
<1>1. e \in Allocated /\ n \in Fd /\ n # -1 /\ mask \in SUBSET Events
  BY DEF DelWrite, Allocated, AeTypeOK, Events
<1>2. att' = [att EXCEPT ![e].wants = @ \ mask] /\ aeDeleteFileEvent(n, mask)
      /\ UNCHANGED <<fired, calling>> /\ "WRITABLE" \in att[e].wants
  BY DEF DelWrite
<1>3. /\ att'[e].fd = n /\ att'[e].wants = att[e].wants \ mask
      /\ \A d \in Att \ {e} : att'[d] = att[d]
  BY <1>2 DEF AeTypeOK
<1>4. att' \in [Att -> [fd : Fd \cup {-1}, wants : SUBSET Events]]
  <2>1. [att[e] EXCEPT !.wants = @ \ mask] \in [fd : Fd \cup {-1}, wants : SUBSET Events]
    BY DEF AeTypeOK
  <2> QED BY <2>1, <1>2 DEF AeTypeOK
<1>5. CASE n >= setsize
  <2>1. UNCHANGED <<fired, calling, file, epoll, maxfd>>
    BY <1>2, <1>5 DEF aeDeleteFileEvent
  <2>2. AeTypeOK'
    BY <2>1, <1>4 DEF AeTypeOK
  <2>3. n \in Int
    BY <1>1, FdFacts
  <2> HIDE DEF n
  <2> QED BY <2>1, <2>2, <2>3, <1>1, <1>3, <1>5, BeyondInv DEF n
<1>6. CASE ~(n >= setsize)
  <2>1. n < setsize
    <3>1. n \in Int /\ setsize \in Int
      BY <1>1, FdFacts
    <3> HIDE DEF n
    <3> QED BY <3>1, <1>6
  <2>2. file[n].mask = att[e].wants
    BY <1>1, <2>1 DEF LayersAgree
  <2>3. file[n].mask # {} /\ file[n].data = e
    <3>1. file[n].mask # {}
      BY <1>2, <2>2
    <3>2. file[n].data \in Att /\ att[file[n].data].fd = n
      BY <1>1, <3>1 DEF Entries, LayersAgree
    <3> QED BY <1>1, <3>1, <3>2 DEF Distinct, Allocated
  <2>4. /\ epoll'[n] = file'[n].mask /\ file'[n].mask = file[n].mask \ mask
        /\ file'[n].data = file[n].data
        /\ \A fd \in Fd \ {n} : file'[fd] = file[fd] /\ epoll'[fd] = epoll[fd]
        /\ file' \in [Fd -> FileEvent] /\ epoll' \in [Fd -> SUBSET Events]
        /\ maxfd' \in -1 .. MaxFd /\ maxfd' = Highest(file')
    BY <1>1, <1>2, <2>1, <2>3, DeleteFacts
  <2>5. AeTypeOK'
    BY <1>2, <1>4, <2>4 DEF AeTypeOK, FileEvent
  <2>6. /\ n \in Fd /\ n = att[e].fd /\ e \in Allocated /\ n # -1 /\ att'[e].fd = n
        /\ UNCHANGED <<fired, calling>>
    BY <1>1, <1>2, <1>3
  <2>7. /\ epoll'[n] = file'[n].mask /\ file'[n].data = e
        /\ file'[n].mask = att'[e].wants
    BY <1>3, <2>2, <2>3, <2>4
  <2> HIDE DEF n, mask
  <2> QED BY <1>3, <2>1, <2>4, <2>5, <2>6, <2>7, TableInv
<1> QED BY <1>5, <1>6

LEMMA CleanupInv == ASSUME AeInv, NEW e \in Att, Cleanup(e) PROVE AeInv'
<1> USE DEF AeInv
<1> DEFINE n == att[e].fd
           mask == att[e].wants
<1>1. e \in Allocated /\ n \in Fd /\ n # -1 /\ mask \in SUBSET Events
  BY DEF Cleanup, Allocated, AeTypeOK
<1>2. att' = [att EXCEPT ![e] = NoAttachment] /\ aeDeleteFileEvent(n, mask)
      /\ UNCHANGED <<fired, calling>>
  BY DEF Cleanup
<1>3. att'[e].fd = -1 /\ \A d \in Att \ {e} : att'[d] = att[d]
  BY <1>2 DEF AeTypeOK, NoAttachment
<1>4. att' \in [Att -> [fd : Fd \cup {-1}, wants : SUBSET Events]]
  BY <1>2 DEF AeTypeOK, NoAttachment
<1>5. CASE n >= setsize \/ file[n].mask = {}
  <2>1. UNCHANGED <<fired, calling, file, epoll, maxfd>>
    BY <1>2, <1>5 DEF aeDeleteFileEvent
  <2>2. AeTypeOK'
    BY <2>1, <1>4 DEF AeTypeOK
  <2>3. n \in Int
    BY <1>1, FdFacts
  <2> HIDE DEF n
  <2> QED BY <2>1, <2>2, <2>3, <1>1, <1>3, <1>5, BeyondInv DEF n
<1>6. CASE ~(n >= setsize \/ file[n].mask = {})
  <2>1. n < setsize /\ file[n].mask # {}
    <3>1. n \in Int /\ setsize \in Int
      BY <1>1, FdFacts
    <3> HIDE DEF n
    <3> QED BY <3>1, <1>6
  <2>2. file[n].mask = mask
    BY <1>1, <2>1 DEF LayersAgree
  <2>4. /\ epoll'[n] = file'[n].mask /\ file'[n].mask = file[n].mask \ mask
        /\ \A fd \in Fd \ {n} : file'[fd] = file[fd] /\ epoll'[fd] = epoll[fd]
        /\ file' \in [Fd -> FileEvent] /\ epoll' \in [Fd -> SUBSET Events]
        /\ maxfd' \in -1 .. MaxFd /\ maxfd' = Highest(file')
    BY <1>1, <1>2, <2>1, DeleteFacts
  <2>5. AeTypeOK'
    BY <1>2, <1>4, <2>4 DEF AeTypeOK, FileEvent
  <2>6. file'[n].mask = {}
    BY <2>2, <2>4
  <2> QED BY <1>1, <1>2, <1>3, <2>1, <2>4, <2>5, <2>6, TableInv
<1> QED BY <1>5, <1>6

LEMMA ReturnsInv == ASSUME AeInv, CallbackReturns PROVE AeInv'
<1> USE DEF AeInv
<1>1. calling' \in {[NotCalling EXCEPT !.at = "write"], NotCalling, [NotCalling EXCEPT !.at = "read"]}
  BY DEF CallbackReturns
<1>2. AeTypeOK'
  BY <1>1 DEF CallbackReturns, AeTypeOK, NotCalling
<1>3. InBatch'
  BY DEF CallbackReturns, InBatch, NotCalling
<1> QED BY <1>2, <1>3, LoopInv DEF CallbackReturns

LEMMA AeStepInv == AeInv /\ [AeNext]_aeVars => AeInv'
<1> SUFFICES ASSUME AeInv, [AeNext]_aeVars PROVE AeInv'
  OBVIOUS
<1>1. CASE UNCHANGED aeVars
  BY <1>1, LoopInv DEF aeVars, AeInv, AeTypeOK, InBatch
<1> QED
  BY <1>1, AttachInv, DelWriteInv, CleanupInv, AddInv, PollInv, FireReadInv, FireWriteInv,
     ReturnsInv
     DEF AeNext

LEMMA AeInvAlways == AeSpec => []AeInv
<1> QED BY AeInitInv, AeStepInv, PTL DEF AeSpec

\* The attachments, the table, epoll and maxfd agree, whatever callbacks close
\* and open inside a batch.
THEOREM LayersAlwaysAgree == AeSpec => []LayersAgree
<1>1. AeInv => LayersAgree
  BY DEF AeInv
<1> QED BY <1>1, AeInvAlways, PTL

\* A callback that starts finds its attachment allocated and wanting the event.
LEMMA EntryCurrent ==
  ASSUME AeInv, NEW f \in Fired, NEW event, StillValid(f, event)
  PROVE  Call(f, event).e \in Allocated /\ event \in att[Call(f, event).e].wants
<1> USE DEF AeInv
<1> DEFINE n == f.fd
           e == file[n].data
<1>1. n \in Fd /\ event \in file[n].mask
  BY DEF StillValid, Fired
<1>2. e \in Att /\ n < setsize /\ att[e].fd = n
  BY <1>1 DEF Entries, LayersAgree
<1>3. e \in Allocated
  BY <1>1, <1>2, FdFacts DEF Allocated
<1>4. event \in att[e].wants
  BY <1>1, <1>2, <1>3 DEF LayersAgree
<1>5. Call(f, event).e = e
  BY DEF Call
<1> QED BY <1>3, <1>4, <1>5

\* ae.c:397: no callback starts for an event an earlier one made pointless.
THEOREM CallbacksStayCurrent == AeSpec => CallbacksCurrent
<1> DEFINE Current == calling'.at = "callback" /\ calling.at # "callback"
                        => calling'.e \in Allocated /\ calling'.event \in att[calling'.e].wants
<1>1. ASSUME AeInv, [AeNext]_aeVars PROVE [Current]_aeVars
  <2> SUFFICES ASSUME calling'.at = "callback", calling.at # "callback"
               PROVE  calling'.e \in Allocated /\ calling'.event \in att[calling'.e].wants
    OBVIOUS
  <2> USE DEF AeInv
  <2>1. ASSUME NEW event, Head(fired) \in Fired, StillValid(Head(fired), event),
               calling' = Call(Head(fired), event)
        PROVE  calling'.e \in Allocated /\ calling'.event \in att[calling'.e].wants
    <3>1. calling'.event = event
      BY <2>1 DEF Call
    <3> QED BY <1>1, <2>1, <3>1, EntryCurrent
  <2>2. CASE FireRead
    <3>1. Head(fired) \in Fired
      BY <1>1, <2>2, HeadFacts DEF FireRead, InBatch
    <3>2. StillValid(Head(fired), "READABLE") /\ calling' = Call(Head(fired), "READABLE")
      BY <1>1, <2>2 DEF FireRead, AeTypeOK
    <3> QED BY <2>1, <3>1, <3>2
  <2>3. CASE FireWrite
    <3>1. Head(fired) \in Fired
      BY <1>1, <2>3, HeadFacts DEF FireWrite, InBatch
    <3>2. StillValid(Head(fired), "WRITABLE") /\ calling' = Call(Head(fired), "WRITABLE")
      BY <1>1, <2>3 DEF FireWrite, AeTypeOK, NotCalling
    <3> QED BY <2>1, <3>1, <3>2
  <2>4. CASE UNCHANGED calling
    BY <2>4
  <2>5. CASE CallbackReturns
    BY <2>5 DEF CallbackReturns, NotCalling
  <2>6. ASSUME NEW fds \in SUBSET Fd, aeApiPoll(fds) PROVE FALSE
    BY <1>1, <2>6 DEF aeApiPoll, AeTypeOK
  <2>7. ASSUME NEW e \in Att, \/ Attach(e) \/ DelWrite(e) \/ Cleanup(e)
                               \/ \E event \in Events : Add(e, event)
        PROVE  UNCHANGED calling
    BY <2>7 DEF Attach, DelWrite, Cleanup, Add
  <2> QED
    BY <1>1, <2>2, <2>3, <2>4, <2>5, <2>6, <2>7 DEF AeNext, aeVars
<1> QED BY <1>1, AeInvAlways, PTL DEF AeSpec, CallbacksCurrent

-----------------------------------------------------------------------------
(***************************************************************************)
(* The time event.  Late says how far ahead te can be armed: lastTime is   *)
(* the second the clock was in when processing began, so the clock was     *)
(* before the next second plus what processing took.  It only grows, or te *)
(* is forced to the past.  Early says that te is due TIMER_MILLISECONDS    *)
(* after it was armed as long as nobody set the clock.                     *)
(***************************************************************************)
Late ==
  /\ at # "idle" /\ ~moved.now =>
       lastTime * Second <= clock /\ clock < lastTime * Second + Second + busy.now
  /\ at # "init" /\ ~moved.armed =>
       Due < lastTime * Second + Second + busy.armed + TIMER_MILLISECONDS

Early ==
  at # "init" /\ ~moved.armed /\ ~set =>
    /\ lastTime * Second <= clock
    /\ waited < TIMER_MILLISECONDS => Due = clock - waited + TIMER_MILLISECONDS

TimeInv == TimeTypeOK /\ Late /\ Early

LEMMA DivFacts ==
  ASSUME NEW t \in Nat
  PROVE  /\ Sec(t) \in Nat /\ Ms(t) \in 0 .. Second - 1
         /\ t = Sec(t) * Second + Ms(t)
<1>1. Second \in Nat \ {0}
  BY TimeConstants
<1>2. /\ t \div Second \in Nat /\ t % Second \in 0 .. Second - 1
      /\ t = (t \div Second) * Second + (t % Second)
  BY <1>1, SMT
<1> QED BY <1>2 DEF Sec, Ms

LEMMA TimesSecond ==
  ASSUME NEW a \in Nat, NEW b \in Nat
  PROVE  /\ a * Second \in Nat
         /\ a <= b => a * Second <= b * Second
         /\ a < b => a * Second + Second <= b * Second
         /\ (a + 1) * Second = a * Second + Second
         /\ (a + b) * Second = a * Second + b * Second
         /\ 0 * Second = 0
<1>1. Second \in Nat \ {0}
  BY TimeConstants
<1> QED BY <1>1, SMT

\* The carry of aeAddMillisecondsToNow.
LEMMA ArmedAhead ==
  ASSUME clock \in Nat
  PROVE  /\ aeAddMillisecondsToNow \in [when_sec : Nat, when_ms : 0 .. Second - 1]
         /\ aeAddMillisecondsToNow.when_sec * Second + aeAddMillisecondsToNow.when_ms
              = clock + TIMER_MILLISECONDS
<1> DEFINE T == TIMER_MILLISECONDS
           s == Sec(clock) + Sec(T)
           m == Ms(clock) + Ms(T)
<1>1. T \in Nat /\ Second \in Nat \ {0}
  BY TimeConstants
<1>2. /\ Sec(clock) \in Nat /\ Ms(clock) \in 0 .. Second - 1
      /\ clock = Sec(clock) * Second + Ms(clock)
  BY DivFacts
<1>3. /\ Sec(T) \in Nat /\ Ms(T) \in 0 .. Second - 1
      /\ T = Sec(T) * Second + Ms(T)
  BY <1>1, DivFacts
<1>4. s \in Nat /\ s * Second = Sec(clock) * Second + Sec(T) * Second
  <2>1. Sec(clock) \in Nat /\ Sec(T) \in Nat
    BY <1>2, <1>3
  <2>2. (Sec(clock) + Sec(T)) * Second = Sec(clock) * Second + Sec(T) * Second
    BY <2>1, TimesSecond
  <2> QED BY <2>1, <2>2
<1>5. (s + 1) * Second = s * Second + Second
  BY <1>4, TimesSecond
<1>6. Sec(clock) * Second \in Nat /\ Sec(T) * Second \in Nat
  BY <1>2, <1>3, TimesSecond
<1>7. CASE m >= Second
  <2>1. aeAddMillisecondsToNow = [when_sec |-> s + 1, when_ms |-> m - Second]
    BY <1>7 DEF aeAddMillisecondsToNow
  <2> HIDE DEF s
  <2> QED BY <2>1, <1>1, <1>2, <1>3, <1>4, <1>5, <1>6, <1>7
<1>8. CASE ~(m >= Second)
  <2>1. aeAddMillisecondsToNow = [when_sec |-> s, when_ms |-> m]
    BY <1>8 DEF aeAddMillisecondsToNow
  <2> HIDE DEF s
  <2> QED BY <2>1, <1>1, <1>2, <1>3, <1>4, <1>6, <1>8
<1> QED BY <1>7, <1>8

\* Comparing seconds and then milliseconds is comparing the times.
LEMMA DueCompares ==
  ASSUME TimeTypeOK
  PROVE  IsDue <=> clock >= Due
<1>1. clock \in Nat /\ Second \in Nat \ {0}
  BY TimeConstants DEF TimeTypeOK, Clock
<1>2. te.when_sec \in Nat /\ te.when_ms \in 0 .. Second - 1
  BY DEF TimeTypeOK
<1>3. /\ Sec(clock) \in Nat /\ Ms(clock) \in 0 .. Second - 1
      /\ clock = Sec(clock) * Second + Ms(clock)
  BY <1>1, DivFacts
<1>4. /\ te.when_sec * Second \in Nat /\ Sec(clock) * Second \in Nat
      /\ Sec(clock) < te.when_sec => Sec(clock) * Second + Second <= te.when_sec * Second
      /\ te.when_sec < Sec(clock) => te.when_sec * Second + Second <= Sec(clock) * Second
  BY <1>2, <1>3, TimesSecond
<1>5. CASE Sec(clock) = te.when_sec
  BY <1>1, <1>2, <1>3, <1>4, <1>5 DEF IsDue, Due
<1>6. CASE Sec(clock) < te.when_sec
  BY <1>1, <1>2, <1>3, <1>4, <1>6 DEF IsDue, Due
<1>7. CASE te.when_sec < Sec(clock)
  BY <1>1, <1>2, <1>3, <1>4, <1>7 DEF IsDue, Due
<1> QED BY <1>2, <1>3, <1>5, <1>6, <1>7

LEMMA TimeInitInv == TimeInit => TimeInv
<1> SUFFICES ASSUME TimeInit PROVE TimeInv
  OBVIOUS
<1> USE DEF TimeInit
<1>1. /\ clock \in Nat /\ Second \in Nat \ {0} /\ MaxBusy \in Nat /\ TIMER_MILLISECONDS \in Nat
      /\ at = "init" /\ busy = [now |-> 0, armed |-> 0]
      /\ moved = [now |-> FALSE, armed |-> FALSE]
  BY TimeConstants DEF Clock
<1>2. /\ lastTime \in Nat /\ Ms(clock) \in 0 .. Second - 1
      /\ clock = lastTime * Second + Ms(clock) /\ lastTime * Second \in Nat
  BY <1>1, DivFacts, TimesSecond
<1>3. TimeTypeOK
  <2>1. busy \in [now : 0 .. MaxBusy, armed : 0 .. MaxBusy]
    BY <1>1
  <2>2. moved \in [now : BOOLEAN, armed : BOOLEAN]
    BY <1>1
  <2>3. te \in [when_sec : Nat, when_ms : 0 .. Second - 1]
    BY <1>1
  <2>4. waited \in 0 .. TIMER_MILLISECONDS
    BY <1>1
  <2> QED BY <1>1, <1>2, <2>1, <2>2, <2>3, <2>4 DEF TimeTypeOK
<1>4. Late /\ Early
  BY <1>1, <1>2 DEF Late, Early
<1> QED BY <1>3, <1>4 DEF TimeInv

LEMMA TypesOfTime ==
  ASSUME TimeTypeOK
  PROVE  /\ clock \in Nat /\ lastTime \in Nat /\ lastTime * Second \in Nat
         /\ busy.now \in Nat /\ busy.armed \in Nat
         /\ moved.now \in BOOLEAN /\ moved.armed \in BOOLEAN
         /\ waited \in Nat /\ TIMER_MILLISECONDS \in Nat \ {0}
         /\ Second \in Nat \ {0} /\ MaxClock \in Nat /\ MaxBusy \in Nat
         /\ te.when_sec \in Nat /\ te.when_ms \in Nat /\ Due \in Nat
<1>1. lastTime * Second \in Nat /\ te.when_sec * Second \in Nat
  BY TimesSecond DEF TimeTypeOK
<1> QED BY <1>1, TimeConstants DEF TimeTypeOK, Clock, Due

LEMMA ElapseTime == ASSUME TimeInv, Elapse PROVE TimeInv'
<1> USE DEF TimeInv, Elapse
<1>1. /\ clock \in Nat /\ lastTime \in Nat /\ lastTime * Second \in Nat /\ waited \in Nat
      /\ busy.now \in Nat /\ busy.armed \in Nat /\ Due \in Nat
      /\ TIMER_MILLISECONDS \in Nat /\ Second \in Nat /\ MaxClock \in Nat /\ MaxBusy \in Nat
  BY TypesOfTime
<1>2. Due' = Due /\ busy'.armed = busy.armed /\ moved' = moved /\ lastTime' = lastTime
      /\ at' = at /\ set' = set
  BY DEF TimeTypeOK, Due
<1>3. at # "idle" => busy'.now = busy.now + 1
  BY DEF TimeTypeOK
<1>4. TimeTypeOK'
  BY <1>1 DEF TimeTypeOK, Clock
<1>5. Late'
  BY <1>1, <1>2, <1>3 DEF Late
<1>6. Early'
  <2> SUFFICES ASSUME at' # "init", ~moved'.armed, ~set'
               PROVE  /\ lastTime' * Second <= clock'
                      /\ waited' < TIMER_MILLISECONDS =>
                           Due' = clock' - waited' + TIMER_MILLISECONDS
    BY DEF Early
  <2>1. at # "init" /\ ~moved.armed /\ ~set
    BY <1>2
  <2>2. /\ lastTime * Second <= clock
        /\ waited < TIMER_MILLISECONDS => Due = clock - waited + TIMER_MILLISECONDS
    BY <2>1 DEF Early
  <2>3. waited' < TIMER_MILLISECONDS => waited < TIMER_MILLISECONDS /\ waited' = waited + 1
    BY <1>1
  <2>4. clock' = clock + 1
    OBVIOUS
  <2> QED BY <1>1, <1>2, <2>2, <2>3, <2>4
<1> QED BY <1>4, <1>5, <1>6

LEMMA SetClockTime == ASSUME TimeInv, NEW t \in Clock, SetClock(t) PROVE TimeInv'
<1> USE DEF TimeInv, SetClock
<1>1. Due' = Due
  BY DEF Due
<1>2. TimeTypeOK'
  BY DEF TimeTypeOK
<1>3. /\ moved'.armed = moved.armed
      /\ at # "idle" => moved'.now
  BY DEF TimeTypeOK
<1> QED BY <1>1, <1>2, <1>3 DEF Late, Early

\* Whatever the loop does when it arms te.
LEMMA ArmTime ==
  ASSUME TimeInv, at \in {"init", "timeProc"}, at' \in {"idle", "look"}, Arm,
         UNCHANGED <<clock, lastTime>>
  PROVE  TimeInv'
<1> USE DEF TimeInv, Arm
<1>1. /\ clock \in Nat /\ lastTime * Second \in Nat /\ busy.now \in Nat
      /\ TIMER_MILLISECONDS \in Nat \ {0} /\ Second \in Nat /\ moved.now \in BOOLEAN
  BY TypesOfTime
<1>2. /\ te' \in [when_sec : Nat, when_ms : 0 .. Second - 1]
      /\ Due' = clock + TIMER_MILLISECONDS
  BY <1>1, ArmedAhead DEF Due
<1>3. /\ busy'.armed = busy.now /\ busy'.now = busy.now
      /\ moved'.armed = moved.now /\ moved'.now = moved.now
  BY DEF TimeTypeOK
<1>4. TimeTypeOK'
  <2>1. busy \in [now : 0 .. MaxBusy, armed : 0 .. MaxBusy]
    BY DEF TimeTypeOK
  <2>2. busy' \in [now : 0 .. MaxBusy, armed : 0 .. MaxBusy]
    BY <2>1
  <2>3. moved \in [now : BOOLEAN, armed : BOOLEAN]
    BY DEF TimeTypeOK
  <2>4. moved' \in [now : BOOLEAN, armed : BOOLEAN]
    BY <2>3
  <2>5. waited' \in 0 .. TIMER_MILLISECONDS
    BY <1>1
  <2>6. set' \in BOOLEAN
    OBVIOUS
  <2> QED BY <1>2, <2>2, <2>4, <2>5, <2>6 DEF TimeTypeOK, Clock
<1>5. ~moved.now => lastTime * Second <= clock /\ clock < lastTime * Second + Second + busy.now
  BY DEF Late
<1>6. Late'
  BY <1>1, <1>2, <1>3, <1>5 DEF Late
<1>7. Early'
  BY <1>1, <1>2, <1>3, <1>5 DEF Early
<1> QED BY <1>4, <1>6, <1>7

LEMMA BeginTime == ASSUME TimeInv, BeginTimeEvents PROVE TimeInv'
<1> USE DEF TimeInv, BeginTimeEvents
<1>1. /\ clock \in Nat /\ lastTime \in Nat /\ lastTime * Second \in Nat
      /\ busy.armed \in Nat /\ Due \in Nat /\ waited \in Nat /\ MaxBusy \in Nat
      /\ TIMER_MILLISECONDS \in Nat \ {0} /\ Second \in Nat \ {0}
      /\ te.when_sec \in Nat /\ te.when_ms \in 0 .. Second - 1
  BY TypesOfTime DEF TimeTypeOK
<1>2. /\ lastTime' \in Nat /\ Ms(clock) \in 0 .. Second - 1
      /\ clock = lastTime' * Second + Ms(clock) /\ lastTime' * Second \in Nat
  BY <1>1, DivFacts, TimesSecond
<1>3. /\ lastTime <= lastTime' => lastTime * Second <= lastTime' * Second
      /\ lastTime' < lastTime => lastTime' * Second + Second <= lastTime * Second
  BY <1>1, <1>2, TimesSecond
<1>4. /\ busy'.armed = busy.armed /\ busy'.now = 0
      /\ moved'.armed = moved.armed /\ moved'.now = FALSE
      /\ at = "idle" /\ at' = "look" /\ clock' = clock /\ set' = set /\ waited' = waited
  BY DEF TimeTypeOK
<1>5. te' \in [when_sec : Nat, when_ms : 0 .. Second - 1] => TimeTypeOK'
  <2>1. busy \in [now : 0 .. MaxBusy, armed : 0 .. MaxBusy]
    BY DEF TimeTypeOK
  <2>2. busy' \in [now : 0 .. MaxBusy, armed : 0 .. MaxBusy]
    BY <1>1, <2>1
  <2>3. moved \in [now : BOOLEAN, armed : BOOLEAN]
    BY DEF TimeTypeOK
  <2>4. moved' \in [now : BOOLEAN, armed : BOOLEAN]
    BY <2>3
  <2> QED BY <1>2, <2>2, <2>4 DEF TimeTypeOK, Clock
<1>6. CASE lastTime' < lastTime
  <2>1. te' = [te EXCEPT !.when_sec = 0]
    BY <1>6
  <2>2. te'.when_sec = 0 /\ te'.when_ms = te.when_ms
    BY <2>1 DEF TimeTypeOK
  <2>3. Due' = te.when_ms
    <3>1. Due' = 0 * Second + te.when_ms
      BY <2>2 DEF Due
    <3>2. 0 * Second = 0 /\ te.when_ms \in Nat
      BY <1>1
    <3> QED
      BY <3>1, <3>2
  <2>4. TimeTypeOK'
    <3>1. te' \in [when_sec : Nat, when_ms : 0 .. Second - 1]
      BY <2>1 DEF TimeTypeOK
    <3> QED BY <1>5, <3>1
  <2>5. Late'
    BY <1>1, <1>2, <1>4, <2>3 DEF Late
  <2>6. Early'
    BY <1>1, <1>2, <1>3, <1>4, <1>6 DEF Early
  <2> QED BY <2>4, <2>5, <2>6
<1>7. CASE ~(lastTime' < lastTime)
  <2>1. te' = te /\ Due' = Due
    BY <1>7 DEF Due
  <2>2. TimeTypeOK'
    BY <1>5, <2>1 DEF TimeTypeOK
  <2>3. Late'
    BY <1>1, <1>2, <1>3, <1>4, <1>7, <2>1 DEF Late
  <2>4. Early'
    BY <1>1, <1>2, <1>4, <2>1 DEF Early
  <2> QED BY <2>2, <2>3, <2>4
<1> QED BY <1>6, <1>7

LEMMA TimeStepInv == TimeInv /\ [TimeNext]_timeVars => TimeInv'
<1> SUFFICES ASSUME TimeInv, [TimeNext]_timeVars PROVE TimeInv'
  OBVIOUS
<1>1. CASE Elapse
  BY <1>1, ElapseTime
<1>2. ASSUME NEW t \in Clock, SetClock(t) PROVE TimeInv'
  BY <1>2, SetClockTime
<1>3. CASE aeCreateTimeEvent
  BY <1>3, ArmTime DEF aeCreateTimeEvent
<1>4. CASE BeginTimeEvents
  BY <1>4, BeginTime
<1>5. CASE TimerReturns
  BY <1>5, ArmTime DEF TimerReturns
<1>6. CASE CallTimer \/ EndTimeEvents
  <2>1. /\ UNCHANGED <<clock, lastTime, te, busy, moved, waited, set>>
        /\ at = "look" /\ at' \in {"idle", "timeProc"}
    BY <1>6 DEF CallTimer, EndTimeEvents
  <2> QED BY <2>1 DEF TimeInv, TimeTypeOK, Late, Early, Due
<1>7. CASE UNCHANGED timeVars
  BY <1>7 DEF timeVars, TimeInv, TimeTypeOK, Late, Early, Due
<1> QED BY <1>1, <1>2, <1>3, <1>4, <1>5, <1>6, <1>7 DEF TimeNext

\* For any interval and any second: the clock may be set to any time at any
\* moment, and the reconnect timer of RedisConn is neither put off nor, without
\* that, called early.
THEOREM TimerStaysOnTime == TimeSpec => TimerOnTime
<1> DEFINE OnTime ==
      /\ at = "look" /\ at' = "idle" =>
           moved.now \/ moved.armed \/ Due - clock < TIMER_MILLISECONDS + Second + busy.armed
      /\ at' = "timeProc" /\ at = "look" =>
           moved.armed \/ set \/ waited = TIMER_MILLISECONDS
<1>1. TimeInv /\ [TimeNext]_timeVars => [OnTime]_timeVars
  <2> SUFFICES ASSUME TimeInv, TimeNext PROVE OnTime
    OBVIOUS
  <2>1. /\ clock \in Nat /\ lastTime * Second \in Nat /\ busy.armed \in Nat /\ Due \in Nat
        /\ TIMER_MILLISECONDS \in Nat /\ Second \in Nat /\ waited \in Nat
        /\ waited <= TIMER_MILLISECONDS
    BY TypesOfTime DEF TimeInv, TimeTypeOK
  <2>2. ASSUME at = "look", at' = "idle", ~moved.now, ~moved.armed
        PROVE  Due - clock < TIMER_MILLISECONDS + Second + busy.armed
    <3>1. /\ lastTime * Second <= clock
          /\ Due < lastTime * Second + Second + busy.armed + TIMER_MILLISECONDS
      BY <2>2 DEF TimeInv, Late
    <3> QED BY <2>1, <3>1
  <2>3. ASSUME at = "look", at' = "timeProc", ~moved.armed, ~set
        PROVE  waited = TIMER_MILLISECONDS
    <3>1. clock >= Due
      <4>1. IsDue
        BY <2>3 DEF TimeNext, Elapse, SetClock, aeCreateTimeEvent, BeginTimeEvents, CallTimer,
                    TimerReturns, EndTimeEvents
      <4> QED BY <4>1, DueCompares DEF TimeInv
    <3>2. waited < TIMER_MILLISECONDS => Due = clock - waited + TIMER_MILLISECONDS
      BY <2>3 DEF TimeInv, Early
    <3> QED BY <2>1, <3>1, <3>2
  <2> QED BY <2>2, <2>3
<1>2. TimeSpec => []TimeInv
  BY TimeInitInv, TimeStepInv, PTL DEF TimeSpec
<1> QED BY <1>1, <1>2, PTL DEF TimeSpec, TimerOnTime
=============================================================================
