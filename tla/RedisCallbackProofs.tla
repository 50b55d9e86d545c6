------------------------ MODULE RedisCallbackProofs ------------------------
(***************************************************************************)
(* Theorems about callback objects, replies and the events of RedisConn,   *)
(* for every application: an object has one holder and lives the life      *)
(* OptLifecycle promises, replies meet the callbacks of their commands,    *)
(* the event loop forgets no socket; and for an application that destroys  *)
(* connections cleanly no assertion of hiredis fails.                      *)
(***************************************************************************)
EXTENDS RedisConnProofs, FiniteSetTheorems

-----------------------------------------------------------------------------
(* Queues of callback objects.                                             *)

Elems(q) == {q[i] : i \in DOMAIN q}
Distinct(q) == \A i, j \in DOMAIN q : q[i] = q[j] => i = j

LEMMA EmptyQueue == Elems(<<>>) = {} /\ Distinct(<<>>) /\ <<>> \in Seq(Opt)
  BY DEF Elems, Distinct

LEMMA AppendQueue ==
  ASSUME NEW q \in Seq(Opt), NEW o \in Opt, Distinct(q), o \notin Elems(q)
  PROVE  Elems(Append(q, o)) = Elems(q) \cup {o} /\ Distinct(Append(q, o))
<1> DEFINE r == Append(q, o)
<1>1. /\ r \in Seq(Opt) /\ Len(r) = Len(q) + 1 /\ DOMAIN r = 1 .. Len(r)
      /\ DOMAIN q = 1 .. Len(q) /\ Len(q) \in Nat
      /\ \A i \in 1 .. Len(q) : r[i] = q[i]
      /\ r[Len(q) + 1] = o
  OBVIOUS
<1> HIDE DEF r
<1>2. \A i \in 1 .. Len(q) : q[i] # o
  BY <1>1 DEF Elems
<1>3. Distinct(r)
  BY <1>1, <1>2 DEF Distinct
<1>4. Elems(r) = Elems(q) \cup {o}
  BY <1>1 DEF Elems
<1> QED
  BY <1>3, <1>4 DEF r

LEMMA TailQueue ==
  ASSUME NEW q \in Seq(Opt), Distinct(q), q # <<>>
  PROVE  /\ Head(q) \in Opt /\ Tail(q) \in Seq(Opt) /\ Distinct(Tail(q))
         /\ Elems(q) = Elems(Tail(q)) \cup {Head(q)} /\ Head(q) \notin Elems(Tail(q))
<1> DEFINE r == Tail(q)
<1>1. /\ r \in Seq(Opt) /\ Len(r) = Len(q) - 1 /\ DOMAIN r = 1 .. Len(r)
      /\ DOMAIN q = 1 .. Len(q) /\ Len(q) \in Nat \ {0}
      /\ \A i \in 1 .. Len(q) - 1 : r[i] = q[i + 1]
      /\ Head(q) = q[1] /\ Head(q) \in Opt
  OBVIOUS
<1> HIDE DEF r
<1>2. Distinct(r)
  <2>1. \A i \in 1 .. Len(q) - 1 : i + 1 \in 1 .. Len(q)
    BY <1>1
  <2>2. ASSUME NEW i \in DOMAIN r, NEW j \in DOMAIN r, r[i] = r[j] PROVE i = j
    <3>1. i \in 1 .. Len(q) - 1 /\ j \in 1 .. Len(q) - 1
      BY <1>1
    <3>2. q[i + 1] = q[j + 1] /\ i + 1 \in DOMAIN q /\ j + 1 \in DOMAIN q
      BY <1>1, <2>1, <2>2, <3>1
    <3>3. i + 1 = j + 1
      BY <3>2 DEF Distinct
    <3> QED
      BY <3>1, <3>3
  <2> QED
    BY <2>2 DEF Distinct
<1>3. Head(q) \notin Elems(r)
  BY <1>1 DEF Elems, Distinct
<1>4. \A i \in 1 .. Len(q) : i = 1 \/ (i - 1 \in 1 .. Len(r) /\ q[i] = r[i - 1])
  BY <1>1
<1>5. Elems(q) = Elems(r) \cup {Head(q)}
  <2>1. ASSUME NEW i \in 1 .. Len(q) PROVE q[i] \in Elems(r) \cup {Head(q)}
    BY <1>1, <1>4 DEF Elems
  <2>2. ASSUME NEW i \in 1 .. Len(r) PROVE r[i] \in Elems(q)
    BY <1>1 DEF Elems
  <2>3. Head(q) \in Elems(q)
    BY <1>1 DEF Elems
  <2>4. Elems(q) \subseteq Elems(r) \cup {Head(q)}
    BY <1>1, <2>1 DEF Elems
  <2>5. Elems(r) \subseteq Elems(q)
    BY <1>1, <2>2 DEF Elems
  <2> QED
    BY <2>3, <2>4, <2>5
<1> QED
  BY <1>1, <1>2, <1>3, <1>5 DEF r

\* A queue without repetitions has as many elements as places.
LEMMA CountQueue ==
  ASSUME NEW q \in Seq(Opt), Distinct(q)
  PROVE  Cardinality(Elems(q)) = Len(q)
<1>1. Len(q) \in Nat /\ DOMAIN q = 1 .. Len(q) /\ q \in [1 .. Len(q) -> Elems(q)]
  BY DEF Elems
<1>2. q \in Bijection(1 .. Len(q), Elems(q))
  BY <1>1 DEF Bijection, Injection, Surjection, IsInjective, Distinct, Elems
<1>3. IsFiniteSet(1 .. Len(q)) /\ Cardinality(1 .. Len(q)) = Len(q)
  <2>1. Len(q) \in Int /\ 1 \in Int /\ (IF 1 > Len(q) THEN 0 ELSE Len(q) - 1 + 1) = Len(q)
    BY <1>1
  <2> QED
    BY <2>1, FS_Interval
<1> QED
  BY <1>2, <1>3, FS_Bijection DEF ExistsBijection

-----------------------------------------------------------------------------
(* What the library functions do to the fields of a context.               *)

SameFields(a, b) ==
  /\ b.replies = a.replies /\ b.obuf = a.obuf /\ b.reader = a.reader
  /\ b.mask = a.mask /\ b.ev = a.ev

LEMMA MarkFields ==
  ASSUME NEW a \in Context
  PROVE  LET b == MarkDisconnecting(a) IN
         SameFields(a, b) /\ b.flags = a.flags \cup {"DISCONNECTING"} /\ b.err = a.err
  BY DEF SameFields, MarkDisconnecting, Context

LEMMA FailedFields ==
  ASSUME NEW a \in Context
  PROVE  LET b == Failed(a) IN
         SameFields(a, b) /\ b.flags = a.flags \cup {"DISCONNECTING"} /\ b.err
  BY DEF SameFields, Failed, MarkDisconnecting, Context

LEMMA ConnectedFields ==
  ASSUME NEW a \in Context
  PROVE  LET b == [a EXCEPT !.flags = @ \cup {"CONNECTED"}] IN
         /\ b \in Context /\ SameFields(a, b) /\ b.err = a.err
         /\ b.flags = a.flags \cup {"CONNECTED"}
<1>1. a.flags \cup {"CONNECTED"} \in SUBSET {"CONNECTED", "DISCONNECTING"}
  BY DEF Context
<1> QED
  BY <1>1 DEF SameFields, Context

LEMMA ShiftFields ==
  ASSUME NEW a \in Context
  PROVE  LET b == ShiftCallback(a) IN
         /\ b.replies = Tail(a.replies) /\ b.obuf = a.obuf /\ b.reader = a.reader
         /\ b.mask = a.mask /\ b.ev = a.ev /\ b.flags = a.flags /\ b.err = a.err
  BY DEF ShiftCallback, Context

LEMMA CommandFields ==
  ASSUME NEW a \in Context, NEW o \in Opt
  PROVE  LET b == AsyncCommand(a, o) IN
         /\ b.replies = Append(a.replies, o) /\ b.obuf = Append(a.obuf, o)
         /\ b.reader = a.reader /\ b.ev = a.ev /\ b.flags = a.flags /\ b.err = a.err
         /\ b.mask = IF a.ev THEN a.mask \cup {"W"} ELSE a.mask
  BY DEF AsyncCommand, Arm, Context

LEMMA CommandReplies ==
  ASSUME NEW a \in Context, NEW o
  PROVE  AsyncCommand(a, o).replies = Append(a.replies, o)
  BY DEF AsyncCommand, Arm, Context

LEMMA CommandErr ==
  ASSUME NEW a \in Context, NEW o
  PROVE  AsyncCommand(a, o).err = a.err
  BY DEF AsyncCommand, Arm, Context

LEMMA WrittenFields ==
  ASSUME NEW a \in Context, NEW k
  PROVE  LET b == Written(a, k) IN
         /\ b.replies = a.replies /\ b.obuf = SubSeq(a.obuf, k + 1, Len(a.obuf))
         /\ b.reader = a.reader /\ b.ev = a.ev /\ b.flags = a.flags /\ b.err = a.err
         /\ b.mask = (IF k = Len(a.obuf) THEN a.mask \ {"W"} ELSE a.mask) \cup {"R"}
  BY DEF Written, Context

\* The context whose first reply is taken out of the reader.
LEMMA TakenFields ==
  ASSUME NEW a \in Context, a.reader # <<>>
  PROVE  LET b == [a EXCEPT !.reader = Tail(@)] IN
         /\ b \in Context /\ b.replies = a.replies /\ b.obuf = a.obuf
         /\ b.reader = Tail(a.reader)
         /\ b.mask = a.mask /\ b.ev = a.ev /\ b.flags = a.flags /\ b.err = a.err
<1>1. a.reader \in Seq(Reply)
  BY DEF Context
<1>2. Tail(a.reader) \in Seq(Reply)
  BY <1>1
<1> QED
  BY <1>2 DEF Context

-----------------------------------------------------------------------------
(* What each step does to the contexts and their sockets.                  *)

Untouched(x) == \A y \in Ctx \ {x} : ac'[y] = ac[y] /\ sock'[y] = sock[y]

\* A context whose connection is up, and one whose first reply was taken.
Joined(a) == [a EXCEPT !.flags = @ \cup {"CONNECTED"}]
Taken(a) == [a EXCEPT !.reader = Tail(@)]

LEMMA ContextsTyped ==
  ASSUME TypeInv
  PROVE  /\ ac \in [Ctx -> Context] /\ sock \in [Ctx -> Socket] /\ rc \in [Conn -> Members]
         /\ heap \subseteq Ctx /\ conns \subseteq Conn
         /\ run.pc \in {"process", "drain", "callback"} => run.ctx \in heap /\ run.ctx \in Ctx
  BY DEF TypeInv, TypeOK, RunOK

LEMMA CommandShape ==
  ASSUME TypeInv, NEW c \in Conn, RedisAsyncCmd(c)
  PROVE  LET x == rc[c].ctx IN
         /\ x \in Ctx /\ rc[c].opt \in Opt /\ c \in conns
         /\ UNCHANGED <<loop, conns, alloc, heap, sock, run>> /\ Untouched(x)
         /\ rc' = [rc EXCEPT ![c].opt = NULL]
         /\ ac'[x] = IF Refuses(ac[x]) THEN ac[x] ELSE AsyncCommand(ac[x], rc[c].opt)
<1>1. rc[c] \in Members /\ rc[c].ctx \in Ctx /\ rc[c].opt \in Opt
  BY ContextsTyped DEF RedisAsyncCmd, Members
<1> QED
  BY <1>1, ContextsTyped DEF RedisAsyncCmd, Untouched

LEMMA DestroyShape ==
  ASSUME TypeInv, NEW c \in Conn, Destroy(c)
  PROVE  /\ c \in conns /\ conns' = conns \ {c} /\ rc' = [rc EXCEPT ![c] = FreshMembers]
         /\ UNCHANGED <<loop, alloc, run>> /\ run.pc \in {"idle", "callback"}
         /\ \/ UNCHANGED <<heap, ac, sock>>
            \/ \E x \in Ctx :
                 /\ heap' = heap \ {x} /\ ac' = [ac EXCEPT ![x] = FreshContext]
                 /\ sock' = [sock EXCEPT ![x] = FreshSocket]
                 /\ ac[x].replies = <<>> /\ ~InCallback(x)
            \/ \E x \in Ctx :
                 /\ ~CleanDestroy /\ UNCHANGED <<heap, sock>>
                 /\ ac' = [ac EXCEPT ![x] = MarkDisconnecting(ac[x])]
<1> DEFINE x == rc[c].ctx
           later == x # NULL /\ (InCallback(x) \/ ac[x].replies # <<>>)
           now == IF x = NULL \/ later THEN {} ELSE {x}
<1>1. /\ c \in conns /\ conns' = conns \ {c} /\ rc' = [rc EXCEPT ![c] = FreshMembers]
      /\ run.pc \in {"idle", "callback"} /\ UNCHANGED <<loop, alloc, run>>
      /\ heap' = heap \ now
      /\ ac' = [y \in Ctx |-> IF y \in now THEN FreshContext
                              ELSE IF later /\ y = x THEN MarkDisconnecting(ac[y])
                              ELSE ac[y]]
      /\ sock' = [y \in Ctx |-> IF y \in now THEN FreshSocket ELSE sock[y]]
      /\ CleanDestroy => ~later
  BY DEF Destroy, AppTurn
<1>2. x \in Ctx \cup {NULL} /\ NULL \notin Ctx
  BY CtxType, DistinctConstants
<1>3. CASE x = NULL
  BY <1>1, <1>2, <1>3, ContextsTyped
<1>4. CASE x # NULL /\ ~later
  BY <1>1, <1>2, <1>4, ContextsTyped
<1>5. CASE later
  BY <1>1, <1>2, <1>5, ContextsTyped
<1> QED
  BY <1>3, <1>4, <1>5

LEMMA ConnectFailedShape ==
  ASSUME TypeInv, NEW x \in Ctx, HandleConnectFailed(x)
  PROVE  /\ run.pc = "idle" /\ x \in heap
         /\ UNCHANGED <<loop, conns, alloc, heap, sock>> /\ Untouched(x)
         /\ \A d \in Conn : rc'[d].opt = rc[d].opt
         /\ \/ run' = At("wild", x) /\ ac'[x] = ac[x]
            \/ run' = At("drain", x) /\ ac'[x] = Failed(ac[x])
<1>1. \A d \in Conn : rc'[d].opt = rc[d].opt
  BY ContextsTyped DEF HandleConnectFailed, ConnectCallback, Members
<1>2. CASE run' = At("wild", x) /\ UNCHANGED <<rc, ac>>
  BY <1>1, <1>2 DEF HandleConnectFailed, Untouched
<1>3. CASE run' = At("drain", x) /\ ac' = [ac EXCEPT ![x] = Failed(@)]
  BY <1>1, <1>3, ContextsTyped DEF HandleConnectFailed, Untouched
<1> QED
  BY <1>2, <1>3 DEF HandleConnectFailed

LEMMA WriteShape ==
  ASSUME TypeInv, NEW x \in Ctx, HandleWrite(x)
  PROVE  LET a == Joined(ac[x]) IN
         /\ run.pc = "idle" /\ x \in heap /\ Writable(ac[x], sock[x])
         /\ UNCHANGED <<loop, conns, alloc, heap>> /\ Untouched(x)
         /\ \A d \in Conn : rc'[d].opt = rc[d].opt
         /\ \/ run' = At("wild", x) /\ ac'[x] = ac[x] /\ sock'[x] = sock[x]
            \/ \E k \in 0 .. Len(a.obuf) :
                 /\ ac'[x] = Written(a, k) /\ UNCHANGED run
                 /\ sock'[x] = [sock[x] EXCEPT !.sent = @ \o SubSeq(a.obuf, 1, k)]
            \/ ac'[x] = Failed(a) /\ run' = At("drain", x) /\ sock'[x] = sock[x]
<1> DEFINE a == Joined(ac[x])
<1>1. \A d \in Conn : rc'[d].opt = rc[d].opt
  <2>1. rc \in [Conn -> Members]
    BY ContextsTyped
  <2>2. rc' = rc \/ \E c \in Conn : rc' = [rc EXCEPT ![c].state = "S_PROC"]
    BY ContextsTyped DEF HandleWrite, ConnectCallback
  <2> QED
    BY <2>1, <2>2 DEF Members
<1>2. ac[x] \in Context /\ ac \in [Ctx -> Context] /\ sock \in [Ctx -> Socket]
  BY ContextsTyped
<1>3. a.obuf \in Seq(Opt) /\ Len(a.obuf) \in Nat
  BY <1>2, ConnectedFields DEF Joined, Context
<1>4. \A k \in IF a.obuf = <<>> THEN {0} ELSE 1 .. Len(a.obuf) : k \in 0 .. Len(a.obuf)
  BY <1>3
<1>5. /\ run.pc = "idle" /\ x \in heap /\ Writable(ac[x], sock[x])
      /\ UNCHANGED <<loop, conns, alloc, heap>>
      /\ \/ run' = At("wild", x) /\ UNCHANGED <<ac, sock>>
         \/ \E k \in 0 .. Len(a.obuf) :
              /\ ac' = [ac EXCEPT ![x] = Written(a, k)] /\ UNCHANGED run
              /\ sock' = [sock EXCEPT ![x].sent = @ \o SubSeq(a.obuf, 1, k)]
         \/ ac' = [ac EXCEPT ![x] = Failed(a)] /\ run' = At("drain", x) /\ UNCHANGED sock
  BY <1>4 DEF HandleWrite, Joined
<1> HIDE DEF a
<1>6. CASE run' = At("wild", x) /\ UNCHANGED <<ac, sock>>
  BY <1>1, <1>5, <1>6 DEF Untouched, a
<1>7. ASSUME NEW k \in 0 .. Len(a.obuf), ac' = [ac EXCEPT ![x] = Written(a, k)], UNCHANGED run,
             sock' = [sock EXCEPT ![x].sent = @ \o SubSeq(a.obuf, 1, k)]
      PROVE  /\ Untouched(x) /\ ac'[x] = Written(a, k)
             /\ sock'[x] = [sock[x] EXCEPT !.sent = @ \o SubSeq(a.obuf, 1, k)]
  BY <1>2, <1>7 DEF Untouched
<1>8. CASE ac' = [ac EXCEPT ![x] = Failed(a)] /\ run' = At("drain", x) /\ UNCHANGED sock
  BY <1>1, <1>2, <1>5, <1>8 DEF Untouched, a
<1> QED
  BY <1>1, <1>5, <1>6, <1>7, <1>8 DEF a

LEMMA ReadShape ==
  ASSUME TypeInv, NEW x \in Ctx, HandleRead(x)
  PROVE  /\ run.pc = "idle" /\ x \in heap /\ Readable(ac[x], sock[x])
         /\ UNCHANGED <<loop, conns, rc, alloc, heap>> /\ Untouched(x)
         /\ \/ \E k \in 1 .. Len(sock[x].recv) :
                 /\ ac'[x] = ReadIn(ac[x], sock[x], k) /\ run' = At("process", x)
                 /\ sock'[x] = [sock[x] EXCEPT !.recv = SubSeq(@, k + 1, Len(@))]
            \/ ac'[x] = Failed(ac[x]) /\ run' = At("drain", x) /\ sock'[x] = sock[x]
<1>1. ac \in [Ctx -> Context] /\ sock \in [Ctx -> Socket]
  BY ContextsTyped
<1>2. ASSUME NEW k \in 1 .. Len(sock[x].recv), ac' = [ac EXCEPT ![x] = ReadIn(@, sock[x], k)],
             sock' = [sock EXCEPT ![x].recv = SubSeq(@, k + 1, Len(@))],
             run' = At("process", x)
      PROVE  /\ Untouched(x) /\ ac'[x] = ReadIn(ac[x], sock[x], k)
             /\ sock'[x] = [sock[x] EXCEPT !.recv = SubSeq(@, k + 1, Len(@))]
  BY <1>1, <1>2 DEF Untouched
<1>3. CASE ac' = [ac EXCEPT ![x] = Failed(@)] /\ run' = At("drain", x) /\ UNCHANGED sock
  BY <1>1, <1>3 DEF HandleRead, Untouched
<1> QED
  BY <1>2, <1>3 DEF HandleRead

LEMMA ReplyShape ==
  ASSUME TypeInv, ProcessReply
  PROVE  LET x == run.ctx
             a == Taken(ac[x]) IN
         /\ run.pc = "process" /\ x \in heap /\ x \in Ctx /\ ac[x].reader # <<>>
         /\ UNCHANGED <<loop, conns, rc, alloc, heap, sock>> /\ Untouched(x)
         /\ \/ a.replies # <<>> /\ RunCallback(x, a) /\ ac'[x] = ShiftCallback(a)
            \/ /\ a.replies = <<>> /\ ac'[x] = Failed(a)
               /\ run' = IF Head(ac[x].reader) = Busy THEN At("drain", x) ELSE At("abort", x)
<1> DEFINE x == run.ctx
           a == Taken(ac[x])
<1>1. run.pc = "process" /\ x \in heap /\ x \in Ctx /\ ac \in [Ctx -> Context]
      /\ ac[x].reader # <<>>
  BY ContextsTyped DEF ProcessReply
<1>2. CASE a.replies # <<>>
  BY <1>1, <1>2 DEF ProcessReply, RunCallback, Taken, Untouched
<1>3. CASE a.replies = <<>>
  BY <1>1, <1>3 DEF ProcessReply, Taken, Untouched
<1> QED
  BY <1>2, <1>3

LEMMA DrainShape ==
  ASSUME TypeInv, DrainReply
  PROVE  LET x == run.ctx IN
         /\ run.pc = "drain" /\ x \in heap /\ x \in Ctx /\ ac[x].replies # <<>>
         /\ UNCHANGED <<loop, conns, rc, alloc, heap, sock>> /\ Untouched(x)
         /\ RunCallback(x, ac[x]) /\ ac'[x] = ShiftCallback(ac[x])
  BY ContextsTyped DEF DrainReply, RunCallback, Untouched

LEMMA FinishShape ==
  ASSUME TypeInv, FinishFree
  PROVE  LET x == run.ctx IN
         /\ run.pc = "drain" /\ x \in heap /\ x \in Ctx /\ ac[x].replies = <<>>
         /\ UNCHANGED <<loop, conns, alloc>> /\ Untouched(x)
         /\ \A d \in Conn : rc'[d].opt = rc[d].opt
         /\ \/ run' = At("wild", x) /\ UNCHANGED <<heap, ac, sock>>
            \/ /\ run' = Idle /\ heap' = heap \ {x} /\ ac' = [ac EXCEPT ![x] = FreshContext]
               /\ sock' = [sock EXCEPT ![x] = FreshSocket]
<1>1. \A d \in Conn : rc'[d].opt = rc[d].opt
  BY ContextsTyped DEF FinishFree, DisconnectCallback, Members
<1> QED
  BY <1>1, ContextsTyped DEF FinishFree, Untouched

-----------------------------------------------------------------------------
(***************************************************************************)
(* Holders of a callback object.  An object is created for a connection,   *)
(* waits in the queue of a context, or its callback runs; every step of    *)
(* RedisConn leaves all holders alone or makes one of five moves.          *)
(***************************************************************************)

Creates(c, o) == c \in conns /\ rc[c].opt = o
QueueOf(x) == IF x \in heap THEN ac[x].replies ELSE <<>>
Runs(o) == run.pc = "callback" /\ run.opt = o

SameCreated(c) == \A d \in Conn \ {c}, o \in Opt : Creates(d, o)' <=> Creates(d, o)
SameQueues(x) == \A y \in Ctx \ {x} : QueueOf(y)' = QueueOf(y)
SameRun == \A o \in Opt : Runs(o)' <=> Runs(o)

Keeps ==
  alloc' = alloc /\ SameCreated(NULL) /\ SameQueues(NULL) /\ SameRun

Makes(c, o) ==
  /\ o \in Opt \ alloc /\ alloc' = (alloc \ {p \in Opt : Creates(c, p)}) \cup {o}
  /\ \A p \in Opt : Creates(c, p)' <=> p = o
  /\ SameCreated(c) /\ SameQueues(NULL) /\ SameRun

Drops(c, o) ==
  /\ Creates(c, o) /\ \A p \in Opt : ~Creates(c, p)'
  /\ alloc' = alloc /\ SameCreated(c) /\ SameQueues(NULL) /\ SameRun

Submits(c, o, x) ==
  /\ Creates(c, o) /\ \A p \in Opt : ~Creates(c, p)'
  /\ QueueOf(x)' = Append(QueueOf(x), o)
  /\ alloc' = alloc /\ SameCreated(c) /\ SameQueues(x) /\ SameRun

Calls(x) ==
  /\ QueueOf(x) # <<>> /\ QueueOf(x)' = Tail(QueueOf(x))
  /\ \A o \in Opt : ~Runs(o) /\ (Runs(o)' <=> o = Head(QueueOf(x)))
  /\ alloc' = alloc /\ SameCreated(NULL) /\ SameQueues(x)

Returns(o) ==
  /\ Runs(o) /\ alloc' = alloc \ {o} /\ \A p \in Opt : ~Runs(p)'
  /\ SameCreated(NULL) /\ SameQueues(NULL)

Moves ==
  \/ Keeps
  \/ \E c \in Conn, o \in Opt : Makes(c, o) \/ Drops(c, o) \/ \E x \in Ctx : Submits(c, o, x)
  \/ (\E x \in Ctx : Calls(x)) \/ \E o \in Opt : Returns(o)

\* OneHolder in these terms.
Held ==
  /\ \A c \in Conn, o \in Opt : Creates(c, o) => o \in alloc
  /\ \A c, d \in Conn, o \in Opt : Creates(c, o) /\ Creates(d, o) => c = d
  /\ \A x \in Ctx : Distinct(QueueOf(x)) /\ Elems(QueueOf(x)) \subseteq alloc
  /\ \A x \in Ctx, c \in Conn : \A o \in Elems(QueueOf(x)) : ~Creates(c, o)
  /\ \A x, y \in Ctx : x = y \/ Elems(QueueOf(x)) \cap Elems(QueueOf(y)) = {}
  /\ \A o \in Opt : Runs(o) => /\ o \in alloc
                               /\ \A x \in Ctx : o \notin Elems(QueueOf(x))
                               /\ \A c \in Conn : ~Creates(c, o)

HoldInv == TypeInv /\ Held

LEMMA HeldTypes ==
  ASSUME TypeInv
  PROVE  /\ \A x \in Ctx : QueueOf(x) \in Seq(Opt) /\ Elems(QueueOf(x)) \subseteq Opt
         /\ conns \subseteq Conn /\ heap \subseteq Ctx /\ alloc \subseteq Opt
         /\ \A c \in Conn : rc[c].opt \in Opt \cup {NULL}
         /\ \A x \in heap : Pending(x) = Elems(QueueOf(x))
<1> USE DEF TypeInv, TypeOK
<1>1. \A x \in Ctx : QueueOf(x) \in Seq(Opt)
  BY DEF QueueOf, Context
<1>2. \A q \in Seq(Opt) : Elems(q) \subseteq Opt
  BY DEF Elems
<1>3. \A c \in Conn : rc[c].opt \in Opt \cup {NULL}
  BY DEF Members
<1> QED
  BY <1>1, <1>2, <1>3 DEF Pending, Elems, QueueOf

LEMMA HeldIsOneHolder == ASSUME HoldInv PROVE OneHolder
<1> USE DEF HoldInv
<1>1. \A c \in conns : rc[c].opt \in alloc \cup {NULL}
  BY HeldTypes DEF Held, Creates
<1>2. \A c, d \in conns : rc[c].opt = rc[d].opt => c = d \/ rc[c].opt = NULL
  BY HeldTypes DEF Held, Creates
<1>3. ASSUME NEW x \in heap
      PROVE  /\ Pending(x) \subseteq alloc
             /\ Cardinality(Pending(x)) = Len(ac[x].replies)
             /\ \A c \in conns : rc[c].opt \notin Pending(x)
             /\ \A y \in heap \ {x} : Pending(x) \cap Pending(y) = {}
  <2>1. x \in Ctx /\ Pending(x) = Elems(QueueOf(x)) /\ QueueOf(x) = ac[x].replies
    BY HeldTypes DEF QueueOf
  <2>2. Cardinality(Pending(x)) = Len(ac[x].replies)
    BY <2>1, HeldTypes, CountQueue DEF Held
  <2>3. \A c \in conns : rc[c].opt \notin Pending(x)
    BY <2>1, HeldTypes DEF Held, Creates
  <2> QED
    BY <2>1, <2>2, <2>3, HeldTypes DEF Held
<1>4. run.pc = "callback" => /\ run.opt \in alloc
                             /\ \A x \in heap : run.opt \notin Pending(x)
                             /\ \A c \in conns : rc[c].opt # run.opt
  BY HeldTypes DEF Held, Runs, Creates, TypeInv, RunOK
<1> QED
  BY <1>1, <1>2, <1>3, <1>4 DEF OneHolder

\* Each move preserves the invariant.
LEMMA MovesHold == ASSUME HoldInv, TypeInv', Moves PROVE HoldInv'
<1> USE DEF HoldInv
<1>0. NULL \notin Conn /\ NULL \notin Ctx
  BY DistinctConstants
<1>1. ASSUME Keeps PROVE Held'
  BY <1>0, <1>1, HeldTypes DEF Held, Keeps, SameCreated, SameQueues, SameRun
<1>2. ASSUME NEW c \in Conn, NEW o \in Opt, Makes(c, o) PROVE Held'
  BY <1>0, <1>2, HeldTypes DEF Held, Makes, SameCreated, SameQueues, SameRun
<1>3. ASSUME NEW c \in Conn, NEW o \in Opt, Drops(c, o) PROVE Held'
  BY <1>0, <1>3, HeldTypes DEF Held, Drops, SameCreated, SameQueues, SameRun
<1>4. ASSUME NEW c \in Conn, NEW o \in Opt, NEW x \in Ctx, Submits(c, o, x) PROVE Held'
  <2>1. /\ Elems(QueueOf(x)') = Elems(QueueOf(x)) \cup {o} /\ Distinct(QueueOf(x)')
    BY <1>4, HeldTypes, AppendQueue DEF Held, Submits
  <2>2. \A y \in Ctx : Distinct(QueueOf(y)')
    BY <1>4, <2>1 DEF Held, Submits, SameQueues
  <2>3. \A y \in Ctx \ {x} : Elems(QueueOf(y)') = Elems(QueueOf(y))
    BY <1>4 DEF Submits, SameQueues
  <2>4. \A d \in Conn, p \in Opt : Creates(d, p)' => Creates(d, p) /\ p # o
    BY <1>4 DEF Submits, SameCreated, Held
  <2>5. o \in alloc /\ alloc' = alloc /\ ~Runs(o)
        /\ \A y \in Ctx : o \notin Elems(QueueOf(y))
    BY <1>4, HeldTypes DEF Submits, Held
  <2>6. \A p \in Opt : Runs(p)' <=> Runs(p)
    BY <1>4 DEF Submits, SameRun
  <2> QED
    BY <2>1, <2>2, <2>3, <2>4, <2>5, <2>6, HeldTypes DEF Held
<1>5. ASSUME NEW x \in Ctx, Calls(x) PROVE Held'
  <2> DEFINE o == Head(QueueOf(x))
  <2>1. /\ o \in Opt /\ Elems(QueueOf(x)) = Elems(QueueOf(x)') \cup {o}
        /\ o \notin Elems(QueueOf(x)') /\ Distinct(QueueOf(x)')
    BY <1>5, HeldTypes, TailQueue DEF Held, Calls
  <2>2. \A p \in Opt : Runs(p)' <=> p = o
    BY <1>5 DEF Calls
  <2> HIDE DEF o
  <2>3. \A y \in Ctx : Distinct(QueueOf(y)')
    BY <1>5, <2>1 DEF Held, Calls, SameQueues
  <2>4. \A y \in Ctx \ {x} : Elems(QueueOf(y)') = Elems(QueueOf(y))
    BY <1>5 DEF Calls, SameQueues
  <2>5. \A d \in Conn, p \in Opt : Creates(d, p)' <=> Creates(d, p)
    BY <1>0, <1>5 DEF Calls, SameCreated
  <2>6. o \in alloc /\ alloc' = alloc /\ (\A d \in Conn : ~Creates(d, o))
        /\ \A y \in Ctx : o \notin Elems(QueueOf(y)')
    BY <1>5, <2>1, <2>4 DEF Held, Calls
  <2> QED
    BY <2>1, <2>2, <2>3, <2>4, <2>5, <2>6, HeldTypes DEF Held
<1>6. ASSUME NEW o \in Opt, Returns(o) PROVE Held'
  BY <1>0, <1>6, HeldTypes DEF Held, Returns, SameCreated, SameQueues
<1> QED
  BY <1>1, <1>2, <1>3, <1>4, <1>5, <1>6 DEF Moves

\* The connections that Connect makes start with contexts that were not on the
\* heap; nothing else on the heap changes.
LEMMA ConnectEffect ==
  ASSUME TypeInv, NEW m \in [Conn -> Members], NEW S \in SUBSET Conn, Connect(m, S)
  PROVE  /\ UNCHANGED <<loop, conns, alloc, sock, run>>
         /\ heap \subseteq heap'
         /\ \A x \in heap : ac'[x] = ac[x]
         /\ \A x \in heap' \ heap :
              ac'[x] = FailedContext \/ \E c \in Conn, f \in BOOLEAN : ac'[x] = AttachedContext(c, f)
         /\ \A c \in Conn : rc'[c].opt = m[c].opt
<1> DEFINE T == Connectable(m, S)
<1>1. PICK new \in [T -> Ctx \ heap], started \in SUBSET T, fits \in SUBSET T :
        ConnectEach(m, T, new, started, fits)
  BY DEF Connect
<1>2. T \subseteq Conn /\ \A c \in T : new[c] \in Ctx \ heap
  BY <1>1 DEF Connectable
<1> HIDE DEF T
<1>3. UNCHANGED <<loop, conns, alloc, sock, run>> /\ heap' = heap \cup {new[c] : c \in T}
  BY <1>1 DEF ConnectEach
<1>4. ASSUME NEW x \in heap PROVE ac'[x] = ac[x]
  <2>1. x \in Ctx /\ ~\E c \in T : new[c] = x
    BY <1>2, <1>4 DEF TypeInv, TypeOK
  <2> QED
    BY <1>1, <2>1 DEF ConnectEach
<1>5. ASSUME NEW x \in heap' \ heap
      PROVE  ac'[x] = FailedContext \/ \E c \in Conn, f \in BOOLEAN : ac'[x] = AttachedContext(c, f)
  <2> DEFINE c == CHOOSE d \in T : new[d] = x
  <2>1. \E d \in T : new[d] = x
    BY <1>3
  <2>2. c \in T /\ c \in Conn /\ x \in Ctx
    BY <1>2, <2>1
  <2> HIDE DEF c
  <2>3. ac'[x] = IF c \in started THEN AttachedContext(c, c \in fits) ELSE FailedContext
    BY <1>1, <2>1, <2>2 DEF ConnectEach, c
  <2> DEFINE f == c \in fits
  <2>4. f \in BOOLEAN /\ (ac'[x] = AttachedContext(c, f) \/ ac'[x] = FailedContext)
    BY <2>3
  <2> HIDE DEF f
  <2> QED
    BY <2>2, <2>4
<1>6. ASSUME NEW c \in Conn PROVE rc'[c].opt = m[c].opt
  <2>1. rc'[c] \in {m[c], [m[c] EXCEPT !.ctx = new[c]],
                    [m[c] EXCEPT !.ctx = new[c], !.state = "S_CONNECTIING"]}
    BY <1>1 DEF ConnectEach
  <2>2. m[c] \in Members
    OBVIOUS
  <2>3. [m[c] EXCEPT !.ctx = new[c]].opt = m[c].opt
    BY <2>2 DEF Members
  <2>4. [m[c] EXCEPT !.ctx = new[c], !.state = "S_CONNECTIING"].opt = m[c].opt
    BY <2>2 DEF Members
  <2> QED
    BY <2>1, <2>3, <2>4
<1>7. heap \subseteq heap'
  BY <1>3
<1> QED
  BY <1>3, <1>4, <1>5, <1>6, <1>7, Zenon

\* What a new context holds.
LEMMA NewContext ==
  ASSUME NEW a, a = FailedContext \/ \E c \in Conn, f \in BOOLEAN : a = AttachedContext(c, f)
  PROVE  /\ a.replies = <<>> /\ a.obuf = <<>> /\ a.reader = <<>> /\ a.flags = {}
         /\ a.ev => a.mask = {"W"}
<1>1. CASE a = FailedContext
  BY <1>1 DEF FailedContext, FreshContext
<1>2. ASSUME NEW c \in Conn, NEW f \in BOOLEAN, a = AttachedContext(c, f)
      PROVE  /\ a.replies = <<>> /\ a.obuf = <<>> /\ a.reader = <<>> /\ a.flags = {}
             /\ a.ev => a.mask = {"W"}
  <2> DEFINE b == [FreshContext EXCEPT !.data = c, !.ev = TRUE, !.polled = f]
  <2>1. AttachedContext(c, f) = Arm(b, "W")
    BY Zenon DEF AttachedContext
  <2>2. FreshContext \in Context /\ FreshContext.replies = <<>> /\ FreshContext.obuf = <<>>
        /\ FreshContext.reader = <<>> /\ FreshContext.flags = {} /\ FreshContext.mask = {}
    BY FreshType DEF FreshContext
  <2>3. b \in Context
    BY <2>2 DEF Context
  <2>4. b.replies = <<>> /\ b.obuf = <<>> /\ b.reader = <<>> /\ b.flags = {} /\ b.mask = {} /\ b.ev
    BY <2>2 DEF Context
  <2> HIDE DEF b
  <2> QED
    BY <1>2, <2>1, <2>3, <2>4 DEF Arm, Context
<1> QED
  BY <1>1, <1>2

\* InitConn and the timer call Connect with the members as they are, but for
\* the port.
LEMMA ConnectCalls ==
  ASSUME TypeInv, TimerCb \/ \E c \in Conn : InitConn(c)
  PROVE  \E m \in [Conn -> Members], S \in SUBSET Conn :
            Connect(m, S) /\ \A d \in Conn : m[d].opt = rc[d].opt
<1> USE DEF TypeInv, TypeOK
<1>1. CASE TimerCb
  <2>1. rc \in [Conn -> Members] /\ conns \in SUBSET Conn /\ Connect(rc, conns)
    BY <1>1 DEF TimerCb
  <2> HIDE DEF TypeInv, TypeOK
  <2>2. \A d \in Conn : rc[d].opt = rc[d].opt
    OBVIOUS
  <2> QED
    BY <2>1, <2>2
<1>2. ASSUME NEW c \in Conn, InitConn(c)
      PROVE  \E m \in [Conn -> Members], S \in SUBSET Conn :
                Connect(m, S) /\ \A d \in Conn : m[d].opt = rc[d].opt
  <2> DEFINE m == [rc EXCEPT ![c].port = TRUE]
  <2>1. rc \in [Conn -> Members] /\ rc[c] \in Members
    OBVIOUS
  <2>2. [rc[c] EXCEPT !.port = TRUE] \in Members /\ [rc[c] EXCEPT !.port = TRUE].opt = rc[c].opt
    BY <2>1 DEF Members
  <2>3. m \in [Conn -> Members] /\ \A d \in Conn : m[d].opt = rc[d].opt
    BY <2>1, <2>2
  <2>4. Connect(m, {c}) /\ {c} \in SUBSET Conn
    BY <1>2 DEF InitConn
  <2> QED
    BY <2>3, <2>4
<1> QED
  BY <1>1, <1>2

\* A step that moves no holder.
LEMMA KeepsFrom ==
  ASSUME alloc' = alloc,
         \A c \in Conn, o \in Opt : Creates(c, o)' <=> Creates(c, o),
         \A x \in Ctx : QueueOf(x)' = QueueOf(x),
         run' = run \/ (run.pc # "callback" /\ run'.pc # "callback")
  PROVE  Keeps
  BY DEF Keeps, SameCreated, SameQueues, SameRun, Runs

\* Every step leaves the holders of callback objects alone or makes one move.
LEMMA NextMoves == ASSUME TypeInv, TypeInv', [Next]_vars PROVE Moves
<1> USE DEF TypeInv, TypeOK, RunOK
<1>0. NULL \notin Opt /\ NULL \notin Conn /\ NULL \notin Ctx
  BY DistinctConstants
<1>1. ASSUME UNCHANGED <<conns, rc, alloc>>, \A x \in Ctx : QueueOf(x)' = QueueOf(x),
             run' = run \/ (run.pc # "callback" /\ run'.pc # "callback")
      PROVE  Keeps
  BY <1>1, KeepsFrom DEF Creates
<1>2. CASE MgrInit \/ UNCHANGED vars
  BY <1>1, <1>2 DEF MgrInit, vars, QueueOf, Moves
<1>3. ASSUME NEW c \in Conn, NewConn(c) PROVE Moves
  <2>1. \A d \in Conn, o \in Opt : Creates(d, o)' <=> Creates(d, o)
    BY <1>0, <1>3 DEF NewConn, Creates, FreshMembers
  <2> QED
    BY <1>3, <2>1, KeepsFrom DEF NewConn, QueueOf, Moves
<1>4. CASE TimerCb \/ \E c \in Conn : InitConn(c)
  <2>1. PICK m \in [Conn -> Members], S \in SUBSET Conn :
           Connect(m, S) /\ \A d \in Conn : m[d].opt = rc[d].opt
    BY <1>4, ConnectCalls
  <2>2. /\ UNCHANGED <<conns, alloc, run>> /\ heap \subseteq heap'
        /\ \A x \in heap : ac'[x] = ac[x]
        /\ \A x \in heap' \ heap : ac'[x].replies = <<>>
        /\ \A c \in Conn : rc'[c].opt = rc[c].opt
    BY <2>1, ConnectEffect, NewContext
  <2>3. \A x \in Ctx : QueueOf(x)' = QueueOf(x)
    BY <2>2 DEF QueueOf
  <2> HIDE DEF TypeInv, TypeOK, RunOK
  <2>4. \A c \in Conn, o \in Opt : Creates(c, o)' <=> Creates(c, o)
    BY <2>2 DEF Creates
  <2> QED
    BY <2>2, <2>3, <2>4, KeepsFrom DEF Moves
<1>5. ASSUME NEW c \in Conn, CreateOpt(c) PROVE Moves
  <2>1. PICK o \in Opt \ alloc : /\ alloc' = (alloc \ {rc[c].opt}) \cup {o}
                                /\ rc' = [rc EXCEPT ![c].opt = o]
    BY <1>5 DEF CreateOpt
  <2>2. c \in conns /\ UNCHANGED <<conns, heap, ac, run>>
    BY <1>5 DEF CreateOpt
  <2>3. alloc \ {rc[c].opt} = alloc \ {p \in Opt : Creates(c, p)}
    BY <2>2 DEF Creates
  <2>4. /\ \A p \in Opt : Creates(c, p)' <=> p = o
        /\ SameCreated(c)
    BY <2>1, <2>2 DEF Creates, SameCreated, Members
  <2>5. SameQueues(NULL) /\ SameRun
    BY <2>2 DEF SameQueues, SameRun, QueueOf, Runs
  <2>6. Makes(c, o)
    BY <2>1, <2>3, <2>4, <2>5 DEF Makes
  <2> QED
    BY <2>6 DEF Moves
<1>6. ASSUME NEW c \in Conn, RedisAsyncCmd(c) PROVE Moves
  <2> DEFINE x == rc[c].ctx
             o == rc[c].opt
  <2>1. /\ x \in Ctx /\ o \in Opt /\ c \in conns /\ rc' = [rc EXCEPT ![c].opt = NULL]
        /\ UNCHANGED <<conns, alloc, heap, run>>
    BY <1>6 DEF RedisAsyncCmd, Members
  <2>2. /\ Creates(c, o) /\ \A p \in Opt : ~Creates(c, p)'
        /\ SameCreated(c) /\ SameRun
    BY <1>0, <2>1 DEF Creates, SameCreated, SameRun, Runs, Members
  <2>3. CASE x \notin heap \/ Refuses(ac[x])
    <3>1. \A y \in heap : ac'[y] = ac[y]
      BY <1>6, <2>1, <2>3 DEF RedisAsyncCmd
    <3>2. SameQueues(NULL)
      BY <2>1, <3>1 DEF SameQueues, QueueOf
    <3>3. Drops(c, o)
      BY <2>1, <2>2, <3>2 DEF Drops
    <3> QED
      BY <2>1, <3>3 DEF Moves
  <2>4. CASE x \in heap /\ ~Refuses(ac[x])
    <3>1. /\ ac'[x] = AsyncCommand(ac[x], o) /\ \A y \in Ctx \ {x} : ac'[y] = ac[y]
      BY <1>6, <2>1, <2>4 DEF RedisAsyncCmd
    <3>2. ac'[x].replies = Append(ac[x].replies, o)
      BY <1>0, <2>1, <3>1, CommandReplies
    <3>3. heap' = heap /\ x' = x
      BY <1>0, <2>1 DEF Members
    <3>4. QueueOf(x)' = Append(QueueOf(x), o)
      BY <2>4, <3>2, <3>3 DEF QueueOf
    <3>5. SameQueues(x)
      BY <3>1, <3>3 DEF QueueOf, SameQueues
    <3>6. Submits(c, o, x)
      BY <2>1, <2>2, <3>4, <3>5 DEF Submits
    <3> QED
      BY <2>1, <3>6 DEF Moves
  <2> QED
    BY <2>3, <2>4
<1>7. ASSUME NEW c \in Conn, Destroy(c) PROVE Moves
  <2> DEFINE x == rc[c].ctx
             later == x # NULL /\ (InCallback(x) \/ ac[x].replies # <<>>)
             now == IF x = NULL \/ later THEN {} ELSE {x}
             o == rc[c].opt
  <2>1. /\ c \in conns /\ conns' = conns \ {c} /\ rc' = [rc EXCEPT ![c] = FreshMembers]
        /\ heap' = heap \ now
        /\ ac' = [y \in Ctx |-> IF y \in now THEN FreshContext
                                ELSE IF later /\ y = x THEN MarkDisconnecting(ac[y])
                                ELSE ac[y]]
        /\ UNCHANGED <<alloc, run>>
    BY <1>7 DEF Destroy
  <2>2. \A y \in Ctx : QueueOf(y)' = QueueOf(y)
    BY <2>1 DEF QueueOf, MarkDisconnecting, Context
  <2>3. (\A p \in Opt : ~Creates(c, p)') /\ SameCreated(c) /\ SameRun /\ SameQueues(NULL)
    BY <2>1, <2>2 DEF Creates, SameCreated, SameRun, SameQueues, Runs
  <2>4. CASE o \in Opt
    <3>1. Drops(c, o)
      BY <2>1, <2>3, <2>4 DEF Drops, Creates
    <3> QED
      BY <2>4, <3>1 DEF Moves
  <2>5. CASE o \notin Opt
    <3>1. \A p \in Opt : ~Creates(c, p)
      BY <2>5 DEF Creates
    <3> QED
      BY <1>0, <2>1, <2>3, <3>1 DEF Moves, Keeps, SameCreated
  <2> QED
    BY <2>4, <2>5
<1>8. ASSUME NEW x \in Ctx, UNCHANGED <<conns, alloc, heap>>, Untouched(x),
             \A d \in Conn : rc'[d].opt = rc[d].opt, ac'[x].replies = ac[x].replies,
             run.pc # "callback", run' = run \/ run'.pc # "callback"
      PROVE  Moves
  <2> HIDE DEF TypeInv, TypeOK, RunOK
  <2>1. \A y \in Ctx : ac'[y].replies = ac[y].replies
    BY <1>8 DEF Untouched
  <2>2. \A y \in Ctx : QueueOf(y)' = QueueOf(y)
    BY <1>8, <2>1 DEF QueueOf
  <2>3. \A c \in Conn, o \in Opt : Creates(c, o)' <=> Creates(c, o)
    BY <1>8 DEF Creates
  <2> QED
    BY <1>8, <2>2, <2>3, KeepsFrom DEF Moves
<1>9. ASSUME NEW x \in Ctx, HandleConnectFailed(x) \/ HandleWrite(x) \/ HandleRead(x)
      PROVE  Moves
  <2>1. ac[x] \in Context
    OBVIOUS
  <2>2. TypeInv
    OBVIOUS
  <2> HIDE DEF TypeInv, TypeOK, RunOK
  <2>3. CASE HandleConnectFailed(x)
    <3>1. ac'[x].replies = ac[x].replies
      BY <2>1, <2>2, <2>3, ConnectFailedShape, FailedFields DEF SameFields
    <3> QED
      BY <2>2, <2>3, <3>1, <1>8, ConnectFailedShape, AtType
  <2>4. CASE HandleWrite(x)
    <3>1. Joined(ac[x]) \in Context /\ Joined(ac[x]).replies = ac[x].replies
      BY <2>1, ConnectedFields DEF Joined, SameFields
    <3>2. ac'[x] = ac[x] \/ (\E k : ac'[x] = Written(Joined(ac[x]), k)) \/ ac'[x] = Failed(Joined(ac[x]))
      BY <2>2, <2>4, WriteShape
    <3>3. ac'[x].replies = ac[x].replies
      BY <3>1, <3>2, WrittenFields, FailedFields DEF SameFields
    <3> QED
      BY <2>2, <2>4, <3>3, <1>8, WriteShape, AtType
  <2>5. CASE HandleRead(x)
    <3>1. (\E k : ac'[x] = ReadIn(ac[x], sock[x], k)) \/ ac'[x] = Failed(ac[x])
      BY <2>2, <2>5, ReadShape
    <3>2. ac'[x].replies = ac[x].replies
      <4>1. ASSUME NEW k, ac'[x] = ReadIn(ac[x], sock[x], k) PROVE ac'[x].replies = ac[x].replies
        BY <2>1, <4>1 DEF ReadIn, Arm, Context
      <4> QED
        BY <2>1, <3>1, <4>1, FailedFields DEF SameFields
    <3>3. /\ UNCHANGED <<conns, rc, alloc, heap>> /\ Untouched(x) /\ run.pc = "idle"
          /\ run' = At("process", x) \/ run' = At("drain", x)
      BY <2>2, <2>5, ReadShape
    <3> QED
      BY <3>2, <3>3, <1>8, AtType
  <2> QED
    BY <1>9, <2>3, <2>4, <2>5
<1>10. ASSUME NEW x \in Ctx, x \in heap, run.pc \in {"process", "drain"}, run.ctx = x,
              UNCHANGED <<conns, rc, alloc, heap>>, Untouched(x),
              NEW a \in Context, a.replies = ac[x].replies, a.replies # <<>>,
              RunCallback(x, a), ac'[x] = ShiftCallback(a)
       PROVE  Moves
  <2> HIDE DEF TypeInv, TypeOK, RunOK
  <2>1. ac'[x].replies = Tail(ac[x].replies) /\ \A y \in Ctx \ {x} : ac'[y] = ac[y]
    BY <1>10, ShiftFields DEF Untouched
  <2>2. run'.pc = "callback" /\ run'.opt = Head(ac[x].replies)
    BY <1>10 DEF RunCallback
  <2>3. QueueOf(x) # <<>> /\ QueueOf(x)' = Tail(QueueOf(x)) /\ SameQueues(x)
    BY <1>10, <2>1 DEF QueueOf, SameQueues
  <2>4. \A o \in Opt : ~Runs(o) /\ (Runs(o)' <=> o = Head(QueueOf(x)))
    BY <1>10, <2>2 DEF Runs, QueueOf
  <2>5. Calls(x)
    BY <1>10, <2>3, <2>4 DEF Calls, SameCreated, Creates
  <2> QED
    BY <2>5 DEF Moves
<1>11. ASSUME ProcessReply PROVE Moves
  <2> DEFINE x == run.ctx
             a == Taken(ac[x])
  <2>1. TypeInv /\ x \in Ctx /\ ac[x] \in Context /\ ac[x].reader # <<>>
    BY <1>11, ReplyShape
  <2> HIDE DEF TypeInv, TypeOK, RunOK
  <2>2. a \in Context /\ a.replies = ac[x].replies
    BY <2>1, TakenFields DEF Taken
  <2>3. CASE a.replies # <<>>
    BY <1>10, <1>11, <2>1, <2>2, <2>3, ReplyShape
  <2>4. CASE a.replies = <<>>
    <3>1. ac'[x].replies = ac[x].replies
      BY <1>11, <2>1, <2>2, <2>4, ReplyShape, FailedFields DEF SameFields
    <3> QED
      BY <1>8, <1>11, <2>1, <2>4, <3>1, ReplyShape, AtType
  <2> QED
    BY <2>3, <2>4
<1>13. ASSUME NoMoreReplies PROVE Moves
  <2>1. run.pc = "process" /\ run'.pc \in {"idle", "drain", "abort"}
    BY <1>13, AtType DEF NoMoreReplies
  <2> QED
    BY <1>1, <1>13, <2>1 DEF Moves, QueueOf, NoMoreReplies
<1>14. ASSUME DrainReply PROVE Moves
  BY <1>10, <1>14, DrainShape
<1>15. ASSUME FinishFree PROVE Moves
  <2> DEFINE x == run.ctx
  <2>1. TypeInv /\ run.pc = "drain" /\ x \in Ctx /\ ac[x].replies = <<>> /\ ac \in [Ctx -> Context]
    BY <1>15, FinishShape
  <2> HIDE DEF TypeInv, TypeOK, RunOK
  <2>2. \A y \in Ctx : QueueOf(y)' = QueueOf(y)
    BY <1>15, <2>1, FinishShape DEF QueueOf
  <2>3. \A c \in Conn, o \in Opt : Creates(c, o)' <=> Creates(c, o)
    BY <1>15, <2>1, FinishShape DEF Creates
  <2>4. run'.pc # "callback" /\ alloc' = alloc
    BY <1>15, <2>1, FinishShape, AtType
  <2> QED
    BY <2>1, <2>2, <2>3, <2>4, KeepsFrom DEF Moves
<1>16. ASSUME CallbackReturn PROVE Moves
  <2> DEFINE o == run.opt
  <2>1. /\ run.pc = "callback" /\ o \in Opt /\ alloc' = alloc \ {o}
        /\ run'.pc \in {"process", "drain"} /\ UNCHANGED <<conns, rc, heap, ac>>
    BY <1>16, AtType DEF CallbackReturn
  <2>2. Returns(o)
    BY <2>1 DEF Returns, Runs, SameCreated, SameQueues, Creates, QueueOf
  <2> QED
    BY <2>1, <2>2 DEF Moves
<1>17. ASSUME Network PROVE Moves
  <2>1. UNCHANGED <<conns, rc, alloc, heap, ac, run>>
    BY <1>17 DEF Network, NetFails, Net, NetAccept, NetAnswer, NetRefuse, NetBusy, NetClose, NetReset
  <2> QED
    BY <1>1, <2>1 DEF Moves, QueueOf
<1> HIDE DEF TypeInv, TypeOK, RunOK
<1> QED
  BY <1>2, <1>3, <1>4, <1>5, <1>6, <1>7, <1>9, <1>11, <1>13, <1>14, <1>15, <1>16, <1>17
     DEF Next, Application, Handler

LEMMA HoldInit == Init => HoldInv
<1> SUFFICES ASSUME Init PROVE HoldInv
  OBVIOUS
<1>1. TypeInv
  BY InitType
<1>2. conns = {} /\ heap = {} /\ run.pc = "idle"
  BY DEF Init, Idle, At
<1> QED
  BY <1>1, <1>2, EmptyQueue DEF HoldInv, Held, Creates, QueueOf, Runs

LEMMA HoldStep == HoldInv /\ [Next]_vars => HoldInv'
  BY TypeStep, NextMoves, MovesHold DEF HoldInv

\* A callback object has at most one holder and exists while it has one, in
\* every reachable state, for all constants and every application: CreateOpt,
\* RedisAsyncCmd and StaticCmdCallback never delete one twice or call a deleted
\* one.
THEOREM OneHolderAlways == Spec => []OneHolder
<1>1. HoldInv => OneHolder
  BY HeldIsOneHolder
<1> QED
  BY HoldInit, HoldStep, <1>1, PTL DEF Spec

-----------------------------------------------------------------------------
(* Refinement of OptLifecycle: each move of a holder is a step of it.      *)

Waits(o) == \E x \in Ctx : o \in Elems(QueueOf(x))
IsCreated(o) == \E c \in Conn : Creates(c, o)

HolderState(o) == IF o \notin alloc THEN "none"
                  ELSE IF IsCreated(o) THEN "created"
                  ELSE IF Waits(o) THEN "pending"
                  ELSE IF Runs(o) THEN "running" ELSE "lost"

LEMMA StateOfHolder ==
  ASSUME TypeInv, NEW o \in Opt
  PROVE  OptState(o) = HolderState(o)
<1>1. conns \subseteq Conn /\ heap \subseteq Ctx /\ NULL \notin Opt
  BY ContextsTyped, DistinctConstants
<1>2. (\E c \in conns : rc[c].opt = o) <=> IsCreated(o)
  BY <1>1 DEF IsCreated, Creates
<1>3. (\E x \in heap : o \in Pending(x)) <=> Waits(o)
  BY <1>1, EmptyQueue DEF Waits, QueueOf, Pending, Elems
<1> QED
  BY <1>2, <1>3 DEF OptState, HolderState, Runs

LEMMA NextStateOfHolder ==
  ASSUME TypeInv', NEW o \in Opt
  PROVE  OptState(o)' = HolderState(o)'
<1>1. conns' \subseteq Conn /\ heap' \subseteq Ctx
  BY DEF TypeInv, TypeOK
<1>2. (\E c \in conns' : rc'[c].opt = o) <=> IsCreated(o)'
  BY <1>1 DEF IsCreated, Creates
<1>3. (\E x \in heap' : o \in Pending(x)') <=> Waits(o)'
  BY <1>1, EmptyQueue DEF Waits, QueueOf, Pending, Elems
<1> QED
  BY <1>2, <1>3 DEF OptState, HolderState, Runs

LEMMA AbstractMove ==
  ASSUME NEW o \in Opt, NEW from, NEW to, OptState(o) = from, OptState(o)' = to,
         \A p \in Opt \ {o} : OptState(p)' = OptState(p)
  PROVE  Lifecycle!Move(o, from, to)
<1> DEFINE st == [p \in Opt |-> OptState(p)]
<1>1. st[o] = from
  OBVIOUS
<1>2. st' = [st EXCEPT ![o] = to]
  OBVIOUS
<1> QED
  BY <1>1, <1>2 DEF Lifecycle!Move

\* Each move of a holder is a step of OptLifecycle or leaves it as it is.
LEMMA MovesRefine ==
  ASSUME HoldInv, TypeInv', Moves
  PROVE  Lifecycle!Next \/ \A p \in Opt : OptState(p)' = OptState(p)
<1>1. \A p \in Opt : OptState(p) = HolderState(p) /\ OptState(p)' = HolderState(p)'
  BY StateOfHolder, NextStateOfHolder DEF HoldInv
<1>0. Held /\ NULL \notin Conn /\ NULL \notin Ctx
      /\ \A x \in Ctx : QueueOf(x) \in Seq(Opt)
  BY HeldTypes, DistinctConstants DEF HoldInv
<1>2. ASSUME Keeps PROVE \A p \in Opt : OptState(p)' = OptState(p)
  <2>1. \A p \in Opt : (IsCreated(p)' <=> IsCreated(p)) /\ (Waits(p)' <=> Waits(p))
                       /\ (Runs(p)' <=> Runs(p))
    BY <1>0, <1>2 DEF Keeps, SameCreated, SameQueues, SameRun, IsCreated, Waits
  <2> QED
    BY <1>1, <1>2, <2>1 DEF HolderState, Keeps
<1>3. ASSUME NEW c \in Conn, NEW o \in Opt, Makes(c, o) PROVE Lifecycle!Next
  <2>1. \A p \in Opt : (Waits(p)' <=> Waits(p)) /\ (Runs(p)' <=> Runs(p))
    BY <1>0, <1>3 DEF Makes, SameQueues, SameRun, Waits
  <2>2. \A p \in Opt : IsCreated(p)' <=> p = o \/ \E d \in Conn \ {c} : Creates(d, p)
    BY <1>3 DEF Makes, SameCreated, IsCreated
  <2>3. OptState(o) = "none" /\ OptState(o)' = "created"
    BY <1>1, <1>3, <2>2 DEF HolderState, Makes
  <2>4. \A p \in Opt \ {o} : ~Creates(c, p) => OptState(p)' = OptState(p)
    BY <1>1, <1>3, <2>1, <2>2 DEF HolderState, Makes, IsCreated
  <2>5. ASSUME NEW old \in Opt, Creates(c, old) PROVE Lifecycle!Next
    <3>1. \A p \in Opt : Creates(c, p) => p = old
      BY <2>5 DEF Creates
    <3>2. old # o /\ old \in alloc
      BY <1>0, <1>3, <2>5 DEF Makes, Held
    <3>3. OptState(old) = "created" /\ OptState(old)' = "none"
      BY <1>1, <1>3, <2>5, <3>2 DEF HolderState, Makes, IsCreated
    <3> DEFINE st == [p \in Opt |-> OptState(p)]
    <3>4. st[o] = "none" /\ st[old] = "created"
      BY <2>3, <3>3
    <3>5. st' = [st EXCEPT ![o] = "created", ![old] = "none"]
      BY <2>3, <2>4, <3>1, <3>2, <3>3
    <3>6. Lifecycle!Replace(o, old)
      BY <3>4, <3>5 DEF Lifecycle!Replace
    <3> QED
      BY <3>6 DEF Lifecycle!Next
  <2>6. CASE \A p \in Opt : ~Creates(c, p)
    <3>1. Lifecycle!Create(o)
      BY <2>3, <2>4, <2>6, AbstractMove DEF Lifecycle!Create
    <3> QED
      BY <3>1 DEF Lifecycle!Next
  <2> QED
    BY <2>5, <2>6
<1>4. ASSUME NEW c \in Conn, NEW o \in Opt, Drops(c, o) PROVE Lifecycle!Next
  <2>1. \A p \in Opt : (Waits(p)' <=> Waits(p)) /\ (Runs(p)' <=> Runs(p))
    BY <1>0, <1>4 DEF Drops, SameQueues, SameRun, Waits
  <2>2. \A p \in Opt : IsCreated(p)' <=> IsCreated(p) /\ p # o
    BY <1>0, <1>4 DEF Drops, SameCreated, IsCreated, Held, Creates
  <2>3. o \in alloc /\ IsCreated(o) /\ ~Waits(o) /\ ~Runs(o)
    BY <1>0, <1>4 DEF Drops, IsCreated, Waits, Held
  <2>4. OptState(o) = "created" /\ OptState(o)' = "lost"
    BY <1>1, <1>4, <2>1, <2>2, <2>3 DEF HolderState, Drops
  <2>5. \A p \in Opt \ {o} : OptState(p)' = OptState(p)
    BY <1>1, <1>4, <2>1, <2>2 DEF HolderState, Drops
  <2>6. Lifecycle!Lose(o)
    BY <2>4, <2>5, AbstractMove DEF Lifecycle!Lose
  <2> QED
    BY <2>6 DEF Lifecycle!Next
<1>5. ASSUME NEW c \in Conn, NEW o \in Opt, NEW x \in Ctx, Submits(c, o, x)
      PROVE  Lifecycle!Next
  <2>1. o \in alloc /\ IsCreated(o) /\ ~Waits(o) /\ ~Runs(o)
    BY <1>0, <1>5 DEF Submits, IsCreated, Waits, Held
  <2>2. Elems(QueueOf(x)') = Elems(QueueOf(x)) \cup {o}
    BY <1>0, <1>5, <2>1, AppendQueue DEF Submits, Held, Waits
  <2>3. \A p \in Opt : (Waits(p)' <=> Waits(p) \/ p = o) /\ (Runs(p)' <=> Runs(p))
    BY <1>5, <2>2 DEF Submits, SameQueues, SameRun, Waits
  <2>4. \A p \in Opt : IsCreated(p)' <=> IsCreated(p) /\ p # o
    BY <1>0, <1>5 DEF Submits, SameCreated, IsCreated, Held, Creates
  <2>5. OptState(o) = "created" /\ OptState(o)' = "pending"
    BY <1>1, <1>5, <2>1, <2>3, <2>4 DEF HolderState, Submits
  <2>6. \A p \in Opt \ {o} : OptState(p)' = OptState(p)
    BY <1>1, <1>5, <2>3, <2>4 DEF HolderState, Submits
  <2>7. Lifecycle!Submit(o)
    BY <2>5, <2>6, AbstractMove DEF Lifecycle!Submit
  <2> QED
    BY <2>7 DEF Lifecycle!Next
<1>6. ASSUME NEW x \in Ctx, Calls(x) PROVE Lifecycle!Next
  <2>1. PICK o \in Opt : /\ Elems(QueueOf(x)) = Elems(QueueOf(x)') \cup {o}
                         /\ o \notin Elems(QueueOf(x)') /\ o = Head(QueueOf(x))
    BY <1>0, <1>6, TailQueue DEF Held, Calls
  <2>2. \A p \in Opt : ~Runs(p) /\ (Runs(p)' <=> p = o)
    BY <1>6, <2>1 DEF Calls
  <2>3. o \in alloc /\ ~IsCreated(o) /\ Waits(o)
    BY <1>0, <2>1 DEF Held, IsCreated, Waits
  <2>4. \A p \in Opt : IsCreated(p)' <=> IsCreated(p)
    BY <1>0, <1>6 DEF Calls, SameCreated, IsCreated
  <2>5. ~Waits(o)'
    BY <1>0, <1>6, <2>1 DEF Calls, SameQueues, Held, Waits
  <2>6. \A p \in Opt \ {o} : Waits(p)' <=> Waits(p)
    BY <1>6, <2>1 DEF Calls, SameQueues, Waits
  <2>7. OptState(o) = "pending" /\ OptState(o)' = "running"
    BY <1>1, <1>6, <2>1, <2>2, <2>3, <2>4, <2>5 DEF HolderState, Calls
  <2>8. \A p \in Opt \ {o} : OptState(p)' = OptState(p)
    BY <1>1, <1>6, <2>2, <2>4, <2>6 DEF HolderState, Calls
  <2>9. \A p \in Opt : OptState(p) # "running"
    BY <1>1, <2>2 DEF HolderState
  <2>10. Lifecycle!Call(o)
    BY <2>1, <2>7, <2>8, <2>9, AbstractMove DEF Lifecycle!Call
  <2> QED
    BY <2>1, <2>10 DEF Lifecycle!Next
<1>7. ASSUME NEW o \in Opt, Returns(o) PROVE Lifecycle!Next
  <2>1. o \in alloc /\ ~IsCreated(o) /\ ~Waits(o) /\ Runs(o)
    BY <1>0, <1>7 DEF Returns, IsCreated, Waits, Held
  <2>2. \A p \in Opt : (IsCreated(p)' <=> IsCreated(p)) /\ (Waits(p)' <=> Waits(p))
    BY <1>0, <1>7 DEF Returns, SameCreated, SameQueues, IsCreated, Waits
  <2>3. \A p \in Opt \ {o} : ~Runs(p) /\ ~Runs(p)'
    BY <1>7 DEF Returns, Runs
  <2>4. OptState(o) = "running" /\ OptState(o)' = "none"
    BY <1>1, <1>7, <2>1 DEF HolderState, Returns
  <2>5. \A p \in Opt \ {o} : OptState(p)' = OptState(p)
    BY <1>1, <1>7, <2>2, <2>3 DEF HolderState, Returns
  <2>6. Lifecycle!Return(o)
    BY <2>4, <2>5, AbstractMove DEF Lifecycle!Return
  <2> QED
    BY <2>6 DEF Lifecycle!Next
<1> QED
  BY <1>2, <1>3, <1>4, <1>5, <1>6, <1>7 DEF Moves

\* RedisConn implements OptLifecycle for all constants and every application: a
\* callback object is created, submitted, called at most once, one at a time, and
\* deleted after that, or lost.
THEOREM LifecycleKept == Spec => KeepsLifecycle
<1>1. Init => Lifecycle!Init
  BY DEF Init, Lifecycle!Init, OptState
<1>2. HoldInv /\ [Next]_vars => [Lifecycle!Next]_([o \in Opt |-> OptState(o)])
  BY TypeStep, NextMoves, MovesRefine DEF HoldInv
<1> QED
  BY HoldInit, HoldStep, <1>1, <1>2, PTL DEF Spec, KeepsLifecycle, Lifecycle!Spec

-----------------------------------------------------------------------------
(***************************************************************************)
(* One context through a step.  What a context that is not being torn down *)
(* goes through is one of eight things; the invariants about events and    *)
(* replies are proved by these cases.                                      *)
(***************************************************************************)

\* The control state is what the handlers make of it.
RunShape ==
  /\ run.pc # "callback" => run = At(run.pc, run.ctx)
  /\ run.pc = "idle" => run = Idle

Started(x) == x \notin heap /\ sock'[x] = sock[x]
              /\ (ac'[x] = FailedContext \/ \E c \in Conn, f \in BOOLEAN : ac'[x] = AttachedContext(c, f))
Stays(x) == ac'[x] = ac[x] /\ sock'[x] = sock[x]
Commanded(x) == /\ ~Refuses(ac[x]) /\ \E o \in Opt : ac'[x] = AsyncCommand(ac[x], o)
                /\ sock'[x] = sock[x]
Marked(x) == ~CleanDestroy /\ ac'[x] = MarkDisconnecting(ac[x]) /\ sock'[x] = sock[x]
Wrote(x) == LET a == Joined(ac[x]) IN
            /\ Writable(ac[x], sock[x])
            /\ \E k \in 0 .. Len(a.obuf) :
                 /\ ac'[x] = Written(a, k)
                 /\ sock'[x] = [sock[x] EXCEPT !.sent = @ \o SubSeq(a.obuf, 1, k)]
Fetched(x) == /\ Readable(ac[x], sock[x])
           /\ \E k \in 1 .. Len(sock[x].recv) :
                /\ ac'[x] = ReadIn(ac[x], sock[x], k)
                /\ sock'[x] = [sock[x] EXCEPT !.recv = SubSeq(@, k + 1, Len(@))]
Replied(x) == /\ ac[x].reader # <<>> /\ ac[x].replies # <<>>
              /\ ac'[x] = ShiftCallback(Taken(ac[x])) /\ sock'[x] = sock[x]
Served(x) == /\ ac'[x] = ac[x]
             /\ \/ sock[x].st = "connecting" /\
                     sock'[x] \in {LetIn(sock[x]), Broken(sock[x]), TurnedAway(sock[x])}
                \/ sock[x].st = "open" /\ sock'[x] \in {Closed(sock[x]), Broken(sock[x])}
                \/ sock[x].st = "open" /\ sock[x].sent # <<>> /\ sock'[x] = Answered(sock[x])

LEMMA RunShapeStep ==
  ASSUME TypeInv, RunShape, [Next]_vars
  PROVE  RunShape'
<1>1. CASE run' = run
  BY <1>1 DEF RunShape
<1>2. ASSUME NEW p, NEW x, p # "idle", run' = At(p, x)
      PROVE  RunShape'
  BY <1>2 DEF RunShape, At, Idle
<1>3. CASE run' = Idle
  BY <1>3 DEF RunShape, At, Idle
<1>4. ASSUME run'.pc = "callback" PROVE RunShape'
  BY <1>4 DEF RunShape
<1>5. ASSUME NEW x \in Ctx, HandleConnectFailed(x) \/ HandleWrite(x) \/ HandleRead(x)
      PROVE  RunShape'
  <2>1. CASE HandleConnectFailed(x)
    BY <1>2, <2>1, ConnectFailedShape
  <2>2. CASE HandleWrite(x)
    BY <1>1, <1>2, <2>2, WriteShape
  <2>3. CASE HandleRead(x)
    BY <1>2, <2>3, ReadShape
  <2> QED
    BY <1>5, <2>1, <2>2, <2>3
<1>6. CASE ProcessReply \/ DrainReply
  <2>1. run'.pc = "callback" \/ run' = At("drain", run.ctx) \/ run' = At("abort", run.ctx)
    BY <1>6 DEF ProcessReply, DrainReply, RunCallback
  <2> QED
    BY <1>2, <1>4, <2>1
<1>7. CASE NoMoreReplies
  BY <1>2, <1>3, <1>7 DEF NoMoreReplies
<1>8. CASE FinishFree
  BY <1>2, <1>3, <1>8 DEF FinishFree
<1>9. CASE CallbackReturn
  BY <1>2, <1>9 DEF CallbackReturn, TypeInv, RunOK
<1>10. CASE TimerCb \/ \E c \in Conn : InitConn(c)
  <2>1. PICK m \in [Conn -> Members], S \in SUBSET Conn : Connect(m, S)
    BY <1>10, ConnectCalls
  <2> QED
    BY <1>1, <2>1, ConnectEffect
<1>11. CASE \/ MgrInit \/ Network \/ UNCHANGED vars
            \/ \E c \in Conn : NewConn(c) \/ CreateOpt(c) \/ RedisAsyncCmd(c) \/ Destroy(c)
  <2>1. run' = run
    BY <1>11 DEF MgrInit, NewConn, CreateOpt, RedisAsyncCmd, Destroy, vars,
         Network, NetFails, Net, NetAccept, NetAnswer, NetRefuse, NetBusy, NetClose, NetReset
  <2> QED
    BY <1>1, <2>1
<1> QED
  BY <1>5, <1>6, <1>7, <1>8, <1>9, <1>10, <1>11 DEF Next, Application, Handler

LEMMA ContextSteps ==
  ASSUME TypeInv, RunShape, [Next]_vars, NEW x \in Ctx, x \in heap', ~Draining(x)'
  PROVE  \/ Started(x)
         \/ /\ x \in heap /\ ~Draining(x)
            /\ Stays(x) \/ Commanded(x) \/ Marked(x) \/ Wrote(x) \/ Fetched(x) \/ Replied(x) \/ Served(x)
<1> DEFINE Goal == \/ Started(x)
                   \/ /\ x \in heap /\ ~Draining(x)
                      /\ \/ Stays(x) \/ Commanded(x) \/ Marked(x) \/ Wrote(x) \/ Fetched(x)
                         \/ Replied(x) \/ Served(x)
<1>0. NULL \notin Ctx /\ ac \in [Ctx -> Context] /\ sock \in [Ctx -> Socket]
  BY DistinctConstants, ContextsTyped
<1>1. CASE UNCHANGED <<heap, ac, sock, run>>
  BY <1>1 DEF Stays, Draining
\* An idle loop tears nothing down.
<1>2. ASSUME run.pc = "idle" PROVE ~Draining(x)
  BY <1>0, <1>2 DEF RunShape, Idle, At, Draining
\* A handler at work on another context.
<1>3. ASSUME NEW y \in Ctx, y # x, UNCHANGED heap, Untouched(y), run = Idle \/ run.ctx = y
      PROVE  Goal
  BY <1>0, <1>3 DEF Untouched, Stays, Draining, Idle, At
<1>4. CASE TimerCb \/ \E c \in Conn : InitConn(c)
  <2>1. PICK m \in [Conn -> Members], S \in SUBSET Conn : Connect(m, S)
    BY <1>4, ConnectCalls
  <2>2. /\ UNCHANGED <<sock, run>>
        /\ x \in heap => ac'[x] = ac[x]
        /\ x \notin heap => \/ ac'[x] = FailedContext
                             \/ \E c \in Conn, f \in BOOLEAN : ac'[x] = AttachedContext(c, f)
    BY <2>1, ConnectEffect
  <2>3. ~Draining(x)
    BY <2>2 DEF Draining
  <2> QED
    BY <2>2, <2>3 DEF Started, Stays
<1>5. CASE MgrInit \/ UNCHANGED vars \/ \E c \in Conn : NewConn(c) \/ CreateOpt(c)
  BY <1>1, <1>5 DEF MgrInit, NewConn, CreateOpt, vars
<1>6. ASSUME NEW c \in Conn, RedisAsyncCmd(c) PROVE Goal
  <2> DEFINE y == rc[c].ctx
  <2>1. /\ UNCHANGED <<heap, sock, run>> /\ Untouched(y) /\ rc[c].opt \in Opt
        /\ ac'[y] = IF Refuses(ac[y]) THEN ac[y] ELSE AsyncCommand(ac[y], rc[c].opt)
    BY <1>6, CommandShape
  <2>2. ~Draining(x) /\ x \in heap
    BY <2>1 DEF Draining
  <2>3. CASE x = y
    BY <2>1, <2>2, <2>3 DEF Stays, Commanded
  <2>4. CASE x # y
    BY <2>1, <2>2, <2>4 DEF Stays, Untouched
  <2> QED
    BY <2>3, <2>4
<1>7. ASSUME NEW c \in Conn, Destroy(c) PROVE Goal
  <2>1. CASE UNCHANGED <<heap, ac, sock>>
    BY <1>1, <1>7, <2>1, DestroyShape
  <2>2. ASSUME NEW y \in Ctx, heap' = heap \ {y}, ac' = [ac EXCEPT ![y] = FreshContext],
               sock' = [sock EXCEPT ![y] = FreshSocket]
        PROVE  Goal
    <3>1. x # y /\ x \in heap /\ run' = run
      BY <1>7, <2>2, DestroyShape
    <3>2. ac'[x] = ac[x] /\ sock'[x] = sock[x] /\ ~Draining(x)
      BY <1>0, <2>2, <3>1 DEF Draining
    <3> QED
      BY <3>1, <3>2 DEF Stays
  <2>3. ASSUME NEW y \in Ctx, ~CleanDestroy, UNCHANGED <<heap, sock>>,
               ac' = [ac EXCEPT ![y] = MarkDisconnecting(ac[y])]
        PROVE  Goal
    <3>1. x \in heap /\ run' = run
      BY <1>7, <2>3, DestroyShape
    <3>2. ~Draining(x) /\ ac'[x] = IF x = y THEN MarkDisconnecting(ac[x]) ELSE ac[x]
      BY <1>0, <2>3, <3>1 DEF Draining
    <3> QED
      BY <2>3, <3>1, <3>2 DEF Stays, Marked
  <2> QED
    BY <1>7, <2>1, <2>2, <2>3, DestroyShape
<1>8. ASSUME NEW y \in Ctx, HandleConnectFailed(y) PROVE Goal
  <2>1. /\ run = Idle /\ UNCHANGED heap /\ Untouched(y)
        /\ run' = At("wild", y) \/ run' = At("drain", y)
    BY <1>8, ConnectFailedShape DEF RunShape
  <2>2. x # y
    BY <2>1 DEF Draining, At
  <2> QED
    BY <1>3, <2>1, <2>2
<1>9. ASSUME NEW y \in Ctx, HandleWrite(y) PROVE Goal
  <2>1. run.pc = "idle" /\ run = Idle /\ UNCHANGED heap /\ Untouched(y)
    BY <1>9, WriteShape DEF RunShape
  <2>2. CASE x # y
    BY <1>3, <2>1, <2>2
  <2>3. CASE x = y
    <3>1. run' # At("wild", y) /\ run' # At("drain", y)
      BY <2>3 DEF Draining, At
    <3>2. Wrote(x)
      BY <1>9, <2>3, <3>1, WriteShape DEF Wrote
    <3> QED
      BY <1>2, <2>1, <3>2
  <2> QED
    BY <2>2, <2>3
<1>10. ASSUME NEW y \in Ctx, HandleRead(y) PROVE Goal
  <2>1. run.pc = "idle" /\ run = Idle /\ UNCHANGED heap /\ Untouched(y)
    BY <1>10, ReadShape DEF RunShape
  <2>2. CASE x # y
    BY <1>3, <2>1, <2>2
  <2>3. CASE x = y
    <3>1. run' # At("drain", y)
      BY <2>3 DEF Draining, At
    <3>2. Fetched(x)
      BY <1>10, <2>3, <3>1, ReadShape DEF Fetched
    <3> QED
      BY <1>2, <2>1, <3>2
  <2> QED
    BY <2>2, <2>3
<1>11. CASE ProcessReply
  <2> DEFINE y == run.ctx
  <2>1. run.pc = "process" /\ y \in Ctx /\ y \in heap /\ UNCHANGED <<heap, sock>> /\ Untouched(y)
    BY <1>11, ReplyShape
  <2>2. CASE x # y
    BY <1>3, <2>1, <2>2
  <2>3. CASE x = y
    <3>1. run' # At("drain", y) /\ run' # At("abort", y)
      BY <2>3 DEF Draining, At
    <3>2. /\ Taken(ac[x]).replies # <<>> /\ ac'[x] = ShiftCallback(Taken(ac[x]))
          /\ ac[x].reader # <<>>
      BY <1>11, <2>3, <3>1, ReplyShape
    <3>3. ac[x].replies # <<>>
      BY <1>0, <3>2, TakenFields DEF Taken
    <3>4. run = At("process", x)
      BY <2>1, <2>3 DEF RunShape
    <3>5. ~Draining(x)
      BY <3>4 DEF Draining, At
    <3> QED
      BY <2>1, <2>3, <3>2, <3>3, <3>5 DEF Replied
  <2> QED
    BY <2>2, <2>3
<1>12. CASE NoMoreReplies
  <2>1. run.pc = "process" /\ run = At("process", run.ctx) /\ UNCHANGED <<heap, ac, sock>>
    BY <1>12 DEF NoMoreReplies, RunShape
  <2>2. ~Draining(x)
    BY <2>1 DEF Draining, At
  <2> QED
    BY <2>1, <2>2 DEF Stays
<1>13. CASE DrainReply
  <2> DEFINE y == run.ctx
  <2>1. /\ run.pc = "drain" /\ y \in Ctx /\ UNCHANGED heap /\ Untouched(y)
        /\ run'.ctx = y /\ run'.from = "drain"
    BY <1>13, DrainShape DEF RunCallback
  <2>2. x # y
    BY <2>1 DEF Draining
  <2> QED
    BY <1>3, <2>1, <2>2
<1>14. CASE FinishFree
  <2> DEFINE y == run.ctx
  <2>1. /\ run.pc = "drain" /\ y \in Ctx /\ Untouched(y)
        /\ (run' = At("wild", y) /\ UNCHANGED heap) \/ heap' = heap \ {y}
    BY <1>14, FinishShape
  <2>2. x # y /\ x \in heap
    BY <2>1 DEF Draining, At
  <2>3. ~Draining(x)
    BY <2>2 DEF Draining
  <2> QED
    BY <2>1, <2>2, <2>3 DEF Untouched, Stays
<1>15. CASE CallbackReturn
  <2>1. /\ run.pc = "callback" /\ run.from \in {"process", "drain"} /\ UNCHANGED <<heap, ac, sock>>
        /\ run' = At(run.from, run.ctx)
    BY <1>15 DEF CallbackReturn, TypeInv, RunOK
  <2>2. ~Draining(x)
    BY <2>1 DEF Draining, At
  <2> QED
    BY <2>1, <2>2 DEF Stays
<1>16. CASE Network
  <2>1. PICK y \in Ctx : \/ NetAccept(y) \/ NetAnswer(y) \/ NetRefuse(y)
                         \/ NetBusy(y) \/ NetClose(y) \/ NetReset(y)
    BY <1>16 DEF Network, NetFails
  <2>2. UNCHANGED <<heap, ac, run>> /\ \A z \in Ctx \ {y} : sock'[z] = sock[z]
    BY <1>0, <2>1 DEF Net, NetAccept, NetAnswer, NetRefuse, NetBusy, NetClose, NetReset
  <2>3. x \in heap /\ ~Draining(x) /\ ac'[x] = ac[x]
    BY <2>2 DEF Draining
  <2>4. CASE x = y
    <3>1. Served(x)
      BY <1>0, <2>1, <2>3, <2>4
         DEF Served, Net, NetAccept, NetAnswer, NetRefuse, NetBusy, NetClose, NetReset
    <3> QED
      BY <2>3, <3>1
  <2>5. CASE x # y
    BY <2>2, <2>3, <2>5 DEF Stays
  <2> QED
    BY <2>4, <2>5
<1> QED
  BY <1>4, <1>5, <1>6, <1>7, <1>8, <1>9, <1>10, <1>11, <1>12, <1>13, <1>14, <1>15, <1>16
     DEF Next, Application, Handler

-----------------------------------------------------------------------------
(* The events of a context.                                                *)

Armed(a) ==
  a.ev => /\ "CONNECTED" \notin a.flags \/ a.obuf # <<>> => "W" \in a.mask
          /\ "R" \in a.mask <=> "CONNECTED" \in a.flags

EventInv == TypeInv /\ RunShape /\ EventsArmed

LEMMA ArmedCommand ==
  ASSUME NEW a \in Context, NEW o \in Opt, Armed(a)
  PROVE  Armed(AsyncCommand(a, o))
<1> DEFINE b == AsyncCommand(a, o)
<1>1. b.ev = a.ev /\ b.flags = a.flags /\ b.mask = IF a.ev THEN a.mask \cup {"W"} ELSE a.mask
  BY CommandFields
<1> HIDE DEF b
<1>2. Armed(b)
  BY <1>1 DEF Armed
<1> QED
  BY <1>2 DEF b

LEMMA ArmedWritten ==
  ASSUME NEW a \in Context, NEW k \in 0 .. Len(a.obuf), Armed(a)
  PROVE  Armed(Written(Joined(a), k))
<1> DEFINE c == Joined(a)
           b == Written(c, k)
<1>1. c \in Context /\ SameFields(a, c) /\ c.flags = a.flags \cup {"CONNECTED"}
  BY ConnectedFields DEF Joined
<1> HIDE DEF c
<1>2. /\ b.obuf = SubSeq(c.obuf, k + 1, Len(c.obuf)) /\ b.ev = c.ev /\ b.flags = c.flags
      /\ b.mask = (IF k = Len(c.obuf) THEN c.mask \ {"W"} ELSE c.mask) \cup {"R"}
  BY <1>1, WrittenFields
<1> HIDE DEF b
<1>3. a.obuf \in Seq(Opt) /\ c.obuf = a.obuf /\ c.mask = a.mask /\ c.ev = a.ev
  BY <1>1 DEF Context, SameFields
<1>4. k = Len(c.obuf) => b.obuf = <<>>
  BY <1>2, <1>3
<1>5. k # Len(c.obuf) => c.obuf # <<>>
  BY <1>3
<1>6. Armed(b)
  BY <1>1, <1>2, <1>3, <1>4, <1>5 DEF Armed
<1> QED
  BY <1>6 DEF b, c

LEMMA ArmedReadIn ==
  ASSUME NEW a \in Context, NEW s, NEW k, Armed(a), "R" \in a.mask
  PROVE  Armed(ReadIn(a, s, k))
<1> DEFINE b == ReadIn(a, s, k)
<1>1. /\ b.obuf = a.obuf /\ b.ev = a.ev /\ b.flags = a.flags
      /\ b.mask = IF a.ev THEN a.mask \cup {"R"} ELSE a.mask
  BY DEF ReadIn, Arm, Context
<1> HIDE DEF b
<1>2. Armed(b)
  BY <1>1 DEF Armed
<1> QED
  BY <1>2 DEF b

LEMMA ArmedReplied ==
  ASSUME NEW a \in Context, Armed(a), a.reader # <<>>
  PROVE  Armed(ShiftCallback(Taken(a)))
<1> DEFINE c == Taken(a)
           b == ShiftCallback(c)
<1>1. c \in Context /\ c.obuf = a.obuf /\ c.mask = a.mask /\ c.ev = a.ev /\ c.flags = a.flags
  BY TakenFields DEF Taken
<1> HIDE DEF c
<1>2. b.obuf = c.obuf /\ b.mask = c.mask /\ b.ev = c.ev /\ b.flags = c.flags
  BY <1>1, ShiftFields
<1> HIDE DEF b
<1>3. Armed(b)
  BY <1>1, <1>2 DEF Armed
<1> QED
  BY <1>3 DEF b, c

LEMMA ArmedSteps ==
  ASSUME NEW x \in Ctx, ac[x] \in Context, Armed(ac[x]),
         Stays(x) \/ Commanded(x) \/ Marked(x) \/ Wrote(x) \/ Fetched(x) \/ Replied(x) \/ Served(x)
  PROVE  Armed(ac'[x])
<1>1. CASE Stays(x) \/ Served(x)
  BY <1>1 DEF Stays, Served
<1>2. CASE Commanded(x)
  BY <1>2, ArmedCommand DEF Commanded
<1>3. CASE Marked(x)
  BY <1>3, MarkFields DEF Marked, Armed, SameFields
<1>4. CASE Wrote(x)
  <2>1. PICK k \in 0 .. Len(Joined(ac[x]).obuf) : ac'[x] = Written(Joined(ac[x]), k)
    BY <1>4 DEF Wrote
  <2>2. Joined(ac[x]).obuf = ac[x].obuf
    BY ConnectedFields DEF Joined, SameFields
  <2> QED
    BY <2>1, <2>2, ArmedWritten
<1>5. CASE Fetched(x)
  <2>1. "R" \in ac[x].mask /\ \E k : ac'[x] = ReadIn(ac[x], sock[x], k)
    BY <1>5 DEF Fetched, Readable
  <2> QED
    BY <2>1, ArmedReadIn
<1>6. CASE Replied(x)
  BY <1>6, ArmedReplied DEF Replied
<1> QED
  BY <1>1, <1>2, <1>3, <1>4, <1>5, <1>6

\* The event loop forgets no socket, in every reachable state, for all constants
\* and every application: while a context is connecting or has output it waits for
\* writability, and once it is connected, and only then, for input.
THEOREM EventsAlwaysArmed == Spec => []EventsArmed
<1>1. Init => EventInv
  <2>1. ASSUME Init PROVE EventInv
    <3>1. TypeInv /\ heap = {} /\ run = Idle
      BY <2>1, InitType DEF Init
    <3>2. RunShape
      BY <3>1 DEF RunShape, Idle, At
    <3> QED
      BY <3>1, <3>2 DEF EventInv, EventsArmed
  <2> QED
    BY <2>1
<1>2. EventInv /\ [Next]_vars => EventInv'
  <2> SUFFICES ASSUME EventInv, [Next]_vars PROVE EventInv'
    OBVIOUS
  <2> USE DEF EventInv
  <2>1. TypeInv' /\ RunShape'
    BY TypeStep, RunShapeStep
  <2>2. ASSUME NEW x \in heap', ~Draining(x)' PROVE Armed(ac'[x])
    <3>1. x \in Ctx
      BY <2>1, <2>2 DEF TypeInv, TypeOK
    <3>2. CASE Started(x)
      BY <3>2, NewContext DEF Started, Armed
    <3>3. CASE /\ x \in heap /\ ~Draining(x)
               /\ Stays(x) \/ Commanded(x) \/ Marked(x) \/ Wrote(x) \/ Fetched(x) \/ Replied(x) \/ Served(x)
      <4>1. Armed(ac[x]) /\ ac[x] \in Context
        BY <3>1, <3>3, ContextsTyped DEF EventsArmed, Armed
      <4> QED
        BY <3>1, <3>3, <4>1, ArmedSteps
    <3> QED
      BY <2>2, <3>1, <3>2, <3>3, ContextSteps
  <2>3. EventsArmed'
    BY <2>2 DEF EventsArmed, Armed
  <2> QED
    BY <2>1, <2>3
<1>3. EventInv => EventsArmed
  BY DEF EventInv
<1> QED
  BY <1>1, <1>2, <1>3, PTL DEF Spec

-----------------------------------------------------------------------------
(***************************************************************************)
(* Replies on their way.  got are the replies received and not yet handled,*)
(* sent and obuf the commands ahead of them, replies the callbacks that    *)
(* wait; st is the state of the socket.                                    *)
(***************************************************************************)

HasBusy(got) == \E i \in DOMAIN got : got[i] = Busy

Begins(got, replies) ==
  Len(got) <= Len(replies) /\ \A i \in 1 .. Len(got) : replies[i] = got[i]

Flow(st, got, sent, obuf, replies) ==
  /\ st \in {"connecting", "open"} => got \o sent \o obuf = replies
  /\ ~HasBusy(got) => Begins(got, replies)
  /\ st = "connecting" => got = <<>> /\ sent = <<>>
  /\ HasBusy(got) => got = <<Busy>>

LEMMA CommandsAreReplies ==
  /\ \A s \in Seq(Opt) : s \in Seq(Reply) /\ ~HasBusy(s)
  /\ \A s \in Seq(Reply) : Len(s) \in Nat /\ DOMAIN s = 1 .. Len(s)
<1>1. \A s \in Seq(Opt) : s \in Seq(Reply)
  BY SeqMonotonic DEF Reply
<1>2. ASSUME NEW s \in Seq(Opt) PROVE ~HasBusy(s)
  BY DistinctConstants DEF HasBusy
<1> QED
  BY <1>1, <1>2

LEMMA ConcatReplies ==
  ASSUME NEW s \in Seq(Reply), NEW t \in Seq(Reply)
  PROVE  s \o t \in Seq(Reply) /\ \A u \in Seq(Reply) : (s \o t) \o u = s \o (t \o u)
<1>1. s \o t \in Seq(Reply)
  BY ConcatProperties
<1>2. ASSUME NEW u \in Seq(Reply) PROVE (s \o t) \o u = s \o (t \o u)
  BY ConcatAssociative, SMT
<1> QED
  BY <1>1, <1>2

LEMMA AppendReply ==
  ASSUME NEW s \in Seq(Reply), NEW t \in Seq(Reply), NEW r \in Reply
  PROVE  s \o Append(t, r) = Append(s \o t, r)
<1>1. Append(t, r) = t \o <<r>> /\ s \o t \in Seq(Reply) /\ <<r>> \in Seq(Reply)
  BY AppendIsConcat, ConcatProperties
<1>2. Append(s \o t, r) = (s \o t) \o <<r>>
  BY <1>1, AppendIsConcat
<1> QED
  BY <1>1, <1>2, ConcatReplies

LEMMA FlowCommand ==
  ASSUME NEW st, NEW got \in Seq(Reply), NEW sent \in Seq(Opt), NEW obuf \in Seq(Opt),
         NEW replies \in Seq(Opt), NEW o \in Opt, Flow(st, got, sent, obuf, replies)
  PROVE  Flow(st, got, sent, Append(obuf, o), Append(replies, o))
<1> DEFINE p == got \o sent
<1>1. o \in Reply /\ p \in Seq(Reply) /\ obuf \in Seq(Reply) /\ sent \in Seq(Reply)
  BY CommandsAreReplies, ConcatProperties DEF Reply
<1> HIDE DEF p
<1>2. p \o Append(obuf, o) = Append(p \o obuf, o)
  BY <1>1, AppendReply
<1>3. Begins(got, replies) => Begins(got, Append(replies, o))
  <2>1. Len(got) \in Nat
    OBVIOUS
  <2> QED
    BY <2>1, AppendProperties DEF Begins
<1> QED
  BY <1>2, <1>3 DEF Flow, p

LEMMA FlowWrite ==
  ASSUME NEW st, NEW got \in Seq(Reply), NEW sent \in Seq(Opt), NEW obuf \in Seq(Opt),
         NEW replies, NEW k \in 0 .. Len(obuf), st # "connecting",
         Flow(st, got, sent, obuf, replies)
  PROVE  Flow(st, got, sent \o SubSeq(obuf, 1, k), SubSeq(obuf, k + 1, Len(obuf)), replies)
<1> DEFINE f == SubSeq(obuf, 1, k)
           g == SubSeq(obuf, k + 1, Len(obuf))
<1>1. f \in Seq(Opt) /\ g \in Seq(Opt)
  BY SubSeqProperties
<1>2. f \o g = obuf
  <2>1. 1 \in 1 .. Len(obuf) + 1 /\ k \in 1 - 1 .. Len(obuf) /\ Len(obuf) \in k .. Len(obuf)
    OBVIOUS
  <2>2. f \o g = SubSeq(obuf, 1, Len(obuf))
    BY <2>1, ConcatAdjacentSubSeq
  <2> QED
    BY <2>2, SubSeqFull
<1> HIDE DEF f, g
<1>3. f \in Seq(Reply) /\ g \in Seq(Reply) /\ sent \in Seq(Reply)
  BY <1>1, CommandsAreReplies
<1>4. (got \o (sent \o f)) \o g = (got \o sent) \o obuf
  <2>1. got \o sent \in Seq(Reply) /\ (got \o sent) \o f = got \o (sent \o f)
    BY <1>3, ConcatReplies
  <2>2. ((got \o sent) \o f) \o g = (got \o sent) \o (f \o g)
    BY <1>3, <2>1, ConcatReplies
  <2> QED
    BY <1>2, <2>1, <2>2
<1> QED
  BY <1>4 DEF Flow, f, g

\* The tail of a sequence that goes on.
LEMMA TailConcat ==
  ASSUME NEW s \in Seq(Reply), NEW t \in Seq(Reply), s # <<>>
  PROVE  Tail(s \o t) = Tail(s) \o t /\ Head(s \o t) = Head(s) /\ s \o t # <<>>
<1>1. s = <<Head(s)>> \o Tail(s) /\ Tail(s) \in Seq(Reply) /\ <<Head(s)>> \in Seq(Reply)
      /\ Len(s) \in Nat \ {0}
  <2>1. Head(s) \in Reply /\ Tail(s) \in Seq(Reply) /\ Len(Tail(s)) = Len(s) - 1
        /\ \A i \in 1 .. Len(Tail(s)) : Tail(s)[i] = s[i + 1]
    BY HeadTailProperties
  <2>2. <<Head(s)>> \in Seq(Reply) /\ Len(<<Head(s)>>) = 1 /\ <<Head(s)>>[1] = Head(s)
    BY <2>1
  <2>3. Len(s) \in Nat \ {0} /\ Head(s) = s[1]
    BY EmptySeq
  <2> DEFINE u == <<Head(s)>> \o Tail(s)
  <2>4. u \in Seq(Reply) /\ Len(u) = 1 + Len(Tail(s))
        /\ \A i \in 1 .. 1 + Len(Tail(s)) : u[i] = IF i <= 1 THEN Head(s) ELSE Tail(s)[i - 1]
    BY <2>1, <2>2, ConcatProperties
  <2> HIDE DEF u
  <2>5. \A i \in 1 .. Len(s) : s[i] = u[i]
    BY <2>1, <2>3, <2>4
  <2>6. s = u
    BY <2>1, <2>3, <2>4, <2>5, SeqEqual
  <2> QED
    BY <2>1, <2>2, <2>3, <2>6 DEF u
<1> DEFINE r == s \o t
<1>2. r \in Seq(Reply) /\ Len(r) = Len(s) + Len(t) /\ Len(t) \in Nat
      /\ \A i \in 1 .. Len(s) + Len(t) : r[i] = IF i <= Len(s) THEN s[i] ELSE t[i - Len(s)]
  BY ConcatProperties, LenProperties
<1> HIDE DEF r
<1>3. r # <<>> /\ Head(r) = Head(s)
  BY <1>1, <1>2
<1> DEFINE v == Tail(s) \o t
<1>4. Len(Tail(s)) = Len(s) - 1 /\ \A i \in 1 .. Len(s) - 1 : Tail(s)[i] = s[i + 1]
  BY <1>1, HeadTailProperties
<1>5. v \in Seq(Reply) /\ Len(v) = Len(s) - 1 + Len(t)
      /\ \A i \in 1 .. Len(s) - 1 + Len(t) : v[i] = IF i <= Len(s) - 1 THEN s[i + 1] ELSE t[i - (Len(s) - 1)]
  BY <1>1, <1>2, <1>4, ConcatProperties
<1> HIDE DEF v
<1>6. /\ Tail(r) \in Seq(Reply) /\ Len(Tail(r)) = Len(r) - 1
      /\ \A i \in 1 .. Len(r) - 1 : Tail(r)[i] = r[i + 1]
  BY <1>2, <1>3, HeadTailProperties
<1>7. ASSUME NEW i \in 1 .. Len(v) PROVE Tail(r)[i] = v[i]
  BY <1>1, <1>2, <1>5, <1>6
<1>8. Tail(r) = v
  BY <1>1, <1>2, <1>5, <1>6, <1>7, SeqEqual
<1> QED
  BY <1>3, <1>8 DEF r, v

\* A reply is handed to the first waiting callback.
LEMMA FlowReply ==
  ASSUME NEW st, NEW got \in Seq(Reply), NEW sent \in Seq(Opt), NEW obuf \in Seq(Opt),
         NEW replies \in Seq(Opt), Flow(st, got, sent, obuf, replies), got # <<>>, replies # <<>>
  PROVE  Flow(st, Tail(got), sent, obuf, Tail(replies))
<1>1. /\ sent \in Seq(Reply) /\ obuf \in Seq(Reply) /\ replies \in Seq(Reply)
      /\ Tail(got) \in Seq(Reply) /\ Tail(replies) \in Seq(Reply)
      /\ Len(Tail(got)) = Len(got) - 1 /\ Len(Tail(replies)) = Len(replies) - 1
      /\ Len(got) \in Nat \ {0} /\ Len(replies) \in Nat \ {0}
      /\ \A i \in 1 .. Len(got) - 1 : Tail(got)[i] = got[i + 1]
      /\ \A i \in 1 .. Len(replies) - 1 : Tail(replies)[i] = replies[i + 1]
  BY CommandsAreReplies, HeadTailProperties, EmptySeq
<1>2. st # "connecting"
  BY DEF Flow
<1>3. got \o sent \o obuf = replies => Tail(got) \o sent \o obuf = Tail(replies)
  <2>1. Tail(got \o sent) = Tail(got) \o sent /\ got \o sent # <<>> /\ got \o sent \in Seq(Reply)
    BY <1>1, TailConcat, ConcatProperties
  <2>2. Tail((got \o sent) \o obuf) = Tail(got \o sent) \o obuf
    BY <1>1, <2>1, TailConcat
  <2> QED
    BY <2>1, <2>2
<1>4. HasBusy(got) => Tail(got) = <<>> /\ Len(Tail(got)) = 0
  <2>1. Tail(<<Busy>>) = <<>> /\ Len(Tail(<<Busy>>)) = 0
    OBVIOUS
  <2> QED
    BY <2>1 DEF Flow
<1>5. HasBusy(Tail(got)) => HasBusy(got)
  BY <1>1, CommandsAreReplies DEF HasBusy
<1>6. ~HasBusy(Tail(got))
  BY <1>4, <1>5 DEF HasBusy
<1>7. Begins(Tail(got), Tail(replies))
  <2>1. CASE HasBusy(got)
    <3>1. Len(Tail(got)) = 0 /\ Len(Tail(replies)) \in Nat
      <4>1. Tail(replies) \in Seq(Opt)
        BY HeadTailProperties
      <4> QED
        BY <1>4, <2>1, <4>1
    <3> DEFINE u == Tail(got)
               v == Tail(replies)
    <3>2. Len(u) = 0 /\ Len(v) \in Nat
      BY <3>1
    <3> HIDE DEF u, v
    <3>3. Begins(u, v)
      BY <3>2 DEF Begins
    <3> QED
      BY <3>3 DEF u, v
  <2>2. CASE ~HasBusy(got)
    <3>1. Len(got) <= Len(replies) /\ \A i \in 1 .. Len(got) : replies[i] = got[i]
      BY <2>2 DEF Begins, Flow
    <3>2. ASSUME NEW i \in 1 .. Len(got) - 1 PROVE Tail(replies)[i] = Tail(got)[i]
      BY <1>1, <3>1, <3>2
    <3> QED
      BY <1>1, <3>1, <3>2 DEF Begins
  <2> QED
    BY <2>1, <2>2
<1> QED
  BY <1>2, <1>3, <1>6, <1>7 DEF Flow

\* A connection is accepted, broken or closed.
LEMMA FlowState ==
  ASSUME NEW st, NEW got, NEW sent, NEW obuf, NEW replies, NEW new \in {"open", "eof", "error"},
         Flow(st, got, sent, obuf, replies), st \in {"connecting", "open"}
  PROVE  Flow(new, got, sent, obuf, replies)
  BY DEF Flow

\* A server turns us away.
LEMMA FlowFarewell ==
  ASSUME NEW sent, NEW obuf, NEW replies
  PROVE  Flow("eof", <<Busy>>, sent, obuf, replies)
  BY DEF Flow, HasBusy

\* While the connection stands what was received begins the queue.
LEMMA FlowOpen ==
  ASSUME NEW got \in Seq(Reply), NEW sent \in Seq(Opt), NEW obuf \in Seq(Opt),
         NEW replies \in Seq(Opt), got \o sent \o obuf = replies
  PROVE  ~HasBusy(got) /\ Begins(got, replies)
<1> DEFINE r == sent \o obuf
<1>1. r \in Seq(Reply) /\ got \o r = replies
  BY CommandsAreReplies, ConcatReplies
<1> HIDE DEF r
<1>2. Len(replies) = Len(got) + Len(r) /\ Len(r) \in Nat /\ Len(got) \in Nat
      /\ \A i \in 1 .. Len(got) : replies[i] = got[i]
  BY <1>1, ConcatProperties, LenProperties
<1>3. Begins(got, replies)
  BY <1>2 DEF Begins
<1>4. \A i \in 1 .. Len(got) : i \in DOMAIN replies
  BY <1>2, LenProperties
<1>5. ~HasBusy(got)
  BY <1>2, <1>4, CommandsAreReplies DEF HasBusy
<1> QED
  BY <1>3, <1>5

\* The server answers the first command it received.
LEMMA FlowAnswer ==
  ASSUME NEW got \in Seq(Reply), NEW sent \in Seq(Opt), NEW obuf \in Seq(Opt),
         NEW replies \in Seq(Opt), Flow("open", got, sent, obuf, replies), sent # <<>>
  PROVE  Flow("open", Append(got, Head(sent)), Tail(sent), obuf, replies)
<1>1. /\ Head(sent) \in Opt /\ Tail(sent) \in Seq(Opt) /\ Head(sent) \in Reply
      /\ Append(got, Head(sent)) \in Seq(Reply)
  BY HeadTailProperties, AppendProperties DEF Reply
<1> DEFINE h == <<Head(sent)>>
<1>2. h \in Seq(Reply) /\ Tail(sent) \in Seq(Reply) /\ Append(got, Head(sent)) = got \o h
  BY <1>1, CommandsAreReplies, AppendIsConcat
<1>3. h \o Tail(sent) = sent
  <2>1. sent \in Seq(Opt) /\ Len(sent) \in Nat \ {0}
    BY EmptySeq
  <2>2. 1 \in 1 .. Len(sent) /\ Len(sent) \in 1 .. Len(sent)
    BY <2>1
  <2>3. SubSeq(sent, 1, Len(sent)) = <<sent[1]>> \o SubSeq(sent, 1 + 1, Len(sent))
    BY <2>2, SubSeqRecursiveFirst
  <2>4. SubSeq(sent, 1, Len(sent)) = sent /\ Tail(sent) = SubSeq(sent, 2, Len(sent))
    BY SubSeqFull, TailIsSubSeq
  <2>5. Head(sent) = sent[1]
    BY <2>1
  <2> QED
    BY <2>3, <2>4, <2>5
<1> HIDE DEF h
<1>4. (got \o h) \o Tail(sent) = got \o sent
  <2>1. (got \o h) \o Tail(sent) = got \o (h \o Tail(sent))
    BY <1>2, ConcatReplies
  <2> QED
    BY <1>3, <2>1
<1>5. Append(got, Head(sent)) \o Tail(sent) \o obuf = replies
  BY <1>2, <1>4 DEF Flow
<1> QED
  BY <1>1, <1>5, FlowOpen DEF Flow

\* The same of a context a with its socket s.
FlowIn(a, s) == Flow(s.st, a.reader \o s.recv, s.sent, a.obuf, a.replies)

LEMMA FlowTypes ==
  ASSUME NEW a \in Context, NEW s \in Socket
  PROVE  /\ a.reader \in Seq(Reply) /\ s.recv \in Seq(Reply) /\ a.reader \o s.recv \in Seq(Reply)
         /\ s.sent \in Seq(Opt) /\ a.obuf \in Seq(Opt) /\ a.replies \in Seq(Opt)
  BY ConcatReplies DEF Context, Socket

LEMMA FlowInCommand ==
  ASSUME NEW a \in Context, NEW s \in Socket, NEW o \in Opt, FlowIn(a, s)
  PROVE  FlowIn(AsyncCommand(a, o), s)
<1> DEFINE b == AsyncCommand(a, o)
<1>1. b.replies = Append(a.replies, o) /\ b.obuf = Append(a.obuf, o) /\ b.reader = a.reader
  BY CommandFields
<1> HIDE DEF b
<1>2. FlowIn(b, s)
  BY <1>1, FlowTypes, FlowCommand DEF FlowIn
<1> QED
  BY <1>2 DEF b

LEMMA FlowInWritten ==
  ASSUME NEW a \in Context, NEW s \in Socket, FlowIn(a, s), s.st # "connecting",
         NEW k \in 0 .. Len(Joined(a).obuf)
  PROVE  FlowIn(Written(Joined(a), k), [s EXCEPT !.sent = @ \o SubSeq(Joined(a).obuf, 1, k)])
<1> DEFINE c == Joined(a)
           b == Written(c, k)
           t == [s EXCEPT !.sent = @ \o SubSeq(c.obuf, 1, k)]
<1>1. c \in Context /\ SameFields(a, c)
  BY ConnectedFields DEF Joined
<1> HIDE DEF c
<1>2. b.replies = c.replies /\ b.obuf = SubSeq(c.obuf, k + 1, Len(c.obuf)) /\ b.reader = c.reader
  BY <1>1, WrittenFields
<1>3. t.st = s.st /\ t.recv = s.recv /\ t.sent = s.sent \o SubSeq(c.obuf, 1, k)
  BY DEF Socket
<1> HIDE DEF b, t
<1>4. c.obuf = a.obuf /\ c.reader = a.reader /\ c.replies = a.replies
  BY <1>1 DEF SameFields
<1>5. k \in 0 .. Len(a.obuf)
  BY <1>4 DEF c
<1>6. Flow(s.st, a.reader \o s.recv, s.sent \o SubSeq(a.obuf, 1, k), SubSeq(a.obuf, k + 1, Len(a.obuf)), a.replies)
  BY <1>5, FlowTypes, FlowWrite DEF FlowIn
<1>7. FlowIn(b, t)
  BY <1>2, <1>3, <1>4, <1>6 DEF FlowIn
<1> QED
  BY <1>7 DEF b, t, c

LEMMA FlowInReadIn ==
  ASSUME NEW a \in Context, NEW s \in Socket, FlowIn(a, s), NEW k \in 1 .. Len(s.recv)
  PROVE  FlowIn(ReadIn(a, s, k), [s EXCEPT !.recv = SubSeq(@, k + 1, Len(@))])
<1> DEFINE f == SubSeq(s.recv, 1, k)
           g == SubSeq(s.recv, k + 1, Len(s.recv))
           b == ReadIn(a, s, k)
           t == [s EXCEPT !.recv = g]
<1>1. a.reader \in Seq(Reply) /\ s.recv \in Seq(Reply) /\ Len(s.recv) \in Nat
  BY FlowTypes
<1>2. f \in Seq(Reply) /\ g \in Seq(Reply) /\ f \o g = s.recv
  <2>1. f \in Seq(Reply) /\ g \in Seq(Reply)
    BY <1>1, SubSeqProperties
  <2>2. 1 \in 1 .. Len(s.recv) + 1 /\ k \in 1 - 1 .. Len(s.recv) /\ Len(s.recv) \in k .. Len(s.recv)
    BY <1>1
  <2>3. f \o g = SubSeq(s.recv, 1, Len(s.recv))
    BY <1>1, <2>2, ConcatAdjacentSubSeq
  <2> QED
    BY <1>1, <2>1, <2>3, SubSeqFull
<1>3. t.st = s.st /\ t.recv = g /\ t.sent = s.sent
  BY DEF Socket
<1>4. b.replies = a.replies /\ b.obuf = a.obuf /\ b.reader = a.reader \o f
  BY DEF ReadIn, Arm, Context
<1> HIDE DEF b, t, f, g
<1>5. (a.reader \o f) \o g = a.reader \o s.recv
  <2>1. (a.reader \o f) \o g = a.reader \o (f \o g)
    BY <1>1, <1>2, ConcatReplies
  <2> QED
    BY <1>2, <2>1
<1>6. FlowIn(b, t)
  BY <1>3, <1>4, <1>5 DEF FlowIn
<1> QED
  BY <1>6 DEF b, t, g

LEMMA FlowInReplied ==
  ASSUME NEW a \in Context, NEW s \in Socket, FlowIn(a, s), a.reader # <<>>, a.replies # <<>>
  PROVE  FlowIn(ShiftCallback(Taken(a)), s)
<1> DEFINE c == Taken(a)
           b == ShiftCallback(c)
<1>1. c \in Context /\ c.replies = a.replies /\ c.obuf = a.obuf /\ c.reader = Tail(a.reader)
  BY TakenFields DEF Taken
<1> HIDE DEF c
<1>2. b.replies = Tail(a.replies) /\ b.obuf = a.obuf /\ b.reader = Tail(a.reader)
  BY <1>1, ShiftFields
<1> HIDE DEF b
<1>3. Tail(a.reader \o s.recv) = Tail(a.reader) \o s.recv /\ a.reader \o s.recv # <<>>
  BY FlowTypes, TailConcat
<1>4. Flow(s.st, Tail(a.reader \o s.recv), s.sent, a.obuf, Tail(a.replies))
  BY <1>3, FlowTypes, FlowReply DEF FlowIn
<1>5. FlowIn(b, s)
  BY <1>2, <1>3, <1>4 DEF FlowIn
<1> QED
  BY <1>5 DEF b, c

LEMMA FlowInServed ==
  ASSUME NEW a \in Context, NEW s \in Socket, FlowIn(a, s), NEW t,
         \/ s.st = "connecting" /\ t \in {LetIn(s), Broken(s), TurnedAway(s)}
         \/ s.st = "open" /\ t \in {Closed(s), Broken(s)}
         \/ s.st = "open" /\ s.sent # <<>> /\ t = Answered(s)
  PROVE  FlowIn(a, t)
<1>1. CASE t \in {LetIn(s), Closed(s), Broken(s)} /\ s.st \in {"connecting", "open"}
  <2>1. t.st \in {"open", "eof", "error"} /\ t.recv = s.recv /\ t.sent = s.sent
    BY <1>1 DEF LetIn, Closed, Broken, Socket
  <2> QED
    BY <1>1, <2>1, FlowState DEF FlowIn
<1>2. CASE t = TurnedAway(s) /\ s.st = "connecting"
  <2>1. t.st = "eof" /\ t.recv = <<Busy>>
    BY <1>2 DEF TurnedAway, Socket
  <2>2. a.reader \o s.recv = <<>> /\ a.reader \in Seq(Reply) /\ s.recv \in Seq(Reply)
    BY <1>2, FlowTypes DEF FlowIn, Flow
  <2>3. a.reader = <<>>
    BY <2>2, ConcatEqualIffEmpty
  <2>4. <<Busy>> \in Seq(Reply)
    BY DEF Reply
  <2>5. a.reader \o t.recv = <<Busy>>
    BY <2>1, <2>3, <2>4, ConcatEmptySeq
  <2> QED
    BY <2>1, <2>5, FlowFarewell DEF FlowIn
<1>3. CASE t = Answered(s) /\ s.st = "open" /\ s.sent # <<>>
  <2>1. t.st = "open" /\ t.sent = Tail(s.sent) /\ t.recv = Append(s.recv, Head(s.sent))
    BY <1>3 DEF Answered, Socket
  <2> DEFINE h == Head(s.sent)
  <2>2. h \in Reply /\ a.reader \in Seq(Reply) /\ s.recv \in Seq(Reply) /\ a.reader \o s.recv \in Seq(Reply)
    BY <1>3, FlowTypes, HeadTailProperties DEF Reply
  <2> HIDE DEF h
  <2>3. a.reader \o Append(s.recv, h) = Append(a.reader \o s.recv, h)
    BY <2>2, AppendReply
  <2>4. Flow("open", Append(a.reader \o s.recv, h), Tail(s.sent), a.obuf, a.replies)
    BY <1>3, FlowTypes, FlowAnswer DEF FlowIn, h
  <2> QED
    BY <2>1, <2>3, <2>4 DEF FlowIn, h
<1> QED
  BY <1>1, <1>2, <1>3

LEMMA FlowInNew ==
  ASSUME NEW a, a.replies = <<>>, a.obuf = <<>>, a.reader = <<>>
  PROVE  FlowIn(a, FreshSocket)
<1>1. <<>> \o <<>> = <<>>
  OBVIOUS
<1>2. ~HasBusy(<<>>) /\ Begins(<<>>, <<>>)
  BY DEF HasBusy, Begins
<1>3. FreshSocket.st = "connecting" /\ FreshSocket.recv = <<>> /\ FreshSocket.sent = <<>>
  BY DEF FreshSocket
<1> QED
  BY <1>1, <1>2, <1>3 DEF FlowIn, Flow

LEMMA FlowSteps ==
  ASSUME NEW x \in Ctx, ac[x] \in Context, sock[x] \in Socket, FlowIn(ac[x], sock[x]),
         Stays(x) \/ Commanded(x) \/ Marked(x) \/ Wrote(x) \/ Fetched(x) \/ Replied(x) \/ Served(x)
  PROVE  FlowIn(ac'[x], sock'[x])
<1>1. CASE Stays(x)
  BY <1>1 DEF Stays
<1>2. CASE Commanded(x)
  BY <1>2, FlowInCommand DEF Commanded
<1>3. CASE Marked(x)
  <2>1. SameFields(ac[x], ac'[x]) /\ sock'[x] = sock[x]
    BY <1>3, MarkFields DEF Marked
  <2> QED
    BY <2>1 DEF SameFields, FlowIn
<1>4. CASE Wrote(x)
  BY <1>4, FlowInWritten DEF Wrote, Writable
<1>5. CASE Fetched(x)
  BY <1>5, FlowInReadIn DEF Fetched
<1>6. CASE Replied(x)
  BY <1>6, FlowInReplied DEF Replied
<1>7. CASE Served(x)
  BY <1>7, FlowInServed DEF Served
<1> QED
  BY <1>1, <1>2, <1>3, <1>4, <1>5, <1>6, <1>7


\* A context that is torn down refuses commands, and is torn down after an error
\* or because it was disconnected with no callback waiting.
DrainTold ==
  /\ run.pc = "drain" => /\ Refuses(ac[run.ctx])
                         /\ ac[run.ctx].err \/ ac[run.ctx].replies = <<>>
  /\ run.pc = "callback" /\ run.from = "drain" => Refuses(ac[run.ctx]) /\ ac[run.ctx].err

LEMMA DrainToldStep ==
  ASSUME TypeInv, DrainTold, [Next]_vars
  PROVE  DrainTold'
<1> DEFINE y == run.ctx
<1>0. ac \in [Ctx -> Context] /\ \A x \in Ctx : ac[x] \in Context
  BY ContextsTyped
\* The steps of the application and of the network leave run alone.
<1>1. ASSUME run' = run,
             run.pc \in {"drain", "callback"} =>
               /\ Refuses(ac[y]) => Refuses(ac'[y])
               /\ ac'[y].err = ac[y].err
               /\ run.pc = "drain" => ac'[y].replies = ac[y].replies
      PROVE  DrainTold'
  BY <1>1 DEF DrainTold
<1>2. ASSUME run' = run, run.pc = "idle" PROVE DrainTold'
  BY <1>1, <1>2
<1>3. ASSUME NEW x \in Ctx, run' \in {At("wild", x), At("abort", x), At("process", x), Idle}
      PROVE  DrainTold'
  BY <1>3 DEF DrainTold, At, Idle
<1>4. ASSUME NEW x \in Ctx, NEW a \in Context, run' = At("drain", x), ac'[x] = Failed(a)
      PROVE  DrainTold'
  <2>1. Refuses(ac'[x]) /\ ac'[x].err
    BY <1>4, FailedFields DEF Refuses
  <2> QED
    BY <1>4, <2>1 DEF DrainTold, At
<1>5. CASE MgrInit \/ Network \/ UNCHANGED vars \/ \E c \in Conn : NewConn(c) \/ CreateOpt(c)
  <2>1. run' = run /\ ac' = ac
    BY <1>5 DEF MgrInit, NewConn, CreateOpt, vars, Network, NetFails, Net, NetAccept,
         NetAnswer, NetRefuse, NetBusy, NetClose, NetReset
  <2> QED
    BY <1>1, <2>1
<1>6. CASE TimerCb \/ \E c \in Conn : InitConn(c)
  <2>1. PICK m \in [Conn -> Members], S \in SUBSET Conn : Connect(m, S)
    BY <1>6, ConnectCalls
  <2>2. run' = run /\ \A x \in heap : ac'[x] = ac[x]
    BY <2>1, ConnectEffect
  <2> QED
    BY <1>1, <2>2, ContextsTyped
<1>7. ASSUME NEW c \in Conn, RedisAsyncCmd(c) PROVE DrainTold'
  <2> DEFINE x == rc[c].ctx
  <2>1. /\ run' = run /\ Untouched(x) /\ run.pc \in {"idle", "callback"}
        /\ ac'[x] = IF Refuses(ac[x]) THEN ac[x] ELSE AsyncCommand(ac[x], rc[c].opt)
        /\ x \in Ctx /\ rc[c].opt \in Opt
    BY <1>7, CommandShape DEF RedisAsyncCmd, AppTurn
  <2>2. CASE y # x
    BY <1>1, <2>1, <2>2, ContextsTyped DEF Untouched
  <2>3. CASE y = x /\ Refuses(ac[x])
    BY <1>1, <2>1, <2>3
  <2>4. CASE y = x /\ ~Refuses(ac[x])
    <3>1. ac'[y] = AsyncCommand(ac[y], rc[c].opt) /\ ac[y] \in Context
      BY <1>0, <2>1, <2>4
    <3>2. ac'[y].err = ac[y].err
      BY <3>1, CommandErr
    <3> QED
      BY <1>1, <2>1, <2>4, <3>2
  <2> QED
    BY <2>2, <2>3, <2>4
<1>8. ASSUME NEW c \in Conn, Destroy(c) PROVE DrainTold'
  <2>1. run' = run /\ run.pc \in {"idle", "callback"}
    BY <1>8, DestroyShape
  <2>2. CASE UNCHANGED ac
    BY <1>1, <2>1, <2>2
  <2>3. ASSUME NEW x \in Ctx, ac' = [ac EXCEPT ![x] = FreshContext], ~InCallback(x)
        PROVE  DrainTold'
    <3>1. run.pc = "callback" => y \in Ctx /\ y # x
      BY <2>3, ContextsTyped DEF InCallback
    <3>2. run.pc = "callback" => ac'[y] = ac[y]
      BY <1>0, <2>3, <3>1
    <3> QED
      BY <1>1, <2>1, <3>2
  <2>4. ASSUME NEW x \in Ctx, ac' = [ac EXCEPT ![x] = MarkDisconnecting(ac[x])]
        PROVE  DrainTold'
    <3>1. \A z \in Ctx : ac'[z] = IF z = x THEN MarkDisconnecting(ac[z]) ELSE ac[z]
      BY <1>0, <2>4
    <3>2. \A z \in Ctx : ac'[z].err = ac[z].err /\ (Refuses(ac[z]) => Refuses(ac'[z]))
      BY <1>0, <3>1, MarkFields DEF Refuses
    <3> QED
      BY <1>1, <2>1, <3>2, ContextsTyped
  <2> QED
    BY <1>8, <2>2, <2>3, <2>4, DestroyShape
<1>9. ASSUME NEW x \in Ctx, HandleConnectFailed(x) \/ HandleWrite(x) \/ HandleRead(x)
      PROVE  DrainTold'
  <2>1. CASE HandleConnectFailed(x)
    BY <1>0, <1>3, <1>4, <2>1, ConnectFailedShape
  <2>2. CASE HandleWrite(x)
    <3>1. Joined(ac[x]) \in Context
      BY <1>0, ConnectedFields DEF Joined
    <3> QED
      BY <1>2, <1>3, <1>4, <2>2, <3>1, WriteShape
  <2>3. CASE HandleRead(x)
    BY <1>0, <1>3, <1>4, <2>3, ReadShape
  <2> QED
    BY <1>9, <2>1, <2>2, <2>3
<1>10. CASE ProcessReply
  <2>1. y \in Ctx /\ Taken(ac[y]) \in Context /\ run.pc = "process"
    BY <1>0, <1>10, ReplyShape, TakenFields DEF Taken
  <2>2. CASE RunCallback(y, Taken(ac[y]))
    BY <2>1, <2>2 DEF RunCallback, DrainTold
  <2>3. CASE ac'[y] = Failed(Taken(ac[y])) /\ run' \in {At("drain", y), At("abort", y)}
    BY <1>3, <1>4, <2>1, <2>3
  <2> QED
    BY <1>10, <2>2, <2>3, ReplyShape
<1>11. CASE NoMoreReplies
  <2>1. y \in Ctx /\ ac' = ac
    BY <1>11, ContextsTyped DEF NoMoreReplies
  <2>2. CASE run' = At("drain", y) /\ Refuses(ac[y]) /\ ac[y].replies = <<>>
    BY <2>1, <2>2 DEF DrainTold, At
  <2> QED
    BY <1>3, <1>11, <2>1, <2>2 DEF NoMoreReplies
<1>12. CASE DrainReply
  <2>1. /\ y \in Ctx /\ Refuses(ac[y]) /\ ac[y].err /\ ac'[y] = ShiftCallback(ac[y])
        /\ run'.pc = "callback" /\ run'.ctx = y
    BY <1>12, DrainShape DEF DrainTold, RunCallback
  <2>2. Refuses(ac'[y]) /\ ac'[y].err
    BY <1>0, <2>1, ShiftFields DEF Refuses
  <2> QED
    BY <2>1, <2>2 DEF DrainTold
<1>13. CASE FinishFree
  BY <1>3, <1>13, FinishShape
<1>14. CASE CallbackReturn
  <2>1. run' = At(run.from, y) /\ ac' = ac /\ run.pc = "callback"
    BY <1>14 DEF CallbackReturn
  <2> QED
    BY <2>1 DEF DrainTold, At
<1> QED
  BY <1>5, <1>6, <1>7, <1>8, <1>9, <1>10, <1>11, <1>12, <1>13, <1>14
     DEF Next, Application, Handler

\* The socket of a context that does not exist is new.
SocketsFresh == \A x \in Ctx \ heap : sock[x] = FreshSocket

LEMMA SocketsFreshStep ==
  ASSUME TypeInv, SocketsFresh, [Next]_vars
  PROVE  SocketsFresh'
<1>0. sock \in [Ctx -> Socket] /\ heap \subseteq Ctx
  BY ContextsTyped
<1>1. ASSUME heap \subseteq heap', NEW y \in heap,
             \A z \in Ctx \ {y} : sock'[z] = sock[z]
      PROVE  SocketsFresh'
  BY <1>1 DEF SocketsFresh
<1>2. ASSUME heap \subseteq heap', sock' = sock
      PROVE  SocketsFresh'
  BY <1>2 DEF SocketsFresh
<1>3. ASSUME NEW y \in Ctx, heap' = heap \ {y}, sock' = [sock EXCEPT ![y] = FreshSocket]
      PROVE  SocketsFresh'
  BY <1>0, <1>3 DEF SocketsFresh
<1>4. CASE \/ MgrInit \/ UNCHANGED vars \/ \E c \in Conn : NewConn(c) \/ CreateOpt(c)
           \/ NoMoreReplies \/ CallbackReturn
  BY <1>2, <1>4 DEF MgrInit, NewConn, CreateOpt, NoMoreReplies, CallbackReturn, vars
<1>5. CASE TimerCb \/ \E c \in Conn : InitConn(c)
  BY <1>2, <1>5, ConnectCalls, ConnectEffect
<1>6. ASSUME NEW c \in Conn, RedisAsyncCmd(c) PROVE SocketsFresh'
  BY <1>2, <1>6, CommandShape
<1>7. ASSUME NEW c \in Conn, Destroy(c) PROVE SocketsFresh'
  BY <1>2, <1>3, <1>7, DestroyShape
<1>8. ASSUME NEW x \in Ctx, HandleConnectFailed(x) \/ HandleWrite(x) \/ HandleRead(x)
      PROVE  SocketsFresh'
  BY <1>1, <1>8, ConnectFailedShape, WriteShape, ReadShape DEF Untouched
<1>9. CASE ProcessReply \/ DrainReply
  BY <1>2, <1>9, ReplyShape, DrainShape
<1>10. CASE FinishFree
  BY <1>2, <1>3, <1>10, FinishShape
<1>11. CASE Network
  <2>1. PICK y \in Ctx : \/ NetAccept(y) \/ NetAnswer(y) \/ NetRefuse(y)
                         \/ NetBusy(y) \/ NetClose(y) \/ NetReset(y)
    BY <1>11 DEF Network, NetFails
  <2>2. y \in heap /\ UNCHANGED heap /\ \A z \in Ctx \ {y} : sock'[z] = sock[z]
    BY <1>0, <2>1 DEF Net, NetAccept, NetAnswer, NetRefuse, NetBusy, NetClose, NetReset
  <2> QED
    BY <1>1, <2>2
<1> QED
  BY <1>4, <1>5, <1>6, <1>7, <1>8, <1>9, <1>10, <1>11 DEF Next, Application, Handler

(***************************************************************************)
(* The inductive invariant behind RepliesMatchCallbacks.                   *)
(***************************************************************************)
FlowOK == \A x \in heap : ~Draining(x) => FlowIn(ac[x], sock[x])

ReplyInv == TypeInv /\ RunShape /\ DrainTold /\ SocketsFresh /\ FlowOK

LEMMA ReplyInit == Init => ReplyInv
<1> SUFFICES ASSUME Init PROVE ReplyInv
  OBVIOUS
<1>1. TypeInv /\ heap = {} /\ run = Idle /\ run.pc = "idle" /\ sock = [x \in Ctx |-> FreshSocket]
  BY InitType DEF Init, Idle, At
<1> QED
  BY <1>1 DEF ReplyInv, RunShape, Idle, At, DrainTold, SocketsFresh, FlowOK

LEMMA ReplyStep == ReplyInv /\ [Next]_vars => ReplyInv'
<1> SUFFICES ASSUME ReplyInv, [Next]_vars PROVE ReplyInv'
  OBVIOUS
<1>1. TypeInv' /\ RunShape' /\ DrainTold' /\ SocketsFresh'
  BY TypeStep, RunShapeStep, DrainToldStep, SocketsFreshStep DEF ReplyInv
<1>2. ASSUME NEW x \in heap', ~Draining(x)' PROVE FlowIn(ac'[x], sock'[x])
  <2>1. x \in Ctx /\ ac \in [Ctx -> Context] /\ sock \in [Ctx -> Socket]
    BY <1>1, <1>2, ContextsTyped DEF ReplyInv, TypeInv, TypeOK
  <2>2. CASE Started(x)
    <3>1. sock'[x] = FreshSocket
      BY <2>1, <2>2 DEF Started, ReplyInv, SocketsFresh
    <3>2. ac'[x].replies = <<>> /\ ac'[x].obuf = <<>> /\ ac'[x].reader = <<>>
      BY <2>2, NewContext DEF Started
    <3> QED
      BY <3>1, <3>2, FlowInNew
  <2>3. CASE /\ x \in heap /\ ~Draining(x)
             /\ Stays(x) \/ Commanded(x) \/ Marked(x) \/ Wrote(x) \/ Fetched(x) \/ Replied(x) \/ Served(x)
    <3>1. FlowIn(ac[x], sock[x]) /\ ac[x] \in Context /\ sock[x] \in Socket
      BY <2>1, <2>3 DEF ReplyInv, FlowOK
    <3> QED
      BY <2>1, <2>3, <3>1, FlowSteps
  <2> QED
    BY <1>2, <2>1, <2>2, <2>3, ContextSteps DEF ReplyInv
<1>3. FlowOK'
  BY <1>2 DEF FlowOK
<1> QED
  BY <1>1, <1>3 DEF ReplyInv

\* A sequence that begins another one is its prefix.
LEMMA BeginsPrefix ==
  ASSUME NEW got \in Seq(Reply), NEW replies \in Seq(Reply), Begins(got, replies)
  PROVE  got = SubSeq(replies, 1, Len(got))
<1> DEFINE p == SubSeq(replies, 1, Len(got))
<1>1. Len(got) \in Nat /\ Len(replies) \in Nat /\ Len(got) <= Len(replies)
  BY DEF Begins
<1>2. p \in Seq(Reply) /\ Len(p) = Len(got) /\ \A i \in 1 .. Len(got) : p[i] = replies[i]
  BY <1>1
<1> HIDE DEF p
<1>3. got = p
  BY <1>2, SeqEqual DEF Begins
<1> QED
  BY <1>3 DEF p

LEMMA FlowMatches == ASSUME ReplyInv PROVE RepliesMatchCallbacks
<1>1. NullReplyMeansError
  BY DEF ReplyInv, DrainTold, NullReplyMeansError
<1>2. ASSUME NEW x \in heap, ~Draining(x)
      PROVE  LET got == ac[x].reader \o sock[x].recv IN
             /\ sock[x].st \in {"connecting", "open"} =>
                  got \o sock[x].sent \o ac[x].obuf = ac[x].replies
             /\ (\A i \in DOMAIN got : got[i] # Busy) =>
                  got = SubSeq(ac[x].replies, 1, Len(got))
  <2> DEFINE got == ac[x].reader \o sock[x].recv
  <2>1. ac[x] \in Context /\ sock[x] \in Socket /\ FlowIn(ac[x], sock[x])
    BY <1>2, ContextsTyped DEF ReplyInv, FlowOK
  <2>2. got \in Seq(Reply) /\ ac[x].replies \in Seq(Reply)
    BY <2>1, FlowTypes, CommandsAreReplies
  <2>3. Flow(sock[x].st, got, sock[x].sent, ac[x].obuf, ac[x].replies)
    BY <2>1 DEF FlowIn
  <2> HIDE DEF got
  <2>4. sock[x].st \in {"connecting", "open"} => got \o sock[x].sent \o ac[x].obuf = ac[x].replies
    BY <2>3 DEF Flow
  <2>5. (\A i \in DOMAIN got : got[i] # Busy) => got = SubSeq(ac[x].replies, 1, Len(got))
    BY <2>2, <2>3, BeginsPrefix DEF Flow, HasBusy
  <2> QED
    BY <2>4, <2>5 DEF got
<1> QED
  BY <1>1, <1>2 DEF RepliesMatchCallbacks

\* Each CmdCallBack gets the reply of its own command, in every reachable state,
\* for all constants and every application: answers line up with the callbacks
\* that wait for them, and only an error makes a callback get none.
THEOREM RepliesAlwaysMatch == Spec => []RepliesMatchCallbacks
  BY ReplyInit, ReplyStep, FlowMatches, PTL DEF Spec

-----------------------------------------------------------------------------
(* The assertions of hiredis.                                              *)

\* With connections destroyed cleanly only a context that is torn down refuses
\* commands.
ServesAll == \A x \in heap : ~Draining(x) => ~Refuses(ac[x])

AssertInv == ReplyInv /\ ServesAll /\ NoAbort

LEMMA ServesAllStep ==
  ASSUME CleanDestroy, ReplyInv, ServesAll, [Next]_vars
  PROVE  ServesAll'
<1> SUFFICES ASSUME NEW x \in heap', ~Draining(x)' PROVE ~Refuses(ac'[x])
  BY DEF ServesAll
<1>1. TypeInv' /\ TypeInv /\ RunShape
  BY TypeStep DEF ReplyInv
<1>2. x \in Ctx /\ ac \in [Ctx -> Context]
  BY <1>1, ContextsTyped DEF TypeInv, TypeOK
<1>3. CASE Started(x)
  BY <1>3, NewContext DEF Started, Refuses
<1>4. CASE /\ x \in heap /\ ~Draining(x)
           /\ Stays(x) \/ Commanded(x) \/ Marked(x) \/ Wrote(x) \/ Fetched(x) \/ Replied(x) \/ Served(x)
  <2> DEFINE a == ac[x]
  <2>1. ~Refuses(a) /\ a \in Context
    BY <1>2, <1>4 DEF ServesAll
  <2>2. CASE Stays(x) \/ Served(x)
    BY <2>1, <2>2 DEF Stays, Served
  <2>3. CASE Commanded(x)
    BY <2>1, <2>3, CommandFields DEF Commanded, Refuses
  <2>4. CASE Wrote(x)
    <3>1. Joined(a) \in Context /\ Joined(a).flags = a.flags \cup {"CONNECTED"}
      BY <2>1, ConnectedFields DEF Joined
    <3>2. ac'[x].flags = Joined(a).flags
      <4>1. PICK k : ac'[x] = Written(Joined(a), k)
        BY <2>4 DEF Wrote
      <4> QED
        BY <3>1, <4>1, WrittenFields
    <3> QED
      BY <2>1, <3>1, <3>2 DEF Refuses
  <2>5. CASE Fetched(x)
    <3>1. PICK k : ac'[x] = ReadIn(a, sock[x], k)
      BY <2>5 DEF Fetched
    <3> DEFINE b == ReadIn(a, sock[x], k)
    <3>2. b.flags = a.flags
      BY <2>1 DEF ReadIn, Arm, Context
    <3> HIDE DEF b
    <3>3. ac'[x].flags = a.flags
      BY <3>1, <3>2 DEF b
    <3> QED
      BY <2>1, <3>3 DEF Refuses
  <2>6. CASE Replied(x)
    <3>1. Taken(a) \in Context /\ Taken(a).flags = a.flags
      BY <2>1, <2>6, TakenFields DEF Taken, Replied
    <3>2. ac'[x].flags = Taken(a).flags
      BY <2>6, <3>1, ShiftFields DEF Replied
    <3> QED
      BY <2>1, <3>1, <3>2 DEF Refuses
  <2> QED
    BY <1>4, <2>2, <2>3, <2>4, <2>5, <2>6 DEF Marked
<1> QED
  BY <1>1, <1>2, <1>3, <1>4, ContextSteps

\* The reply that finds no callback is the farewell of a server.
LEMMA LoneReplyIsBusy ==
  ASSUME NEW a \in Context, NEW s \in Socket, FlowIn(a, s), a.reader # <<>>, a.replies = <<>>
  PROVE  Head(a.reader) = Busy
<1> DEFINE p == a.reader
           r == s.recv
           got == p \o r
<1>0. p \in Seq(Reply) /\ r \in Seq(Reply) /\ p # <<>>
  BY FlowTypes
<1>2. Flow(s.st, got, s.sent, a.obuf, <<>>)
  BY DEF FlowIn
<1>6. Head(p) = Busy => Head(a.reader) = Busy
  OBVIOUS
<1> HIDE DEF p, r
<1>1. /\ Len(p) \in Nat \ {0} /\ Len(r) \in Nat
      /\ Len(got) = Len(p) + Len(r) /\ got[1] = p[1]
  BY <1>0, EmptySeq, ConcatProperties
<1> HIDE DEF got
<1>3. ~Begins(got, <<>>)
  BY <1>1 DEF Begins
<1>4. got = <<Busy>>
  BY <1>2, <1>3 DEF Flow
<1>5. got[1] = Busy /\ Head(p) = p[1]
  BY <1>0, <1>4
<1> QED
  BY <1>1, <1>5, <1>6

LEMMA NoAbortStep ==
  ASSUME ReplyInv, ServesAll, NoAbort, [Next]_vars
  PROVE  NoAbort'
<1> DEFINE x == run.ctx
<1>1. ASSUME run.pc = "process"
      PROVE  /\ x \in heap /\ ac[x] \in Context /\ ~Refuses(ac[x])
             /\ sock[x] \in Socket /\ FlowIn(ac[x], sock[x])
  <2>1. run = At("process", x) /\ x \in heap /\ x \in Ctx
    BY <1>1, ContextsTyped DEF ReplyInv, RunShape
  <2>2. ~Draining(x)
    BY <2>1 DEF Draining, At
  <2> QED
    BY <2>1, <2>2, ContextsTyped DEF ReplyInv, ServesAll, FlowOK
<1>2. CASE ProcessReply
  <2>1. run.pc = "process" /\ ac[x].reader # <<>>
    BY <1>2 DEF ProcessReply
  <2>2. CASE RunCallback(x, Taken(ac[x]))
    BY <2>2 DEF RunCallback, NoAbort
  <2>3. CASE Taken(ac[x]).replies = <<>>
    <3>1. ac[x].replies = <<>>
      BY <1>1, <2>1, <2>3, TakenFields DEF Taken
    <3>2. Head(ac[x].reader) = Busy
      BY <1>1, <2>1, <3>1, LoneReplyIsBusy
    <3>3. run' = At("drain", x)
      BY <1>2, <2>1, <2>3, <3>2 DEF ProcessReply, Taken
    <3> QED
      BY <3>3 DEF NoAbort, At
  <2> QED
    BY <1>2, <2>2, <2>3, ReplyShape DEF ReplyInv
<1>3. CASE NoMoreReplies
  <2>1. run' = Idle
    BY <1>1, <1>3 DEF NoMoreReplies
  <2> QED
    BY <2>1 DEF NoAbort, Idle, At
<1>4. ASSUME NEW y \in Ctx, HandleConnectFailed(y) \/ HandleWrite(y) \/ HandleRead(y)
      PROVE  NoAbort'
  <2>1. run' = run \/ run' \in {At("wild", y), At("drain", y), At("process", y)}
    BY <1>4, ConnectFailedShape, WriteShape, ReadShape DEF ReplyInv
  <2> QED
    BY <2>1 DEF NoAbort, At
<1>5. CASE DrainReply \/ FinishFree \/ CallbackReturn
  BY <1>5, DrainShape, FinishShape
     DEF ReplyInv, NoAbort, RunCallback, CallbackReturn, At, Idle, TypeInv, RunOK
<1>6. CASE TimerCb \/ \E c \in Conn : InitConn(c)
  BY <1>6, ConnectCalls, ConnectEffect DEF NoAbort, ReplyInv
<1>7. CASE \/ MgrInit \/ Network \/ UNCHANGED vars
           \/ \E c \in Conn : NewConn(c) \/ CreateOpt(c) \/ RedisAsyncCmd(c) \/ Destroy(c)
  <2>1. run' = run
    BY <1>7 DEF MgrInit, NewConn, CreateOpt, RedisAsyncCmd, Destroy, vars,
         Network, NetFails, Net, NetAccept, NetAnswer, NetRefuse, NetBusy, NetClose, NetReset
  <2> QED
    BY <2>1 DEF NoAbort
<1> QED
  BY <1>2, <1>3, <1>4, <1>5, <1>6, <1>7 DEF Next, Application, Handler

\* With an application that destroys connections only outside their callbacks and
\* with no command pending no assertion of hiredis fails, for all constants: a
\* disconnect never finds a callback waiting, and a reply without a callback is
\* the farewell of a server.
THEOREM CleanNeverAborts ==
  ASSUME CleanDestroy
  PROVE  Spec => []NoAbort
<1>1. Init => AssertInv
  <2>1. Init => heap = {} /\ run.pc = "idle"
    BY DEF Init, Idle, At
  <2> QED
    BY <2>1, ReplyInit DEF AssertInv, ServesAll, NoAbort
<1>2. AssertInv /\ [Next]_vars => AssertInv'
  BY ReplyStep, ServesAllStep, NoAbortStep DEF AssertInv
<1>3. AssertInv => NoAbort
  BY DEF AssertInv
<1> QED
  BY <1>1, <1>2, <1>3, PTL DEF Spec
=============================================================================
