------------------------------ MODULE RedisConn ------------------------------
(***************************************************************************)
(* RedisConn and HiredisEventMgr (redisClient/src) over the asynchronous   *)
(* hiredis context: a single thread alternates between application code    *)
(* and HiredisEventMgr::Proc, which runs the handlers of ready sockets and *)
(* the 5 second reconnect timer.  A handler that runs an application       *)
(* callback (BaseCallBackOpt::CmdCallBack) is split at that callback,      *)
(* because the application may call back into any RedisConn from it; run   *)
(* is the control state of the handler that is active.                     *)
(***************************************************************************)
EXTENDS HiredisAsync

CONSTANTS
    CleanDestroy,   \* the application destroys a RedisConn only outside its
                    \* callbacks and when no command of it is pending
    SyncFail,       \* redisAsyncConnect may fail at once (no route, no fd)
    FdOverflow,     \* a descriptor may be beyond MAX_REDIS_EVENT_SIZE
    MaxFailed       \* bound: contexts of failed redisAsyncConnect calls

ASSUME ConfigAssumption ==
    /\ CleanDestroy \in BOOLEAN /\ SyncFail \in BOOLEAN
    /\ FdOverflow \in BOOLEAN /\ MaxFailed \in Nat

VARIABLES
    loop,   \* HiredisEventMgr::m_pAeLoop # NULL
    conns,  \* HiredisEventMgr::m_connectSet: exactly the objects that exist
    rc,     \* the members of each RedisConn
    alloc,  \* the BaseCallBackOpt objects on the heap
    heap,   \* the redisAsyncContext objects on the heap
    ac,     \* their contents
    sock,   \* their sockets
    run     \* the handler that is running

vars == <<loop, conns, rc, alloc, heap, ac, sock, run>>

Members == [port  : BOOLEAN,                                \* m_port # 0
            state : {"S_INIT", "S_CONNECTIING", "S_PROC"},  \* m_state
            ctx   : Ctx \cup {NULL},                        \* m_pAeContext
            opt   : Opt \cup {NULL}]                        \* m_new_opt

FreshMembers == [port |-> FALSE, state |-> "S_INIT", ctx |-> NULL, opt |-> NULL]

(***************************************************************************)
(* run.pc: "idle" - no handler; "process" - in redisProcessCallbacks of    *)
(* run.ctx; "drain" - in __redisAsyncFree of run.ctx; "callback" - in the  *)
(* callback run.opt, called from run.from.  "wild" and "abort" end the     *)
(* execution: a member of a destroyed RedisConn was used, or an assertion  *)
(* of hiredis failed.                                                      *)
(***************************************************************************)
Control == [pc   : {"idle", "process", "drain", "callback", "wild", "abort"},
            ctx  : Ctx \cup {NULL},
            opt  : Opt \cup {NULL},
            from : {"process", "drain", "none"}]

At(pc, x) == [pc |-> pc, ctx |-> x, opt |-> NULL, from |-> "none"]
Idle == At("idle", NULL)
InCallback(x) == run.pc = "callback" /\ run.ctx = x

Init ==
    /\ loop = FALSE
    /\ conns = {}
    /\ rc = [c \in Conn |-> FreshMembers]
    /\ alloc = {}
    /\ heap = {}
    /\ ac = [x \in Ctx |-> FreshContext]
    /\ sock = [x \in Ctx |-> FreshSocket]
    /\ run = Idle

-----------------------------------------------------------------------------
(* Calls of the application: between two Proc calls or from a callback.    *)

AppTurn == run.pc \in {"idle", "callback"}

MgrInit ==
    /\ run.pc = "idle" /\ ~loop
    /\ loop' = TRUE
    /\ UNCHANGED <<conns, rc, alloc, heap, ac, sock, run>>

NewConn(c) ==
    /\ AppTurn /\ c \notin conns
    /\ conns' = conns \cup {c}
    /\ rc' = [rc EXCEPT ![c] = FreshMembers]
    /\ UNCHANGED <<loop, alloc, heap, ac, sock, run>>

FailedContexts == {x \in heap : ac[x].err /\ ~ac[x].ev}

\* redisAsyncConnect for each connection of T, from members m: m_pAeContext is
\* overwritten, with a context that is connecting for those in started, for the
\* others with a failed context, which leaves m_state alone.
ConnectEach(m, T, new, started, fits) ==
    /\ heap' = heap \cup {new[c] : c \in T}
    /\ rc' = [c \in Conn |->
                IF c \notin T THEN m[c]
                ELSE IF c \in started
                     THEN [m[c] EXCEPT !.ctx = new[c], !.state = "S_CONNECTIING"]
                     ELSE [m[c] EXCEPT !.ctx = new[c]]]
    /\ ac' = [x \in Ctx |->
                IF \E c \in T : new[c] = x
                THEN LET c == CHOOSE d \in T : new[d] = x IN
                     IF c \in started THEN AttachedContext(c, c \in fits)
                                      ELSE FailedContext
                ELSE ac[x]]
    /\ UNCHANGED <<loop, conns, alloc, sock, run>>

\* The connections of S whose Connect gets past its guards.
Connectable(m, S) == IF loop THEN {c \in S : m[c].state = "S_INIT"} ELSE {}

\* RedisConn::Connect of every connection of S.  A connection without Init has
\* no address to connect to.
Connect(m, S) ==
    LET T == Connectable(m, S) IN
    \E new \in [T -> Ctx \ heap], started \in SUBSET T, fits \in SUBSET T :
       /\ \A c, d \in T : new[c] = new[d] => c = d
       /\ \A c \in started : m[c].port
       /\ \A c \in T \ started : SyncFail \/ ~m[c].port
       /\ FdOverflow \/ fits = T
       /\ started # T => Cardinality(FailedContexts) + Cardinality(T \ started) <= MaxFailed
       /\ ConnectEach(m, T, new, started, fits)

InitConn(c) ==
    /\ AppTurn /\ c \in conns /\ ~rc[c].port
    /\ Connect([rc EXCEPT ![c].port = TRUE], {c})

CreateOpt(c) ==
    /\ AppTurn /\ c \in conns
    /\ \E o \in Opt \ alloc :
         /\ alloc' = (alloc \ {rc[c].opt}) \cup {o}
         /\ rc' = [rc EXCEPT ![c].opt = o]
    /\ UNCHANGED <<loop, conns, heap, ac, sock, run>>

\* Mutant: m_new_opt is not reset.
RedisAsyncCmdKeepsOpt(c) ==
    LET x == rc[c].ctx IN
    /\ AppTurn /\ c \in conns /\ rc[c].opt # NULL /\ x # NULL /\ ~Refuses(ac[x])
    /\ ac' = [ac EXCEPT ![x] = AsyncCommand(@, rc[c].opt)]
    /\ UNCHANGED <<loop, conns, rc, alloc, heap, sock, run>>

\* RedisAsyncCmd, RedisAsyncCmdArgv with the object CreateOpt returned.  With
\* m_pAeContext = NULL they return REDIS_ERR and change nothing.
RedisAsyncCmd(c) ==
    LET x == rc[c].ctx IN
    /\ AppTurn /\ c \in conns /\ rc[c].opt # NULL /\ x # NULL
    /\ rc' = [rc EXCEPT ![c].opt = NULL]
    /\ ac' = IF Refuses(ac[x]) THEN ac
             ELSE [ac EXCEPT ![x] = AsyncCommand(@, rc[c].opt)]
    /\ UNCHANGED <<loop, conns, alloc, heap, sock, run>>

\* ~RedisConn with redisAsyncDisconnect.  When no callback of the context is
\* running and none waits, the context is freed at once; otherwise it lives on
\* with data pointing to the destroyed object.
Destroy(c) ==
    LET x == rc[c].ctx
        later == x # NULL /\ (InCallback(x) \/ ac[x].replies # <<>>)
        now == IF x = NULL \/ later THEN {} ELSE {x} IN
    /\ AppTurn /\ c \in conns
    /\ CleanDestroy => ~later
    /\ conns' = conns \ {c}
    /\ rc' = [rc EXCEPT ![c] = FreshMembers]
    /\ heap' = heap \ now
    /\ ac' = [y \in Ctx |-> IF y \in now THEN FreshContext
                            ELSE IF later /\ y = x THEN MarkDisconnecting(ac[y])
                            ELSE ac[y]]
    /\ sock' = [y \in Ctx |-> IF y \in now THEN FreshSocket ELSE sock[y]]
    /\ UNCHANGED <<loop, alloc, run>>

-----------------------------------------------------------------------------
(* Handlers of the event loop, run by HiredisEventMgr::Proc.               *)

\* HiredisEventMgr::TimerCb: TryReconnectTimer of every registered connection.
TimerCb ==
    /\ run.pc = "idle" /\ loop
    /\ \E c \in conns : rc[c].state = "S_INIT"
    /\ Connect(rc, conns)

\* Mutants: the failed connect keeps m_state; the disconnect uses the state
\* S_DISCONNECTING the enumeration offers, or keeps m_pAeContext.
ConnectCallbackKeepsState(c, ok) ==
    IF ok THEN [rc EXCEPT ![c].state = "S_PROC"] ELSE [rc EXCEPT ![c].ctx = NULL]

DisconnectCallbackOddState(c) ==
    [rc EXCEPT ![c].state = "S_DISCONNECTING", ![c].ctx = NULL]

DisconnectCallbackKeepsContext(c) == [rc EXCEPT ![c].state = "S_INIT"]

\* RedisConn::ConnectCallback and RedisConn::DisconnectCallback dereference
\* data; the members they leave behind.
ConnectCallback(c, ok) ==
    IF ok THEN [rc EXCEPT ![c].state = "S_PROC"]
    ELSE [rc EXCEPT ![c].state = "S_INIT", ![c].ctx = NULL]

DisconnectCallback(c) == [rc EXCEPT ![c].state = "S_INIT", ![c].ctx = NULL]

\* The first event of a socket that could not connect: the client is told and
\* the context is torn down.
HandleConnectFailed(x) ==
    LET c == ac[x].data IN
    /\ run.pc = "idle" /\ x \in heap
    /\ Writable(ac[x], sock[x])
    /\ "CONNECTED" \notin ac[x].flags /\ sock[x].st = "error"
    /\ IF c \in conns
       THEN /\ rc' = ConnectCallback(c, FALSE)
            /\ ac' = [ac EXCEPT ![x] = Failed(@)]
            /\ run' = At("drain", x)
       ELSE run' = At("wild", x) /\ UNCHANGED <<rc, ac>>
    /\ UNCHANGED <<loop, conns, alloc, heap, sock>>

\* redisAsyncHandleWrite on a socket that is, or has just become, connected:
\* after the connect callback some of the output buffer is written, or the
\* write fails because the peer is gone.
HandleWrite(x) ==
    LET c == ac[x].data
        first == "CONNECTED" \notin ac[x].flags
        a == [ac[x] EXCEPT !.flags = @ \cup {"CONNECTED"}] IN
    /\ run.pc = "idle" /\ x \in heap
    /\ Writable(ac[x], sock[x])
    /\ first => sock[x].st # "error"
    /\ IF first /\ c \notin conns
       THEN run' = At("wild", x) /\ UNCHANGED <<rc, ac, sock>>
       ELSE /\ rc' = IF first THEN ConnectCallback(c, TRUE) ELSE rc
            /\ \/ /\ sock[x].st # "error" \/ a.obuf = <<>>
                  /\ \E k \in IF a.obuf = <<>> THEN {0} ELSE 1 .. Len(a.obuf) :
                       /\ ac' = [ac EXCEPT ![x] = Written(a, k)]
                       /\ sock' = [sock EXCEPT ![x].sent = @ \o SubSeq(a.obuf, 1, k)]
                  /\ UNCHANGED run
               \/ /\ sock[x].st \in {"eof", "error"} /\ a.obuf # <<>>
                  /\ ac' = [ac EXCEPT ![x] = Failed(a)]
                  /\ run' = At("drain", x)
                  /\ UNCHANGED sock
    /\ UNCHANGED <<loop, conns, alloc, heap>>

\* redisAsyncHandleRead: read what is there and process it, or meet the end of
\* the stream.  (Reading is scheduled only by a write handler that found the
\* socket connected, so the connect check of this handler never acts.)
HandleRead(x) ==
    /\ run.pc = "idle" /\ x \in heap
    /\ Readable(ac[x], sock[x])
    /\ \/ \E k \in 1 .. Len(sock[x].recv) :
            /\ sock[x].st # "error"
            /\ ac' = [ac EXCEPT ![x] = ReadIn(@, sock[x], k)]
            /\ sock' = [sock EXCEPT ![x].recv = SubSeq(@, k + 1, Len(@))]
            /\ run' = At("process", x)
       \/ /\ sock[x].st = "error" \/ (sock[x].st = "eof" /\ sock[x].recv = <<>>)
          /\ ac' = [ac EXCEPT ![x] = Failed(@)]
          /\ run' = At("drain", x)
          /\ UNCHANGED sock
    /\ UNCHANGED <<loop, conns, rc, alloc, heap>>

\* __redisRunCallback of the first waiting callback.
RunCallback(x, a) ==
    /\ ac' = [ac EXCEPT ![x] = ShiftCallback(a)]
    /\ run' = [pc |-> "callback", ctx |-> x, opt |-> Head(a.replies), from |-> run.pc]

\* redisProcessCallbacks, one reply: it goes to the first waiting callback; with
\* none waiting it must be the farewell of a server that turns us away.
ProcessReply ==
    LET x == run.ctx
        a == [ac[x] EXCEPT !.reader = Tail(@)] IN
    /\ run.pc = "process" /\ ac[x].reader # <<>>
    /\ IF a.replies # <<>> THEN RunCallback(x, a)
       ELSE /\ ac' = [ac EXCEPT ![x] = Failed(a)]
            /\ run' = IF Head(ac[x].reader) = Busy THEN At("drain", x) ELSE At("abort", x)
    /\ UNCHANGED <<loop, conns, rc, alloc, heap, sock>>

\* redisProcessCallbacks with no complete reply left: back to the event loop, or
\* the deferred disconnect, which asserts that no callback waits.
NoMoreReplies ==
    LET x == run.ctx IN
    /\ run.pc = "process" /\ ac[x].reader = <<>>
    /\ run' = IF ~Refuses(ac[x]) \/ ac[x].obuf # <<>> THEN Idle
              ELSE IF ac[x].replies = <<>> THEN At("drain", x)
              ELSE At("abort", x)
    /\ UNCHANGED <<loop, conns, rc, alloc, heap, ac, sock>>

\* __redisAsyncFree: the remaining callbacks get a NULL reply.
DrainReply ==
    /\ run.pc = "drain" /\ ac[run.ctx].replies # <<>>
    /\ RunCallback(run.ctx, ac[run.ctx])
    /\ UNCHANGED <<loop, conns, rc, alloc, heap, sock>>

\* __redisAsyncFree: unregister, tell the client if it had been connected, free.
FinishFree ==
    LET x == run.ctx
        c == ac[x].data
        tell == "CONNECTED" \in ac[x].flags IN
    /\ run.pc = "drain" /\ ac[x].replies = <<>>
    /\ IF tell /\ c \notin conns
       THEN run' = At("wild", x) /\ UNCHANGED <<rc, heap, ac, sock>>
       ELSE /\ rc' = IF tell THEN DisconnectCallback(c) ELSE rc
            /\ heap' = heap \ {x}
            /\ ac' = [ac EXCEPT ![x] = FreshContext]
            /\ sock' = [sock EXCEPT ![x] = FreshSocket]
            /\ run' = Idle
    /\ UNCHANGED <<loop, conns, alloc>>

\* Mutant: without the GuardDelete.
CallbackReturnKeepsOpt ==
    /\ run.pc = "callback"
    /\ run' = At(run.from, run.ctx)
    /\ UNCHANGED <<loop, conns, rc, alloc, heap, ac, sock>>

\* CmdCallBack returns; StaticCmdCallback deletes the callback object.
CallbackReturn ==
    /\ run.pc = "callback"
    /\ alloc' = alloc \ {run.opt}
    /\ run' = At(run.from, run.ctx)
    /\ UNCHANGED <<loop, conns, rc, heap, ac, sock>>

-----------------------------------------------------------------------------
(* External: the network and the servers.  A handler runs to its end       *)
(* without waiting for them, but they need not wait for it.                *)

Net(x, guard, s) ==
    /\ x \in heap /\ ac[x].ev /\ run.pc \notin {"wild", "abort"}
    /\ guard
    /\ sock' = [sock EXCEPT ![x] = s]
    /\ UNCHANGED <<loop, conns, rc, alloc, heap, ac, run>>

NetAccept(x)  == Net(x, sock[x].st = "connecting", LetIn(sock[x]))
NetAnswer(x)  == Net(x, sock[x].st = "open" /\ sock[x].sent # <<>>, Answered(sock[x]))
NetRefuse(x)  == Net(x, sock[x].st = "connecting", Broken(sock[x]))
NetBusy(x)    == Net(x, sock[x].st = "connecting", TurnedAway(sock[x]))
NetClose(x)   == Net(x, sock[x].st = "open", Closed(sock[x]))
NetReset(x)   == Net(x, sock[x].st = "open", Broken(sock[x]))

NetFails == \E x \in Ctx : NetRefuse(x) \/ NetBusy(x) \/ NetClose(x) \/ NetReset(x)

-----------------------------------------------------------------------------
Application ==
    \/ MgrInit
    \/ \E c \in Conn : \/ NewConn(c) \/ InitConn(c) \/ CreateOpt(c)
                       \/ RedisAsyncCmd(c) \/ Destroy(c)

Handler ==
    \/ TimerCb
    \/ \E x \in Ctx : HandleConnectFailed(x) \/ HandleWrite(x) \/ HandleRead(x)
    \/ ProcessReply \/ NoMoreReplies \/ DrainReply \/ FinishFree \/ CallbackReturn

Network == NetFails \/ \E x \in Ctx : NetAccept(x) \/ NetAnswer(x)

Next == Application \/ Handler \/ Network

Spec == Init /\ [][Next]_vars

(***************************************************************************)
(* Proc is called for ever and the event loop serves every ready socket    *)
(* and the timer; callbacks return; a connection that is attempted is      *)
(* accepted or refused and a server answers what it received.  Nothing is  *)
(* assumed of the application.                                             *)
(***************************************************************************)
Fairness ==
    /\ WF_vars(TimerCb)
    /\ WF_vars(ProcessReply \/ NoMoreReplies \/ DrainReply \/ FinishFree)
    /\ WF_vars(CallbackReturn)
    /\ \A x \in Ctx : /\ WF_vars(HandleConnectFailed(x))
                      /\ WF_vars(HandleWrite(x))
                      /\ WF_vars(HandleRead(x))
                      /\ WF_vars(NetAccept(x) \/ NetRefuse(x) \/ NetBusy(x))
                      /\ WF_vars(NetAnswer(x))

FairSpec == Spec /\ Fairness

-----------------------------------------------------------------------------
(* Properties.                                                             *)

\* Every variable holds a value of its type, and a RedisConn or a context that
\* does not exist is in its initial state.
TypeOK ==
    /\ loop \in BOOLEAN
    /\ conns \subseteq Conn
    /\ rc \in [Conn -> Members]
    /\ alloc \subseteq Opt
    /\ heap \subseteq Ctx
    /\ ac \in [Ctx -> Context]
    /\ sock \in [Ctx -> Socket]
    /\ run \in Control

Pending(x) == {ac[x].replies[i] : i \in DOMAIN ac[x].replies}

\* x is being torn down: its pending callbacks are run with a NULL reply.
Draining(x) == run.ctx = x /\ (run.pc \in {"drain", "wild", "abort"} \/ run.from = "drain")

\* A callback object has at most one holder - a connection that has just created
\* it, one place in the callback queue of one context, or the callback that is
\* running - and exists while it has one.  So CreateOpt, RedisAsyncCmd and
\* StaticCmdCallback between them never delete an object twice and never call a
\* deleted one, whatever the application does from its callbacks.
OneHolder ==
    /\ \A c \in conns : rc[c].opt \in alloc \cup {NULL}
    /\ \A c, d \in conns : rc[c].opt = rc[d].opt => c = d \/ rc[c].opt = NULL
    /\ \A x \in heap :
         /\ Pending(x) \subseteq alloc
         /\ Cardinality(Pending(x)) = Len(ac[x].replies)
         /\ \A c \in conns : rc[c].opt \notin Pending(x)
         /\ \A y \in heap \ {x} : Pending(x) \cap Pending(y) = {}
    /\ run.pc = "callback" => /\ run.opt \in alloc
                              /\ \A x \in heap : run.opt \notin Pending(x)
                              /\ \A c \in conns : rc[c].opt # run.opt

\* Callbacks get a NULL reply only when their connection was lost to an error.
NullReplyMeansError ==
    run.pc = "callback" /\ run.from = "drain" => ac[run.ctx].err

\* The answers on their way back line up with the callbacks that wait for them,
\* so each CmdCallBack gets the reply of its own command: while the connection
\* stands, everything between the server and the two buffers is exactly the
\* callback queue; after it broke, what was received still is its beginning.  One
\* that gets no answer is told so (NULL) only after an error.
RepliesMatchCallbacks ==
    /\ NullReplyMeansError
    /\ \A x \in heap :
         LET got == ac[x].reader \o sock[x].recv IN
         ~Draining(x) =>
           /\ sock[x].st \in {"connecting", "open"} =>
                got \o sock[x].sent \o ac[x].obuf = ac[x].replies
           /\ (\A i \in DOMAIN got : got[i] # Busy) =>
                got = SubSeq(ac[x].replies, 1, Len(got))

\* The event loop never forgets a socket: a context that is connecting or has
\* output waits for writability, a connected one (and no other) for input.
EventsArmed ==
    \A x \in heap : ac[x].ev /\ ~Draining(x) =>
       /\ "CONNECTED" \notin ac[x].flags \/ ac[x].obuf # <<>> => "W" \in ac[x].mask
       /\ "R" \in ac[x].mask <=> "CONNECTED" \in ac[x].flags

\* A context whose connection attempt failed: its RedisConn has already let go of
\* it and the callbacks of its commands are being run.
LetGo(x) == run.ctx = x /\ run.pc # "idle" /\ "CONNECTED" \notin ac[x].flags

\* Under a clean application m_pAeContext and data agree: every context the event
\* loop serves belongs to an existing RedisConn that points to it - so a RedisConn
\* never has two live connections - and no RedisConn points to a freed context.
ContextOwned ==
    /\ \A x \in heap : ac[x].ev /\ ~LetGo(x) =>
          ac[x].data \in conns /\ rc[ac[x].data].ctx = x
    /\ \A c \in conns, x \in Ctx : rc[c].ctx = x =>
          x \in heap /\ (ac[x].ev => ac[x].data = c /\ ~LetGo(x))

\* Under a clean application m_state, on which IsConnect and the reconnect timer
\* rely, tells the truth about the context m_pAeContext points to.
StateTellsContext ==
    \A c \in conns :
       LET x == rc[c].ctx IN
       /\ rc[c].state = "S_PROC" <=> x # NULL /\ "CONNECTED" \in ac[x].flags
       /\ rc[c].state = "S_CONNECTIING" <=>
            x # NULL /\ ac[x].ev /\ "CONNECTED" \notin ac[x].flags

\* No callback of hiredis touches a RedisConn that has been destroyed.
NoWildCallback == run.pc # "wild"

\* What RedisConn and hiredis know of each other under a clean application: the
\* event loop serves exactly the contexts that existing RedisConn objects point
\* to, m_state tells the truth about them, and no callback finds its object gone.
CleanOwners == ContextOwned /\ StateTellsContext /\ NoWildCallback

\* A clean disconnect finds no callback waiting (the assertion at async.c:328),
\* and no reply comes without one.
NoAbort == run.pc # "abort"

\* The life of a callback object as its creator sees it.
OptState(o) ==
    IF o \notin alloc THEN "none"
    ELSE IF \E c \in conns : rc[c].opt = o THEN "created"
    ELSE IF \E x \in heap : o \in Pending(x) THEN "pending"
    ELSE IF run.pc = "callback" /\ run.opt = o THEN "running"
    ELSE "lost"

Lifecycle == INSTANCE OptLifecycle WITH st <- [o \in Opt |-> OptState(o)]

\* RedisConn implements the promise of OptLifecycle: created, submitted, called
\* at most once and one at a time, deleted after that.
KeepsLifecycle == Lifecycle!Spec

\* A command that RedisAsyncCmd accepted for a context the event loop serves is
\* called back, with its reply or with NULL.
ServedCommandCompletes ==
    \A o \in Opt : (\E x \in heap : ac[x].polled /\ o \in Pending(x))
                      ~> (\A x \in heap : o \notin Pending(x))

\* An initialised connection that stays comes up for good once its servers stop
\* failing, however often it was lost before.
Reconnects ==
    \A c \in Conn :
       <>[](loop /\ c \in conns /\ rc[c].port) /\ <>[][~NetFails]_vars
          => <>[](rc[c].state = "S_PROC")
=============================================================================
