# ServerCom: TLA+ models, model checks and proofs

ServerCom is a set of small C++ libraries for servers: connections, timers and
HTTP over libevent, a lock for single processes and a memory pool
(`ClientSimulate/lib_prj`), an asynchronous redis client over hiredis
(`redisClient`), and a generator of redeem codes (`RedeemCode`). This
directory holds TLA+ modules translated from that code, the TLC configurations
that check them, and theorems about them whose proofs TLAPS checks.

`PROJECT.json` maps every definition to the lines it models, lists the runs, the
mutants that show each property can fail, the theorems, the hazards of the code
with the properties that cover them, and the disagreements found between the
code and its own documentation. Paths below are relative to the repository.

To repeat a check: `tlc -config RedisConn_clean.cfg MCRedisConn.tla`, and
`tlapm RedisConnProofs.tla`.

## 1. Inventory

All of the libraries run in one thread each, driven by an event loop. There is no
preemption and hardly a lock. What makes them hard is re-entrance: the library
calls the application in the middle of a function, and the application may call
the library again, or destroy the object that is calling, before the function
goes on. Add to that a network that may split, delay and break everything. The
exceptions are the tools that run as several processes over one file: the single
process lock and the generator of redeem codes.

### Modelled

**RedisConn and HiredisEventMgr** (`redisClient/src`).
State: the loop `m_pAeLoop`; the set `m_connectSet`; per connection `m_port`,
`m_state`, `m_pAeContext`, `m_new_opt`; the callback objects on the heap.
Operations: constructor and destructor, `Init`, `CreateOpt`, `RedisAsyncCmd` and
`RedisAsyncCmdArgv`, `Proc`, the 5 second reconnect timer, and the callbacks
`ConnectCallback`, `DisconnectCallback`, `StaticCmdCallback`.
Interaction: it owns a hiredis context through `m_pAeContext`, and the context
points back through `data`; hiredis calls its three static callbacks, and the
third calls the application.
Hard: connections destroyed from callbacks; connects that fail at once; a timer
that reconnects while something is still going on; replies that have to meet the
callback of their own command.
Correct means: a callback object has one holder and is called at most once;
replies match; both pointers agree; `m_state` is true; lost connections come back.

**hiredis asynchronous context** (`redisClient/dep/hiredis/async.c`,
`adapters/libae.h`). State: flags, error, queue of callbacks, output buffer,
reader, the events asked for. It is vendored, but shipped in the repository, and
RedisConn cannot be understood without its rules on deferred disconnects, so it
is translated from its source as well.

**Message framing of BaseConnect** (`ClientSimulate/lib_prj/connector.cc`).
State: `m_is_connect`, `m_msg`, `m_msg_write_len`, and the bytes in the output
buffer. Operations: `send_data`, `send_data_no_head`, `conn_read_callback`, the
limit `m_msbs`. Interaction: bytes over TCP between two objects, `OnRecv`.
Hard: any split of the bytes; lengths chosen by the peer; state that survives a
reconnect. Correct means: nothing is written outside `m_msg`, and `OnRecv` gets
what was sent.

**Connection life** (`connector.cc`, `listener.cc`, `listener.h`: `BaseConnect`,
`ListenerConnector`, `Listener`, `BaseConnectorMgr`). State: the members `m_addr`,
`m_fd`, `m_buf_e`, `m_is_connect`, `m_ignore_free`; the map `m_all_connector`; the
bufferevents; the call stack. Operations: `ConnectInit`, `TryReconnect`,
`DisConnect`, `FreeSelf`, `CloseConnect`, `ForeachConnector`, the accept of a
listener, and libevent's three callbacks.
Hard: every one of these may be called from within a callback of another.
Correct means: no destroyed object is used, no connection is left behind that no
object holds, the map is exact, `IsConnect` is true, requests are answered.

**LibEventMgr and BaseLeTimer** (`lev_mgr.cc`, `timer_mgr.cc`). State: `m_eb`; per
timer `m_event` and `m_state`; libevent's timeouts and active queue. Operations:
`Init`, `dispatch`, `StopDispatch`, `StartTimer`, `StopTimer`, `TimerCB`, constructor and
destructor.
Hard: `OnTimer` may start, stop or delete its own timer or another one whose event is
active in the same turn of the loop. Correct means: each event libevent holds belongs
to a timer that exists, a stopped timer is silent, a started one goes off.

**BaseHttpClient, BaseHttpSvr and BaseEtcdClient** (`http.cc`, `http.h`,
`etcd_client.h`). State: per object `m_connection`, `m_dnsbase` and its owner; the
evhttp connections; at the server `m_tmp_req`. Operations: `Create`, `Request`,
the read and close callbacks, the destructor; `RevRequestCB`, `Reply`, `ReplyError`.
Hard: an object deletes itself, libevent holds raw pointers to it, the close
callback races the answer and the answer races the time-out. Correct means: a
request is answered once, its user is told once, and then the object is gone.

**SingleProgress and file_lock** (`utility/single_progress.cpp`). State: a record lock
the kernel keeps, the flag `m_is_exit`, the lock file. Operations: `CheckSingle`,
`StopSingle`, `IsExit`, the signal handler. Hard: testing and taking the lock are two
calls, and so are finding its owner and signalling it; processes die anywhere.
Correct means: one process at a time, and one that is told to leave leaves.

**MemPool** (`utility/mem_pool.h`). State: all blocks, the free ones. Operations:
`SetBufferSize`, `Allocate`, `Free`, `Clear`. Hard: growth of an empty pool and deletion
by mistake. Correct means: a block is in use or free, never both, and none is lost.

**RedeemCodeMgr and RedeemCodeTool** (`serialcode_parser.cc`). The first has no state:
it turns a number and a fun_id into a code and back, with shifts, keys and a sign.
Correct means: different numbers give different codes, and exactly the codes the tool
makes are accepted. The second keeps a history file and files of codes. Hard:
a run may be killed between two writes or overlap another. Correct means: no code is
made twice, and none is skipped.

**redis event loop** (`dep/hiredis/ae.c`, `ae_epoll.c`, `adapters/libae.h`). State: the
table of file events, `maxfd`, the interest epoll keeps, the attachments of the adapter,
the batch of fired events. Hard: callbacks close and open descriptors while the rest of
the batch waits. Correct means: the three layers agree, and no callback is
called for what was freed meanwhile.

Its one time event is compared with the clock of the system. Hard: the clock is set
while the event waits. Correct means: the reconnect timer is not put off, whatever
the clock does.

**redis protocol** (`dep/hiredis/hiredis.c`). The parser of replies; state: buffer,
position, the stack of arrays that are not complete. Hard: bytes come in any pieces.
Correct means: the replies do not depend on the pieces. The formatting of commands;
state: the argument that is being put together, the count of bytes. Hard: values that
are empty, hold blanks or bytes 0, or look like protocol; conversions of every
shape. Correct means: a command has exactly the arguments its format stands for.

### Not modelled

Logging (formatting and writing of lines), helpers (stateless templates and string
conversions), the demo programs and tests (they were read for how they call the
library, which is what the application in the models may do), and the other
vendored code: the strings, hash tables and blocking calls of hiredis, its copy of
jemalloc's headers, SimpleIni, gflags, the headers of libevent, build scripts.

## 2. Plan

Done, most important behaviour first:

1. `HiredisAsync`, `RedisConn`, `OptLifecycle`: the redis client, with the abstract
   life of a callback object and the refinement. `RedisConnProofs`, `RedisCallbackProofs`.
2. `MsgStream`: the framing, with the abstract channel `MsgChannel` it implements.
   `MsgStreamProofs`.
3. `ConnLife`: the life of connection objects. `ConnLifeProofs`.
4. `LeTimer`: timers and the loop they run on. `LeTimerProofs`.
5. `HttpClient`, and `HttpSvr`, which composes a server with the clients.
   `HttpSvrProofs`.
6. `SingleProgress`, `MemPool`.
7. `RedeemTool`, `RedeemCode`. `UtilityProofs`, for these and the two above.
8. `AeLoop`, `AeTimer`, `ReplyReader`, `CommandFormat`: what RedisConn stands on.
   `AeLoopProofs`, for the first two.

Next: `MsgStream` with `ConnLife` (a connection destroyed in `OnRecv` with bytes left
in the buffer), and the destruction of a `BaseConnectorMgr`.

## 3. The modules

### HiredisAsync

Contexts and sockets are records; the functions of `async.c` are operators from a
context to a context. A command is identified by the callback object passed
with it, so the output buffer, the socket and the reader are sequences of callback
objects. `Busy` is the error reply a server sends unasked before it closes a
connection it does not want (`async.c:428-442`). The module has no variables: its
client makes the steps.

### RedisConn

| variable | code |
|---|---|
| `loop` | `m_pAeLoop # NULL` |
| `conns` | `m_connectSet`, exactly the RedisConn objects that exist |
| `rc[c]` | `m_port # 0`, `m_state`, `m_pAeContext`, `m_new_opt` |
| `alloc` | the `BaseCallBackOpt` objects on the heap |
| `heap`, `ac`, `sock` | the hiredis contexts on the heap, their contents, their sockets |
| `run` | the handler that is running, if any |

`Proc` runs handlers one at a time. A handler that calls the application is split at
that call: `run.pc` is `"process"` in `redisProcessCallbacks`, `"drain"` in
`__redisAsyncFree`, `"callback"` in `CmdCallBack`; in the last, and in
`"idle"`, the application may act. `"wild"` (a member of a destroyed RedisConn was
used) and `"abort"` (an assertion of hiredis failed) end an execution. Addresses
(`Conn`, `Ctx`, `Opt`) are used again after they are freed, as a heap does.

| action | code |
|---|---|
| `MgrInit`, `NewConn`, `InitConn`, `Destroy` | `HiredisEventMgr::Init`, constructor, `RedisConn::Init`, destructor |
| `CreateOpt`, `RedisAsyncCmd` | the functions of these names |
| `TimerCb` | `HiredisEventMgr::TimerCb` with `TryReconnectTimer` and `Connect` of every connection |
| `HandleConnectFailed`, `HandleWrite`, `HandleRead` | `redisAsyncHandleWrite` and `redisAsyncHandleRead`, with `ConnectCallback`; writes and reads may be partial |
| `ProcessReply`, `NoMoreReplies`, `DrainReply`, `FinishFree`, `CallbackReturn` | `redisProcessCallbacks`, `__redisAsyncFree` with `DisconnectCallback`, the end of `StaticCmdCallback` |
| `NetAccept`, `NetAnswer`, `NetRefuse`, `NetBusy`, `NetClose`, `NetReset` | external: kernel and servers |

Constants that describe the environment: `CleanDestroy` (the application destroys
a connection only when no command of it is pending, and outside its callbacks),
`SyncFail` (`redisAsyncConnect` may fail at once), `FdOverflow` (a descriptor may
be 64 or more, which the loop silently does not serve). Bound: `MaxFailed`, the
contexts leaked by connects that failed at once.

### OptLifecycle

The abstract specification of a callback object: created, replaced or submitted or
lost, called at most once and one at a time, deleted when its callback returns.
`RedisConn` implements it with the mapping `OptState`; `KeepsLifecycle` is the
property. `"lost"` is the honest part: an object whose command hiredis refused, or
whose connection was destroyed, has no holder and is leaked.

### MsgStream

One direction of a connection. `s` is the sender (`m_is_connect`, bytes in its
output buffer), `wire` the bytes on their way, `r` the receiver (`m_is_connect`,
`m_msg`, `m_msg_write_len`), `h` the `conn_read_callback` that is running and its
input. `sent`, `got` and `torn` are history variables; `conns` counts connections.

`Send` is `send_data` (or `send_data_no_head`) with the limit check, `Flush` and
`Arrive` move any number of bytes, `ReadHead`, `ReadBody`, `OnRecvReturns` and
`LoopEnds` are the states of the loop in `conn_read_callback`, `SenderEnds` and
`ReceiverDown` end a connection, `Reconnect` makes a new one, with the same
receiving object (`Accepted = FALSE`: `TryReconnect`) or a new one.

A byte is a digit in base `Base` (256 in the code) and an `int` four of them in two's
complement. Byte order is not abstracted away, because an error in it is one of
the findings. The code has `MAX_MSG_DATA_LEN = 4096 < 256^2`, and the assumption
`MAX_MSG_DATA_LEN < Base^2` keeps what matters: a valid length has two
zero upper digits, so its reversal is zero, too large or negative. Of the negative ones the
smallest int is special. It is the reversal of `HalfByte` (128), and
`connector.cc:229` adds `HEAD_LEN` to it and subtracts `m_msg_write_len`: once part of the
body is there, the result lies below the smallest int. C leaves that undefined; gcc, which the
repository builds with, lets it wrap to about 2^31 at every level of optimisation, and
`NeedToRead` does the same (`Wrapped`). That number passes the check at `:230`, so
all input there is goes behind the bytes `m_msg` has. Three things can follow, and
`ReadBody` has them all: fewer bytes than the rest of the body, and the message is still
waited for; exactly the rest, after which the next input, which reverses the length back, finds
nothing left to read and delivers the message late; or so many that memory behind
`m_msg` is written. The first member hit is `m_msg_write_len`; the model stops there
(`h.pc = "wild"`) and claims nothing of what follows. `TailByte` says
what lies in memory behind a message, `Bodies` which bodies are sent. Bounds: `MaxSent`
messages per connection, `MaxConnections` connections.

### MsgChannel

The abstract specification of a connection as its applications see it: two ends that may be open,
the messages sent, the messages `OnRecv` was called with. A delivery appends the next
message and touches nothing else; a close of either end does not take back or add one; a new
connection begins when the receiver has closed, with nothing. The mapping keeps
`sent` and `got` and reads the ends from `m_is_connect` of both objects; bytes, pieces, buffers and
`m_msg` disappear. Deliveries after a close are allowed, since the code makes
them: `OnRecv` may disconnect, and the loop goes on with the input it has. A
behaviour of `MsgChannel` keeps `got` a beginning of `sent`, so `KeepsChannel` says more
than `FramesIntact`. The overrun above is part of the promise, where it can be read:
while a message of `Fatal` (`HalfByte` bytes) is the next to be delivered the receiver may
`Break`, and afterwards (`AfterBreak`) anything may happen.

### ConnLife

`obj` holds the members of each object, `all` the map of the manager, `bev` the
bufferevents (`none`, `connecting`, `connected`, `failed`; and the object that libevent
will call), `stack` the call stack, `wild` whether a destroyed object was used.

A frame of the stack stands for a function of the library that waits for a callback
to return; the callback's name is `at`. The application acts when the stack is
empty or its top is a callback. What the function does after the callback is the
step `...Returns` of the frame; if the object is gone by then and the function
would touch it, `wild` is set and the execution ends. So the exact order of "call
the application" and "use the object" in the code is the order of steps here:
`OnConnected` is the last thing its callers do, `OnError` is followed by
`DisConnect`, `OnRecv` by stores to `m_msg` and the next turn of the loop, and
`ListenerConnector::on_disconnected` by `FreeSelf`.

| action | code |
|---|---|
| `NewClient`, `DeleteClient` | constructor and destructor of a client |
| `ConnectInit`, `TryReconnect` | the functions, both with `ConnectByAddr` |
| `DisConnect` | the function, and `send_data` over its limit |
| `CloseConnect`, `FreeSelf`, `Foreach` | the functions of the manager and of `ListenerConnector` |
| `Accept` | `Listener::listener_cb`, `CreateConnectForListener`, `AcceptInit` |
| `LinkUp`, `LinkFails` | `conn_event_callback` |
| `Readable` | `conn_read_callback` up to `OnRecv`, or a bad length |
| `OnConnectedReturns` ... `ConnectReturns` | what follows a callback |

`ConnectByAddr` covers its failures: `socket()` fails, `bufferevent_socket_connect`
fails at once without or with the event callback (`FailAtOnce`). Constants that
describe the application: `CloseBusy` (it closes or destroys an object that a
function on the stack will use again), `ReconnectEarly` (it calls `TryReconnect` while
an attempt is under way or from `OnError`). Bound: `MaxDepth` frames when the
application is called. The address of an object is used again only when no bufferevent
and no frame refers to it (`Unused`): this loses no error, since any use of the
old address is already counted as wild.

### LeTimer

`tm[t]` holds `m_event`, `m_state` and the mode of the last start; `ev[e]` an event of
libevent with its argument and the queue it is in; `loop` the `dispatch()` in progress:
polling or running active events, the timer whose `OnTimer` runs (`cb`), the exit event.

| action | code |
|---|---|
| `CreateTimer`, `DeleteTimer`, `StartTimer`, `StopTimer` | constructor, destructor and functions of `BaseLeTimer`; allowed outside `dispatch()` and inside any `OnTimer` |
| `TimerCB`, `OnTimerReturns` | `TimerCB`, split at the call of `OnTimer` |
| `InitBase`, `dispatch`, `StopDispatch` | `LibEventMgr` |
| `Poll`, `LoopExitCB`, `TurnEnds`, `LoopReturns` | external: one turn of `event_base_loop` |

Time is not measured: any set of pending events may come due in one turn, which covers
every choice of intervals. A timer started before `Init` is `"idle"`, as its
`event_add` fails.

### HttpClient and HttpSvr

`hc[p]` are the members of an object and what its user was told; `cn[c]` an evhttp
connection: the object its callbacks point to, whether it is up, whether a request
waits, and where that request is (`net`). `running` is the object whose user callback
runs. `wild` is set when a callback finds its object, or that object's owner,
gone. `CreateClient` with an owner is one of the operations of `BaseEtcdClient`, which
differ in the url only.

`HttpSvr` EXTENDS `HttpClient` and adds the server, its `m_tmp_req` and the request being
handled. The two meet in `net`: `Connected` sends a request, `RevRequestCB` takes it,
`Reply` and `ReplyError` answer, `ResponseArrives` ends it. A client may give up at
any time (`RequestFails`); what the server still handles then is an `"orphan"`, whose
answer must reach nobody, although the address of the connection may be used again.

| action | code |
|---|---|
| `CreateClient`, `Request`, `RequestRefused` | `Create`, `Request` with its four ways to fail; `made = FALSE`: `evhttp_make_request` refused and nobody looked |
| `ResponseArrives`, `RequestFails`, `CallbackReturns` | `remote_read_callback`, split at the user's callback, `connection_close_callback`, `delete p` |
| `DeleteOwner`, `CreateOwner` | life of a `BaseEtcdClient` |
| `InitSvr`, `RevRequestCB`, `Reply`, `ReplyError`, `RevRequestReturns`, `DeleteSvr` | `BaseHttpSvr` |
| `Connected`, parts of the others | external: libevent's connections |

Constants that describe the user: `Repeats` (`Request` is called twice on one object),
`OwnersGo` (a `BaseEtcdClient` is destroyed before its requests are over).

### SingleProgress

A process goes through `opened`, `tested`, `locked`, `running`, `leaving`; each step is a
call to the kernel, so that those of several processes interleave between any
two. A `Stopper` reads the owner of the lock (`StopLooks`) and signals it later
(`StopSignals`), when the pid may have ended or stand for a new process. `Dies` may
come anywhere; the kernel then gives the lock back.

### MemPool

`m_vec_all_obj` and `m_vec_free_obj` are the vectors of the code, `inUse` what the
program holds. `Free` takes any address, so that double deletion and deletion of
something else are among its inputs; `aborted` is the failed check. `Grow` stands for
the 1000 blocks of the code.

### RedeemTool and RedeemCode

A run of the tool is a process: `ReadHistory`, then `WriteCodes` (possibly cut short by
a kill) or `CreateFails`, then `ReopenHistory`, which empties the file, and `SaveLine`
for each line. With `Faults` runs overlap, are killed between any two steps and fail to
open the history. `faulty` remembers that one did, since the code promises nothing
then except that numbers are not skipped. Numbers wrap at `Word` (2^32), `last_idx`
starts at `Word - 1` as in the code, and the line of fun_id 0 is skipped when read.

`RedeemCode` translates the codec with its shifts, masks and keys; its state is one call.
A number is the function from its bit positions to its bits, so that a shift and a mask
are a change of index (`Cut`, `Join`) and no width needs a power of two: the widths are
constants, and `8`, `5`, `8` and `10` of the code are values they may have. An argument above
`FUN_ID_MAX` or `UNIQUE_CODE_MAX` is `TooLarge`, whatever it is. The reference definition is
`MadeBy`, the set of pairs that give a text.

### AeLoop

`att[e]` is what the adapter remembers, `file[fd]` the table, `epoll[fd]` the kernel's
side, `fired` the rest of the batch, `calling` where `aeProcessEvents` is. `Attach`,
`Add`, `DelWrite` and `Cleanup` happen outside the loop or in a callback; a new
socket gets the lowest free number, as the kernel does it. `aeApiPoll` reports any
non-empty part of what is watched in any order, with `WRITABLE` added for errors.
`setsize` is below the number of descriptors, so that `aeCreateFileEvent` refuses one.

### AeTimer

`clock` is `gettimeofday` in milliseconds, `lastTime` and `te` are those of the code, `at`
is the step of `processTimeEvents`. `busy`, `moved`, `waited` and `set` are history
variables: what the property speaks of.

| action | code |
|---|---|
| `aeCreateTimeEvent` | `HiredisEventMgr::SetTimer` |
| `BeginTimeEvents` | `processTimeEvents` up to its loop, with the test for a clock set back |
| `CallTimer`, `TimerReturns`, `EndTimeEvents` | the loop: due or not, `TimerCb` with the new time of `te`, the second look from the head of the list |
| `Elapse`, `SetClock` | external: a millisecond, and somebody who sets the clock at any moment |

What `TimerCb` does to the connections is the action of this name in RedisConn.

### ReplyReader

`redisReaderFeed(n)` appends any number of bytes of a stream of replies chosen at the
start; `redisReaderGetReply` runs `processItem` until it has to stop. Bytes are
members of a small alphabet that keeps what parsing looks at: types, digits, `CR`, `LF`.
The stack of tasks is `rstack`, the depth `MaxDepth` and the threshold `DiscardAt` are
smaller than in the code. `Encode` writes the protocol and is the reference.

### CommandFormat

`call` is a format (a sequence of pieces, from which `format` is put together) with the
values handed over, or an argv with or without `argvlen`; a format comes from a direct call of
`redisAsyncCommand`, or from `RedisConn::RedisAsyncCmd` (`call.by`). `fs` holds the local
variables of `redisvFormatCommand` and where it is. One action per turn of its loop:
`ScanBlank`, `ScanLiteral`, `Interpolate` (`%s`, `%b`, `%%`), `ConvertNumber`, `FormatFails`;
then `BuildCommand`. `Interpolate` and `ConvertNumber` take the caller's arguments, so they
belong to a direct call. `RedisAsyncCmd` passes its `va_list` where those arguments
should be, and a conversion in its format ends in `TakeVaList` (`fs.at = "stray"`), of
which nothing more is said; literal text, blanks, `%%` and refused formats are as
before. `redisFormatCommandArgv` is one step. `totlen` is counted with
`intlen` and `bulklen` as in the code, `cmd` written by `Protocol`, and
`Arguments` is the loop of `__redisAsyncCommand` over `nextArgument`, which reads it back.
`Meant`, the reference, cuts the pieces at blanks without any scanning.

### MC and proof modules

`MCRedisConn`, `MCMsgStream` and `MCConnLife` define symmetry sets and the sets of bytes
for TLC. `MCConnections`, `MCLoop` and `MCData` put components that share no state into one run: a
variable `subject`, chosen in the initial state and never changed, says whose steps
are taken, so that the states of the run are the sum, not the product, of those
of the parts. Each module has a specification of its own (`TimerSpec`, `PairSpec`, ...),
which is what its theorems are about; with `subject` fixed, the behaviours of the
union are those of the parts.

The modules named `...Proofs` hold the theorems. `RedisCallbackProofs` stands on
`RedisConnProofs`; `UtilityProofs` holds the proofs of four components that share
nothing (`MemPool`, `SingleProgress`, `RedeemTool`, `RedeemCode`). Definitions marked as mutants, next to
the ones they change, are used by no specification: each is what a plausible bug would
make of its neighbour, and with it the property it belongs to fails.

## 4. The runs

| run | instance | states | asks |
|---|---|---|---|
| `redis_clean` | 2 connections, 4 contexts, 2 callback objects, clean application, connects may fail at once | 41 thousand | `CleanOwners`: do both pointers agree, is `m_state` true, is nothing wild; `NoAbort`: does no assertion of hiredis fail |
| `redis_any` | 2, 2, 2, any application, any failure | 826 thousand | the type invariant, and what holds whatever the application does: `OneHolder`, `RepliesMatchCallbacks`, `EventsArmed`, and the refinement `KeepsLifecycle` |
| `connections_fair` | base 4, bodies up to 3 bytes, limit 5, 2 messages, 2 connections, correct framing; 1 redis connection, 3 contexts, 2 callback objects; fair | 61 thousand | `OutputBounded`, `KeepsChannel` (and with it `FramesIntact`, which it implies), `NothingLost`, `SentDelivered`; commands are called back (`ServedCommandCompletes`), lost connections come back (`Reconnects`) |
| `stream_any` | base 4, bodies up to 2 bytes, bytes 0 or 2 behind the message, 3 connections of one object | 3.5 million | `TypeOK` and `ReadsInBounds`: any such input, with the rest of earlier connections |
| `stream_extra` | `send_data`, zeros behind the message | violation | `FramesIntact`, which `connector.h:54` promises |
| `stream_split` | correct framing, 1 message | violation | `WaitIsHonoured`, which `connector.h:82` promises |
| `stream_overrun` | correct framing, messages of `HalfByte` bytes | violation | `NoOverrun`, which `connector.h:115` says of `m_msg_write_len` |
| `life_clean` | 1 client, 2 accepted, 3 bufferevents, depth 3, careful application, fair | 24 thousand | `NoWild`, `LinksExact`, `ConnectAnswered`, `FailedConnectorFreed`, and no deadlock |
| `life_any` | the same objects, any application and failure | 66 thousand | `TypeOK`, `MapExact`, `OwnBufferevent` |
| `life_wild` | 1 accepted, 1 bufferevent | violation | `OnRecvMayFree`, which `listener.h:80-82` and `test_server.cc:46` rely on |
| `loop_parts` | 2 timers and events; 2 HTTP objects, 2 connections, 1 owner, a server; 3 processes and 2 stoppers; fair | 29 thousand | `EventsExact`, `LoopServes`; `ConnectionsOwned`, `AnsweredOnce`, `FreedOnceTold`, `RequestsEnd`; `OnlyOne`, `ToldLeaves` |
| `data_parts` | 4 blocks growing by 2; 3 runs for 2 fun_ids, up to 2 codes, numbers up to 2, word 16, all faults; codes of 4 characters of 2 bits, typed texts of up to 5; 3 attachments, 3 descriptors, a table of 2; 2 replies, depth 2, discard at 6; formats and argvs of 3 pieces, room for 5 characters of a conversion; a second of 3 ms, an interval of 5, a clock up to 14, 1 ms busy | 1.3 million | `BlocksConserved`, `HistoryExact`, `CodesExact`, `LayersAgree`, `CallbacksCurrent`, `RepliesExact`, `CommandsExact`, `TimerOnTime` |

Why the bounds are enough. Two redis connections and two callback objects
give every pair that could be confused: two objects in one queue, in two queues, one
running while another is created. Four contexts allow one live and one leaked per
connection. In the stream a body of two bytes is the least that can be torn, a limit
of five is exceeded by the smallest number of frames, two messages let one begin in
the bytes of another, and three connections let twice-stale state meet new bytes.
Base 4 is the least in which the three kinds of reversed length differ: of the lengths 1, 2 and
3 the reversal is too large, the smallest int, and another negative number. The bytes
`send_data` adds behind a message can make these lengths, too. In ConnLife three frames let a callback close an object
that one frame further out still uses with one in between, two accepted connectors
give the iteration an element to lose and one to go to, and three bufferevents let a
client leave two behind.

Two timers let a callback stop or delete its own timer and another one that is active in
the same turn; two events let a restart get the address just freed or the other one.
Two HTTP objects and connections let a new request take a connection's address while
the server still handles the old one. Three processes give one that holds the lock, one
that waits behind the test and one that comes later, two stoppers an outdated pid
beside a current one. Four blocks growing by two make an empty pool grow twice; three
runs let one overlap or follow two others, and with numbers up to 2 they reach the
limit, while a word of 16 wraps from the start value to 0 and nowhere else. All codes of 4 times 2 bits are tried, with 2 bits of
fun_id, 4 of unique code and 2 of sign, and all texts of up to 5 characters, valid or not; 4 bits of unique
code have each key four times. Three descriptors, of which one is beyond the table, and three attachments let
a closed number be used again inside a batch of two events, the most `setsize` allows. In two replies every
kind occurs, alone, after another and nested, cut at every byte; a buffer is
discarded after 6 bytes, in the middle of the longer ones, and depth 3 exceeds the stack.
Three pieces put every conversion between two others, behind a blank, and at either
end, and let a broken one be completed by its neighbour; the values behind them are
empty, or hold blanks, a byte 0, protocol, or ten bytes, whose length has
two digits; only the longest conversion exceeds the room. An interval of 5 in seconds of 3
carries from milliseconds to seconds or does not, by the time it begins; a clock
up to 14 has room for an interval on either side of a jump of more than a second, and
with 1 ms busy a callback crosses the end of a second.

The theorems of section 6 remove the bounds for the properties they cover.

Deadlock is checked in `redis_clean` and `life_clean`, which never stop.
The other runs stop at a bound (`MsgStream`: all messages and connections used;
`RedeemTool`: all runs used), when the program really ends (a loop that was told to, a
pool that aborted, a code that was made), or when an object was used wildly or an
assertion failed.

## 5. Fairness

*RedisConn*: `Proc` is called for ever and serves the timer and every ready
socket (the ae loop polls all descriptors in each turn), so each handler is weakly
fair per context, and so are the steps inside a handler; callbacks return; a
connection attempt is accepted or refused in the end and a server answers what it
received. Nothing is assumed of the application: it need not create, send or
destroy anything. `Reconnects` also assumes, in the property, that the servers stop
failing.

*MsgStream*: both event loops go on (`Flush`, `Arrive`), and `OnRecv` returns
(`ReadCallback`). Sending, ending and reconnecting are not fair.

*ConnLife*: a callback returns at every depth of the stack. This needs strong
fairness per depth, because deeper calls disable the return in between; it says
that an application makes finitely many calls in one callback. An attempt
to connect is decided, by success or failure (the kernel gives up after its retries);
strong fairness again, since the loop is busy with other events in between. A
connection that stands need never fail and need never be read.

*LeTimer*: the thread inside `dispatch()` runs, `OnTimer` returns, the exit event is
run, and the clock passes the deadline of an event that stays pending; the last needs
strong fairness, since the loop is not polling while it runs callbacks. Nothing is
assumed of the user; a loop whose `OnTimer` stops and restarts a timer for ever is
among the behaviours.

*HttpClient*: user callbacks return, and a request that waits is answered or timed out
(30 s), again strongly fair because of the callbacks in between. *HttpSvr* has no
fairness: the client's time-out ends a request that no server answers.

*SingleProgress*: a process that is not blocked runs, and its timer goes off. `LockTaken`
is strongly fair, which `lockf` grants (the kernel hands a free lock to a
waiter). Nobody need start, stop or die.

The parts of `data_parts` wait for nobody, and only safety is asked of them.

## 6. What is proved

All proofs are checked by TLAPS to the last leaf, for all values of the constants
under the named assumptions of the modules (distinct constants, flags that are
Booleans, natural bounds, `MAX_MSG_DATA_LEN < Base^2`).

**RedisConnProofs.** `TypeCorrect`: the type invariant, for any sets of connections,
contexts and callback objects. `CleanOwnership`: with `CleanDestroy`, `ContextOwned`,
`StateTellsContext` and `NoWildCallback` always hold. They are not inductive: that a
handler writes `m_state` of the right connection depends on what the handler is
doing. The invariant `OwnInv` adds `FlagsOK` (which flags a context of each
kind can have), `RunServes` (the running handler serves a context that exists and
is attached) and `Unshared` (two connections have no context in common).

**RedisCallbackProofs.** About callback objects, their commands and replies, for any
sets of connections, contexts and callback objects, queues of any length, any
application and any failure:

- `OneHolderAlways` (`OneHolder`). Every step is, for the holders of callback objects,
  one of five moves (created, dropped, submitted, called, returned) or none
  (`NextMoves`), and each move keeps the inductive invariant `HoldInv`. It says
  `OneHolder` of queues as sequences without repetition; the step from there to the
  cardinality the run checks is a lemma of its own.
- `LifecycleKept` (`KeepsLifecycle`): the refinement of `OptLifecycle`. Initial states map
  to initial states, and each move of a holder to the step of its abstract life,
  anything else to a stutter. It needs `HoldInv`: an object with two holders
  could be called while it is still pending, which is no abstract step.
- `EventsAlwaysArmed` (`EventsArmed`). What one step does to one context is one of a few
  things (started, left alone, commanded, marked for disconnecting, written, fetched,
  replied, served: `ContextSteps`), and each leaves a context armed that was.
- `RepliesAlwaysMatch` (`RepliesMatchCallbacks`), by the same cases. The property is not
  inductive: after the connection broke it speaks of what was received only, and
  nothing in it keeps a reply of one connection from reaching the next. `ReplyInv` adds
  that a socket not yet open has carried nothing, that a farewell of the server is all
  there is to read (both in `Flow`), that a context which does not exist has a fresh
  socket (`SocketsFresh`), and that a teardown follows an error unless no
  callback waits (`DrainTold`).
- `CleanNeverAborts` (`NoAbort`), with `CleanDestroy`: `ReplyInv`, and that only a context
  being torn down refuses commands (`ServesAll`). That an assertion of hiredis never
  fails so follows from the end-to-end order of replies.

**MsgStreamProofs.** `ReadsStayInBuffer` (`ReadsInBounds`), for any base,
message size, input and number of connections: memory behind `m_msg` is written only while
the length in the header is `HalfByte` (`OverrunAtHalfByte`), and `OnRecv` sees a length that
`m_msg` holds (`DeliveredFits`). `StreamInv` is the type invariant with both. The crux is that
state 2 reverses the length each time it is entered, so nothing relates it to
`m_msg_write_len` of the step before; the proof shows that the check made after each
reversal suffices on its own, unless the sum wraps (`ReversedNeeds`, `NeedExact`), and that
only the smallest int makes it wrap.

`SafeLengths` is the other side: with correct framing, a new object for each connection and
no body of `HalfByte` bytes, `NoOverrun` holds: nothing behind `m_msg` is ever written. The
condition is needed, as `stream_overrun` shows.

`FramesStayIntact` (`FramesIntact`) and `NothingStaysBehind` (`NothingLost`), for
correct framing (`~SendData`) and a new object for each connection (`Accepted`), as in
`connections_fair`; without either the property is false, which `stream_extra` and the
reconnect of section 7 show. Both relate the messages sent to bytes in four
places: `m_msg`, the input buffer, the wire and the evbuffer of the sender. Instead of a
recursive encoding the predicate `Lined` says that there are cut points in a
string of bytes, one after each frame, and lemmas say what becomes of them when a frame is added at
the end (`LinedSend`), the end is lost (`LinedCut`) or the first frame is
delivered (`LinedNext`). The invariant `FrameInv` says that the receiver is in one of
five phases: `Down`; `InOrder`, where the bytes of `m_msg` with those still coming are the
frames of the messages not yet delivered; `Swapped`, the same with the length reversed, after an
odd number of pieces of a body; `AtRecv`, where the bytes still coming are those frames; and
`Wild`, while a message of `HalfByte` bytes is the next one. For every other length
the next read of a body that was torn can only disconnect, since its length is bad once
reversed again (a length has half the digits of an int); for `HalfByte` bytes it
goes on, and the phases `InOrder` and `Swapped` alternate until the message is complete, or the input
too long. So a torn body costs the connection, delays its message or ends in `Wild`, but
a wrong message is not delivered before that.

`FramesStayIntact` therefore speaks of the time before `Wild`; with `SafeLengths` that is
all the time when no body has `HalfByte` bytes.

`ChannelKept` (`KeepsChannel`): the refinement of `MsgChannel`, under the same assumptions.
`Write` maps to `Send`, the two ways to go down and a rejected length to `Close`, `Reconnect` to
`Reopen`, the completion of a body to `Deliver`, an overrun to `Break`, what comes after it to
`AfterBreak`, everything else to a stutter. That the
message delivered is the next one follows from `FrameInv` on both sides of the step: it
was appended to `got`, and `got` is still the beginning of `sent`.

`OutputStaysBounded`: the output buffer exceeds the limit by at most
one frame. `StreamTypeCorrect`: the type invariant.

**ConnLifeProofs.** For every application: `LifeTypeCorrect`; `MapStaysExact`: the
map holds exactly the connectors that exist; `BuffereventsStayOwned`: an object frees
only its own bufferevent, once. `LifeInv` adds that objects which are gone have no members
set and that a bufferevent in use has an owner. For a careful application (no
`CloseBusy`, no `ReconnectEarly`, no connect that fails at once): `NothingWild`,
`NothingStray` and `UpIsTrue`, for any number of objects and any depth of the
stack. The invariant `SafeInv` says of the stack (`FramesOK`) that objects of frames
that will use them exist, and that a frame that will destroy its object is the last
to use it; and (`Reported`) that a failed bufferevent has an `OnError` frame of its
owner, which is what keeps `IsConnect` explained until `DisConnect` runs.

**LeTimerProofs.** `EventsStayExact` (from `EventsStayOwned` and `StoppedStaysSilent`, its two
halves) and `LoopTimerStaysArmed` (the step part of `LoopServes`), for any number of timers and events. The inductive
invariant adds `Linked`: the event a timer names exists and calls that timer, the
converse of `EventsOwned`; without it nothing says that the event `StartTimer` or the
destructor frees is not that of another timer.

**HttpSvrProofs.** For any number of objects, connections and owners, when an object is
used for one request and owners outlive their requests (`Use`): `PointersStayGood`
(`ConnectionsOwned`), `AnswersStaySingle` (`AnsweredOnce`) and `DeletedAfterTold`
(`FreedOnceTold`). The invariant joins both sides. The client's part (`ClientsOK`,
`RunningTold`, `WaitingOK`) says which members an object has before, during and after its
request, and that only the object whose callback runs was told anything. The server's
part ties each request to `m_tmp_req`. Neither holds alone: that a new request does
not take a connection on which an old one is still handled is known from the server,
and that an answer finds its client from the pointers of the client.

**UtilityProofs.** `OnlyOneAlways`: a process is admitted exactly while the kernel
keeps the lock for it, from which uniqueness follows; the test (`F_TEST`) plays no
part in the argument, only `F_LOCK` does.

`BlocksStayConserved`, for any set of blocks and any growth. Lemmas on
sequences without repetition give the range and length of what is appended and cut;
`GetAllocateNum` needs cardinalities, and with them that `inUse` is finite.

`HistoryStaysExact`: `HistoryExact`, for any number of runs and fun_ids, any
`Word` and `UniqueMax` the assumptions allow. Of any run, whatever others do, the
invariant says that the numbers it holds stand for codes that were written
(`NumbersStand`), which gives `NoNumberSkipped`. While no run failed or overlapped
(`faulty`), it adds that at most one works (`Alone`), and where the knowledge of each
code is, depending on how far that run has come (`CodesKnown`): in the history, in what the
run has read, or in the number it is about to save. Numbers have
their width: a lemma shows that the sum from which a run takes them wraps around only
where no number was known (`-1` of an unsigned), so that those of one run are consecutive.

`CodesStayExact`: `CodesExact`, for every width the configuration may have and texts of any length.
Three facts carry it. Text and number are one to one (`TextOfCode`, `CodeOfText`: the
position of a bit in the text is its index divided by the width of a character).
`Disguised` is a permutation of the unique codes
(`DisguiseOneToOne`): the keys send the last two bits 00, 01, 10, 11 to 11, 10, 00, 01, so the
disguise tells which key was used, and xor undoes itself. And a number whose sign is
right is put together from the segments cut out of it (`CodeBits`, `SignedIsMade`).
That a character outside the alphabet is refused hangs on the last bit of `SIGN_XOR_KEY`: the
sign of 0 is not 0, as long as there is a bit of sign, which the assumption asks for.

**AeLoopProofs.** `LayersAlwaysAgree` and `CallbacksStayCurrent`, for any number of
attachments and descriptors and any `setsize`. The invariant adds `Distinct` (two
attachments have different descriptors), `Entries` (an entry of the table in use
points to an attachment and lies below `setsize`) and `InBatch` (the loop works on a
fired event only while there is one). Most of the work is `maxfd`, the highest descriptor in use, when
entries are removed.
`TimerStaysOnTime`: `TimerOnTime`, for any length of a second, any interval and any clock.
The invariant adds `Late` (unless the clock was set in the middle, `lastTime` is the
second in which processing began, so the clock has not gone beyond that second by more
than processing took, and `te` was armed within that) and `Early` (an event armed and a
clock not set since are apart by what is left of the interval). That a clock set back
is noticed is then arithmetic: if it lies before `lastTime` the event is made due, and
if not, it lies less than a second before the time the event was armed.

**Only model-checked.** All liveness (`ServedCommandCompletes`, `Reconnects`,
`SentDelivered`, `ConnectAnswered`, `FailedConnectorFreed`, `RequestsEnd`, `ToldLeaves`,
and the liveness in `LoopServes`): TLAPS does not reach liveness under fairness. `RepliesExact`
and `CommandsExact` are about recursive data: these take induction the prover
cannot do. The types of the composed runs
(`PartsTypeOK`, `DataTypeOK`), which serve to find slips of the models. The violations.

## 7. Where the code and its documentation disagree

Four runs end in a violation; `PROJECT.json` quotes the lines.

1. `stream_extra`: `send_data` writes four bytes too many from behind the message,
   which the receiver takes for the next header.
2. `stream_split`: a body that arrives in two pieces has its length reversed twice,
   and the connection is cut; unless the length is 128.
3. `stream_overrun`: a body of 128 bytes that arrives in pieces has its length reversed to
   the smallest int, the number of bytes still to be read wraps (`connector.cc:229`), and
   all further input is read, behind `m_msg` when it is long enough.
4. `life_wild`: `conn_read_callback` uses the object after `OnRecv`, which may have
   freed it.

Met while modelling, visible in the models, without a run of their own:

- `RedisConn::Connect` keeps the context of a connect that failed at once
  (`RedisConn.cpp:60`), and `RedisAsyncCmd` accepts commands on it that are never called
  back, which `RedisConn.h:69` promises; `ServedCommandCompletes` speaks of contexts the
  loop serves;
- `~RedisConn` leaves the context's `data` pointing to the destroyed object when
  hiredis defers the disconnect (`RedisConn.cpp:26`, against `:132`); with
  `CleanDestroy = FALSE` the model reaches `"wild"`;
- `m_is_request` is tested but never set (`http.cc:134`): with `Repeats = TRUE` a second
  `Request` overwrites the pointers of the first and `ConnectionsOwned` fails;
- the result of `evhttp_make_request` is not looked at (`http.cc:208`): a refused request
  leaves an object that is never deleted and a user who is never told;
- `HttpClient` of `BaseEtcdClient` does not pass on `ConnectFail` (`etcd_client.h:22`), and
  with `OwnersGo = TRUE` an answer reaches an owner that is gone;
- a one-shot timer that has fired keeps `S_WAIT_TIME_OUT`, so `StartTimer` refuses it
  until a `StopTimer` (`timer_mgr.cc:36` against `timer_mgr.h:43`);
- a second process that passes `F_TEST` waits in `F_LOCK` instead of ending, and runs
  when the first ends (`single_progress.cpp:75` against `single_progress.hpp:61`); a
  pid read by `StopSingle` may stand for another process when it is signalled;
- codes for fun_id 0 repeat, as its line of the history is taken for the heading
  (`serialcode_parser.cc:268` against `serialcode_parser.h:3`); `NoRepeats` states the
  exception; two runs in one second write the same file (`:347`);
- a connection opened inside a batch gets the `WRITABLE` event of one closed there with
  the same descriptor (`ae.c:418`), since nothing in the loop knows which connection
  an event was fired for; `CallbacksCurrent` states what does hold;
- a message of length 0 waits for the next byte of the stream (`connector.cc:198`
  against `connector.h:82`); `NothingLost` states the exception;
- the output limit can be exceeded by one frame, since it is checked before the
  write (`connector.cc:328`); `OutputBounded` states the bound that holds;
- `free()` leaves `m_msg` and `m_msg_write_len` (`connector.cc:31-51`), so a client that
  reconnects in the middle of a message reads the new stream with the rest of the old;
- `TryReconnect` during an attempt leaks the old bufferevent, which goes on to call
  the object; after `bufferevent_socket_connect` has failed, `m_fd` is 0 and
  `m_buf_e` is kept;
- the destruction of a RedisConn with two commands outstanding can fail an assertion
  of hiredis (`async.c:327-328`); `redis_any` reaches it, and `m_new_opt` is
  leaked when hiredis refuses a command or the connection is destroyed;
- `RedisConn::RedisAsyncCmd` hands its `va_list` to `redisAsyncCommand`
  (`RedisConn.cpp:159`), which takes `...`; the function for a `va_list` is
  `redisvAsyncCommand` (`async.h:118`). A conversion in the format of an application
  does not get the argument meant for it, against `hiredis/README.md:62`: the action
  `TakeVaList` of `CommandFormat`, which ends in `"stray"`. Formats without conversions work,
  and of `RedisAsyncCmd` `CommandsExact` speaks of these only;
- a format that `redisvFormatCommand` refuses leaves `cmd` of `redisvAsyncCommand` unset, and
  it goes on with it (`async.c:636-644`); an empty format or an argc of 0 fails the
  assertion that a command has an argument;
- a format that stops inside a conversion (`"%3"`) is scanned behind its end, since `strchr`
  finds the final 0 (`hiredis.c:779`): the state `"wild"` of `CommandFormat`; a conversion
  too long for `_format` (`hiredis.c:836`) takes its argument, and all but its first two
  characters stay in the command as text;
- `processTimeEvents` reads the clock several times; one set in between is not noticed and
  can put the reconnect timer off (`ae.c:285` promises otherwise); `TimerOnTime` states the
  exception, and that a clock set back by less than a second goes unnoticed;
- a descriptor of 64 or more is not served by the loop, and the connection stays in
  `S_CONNECTIING`.

## 8. What is left out, and why

- Exhaustion of memory: the code does not survive it anywhere.
- In RedisConn: replies that are not valid redis protocol, subscriptions, monitor mode
  and `redisAsyncFree`, none of which RedisConn uses. The connect branch of
  `redisAsyncHandleRead` is unreachable, since reading is scheduled only after
  `redisAsyncHandleWrite` found the socket connected. Time passes only as "the timer
  may fire".
- In MsgStream: the other direction (the same code), and everything about objects,
  which is in ConnLife.
- In ConnLife: the bytes, which are in MsgStream; the destruction of a `Listener` or a
  `BaseConnectorMgr`, which the programs of the repository come to only after the loop
  has ended; `TryReconnect` on an accepted connector, which none of them calls; the
  write watermark; the bind and listen of `Listener::Init`, which run once before the
  loop.
- In LeTimer: the length of intervals, and signals (`RegSignal` keeps no state).
- In HttpClient and HttpSvr: urls, headers and bodies, among them the buffer of 100 KB in
  which an answer is copied (`http.cc:231`), and several servers.
- In SingleProgress: a kernel that refuses to open the lock file, which ends the
  process as `Dies` does.
- In MemPool: the memory inside the blocks, and threads: the libraries use one.
- In RedeemTool: two overlapping runs writing the history line by line at the same moment.
- In AeTimer: lists of several time events and a `timeProc` that deletes its own, as the
  project has one event that stays; how long the loop waits (`aeMain`, `aeWait`), since
  `Proc` polls without waiting.
- In ReplyReader: numbers of several digits and the reader's own functions for
  objects, and blocking calls.
- In CommandFormat: one digit, one flag and one letter stand for their classes, and the
  precision of a conversion is left out, as the code skips all of them alike; what
  `vsnprintf` prints is a number of up to two digits.
- Most of the lines of the repository are vendored (SimpleIni, jemalloc's headers, sds,
  dict, the blocking part of hiredis) or pure output; the models cover the
  project's own logic and the two vendored parts it stands on.
