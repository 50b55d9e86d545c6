---------------------------- MODULE HiredisAsync ----------------------------
(***************************************************************************)
(* The asynchronous context of the hiredis library in the copy the project *)
(* ships (redisClient/dep/hiredis/async.c) attached to its ae event loop   *)
(* (adapters/libae.h), reduced to what its client, RedisConn, can observe. *)
(*                                                                         *)
(* A context is a record; the library functions are operators that map a   *)
(* context to the context after the call.  The callbacks they make belong  *)
(* to the client and are steps of module RedisConn.                        *)
(*                                                                         *)
(* A command is identified by the callback object (Opt) passed with it, so *)
(* the output buffer, the socket and the reader hold sequences of Opt.     *)
(* Busy is the error reply a server sends, unasked, before it closes a     *)
(* connection it does not want (async.c:428-442).                          *)
(***************************************************************************)
EXTENDS Naturals, Sequences, FiniteSets

CONSTANTS
    Conn,       \* addresses of RedisConn objects
    Ctx,        \* addresses of redisAsyncContext objects
    Opt,        \* addresses of BaseCallBackOpt objects
    NULL,
    Busy        \* an unsolicited error reply

ASSUME DistinctConstants ==
    /\ NULL \notin Conn \cup Ctx \cup Opt
    /\ Busy \notin Opt

Reply == Opt \cup {Busy}

Context == [data    : Conn \cup {NULL},
            ev      : BOOLEAN,                  \* redisAeAttach was called
            polled  : BOOLEAN,                  \* the fd fits into the ae loop
            mask    : SUBSET {"R", "W"},        \* ev.reading, ev.writing
            flags   : SUBSET {"CONNECTED", "DISCONNECTING"},
            err     : BOOLEAN,
            replies : Seq(Opt),                 \* callbacks that wait for a reply
            obuf    : Seq(Opt),                 \* commands not yet written
            reader  : Seq(Reply)]               \* replies read, not yet handled

\* The socket of a context: what the kernel and the server do with it.
Socket == [st   : {"connecting", "open", "eof", "error"},
           sent : Seq(Opt),                     \* written, not yet answered
           recv : Seq(Reply)]                   \* answers not yet read

\* redisAsyncInitialize: all fields cleared.
FreshContext == [data |-> NULL, ev |-> FALSE, polled |-> FALSE, mask |-> {},
                 flags |-> {}, err |-> FALSE,
                 replies |-> <<>>, obuf |-> <<>>, reader |-> <<>>]

FreshSocket == [st |-> "connecting", sent |-> <<>>, recv |-> <<>>]

-----------------------------------------------------------------------------
\* _EL_ADD_READ, _EL_ADD_WRITE: without an attached event loop they do nothing.
Arm(a, e) == IF a.ev THEN [a EXCEPT !.mask = @ \cup {e}] ELSE a

\* What redisAsyncConnect returns when the connect call itself fails.
FailedContext == [FreshContext EXCEPT !.err = TRUE]

\* A context after redisAsyncConnect, the assignment of data, redisAeAttach and
\* redisAsyncSetConnectCallback; fits says whether the descriptor is below the
\* size of the event loop (aeCreateFileEvent fails otherwise, unnoticed).
AttachedContext(c, fits) ==
    Arm([FreshContext EXCEPT !.data = c, !.ev = TRUE, !.polled = fits], "W")

\* redisAsyncCommand refuses commands on a context that is going away.
Refuses(a) == "DISCONNECTING" \in a.flags

\* Mutants: the callback is queued in front, not queued, the write not scheduled.
AsyncCommandInFront(a, o) ==
    Arm([a EXCEPT !.replies = <<o>> \o @, !.obuf = Append(@, o)], "W")
AsyncCommandNoCallback(a, o) == Arm([a EXCEPT !.obuf = Append(@, o)], "W")
AsyncCommandUnarmed(a, o) ==
    [a EXCEPT !.replies = Append(@, o), !.obuf = Append(@, o)]

AsyncCommand(a, o) ==
    Arm([a EXCEPT !.replies = Append(@, o), !.obuf = Append(@, o)], "W")

\* redisAsyncDisconnect, the part that is done at once.
MarkDisconnecting(a) == [a EXCEPT !.flags = @ \cup {"DISCONNECTING"}]

\* An I/O error was met: c->err is set and __redisAsyncDisconnect follows.
Failed(a) == MarkDisconnecting([a EXCEPT !.err = TRUE])

\* __redisShiftCallback
ShiftCallback(a) == [a EXCEPT !.replies = Tail(@)]

\* Mutant: a partial write is taken for a complete one.
WrittenDisarms(a, k) ==
    [a EXCEPT !.obuf = SubSeq(@, k + 1, Len(@)), !.mask = (@ \ {"W"}) \cup {"R"}]

\* The first k commands of the output buffer reach the socket; the write event
\* stays registered until all are written, and reading is (re)scheduled.
Written(a, k) ==
    [a EXCEPT !.obuf = SubSeq(@, k + 1, Len(@)),
              !.mask = (IF k = Len(a.obuf) THEN @ \ {"W"} ELSE @) \cup {"R"}]

\* redisBufferRead moves a prefix of the received replies to the reader.
ReadIn(a, s, k) ==
    Arm([a EXCEPT !.reader = @ \o SubSeq(s.recv, 1, k)], "R")

\* The event loop calls a handler only for a registered, ready descriptor.
Writable(a, s) == a.polled /\ "W" \in a.mask /\ s.st # "connecting"
Readable(a, s) == /\ a.polled /\ "R" \in a.mask
                  /\ s.recv # <<>> \/ s.st \in {"eof", "error"}

-----------------------------------------------------------------------------
(***************************************************************************)
(* External: the network and the redis server at the other end.            *)
(***************************************************************************)
LetIn(s)      == [s EXCEPT !.st = "open"]
TurnedAway(s) == [s EXCEPT !.st = "eof", !.recv = <<Busy>>]
Closed(s)     == [s EXCEPT !.st = "eof"]
Broken(s)     == [s EXCEPT !.st = "error"]
Answered(s)   == [s EXCEPT !.sent = Tail(@), !.recv = Append(@, Head(s.sent))]
=============================================================================
