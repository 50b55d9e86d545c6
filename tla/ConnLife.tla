------------------------------ MODULE ConnLife ------------------------------
(***************************************************************************)
(* The life of connection objects (lib_prj/connector.cc, listener.cc,      *)
(* listener.h) in the thread that runs the libevent loop: clients that     *)
(* connect and reconnect, connectors made by a Listener and owned by a     *)
(* BaseConnectorMgr, and the bufferevents they hold.                       *)
(*                                                                         *)
(* The library calls the application back in the middle of its functions,  *)
(* and the application may call the library again from there, so the call  *)
(* stack is part of the state: a frame stands for a function of the        *)
(* library that waits for a callback to return.  What the function does    *)
(* after that is the step Return of its frame; if it uses an object that   *)
(* no longer exists, the step sets wild and the execution ends.            *)
(***************************************************************************)
EXTENDS Naturals, Sequences

CONSTANTS
    Client,            \* objects of classes derived from BaseConnect
    Accepted,          \* objects of classes derived from ListenerConnector
    Bev,               \* bufferevent objects
    NULL,
    CloseBusy,         \* the application closes or destroys an object that a
                       \* frame on the stack will use again
    ReconnectEarly,    \* the application calls TryReconnect while an attempt
                       \* to connect is under way, or from OnError
    FailAtOnce,        \* how bufferevent_socket_connect may fail at once:
                       \* "quiet", or "eventcb" after running the event callback
    MaxDepth           \* bound: frames when the application is called

Obj == Client \cup Accepted

ASSUME LifeAssumption ==
    /\ Client \cap Accepted = {} /\ NULL \notin Obj \cup Bev
    /\ CloseBusy \in BOOLEAN /\ ReconnectEarly \in BOOLEAN
    /\ FailAtOnce \subseteq {"quiet", "eventcb"}
    /\ MaxDepth \in Nat

VARIABLES
    obj,    \* the objects: whether they exist, and their members
    all,    \* BaseConnectorMgr::m_all_connector, an object standing for its id
    bev,    \* the bufferevents
    stack,  \* the call stack, innermost frame first
    wild    \* an object was used after its destruction

vars == <<obj, all, bev, stack, wild>>

-----------------------------------------------------------------------------
Members == [alive  : BOOLEAN,
            addr   : BOOLEAN,            \* m_addr.sin_port # 0
            fd     : BOOLEAN,            \* m_fd # 0
            buf    : Bev \cup {NULL},    \* m_buf_e
            up     : BOOLEAN,            \* m_is_connect
            ignore : BOOLEAN]            \* m_ignore_free

Fresh == [alive |-> TRUE, addr |-> FALSE, fd |-> FALSE, buf |-> NULL,
          up |-> FALSE, ignore |-> FALSE]
Gone == [Fresh EXCEPT !.alive = FALSE]

(* A bufferevent that has failed reports nothing more until it is freed.   *)
Link == [st : {"none", "connecting", "connected", "failed"},
         owner : Obj \cup {NULL}]
NoLink == [st |-> "none", owner |-> NULL]

(***************************************************************************)
(* Frames.  at is the callback that is running, except for "connecting":   *)
(* ConnectByAddr inside bufferevent_socket_connect.  todo: the objects     *)
(* that ForeachConnector has still to visit.                               *)
(***************************************************************************)
Callback == {"OnConnected", "OnRecv", "OnError", "on_disconnected", "Foreach"}
Frame == [at : Callback \cup {"connecting"}, o : Obj, todo : SUBSET Accepted]
At(f, o) == [at |-> f, o |-> o, todo |-> {}]

Push(f) == stack' = <<f>> \o stack
Top(f) == stack # << >> /\ Head(stack).at = f
Alive(o) == obj[o].alive
LinksOf(o) == {b \in Bev : bev[b].st # "none" /\ bev[b].owner = o}
OnStack(o) == \E i \in DOMAIN stack : stack[i].o = o

(* The function of a frame will use the object again.                      *)
Uses(f) == \/ f.at \in {"OnRecv", "OnError", "Foreach", "connecting"}
           \/ f.at = "on_disconnected" /\ f.o \in Accepted
Busy(o) == \E i \in DOMAIN stack : stack[i].o = o /\ Uses(stack[i])

AppTurn == ~wild /\ (stack # << >> => Head(stack).at \in Callback)
CanCall == AppTurn /\ Len(stack) < MaxDepth

Init ==
    /\ obj = [o \in Obj |-> Gone]
    /\ all = {}
    /\ bev = [b \in Bev |-> NoLink]
    /\ stack = << >>
    /\ wild = FALSE

-----------------------------------------------------------------------------
(* Pieces of functions: the new value of obj and bev.                      *)

FreedKeepsBuf(x) == [x EXCEPT !.fd = FALSE, !.up = FALSE]
Freed(x) == [x EXCEPT !.buf = NULL, !.fd = FALSE, !.up = FALSE]
UnlinkedNever(o) == bev
Unlinked(o) == [b \in Bev |-> IF b = obj[o].buf THEN NoLink ELSE bev[b]]

(* DisConnect: free(), then on_disconnected(), which ListenerConnector     *)
(* overrides to hold back FreeSelf meanwhile.  under: the rest of the      *)
(* stack.                                                                  *)
DisConnectFrom(o, under) ==
    /\ obj' = [obj EXCEPT ![o] = [Freed(obj[o]) EXCEPT
                                    !.ignore = @ \/ o \in Accepted]]
    /\ bev' = Unlinked(o)
    /\ stack' = <<At("on_disconnected", o)>> \o under
    /\ UNCHANGED <<all, wild>>

(* delete o: ~BaseConnect calls free().                                    *)
Deleted(o) ==
    /\ obj' = [obj EXCEPT ![o] = Gone]
    /\ bev' = Unlinked(o)

GoesWild ==
    /\ wild' = TRUE /\ stack' = << >>
    /\ UNCHANGED <<obj, all, bev>>

-----------------------------------------------------------------------------
(* Calls of the application, from the event loop's outside or a callback.  *)

Unused(o) == ~Alive(o) /\ LinksOf(o) = {} /\ ~OnStack(o)

NewClient(o) ==
    /\ AppTurn /\ o \in Client /\ Unused(o)
    /\ obj' = [obj EXCEPT ![o] = Fresh]
    /\ UNCHANGED <<all, bev, stack, wild>>

(***************************************************************************)
(* socket() may fail, and leaves m_fd at -1; else a new bufferevent is     *)
(* stored in m_buf_e, whatever was there, and connects in the background   *)
(* or fails at once.                                                       *)
(***************************************************************************)
ConnectByAddr(o) ==
    \/ /\ obj' = [obj EXCEPT ![o].addr = TRUE, ![o].fd = TRUE]
       /\ UNCHANGED <<bev, stack>>
    \/ \E b \in Bev :
         /\ bev[b].st = "none"
         /\ \/ /\ obj' = [obj EXCEPT ![o] = [@ EXCEPT
                              !.addr = TRUE, !.fd = TRUE, !.buf = b]]
               /\ bev' = [bev EXCEPT ![b] = [st |-> "connecting", owner |-> o]]
               /\ UNCHANGED stack
            \/ /\ "quiet" \in FailAtOnce
               /\ obj' = [obj EXCEPT ![o] = [@ EXCEPT
                              !.addr = TRUE, !.fd = FALSE, !.buf = b]]
               /\ bev' = [bev EXCEPT ![b] = [st |-> "failed", owner |-> o]]
               /\ UNCHANGED stack
            \/ /\ "eventcb" \in FailAtOnce
               /\ obj' = [obj EXCEPT ![o] = [@ EXCEPT
                              !.addr = TRUE, !.fd = TRUE, !.buf = b]]
               /\ bev' = [bev EXCEPT ![b] = [st |-> "failed", owner |-> o]]
               /\ stack' = <<At("OnError", o), At("connecting", o)>> \o stack

ConnectInit(o) ==
    /\ CanCall /\ o \in Client /\ Alive(o) /\ ~obj[o].fd
    /\ ConnectByAddr(o)
    /\ UNCHANGED <<all, wild>>

Connecting(o) == \E b \in LinksOf(o) : bev[b].st = "connecting"

TryReconnect(o) ==
    /\ CanCall /\ o \in Client /\ Alive(o) /\ ~obj[o].up /\ obj[o].addr
    /\ LinksOf(o) # {} => ReconnectEarly
    /\ ConnectByAddr(o)
    /\ UNCHANGED <<all, wild>>

(* DisConnect itself, and send_data when too many bytes wait to be sent.   *)
DisConnect(o) ==
    /\ CanCall /\ Alive(o)
    /\ (o \in Accepted /\ Busy(o)) => CloseBusy
    /\ DisConnectFrom(o, stack)

DeleteClient(o) ==
    /\ AppTurn /\ o \in Client /\ Alive(o)
    /\ Busy(o) => CloseBusy
    /\ Deleted(o)
    /\ UNCHANGED <<all, stack, wild>>

CloseConnectKeepsEntry(o) ==
    /\ AppTurn /\ o \in all /\ Alive(o)
    /\ Busy(o) => CloseBusy
    /\ Deleted(o)
    /\ UNCHANGED <<all, stack, wild>>

CloseConnect(o) ==
    /\ AppTurn /\ o \in all
    /\ Busy(o) => CloseBusy
    /\ all' = all \ {o}
    /\ Deleted(o)
    /\ UNCHANGED <<stack, wild>>

FreeSelfUnguarded(o) ==
    /\ AppTurn /\ o \in all
    /\ Busy(o) /\ ~obj[o].ignore => CloseBusy
    /\ all' = all \ {o}
    /\ Deleted(o)
    /\ UNCHANGED <<stack, wild>>

FreeSelf(o) ==
    /\ AppTurn /\ o \in all /\ ~obj[o].ignore
    /\ Busy(o) => CloseBusy
    /\ all' = all \ {o}
    /\ Deleted(o)
    /\ UNCHANGED <<stack, wild>>

Foreach(o) ==
    /\ CanCall /\ o \in all
    /\ Push([At("Foreach", o) EXCEPT !.todo = all \ {o}])
    /\ UNCHANGED <<obj, all, bev, wild>>

-----------------------------------------------------------------------------
(* Events: libevent runs one callback at a time, from the loop.            *)

AtLoop == ~wild /\ stack = << >>

(* The key of a connector in m_all_connector: the id its constructor drew. *)
MapKeyUnset(o) == NULL
MapKey(o) == o

(* listener_cb: CreateConnectForListener, AcceptInit, OnConnected.         *)
Accept(o, b) ==
    /\ AtLoop /\ o \in Accepted /\ Unused(o) /\ bev[b].st = "none"
    /\ obj' = [obj EXCEPT ![o] = [Fresh EXCEPT
                   !.addr = TRUE, !.fd = TRUE, !.buf = b, !.up = TRUE]]
    /\ all' = all \cup {MapKey(o)}
    /\ bev' = [bev EXCEPT ![b] = [st |-> "connected", owner |-> o]]
    /\ Push(At("OnConnected", o))
    /\ UNCHANGED wild

(* BEV_EVENT_CONNECTED.                                                    *)
LinkUpUnseen(b) ==
    /\ AtLoop /\ bev[b].st = "connecting"
    /\ bev' = [bev EXCEPT ![b].st = "connected"]
    /\ LET o == bev[b].owner IN
       \/ ~Alive(o) /\ wild' = TRUE /\ UNCHANGED <<obj, all, stack>>
       \/ Alive(o) /\ UNCHANGED <<obj, all, stack, wild>>

LinkUp(b) ==
    /\ AtLoop /\ bev[b].st = "connecting"
    /\ bev' = [bev EXCEPT ![b].st = "connected"]
    /\ LET o == bev[b].owner IN
       \/ ~Alive(o) /\ wild' = TRUE /\ UNCHANGED <<obj, all, stack>>
       \/ /\ Alive(o)
          /\ obj' = [obj EXCEPT ![o].up = TRUE]
          /\ Push(At("OnConnected", o))
          /\ UNCHANGED <<all, wild>>

(* Any other event: refused, closed, reset, timed out.                     *)
LinkFails(b) ==
    /\ AtLoop /\ bev[b].st \in {"connecting", "connected"}
    /\ bev' = [bev EXCEPT ![b].st = "failed"]
    /\ LET o == bev[b].owner IN
       \/ ~Alive(o) /\ wild' = TRUE /\ UNCHANGED <<obj, all, stack>>
       \/ /\ Alive(o)
          /\ Push(At("OnError", o))
          /\ UNCHANGED <<obj, all, wild>>

(* conn_read_callback: a complete message, or a bad length.                *)
Readable(b) ==
    /\ AtLoop /\ bev[b].st = "connected"
    /\ LET o == bev[b].owner IN
       \/ ~Alive(o) /\ GoesWild
       \/ /\ Alive(o)
          /\ Push(At("OnRecv", o))
          /\ UNCHANGED <<obj, all, bev, wild>>
       \/ Alive(o) /\ DisConnectFrom(o, << >>)

-----------------------------------------------------------------------------
(* A callback returns and the function that called it goes on.             *)

Pop == stack' = Tail(stack)

(* conn_event_callback and BaseAcceptInit do nothing after OnConnected.    *)
OnConnectedReturns ==
    /\ ~wild /\ Top("OnConnected") /\ Pop
    /\ UNCHANGED <<obj, all, bev, wild>>

(* m_msg is reset, and the loop ends, goes on to the next message (which   *)
(* leaves the state as it is), or meets a bad length.                      *)
OnRecvReturns ==
    /\ ~wild /\ Top("OnRecv")
    /\ LET o == Head(stack).o IN
       \/ ~Alive(o) /\ GoesWild
       \/ Alive(o) /\ Pop /\ UNCHANGED <<obj, all, bev, wild>>
       \/ Alive(o) /\ DisConnectFrom(o, Tail(stack))

OnErrorReturns ==
    /\ ~wild /\ Top("OnError")
    /\ LET o == Head(stack).o IN
       \/ ~Alive(o) /\ GoesWild
       \/ Alive(o) /\ DisConnectFrom(o, Tail(stack))

(* DisConnect and its callers do nothing after on_disconnected, but        *)
(* ListenerConnector::on_disconnected calls FreeSelf.                      *)
OnDisconnectedReturnsKeeping ==
    /\ ~wild /\ Top("on_disconnected")
    /\ LET o == Head(stack).o IN
       \/ o \in Client /\ Pop /\ UNCHANGED <<obj, all, bev, wild>>
       \/ o \in Accepted /\ ~Alive(o) /\ GoesWild
       \/ /\ o \in Accepted /\ Alive(o)
          /\ obj' = [obj EXCEPT ![o].ignore = FALSE]
          /\ Pop
          /\ UNCHANGED <<all, bev, wild>>

OnDisconnectedReturns ==
    /\ ~wild /\ Top("on_disconnected")
    /\ LET o == Head(stack).o IN
       \/ o \in Client /\ Pop /\ UNCHANGED <<obj, all, bev, wild>>
       \/ o \in Accepted /\ ~Alive(o) /\ GoesWild
       \/ /\ o \in Accepted /\ Alive(o)
          /\ all' = all \ {o}
          /\ Deleted(o)
          /\ Pop
          /\ UNCHANGED wild

(* The map iterator is advanced, which its element must have survived.     *)
ForeachReturns ==
    /\ ~wild /\ Top("Foreach")
    /\ LET o == Head(stack).o
           rest == Head(stack).todo \cap all
       IN  \/ o \notin all /\ GoesWild
           \/ /\ o \in all
              /\ \/ /\ rest = {}
                    /\ Pop
                 \/ \E n \in rest :
                      stack' = <<[At("Foreach", n) EXCEPT !.todo = rest \ {n}]>>
                                  \o Tail(stack)
              /\ UNCHANGED <<obj, all, bev, wild>>

(* bufferevent_socket_connect has failed: ConnectByAddr resets m_fd.       *)
ConnectReturns ==
    /\ ~wild /\ Top("connecting")
    /\ LET o == Head(stack).o IN
       \/ ~Alive(o) /\ GoesWild
       \/ /\ Alive(o)
          /\ obj' = [obj EXCEPT ![o].fd = FALSE]
          /\ Pop
          /\ UNCHANGED <<all, bev, wild>>

-----------------------------------------------------------------------------
Application ==
    \E o \in Obj :
        \/ NewClient(o) \/ ConnectInit(o) \/ TryReconnect(o) \/ DisConnect(o)
        \/ DeleteClient(o) \/ CloseConnect(o) \/ FreeSelf(o) \/ Foreach(o)

Event ==
    \E b \in Bev :
        \/ \E o \in Obj : Accept(o, b)
        \/ LinkUp(b) \/ LinkFails(b) \/ Readable(b)

Return ==
    \/ OnConnectedReturns \/ OnRecvReturns \/ OnErrorReturns
    \/ OnDisconnectedReturns \/ ForeachReturns \/ ConnectReturns

Next == Application \/ Event \/ Return

Spec == Init /\ [][Next]_vars

(***************************************************************************)
(* Every callback returns after finitely many calls, at whatever depth of  *)
(* the stack it runs; the kernel gives up an attempt to connect after its  *)
(* retries; and the loop comes to every event that is ready, whatever the  *)
(* application does between two events.                                    *)
(***************************************************************************)
FairSpec ==
    /\ Spec
    /\ \A n \in 1 .. MaxDepth + 2 : SF_vars(Len(stack) = n /\ Return)
    /\ \A b \in Bev :
         SF_vars(bev[b].st = "connecting" /\ (LinkUp(b) \/ LinkFails(b)))

-----------------------------------------------------------------------------
TypeOK ==
    /\ obj \in [Obj -> Members]
    /\ all \subseteq Accepted
    /\ bev \in [Bev -> Link]
    /\ stack \in Seq(Frame)
    /\ wild \in BOOLEAN

(* Nothing in the library uses a connection object that was destroyed.     *)
NoWild == ~wild

(* The map of a BaseConnectorMgr holds exactly the connectors that exist,  *)
(* so that CloseConnect deletes each of them once and none is leaked.      *)
MapExact == ~wild => all = {o \in Accepted : Alive(o)}

(* m_buf_e of an object never points to a bufferevent that was freed or    *)
(* belongs to another object: free() frees its own, and each once.         *)
OwnBufferevent ==
    ~wild => \A o \in Obj : obj[o].buf # NULL =>
                 bev[obj[o].buf].st # "none" /\ bev[obj[o].buf].owner = o

(* A connection that is open, or being opened, is the one of an object     *)
(* that exists and holds it: to close it, delete the object                *)
(* (connector.h:48).                                                       *)
NoStrayLink ==
    \A b \in Bev : bev[b].st # "none" =>
        Alive(bev[b].owner) /\ obj[bev[b].owner].buf = b

(* IsConnect tells the truth: the object can send, and its bufferevent is  *)
(* connected, or has just failed and OnError is about to end it.           *)
UpMeansLink ==
    \A o \in Obj : obj[o].up =>
        /\ obj[o].fd /\ obj[o].buf # NULL
        /\ \/ bev[obj[o].buf].st = "connected"
           \/ bev[obj[o].buf].st = "failed" /\ OnStack(o)

(* Connections and objects belong to each other one to one, and IsConnect  *)
(* says of each object what its connection is.                             *)
LinksExact == NoStrayLink /\ UpMeansLink

(* A request to connect that was accepted is answered by OnConnected or    *)
(* on_disconnected, unless the object is deleted (connector.h:66).         *)
ConnectAnswered ==
    \A o \in Client :
        Connecting(o) ~> \/ Top("OnConnected") /\ Head(stack).o = o
                         \/ Top("on_disconnected") /\ Head(stack).o = o
                         \/ ~Alive(o)

(* A connector whose connection has failed is destroyed.                   *)
FailedConnectorFreed ==
    \A o \in Accepted :
        (\E b \in LinksOf(o) : bev[b].st = "failed") ~> ~Alive(o)

-----------------------------------------------------------------------------
(* OnRecv may free its own object, as the server in test_server.cc does    *)
(* (line 46) and the comment on FreeSelf allows (listener.h:80-82): what   *)
(* the library does after OnRecv does not use the object then.             *)
OnRecvMayFree == [][Top("OnRecv") => ~wild']_vars
=============================================================================
