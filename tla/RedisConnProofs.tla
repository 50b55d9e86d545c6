--------------------------- MODULE RedisConnProofs ---------------------------
(***************************************************************************)
(* Theorems about RedisConn: its types, and for an application that        *)
(* destroys connections cleanly the agreement of connections and contexts. *)
(***************************************************************************)
EXTENDS RedisConn, SequenceTheorems, TLAPS

USE DistinctConstants, ConfigAssumption

-----------------------------------------------------------------------------
(* The library functions map contexts to contexts.                         *)

LEMMA FreshType == FreshContext \in Context /\ FailedContext \in Context
                   /\ FreshSocket \in Socket
<1>1. <<>> \in Seq(Opt) /\ <<>> \in Seq(Reply)
  OBVIOUS
<1>2. FreshContext \in Context
  BY <1>1 DEF FreshContext, Context
<1>3. FailedContext \in Context
  BY <1>2 DEF FailedContext, Context
<1>4. FreshSocket \in Socket
  BY <1>1 DEF FreshSocket, Socket
<1> QED
  BY <1>2, <1>3, <1>4

LEMMA ArmType ==
  ASSUME NEW a \in Context, NEW e \in {"R", "W"}
  PROVE  Arm(a, e) \in Context
  BY DEF Arm, Context

LEMMA AttachedType ==
  ASSUME NEW c \in Conn, NEW fits \in BOOLEAN
  PROVE  AttachedContext(c, fits) \in Context
<1> DEFINE a == [FreshContext EXCEPT !.data = c, !.ev = TRUE, !.polled = fits]
<1>1. a \in Context
  BY FreshType DEF Context
<1> QED
  BY <1>1, ArmType DEF AttachedContext

LEMMA CommandType ==
  ASSUME NEW a \in Context, NEW o \in Opt
  PROVE  AsyncCommand(a, o) \in Context
<1> DEFINE b == [a EXCEPT !.replies = Append(@, o), !.obuf = Append(@, o)]
<1>1. Append(a.replies, o) \in Seq(Opt) /\ Append(a.obuf, o) \in Seq(Opt)
  BY DEF Context
<1>2. b \in Context
  BY <1>1 DEF Context
<1> QED
  BY <1>2, ArmType DEF AsyncCommand

LEMMA FlagType ==
  ASSUME NEW a \in Context
  PROVE  MarkDisconnecting(a) \in Context /\ Failed(a) \in Context
  BY DEF MarkDisconnecting, Failed, Context

LEMMA ShiftType ==
  ASSUME NEW a \in Context, a.replies # <<>>
  PROVE  ShiftCallback(a) \in Context /\ Head(a.replies) \in Opt
<1>1. a.replies \in Seq(Opt)
  BY DEF Context
<1>2. Head(a.replies) \in Opt /\ Tail(a.replies) \in Seq(Opt)
  BY <1>1
<1> QED
  BY <1>2 DEF ShiftCallback, Context

LEMMA WrittenType ==
  ASSUME NEW a \in Context, NEW k \in 0 .. Len(a.obuf)
  PROVE  Written(a, k) \in Context /\ SubSeq(a.obuf, 1, k) \in Seq(Opt)
<1>1. SubSeq(a.obuf, k + 1, Len(a.obuf)) \in Seq(Opt) /\ SubSeq(a.obuf, 1, k) \in Seq(Opt)
  BY SubSeqProperties DEF Context
<1> QED
  BY <1>1 DEF Written, Context

LEMMA ReadInType ==
  ASSUME NEW a \in Context, NEW s \in Socket, NEW k \in 1 .. Len(s.recv)
  PROVE  ReadIn(a, s, k) \in Context /\ SubSeq(s.recv, k + 1, Len(s.recv)) \in Seq(Reply)
<1>1. SubSeq(s.recv, 1, k) \in Seq(Reply) /\ SubSeq(s.recv, k + 1, Len(s.recv)) \in Seq(Reply)
  BY SubSeqProperties DEF Socket
<1>2. a.reader \o SubSeq(s.recv, 1, k) \in Seq(Reply)
  BY <1>1, ConcatProperties DEF Context
<1>3. [a EXCEPT !.reader = @ \o SubSeq(s.recv, 1, k)] \in Context
  BY <1>2 DEF Context
<1> QED
  BY <1>1, <1>3, ArmType DEF ReadIn
-----------------------------------------------------------------------------
(* Type correctness.  The handler that runs works on an existing context.  *)

RunOK ==
    /\ run.pc \in {"process", "drain", "callback"} => run.ctx \in heap
    /\ run.pc = "callback" => run.opt \in Opt /\ run.from \in {"process", "drain"}

TypeInv == TypeOK /\ RunOK

LEMMA AtType ==
  ASSUME NEW pc \in {"process", "drain", "wild", "abort"}, NEW x \in Ctx
  PROVE  At(pc, x) \in Control /\ At(pc, x).pc = pc /\ At(pc, x).ctx = x
         /\ Idle \in Control /\ Idle.pc = "idle"
  BY DEF At, Idle, Control

\* Connect, for TimerCb and InitConn.
LEMMA ConnectType ==
  ASSUME TypeInv, NEW m \in [Conn -> Members], NEW S \in SUBSET Conn, Connect(m, S)
  PROVE  TypeInv'
<1> DEFINE T == Connectable(m, S)
<1>1. PICK new \in [T -> Ctx \ heap], started \in SUBSET T, fits \in SUBSET T :
        ConnectEach(m, T, new, started, fits)
  BY DEF Connect
<1>2. T \subseteq Conn
  BY DEF Connectable
<1>2a. \A c \in T : new[c] \in Ctx
  BY <1>1
<1> HIDE DEF T
<1>3. heap' \subseteq Ctx /\ heap \subseteq heap'
  <2>1. {new[c] : c \in T} \subseteq Ctx
    BY <1>2a
  <2>2. heap' = heap \cup {new[c] : c \in T}
    BY <1>1 DEF ConnectEach
  <2>3. heap \subseteq Ctx
    BY DEF TypeInv, TypeOK
  <2> QED
    BY <2>1, <2>2, <2>3
<1>4. rc' \in [Conn -> Members]
  <2>1. SUFFICES ASSUME NEW c \in Conn PROVE rc'[c] \in Members
    BY <1>1 DEF ConnectEach
  <2>2. rc'[c] \in {m[c], [m[c] EXCEPT !.ctx = new[c]],
                    [m[c] EXCEPT !.ctx = new[c], !.state = "S_CONNECTIING"]}
    BY <1>1 DEF ConnectEach
  <2>3. m[c] \in Members
    OBVIOUS
  <2>4. CASE c \in T
    BY <2>2, <2>3, <2>4, <1>2a DEF Members
  <2>5. CASE c \notin T
    BY <1>1, <2>3, <2>5 DEF ConnectEach
  <2> QED
    BY <2>4, <2>5
<1>5. ac' \in [Ctx -> Context]
  <2>1. SUFFICES ASSUME NEW x \in Ctx PROVE ac'[x] \in Context
    BY <1>1 DEF ConnectEach
  <2>2. CASE \E c \in T : new[c] = x
    <3> DEFINE c == CHOOSE d \in T : new[d] = x
    <3>1. c \in T
      BY <2>2
    <3>2. c \in Conn
      BY <3>1, <1>2
    <3> HIDE DEF c
    <3>3. ac'[x] = IF c \in started THEN AttachedContext(c, c \in fits) ELSE FailedContext
      BY <1>1, <2>2 DEF ConnectEach, c
    <3>4. (c \in fits) \in BOOLEAN
      OBVIOUS
    <3>5. AttachedContext(c, c \in fits) \in Context
      BY <3>2, <3>4, AttachedType
    <3> QED
      BY <3>3, <3>5, FreshType
  <2>3. CASE ~\E c \in T : new[c] = x
    BY <1>1, <2>3 DEF ConnectEach, TypeInv, TypeOK
  <2> QED
    BY <2>2, <2>3
<1> QED
  BY <1>1, <1>3, <1>4, <1>5 DEF TypeInv, TypeOK, RunOK, ConnectEach

LEMMA LetGoType ==
  ASSUME NEW f \in [Conn -> Members]
  PROVE  \A c \in Conn : [f EXCEPT ![c].state = "S_INIT", ![c].ctx = NULL] \in [Conn -> Members]
  BY DEF Members

\* Types are preserved by every step.
LEMMA TypeStep ==
  ASSUME TypeInv, [Next]_vars
  PROVE  TypeInv'
<1> USE DEF TypeInv, TypeOK, RunOK
<1>1. ASSUME MgrInit PROVE TypeInv'
  BY <1>1 DEF MgrInit
<1>2. ASSUME NEW c \in Conn, NewConn(c) PROVE TypeInv'
  <2>1. FreshMembers \in Members
    BY DEF FreshMembers, Members
  <2>2. rc' \in [Conn -> Members] /\ conns' \subseteq Conn
    BY <1>2, <2>1 DEF NewConn
  <2> QED
    BY <1>2, <2>2 DEF NewConn
<1>3. ASSUME NEW c \in Conn, InitConn(c) PROVE TypeInv'
  <2>1. [rc EXCEPT ![c].port = TRUE] \in [Conn -> Members]
    <3>1. rc \in [Conn -> Members] /\ rc[c] \in Members
      OBVIOUS
    <3> HIDE DEF TypeInv, TypeOK, RunOK
    <3>2. [rc[c] EXCEPT !.port = TRUE] \in Members
      BY <3>1 DEF Members
    <3> QED
      BY <3>1, <3>2
  <2>2. {c} \in SUBSET Conn /\ Connect([rc EXCEPT ![c].port = TRUE], {c})
    BY <1>3 DEF InitConn
  <2>3. TypeInv
    OBVIOUS
  <2> HIDE DEF TypeInv, TypeOK, RunOK
  <2> QED
    BY ONLY <2>1, <2>2, <2>3, ConnectType
<1>4. ASSUME NEW c \in Conn, CreateOpt(c) PROVE TypeInv'
  <2>1. PICK o \in Opt \ alloc : /\ alloc' = (alloc \ {rc[c].opt}) \cup {o}
                                /\ rc' = [rc EXCEPT ![c].opt = o]
    BY <1>4 DEF CreateOpt
  <2>2. rc' \in [Conn -> Members] /\ alloc' \subseteq Opt
    BY <2>1 DEF Members
  <2> QED
    BY <1>4, <2>2 DEF CreateOpt
<1>5. ASSUME NEW c \in Conn, RedisAsyncCmd(c) PROVE TypeInv'
  <2>1. rc[c] \in Members /\ rc[c].ctx \in Ctx /\ rc[c].opt \in Opt
    BY <1>5 DEF RedisAsyncCmd, Members
  <2>2. ac' \in [Ctx -> Context]
    BY <1>5, <2>1, CommandType DEF RedisAsyncCmd
  <2>3. rc' \in [Conn -> Members]
    BY <1>5, <2>1 DEF RedisAsyncCmd, Members
  <2> QED
    BY <1>5, <2>2, <2>3 DEF RedisAsyncCmd
<1>6. ASSUME NEW c \in Conn, Destroy(c) PROVE TypeInv'
  <2> DEFINE x == rc[c].ctx
             later == x # NULL /\ (InCallback(x) \/ ac[x].replies # <<>>)
             now == IF x = NULL \/ later THEN {} ELSE {x}
  <2>1. /\ run.pc \in {"idle", "callback"}
        /\ conns' = conns \ {c} /\ rc' = [rc EXCEPT ![c] = FreshMembers]
        /\ heap' = heap \ now
        /\ ac' = [y \in Ctx |-> IF y \in now THEN FreshContext
                                ELSE IF later /\ y = x THEN MarkDisconnecting(ac[y])
                                ELSE ac[y]]
        /\ sock' = [y \in Ctx |-> IF y \in now THEN FreshSocket ELSE sock[y]]
        /\ UNCHANGED <<loop, alloc, run>>
    BY <1>6 DEF Destroy, AppTurn
  <2>2. rc' \in [Conn -> Members]
    BY <2>1 DEF FreshMembers, Members
  <2>3. ac' \in [Ctx -> Context] /\ sock' \in [Ctx -> Socket]
    BY <2>1, FreshType, FlagType
  <2>4. run.pc = "callback" => run.ctx \notin now
    BY DEF InCallback
  <2> QED
    BY <2>1, <2>2, <2>3, <2>4
<1>7. ASSUME TimerCb PROVE TypeInv'
  BY <1>7, ConnectType DEF TimerCb
<1>8. ASSUME NEW x \in Ctx, HandleConnectFailed(x) PROVE TypeInv'
  <2>1. ac' \in [Ctx -> Context] /\ rc' \in [Conn -> Members]
    BY <1>8, FlagType DEF HandleConnectFailed, ConnectCallback, Members
  <2>2. CASE ac[x].data \in conns
    <3>1. run' = At("drain", x)
      BY <1>8, <2>2 DEF HandleConnectFailed
    <3> QED
      BY <1>8, <2>1, <3>1, AtType DEF HandleConnectFailed
  <2>3. CASE ac[x].data \notin conns
    <3>1. run' = At("wild", x)
      BY <1>8, <2>3 DEF HandleConnectFailed
    <3> QED
      BY <1>8, <2>1, <3>1, AtType DEF HandleConnectFailed
  <2> QED
    BY <2>2, <2>3
<1>9. ASSUME NEW x \in Ctx, HandleWrite(x) PROVE TypeInv'
  <2> DEFINE a == [ac[x] EXCEPT !.flags = @ \cup {"CONNECTED"}]
  <2>1. a \in Context
    <3>1. ac[x] \in Context /\ ac[x].flags \cup {"CONNECTED"} \in SUBSET {"CONNECTED", "DISCONNECTING"}
      BY DEF Context
    <3> QED
      BY <3>1 DEF Context
  <2>2. rc' \in [Conn -> Members]
    BY <1>9 DEF HandleWrite, ConnectCallback, Members
  <2>3. CASE run' = At("wild", x) /\ UNCHANGED <<ac, sock>>
    BY <1>9, <2>2, <2>3, AtType DEF HandleWrite
  <2>4. CASE ac' = [ac EXCEPT ![x] = Failed(a)] /\ run' = At("drain", x) /\ UNCHANGED sock
    BY <1>9, <2>1, <2>2, <2>4, FlagType, AtType DEF HandleWrite
  <2>5. ASSUME NEW k \in 0 .. Len(a.obuf), ac' = [ac EXCEPT ![x] = Written(a, k)],
               sock' = [sock EXCEPT ![x].sent = @ \o SubSeq(a.obuf, 1, k)],
               UNCHANGED run
        PROVE  TypeInv'
    <3>1. Written(a, k) \in Context /\ SubSeq(a.obuf, 1, k) \in Seq(Opt)
      BY <2>1, WrittenType
    <3>2. sock[x].sent \o SubSeq(a.obuf, 1, k) \in Seq(Opt)
      BY <3>1, ConcatProperties DEF Socket
    <3>3. sock' \in [Ctx -> Socket]
      BY <2>5, <3>2 DEF Socket
    <3>4. ac' \in [Ctx -> Context]
      BY <2>5, <3>1
    <3> QED
      BY <1>9, <2>2, <2>5, <3>3, <3>4 DEF HandleWrite
  <2>6. Len(a.obuf) \in Nat
    BY <2>1 DEF Context
  <2>7. \A k \in IF a.obuf = <<>> THEN {0} ELSE 1 .. Len(a.obuf) : k \in 0 .. Len(a.obuf)
    BY <2>6
  <2> QED
    BY <1>9, <2>3, <2>4, <2>5, <2>7 DEF HandleWrite
<1>10. ASSUME NEW x \in Ctx, HandleRead(x) PROVE TypeInv'
  <2>1. ASSUME NEW k \in 1 .. Len(sock[x].recv), ac' = [ac EXCEPT ![x] = ReadIn(@, sock[x], k)],
               sock' = [sock EXCEPT ![x].recv = SubSeq(@, k + 1, Len(@))],
               run' = At("process", x)
        PROVE  TypeInv'
    <3>1. ReadIn(ac[x], sock[x], k) \in Context
          /\ SubSeq(sock[x].recv, k + 1, Len(sock[x].recv)) \in Seq(Reply)
      BY <2>1, ReadInType
    <3>2. sock' \in [Ctx -> Socket]
      BY <2>1, <3>1 DEF Socket
    <3>3. ac' \in [Ctx -> Context]
      BY <2>1, <3>1
    <3> QED
      BY <1>10, <2>1, <3>2, <3>3, AtType DEF HandleRead
  <2>2. CASE ac' = [ac EXCEPT ![x] = Failed(@)] /\ run' = At("drain", x) /\ UNCHANGED sock
    BY <1>10, <2>2, FlagType, AtType DEF HandleRead
  <2> QED
    BY <1>10, <2>1, <2>2 DEF HandleRead
<1>11. ASSUME ProcessReply PROVE TypeInv'
  <2> DEFINE x == run.ctx
             a == [ac[x] EXCEPT !.reader = Tail(@)]
  <2>1. x \in Ctx /\ ac[x] \in Context /\ ac[x].reader \in Seq(Reply) /\ ac[x].reader # <<>>
    BY <1>11 DEF ProcessReply, Context
  <2>2. Tail(ac[x].reader) \in Seq(Reply)
    BY <2>1
  <2>3. a \in Context
    BY <2>1, <2>2 DEF Context
  <2> HIDE DEF a
  <2>4. CASE a.replies # <<>>
    <3>1. ac' = [ac EXCEPT ![x] = ShiftCallback(a)]
          /\ run' = [pc |-> "callback", ctx |-> x, opt |-> Head(a.replies), from |-> "process"]
      BY <1>11, <2>4 DEF ProcessReply, RunCallback, a
    <3>2. ac' \in [Ctx -> Context] /\ Head(a.replies) \in Opt
      BY <2>1, <2>3, <2>4, <3>1, ShiftType
    <3>3. run' \in Control
      BY <2>1, <3>1, <3>2 DEF Control
    <3> QED
      BY <1>11, <3>1, <3>2, <3>3 DEF ProcessReply
  <2>5. CASE a.replies = <<>>
    BY <1>11, <2>1, <2>3, <2>5, FlagType, AtType DEF ProcessReply, a
  <2> QED
    BY <2>4, <2>5
<1>12. ASSUME NoMoreReplies PROVE TypeInv'
  <2>1. run.ctx \in Ctx
    BY <1>12 DEF NoMoreReplies
  <2> QED
    BY <1>12, <2>1, AtType DEF NoMoreReplies
<1>13. ASSUME DrainReply PROVE TypeInv'
  <2> DEFINE x == run.ctx
  <2>1. x \in Ctx /\ ac[x] \in Context /\ ac[x].replies # <<>>
    BY <1>13 DEF DrainReply
  <2>2. ac' = [ac EXCEPT ![x] = ShiftCallback(ac[x])]
        /\ run' = [pc |-> "callback", ctx |-> x, opt |-> Head(ac[x].replies), from |-> "drain"]
    BY <1>13 DEF DrainReply, RunCallback
  <2>3. ac' \in [Ctx -> Context] /\ Head(ac[x].replies) \in Opt
    BY <2>1, <2>2, ShiftType
  <2>4. run' \in Control
    BY <2>1, <2>2, <2>3 DEF Control
  <2> QED
    BY <1>13, <2>2, <2>3, <2>4 DEF DrainReply
<1>14. ASSUME FinishFree PROVE TypeInv'
  <2>1. run.ctx \in Ctx
    BY <1>14 DEF FinishFree
  <2>2. rc' \in [Conn -> Members]
    <3>1. rc' = rc \/ \E c \in Conn : rc' = [rc EXCEPT ![c].state = "S_INIT", ![c].ctx = NULL]
      BY <1>14 DEF FinishFree, DisconnectCallback
    <3>2. rc \in [Conn -> Members]
      OBVIOUS
    <3>3. ASSUME NEW c \in Conn, rc' = [rc EXCEPT ![c].state = "S_INIT", ![c].ctx = NULL]
          PROVE  rc' \in [Conn -> Members]
      <4>1. [rc EXCEPT ![c].state = "S_INIT", ![c].ctx = NULL] \in [Conn -> Members]
        BY <3>2, LetGoType
      <4> QED
        BY <3>3, <4>1, Zenon
    <3> QED
      BY <3>1, <3>2, <3>3, Zenon
  <2>3. ac' \in [Ctx -> Context] /\ sock' \in [Ctx -> Socket] /\ heap' \subseteq Ctx
    BY <1>14, <2>1, FreshType DEF FinishFree
  <2>4. run' = At("wild", run.ctx) \/ run' = Idle
    BY <1>14 DEF FinishFree
  <2>5. run' \in Control /\ run'.pc \in {"idle", "wild"}
    BY <2>1, <2>4, AtType
  <2> QED
    BY <1>14, <2>2, <2>3, <2>5 DEF FinishFree
<1>15. ASSUME CallbackReturn PROVE TypeInv'
  <2>1. run.ctx \in Ctx
    BY <1>15 DEF CallbackReturn
  <2> QED
    BY <1>15, <2>1, AtType DEF CallbackReturn
<1>16. ASSUME NEW x \in Ctx, NEW s \in Socket, NEW guard \in BOOLEAN, Net(x, guard, s)
       PROVE  TypeInv'
  BY <1>16 DEF Net
<1>17. ASSUME Network PROVE TypeInv'
  <2>1. PICK x \in Ctx : \/ NetAccept(x) \/ NetAnswer(x) \/ NetRefuse(x)
                         \/ NetBusy(x) \/ NetClose(x) \/ NetReset(x)
    BY <1>17 DEF Network, NetFails
  <2>2. /\ LetIn(sock[x]) \in Socket /\ Broken(sock[x]) \in Socket
        /\ Closed(sock[x]) \in Socket
    BY DEF LetIn, Broken, Closed, Socket
  <2>3. TurnedAway(sock[x]) \in Socket
    <3>1. <<Busy>> \in Seq(Reply)
      BY DEF Reply
    <3> QED
      BY <3>1 DEF TurnedAway, Socket
  <2>4. sock[x].sent # <<>> => Answered(sock[x]) \in Socket
    <3>1. SUFFICES ASSUME sock[x].sent # <<>> PROVE Answered(sock[x]) \in Socket
      OBVIOUS
    <3>2. sock[x].sent \in Seq(Opt) /\ sock[x].recv \in Seq(Reply)
      BY DEF Socket
    <3>3. Head(sock[x].sent) \in Reply /\ Tail(sock[x].sent) \in Seq(Opt)
      BY <3>1, <3>2 DEF Reply
    <3>4. Append(sock[x].recv, Head(sock[x].sent)) \in Seq(Reply)
      BY <3>2, <3>3
    <3> QED
      BY <3>3, <3>4 DEF Answered, Socket
  <2> QED
    BY <2>1, <2>2, <2>3, <2>4
       DEF Net, NetAccept, NetAnswer, NetRefuse, NetBusy, NetClose, NetReset
<1>18. ASSUME UNCHANGED vars PROVE TypeInv'
  BY <1>18 DEF vars
<1> QED
  BY <1>1, <1>2, <1>3, <1>4, <1>5, <1>6, <1>7, <1>8, <1>9, <1>10, <1>11, <1>12, <1>13,
     <1>14, <1>15, <1>17, <1>18 DEF Next, Application, Handler

LEMMA InitType == Init => TypeInv
<1>1. FreshMembers \in Members
  BY DEF FreshMembers, Members
<1>2. Idle \in Control /\ Idle.pc = "idle"
  BY DEF Idle, At, Control
<1> QED
  BY <1>1, <1>2, FreshType DEF Init, TypeInv, TypeOK, RunOK

\* Every reachable state of RedisConn, for all constants, is of its type.
THEOREM TypeCorrect == Spec => []TypeOK
<1>1. Init => TypeInv
  BY InitType
<1>2. TypeInv /\ [Next]_vars => TypeInv'
  BY TypeStep
<1>3. TypeInv => TypeOK
  BY DEF TypeInv
<1> QED
  BY <1>1, <1>2, <1>3, PTL DEF Spec

-----------------------------------------------------------------------------
(***************************************************************************)
(* Ownership.  For an application that destroys connections cleanly,       *)
(* contexts and connections point to each other and m_state agrees.  The   *)
(* inductive invariant adds to these properties what the flags of one      *)
(* context say about each other, that a handler works on an attached       *)
(* context, connected if it reads, and that no two connections share one.  *)
(***************************************************************************)

FlagsOK == \A x \in Ctx :
    /\ ac[x].polled => ac[x].ev
    /\ "R" \in ac[x].mask => "CONNECTED" \in ac[x].flags
    /\ "CONNECTED" \in ac[x].flags => ac[x].ev

Reading == run.pc \in {"process", "abort"} \/ (run.pc = "callback" /\ run.from = "process")

RunServes ==
    /\ Reading => "CONNECTED" \in ac[run.ctx].flags
    /\ run.pc # "idle" => run.ctx \in Ctx /\ ac[run.ctx].ev
    /\ run.pc = "idle" => run = Idle

Unshared == \A c, d \in conns : rc[c].ctx = rc[d].ctx => c = d \/ rc[c].ctx = NULL

OwnInv ==
    /\ TypeInv /\ FlagsOK /\ RunServes /\ Unshared
    /\ ContextOwned /\ StateTellsContext /\ NoWildCallback

\* b differs from a only in parts that ownership does not depend on.
SameCore(a, b) ==
    /\ b.data = a.data /\ b.ev = a.ev /\ b.polled = a.polled
    /\ "CONNECTED" \in b.flags <=> "CONNECTED" \in a.flags
    /\ "R" \in b.mask => "R" \in a.mask \/ "CONNECTED" \in a.flags

LEMMA CommandCore ==
  ASSUME NEW a \in Context, NEW o \in Opt
  PROVE  SameCore(a, AsyncCommand(a, o))
  BY DEF SameCore, AsyncCommand, Arm, Context

LEMMA FlagCore ==
  ASSUME NEW a \in Context
  PROVE  SameCore(a, MarkDisconnecting(a)) /\ SameCore(a, Failed(a))
  BY DEF SameCore, MarkDisconnecting, Failed, Context

LEMMA ShiftCore ==
  ASSUME NEW a \in Context
  PROVE  SameCore(a, ShiftCallback(a))
  BY DEF SameCore, ShiftCallback, Context

LEMMA WrittenCore ==
  ASSUME NEW a \in Context, NEW k, "CONNECTED" \in a.flags
  PROVE  SameCore(a, Written(a, k))
  BY DEF SameCore, Written, Context

LEMMA ReadInCore ==
  ASSUME NEW a \in Context, NEW s, NEW k, "CONNECTED" \in a.flags
  PROVE  SameCore(a, ReadIn(a, s, k))
  BY DEF SameCore, ReadIn, Arm, Context

\* Steps that change neither the set of objects nor the links between them.
LEMMA OwnFrame ==
  ASSUME OwnInv, TypeInv', RunServes', NoWildCallback',
         UNCHANGED <<conns, heap>>,
         \A c \in Conn : rc'[c].ctx = rc[c].ctx /\ rc'[c].state = rc[c].state,
         \A x \in Ctx : SameCore(ac[x], ac'[x]),
         \A x \in heap : LetGo(x)' <=> LetGo(x)
  PROVE  OwnInv'
<1> USE DEF OwnInv, TypeInv, TypeOK
<1>1. FlagsOK'
  BY DEF FlagsOK, SameCore
<1>2. Unshared'
  BY DEF Unshared
<1>3. \A c \in conns : rc[c].ctx \in Ctx \cup {NULL}
  BY DEF Members
<1>4. ContextOwned'
  <2>1. ASSUME NEW x \in heap', ac'[x].ev, ~LetGo(x)'
        PROVE  ac'[x].data \in conns' /\ rc'[ac'[x].data].ctx = x
    BY <2>1 DEF ContextOwned, SameCore
  <2>2. ASSUME NEW c \in conns', NEW x \in Ctx, rc'[c].ctx = x
        PROVE  x \in heap' /\ (ac'[x].ev => ac'[x].data = c /\ ~LetGo(x)')
    <3>1. c \in conns /\ c \in Conn /\ rc[c].ctx = x
      BY <2>2
    <3>2. x \in heap /\ (ac[x].ev => ac[x].data = c /\ ~LetGo(x))
      BY <3>1 DEF ContextOwned
    <3> QED
      BY <3>2 DEF SameCore
  <2> QED
    BY <2>1, <2>2 DEF ContextOwned
<1>5. StateTellsContext'
  BY <1>3 DEF StateTellsContext, SameCore
<1> QED
  BY <1>1, <1>2, <1>4, <1>5

\* A pointer m_pAeContext is NULL or to a context.
LEMMA CtxType ==
  ASSUME TypeInv
  PROVE  \A c \in Conn : rc[c] \in Members /\ rc[c].ctx \in Ctx \cup {NULL}
  BY DEF TypeInv, TypeOK, Members

\* The calls of the application that touch no links.
LEMMA OwnApplication ==
  ASSUME OwnInv, TypeInv',
         \/ MgrInit \/ UNCHANGED vars
         \/ \E c \in Conn : CreateOpt(c) \/ RedisAsyncCmd(c)
  PROVE  OwnInv'
<1> USE DEF OwnInv
<1>1. UNCHANGED <<conns, heap, run>>
  BY DEF MgrInit, CreateOpt, RedisAsyncCmd, vars
<1>2. \A d \in Conn : rc'[d].ctx = rc[d].ctx /\ rc'[d].state = rc[d].state
  BY CtxType DEF MgrInit, CreateOpt, RedisAsyncCmd, vars, TypeInv, TypeOK, Members
<1>3. \A x \in Ctx : SameCore(ac[x], ac'[x])
  <2>1. CASE UNCHANGED ac
    BY <2>1 DEF SameCore
  <2>2. ASSUME NEW c \in Conn, RedisAsyncCmd(c), ~UNCHANGED ac
        PROVE  \A x \in Ctx : SameCore(ac[x], ac'[x])
    <3>1. rc[c].ctx \in Ctx /\ rc[c].opt \in Opt
      BY <2>2, CtxType DEF RedisAsyncCmd, Members
    <3>2. ac' = [ac EXCEPT ![rc[c].ctx] = AsyncCommand(@, rc[c].opt)]
      BY <2>2 DEF RedisAsyncCmd
    <3> QED
      BY <3>1, <3>2, CommandCore DEF SameCore, TypeInv, TypeOK
  <2> QED
    BY <2>1, <2>2 DEF MgrInit, CreateOpt, RedisAsyncCmd, vars
<1>4. RunServes'
  BY <1>1, <1>3 DEF RunServes, Reading, SameCore, TypeInv, RunOK
<1>5. \A x \in heap : LetGo(x)' <=> LetGo(x)
  BY <1>1, <1>3 DEF LetGo, SameCore, TypeInv, TypeOK
<1>6. NoWildCallback'
  BY <1>1 DEF NoWildCallback
<1> QED
  BY <1>1, <1>2, <1>3, <1>4, <1>5, <1>6, OwnFrame

LEMMA OwnNewConn ==
  ASSUME OwnInv, TypeInv', NEW c \in Conn, NewConn(c)
  PROVE  OwnInv'
<1> USE DEF OwnInv, TypeInv, TypeOK
<1>1. /\ c \notin conns /\ conns' = conns \cup {c}
      /\ rc' = [rc EXCEPT ![c] = FreshMembers]
      /\ UNCHANGED <<heap, ac, run>>
  BY DEF NewConn
<1>2. rc'[c].ctx = NULL /\ rc'[c].state = "S_INIT"
  BY <1>1 DEF FreshMembers
<1>3. \A d \in conns : d # c /\ rc'[d] = rc[d]
  BY <1>1
<1>4. FlagsOK' /\ RunServes' /\ NoWildCallback'
  BY <1>1 DEF FlagsOK, RunServes, Reading, NoWildCallback, Idle, At
<1>5. Unshared'
  BY <1>1, <1>2, <1>3 DEF Unshared
<1>6. \A x \in Ctx : LetGo(x)' <=> LetGo(x)
  BY <1>1 DEF LetGo
<1>7. ContextOwned'
  <2>1. \A x \in heap' : ac'[x].ev /\ ~LetGo(x)' =>
           ac'[x].data \in conns' /\ rc'[ac'[x].data].ctx = x
    BY <1>1, <1>3, <1>6 DEF ContextOwned
  <2>2. \A d \in conns', x \in Ctx : rc'[d].ctx = x =>
           x \in heap' /\ (ac'[x].ev => ac'[x].data = d /\ ~LetGo(x)')
    BY <1>1, <1>2, <1>3, <1>6 DEF ContextOwned
  <2> QED
    BY <2>1, <2>2 DEF ContextOwned
<1>8. StateTellsContext'
  BY <1>1, <1>2, <1>3 DEF StateTellsContext
<1> QED
  BY <1>4, <1>5, <1>7, <1>8

\* ~RedisConn of a clean application frees the context, or has none.
LEMMA OwnDestroy ==
  ASSUME CleanDestroy, OwnInv, TypeInv', NEW c \in Conn, Destroy(c)
  PROVE  OwnInv'
<1> USE DEF OwnInv, TypeInv, TypeOK
<1> DEFINE x == rc[c].ctx
           now == IF x = NULL THEN {} ELSE {x}
<1>1. /\ c \in conns /\ conns' = conns \ {c}
      /\ rc' = [rc EXCEPT ![c] = FreshMembers]
      /\ heap' = heap \ now
      /\ ac' = [y \in Ctx |-> IF y \in now THEN FreshContext ELSE ac[y]]
      /\ run' = run /\ run.pc \in {"idle", "callback"}
      /\ x # NULL => ~InCallback(x)
  BY DEF Destroy, AppTurn
<1>2. \A d \in conns' : d \in conns /\ d # c /\ d \in Conn /\ rc'[d] = rc[d]
  BY <1>1
<1>3. run.pc = "callback" => run.ctx \in heap /\ run.ctx \notin now
  BY <1>1 DEF RunOK, InCallback
<1>4. \A y \in Ctx : y \notin now => ac'[y] = ac[y] /\ (LetGo(y)' <=> LetGo(y))
  BY <1>1 DEF LetGo
<1>5. \A d \in conns' : rc[d].ctx \notin now
  BY <1>1, <1>2 DEF Unshared
<1>6. FlagsOK'
  BY <1>1 DEF FlagsOK, FreshContext
<1>7. RunServes' /\ NoWildCallback'
  <2>1. CASE run.pc = "idle"
    BY <1>1, <2>1 DEF RunServes, Reading, NoWildCallback, Idle, At
  <2>2. CASE run.pc = "callback"
    <3>1. run.ctx \in Ctx /\ ac'[run.ctx] = ac[run.ctx]
      BY <1>3, <1>4, <2>2
    <3> QED
      BY <1>1, <2>2, <3>1 DEF RunServes, Reading, NoWildCallback
  <2> QED
    BY <1>1, <2>1, <2>2
<1>8. Unshared'
  BY <1>2 DEF Unshared
<1>9. ContextOwned'
  <2>1. ASSUME NEW y \in heap', ac'[y].ev, ~LetGo(y)'
        PROVE  ac'[y].data \in conns' /\ rc'[ac'[y].data].ctx = y
    <3>1. y \in heap /\ y \in Ctx /\ y \notin now
      BY <1>1, <2>1
    <3>2. ac'[y] = ac[y] /\ ~LetGo(y) /\ ac[y].ev
      BY <1>4, <2>1, <3>1
    <3>3. ac[y].data \in conns /\ rc[ac[y].data].ctx = y
      BY <3>1, <3>2 DEF ContextOwned
    <3>4. ac[y].data # c
      BY <3>1, <3>3
    <3> QED
      BY <1>1, <1>2, <3>2, <3>3, <3>4
  <2>2. ASSUME NEW d \in conns', NEW y \in Ctx, rc'[d].ctx = y
        PROVE  y \in heap' /\ (ac'[y].ev => ac'[y].data = d /\ ~LetGo(y)')
    <3>1. d \in conns /\ rc[d].ctx = y /\ y \notin now
      BY <1>2, <1>5, <2>2
    <3>2. y \in heap /\ (ac[y].ev => ac[y].data = d /\ ~LetGo(y))
      BY <3>1 DEF ContextOwned
    <3> QED
      BY <1>1, <1>4, <3>1, <3>2
  <2> QED
    BY <2>1, <2>2 DEF ContextOwned
<1>10. StateTellsContext'
  <2>1. ASSUME NEW d \in conns' PROVE rc'[d] = rc[d] /\ (rc[d].ctx # NULL => ac'[rc[d].ctx] = ac[rc[d].ctx])
    BY <1>2, <1>4, <1>5, <2>1, CtxType
  <2> QED
    BY <1>2, <2>1 DEF StateTellsContext
<1> QED
  BY <1>6, <1>7, <1>8, <1>9, <1>10

\* Connect gives up only contexts that failed; the new ones are the connections' own.
LEMMA OwnConnect ==
  ASSUME OwnInv, TypeInv', AppTurn, NEW m \in [Conn -> Members], NEW S \in SUBSET conns, Connect(m, S),
         \A c \in Conn : m[c].ctx = rc[c].ctx /\ m[c].state = rc[c].state
  PROVE  OwnInv'
<1> USE DEF OwnInv, TypeInv, TypeOK
<1> DEFINE T == Connectable(m, S)
<1>1. PICK new \in [T -> Ctx \ heap], started \in SUBSET T, fits \in SUBSET T :
        /\ \A c, d \in T : new[c] = new[d] => c = d
        /\ ConnectEach(m, T, new, started, fits)
  BY DEF Connect
<1>2. T \subseteq conns /\ \A c \in T : c \in Conn /\ rc[c].state = "S_INIT"
  BY DEF Connectable
<1>3. \A c \in T : new[c] \in Ctx /\ new[c] \notin heap
  BY <1>1
<1> HIDE DEF T
<1>4. /\ heap' = heap \cup {new[c] : c \in T}
      /\ UNCHANGED <<loop, conns, alloc, sock, run>>
  BY <1>1 DEF ConnectEach
<1>5. \A c \in Conn \ T : rc'[c].ctx = rc[c].ctx /\ rc'[c].state = rc[c].state
  BY <1>1 DEF ConnectEach
<1>6. \A c \in T : /\ rc'[c].ctx = new[c]
                   /\ rc'[c].state = IF c \in started THEN "S_CONNECTIING" ELSE "S_INIT"
  <2>1. SUFFICES ASSUME NEW c \in T
                 PROVE  /\ rc'[c].ctx = new[c]
                        /\ rc'[c].state = IF c \in started THEN "S_CONNECTIING" ELSE "S_INIT"
    OBVIOUS
  <2>2. c \in Conn /\ m[c] \in Members /\ m[c].state = "S_INIT"
    BY <1>2
  <2>3. rc'[c] = IF c \in started
                 THEN [m[c] EXCEPT !.ctx = new[c], !.state = "S_CONNECTIING"]
                 ELSE [m[c] EXCEPT !.ctx = new[c]]
    BY <1>1, <2>2 DEF ConnectEach
  <2> QED
    BY <2>2, <2>3 DEF Members
<1>7. \A x \in heap : ac'[x] = ac[x]
  <2>1. SUFFICES ASSUME NEW x \in heap PROVE ac'[x] = ac[x]
    OBVIOUS
  <2>2. x \in Ctx /\ ~\E c \in T : new[c] = x
    BY <1>3
  <2> QED
    BY <1>1, <2>2 DEF ConnectEach
<1>8. \A c \in T : ac'[new[c]] = IF c \in started THEN AttachedContext(c, c \in fits)
                                                  ELSE FailedContext
  <2>1. SUFFICES ASSUME NEW c \in T
                 PROVE  ac'[new[c]] = IF c \in started THEN AttachedContext(c, c \in fits)
                                                       ELSE FailedContext
    OBVIOUS
  <2>2. (CHOOSE d \in T : new[d] = new[c]) = c
    BY <1>1
  <2> QED
    BY <1>1, <1>3, <2>2 DEF ConnectEach
<1>9. \A c \in T : /\ ac'[new[c]].data = IF c \in started THEN c ELSE NULL
                   /\ ac'[new[c]].ev <=> c \in started
                   /\ ac'[new[c]].polled => ac'[new[c]].ev
                   /\ "R" \notin ac'[new[c]].mask
                   /\ "CONNECTED" \notin ac'[new[c]].flags
  <2>1. \A f : \A c \in Conn :
                           /\ AttachedContext(c, f).data = c /\ AttachedContext(c, f).ev = TRUE
                           /\ AttachedContext(c, f).mask = {"W"}
                           /\ AttachedContext(c, f).flags = {}
    BY DEF AttachedContext, FreshContext, Arm
  <2>2. /\ FailedContext.data = NULL /\ FailedContext.ev = FALSE /\ FailedContext.flags = {}
        /\ FailedContext.mask = {} /\ FailedContext.polled = FALSE
    BY DEF FailedContext, FreshContext
  <2>3. TAKE c \in T
  <2>4. CASE c \in started
    <3>1. PICK f : ac'[new[c]] = AttachedContext(c, f)
      BY <1>8, <2>4
    <3>2. c \in Conn
      BY <1>2
    <3> QED
      BY <2>1, <2>4, <3>1, <3>2
  <2>5. CASE c \notin started
    <3>1. ac'[new[c]] = FailedContext
      BY <1>8, <2>5
    <3> QED
      BY <2>2, <2>5, <3>1
  <2> QED
    BY <2>4, <2>5
<1>11. FlagsOK'
  <2>1. SUFFICES ASSUME NEW x \in Ctx
                 PROVE  /\ ac'[x].polled => ac'[x].ev
                        /\ "R" \in ac'[x].mask => "CONNECTED" \in ac'[x].flags
                        /\ "CONNECTED" \in ac'[x].flags => ac'[x].ev
    BY DEF FlagsOK
  <2>2. CASE \E c \in T : new[c] = x
    <3>1. PICK c \in T : new[c] = x
      BY <2>2
    <3> QED
      BY <1>9, <3>1
  <2>3. CASE ~\E c \in T : new[c] = x
    <3>1. ac'[x] = ac[x]
      BY <1>1, <2>3 DEF ConnectEach
    <3> QED
      BY <3>1 DEF FlagsOK
  <2> QED
    BY <2>2, <2>3
<1>12. RunServes' /\ NoWildCallback'
  <2>1. run.pc \in {"process", "drain", "callback"} => ac'[run.ctx] = ac[run.ctx]
    BY <1>7 DEF RunOK
  <2>2. run.pc \in {"idle", "callback"}
    BY DEF AppTurn
  <2> QED
    BY <1>4, <2>1, <2>2 DEF RunServes, Reading, NoWildCallback, Idle, At
<1>13. \A c \in conns \ T : rc[c].ctx # NULL => rc[c].ctx \in heap
  BY CtxType DEF ContextOwned
<1>14. Unshared'
  <2>1. SUFFICES ASSUME NEW c \in conns, NEW d \in conns, rc'[c].ctx = rc'[d].ctx, c # d
                 PROVE  rc'[c].ctx = NULL
    BY <1>4 DEF Unshared
  <2>2. CASE c \in T /\ d \in T
    BY <1>1, <1>6, <2>1, <2>2
  <2>3. CASE c \notin T /\ d \notin T
    BY <1>5, <2>1, <2>3 DEF Unshared
  <2>4. CASE (c \in T) # (d \in T)
    BY <1>3, <1>5, <1>6, <1>13, <2>1, <2>4
  <2> QED
    BY <2>2, <2>3, <2>4
<1>15. \A x \in heap : LetGo(x)' <=> LetGo(x)
  BY <1>4, <1>7 DEF LetGo
<1>16. \A c \in T : ~LetGo(new[c])'
  <2>1. SUFFICES ASSUME NEW c \in T PROVE run.ctx # new[c] \/ run.pc = "idle"
    BY <1>4 DEF LetGo
  <2> QED
    BY <1>3 DEF RunOK, AppTurn
<1>17. ContextOwned'
  <2>1. ASSUME NEW x \in heap', ac'[x].ev, ~LetGo(x)'
        PROVE  ac'[x].data \in conns' /\ rc'[ac'[x].data].ctx = x
    <3>1. CASE x \in heap
      <4>1. ac'[x] = ac[x] /\ ac[x].data \in conns /\ rc[ac[x].data].ctx = x
        BY <1>7, <1>15, <2>1, <3>1 DEF ContextOwned
      <4>2. x # NULL
        BY <3>1
      <4>3. rc[ac[x].data].state # "S_INIT"
        BY <1>7, <2>1, <3>1, <4>1, <4>2 DEF StateTellsContext
      <4>4. ac[x].data \in Conn \ T
        BY <1>2, <4>1, <4>3
      <4> QED
        BY <1>4, <1>5, <4>1, <4>4
    <3>2. CASE x \notin heap
      <4>1. PICK c \in T : new[c] = x
        BY <1>4, <2>1, <3>2
      <4> QED
        BY <1>2, <1>4, <1>6, <1>9, <2>1, <4>1
    <3> QED
      BY <3>1, <3>2
  <2>2. ASSUME NEW d \in conns', NEW x \in Ctx, rc'[d].ctx = x
        PROVE  x \in heap' /\ (ac'[x].ev => ac'[x].data = d /\ ~LetGo(x)')
    <3>1. CASE d \in T
      <4>1. x = new[d]
        BY <1>6, <2>2, <3>1
      <4>2. ~LetGo(x)'
        BY <1>16, <3>1, <4>1 DEF LetGo
      <4> QED
        BY <1>4, <1>9, <3>1, <4>1, <4>2
    <3>2. CASE d \notin T
      <4>1. d \in conns /\ rc[d].ctx = x
        BY <1>4, <1>5, <2>2, <3>2
      <4>2. x \in heap /\ (ac[x].ev => ac[x].data = d /\ ~LetGo(x))
        BY <4>1 DEF ContextOwned
      <4> QED
        BY <1>4, <1>7, <1>15, <4>2
    <3> QED
      BY <3>1, <3>2
  <2> QED
    BY <2>1, <2>2 DEF ContextOwned
<1>18. StateTellsContext'
  <2>1. SUFFICES ASSUME NEW c \in conns, NEW x, x = rc'[c].ctx
                 PROVE  /\ rc'[c].state = "S_PROC" <=> x # NULL /\ "CONNECTED" \in ac'[x].flags
                        /\ rc'[c].state = "S_CONNECTIING" <=>
                             x # NULL /\ ac'[x].ev /\ "CONNECTED" \notin ac'[x].flags
    BY <1>4 DEF StateTellsContext
  <2>2. CASE c \in T
    <3>1. x = new[c] /\ x # NULL
      BY <1>3, <1>6, <2>1, <2>2
    <3> QED
      BY <1>6, <1>9, <2>2, <3>1
  <2>3. CASE c \notin T
    <3>1. x = rc[c].ctx /\ rc'[c].state = rc[c].state /\ (x # NULL => ac'[x] = ac[x])
      BY <1>5, <1>7, <1>13, <2>1, <2>3
    <3> QED
      BY <3>1 DEF StateTellsContext
  <2> QED
    BY <2>2, <2>3
<1> QED
  BY <1>11, <1>12, <1>14, <1>17, <1>18

\* The connection attempt failed: ConnectCallback lets go of the context.
LEMMA OwnConnectFailed ==
  ASSUME OwnInv, TypeInv', NEW x \in Ctx, HandleConnectFailed(x)
  PROVE  OwnInv'
<1> USE DEF OwnInv, TypeInv, TypeOK
<1> DEFINE c == ac[x].data
<1>1. /\ run.pc = "idle" /\ x \in heap /\ ac[x].ev /\ "CONNECTED" \notin ac[x].flags
  BY DEF HandleConnectFailed, Writable, FlagsOK
<1>2. c \in conns /\ c \in Conn /\ rc[c].ctx = x /\ x # NULL
  BY <1>1 DEF ContextOwned, LetGo
<1>3. /\ rc' = [rc EXCEPT ![c].state = "S_INIT", ![c].ctx = NULL]
      /\ ac' = [ac EXCEPT ![x] = Failed(@)] /\ run' = At("drain", x)
      /\ UNCHANGED <<conns, heap>>
  BY <1>2 DEF HandleConnectFailed, ConnectCallback
<1>4. run'.pc = "drain" /\ run'.ctx = x
  BY <1>3, AtType
<1>5. \A y \in Ctx : SameCore(ac[y], ac'[y])
  BY <1>3, FlagCore DEF SameCore
<1>6. rc'[c].ctx = NULL /\ rc'[c].state = "S_INIT"
  BY <1>2, <1>3 DEF Members
<1>7. \A d \in conns : d # c => rc'[d] = rc[d] /\ rc[d].ctx # x
  BY <1>2, <1>3 DEF Unshared
<1>8. FlagsOK'
  BY <1>5 DEF FlagsOK, SameCore
<1>9. RunServes' /\ NoWildCallback'
  BY <1>1, <1>4, <1>5 DEF RunServes, Reading, NoWildCallback, SameCore
<1>10. Unshared'
  BY <1>3, <1>6, <1>7 DEF Unshared
<1>11. LetGo(x)' /\ \A y \in Ctx \ {x} : ~LetGo(y)'
  BY <1>1, <1>4, <1>5 DEF LetGo, SameCore
<1>12. ContextOwned'
  <2>1. ASSUME NEW y \in heap', ac'[y].ev, ~LetGo(y)'
        PROVE  ac'[y].data \in conns' /\ rc'[ac'[y].data].ctx = y
    <3>1. y # x /\ y \in heap /\ ac[y].ev /\ ac'[y].data = ac[y].data
      BY <1>3, <1>5, <1>11, <2>1 DEF SameCore
    <3>2. ac[y].data \in conns /\ rc[ac[y].data].ctx = y
      BY <1>1, <3>1 DEF ContextOwned, LetGo
    <3> QED
      BY <1>2, <1>3, <1>7, <3>1, <3>2
  <2>2. ASSUME NEW d \in conns', NEW y \in Ctx, rc'[d].ctx = y
        PROVE  y \in heap' /\ (ac'[y].ev => ac'[y].data = d /\ ~LetGo(y)')
    <3>1. d \in conns /\ d # c /\ rc[d].ctx = y /\ y # x
      BY <1>3, <1>6, <1>7, <2>2
    <3>2. y \in heap /\ (ac[y].ev => ac[y].data = d)
      BY <3>1 DEF ContextOwned
    <3> QED
      BY <1>3, <1>5, <1>11, <3>1, <3>2 DEF SameCore
  <2> QED
    BY <2>1, <2>2 DEF ContextOwned
<1>13. StateTellsContext'
  <2>1. SUFFICES ASSUME NEW d \in conns, NEW y, y = rc'[d].ctx
                 PROVE  /\ rc'[d].state = "S_PROC" <=>
                             y # NULL /\ "CONNECTED" \in ac'[y].flags
                        /\ rc'[d].state = "S_CONNECTIING" <=>
                             y # NULL /\ ac'[y].ev /\ "CONNECTED" \notin ac'[y].flags
    BY <1>3 DEF StateTellsContext
  <2>2. StateTellsContext /\ rc[d].ctx \in Ctx \cup {NULL}
    BY <2>1, CtxType
  <2> HIDE DEF OwnInv, TypeInv, TypeOK
  <2>3. CASE d = c
    BY <1>6, <2>1, <2>3
  <2>4. CASE d # c
    <3>1. rc'[d] = rc[d] /\ y = rc[d].ctx
      BY <1>7, <2>1, <2>4
    <3>2. y # NULL => (ac'[y].ev <=> ac[y].ev) /\ ac'[y].flags \cap {"CONNECTED"} = ac[y].flags \cap {"CONNECTED"}
      BY <1>5, <2>2, <3>1 DEF SameCore
    <3> QED
      BY <2>1, <2>2, <3>1, <3>2 DEF StateTellsContext
  <2> QED
    BY <2>3, <2>4
<1> QED
  BY <1>8, <1>9, <1>10, <1>12, <1>13

\* The first write event of a context sets CONNECTED and, in its RedisConn, S_PROC.
LEMMA OwnWrite ==
  ASSUME OwnInv, TypeInv', NEW x \in Ctx, HandleWrite(x)
  PROVE  OwnInv'
<1> USE DEF OwnInv, TypeInv, TypeOK
<1> DEFINE c == ac[x].data
           first == "CONNECTED" \notin ac[x].flags
           a == [ac[x] EXCEPT !.flags = @ \cup {"CONNECTED"}]
<1>1. /\ run.pc = "idle" /\ x \in heap /\ ac[x].ev /\ run.ctx = NULL
  BY DEF HandleWrite, Writable, FlagsOK, RunServes, Idle, At
<1>2. c \in conns /\ c \in Conn /\ rc[c].ctx = x /\ x # NULL
  BY <1>1 DEF ContextOwned, LetGo
<1>3. /\ rc' = IF first THEN [rc EXCEPT ![c].state = "S_PROC"] ELSE rc
      /\ UNCHANGED <<conns, heap>>
      /\ \/ run' = run /\ \E k : ac' = [ac EXCEPT ![x] = Written(a, k)]
         \/ run' = At("drain", x) /\ ac' = [ac EXCEPT ![x] = Failed(a)]
  BY <1>2 DEF HandleWrite, ConnectCallback
<1>4. /\ a \in Context /\ a.data = c /\ a.ev = ac[x].ev /\ a.polled = ac[x].polled
      /\ a.mask = ac[x].mask /\ "CONNECTED" \in a.flags
  <2>1. ac[x] \in Context /\ ac[x].flags \cup {"CONNECTED"} \in SUBSET {"CONNECTED", "DISCONNECTING"}
    BY DEF Context
  <2> QED
    BY <2>1 DEF Context
<1> HIDE DEF a
<1>5. ac'[x] = Failed(a) \/ \E k : ac'[x] = Written(a, k)
  BY <1>3
<1>6. SameCore(a, ac'[x])
  BY <1>4, <1>5, FlagCore, WrittenCore
<1>7. \A y \in Ctx \ {x} : ac'[y] = ac[y]
  BY <1>3
<1>8. ac'[x].data = c /\ ac'[x].ev /\ "CONNECTED" \in ac'[x].flags
  BY <1>1, <1>4, <1>6 DEF SameCore
<1>9. \A d \in Conn : rc'[d].ctx = rc[d].ctx
  BY <1>2, <1>3 DEF Members
<1>10. \A d \in conns : d # c => rc'[d] = rc[d] /\ rc[d].ctx # x
  BY <1>2, <1>3 DEF Unshared
<1>11. FlagsOK'
  BY <1>4, <1>6, <1>7, <1>8 DEF FlagsOK, SameCore
<1>12. run' = run \/ (run'.pc = "drain" /\ run'.ctx = x)
  BY <1>3, AtType
<1>13. RunServes' /\ NoWildCallback'
  BY <1>1, <1>8, <1>12 DEF RunServes, Reading, NoWildCallback, Idle, At
<1>14. Unshared'
  BY <1>3, <1>9 DEF Unshared
<1>15. \A y \in Ctx : ~LetGo(y)'
  BY <1>1, <1>8, <1>12 DEF LetGo
<1>16. \A y \in Ctx : ac'[y].data = ac[y].data /\ (ac'[y].ev <=> ac[y].ev)
  BY <1>1, <1>7, <1>8
<1>17. ContextOwned'
  <2>1. \A y \in heap' : ac'[y].ev /\ ~LetGo(y)' =>
           ac'[y].data \in conns' /\ rc'[ac'[y].data].ctx = y
    BY <1>1, <1>3, <1>9, <1>16 DEF ContextOwned, LetGo
  <2>2. \A d \in conns', y \in Ctx : rc'[d].ctx = y =>
           y \in heap' /\ (ac'[y].ev => ac'[y].data = d /\ ~LetGo(y)')
    BY <1>3, <1>9, <1>15, <1>16 DEF ContextOwned
  <2> QED
    BY <2>1, <2>2 DEF ContextOwned
<1>18. StateTellsContext'
  <2>1. rc'[c].state = "S_PROC"
    BY <1>2, <1>3 DEF Members, StateTellsContext
  <2>2. \A d \in conns : d # c /\ rc[d].ctx # NULL => ac'[rc[d].ctx] = ac[rc[d].ctx]
    BY <1>7, <1>10, CtxType
  <2> QED
    <3>1. SUFFICES ASSUME NEW d \in conns, NEW y, y = rc'[d].ctx
                   PROVE  /\ rc'[d].state = "S_PROC" <=>
                               y # NULL /\ "CONNECTED" \in ac'[y].flags
                          /\ rc'[d].state = "S_CONNECTIING" <=>
                               y # NULL /\ ac'[y].ev /\ "CONNECTED" \notin ac'[y].flags
      BY <1>3 DEF StateTellsContext
    <3>2. y = rc[d].ctx
      BY <1>9, <3>1
    <3> HIDE DEF OwnInv, TypeInv, TypeOK
    <3>3. CASE d = c
      BY <1>2, <1>8, <2>1, <3>2, <3>3
    <3>4. CASE d # c
      <4>1. StateTellsContext /\ rc'[d] = rc[d]
        BY <1>10, <3>1, <3>4 DEF OwnInv
      <4> QED
        BY <2>2, <3>1, <3>2, <3>4, <4>1 DEF StateTellsContext
    <3> QED
      BY <3>3, <3>4
<1> QED
  BY <1>11, <1>13, <1>14, <1>17, <1>18

\* __redisAsyncFree ends: DisconnectCallback clears the pointer before the context goes.
LEMMA OwnFinishFree ==
  ASSUME OwnInv, TypeInv', FinishFree
  PROVE  OwnInv'
<1> USE DEF OwnInv, TypeInv, TypeOK
<1> DEFINE x == run.ctx
           c == ac[x].data
           tell == "CONNECTED" \in ac[x].flags
<1>1. run.pc = "drain" /\ x \in heap /\ x \in Ctx /\ ac[x].ev
  BY DEF FinishFree, RunOK, RunServes
<1>2. tell => c \in conns /\ c \in Conn /\ rc[c].ctx = x
  BY <1>1 DEF ContextOwned, LetGo
<1>3. /\ rc' = IF tell THEN [rc EXCEPT ![c].state = "S_INIT", ![c].ctx = NULL] ELSE rc
      /\ heap' = heap \ {x} /\ ac' = [ac EXCEPT ![x] = FreshContext]
      /\ run' = Idle /\ UNCHANGED conns
  BY <1>2 DEF FinishFree, DisconnectCallback
<1>4. \A d \in conns : rc[d].ctx = x => tell /\ d = c
  BY <1>1 DEF ContextOwned, LetGo
<1>5. \A d \in conns : \/ rc'[d] = rc[d] /\ rc[d].ctx # x
                       \/ tell /\ d = c /\ rc'[d].ctx = NULL /\ rc'[d].state = "S_INIT"
  <2>1. SUFFICES ASSUME NEW d \in conns
                 PROVE  \/ rc'[d] = rc[d] /\ rc[d].ctx # x
                        \/ tell /\ d = c /\ rc'[d].ctx = NULL /\ rc'[d].state = "S_INIT"
    OBVIOUS
  <2>2. d \in Conn /\ rc[d] \in Members
    BY <2>1
  <2> HIDE DEF OwnInv, TypeInv, TypeOK
  <2>3. CASE tell /\ d = c
    <3>1. rc'[d] = [rc[d] EXCEPT !.state = "S_INIT", !.ctx = NULL]
      <4>1. rc \in [Conn -> Members]
        BY DEF OwnInv, TypeInv, TypeOK
      <4> QED
        BY <1>3, <2>2, <2>3, <4>1
    <3> QED
      BY <2>2, <2>3, <3>1 DEF Members
  <2>4. CASE ~(tell /\ d = c)
    <3>1. rc'[d] = rc[d]
      <4>1. rc \in [Conn -> Members]
        BY DEF OwnInv, TypeInv, TypeOK
      <4>2. CASE ~tell
        BY <1>3, <4>2
      <4>3. CASE tell
        BY <1>3, <2>2, <2>4, <4>1, <4>3
      <4> QED
        BY <4>2, <4>3
    <3> QED
      BY <1>4, <2>1, <2>4, <3>1
  <2> QED
    BY <2>3, <2>4
<1>6. run'.pc = "idle" /\ run'.ctx = NULL
  BY <1>3 DEF Idle, At
<1>7. FlagsOK'
  BY <1>3 DEF FlagsOK, FreshContext
<1>8. RunServes' /\ NoWildCallback'
  BY <1>3, <1>6 DEF RunServes, Reading, NoWildCallback
<1>9. Unshared'
  <2>1. Unshared
    OBVIOUS
  <2> HIDE DEF OwnInv, TypeInv, TypeOK
  <2>2. \A d \in conns : rc'[d].ctx = rc[d].ctx \/ rc'[d].ctx = NULL
    BY <1>5
  <2>3. conns' = conns
    BY <1>3
  <2>4. SUFFICES ASSUME NEW d \in conns, NEW e \in conns,
                        rc'[d].ctx = rc'[e].ctx, rc'[d].ctx # NULL
                 PROVE  d = e
    BY <2>3 DEF Unshared
  <2>5. rc[d].ctx = rc[e].ctx /\ rc[d].ctx # NULL
    BY <2>2, <2>4
  <2> QED
    BY <2>1, <2>5 DEF Unshared
<1>10. \A y \in Ctx : ~LetGo(y)'
  BY <1>6 DEF LetGo
<1>11. \A y \in Ctx \ {x} : ac'[y] = ac[y] /\ ~LetGo(y)
  BY <1>3 DEF LetGo
<1>12. ContextOwned'
  <2>1. ASSUME NEW y \in heap', ac'[y].ev, ~LetGo(y)'
        PROVE  ac'[y].data \in conns' /\ rc'[ac'[y].data].ctx = y
    <3>1. y \in heap /\ y \in Ctx /\ y # x /\ ac[y].ev /\ ac'[y] = ac[y] /\ ~LetGo(y)
      BY <1>3, <1>11, <2>1
    <3>2. ac[y].data \in conns /\ rc[ac[y].data].ctx = y
      BY <3>1 DEF ContextOwned
    <3>3. ~(tell /\ ac[y].data = c)
      BY <1>2, <3>1, <3>2
    <3> QED
      BY <1>3, <1>5, <3>1, <3>2, <3>3
  <2>2. ASSUME NEW d \in conns', NEW y \in Ctx, rc'[d].ctx = y
        PROVE  y \in heap' /\ (ac'[y].ev => ac'[y].data = d /\ ~LetGo(y)')
    <3>1. d \in conns /\ rc[d].ctx = y /\ y # x
      BY <1>3, <1>5, <2>2
    <3>2. y \in heap /\ (ac[y].ev => ac[y].data = d)
      BY <3>1 DEF ContextOwned
    <3> QED
      BY <1>3, <1>10, <1>11, <3>1, <3>2
  <2> QED
    BY <2>1, <2>2 DEF ContextOwned
<1>13. StateTellsContext'
  <2>1. \A d \in conns : rc[d].ctx # NULL /\ rc[d].ctx # x => ac'[rc[d].ctx] = ac[rc[d].ctx]
    BY <1>11, CtxType
  <2> QED
    <3>1. SUFFICES ASSUME NEW d \in conns, NEW y, y = rc'[d].ctx
                   PROVE  /\ rc'[d].state = "S_PROC" <=>
                               y # NULL /\ "CONNECTED" \in ac'[y].flags
                          /\ rc'[d].state = "S_CONNECTIING" <=>
                               y # NULL /\ ac'[y].ev /\ "CONNECTED" \notin ac'[y].flags
      BY <1>3 DEF StateTellsContext
    <3>2. CASE rc'[d] = rc[d] /\ rc[d].ctx # x
      BY <2>1, <3>1, <3>2 DEF StateTellsContext
    <3>3. CASE rc'[d].ctx = NULL /\ rc'[d].state = "S_INIT"
      BY <3>1, <3>3
    <3> QED
      BY <1>5, <3>2, <3>3
<1> QED
  BY <1>7, <1>8, <1>9, <1>12, <1>13

\* The other handlers change neither links nor the flag CONNECTED.
LEMMA OwnHandler ==
  ASSUME OwnInv, TypeInv', NEW x \in Ctx,
         HandleRead(x) \/ ProcessReply \/ NoMoreReplies \/ DrainReply \/ CallbackReturn
  PROVE  OwnInv'
<1> USE DEF OwnInv, TypeInv, TypeOK
<1>1. UNCHANGED <<conns, heap, rc>>
  BY DEF HandleRead, ProcessReply, NoMoreReplies, DrainReply, CallbackReturn
<1>2. CASE HandleRead(x)
  <2>1. /\ run.pc = "idle" /\ "CONNECTED" \in ac[x].flags /\ ac[x].ev
        /\ \/ \E k : ac' = [ac EXCEPT ![x] = ReadIn(@, sock[x], k)]
           \/ ac' = [ac EXCEPT ![x] = Failed(@)]
        /\ run' = At("process", x) \/ run' = At("drain", x)
    BY <1>2 DEF HandleRead, Readable, FlagsOK
  <2>2. \A y \in Ctx : SameCore(ac[y], ac'[y])
    BY <2>1, FlagCore, ReadInCore DEF SameCore
  <2>3. run'.pc \in {"process", "drain"} /\ run'.ctx = x
    BY <2>1, AtType
  <2>4. \A y \in heap : LetGo(y)' <=> LetGo(y)
    BY <2>1, <2>2, <2>3 DEF LetGo, SameCore
  <2>5. RunServes' /\ NoWildCallback'
    BY <2>1, <2>2, <2>3 DEF RunServes, Reading, NoWildCallback, SameCore
  <2> QED
    BY <1>1, <2>2, <2>4, <2>5, OwnFrame
<1>3. CASE ProcessReply
  <2> DEFINE a == [ac[run.ctx] EXCEPT !.reader = Tail(@)]
  <2>1. run.pc = "process" /\ run.ctx \in Ctx /\ ac[run.ctx].reader # <<>>
    BY <1>3 DEF ProcessReply, RunOK
  <2>2. a \in Context /\ SameCore(ac[run.ctx], a)
    <3>1. ac[run.ctx].reader \in Seq(Reply)
      BY <2>1 DEF Context
    <3>2. Tail(ac[run.ctx].reader) \in Seq(Reply)
      BY <2>1, <3>1
    <3>3. ac[run.ctx] \in Context
      BY <2>1
    <3>4. a \in Context
      BY <3>2, <3>3 DEF Context
    <3>5. SameCore(ac[run.ctx], a)
      BY <3>3 DEF SameCore, Context
    <3> QED
      BY <3>4, <3>5
  <2> HIDE DEF a
  <2>3. ac' = [ac EXCEPT ![run.ctx] = ShiftCallback(a)] \/ ac' = [ac EXCEPT ![run.ctx] = Failed(a)]
    BY <1>3 DEF ProcessReply, RunCallback, a
  <2>4. \A y \in Ctx : SameCore(ac[y], ac'[y])
    <3>1. \A y \in Ctx : SameCore(ac[y], ac[y])
      BY DEF SameCore
    <3>2. SameCore(a, ShiftCallback(a)) /\ SameCore(a, Failed(a))
      BY <2>2, FlagCore, ShiftCore
    <3>3. \A y \in Ctx : y # run.ctx => ac'[y] = ac[y]
      BY <2>1, <2>3
    <3>4. ac'[run.ctx] \in {ShiftCallback(a), Failed(a)}
      BY <2>1, <2>3
    <3>5. SameCore(ac[run.ctx], ac'[run.ctx])
      BY <2>2, <3>2, <3>4 DEF SameCore
    <3> QED
      BY <3>1, <3>3, <3>5
  <2>5. run'.ctx = run.ctx /\ run'.pc \in {"callback", "drain", "abort"}
    BY <1>3, <2>1, AtType DEF ProcessReply, RunCallback
  <2>6. "CONNECTED" \in ac[run.ctx].flags /\ ac[run.ctx].ev
    BY <2>1 DEF RunServes, Reading
  <2>7. RunServes' /\ NoWildCallback'
    BY <2>1, <2>4, <2>5, <2>6 DEF RunServes, Reading, NoWildCallback, SameCore
  <2>8. \A y \in heap : LetGo(y)' <=> LetGo(y)
    BY <2>1, <2>4, <2>5 DEF LetGo, SameCore
  <2> QED
    BY <1>1, <2>4, <2>7, <2>8, OwnFrame
<1>4. CASE NoMoreReplies
  <2>1. run.pc = "process" /\ run.ctx \in Ctx /\ ac' = ac
    BY <1>4 DEF NoMoreReplies, RunOK
  <2>2. \A y \in Ctx : SameCore(ac[y], ac'[y])
    BY <2>1 DEF SameCore
  <2>3. "CONNECTED" \in ac[run.ctx].flags /\ ac[run.ctx].ev
    BY <2>1 DEF RunServes, Reading
  <2>4. run' = Idle \/ (run'.pc \in {"drain", "abort"} /\ run'.ctx = run.ctx)
    BY <1>4, <2>1, AtType DEF NoMoreReplies
  <2>5. Idle.pc = "idle" /\ Idle.ctx = NULL
    BY DEF Idle, At
  <2>6. RunServes' /\ NoWildCallback'
    BY <2>1, <2>3, <2>4, <2>5 DEF RunServes, Reading, NoWildCallback
  <2>7. \A y \in heap : LetGo(y)' <=> LetGo(y)
    BY <2>1, <2>3, <2>4, <2>5 DEF LetGo
  <2> QED
    BY <1>1, <2>2, <2>6, <2>7, OwnFrame
<1>5. CASE DrainReply
  <2>1. run.pc = "drain" /\ run.ctx \in Ctx /\ ac[run.ctx].ev
    BY <1>5 DEF DrainReply, RunOK, RunServes
  <2>2. /\ ac' = [ac EXCEPT ![run.ctx] = ShiftCallback(@)]
        /\ run'.pc = "callback" /\ run'.ctx = run.ctx /\ run'.from = "drain"
    BY <1>5, <2>1 DEF DrainReply, RunCallback
  <2>3. \A y \in Ctx : SameCore(ac[y], ac'[y])
    BY <2>1, <2>2, ShiftCore DEF SameCore
  <2>4. RunServes' /\ NoWildCallback'
    BY <2>1, <2>2, <2>3 DEF RunServes, Reading, NoWildCallback, SameCore
  <2>5. \A y \in heap : LetGo(y)' <=> LetGo(y)
    BY <2>1, <2>2, <2>3 DEF LetGo, SameCore
  <2> QED
    BY <1>1, <2>3, <2>4, <2>5, OwnFrame
<1>6. CASE CallbackReturn
  <2>1. run.pc = "callback" /\ run.ctx \in Ctx /\ ac' = ac /\ run.from \in {"process", "drain"}
    BY <1>6 DEF CallbackReturn, RunOK
  <2>2. \A y \in Ctx : SameCore(ac[y], ac'[y])
    BY <2>1 DEF SameCore
  <2>3. run'.pc = run.from /\ run'.ctx = run.ctx
    BY <1>6, <2>1, AtType DEF CallbackReturn
  <2>4. RunServes' /\ NoWildCallback'
    BY <2>1, <2>3 DEF RunServes, Reading, NoWildCallback
  <2>5. \A y \in heap : LetGo(y)' <=> LetGo(y)
    BY <2>1, <2>3 DEF LetGo
  <2> QED
    BY <1>1, <2>2, <2>4, <2>5, OwnFrame
<1> QED
  BY <1>2, <1>3, <1>4, <1>5, <1>6

\* The network only touches sockets.
LEMMA OwnNetwork ==
  ASSUME OwnInv, TypeInv', Network
  PROVE  OwnInv'
<1>1. UNCHANGED <<conns, rc, heap, ac, run>>
  BY DEF Network, NetFails, Net, NetAccept, NetAnswer, NetRefuse, NetBusy, NetClose, NetReset
<1>2. \A y \in Ctx : SameCore(ac[y], ac'[y]) /\ (LetGo(y)' <=> LetGo(y))
  BY <1>1 DEF SameCore, LetGo
<1>3. RunServes' /\ NoWildCallback'
  BY <1>1 DEF OwnInv, RunServes, Reading, NoWildCallback, Idle, At
<1>4. heap \subseteq Ctx
  BY DEF OwnInv, TypeInv, TypeOK
<1> QED
  BY <1>1, <1>2, <1>3, <1>4, OwnFrame

\* The agreement of connections and contexts, and that no callback reaches a
\* destroyed connection, in every reachable state and for all constants with a
\* clean application.
THEOREM CleanOwnership ==
  ASSUME CleanDestroy
  PROVE  Spec => []CleanOwners
<1>1. Init => OwnInv
  <2>1. ASSUME Init PROVE OwnInv
    <3>1. TypeInv
      BY <2>1, InitType
    <3>2. \A x \in Ctx : /\ ~ac[x].polled /\ ac[x].mask = {} /\ ac[x].flags = {}
      BY <2>1 DEF Init, FreshContext
    <3>3. heap = {} /\ conns = {} /\ run = Idle /\ run.pc = "idle"
      BY <2>1 DEF Init, Idle, At
    <3> QED
      BY <3>1, <3>2, <3>3 DEF OwnInv, FlagsOK, RunServes, Reading, Unshared, ContextOwned,
                              StateTellsContext, NoWildCallback
  <2> QED
    BY <2>1
<1>2. OwnInv /\ [Next]_vars => OwnInv'
  <2>1. SUFFICES ASSUME OwnInv, [Next]_vars PROVE OwnInv'
    OBVIOUS
  <2>2. TypeInv'
    BY <2>1, TypeStep DEF OwnInv
  <2>3. ASSUME Application PROVE OwnInv'
    <3>1. ASSUME MgrInit PROVE OwnInv'
      BY <2>1, <2>2, <3>1, OwnApplication
    <3>2. ASSUME NEW c \in Conn, NewConn(c) PROVE OwnInv'
      BY <2>1, <2>2, <3>2, OwnNewConn
    <3>3. ASSUME NEW c \in Conn, InitConn(c) PROVE OwnInv'
      <4> DEFINE m == [rc EXCEPT ![c].port = TRUE]
      <4>1. /\ m \in [Conn -> Members]
            /\ \A d \in Conn : m[d].ctx = rc[d].ctx /\ m[d].state = rc[d].state
        <5>1. rc \in [Conn -> Members]
          BY <2>1 DEF OwnInv, TypeInv, TypeOK
        <5>2. \A d \in Conn : rc[d] \in Members
          BY <5>1
        <5>3. [rc[c] EXCEPT !.port = TRUE] \in Members
          BY <5>2 DEF Members
        <5> QED
          BY <5>1, <5>2, <5>3 DEF Members
      <4>2. AppTurn /\ {c} \in SUBSET conns /\ Connect(m, {c})
        BY <3>3 DEF InitConn
      <4> HIDE DEF m
      <4> QED
        BY <2>1, <2>2, <4>1, <4>2, OwnConnect
    <3>4. ASSUME NEW c \in Conn, CreateOpt(c) \/ RedisAsyncCmd(c) PROVE OwnInv'
      BY <2>1, <2>2, <3>4, OwnApplication
    <3>5. ASSUME NEW c \in Conn, Destroy(c) PROVE OwnInv'
      BY <2>1, <2>2, <3>5, OwnDestroy
    <3> QED
      BY <2>3, <3>1, <3>2, <3>3, <3>4, <3>5 DEF Application
  <2>4. ASSUME Handler PROVE OwnInv'
    <3>1. ASSUME TimerCb PROVE OwnInv'
      <4>1. rc \in [Conn -> Members] /\ AppTurn /\ Connect(rc, conns) /\ conns \in SUBSET conns
        BY <2>1, <3>1 DEF TimerCb, AppTurn, OwnInv, TypeInv, TypeOK
      <4> QED
        BY <2>1, <2>2, <4>1, OwnConnect
    <3>2. ASSUME NEW x \in Ctx, HandleConnectFailed(x) PROVE OwnInv'
      BY <2>1, <2>2, <3>2, OwnConnectFailed
    <3>3. ASSUME NEW x \in Ctx, HandleWrite(x) PROVE OwnInv'
      BY <2>1, <2>2, <3>3, OwnWrite
    <3>4. ASSUME NEW x \in Ctx, HandleRead(x) PROVE OwnInv'
      BY <2>1, <2>2, <3>4, OwnHandler
    <3>5. ASSUME ProcessReply \/ NoMoreReplies \/ DrainReply \/ CallbackReturn PROVE OwnInv'
      <4>1. run.ctx \in Ctx
        BY <2>1, <3>5 DEF OwnInv, TypeInv, TypeOK, RunOK, ProcessReply, NoMoreReplies,
                          DrainReply, CallbackReturn
      <4> QED
        BY <2>1, <2>2, <3>5, <4>1, OwnHandler
    <3>6. ASSUME FinishFree PROVE OwnInv'
      BY <2>1, <2>2, <3>6, OwnFinishFree
    <3> QED
      BY <2>4, <3>1, <3>2, <3>3, <3>4, <3>5, <3>6 DEF Handler
  <2>5. ASSUME Network PROVE OwnInv'
    BY <2>1, <2>2, <2>5, OwnNetwork
  <2>6. ASSUME UNCHANGED vars PROVE OwnInv'
    BY <2>1, <2>2, <2>6, OwnApplication
  <2> QED
    BY <2>1, <2>3, <2>4, <2>5, <2>6 DEF Next
<1>3. OwnInv => CleanOwners
  BY DEF OwnInv, CleanOwners
<1> QED
  BY <1>1, <1>2, <1>3, PTL DEF Spec
=============================================================================
