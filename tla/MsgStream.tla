----------------------------- MODULE MsgStream ------------------------------
(***************************************************************************)
(* The message framing of BaseConnect (lib_prj/connector.cc): send_data    *)
(* turns a MsgPack into bytes, TCP delivers them in pieces of any size,    *)
(* and conn_read_callback puts them together again in m_msg, across        *)
(* callbacks, disconnects and reconnects.  One direction of a connection   *)
(* is modelled: s is the object that sends and r the one that receives.    *)
(*                                                                         *)
(* Bytes are digits in base Base (256 in the code) and an int is four of   *)
(* them in two's complement, so that reversing the bytes of a length has   *)
(* the effects it has in the code: a valid length is below Base^2, its     *)
(* reversal is too large or negative.  Sums of ints wrap as they do in the *)
(* builds of the repository (signed overflow, which C leaves undefined).   *)
(***************************************************************************)
EXTENDS Integers, Sequences, SequencesExt

CONSTANTS
    Base,              \* the number of values of a byte
    MAX_MSG_DATA_LEN,  \* the size of MsgPack::data
    MaxSendBuf,        \* m_msbs of the sender, 0 for unlimited
    SendData,          \* TRUE: the sender calls send_data; FALSE: it calls
                       \* send_data_no_head with a header of its own
    TailByte,          \* what follows the message in the sender's memory
    Bodies,            \* the bodies of the messages that are sent
    Accepted,          \* TRUE: each connection has a new receiving object, as
                       \* a listener makes; FALSE: the object reconnects
    MaxSent,           \* bound: messages sent on one connection
    MaxConnections     \* bound: connections

HEAD_LEN == 4
Byte == 0 .. Base - 1

Payload == UNION {[1 .. n -> Byte] : n \in 0 .. MAX_MSG_DATA_LEN}

ASSUME StreamAssumption ==
    /\ Base \in Nat /\ Base >= 2 /\ Base % 2 = 0
    /\ MAX_MSG_DATA_LEN \in Nat \ {0} /\ MAX_MSG_DATA_LEN < Base * Base
    /\ MaxSendBuf \in Nat /\ MaxSent \in Nat /\ MaxConnections \in Nat
    /\ SendData \in BOOLEAN /\ Accepted \in BOOLEAN
    /\ TailByte \subseteq Byte /\ Bodies \subseteq Payload

VARIABLES
    s,      \* the sending object: m_is_connect, bytes in its output evbuffer
    wire,   \* the bytes written by s that r has not read; the last s.out of
            \* them are still in the evbuffer of s
    r,      \* the receiving object: m_is_connect, m_msg, m_msg_write_len
    h,      \* the handler of r that is running and its input evbuffer
    sent,   \* the messages sent on this connection
    got,    \* the messages passed to OnRecv since this connection was made
    torn,   \* a body was read in more than one piece on this connection
    conns   \* connections made so far

vars == <<s, wire, r, h, sent, got, torn, conns>>

-----------------------------------------------------------------------------
(* The memory of a MsgPack: len, then data.                                *)

MsgSize == HEAD_LEN + MAX_MSG_DATA_LEN
MsgPack == [0 .. MsgSize - 1 -> Byte]

Signed(n) == IF 2 * n >= Base * Base * Base * Base
             THEN n - Base * Base * Base * Base
             ELSE n
Wrapped(n) == Signed(n % (Base * Base * Base * Base))
HostLen(m) == Signed(m[0] + Base * (m[1] + Base * (m[2] + Base * m[3])))
HtoNLForgotten(m) == m
HtoNL(m) == [m EXCEPT ![0] = m[3], ![1] = m[2], ![2] = m[1], ![3] = m[0]]
NetBytes(n) == << (n \div (Base * Base * Base)) % Base,
                  (n \div (Base * Base)) % Base,
                  (n \div Base) % Base,
                  n % Base >>

(* bufferevent_read to the address write_addr.                             *)
Put(m, at, bytes) ==
    [i \in 0 .. MsgSize - 1 |->
        IF at <= i /\ i < at + Len(bytes) THEN bytes[i - at + 1] ELSE m[i]]

Lesser(a, b) == IF a < b THEN a ELSE b

(* What OnRecv can read of a message that says it has HostLen(m) bytes.    *)
Data(m) == [i \in 1 .. Lesser(HostLen(m), MAX_MSG_DATA_LEN) |->
               m[HEAD_LEN + i - 1]]
Tail4 == [1 .. HEAD_LEN -> TailByte]

-----------------------------------------------------------------------------
FreshSender == [up |-> TRUE, out |-> 0]
FreshReceiver == [up |-> TRUE, msg |-> [i \in 0 .. MsgSize - 1 |-> 0], wlen |-> 0]
Idle == [pc |-> "idle", in |-> << >>]

Init ==
    /\ s = FreshSender /\ wire = << >>
    /\ r = FreshReceiver /\ h = Idle
    /\ sent = << >> /\ got = << >>
    /\ torn = FALSE /\ conns = 1

(***************************************************************************)
(* The sender.  send_data computes the number of bytes of header and data  *)
(* together but writes that many from data on, after the header: the last  *)
(* HEAD_LEN of them lie behind the message.                                *)
(***************************************************************************)
Frame(m, tail) == NetBytes(Len(m)) \o m \o tail

TooMuchWaitingNever == FALSE
TooMuchWaiting == MaxSendBuf # 0 /\ s.out > MaxSendBuf

SenderDownKeepsOutput ==
    /\ s' = [s EXCEPT !.up = FALSE]
    /\ wire' = SubSeq(wire, 1, Len(wire) - s.out)
    /\ UNCHANGED <<r, h, sent, got, torn, conns>>
SenderDown ==
    /\ s' = [up |-> FALSE, out |-> 0]
    /\ wire' = SubSeq(wire, 1, Len(wire) - s.out)
    /\ UNCHANGED <<r, h, sent, got, torn, conns>>

Write(m, bytes) ==
    /\ ~TooMuchWaiting
    /\ wire' = wire \o bytes
    /\ s' = [s EXCEPT !.out = @ + Len(bytes)]
    /\ sent' = Append(sent, m)
    /\ UNCHANGED <<r, h, got, torn, conns>>

Send ==
    /\ s.up /\ Len(sent) < MaxSent
    /\ \/ TooMuchWaiting /\ SenderDown
       \/ SendData /\ \E m \in Bodies, tail \in Tail4 : Write(m, Frame(m, tail))
       \/ ~SendData /\ \E m \in Bodies : Write(m, Frame(m, << >>))

(* The event loop of the sender writes to the socket what it takes.        *)
Flush ==
    /\ s.up /\ s.out > 0
    /\ \E n \in 0 .. s.out - 1 : s' = [s EXCEPT !.out = n]
    /\ UNCHANGED <<wire, r, h, sent, got, torn, conns>>

(* The sender closes the connection, or loses it.                          *)
SenderEnds == s.up /\ SenderDown

-----------------------------------------------------------------------------
(* The receiver.                                                           *)

DisConnect(x) == [x EXCEPT !.up = FALSE]

(* readcb: libevent has read some bytes from the socket.                   *)
Arrive ==
    /\ r.up /\ h.pc = "idle"
    /\ \E n \in 1 .. Len(wire) - s.out :
          /\ h' = [pc |-> "loop", in |-> SubSeq(wire, 1, n)]
          /\ wire' = SubSeq(wire, n + 1, Len(wire))
    /\ UNCHANGED <<s, r, sent, got, torn, conns>>

(* State 1 of conn_read_callback: the header is not complete.              *)
ReadHead ==
    /\ h.pc = "loop" /\ h.in # << >> /\ r.wlen < HEAD_LEN
    /\ LET n == Lesser(Len(h.in), HEAD_LEN - r.wlen)
       IN  /\ r' = [r EXCEPT !.msg = Put(@, r.wlen, SubSeq(h.in, 1, n)),
                             !.wlen = @ + n]
           /\ h' = [h EXCEPT !.in = SubSeq(@, n + 1, Len(@))]
    /\ UNCHANGED <<s, wire, sent, got, torn, conns>>

(***************************************************************************)
(* State 2: the header is complete.  Its bytes are put in host order each  *)
(* time this state is entered, then the length is checked, then the rest   *)
(* of the body is read.  Once the length is the smallest int and part of   *)
(* the body is there, the bytes to be read are so few that they wrap: all  *)
(* input is read, also behind m_msg.  What happens then is not modelled.   *)
(***************************************************************************)
TooBigUnchecked(m) == FALSE
TooBig(m) == HostLen(m) > MAX_MSG_DATA_LEN
NeedToRead(m, wlen) == Wrapped(HostLen(m) + HEAD_LEN - wlen)

ReadBody ==
    /\ h.pc = "loop" /\ h.in # << >> /\ r.wlen >= HEAD_LEN
    /\ LET m    == HtoNL(r.msg)
           need == NeedToRead(m, r.wlen)
           n    == Lesser(Len(h.in), need)
       IN  \/ /\ TooBig(m) \/ need < 0
              /\ r' = DisConnect([r EXCEPT !.msg = m])
              /\ h' = Idle
              /\ UNCHANGED <<got, torn>>
           \/ /\ ~TooBig(m) /\ need >= 0 /\ r.wlen + n > MsgSize
              /\ r' = [r EXCEPT !.msg = m, !.wlen = @ + n]
              /\ h' = [pc |-> "wild", in |-> << >>]
              /\ UNCHANGED <<got, torn>>
           \/ /\ ~TooBig(m) /\ need >= 0 /\ r.wlen + n <= MsgSize
              /\ r' = [r EXCEPT !.msg = Put(m, r.wlen, SubSeq(h.in, 1, n)),
                                !.wlen = @ + n]
              /\ h' = [pc |-> IF n = need THEN "onrecv" ELSE "loop",
                       in |-> SubSeq(h.in, n + 1, Len(h.in))]
              /\ got' = IF n = need THEN Append(got, Data(r'.msg)) ELSE got
              /\ torn' = (torn \/ n < need)
    /\ UNCHANGED <<s, wire, sent, conns>>

(* OnRecv returns and m_msg is made ready for the next message.            *)
AfterRecvKeepsLen(x) == [x EXCEPT !.msg = [i \in 0 .. MsgSize - 1 |->
                                              IF i < HEAD_LEN THEN 0 ELSE x.msg[i]]]
AfterRecv(x) == [x EXCEPT !.msg = [i \in 0 .. MsgSize - 1 |->
                                      IF i < HEAD_LEN THEN 0 ELSE x.msg[i]],
                          !.wlen = 0]

OnRecvEndsLoop ==
    /\ h.pc = "onrecv"
    /\ r' = AfterRecv(r)
    /\ h' = Idle
    /\ UNCHANGED <<s, wire, sent, got, torn, conns>>
OnRecvReturns ==
    /\ h.pc = "onrecv"
    /\ r' = AfterRecv(r)
    /\ h' = [h EXCEPT !.pc = "loop"]
    /\ UNCHANGED <<s, wire, sent, got, torn, conns>>

LoopEnds ==
    /\ h.pc = "loop" /\ h.in = << >>
    /\ h' = Idle
    /\ UNCHANGED <<s, wire, r, sent, got, torn, conns>>

(***************************************************************************)
(* The application disconnects, in OnRecv or elsewhere, or               *)
(* conn_event_callback reports the end of the connection or an error.      *)
(* free() drops m_buf_e and m_fd but leaves m_msg and m_msg_write_len; the *)
(* loop of a conn_read_callback that called OnRecv goes on reading, from a *)
(* bufferevent that libevent keeps until its callback has returned.        *)
(***************************************************************************)
ReceiverDown ==
    /\ r.up /\ h.pc \in {"idle", "onrecv"}
    /\ r' = DisConnect(r)
    /\ UNCHANGED <<s, wire, h, sent, got, torn, conns>>

(* A new connection: TryReconnect by the same object, or BaseAcceptInit by *)
(* a new one.  The object at the other end is new.                         *)
Reconnect ==
    /\ ~r.up /\ h.pc = "idle" /\ conns < MaxConnections
    /\ conns' = conns + 1
    /\ r' = IF Accepted THEN FreshReceiver ELSE [r EXCEPT !.up = TRUE]
    /\ s' = FreshSender /\ wire' = << >>
    /\ sent' = << >> /\ got' = << >> /\ torn' = FALSE
    /\ UNCHANGED h

ReadCallback == ReadHead \/ ReadBody \/ OnRecvReturns \/ LoopEnds

Next ==
    \/ Send \/ Flush \/ SenderEnds
    \/ Arrive \/ ReadCallback \/ ReceiverDown \/ Reconnect

Spec == Init /\ [][Next]_vars

(* The event loops of both ends keep running and OnRecv returns.           *)
FairSpec == Spec /\ WF_vars(Flush) /\ WF_vars(Arrive) /\ WF_vars(ReadCallback)

-----------------------------------------------------------------------------
TypeOK ==
    /\ s \in [up : BOOLEAN, out : Nat]
    /\ wire \in Seq(Byte) /\ s.out <= Len(wire)
    /\ r \in [up : BOOLEAN, msg : MsgPack, wlen : Nat]
    /\ h \in [pc : {"idle", "loop", "onrecv", "wild"}, in : Seq(Byte)]
    /\ sent \in Seq(Bodies) /\ got \in Seq(Payload)
    /\ torn \in BOOLEAN /\ conns \in Nat

(* The length whose bytes in reverse order are the smallest int: 128.      *)
HalfByte == Base \div 2

(* Whatever bytes the peer sends, in whatever pieces, and whatever an      *)
(* earlier connection left in m_msg and m_msg_write_len, memory behind     *)
(* m_msg is written only while a message of HalfByte bytes is read.        *)
OverrunAtHalfByte ==
    h.pc = "wild" \/ r.wlen > MsgSize => HostLen(HtoNL(r.msg)) = HalfByte

(* The length OnRecv sees lies within MsgPack::data, and that many bytes   *)
(* were received after the header.                                         *)
DeliveredFits ==
    h.pc = "onrecv" => /\ HostLen(r.msg) \in 0 .. MAX_MSG_DATA_LEN
                       /\ r.wlen = HEAD_LEN + HostLen(r.msg)

(* Whatever a peer sends, one length apart reading stays within m_msg, and *)
(* OnRecv gets only bytes of it that were received.                        *)
ReadsInBounds == OverrunAtHalfByte /\ DeliveredFits

(* OnRecv gets the messages that were sent, complete, unchanged and in     *)
(* order: "every receive is a complete message" (connector.h:54); until    *)
(* memory behind m_msg is written.                                         *)
FramesIntact == h.pc # "wild" => IsPrefix(got, sent)

Channel ==
    INSTANCE MsgChannel WITH Message <- Bodies,
                             Fatal <- {m \in Bodies : Len(m) = HalfByte},
                             broken <- h.pc = "wild",
                             up <- [e \in {"s", "r"} |-> IF e = "s" THEN s.up ELSE r.up]

(* With well framed input the bytes on the wire, the pieces they come in   *)
(* and the state of m_msg amount to MsgChannel: no step delivers a message *)
(* out of turn or twice, alters one that was delivered, or ends a          *)
(* connection that goes on; and only in the middle of a message of         *)
(* HalfByte bytes can the receiver break.                                  *)
KeepsChannel == Channel!Spec

NonEmpty(m) == m # << >>

(* With well framed input no message stays behind in m_msg once all bytes  *)
(* have arrived, except an empty last one; unless a body came in pieces.   *)
NothingHeldBack ==
    (h.pc = "idle" /\ s.up /\ r.up /\ wire = << >> /\ ~torn)
        => \/ got = sent
           \/ /\ sent # << >> /\ ~NonEmpty(Last(sent))
              /\ got = Front(sent)

(* A disconnect for a bad length happens, with well framed input, only     *)
(* after a body came in pieces: no other split of the bytes is harmful.    *)
RejectsOnlyTorn ==
    [][(h.pc = "loop" /\ r.up /\ ~r'.up) => torn]_vars

(* With well framed input a message that has arrived is delivered, and a   *)
(* connection is not cut: unless a body came in pieces.                    *)
NothingLost == []NothingHeldBack /\ RejectsOnlyTorn

(* The output buffer exceeds the limit by at most one frame.               *)
Overhead == IF SendData THEN HEAD_LEN + HEAD_LEN ELSE HEAD_LEN
OutputBounded ==
    MaxSendBuf # 0 => s.out <= MaxSendBuf + MAX_MSG_DATA_LEN + Overhead

(* A message that is not empty reaches OnRecv unless a body came in pieces *)
(* or the connection went down.                                            *)
SentDelivered ==
    \A i \in 1 .. MaxSent :
        (i <= Len(sent) /\ NonEmpty(sent[i]))
            ~> (i <= Len(got) \/ torn \/ ~r.up \/ ~s.up)

-----------------------------------------------------------------------------
(* connector.h:82: when it waits for the rest of a message, the rest that  *)
(* then arrives completes it and is not a reason to disconnect.            *)
WaitIsHonoured ==
    [][(h.pc = "loop" /\ r.up) => r'.up]_vars

(* connector.h:115: m_msg_write_len is the number of bytes written in the  *)
(* memory of m_msg; nothing is written behind it.                          *)
NoOverrun == h.pc # "wild" /\ r.wlen <= MsgSize
=============================================================================
