----------------------------- MODULE MsgChannel -----------------------------
(***************************************************************************)
(* What a connection promises to the two applications (connector.h:54):    *)
(* while it lasts, OnRecv is called with the messages that were sent, each *)
(* complete, once and in order.  Either end may close it at any time; what *)
(* is under way may still arrive then, or be lost.  The connection after   *)
(* it begins with nothing.  While a message of Fatal is delivered the      *)
(* receiver may break, and nothing is promised from then on.               *)
(***************************************************************************)
EXTENDS Naturals, Sequences

CONSTANTS Message, Fatal

VARIABLES
    up,    \* which of the two ends, "s" and "r", take the connection for open
    sent,  \* the messages sent on this connection
    got,   \* the messages OnRecv was called with
    broken \* the receiver has written over its own memory

chanVars == <<up, sent, got, broken>>

Ends == {"s", "r"}
Opened == up = [e \in Ends |-> TRUE] /\ sent = << >> /\ got = << >> /\ ~broken

Send(m) ==
    /\ up["s"]
    /\ sent' = Append(sent, m)
    /\ UNCHANGED <<up, got, broken>>

Deliver ==
    /\ Len(got) < Len(sent)
    /\ got' = Append(got, sent[Len(got) + 1])
    /\ UNCHANGED <<up, sent, broken>>

Close(e) ==
    /\ up[e]
    /\ up' = [up EXCEPT ![e] = FALSE]
    /\ UNCHANGED <<sent, got, broken>>

Reopen == ~up["r"] /\ Opened'

Break ==
    /\ Len(got) < Len(sent) /\ sent[Len(got) + 1] \in Fatal
    /\ broken'
    /\ UNCHANGED <<up, sent, got>>

AfterBreak == broken /\ broken'

Next == \/ \E m \in Message : Send(m)
        \/ Deliver
        \/ \E e \in Ends : Close(e)
        \/ Reopen
        \/ Break \/ AfterBreak

Spec == Opened /\ [][Next]_chanVars
=============================================================================
