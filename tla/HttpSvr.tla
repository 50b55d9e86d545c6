------------------------------ MODULE HttpSvr ------------------------------
(***************************************************************************)
(* BaseHttpSvr (http.cc), serving the requests of the BaseHttpClient       *)
(* objects of HttpClient, from a process of its own.  Only one request is  *)
(* handled at a time: RevRequestCB keeps it in m_tmp_req while RevRequest  *)
(* runs, and Reply and ReplyError clear that pointer, because libevent     *)
(* releases the request when the answer is sent.                           *)
(***************************************************************************)
EXTENDS HttpClient

VARIABLES
  m_evhttp,   \* [set, serving] : the pointer, and whether a port is bound
  m_tmp_req,  \* the request being handled and not yet answered
  handling,   \* the request RevRequest is running for
  sent        \* [Conn -> answers sent to the request that came on it]

svrVars == <<m_evhttp, m_tmp_req, handling, sent>>
pairVars == <<httpVars, svrVars>>

SvrInit ==
  /\ m_evhttp = [set |-> FALSE, serving |-> FALSE]
  /\ m_tmp_req = NoConn /\ handling = NoConn
  /\ sent = [c \in Conn |-> 0]

\* evhttp_new and evhttp_bind_socket can both fail; m_evhttp survives a failed
\* bind, so that Init can never succeed afterwards.
InitSvr(made, bound) ==
  /\ ~m_evhttp.set /\ handling = NoConn
  /\ m_evhttp' = [set |-> made, serving |-> made /\ bound]
  /\ UNCHANGED <<httpVars, m_tmp_req, handling, sent>>

RevRequestCB(c) ==
  /\ m_evhttp.serving /\ handling = NoConn
  /\ cn[c].net = "sent"
  /\ cn' = [cn EXCEPT ![c].net = "serving"]
  /\ handling' = c /\ m_tmp_req' = c
  /\ sent' = [sent EXCEPT ![c] = 0]
  /\ UNCHANGED <<clients, hc, conns, dnss, owners, running, wild, m_evhttp>>

\* evhttp_send_reply and evhttp_send_error: the answer goes out, or nowhere if
\* the client has given up.
Send(c, code) ==
  /\ cn' = [cn EXCEPT ![c].net = IF @ = "serving" THEN code ELSE "none"]
  /\ sent' = [sent EXCEPT ![c] = @ + 1]
  /\ UNCHANGED <<clients, hc, conns, dnss, owners, running, wild>>

\* Mutant: m_tmp_req is not cleared.
ReplyKeepsRequest(code) ==
  /\ m_tmp_req # NoConn
  /\ Send(m_tmp_req, code)
  /\ UNCHANGED <<m_evhttp, m_tmp_req, handling>>

\* User code calls these in RevRequest, any number of times; without a request
\* they only log.
Reply(code) ==
  /\ m_tmp_req # NoConn
  /\ Send(m_tmp_req, code)
  /\ m_tmp_req' = NoConn
  /\ UNCHANGED <<m_evhttp, handling>>

ReplyError ==
  /\ m_tmp_req # NoConn
  /\ Send(m_tmp_req, "error")
  /\ m_tmp_req' = NoConn
  /\ UNCHANGED <<m_evhttp, handling>>

\* The rest of RevRequestCB: a request RevRequest left unanswered gets 503.
RevRequestReturns ==
  /\ handling # NoConn
  /\ IF m_tmp_req = NoConn THEN UNCHANGED <<httpVars, sent>> ELSE Send(m_tmp_req, "error")
  /\ m_tmp_req' = NoConn /\ handling' = NoConn
  /\ UNCHANGED m_evhttp

\* ~BaseHttpSvr: evhttp_free closes the connections it has accepted.
DeleteSvr ==
  /\ m_evhttp.set /\ handling = NoConn
  /\ m_evhttp' = [set |-> FALSE, serving |-> FALSE]
  /\ UNCHANGED <<httpVars, m_tmp_req, handling, sent>>

SvrStep ==
  \/ \E made, bound \in BOOLEAN : InitSvr(made, bound)
  \/ \E c \in Conn : RevRequestCB(c)
  \/ \E code \in {"ok", "error"} : Reply(code)
  \/ ReplyError \/ RevRequestReturns \/ DeleteSvr

PairInit == HttpInit /\ SvrInit
PairNext == (HttpClientStep /\ UNCHANGED svrVars) \/ SvrStep
PairSpec == PairInit /\ [][PairNext]_pairVars

SvrTypeOK ==
  /\ m_evhttp \in [set : BOOLEAN, serving : BOOLEAN]
  /\ {m_tmp_req, handling} \subseteq Conn \cup {NoConn}
  /\ sent \in [Conn -> 0..2]

\* m_tmp_req names the request being handled exactly until the answer went out
\* and libevent released it, so that no answer goes to a released request and
\* the next request finds the pointer clear.
HandledOnce ==
  IF handling = NoConn THEN m_tmp_req = NoConn
  ELSE sent[handling] = (IF m_tmp_req = handling THEN 0 ELSE 1)

\* End to end, with answers that race the client's timeout and connections
\* that are reused: a client that waits has its request in one place, and one
\* the server still handles after its client gave up never reaches a client.
NoStrayAnswer ==
  \A c \in Conn :
    /\ cn[c].net \in {"serving", "ok", "error", "sent"} => c \in conns /\ cn[c].waiting
    /\ cn[c].net \in {"serving", "orphan"} <=> c = m_tmp_req

\* A request is answered exactly once, however many times RevRequest calls
\* Reply and ReplyError or neither, and the answer goes to the client that
\* waits for it or to nobody.
AnsweredOnce == HandledOnce /\ NoStrayAnswer
=============================================================================
