---------------------------- MODULE HttpSvrProofs ----------------------------
(***************************************************************************)
(* HTTP clients and their server, end to end: a request is answered once,  *)
(* every pointer libevent keeps is good, and an object is deleted after    *)
(* its user was told once.  For any number of objects and connections,     *)
(* when an object is used for one request (http.h:65) and a                *)
(* BaseEtcdClient outlives its requests.                                   *)
(*                                                                         *)
(* The two halves need each other: that a connection taken for a new       *)
(* request carries no old one is known from the server's m_tmp_req, and    *)
(* that an answer finds its client from the pointers of the client.        *)
(***************************************************************************)
EXTENDS HttpSvr, TLAPS

Use == ~Repeats /\ ~OwnersGo

ToldSeqs == {<<>>} \cup {<<Told[how]>> : how \in DOMAIN Told}

ClientRecord == [dns : Conn \cup {NoConn}, conn : Conn \cup {NoConn},
                 owner : Owner \cup {NoOwner}, asked : 0..2,
                 told : ToldSeqs]
ConnRecord == [cb : Client \cup {NoClient}, up : BOOLEAN, waiting : BOOLEAN,
               net : {"none", "sent", "serving", "ok", "error", "orphan"}]

\* The members of an object, which holds at most one request: its evdns base is
\* its own, its connection was made with that base.
ClientOK(p) ==
  /\ hc[p].asked = 0 => hc[p].dns = NoConn /\ hc[p].conn = NoConn /\ hc[p].told = <<>>
  /\ hc[p].dns # NoConn => hc[p].dns \in dnss
  /\ hc[p].conn # NoConn => hc[p].conn \in conns /\ hc[p].conn = hc[p].dns
  /\ hc[p].owner \in owners \cup {NoOwner}
  /\ hc[p].told # <<>> => p = running

ClientsOK ==
  /\ \A p \in clients : ClientOK(p)
  /\ \A p \in Client \ clients : hc[p] = BlankClient
  /\ \A p, q \in clients : hc[p].dns = hc[q].dns /\ hc[p].dns # NoConn => p = q

RunningTold == running # NoClient => running \in clients /\ hc[running].told # <<>>

\* Only a connection that exists waits, and one that is not up has sent nothing.
WaitingOK ==
  \A c \in Conn : cn[c].waiting => c \in conns /\ (~cn[c].up => cn[c].net = "none")

OneHandled == m_tmp_req \in {NoConn, handling}

ClientInv ==
  HttpTypeOK /\ ConnectionsOwned /\ ClientsOK /\ RunningTold /\ WaitingOK

PairInv == ClientInv /\ SvrTypeOK /\ OneHandled /\ AnsweredOnce

-----------------------------------------------------------------------------
(* What is told.                                                           *)

LEMMA ToldFacts ==
  /\ \A how \in {"ok", "error", "fail"} :
       Append(<<>>, Told[how]) \in ToldSeqs /\ Append(<<>>, Told[how]) # <<>>
  /\ \A x \in ToldSeqs : x # <<>> => Len(x) = 1
<1>1. DOMAIN Told = {"ok", "error", "fail"}
  BY DEF Told
<1>2. ASSUME NEW how \in {"ok", "error", "fail"}
      PROVE  Append(<<>>, Told[how]) = <<Told[how]>>
  OBVIOUS
<1>3. \A x : <<x>> # <<>> /\ Len(<<x>>) = 1
  OBVIOUS
<1> QED BY <1>1, <1>2, <1>3 DEF ToldSeqs

LEMMA TypeParts ==
  HttpTypeOK <=>
    /\ clients \subseteq Client /\ conns \subseteq Conn /\ dnss \subseteq Conn
    /\ owners \subseteq Owner /\ wild \in BOOLEAN
    /\ running \in Client \cup {NoClient}
    /\ hc \in [Client -> ClientRecord] /\ cn \in [Conn -> ConnRecord]
  BY DEF HttpTypeOK, ClientRecord, ToldSeqs, ConnRecord

LEMMA BlankFacts ==
  /\ BlankClient \in ClientRecord
  /\ BlankClient.dns = NoConn /\ BlankClient.conn = NoConn /\ BlankClient.owner = NoOwner
  /\ BlankClient.asked = 0 /\ BlankClient.told = <<>>
  /\ BlankConn \in ConnRecord
  /\ ~BlankConn.waiting /\ ~BlankConn.up /\ BlankConn.net = "none"
  BY DEF BlankClient, ClientRecord, ToldSeqs, BlankConn, ConnRecord

LEMMA DroppedFacts ==
  ASSUME NEW c \in Conn
  PROVE  /\ Dropped(c) \in ConnRecord /\ ~Dropped(c).waiting /\ ~Dropped(c).up
         /\ Dropped(c).net = IF cn[c].net \in {"serving", "orphan"} THEN "orphan" ELSE "none"
  BY DEF Dropped, BlankConn, ConnRecord

-----------------------------------------------------------------------------
(* The server.                                                             *)

LEMMA PairInitInv == PairInit => PairInv
<1> SUFFICES ASSUME PairInit PROVE PairInv
  OBVIOUS
<1> USE DEF PairInit
<1>1. HttpTypeOK
  BY BlankFacts, TypeParts DEF HttpInit
<1>2. ConnectionsOwned
  BY BlankFacts DEF HttpInit, ConnectionsOwned, PendingOwned, OnlyClosedLeak
<1>3. ClientsOK /\ RunningTold /\ WaitingOK
  BY BlankFacts DEF HttpInit, ClientsOK, RunningTold, WaitingOK
<1>4. SvrTypeOK /\ OneHandled
  BY DEF SvrInit, SvrTypeOK, OneHandled
<1>5. AnsweredOnce
  BY BlankFacts, HttpConstants DEF HttpInit, SvrInit, AnsweredOnce, HandledOnce, NoStrayAnswer
<1> QED BY <1>1, <1>2, <1>3, <1>4, <1>5 DEF PairInv, ClientInv

\* The server touches nothing of the clients but where their requests are.
LEMMA NetOnlyInv ==
  ASSUME ClientInv, UNCHANGED <<clients, hc, conns, dnss, owners, running, wild>>,
         cn' \in [Conn -> ConnRecord],
         \A c \in Conn : /\ cn'[c].cb = cn[c].cb /\ cn'[c].up = cn[c].up
                         /\ cn'[c].waiting = cn[c].waiting
                         /\ cn[c].net = "none" => cn'[c].net = "none"
  PROVE  ClientInv'
<1> USE DEF ClientInv
<1>0. conns \subseteq Conn
  BY DEF HttpTypeOK
<1>1. HttpTypeOK'
  BY TypeParts DEF HttpTypeOK, ClientRecord, ToldSeqs, ConnRecord
<1>2. ConnectionsOwned'
  <2>1. PendingOwned'
    BY <1>0 DEF ConnectionsOwned, PendingOwned
  <2>2. OnlyClosedLeak'
    BY <1>0 DEF ConnectionsOwned, OnlyClosedLeak
  <2> QED BY <2>1, <2>2 DEF ConnectionsOwned
<1>3. ClientsOK' /\ RunningTold'
  BY DEF ClientsOK, ClientOK, RunningTold
<1>4. WaitingOK'
  BY DEF WaitingOK
<1> QED BY <1>1, <1>2, <1>3, <1>4

LEMMA ClientSame ==
  ASSUME ClientInv, UNCHANGED httpVars PROVE ClientInv'
<1>1. cn \in [Conn -> ConnRecord]
  BY TypeParts DEF ClientInv
<1> QED BY <1>1, NetOnlyInv DEF httpVars

\* Moving the request of one connection.
LEMMA NetMoves ==
  ASSUME NEW c \in Conn, cn \in [Conn -> ConnRecord],
         NEW n \in {"none", "sent", "serving", "ok", "error", "orphan"},
         cn' = [cn EXCEPT ![c].net = n]
  PROVE  /\ cn' \in [Conn -> ConnRecord] /\ cn'[c].net = n
         /\ \A d \in Conn : /\ cn'[d].cb = cn[d].cb /\ cn'[d].up = cn[d].up
                            /\ cn'[d].waiting = cn[d].waiting
                            /\ d # c => cn'[d] = cn[d]
<1>1. cn[c] \in ConnRecord
  OBVIOUS
<1>2. [cn[c] EXCEPT !.net = n] \in ConnRecord
  BY <1>1 DEF ConnRecord
<1>3. cn'[c] = [cn[c] EXCEPT !.net = n] /\ \A d \in Conn \ {c} : cn'[d] = cn[d]
  OBVIOUS
<1>4. cn'[c].cb = cn[c].cb /\ cn'[c].up = cn[c].up /\ cn'[c].waiting = cn[c].waiting
      /\ cn'[c].net = n
  BY <1>1, <1>3 DEF ConnRecord
<1> QED BY <1>2, <1>3, <1>4

LEMMA RevRequestCBInv == ASSUME PairInv, NEW c \in Conn, RevRequestCB(c) PROVE PairInv'
<1> USE DEF PairInv
<1>0. cn \in [Conn -> ConnRecord] /\ c # NoConn
  BY TypeParts, HttpConstants DEF ClientInv
<1>1. cn' = [cn EXCEPT ![c].net = "serving"] /\ cn[c].net = "sent"
  BY DEF RevRequestCB
<1>2. /\ cn' \in [Conn -> ConnRecord] /\ cn'[c].net = "serving"
      /\ \A d \in Conn : /\ cn'[d].cb = cn[d].cb /\ cn'[d].up = cn[d].up
                         /\ cn'[d].waiting = cn[d].waiting
                         /\ d # c => cn'[d] = cn[d]
  BY <1>0, <1>1, NetMoves
<1>3. ClientInv'
  BY <1>1, <1>2, NetOnlyInv DEF RevRequestCB
<1>4. m_tmp_req = NoConn /\ m_tmp_req' = c /\ handling' = c /\ sent' = [sent EXCEPT ![c] = 0]
  BY DEF RevRequestCB, AnsweredOnce, HandledOnce
<1>5. SvrTypeOK' /\ OneHandled' /\ HandledOnce'
  BY <1>0, <1>4 DEF RevRequestCB, SvrTypeOK, OneHandled, HandledOnce
<1>6. NoStrayAnswer'
  <2> SUFFICES ASSUME NEW d \in Conn
               PROVE  /\ cn'[d].net \in {"serving", "ok", "error", "sent"}
                           => d \in conns' /\ cn'[d].waiting
                      /\ cn'[d].net \in {"serving", "orphan"} <=> d = m_tmp_req'
    BY DEF NoStrayAnswer
  <2>1. /\ cn[d].net \in {"serving", "ok", "error", "sent"} => d \in conns /\ cn[d].waiting
        /\ ~(cn[d].net \in {"serving", "orphan"})
    BY <1>0, <1>4, HttpConstants DEF AnsweredOnce, NoStrayAnswer
  <2>2. conns' = conns
    BY DEF RevRequestCB
  <2>3. CASE d = c
    BY <2>1, <2>2, <2>3, <1>1, <1>2, <1>4
  <2>4. CASE d # c
    BY <2>1, <2>2, <2>4, <1>2, <1>4
  <2> QED BY <2>3, <2>4
<1> QED BY <1>3, <1>5, <1>6 DEF AnsweredOnce

\* An answer: the request that was handled is released.
LEMMA SendInv ==
  ASSUME PairInv, m_tmp_req # NoConn, NEW code \in {"ok", "error"}, Send(m_tmp_req, code),
         m_tmp_req' = NoConn, handling' \in {handling, NoConn}, UNCHANGED m_evhttp
  PROVE  PairInv'
<1> USE DEF PairInv
<1> DEFINE c == m_tmp_req
           n == IF cn[c].net = "serving" THEN code ELSE "none"
<1>0. cn \in [Conn -> ConnRecord] /\ c \in Conn /\ c = handling /\ handling # NoConn
  BY TypeParts DEF ClientInv, SvrTypeOK, OneHandled
<1>1. cn' = [cn EXCEPT ![c].net = n] /\ sent' = [sent EXCEPT ![c] = @ + 1]
  BY DEF Send
<1>2. n \in {"none", "sent", "serving", "ok", "error", "orphan"}
  OBVIOUS
<1>3. /\ cn' \in [Conn -> ConnRecord] /\ cn'[c].net = n
      /\ \A d \in Conn : /\ cn'[d].cb = cn[d].cb /\ cn'[d].up = cn[d].up
                         /\ cn'[d].waiting = cn[d].waiting
                         /\ d # c => cn'[d] = cn[d]
  <2> HIDE DEF n, c
  <2> QED BY <1>0, <1>1, <1>2, NetMoves
<1>4. cn[c].net \in {"serving", "orphan"}
  BY <1>0 DEF AnsweredOnce, NoStrayAnswer
<1>5. \A d \in Conn : cn[d].net = "none" => cn'[d].net = "none"
  BY <1>3, <1>4
<1>6. ClientInv'
  BY <1>3, <1>5, NetOnlyInv DEF Send
<1>7. sent[c] = 0 /\ sent'[c] = 1
  BY <1>0, <1>1 DEF AnsweredOnce, HandledOnce, SvrTypeOK
<1>8. SvrTypeOK' /\ OneHandled'
  BY <1>0, <1>1, <1>7 DEF SvrTypeOK, OneHandled
<1>9. HandledOnce'
  BY <1>0, <1>7, HttpConstants DEF HandledOnce
<1>10. NoStrayAnswer'
  <2> SUFFICES ASSUME NEW d \in Conn
               PROVE  /\ cn'[d].net \in {"serving", "ok", "error", "sent"}
                           => d \in conns' /\ cn'[d].waiting
                      /\ cn'[d].net \in {"serving", "orphan"} <=> d = m_tmp_req'
    BY DEF NoStrayAnswer
  <2>1. /\ cn[d].net \in {"serving", "ok", "error", "sent"} => d \in conns /\ cn[d].waiting
        /\ cn[d].net \in {"serving", "orphan"} <=> d = c
    BY DEF AnsweredOnce, NoStrayAnswer
  <2>2. conns' = conns /\ d # NoConn
    BY HttpConstants DEF Send
  <2>3. CASE d = c
    BY <2>1, <2>2, <2>3, <1>3
  <2>4. CASE d # c
    BY <2>1, <2>2, <2>4, <1>3
  <2> QED BY <2>3, <2>4
<1> QED BY <1>6, <1>8, <1>9, <1>10 DEF AnsweredOnce

LEMMA SvrInv == ASSUME PairInv, SvrStep PROVE PairInv'
<1> USE DEF PairInv
<1>1. ASSUME NEW made \in BOOLEAN, NEW bound \in BOOLEAN, InitSvr(made, bound) PROVE PairInv'
  <2>1. ClientInv'
    BY <1>1, ClientSame DEF InitSvr
  <2>2. SvrTypeOK' /\ OneHandled'
    BY <1>1 DEF InitSvr, SvrTypeOK, OneHandled
  <2>3. AnsweredOnce'
    BY <1>1 DEF InitSvr, httpVars, AnsweredOnce, HandledOnce, NoStrayAnswer
  <2> QED BY <2>1, <2>2, <2>3
<1>2. CASE DeleteSvr
  <2>1. ClientInv'
    BY <1>2, ClientSame DEF DeleteSvr
  <2>2. SvrTypeOK' /\ OneHandled'
    BY <1>2 DEF DeleteSvr, SvrTypeOK, OneHandled
  <2>3. AnsweredOnce'
    BY <1>2 DEF DeleteSvr, httpVars, AnsweredOnce, HandledOnce, NoStrayAnswer
  <2> QED BY <2>1, <2>2, <2>3
<1>3. CASE RevRequestReturns
  <2>1. CASE m_tmp_req # NoConn
    BY <1>3, <2>1, SendInv DEF RevRequestReturns
  <2>2. CASE m_tmp_req = NoConn
    <3>1. UNCHANGED <<httpVars, sent, m_evhttp>> /\ m_tmp_req' = NoConn /\ handling' = NoConn
      BY <1>3, <2>2 DEF RevRequestReturns
    <3>2. ClientInv'
      BY <3>1, ClientSame
    <3>3. SvrTypeOK' /\ OneHandled' /\ HandledOnce'
      BY <3>1 DEF SvrTypeOK, OneHandled, HandledOnce
    <3>4. NoStrayAnswer'
      BY <2>2, <3>1 DEF httpVars, AnsweredOnce, NoStrayAnswer
    <3> QED BY <3>2, <3>3, <3>4 DEF AnsweredOnce
  <2> QED BY <2>1, <2>2
<1>4. ASSUME NEW code \in {"ok", "error"}, Reply(code) PROVE PairInv'
  BY <1>4, SendInv DEF Reply
<1>5. CASE ReplyError
  BY <1>5, SendInv DEF ReplyError
<1> QED BY <1>1, <1>2, <1>3, <1>4, <1>5, RevRequestCBInv DEF SvrStep

-----------------------------------------------------------------------------
(* The clients.                                                            *)

\* Client code moves requests, but for the server a request stays with it.
LEMMA SvrKept ==
  ASSUME PairInv, UNCHANGED svrVars,
         \A d \in Conn :
           /\ cn'[d].net \in {"serving", "ok", "error", "sent"} => d \in conns' /\ cn'[d].waiting
           /\ cn'[d].net \in {"serving", "orphan"} <=> cn[d].net \in {"serving", "orphan"}
  PROVE  SvrTypeOK' /\ OneHandled' /\ AnsweredOnce'
<1>1. SvrTypeOK' /\ OneHandled' /\ HandledOnce'
  BY DEF PairInv, svrVars, SvrTypeOK, OneHandled, AnsweredOnce, HandledOnce
<1>2. NoStrayAnswer'
  BY DEF PairInv, svrVars, AnsweredOnce, NoStrayAnswer
<1> QED BY <1>1, <1>2 DEF AnsweredOnce

\* Owners come and go, and no object loses its owner.
LEMMA OwnersInv ==
  ASSUME Use, ClientInv, NEW o \in Owner, DeleteOwner(o) \/ CreateOwner(o)
  PROVE  ClientInv' /\ UNCHANGED <<conns, cn>>
<1> USE DEF ClientInv
<1>0. /\ UNCHANGED <<clients, hc, conns, dnss, cn, running, wild>>
      /\ owners' \subseteq Owner
      /\ \A p \in clients : hc[p].owner \in owners \cup {NoOwner}
                              => hc[p].owner \in owners' \cup {NoOwner}
  BY DEF DeleteOwner, CreateOwner, HttpTypeOK, Use
<1>1. HttpTypeOK'
  BY <1>0, TypeParts DEF HttpTypeOK, ClientRecord, ToldSeqs, ConnRecord
<1>2. ConnectionsOwned'
  BY <1>0 DEF ConnectionsOwned, PendingOwned, OnlyClosedLeak
<1>3. ClientsOK'
  BY <1>0 DEF ClientsOK, ClientOK
<1>4. RunningTold' /\ WaitingOK'
  BY <1>0 DEF RunningTold, WaitingOK
<1> QED BY <1>0, <1>1, <1>2, <1>3, <1>4

LEMMA CreateClientInv ==
  ASSUME ClientInv, NEW p \in Client, NEW o \in Owner \cup {NoOwner}, CreateClient(p, o)
  PROVE  ClientInv' /\ UNCHANGED <<conns, cn>>
<1> USE DEF ClientInv
<1>0. /\ UNCHANGED <<conns, dnss, cn, owners, running, wild>>
      /\ p \notin clients /\ clients' = clients \cup {p} /\ o \in owners \cup {NoOwner}
      /\ hc \in [Client -> ClientRecord] /\ hc[p] = BlankClient
      /\ hc' = [hc EXCEPT ![p].owner = o]
  BY TypeParts DEF CreateClient, ClientsOK
<1>1. [BlankClient EXCEPT !.owner = o] \in ClientRecord
  BY BlankFacts DEF ClientRecord
<1>2. /\ hc'[p] = [BlankClient EXCEPT !.owner = o]
      /\ \A q \in Client \ {p} : hc'[q] = hc[q]
  BY <1>0
<1>3. /\ hc' \in [Client -> ClientRecord]
      /\ hc'[p].dns = NoConn /\ hc'[p].conn = NoConn /\ hc'[p].owner = o
      /\ hc'[p].asked = 0 /\ hc'[p].told = <<>>
  BY <1>0, <1>1, <1>2 DEF BlankClient
<1>4. HttpTypeOK'
  BY <1>0, <1>3, TypeParts DEF HttpTypeOK, ClientRecord, ToldSeqs, ConnRecord
<1>5. \A q \in clients : q \in clients' /\ q # p /\ hc'[q] = hc[q]
  BY <1>0, <1>2 DEF HttpTypeOK
<1>6. ConnectionsOwned'
  <2>1. PendingOwned'
    BY <1>0, <1>5 DEF ConnectionsOwned, PendingOwned
  <2>2. OnlyClosedLeak'
    BY <1>0, <1>5 DEF ConnectionsOwned, OnlyClosedLeak
  <2> QED BY <1>0, <2>1, <2>2 DEF ConnectionsOwned
<1>7. ClientsOK'
  <2>1. ClientOK(p)'
    BY <1>0, <1>3 DEF ClientOK
  <2>2. ASSUME NEW q \in clients PROVE ClientOK(q)'
    BY <1>0, <1>5 DEF ClientOK, ClientsOK
  <2>3. \A q \in Client \ clients' : hc'[q] = BlankClient
    BY <1>0, <1>2 DEF ClientsOK
  <2>4. \A q, r \in clients' : hc'[q].dns = hc'[r].dns /\ hc'[q].dns # NoConn => q = r
    BY <1>0, <1>3, <1>5 DEF ClientsOK
  <2> QED BY <1>0, <2>1, <2>2, <2>3, <2>4 DEF ClientsOK
<1>8. RunningTold' /\ WaitingOK'
  BY <1>0, <1>5 DEF RunningTold, WaitingOK
<1> QED BY <1>0, <1>4, <1>6, <1>7, <1>8

\* ~BaseHttpClient, with a connection whose request is over or was never made.
LEMMA DestroyInv ==
  ASSUME ClientInv, NEW p \in clients, Destroyed(p),
         cn' = [c \in Conn |-> IF c = hc[p].conn THEN Dropped(c) ELSE cn[c]],
         UNCHANGED <<owners, wild>>, p # running',
         running' \in {running, NoClient},
         \A q \in clients : hc[q].told # <<>> => q = running' \/ q = p
  PROVE  ClientInv'
<1> USE DEF ClientInv
<1>0. /\ clients' = clients \ {p} /\ dnss' = dnss \ {hc[p].dns} /\ conns' = conns \ {hc[p].conn}
      /\ hc \in [Client -> ClientRecord] /\ p \in Client /\ cn \in [Conn -> ConnRecord]
      /\ hc' = [hc EXCEPT ![p] = BlankClient]
  BY TypeParts DEF Destroyed
<1>1. hc'[p] = BlankClient /\ \A q \in Client \ {p} : hc'[q] = hc[q]
  BY <1>0
<1>2. hc' \in [Client -> ClientRecord] /\ cn' \in [Conn -> ConnRecord]
  BY <1>0, BlankFacts, DroppedFacts
<1>3. HttpTypeOK'
  BY <1>0, <1>2, TypeParts DEF HttpTypeOK, ClientRecord, ToldSeqs, ConnRecord
<1>4. \A q \in clients' : q \in clients /\ q # p /\ q \in Client /\ hc'[q] = hc[q]
  BY <1>0, <1>1 DEF HttpTypeOK
<1>5. /\ \A c \in Conn : cn'[c].waiting => cn'[c] = cn[c] /\ cn[c].waiting /\ c # hc[p].conn
      /\ \A c \in conns' : c \in Conn /\ c \in conns /\ cn'[c] = cn[c]
  BY <1>0, DroppedFacts DEF HttpTypeOK
<1>6. ConnectionsOwned'
  <2>1. PendingOwned'
    BY <1>0, <1>4, <1>5 DEF ConnectionsOwned, PendingOwned
  <2>2. \A c \in dnss' : \E q \in clients' : hc'[q].dns = c
    BY <1>0, <1>4, <1>1 DEF ConnectionsOwned, OnlyClosedLeak, HttpTypeOK
  <2>3. \A c \in conns' : \/ \E q \in clients' : hc'[q].conn = c
                          \/ ~cn'[c].up /\ ~cn'[c].waiting
    BY <1>0, <1>1, <1>5 DEF ConnectionsOwned, OnlyClosedLeak, HttpTypeOK
  <2> QED BY <2>1, <2>2, <2>3 DEF ConnectionsOwned, OnlyClosedLeak
<1>7. ClientsOK'
  <2>1. ASSUME NEW q \in clients' PROVE ClientOK(q)'
    <3>1. ClientOK(q) /\ ClientOK(p) /\ q # p /\ q \in clients /\ hc'[q] = hc[q]
      BY <1>4 DEF ClientsOK
    <3>2. hc[q].dns # NoConn => hc[q].dns # hc[p].dns
      BY <3>1 DEF ClientsOK
    <3>3. hc[q].conn # NoConn => hc[q].conn # hc[p].conn
      BY <3>1, <3>2 DEF ClientOK
    <3> QED BY <1>0, <3>1, <3>2, <3>3 DEF ClientOK
  <2>2. \A q \in Client \ clients' : hc'[q] = BlankClient
    BY <1>0, <1>1 DEF ClientsOK
  <2>3. \A q, r \in clients' : hc'[q].dns = hc'[r].dns /\ hc'[q].dns # NoConn => q = r
    BY <1>4 DEF ClientsOK
  <2> QED BY <2>1, <2>2, <2>3 DEF ClientsOK
<1>8. RunningTold'
  BY <1>0, <1>1 DEF RunningTold, HttpTypeOK
<1>9. WaitingOK'
  BY <1>0, <1>5 DEF WaitingOK
<1> QED BY <1>3, <1>6, <1>7, <1>8, <1>9

\* For the server, freeing a connection is giving up its request.
LEMMA DropKept ==
  ASSUME PairInv, UNCHANGED svrVars, NEW x,
         conns' = conns \ {x}, cn' = [c \in Conn |-> IF c = x THEN Dropped(c) ELSE cn[c]]
  PROVE  SvrTypeOK' /\ OneHandled' /\ AnsweredOnce'
<1> SUFFICES ASSUME NEW d \in Conn
             PROVE  /\ cn'[d].net \in {"serving", "ok", "error", "sent"}
                         => d \in conns' /\ cn'[d].waiting
                    /\ cn'[d].net \in {"serving", "orphan"} <=> cn[d].net \in {"serving", "orphan"}
  BY SvrKept
<1>1. cn'[d] = IF d = x THEN Dropped(d) ELSE cn[d]
  OBVIOUS
<1>2. cn[d].net \in {"serving", "ok", "error", "sent"} => d \in conns /\ cn[d].waiting
  BY DEF PairInv, AnsweredOnce, NoStrayAnswer
<1>3. CASE d = x
  BY <1>1, <1>3, DroppedFacts
<1>4. CASE d # x
  BY <1>1, <1>2, <1>4
<1> QED BY <1>3, <1>4

LEMMA RequestRefusedInv ==
  ASSUME Use, PairInv, UNCHANGED svrVars, NEW p \in Client, RequestRefused(p)
  PROVE  PairInv'
<1> USE DEF PairInv
<1>1. p \in clients /\ ClientOK(p) /\ hc[p].asked = 0 /\ hc[p].told = <<>>
  BY DEF ClientInv, Use, RequestRefused, MayRequest, ClientsOK, ClientOK
<1>2. p # running /\ ~wild /\ wild' = wild /\ running' = running
  <2>1. p # running
    BY <1>1, HttpConstants DEF ClientInv, RunningTold, HttpTypeOK
  <2>2. ~wild /\ wild' = FALSE /\ running' = running
    BY <1>1 DEF RequestRefused, MayRequest, ClientOK
  <2>3. wild = FALSE
    BY <2>2 DEF ClientInv, HttpTypeOK
  <2> QED BY <2>1, <2>2, <2>3
<1>3. ClientInv'
  BY <1>1, <1>2, DestroyInv, HttpConstants DEF RequestRefused, ClientInv, ClientsOK, ClientOK
<1> QED BY <1>3, DropKept DEF RequestRefused, Destroyed

LEMMA CallbackReturnsInv ==
  ASSUME PairInv, UNCHANGED svrVars, CallbackReturns PROVE PairInv'
<1> USE DEF PairInv
<1>1. running \in clients /\ running # NoClient /\ running' = NoClient
  BY DEF ClientInv, RunningTold, CallbackReturns
<1>2. /\ Destroyed(running) /\ UNCHANGED <<wild, owners>>
      /\ cn' = [c \in Conn |-> IF c = hc[running].conn THEN Dropped(c) ELSE cn[c]]
  BY <1>1 DEF CallbackReturns
<1>3. ClientInv'
  BY <1>1, <1>2, DestroyInv DEF ClientInv, ClientsOK, ClientOK
<1> QED BY <1>2, <1>3, DropKept DEF Destroyed

LEMMA RequestInv ==
  ASSUME Use, PairInv, UNCHANGED svrVars, NEW p \in Client, NEW made \in BOOLEAN,
         Request(p, made)
  PROVE  PairInv'
<1> USE DEF PairInv
<1>1. PICK c \in Conn \ (conns \cup dnss) :
        /\ cn[c].net = "none"
        /\ conns' = conns \cup {c} /\ dnss' = dnss \cup {c}
        /\ cn' = [cn EXCEPT ![c] = [BlankConn EXCEPT !.cb = p, !.waiting = made]]
        /\ hc' = [hc EXCEPT ![p].dns = c, ![p].conn = c, ![p].asked = @ + 1]
  BY DEF Request
<1>2. /\ UNCHANGED <<clients, owners, running, wild>> /\ c # NoConn
      /\ hc \in [Client -> ClientRecord] /\ cn \in [Conn -> ConnRecord]
  BY TypeParts, HttpConstants DEF ClientInv, Request
<1>3. /\ p \in clients /\ hc[p].asked = 0 /\ hc[p].told = <<>>
      /\ hc[p].dns = NoConn /\ hc[p].conn = NoConn /\ hc[p].owner \in owners \cup {NoOwner}
  BY DEF ClientInv, Use, Request, MayRequest, ClientsOK, ClientOK
<1>4. /\ hc'[p] = [hc[p] EXCEPT !.dns = c, !.conn = c, !.asked = @ + 1]
      /\ \A q \in Client \ {p} : hc'[q] = hc[q]
  BY <1>1, <1>2
<1>5. /\ hc'[p] \in ClientRecord
      /\ hc'[p].dns = c /\ hc'[p].conn = c /\ hc'[p].asked = 1
      /\ hc'[p].told = <<>> /\ hc'[p].owner = hc[p].owner
  <2>1. /\ hc[p] \in ClientRecord /\ hc[p].owner \in Owner \cup {NoOwner}
        /\ hc[p].asked + 1 = 1 /\ 1 \in 0..2 /\ <<>> \in ToldSeqs
    BY <1>2, <1>3 DEF ClientRecord, ToldSeqs
  <2>2. hc'[p] = [dns |-> c, conn |-> c, owner |-> hc[p].owner, asked |-> 1, told |-> <<>>]
    <3>1. PICK w : w = hc[p].owner
      OBVIOUS
    <3>2. hc[p] = [dns |-> NoConn, conn |-> NoConn, owner |-> w, asked |-> 0, told |-> <<>>]
      BY <1>3, <2>1, <3>1 DEF ClientRecord
    <3>3. hc'[p] = [[dns |-> NoConn, conn |-> NoConn, owner |-> w, asked |-> 0, told |-> <<>>]
                     EXCEPT !.dns = c, !.conn = c, !.asked = 1]
      BY <1>4, <2>1, <3>2
    <3> QED BY <3>1, <3>3
  <2> QED BY <2>1, <2>2 DEF ClientRecord
<1>6. hc' \in [Client -> ClientRecord]
  BY <1>1, <1>2, <1>4, <1>5
<1>7. /\ cn'[c] = [BlankConn EXCEPT !.cb = p, !.waiting = made]
      /\ \A d \in Conn \ {c} : cn'[d] = cn[d]
  BY <1>1, <1>2
<1>8. /\ cn'[c] \in ConnRecord /\ cn'[c].cb = p /\ cn'[c].waiting = made
      /\ ~cn'[c].up /\ cn'[c].net = "none"
  BY <1>7 DEF BlankConn, ConnRecord
<1>9. cn' \in [Conn -> ConnRecord]
  BY <1>1, <1>2, <1>7, <1>8
<1>10. HttpTypeOK'
  BY <1>1, <1>2, <1>6, <1>9 DEF ClientInv, HttpTypeOK, ClientRecord, ToldSeqs, ConnRecord
<1>11. \A q \in clients : q # p => q \in Client /\ hc'[q] = hc[q]
  BY <1>4 DEF ClientInv, HttpTypeOK
<1>12. \A d \in conns : d # c /\ d \in Conn /\ cn'[d] = cn[d]
  BY <1>1, <1>7 DEF ClientInv, HttpTypeOK
<1>13. ConnectionsOwned'
  <2>1. PendingOwned'
    <3> SUFFICES ASSUME NEW d \in conns', cn'[d].waiting
                 PROVE  /\ cn'[d].cb \in clients' /\ hc'[cn'[d].cb].conn = d
                        /\ hc'[cn'[d].cb].told = <<>>
      BY DEF PendingOwned
    <3>1. CASE d = c
      BY <3>1, <1>2, <1>3, <1>5, <1>8
    <3>2. CASE d # c
      <4>1. /\ d \in conns /\ cn'[d] = cn[d] /\ cn[d].cb \in clients
            /\ hc[cn[d].cb].conn = d /\ hc[cn[d].cb].told = <<>>
        BY <3>2, <1>1, <1>12 DEF ClientInv, ConnectionsOwned, PendingOwned
      <4>2. cn[d].cb # p
        BY <4>1, <1>3, HttpConstants, <1>12
      <4> QED BY <4>1, <4>2, <1>2, <1>11
    <3> QED BY <3>1, <3>2
  <2>2. \A d \in dnss' : \E q \in clients' : hc'[q].dns = d
    <3> SUFFICES ASSUME NEW d \in dnss' PROVE \E q \in clients : hc'[q].dns = d
      BY <1>2
    <3>1. CASE d = c
      BY <3>1, <1>3, <1>5
    <3>2. CASE d # c
      <4>1. PICK q \in clients : hc[q].dns = d
        BY <3>2, <1>1 DEF ClientInv, ConnectionsOwned, OnlyClosedLeak
      <4>2. d # NoConn
        BY <3>2, <1>1, HttpConstants DEF ClientInv, HttpTypeOK
      <4> QED BY <4>1, <4>2, <1>3, <1>11
    <3> QED BY <3>1, <3>2
  <2>3. \A d \in conns' : \/ \E q \in clients' : hc'[q].conn = d
                          \/ ~cn'[d].up /\ ~cn'[d].waiting
    <3> SUFFICES ASSUME NEW d \in conns', cn'[d].up \/ cn'[d].waiting
                 PROVE  \E q \in clients : hc'[q].conn = d
      BY <1>2
    <3>1. CASE d = c
      BY <3>1, <1>3, <1>5
    <3>2. CASE d # c
      <4>1. PICK q \in clients : hc[q].conn = d
        BY <3>2, <1>1, <1>12 DEF ClientInv, ConnectionsOwned, OnlyClosedLeak
      <4>2. d # NoConn
        BY <3>2, <1>1, <1>12, HttpConstants
      <4> QED BY <4>1, <4>2, <1>3, <1>11
    <3> QED BY <3>1, <3>2
  <2>4. ~wild'
    BY <1>2 DEF ClientInv, ConnectionsOwned
  <2> QED BY <2>1, <2>2, <2>3, <2>4 DEF ConnectionsOwned, OnlyClosedLeak
<1>14. ClientsOK'
  <2>1. ClientOK(p)'
    BY <1>1, <1>2, <1>3, <1>5 DEF ClientOK
  <2>2. ASSUME NEW q \in clients, q # p PROVE ClientOK(q)'
    <3>1. ClientOK(q) /\ hc'[q] = hc[q]
      BY <2>2, <1>11 DEF ClientInv, ClientsOK
    <3> QED BY <3>1, <1>1, <1>2 DEF ClientOK
  <2>3. \A q \in Client \ clients' : hc'[q] = BlankClient
    BY <1>2, <1>3, <1>4 DEF ClientInv, ClientsOK
  <2>4. \A q \in clients : q # p => hc'[q].dns # c
    BY <1>1, <1>2, <1>11 DEF ClientInv, ClientsOK, ClientOK
  <2>5. \A q, r \in clients' : hc'[q].dns = hc'[r].dns /\ hc'[q].dns # NoConn => q = r
    BY <1>2, <1>5, <1>11, <2>4 DEF ClientInv, ClientsOK
  <2> QED BY <1>2, <2>1, <2>2, <2>3, <2>5 DEF ClientsOK
<1>15. RunningTold'
  BY <1>2, <1>3, <1>11, <1>5 DEF ClientInv, RunningTold
<1>16. WaitingOK'
  BY <1>1, <1>7, <1>8 DEF ClientInv, WaitingOK
<1>17. SvrTypeOK' /\ OneHandled' /\ AnsweredOnce'
  <2> SUFFICES ASSUME NEW d \in Conn
               PROVE  /\ cn'[d].net \in {"serving", "ok", "error", "sent"}
                           => d \in conns' /\ cn'[d].waiting
                      /\ cn'[d].net \in {"serving", "orphan"} <=> cn[d].net \in {"serving", "orphan"}
    BY SvrKept
  <2>1. CASE d = c
    BY <2>1, <1>1, <1>8
  <2>2. CASE d # c
    BY <2>2, <1>1, <1>7 DEF AnsweredOnce, NoStrayAnswer
  <2> QED BY <2>1, <2>2
<1> QED BY <1>10, <1>13, <1>14, <1>15, <1>16, <1>17 DEF ClientInv

LEMMA ConnectedInv ==
  ASSUME PairInv, UNCHANGED svrVars, NEW c \in Conn, Connected(c) PROVE PairInv'
<1> USE DEF PairInv
<1>1. /\ UNCHANGED <<clients, hc, conns, dnss, owners, running, wild>>
      /\ cn \in [Conn -> ConnRecord] /\ cn[c].waiting /\ c \in conns /\ cn[c].net = "none"
      /\ cn' = [cn EXCEPT ![c].up = TRUE, ![c].net = "sent"]
      /\ conns \subseteq Conn
  BY TypeParts DEF Connected, ClientInv, WaitingOK
<1>2. /\ cn'[c] = [cn[c] EXCEPT !.up = TRUE, !.net = "sent"]
      /\ \A d \in Conn \ {c} : cn'[d] = cn[d]
  BY <1>1
<1>3. /\ cn'[c] \in ConnRecord /\ cn'[c].cb = cn[c].cb /\ cn'[c].waiting = cn[c].waiting
      /\ cn'[c].up /\ cn'[c].net = "sent"
  BY <1>1, <1>2 DEF ConnRecord
<1>4. cn' \in [Conn -> ConnRecord]
  BY <1>1, <1>2, <1>3
<1>5. HttpTypeOK'
  BY <1>1, <1>4 DEF ClientInv, HttpTypeOK, ClientRecord, ToldSeqs, ConnRecord
<1>6. \A d \in Conn : cn'[d].cb = cn[d].cb /\ cn'[d].waiting = cn[d].waiting
  BY <1>2, <1>3
<1>7. ConnectionsOwned'
  <2>1. PendingOwned'
    BY <1>1, <1>6 DEF ClientInv, ConnectionsOwned, PendingOwned
  <2>2. OnlyClosedLeak'
    BY <1>1, <1>2 DEF ClientInv, ConnectionsOwned, OnlyClosedLeak
  <2> QED BY <1>1, <2>1, <2>2 DEF ClientInv, ConnectionsOwned
<1>8. ClientsOK' /\ RunningTold'
  BY <1>1 DEF ClientInv, ClientsOK, ClientOK, RunningTold
<1>9. WaitingOK'
  BY <1>1, <1>2, <1>3 DEF ClientInv, WaitingOK
<1>10. SvrTypeOK' /\ OneHandled' /\ AnsweredOnce'
  <2> SUFFICES ASSUME NEW d \in Conn
               PROVE  /\ cn'[d].net \in {"serving", "ok", "error", "sent"}
                           => d \in conns' /\ cn'[d].waiting
                      /\ cn'[d].net \in {"serving", "orphan"} <=> cn[d].net \in {"serving", "orphan"}
    BY SvrKept
  <2>1. CASE d = c
    BY <2>1, <1>1, <1>3
  <2>2. CASE d # c
    BY <2>2, <1>1, <1>2 DEF AnsweredOnce, NoStrayAnswer
  <2> QED BY <2>1, <2>2
<1> QED BY <1>5, <1>7, <1>8, <1>9, <1>10 DEF ClientInv

\* The request of connection c ends, and remote_read_callback tells its object.
LEMMA TellInv ==
  ASSUME PairInv, UNCHANGED svrVars, NEW c \in Conn, Loop, cn[c].waiting,
         NEW how \in {"ok", "error", "fail"}, NEW lost \in BOOLEAN,
         remote_read_callback(cn[c].cb, how,
                              IF lost THEN CloseCallback(hc, cn[c].cb) ELSE hc),
         UNCHANGED <<clients, conns, dnss, owners>>,
         cn' \in [Conn -> ConnRecord], ~cn'[c].waiting,
         lost \/ ~cn'[c].up \/ cn'[c].up = cn[c].up,
         lost => ~cn'[c].up,
         ~(cn'[c].net \in {"serving", "ok", "error", "sent"}),
         cn'[c].net = "orphan" <=> cn[c].net \in {"serving", "orphan"},
         \A d \in Conn \ {c} : cn'[d] = cn[d]
  PROVE  PairInv'
<1> USE DEF PairInv
<1>0. PICK p : p = cn[c].cb
  OBVIOUS
<1>1. /\ c \in conns /\ p \in clients /\ p \in Client /\ hc[p].conn = c /\ hc[p].told = <<>>
      /\ hc \in [Client -> ClientRecord] /\ cn \in [Conn -> ConnRecord]
      /\ hc[p].owner \in owners \cup {NoOwner} /\ p # NoClient /\ c # NoConn
      /\ ClientOK(p) /\ conns \subseteq Conn /\ running = NoClient
  BY <1>0, TypeParts, HttpConstants
     DEF ClientInv, HttpTypeOK, WaitingOK, ConnectionsOwned, PendingOwned, ClientsOK, ClientOK, Loop
<1>2. /\ running' = p /\ wild' = FALSE
      /\ hc' = [(IF lost THEN CloseCallback(hc, p) ELSE hc)
                   EXCEPT ![p].told = Append(@, Told[how])]
  BY <1>0, <1>1 DEF remote_read_callback, TellsGoneOwner
<1>3. /\ \A q \in Client \ {p} : hc'[q] = hc[q]
      /\ hc'[p] = [hc[p] EXCEPT !.told = Append(hc[p].told, Told[how]),
                                !.conn = IF lost THEN NoConn ELSE hc[p].conn]
      /\ DOMAIN hc' = Client /\ hc' = [q \in Client |-> hc'[q]]
  <2>1. CASE lost
    BY <1>1, <1>2, <2>1 DEF CloseCallback, ClientRecord
  <2>2. CASE ~lost
    BY <1>1, <1>2, <2>2 DEF ClientRecord
  <2> QED BY <2>1, <2>2
<1>4. Append(hc[p].told, Told[how]) \in ToldSeqs /\ Append(hc[p].told, Told[how]) # <<>>
  BY <1>1, ToldFacts
<1>5. /\ hc'[p] \in ClientRecord
      /\ hc'[p].told # <<>> /\ hc'[p].dns = hc[p].dns /\ hc'[p].owner = hc[p].owner
      /\ hc'[p].asked = hc[p].asked /\ hc'[p].conn = IF lost THEN NoConn ELSE c
  <2> DEFINE t == Append(hc[p].told, Told[how])
             k == IF lost THEN NoConn ELSE c
  <2>1. /\ hc[p] \in ClientRecord /\ hc[p].owner \in Owner \cup {NoOwner}
        /\ hc[p].asked \in 0..2 /\ hc[p].dns \in Conn \cup {NoConn}
        /\ k \in Conn \cup {NoConn} /\ hc[p].conn = c
    BY <1>1 DEF ClientRecord
  <2>2. hc'[p] = [dns |-> hc[p].dns, conn |-> k, owner |-> hc[p].owner,
                  asked |-> hc[p].asked, told |-> t]
    <3>1. hc[p] = [dns |-> hc[p].dns, conn |-> hc[p].conn, owner |-> hc[p].owner,
                   asked |-> hc[p].asked, told |-> hc[p].told]
      BY <2>1 DEF ClientRecord
    <3> QED BY <3>1, <2>1, <1>3
  <2>3. t \in ToldSeqs /\ t # <<>>
    BY <1>4
  <2>4. k = IF lost THEN NoConn ELSE c
    OBVIOUS
  <2> HIDE DEF t, k
  <2> QED BY <2>1, <2>2, <2>3, <2>4 DEF ClientRecord
<1>6. hc' \in [Client -> ClientRecord]
  BY <1>1, <1>3, <1>5
<1>7. HttpTypeOK'
  BY <1>1, <1>2, <1>6 DEF ClientInv, HttpTypeOK, ClientRecord, ToldSeqs, ConnRecord
<1>8. \A q \in clients : q # p => q \in Client /\ hc'[q] = hc[q]
  BY <1>3 DEF ClientInv, HttpTypeOK
<1>9. \A d \in Conn : cn'[d].waiting => d # c /\ cn'[d] = cn[d]
  OBVIOUS
<1>10. ConnectionsOwned'
  <2>1. PendingOwned'
    <3> SUFFICES ASSUME NEW d \in conns, cn'[d].waiting
                 PROVE  /\ cn'[d].cb \in clients /\ hc'[cn'[d].cb].conn = d
                        /\ hc'[cn'[d].cb].told = <<>>
      BY DEF PendingOwned
    <3>1. /\ d # c /\ cn'[d] = cn[d] /\ cn[d].cb \in clients
          /\ hc[cn[d].cb].conn = d /\ hc[cn[d].cb].told = <<>>
      BY <1>1, <1>9 DEF ClientInv, ConnectionsOwned, PendingOwned
    <3>2. cn[d].cb # p
      BY <1>1, <3>1
    <3> QED BY <3>1, <3>2, <1>8
  <2>2. \A d \in dnss : \E q \in clients : hc'[q].dns = d
    BY <1>5, <1>8 DEF ClientInv, ConnectionsOwned, OnlyClosedLeak
  <2>3. \A d \in conns : \/ \E q \in clients : hc'[q].conn = d
                         \/ ~cn'[d].up /\ ~cn'[d].waiting
    <3> SUFFICES ASSUME NEW d \in conns, cn'[d].up \/ cn'[d].waiting
                 PROVE  \E q \in clients : hc'[q].conn = d
      OBVIOUS
    <3>1. CASE d = c
      BY <3>1, <1>1, <1>5
    <3>2. CASE d # c
      <4>1. PICK q \in clients : hc[q].conn = d
        BY <3>2, <1>1 DEF ClientInv, ConnectionsOwned, OnlyClosedLeak
      <4> QED BY <3>2, <4>1, <1>1, <1>8
    <3> QED BY <3>1, <3>2
  <2> QED BY <1>2, <2>1, <2>2, <2>3 DEF ConnectionsOwned, OnlyClosedLeak
<1>11. ClientsOK'
  <2>1. ClientOK(p)'
    BY <1>1, <1>2, <1>5 DEF ClientOK
  <2>2. ASSUME NEW q \in clients, q # p PROVE ClientOK(q)'
    <3>1. ClientOK(q) /\ hc'[q] = hc[q] /\ q \in Client
      BY <2>2, <1>8 DEF ClientInv, ClientsOK
    <3>2. hc[q].told = <<>>
      BY <3>1, <1>1, HttpConstants DEF ClientOK
    <3> QED BY <3>1, <3>2 DEF ClientOK
  <2>3. \A q \in Client \ clients : hc'[q] = BlankClient
    BY <1>1, <1>3 DEF ClientInv, ClientsOK
  <2>4. \A q, r \in clients : hc'[q].dns = hc'[r].dns /\ hc'[q].dns # NoConn => q = r
    BY <1>1, <1>5, <1>8 DEF ClientInv, ClientsOK
  <2> QED BY <2>1, <2>2, <2>3, <2>4 DEF ClientsOK
<1>12. RunningTold'
  BY <1>1, <1>2, <1>5 DEF RunningTold
<1>13. WaitingOK'
  BY <1>9 DEF ClientInv, WaitingOK
<1>14. SvrTypeOK' /\ OneHandled' /\ AnsweredOnce'
  <2> SUFFICES ASSUME NEW d \in Conn
               PROVE  /\ cn'[d].net \in {"serving", "ok", "error", "sent"}
                           => d \in conns' /\ cn'[d].waiting
                      /\ cn'[d].net \in {"serving", "orphan"} <=> cn[d].net \in {"serving", "orphan"}
    BY SvrKept
  <2>1. CASE d = c
    BY <2>1
  <2>2. CASE d # c
    BY <2>2 DEF AnsweredOnce, NoStrayAnswer
  <2> QED BY <2>1, <2>2
<1> QED BY <1>7, <1>10, <1>11, <1>12, <1>13, <1>14 DEF ClientInv

LEMMA ResponseArrivesInv ==
  ASSUME PairInv, UNCHANGED svrVars, NEW c \in Conn, NEW closes \in BOOLEAN,
         ResponseArrives(c, closes)
  PROVE  PairInv'
<1>1. /\ cn \in [Conn -> ConnRecord] /\ cn[c].net \in {"ok", "error", "fail"}
      /\ ~(cn[c].net \in {"serving", "orphan"})
      /\ cn' = [cn EXCEPT ![c].waiting = FALSE, ![c].net = "none", ![c].up = ~closes]
  BY TypeParts DEF PairInv, ClientInv, ResponseArrives
<1>2. /\ cn'[c] = [cn[c] EXCEPT !.waiting = FALSE, !.net = "none", !.up = ~closes]
      /\ \A d \in Conn \ {c} : cn'[d] = cn[d]
  BY <1>1
<1>3. cn'[c] \in ConnRecord /\ ~cn'[c].waiting /\ cn'[c].net = "none" /\ cn'[c].up = ~closes
  BY <1>1, <1>2 DEF ConnRecord
<1>4. cn' \in [Conn -> ConnRecord]
  BY <1>1, <1>2, <1>3
<1>5. cn[c].up
  BY <1>1 DEF PairInv, ClientInv, WaitingOK, ResponseArrives
<1>6. /\ closes \/ ~cn'[c].up \/ cn'[c].up = cn[c].up
      /\ closes => ~cn'[c].up
  BY <1>1, <1>3, <1>5 DEF ConnRecord
<1> QED BY <1>1, <1>2, <1>3, <1>4, <1>6, TellInv DEF ResponseArrives

LEMMA RequestFailsInv ==
  ASSUME PairInv, UNCHANGED svrVars, NEW c \in Conn, RequestFails(c) PROVE PairInv'
<1>1. /\ cn \in [Conn -> ConnRecord] /\ cn[c].cb \in Client \cup {NoClient}
      /\ cn' = [cn EXCEPT ![c] = [Dropped(c) EXCEPT !.cb = cn[c].cb]]
      /\ cn[c].up \in BOOLEAN
  BY TypeParts DEF PairInv, ClientInv, RequestFails, ConnRecord
<1>2. /\ cn'[c] = [Dropped(c) EXCEPT !.cb = cn[c].cb]
      /\ \A d \in Conn \ {c} : cn'[d] = cn[d]
  BY <1>1
<1>3. /\ cn'[c] \in ConnRecord /\ ~cn'[c].waiting /\ ~cn'[c].up
      /\ cn'[c].net = IF cn[c].net \in {"serving", "orphan"} THEN "orphan" ELSE "none"
  BY <1>1, <1>2, DroppedFacts DEF ConnRecord
<1>4. cn' \in [Conn -> ConnRecord]
  BY <1>1, <1>2, <1>3
<1> QED BY <1>1, <1>2, <1>3, <1>4, TellInv DEF RequestFails

LEMMA PairStepInv == ASSUME Use, PairInv, [PairNext]_pairVars PROVE PairInv'
<1>1. CASE UNCHANGED pairVars
  <2>1. ClientInv'
    BY <1>1, ClientSame DEF PairInv, pairVars
  <2>2. SvrTypeOK' /\ OneHandled' /\ AnsweredOnce'
    BY <1>1, SvrKept DEF pairVars, httpVars, PairInv, AnsweredOnce, NoStrayAnswer
  <2> QED BY <2>1, <2>2 DEF PairInv
<1>2. CASE SvrStep
  BY <1>2, SvrInv
<1>3. CASE HttpClientStep /\ UNCHANGED svrVars
  <2> USE <1>3
  <2>1. ASSUME ClientInv', UNCHANGED <<conns, cn>> PROVE PairInv'
    <3>1. SvrTypeOK' /\ OneHandled' /\ AnsweredOnce'
      BY <2>1, SvrKept DEF PairInv, AnsweredOnce, NoStrayAnswer
    <3> QED BY <2>1, <3>1 DEF PairInv
  <2>2. ASSUME NEW o \in Owner, DeleteOwner(o) \/ CreateOwner(o) PROVE PairInv'
    BY <2>1, <2>2, OwnersInv DEF PairInv
  <2>3. ASSUME NEW p \in Client, NEW o \in Owner \cup {NoOwner}, CreateClient(p, o)
        PROVE  PairInv'
    BY <2>1, <2>3, CreateClientInv DEF PairInv
  <2>4. ASSUME NEW p \in Client, NEW made \in BOOLEAN, Request(p, made) PROVE PairInv'
    BY <2>4, RequestInv
  <2>5. ASSUME NEW p \in Client, RequestRefused(p) PROVE PairInv'
    BY <2>5, RequestRefusedInv
  <2>6. ASSUME NEW c \in Conn, Connected(c) PROVE PairInv'
    BY <2>6, ConnectedInv
  <2>7. ASSUME NEW c \in Conn, RequestFails(c) PROVE PairInv'
    BY <2>7, RequestFailsInv
  <2>8. ASSUME NEW c \in Conn, NEW closes \in BOOLEAN, ResponseArrives(c, closes) PROVE PairInv'
    BY <2>8, ResponseArrivesInv
  <2>9. CASE CallbackReturns
    BY <2>9, CallbackReturnsInv
  <2> QED BY <2>2, <2>3, <2>4, <2>5, <2>6, <2>7, <2>8, <2>9
          DEF HttpClientStep, EtcdUser, HttpUser, HttpLoop
<1> QED BY <1>1, <1>2, <1>3 DEF PairNext

-----------------------------------------------------------------------------
(* The theorems.                                                           *)

LEMMA PairAlways == ASSUME Use PROVE PairSpec => []PairInv
<1>1. PairInit => PairInv
  BY PairInitInv
<1>2. PairInv /\ [PairNext]_pairVars => PairInv'
  BY PairStepInv
<1> QED BY <1>1, <1>2, PTL DEF PairSpec

\* Objects, connections and requests have their types (http.h:60, http.h:24).
THEOREM PairTypeCorrect == ASSUME Use PROVE PairSpec => [](HttpTypeOK /\ SvrTypeOK)
<1>1. PairInv => HttpTypeOK /\ SvrTypeOK
  BY DEF PairInv, ClientInv
<1> QED BY <1>1, PairAlways, PTL

\* Every pointer libevent keeps is good and no callback finds its object or that
\* object's owner gone (http.cc:149, http.cc:178).
THEOREM PointersStayGood == ASSUME Use PROVE PairSpec => []ConnectionsOwned
<1>1. PairInv => ConnectionsOwned
  BY DEF PairInv, ClientInv
<1> QED BY <1>1, PairAlways, PTL

\* A request is answered exactly once, and to the client that waits for it or to
\* nobody (http.cc:58).
THEOREM AnswersStaySingle == ASSUME Use PROVE PairSpec => []AnsweredOnce
<1>1. PairInv => AnsweredOnce
  BY DEF PairInv
<1> QED BY <1>1, PairAlways, PTL

\* An object that made a request is deleted only after its user was told, once,
\* how the request ended (http.h:65).
THEOREM DeletedAfterTold == ASSUME Use PROVE PairSpec => FreedOnceTold
<1>1. ASSUME PairInv, [PairNext]_pairVars
      PROVE  [\A p \in clients \ clients' : hc[p].asked > 0 => Len(hc[p].told) = 1]_httpVars
  <2> SUFFICES ASSUME NEW p \in clients \ clients', hc[p].asked > 0 PROVE Len(hc[p].told) = 1
    OBVIOUS
  <2>1. /\ p \in Client /\ hc[p].told \in ToldSeqs /\ hc[p].asked \in 0..2
        /\ Repeats \in BOOLEAN
    BY <1>1, TypeParts, HttpConstants DEF PairInv, ClientInv, ClientRecord
  <2>2. CASE \E q \in Client : RequestRefused(q)
    <3>1. PICK q \in Client : RequestRefused(q)
      BY <2>2
    <3>2. p = q
      BY <3>1 DEF RequestRefused, Destroyed
    <3>3. hc[q].asked = 0
      BY <3>1 DEF RequestRefused, MayRequest, Use
    <3> QED BY <2>1, <3>2, <3>3
  <2>3. CASE CallbackReturns
    <3>1. p = running /\ hc[running].told # <<>>
      BY <1>1, <2>3 DEF CallbackReturns, Destroyed, PairInv, ClientInv, RunningTold
    <3> QED BY <2>1, <3>1, ToldFacts
  <2>4. CASE clients \subseteq clients'
    BY <2>4
  <2>5. \/ \E q \in Client : RequestRefused(q)
        \/ CallbackReturns
        \/ clients \subseteq clients'
    <3>1. ASSUME NEW q \in Client, NEW made \in BOOLEAN, Request(q, made)
          PROVE  clients \subseteq clients'
      BY <3>1 DEF Request
    <3>2. ASSUME SvrStep PROVE clients \subseteq clients'
      BY <3>2 DEF SvrStep, InitSvr, RevRequestCB, Reply, ReplyError, RevRequestReturns,
                  DeleteSvr, Send, httpVars
    <3>3. ASSUME NEW c \in Conn, NEW closes \in BOOLEAN,
                 Connected(c) \/ RequestFails(c) \/ ResponseArrives(c, closes)
          PROVE  clients \subseteq clients'
      BY <3>3 DEF Connected, RequestFails, ResponseArrives
    <3>4. ASSUME NEW o \in Owner, DeleteOwner(o) \/ CreateOwner(o)
          PROVE  clients \subseteq clients'
      BY <3>4 DEF DeleteOwner, CreateOwner
    <3>5. ASSUME NEW q \in Client, NEW o \in Owner \cup {NoOwner}, CreateClient(q, o)
          PROVE  clients \subseteq clients'
      BY <3>5 DEF CreateClient
    <3>6. ASSUME UNCHANGED pairVars PROVE clients \subseteq clients'
      BY <3>6 DEF pairVars, httpVars
    <3> QED BY <1>1, <3>1, <3>2, <3>3, <3>4, <3>5, <3>6
            DEF PairNext, HttpClientStep, HttpUser, EtcdUser, HttpLoop
  <2> QED BY <2>2, <2>3, <2>4, <2>5
<1> QED BY <1>1, PairAlways, PTL DEF PairSpec, FreedOnceTold
=============================================================================
