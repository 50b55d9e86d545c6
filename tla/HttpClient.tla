----------------------------- MODULE HttpClient -----------------------------
(***************************************************************************)
(* BaseHttpClient (http.cc, http.h) and the requests BaseEtcdClient makes  *)
(* with it (etcd_client.h).  An object is made for one request; it deletes *)
(* itself when the request is over, whatever the way.  It holds an evdns   *)
(* base and an evhttp connection, which holds the request; the callbacks   *)
(* carry a raw pointer to the object, and the object of a BaseEtcdClient   *)
(* holds a raw pointer to that owner.                                      *)
(*                                                                         *)
(* libevent is external.  When a request fails, or the peer closes after   *)
(* its answer, a connection that was up first calls the close callback;    *)
(* then the request's callback comes, with no response when it failed.     *)
(* Freeing a connection drops its request without a callback.              *)
(***************************************************************************)
EXTENDS Naturals, FiniteSets, Sequences

CONSTANTS
  Client,     \* addresses of BaseHttpClient objects
  Conn,       \* addresses of evhttp connections, and of the evdns base made with each
  Owner,      \* BaseEtcdClient objects
  NoClient, NoConn, NoOwner,   \* null pointers
  Repeats,    \* TRUE: user code calls Request again on an object that has one
  OwnersGo    \* TRUE: an owner may be destroyed before its requests are over

ASSUME HttpConstants ==
  /\ NoClient \notin Client /\ NoConn \notin Conn /\ NoOwner \notin Owner
  /\ Repeats \in BOOLEAN /\ OwnersGo \in BOOLEAN

VARIABLES
  clients,    \* the BaseHttpClient objects that exist
  hc,         \* [Client -> its members, and what its user knows]
  conns,      \* the evhttp connections that exist
  dnss,       \* the evdns bases that exist
  cn,         \* [Conn -> state of the connection and of its request]
  owners,     \* the BaseEtcdClient objects that exist
  running,    \* the object whose Reply, ReplyError or ConnectFail is running
  wild        \* a callback reached an object that no longer exists

httpVars == <<clients, hc, conns, dnss, cn, owners, running, wild>>

BlankClient == [dns |-> NoConn, conn |-> NoConn, owner |-> NoOwner,
                asked |-> 0, told |-> <<>>]
BlankConn == [cb |-> NoClient, up |-> FALSE, waiting |-> FALSE, net |-> "none"]

HttpInit ==
  /\ clients = {} /\ conns = {} /\ dnss = {} /\ owners = Owner
  /\ hc = [p \in Client |-> BlankClient]
  /\ cn = [c \in Conn |-> BlankConn]
  /\ running = NoClient /\ wild = FALSE

(***************************************************************************)
(* libevent's connections.  cn[c].net is where the request is on its way:  *)
(* "sent", with the server ("serving"), answered "ok" or "error", or still *)
(* with the server after the client gave up ("orphan").                    *)
(***************************************************************************)
Dropped(c) ==
  [BlankConn EXCEPT !.net = IF cn[c].net \in {"serving", "orphan"} THEN "orphan" ELSE "none"]

\* ~BaseHttpClient frees the evdns base and the connection its members name;
\* a close callback made meanwhile only clears m_connection.
Destroyed(p) ==
  /\ clients' = clients \ {p}
  /\ dnss' = dnss \ {hc[p].dns}
  /\ conns' = conns \ {hc[p].conn}
  /\ hc' = [hc EXCEPT ![p] = BlankClient]

\* connection_close_callback forgets the connection, whichever it was.
CloseCallback(h, p) == [h EXCEPT ![p].conn = NoConn]

(***************************************************************************)
(* User code: outside the callbacks, or inside one of them.                *)
(***************************************************************************)
\* BaseHttpClient::Create, and HttpClient::Init of a BaseEtcdClient.
CreateClient(p, o) ==
  /\ ~wild /\ p \notin clients /\ running # p
  /\ o \in owners \cup {NoOwner}
  /\ clients' = clients \cup {p}
  /\ hc' = [hc EXCEPT ![p].owner = o]
  /\ UNCHANGED <<conns, dnss, cn, owners, running, wild>>

\* A second Request on an object would be refused if m_is_request were set.
MayRequest(p) ==
  /\ ~wild /\ p \in clients
  /\ hc[p].asked = 0 \/ (Repeats /\ hc[p].asked = 1)

\* Bad URL, or no evdns base or no connection: ReplyError, then delete this.
RequestRefused(p) ==
  /\ MayRequest(p)
  /\ Destroyed(p)
  /\ cn' = [c \in Conn |-> IF c = hc[p].conn THEN Dropped(c) ELSE cn[c]]
  /\ wild' = (hc[p].owner \notin owners \cup {NoOwner})
  /\ UNCHANGED <<owners, running>>

\* Mutant: the connection is kept in a local variable.
RequestLocal(p, made) ==
  /\ MayRequest(p)
  /\ \E c \in Conn \ (conns \cup dnss) :
       /\ cn[c].net = "none"
       /\ conns' = conns \cup {c} /\ dnss' = dnss \cup {c}
       /\ cn' = [cn EXCEPT ![c] = [BlankConn EXCEPT !.cb = p, !.waiting = made]]
       /\ hc' = [hc EXCEPT ![p].dns = c, ![p].asked = @ + 1]
  /\ UNCHANGED <<clients, owners, running, wild>>

\* The result of evhttp_make_request is not looked at: a request it refuses is
\* released at once and nobody is ever told.
Request(p, made) ==
  /\ MayRequest(p)
  /\ \E c \in Conn \ (conns \cup dnss) :
       /\ cn[c].net = "none"
       /\ conns' = conns \cup {c} /\ dnss' = dnss \cup {c}
       /\ cn' = [cn EXCEPT ![c] = [BlankConn EXCEPT !.cb = p, !.waiting = made]]
       /\ hc' = [hc EXCEPT ![p].dns = c, ![p].conn = c, ![p].asked = @ + 1]
  /\ UNCHANGED <<clients, owners, running, wild>>

DeleteOwner(o) ==
  /\ ~wild /\ o \in owners
  /\ OwnersGo \/ \A p \in clients : hc[p].owner # o
  /\ owners' = owners \ {o}
  /\ UNCHANGED <<clients, hc, conns, dnss, cn, running, wild>>

CreateOwner(o) ==
  /\ ~wild /\ o \notin owners /\ \A p \in clients : hc[p].owner # o
  /\ owners' = owners \cup {o}
  /\ UNCHANGED <<clients, hc, conns, dnss, cn, running, wild>>

(***************************************************************************)
(* Callbacks from the event loop.                                          *)
(***************************************************************************)
Loop == ~wild /\ running = NoClient

Connected(c) ==
  /\ Loop /\ cn[c].waiting /\ ~cn[c].up
  /\ cn' = [cn EXCEPT ![c].up = TRUE, ![c].net = "sent"]
  /\ UNCHANGED <<clients, hc, conns, dnss, owners, running, wild>>

\* What remote_read_callback calls, and what of it reaches the owner: an
\* HttpClient of BaseEtcdClient passes on Reply and ReplyError, not ConnectFail.
Told == [ok |-> "Reply", error |-> "ReplyError", fail |-> "ConnectFail"]
TellsGoneOwner(p, how) ==
  Told[how] # "ConnectFail" /\ hc[p].owner \notin owners \cup {NoOwner}

\* Mutant: a missing response is not reported.
remote_read_callbackSilent(p, how, h) ==
  IF p \notin clients THEN wild' = TRUE /\ UNCHANGED <<hc, running>>
  ELSE /\ hc' = IF how = "fail" THEN h ELSE [h EXCEPT ![p].told = Append(@, Told[how])]
       /\ running' = p
       /\ wild' = TellsGoneOwner(p, how)

remote_read_callback(p, how, h) ==
  IF p \notin clients THEN wild' = TRUE /\ UNCHANGED <<hc, running>>
  ELSE /\ hc' = [h EXCEPT ![p].told = Append(@, Told[how])]
       /\ running' = p
       /\ wild' = TellsGoneOwner(p, how)

ResponseArrives(c, closes) ==
  /\ Loop /\ cn[c].waiting /\ cn[c].net \in {"ok", "error"}
  /\ cn' = [cn EXCEPT ![c].waiting = FALSE, ![c].net = "none", ![c].up = ~closes]
  /\ LET p == cn[c].cb
     IN remote_read_callback(p, cn[c].net, IF closes THEN CloseCallback(hc, p) ELSE hc)
  /\ UNCHANGED <<clients, conns, dnss, owners>>

\* Connection refused or reset, or the timeout of 30 s.
RequestFails(c) ==
  /\ Loop /\ cn[c].waiting
  /\ cn' = [cn EXCEPT ![c] = [Dropped(c) EXCEPT !.cb = cn[c].cb]]
  /\ LET p == cn[c].cb
     IN remote_read_callback(p, "fail", IF cn[c].up THEN CloseCallback(hc, p) ELSE hc)
  /\ UNCHANGED <<clients, conns, dnss, owners>>

\* Mutant: the object is not deleted.
CallbackReturnsKeeps ==
  /\ ~wild /\ running # NoClient
  /\ running' = NoClient
  /\ IF running \notin clients
     THEN wild' = TRUE /\ UNCHANGED <<clients, hc, conns, dnss, cn>>
     ELSE UNCHANGED <<clients, hc, conns, dnss, cn, wild>>
  /\ UNCHANGED owners

\* delete p, at the end of remote_read_callback.
CallbackReturns ==
  /\ ~wild /\ running # NoClient
  /\ running' = NoClient
  /\ IF running \notin clients
     THEN wild' = TRUE /\ UNCHANGED <<clients, hc, conns, dnss, cn>>
     ELSE /\ Destroyed(running)
          /\ cn' = [c \in Conn |-> IF c = hc[running].conn THEN Dropped(c) ELSE cn[c]]
          /\ UNCHANGED wild
  /\ UNCHANGED owners

EtcdUser == \E o \in Owner : DeleteOwner(o) \/ CreateOwner(o)
HttpUser ==
  \E p \in Client : \/ \E o \in Owner \cup {NoOwner} : CreateClient(p, o)
                    \/ \E made \in BOOLEAN : Request(p, made)
                    \/ RequestRefused(p)
HttpLoop ==
  \/ \E c \in Conn : \/ Connected(c) \/ RequestFails(c)
                     \/ \E closes \in BOOLEAN : ResponseArrives(c, closes)
  \/ CallbackReturns

HttpClientStep == HttpUser \/ EtcdUser \/ HttpLoop

\* The loop runs and callbacks return.
HttpFairness ==
  /\ WF_httpVars(CallbackReturns)
  /\ \A c \in Conn :
       SF_httpVars(RequestFails(c) \/ \E closes \in BOOLEAN : ResponseArrives(c, closes))

(***************************************************************************)
(* Properties.                                                             *)
(***************************************************************************)
HttpTypeOK ==
  /\ clients \subseteq Client /\ conns \subseteq Conn /\ dnss \subseteq Conn
  /\ owners \subseteq Owner /\ wild \in BOOLEAN
  /\ running \in Client \cup {NoClient}
  /\ hc \in [Client -> [dns : Conn \cup {NoConn}, conn : Conn \cup {NoConn},
                        owner : Owner \cup {NoOwner}, asked : 0..2,
                        told : {<<>>} \cup {<<Told[how]>> : how \in DOMAIN Told}]]
  /\ cn \in [Conn -> [cb : Client \cup {NoClient}, up : BOOLEAN, waiting : BOOLEAN,
                      net : {"none", "sent", "serving", "ok", "error", "orphan"}]]

\* Every pointer libevent holds is good: a request under way belongs to an
\* object that exists, has not been told anything yet, and still names that
\* connection, so neither the close callback nor the answer can reach freed
\* memory and the destructor cannot drop a request that is under way.
PendingOwned ==
  \A c \in conns : cn[c].waiting =>
     LET p == cn[c].cb IN p \in clients /\ hc[p].conn = c /\ hc[p].told = <<>>

\* What is leaked is bounded: an evdns base always has an owner, and a
\* connection nobody will free is one its peer has closed, without a request.
OnlyClosedLeak ==
  /\ \A c \in dnss : \E p \in clients : hc[p].dns = c
  /\ \A c \in conns : \/ \E p \in clients : hc[p].conn = c
                      \/ ~cn[c].up /\ ~cn[c].waiting

\* Connections, requests and objects belong together: every pointer is good, no
\* more is leaked than closed connections, and no callback finds its object or
\* that object's owner gone (http.h:65).
ConnectionsOwned == PendingOwned /\ OnlyClosedLeak /\ ~wild

\* http.h:65: an object that made a request is deleted only once its user was
\* told, exactly once, how the request ended.
FreedOnceTold ==
  [][\A p \in clients \ clients' : hc[p].asked > 0 => Len(hc[p].told) = 1]_httpVars

\* A request that was sent on its way ends, and its object goes with it.
RequestsEnd ==
  \A p \in Client : (\E c \in Conn : cn[c].waiting /\ cn[c].cb = p) ~> p \notin clients
=============================================================================
