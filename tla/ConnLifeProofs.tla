--------------------------- MODULE ConnLifeProofs ---------------------------
(***************************************************************************)
(* Objects, the map of their owner and their bufferevents agree whatever   *)
(* the application does; and one that keeps to the rules of ConnLife.tla   *)
(* is never called back, nor the library ever works, on a destroyed        *)
(* object, for any number of objects, any depth of calls.                  *)
(***************************************************************************)
EXTENDS ConnLife, SequenceTheorems, TLAPS

-----------------------------------------------------------------------------
(* Sequences.                                                              *)

LEMMA PushFacts ==
    ASSUME NEW S, NEW s \in Seq(S), NEW f \in S
    PROVE  /\ <<f>> \o s \in Seq(S)
           /\ DOMAIN (<<f>> \o s) = 1 .. Len(s) + 1
           /\ (<<f>> \o s)[1] = f
           /\ \A i \in 1 .. Len(s) : (<<f>> \o s)[i + 1] = s[i]
           /\ \A i \in 2 .. Len(s) + 1 : i - 1 \in DOMAIN s
                                         /\ (<<f>> \o s)[i] = s[i - 1]
<1>1. <<f>> \in Seq(S) /\ Len(<<f>>) = 1 /\ <<f>>[1] = f
  OBVIOUS
<1>2. Len(s) \in Nat /\ DOMAIN s = 1 .. Len(s)
  OBVIOUS
<1>3. /\ <<f>> \o s \in Seq(S)
      /\ Len(<<f>> \o s) = Len(s) + 1
      /\ \A i \in 1 .. 1 + Len(s) :
            (<<f>> \o s)[i] = IF i <= 1 THEN <<f>>[i] ELSE s[i - 1]
  BY <1>1, <1>2, ConcatProperties
<1>4. DOMAIN (<<f>> \o s) = 1 .. Len(s) + 1
  BY <1>3
<1> QED
  BY <1>1, <1>2, <1>3, <1>4

LEMMA TailFacts ==
    ASSUME NEW S, NEW s \in Seq(S), s # << >>
    PROVE  /\ Head(s) \in S /\ Head(s) = s[1] /\ 1 \in DOMAIN s
           /\ Tail(s) \in Seq(S)
           /\ DOMAIN Tail(s) = 1 .. Len(s) - 1
           /\ \A i \in DOMAIN Tail(s) : i + 1 \in DOMAIN s
                                        /\ Tail(s)[i] = s[i + 1]
           /\ \A i \in DOMAIN s : i # 1 => i - 1 \in DOMAIN Tail(s)
                                           /\ Tail(s)[i - 1] = s[i]
<1>1. Len(s) \in Nat /\ Len(s) > 0 /\ DOMAIN s = 1 .. Len(s)
  OBVIOUS
<1>2. Tail(s) \in Seq(S) /\ Len(Tail(s)) = Len(s) - 1
  OBVIOUS
<1>3. \A i \in 1 .. Len(Tail(s)) : Tail(s)[i] = s[i + 1]
  BY <1>1, <1>2
<1> QED
  BY <1>1, <1>2, <1>3

-----------------------------------------------------------------------------
(* Members of an object.                                                   *)

LEMMA DistinctFacts ==
    /\ \A o \in Client : o \in Obj /\ o \notin Accepted
    /\ \A o \in Accepted : o \in Obj /\ o \notin Client
    /\ \A o \in Obj : o \in Client \/ o \in Accepted
    /\ NULL \notin Obj /\ NULL \notin Bev
  BY LifeAssumption DEF Obj

LEMMA FreshMember ==
    /\ Fresh \in Members /\ Fresh.alive /\ Fresh.buf = NULL /\ ~Fresh.up
    /\ Gone \in Members /\ ~Gone.alive /\ Gone.buf = NULL /\ ~Gone.up
  BY DEF Fresh, Gone, Members

Released(x, g) == [Freed(x) EXCEPT !.ignore = @ \/ g]

LEMMA FreedMember ==
    ASSUME NEW x \in Members, NEW g \in BOOLEAN
    PROVE  /\ Released(x, g) \in Members /\ Released(x, g).alive = x.alive
           /\ Released(x, g).buf = NULL /\ ~Released(x, g).up
<1> DEFINE z == Freed(x)
<1>1. z \in Members /\ z.alive = x.alive /\ z.buf = NULL /\ ~z.up
  BY DEF Freed, Members
<1> HIDE DEF z
<1>2. (z.ignore \/ g) \in BOOLEAN
  OBVIOUS
<1> DEFINE w == z.ignore \/ g
           y == [z EXCEPT !.ignore = w]
<1>3. w \in BOOLEAN
  BY <1>2
<1> HIDE DEF w
<1>4. y \in Members /\ y.alive = z.alive /\ y.buf = z.buf /\ y.up = z.up
  BY <1>1, <1>3 DEF Members
<1> QED
  BY <1>1, <1>4 DEF w, z, Released

LEMMA AcceptedMember ==
    ASSUME NEW b \in Bev
    PROVE  LET y == [Fresh EXCEPT !.addr = TRUE, !.fd = TRUE, !.buf = b,
                                  !.up = TRUE] IN
           y \in Members /\ y.alive /\ y.up /\ y.buf = b /\ y.fd
  BY DEF Fresh, Members

-----------------------------------------------------------------------------
(* What an action does to objects and bufferevents.                        *)

(* o releases its bufferevent and becomes y.                               *)
Closing(o, y) ==
    /\ y \in Members /\ y.buf = NULL /\ ~y.up
    /\ obj' = [obj EXCEPT ![o] = y]
    /\ bev' = Unlinked(o)

(* o becomes y, which holds the bufferevent b, free before.                *)
Opening(o, y, b, st) ==
    /\ y \in Members /\ y.buf = b
    /\ bev[b].st = "none" /\ st \in {"connecting", "connected", "failed"}
    /\ obj' = [obj EXCEPT ![o] = y]
    /\ bev' = [bev EXCEPT ![b] = [st |-> st, owner |-> o]]

(* o becomes y, and its bufferevent stays what it was.                     *)
Keeping(o, y) ==
    /\ y \in Members /\ y.buf = obj[o].buf
    /\ obj' = [obj EXCEPT ![o] = y]
    /\ bev' = bev

(* The state of the bufferevent b changes.                                 *)
Reporting(b, st) ==
    /\ bev[b].st # "none" /\ st \in {"connected", "failed"}
    /\ bev' = [bev EXCEPT ![b].st = st]

LEMMA UpdateFacts ==
    ASSUME obj \in [Obj -> Members], NEW o \in Obj, NEW y \in Members,
           obj' = [obj EXCEPT ![o] = y]
    PROVE  /\ obj' \in [Obj -> Members] /\ obj'[o] = y
           /\ \A p \in Obj : p # o => obj'[p] = obj[p]
  OBVIOUS

LEMMA UnlinkFacts ==
    ASSUME bev \in [Bev -> Link], NEW o \in Obj, bev' = Unlinked(o)
    PROVE  /\ bev' \in [Bev -> Link]
           /\ \A b \in Bev : b = obj[o].buf => bev'[b].st = "none"
           /\ \A b \in Bev : b # obj[o].buf => bev'[b] = bev[b]
<1>1. NoLink \in Link /\ NoLink.st = "none"
  BY DEF NoLink, Link
<1> QED
  BY <1>1 DEF Unlinked

LEMMA LinkFacts ==
    ASSUME bev \in [Bev -> Link], NEW o \in Obj, NEW b \in Bev,
           NEW st \in {"connecting", "connected", "failed"},
           bev' = [bev EXCEPT ![b] = [st |-> st, owner |-> o]]
    PROVE  /\ bev' \in [Bev -> Link]
           /\ bev'[b].st = st /\ bev'[b].owner = o
           /\ \A p \in Bev : p # b => bev'[p] = bev[p]
<1> DEFINE k == [st |-> st, owner |-> o]
<1>1. k \in Link /\ k.st = st /\ k.owner = o
  BY DEF Link
<1> HIDE DEF k
<1>2. bev' = [bev EXCEPT ![b] = k]
  BY DEF k
<1> QED
  BY <1>1, <1>2

LEMMA ReportFacts ==
    ASSUME bev \in [Bev -> Link], NEW b \in Bev,
           NEW st \in {"connected", "failed"},
           bev' = [bev EXCEPT ![b].st = st]
    PROVE  /\ bev' \in [Bev -> Link]
           /\ bev'[b].st = st /\ bev'[b].owner = bev[b].owner
           /\ \A p \in Bev : p # b => bev'[p] = bev[p]
<1> DEFINE k == [bev[b] EXCEPT !.st = st]
<1>1. bev[b] \in Link
  OBVIOUS
<1>2. k \in Link /\ k.st = st /\ k.owner = bev[b].owner
  BY <1>1 DEF Link
<1> HIDE DEF k
<1>3. bev' = [bev EXCEPT ![b] = k]
  BY DEF k
<1> QED
  BY <1>2, <1>3

-----------------------------------------------------------------------------
(* Every application: types, the map, and whose a bufferevent is.          *)

DeadIsGone == \A o \in Obj : ~Alive(o) => obj[o] = Gone

Owned == \A b \in Bev : bev[b].st # "none" => bev[b].owner \in Obj

LifeInv == TypeOK /\ MapExact /\ OwnBufferevent /\ DeadIsGone /\ Owned

LEMMA LifeClosing ==
    ASSUME LifeInv, ~wild, NEW o \in Obj, NEW y, Closing(o, y),
           ~y.alive => y = Gone
    PROVE  /\ obj' \in [Obj -> Members] /\ bev' \in [Bev -> Link]
           /\ OwnBufferevent' /\ DeadIsGone' /\ Owned'
<1>1. /\ obj \in [Obj -> Members] /\ bev \in [Bev -> Link]
      /\ y \in Members /\ y.buf = NULL
  BY DEF LifeInv, TypeOK, Closing
<1>2. /\ obj' \in [Obj -> Members] /\ obj'[o] = y
      /\ \A p \in Obj : p # o => obj'[p] = obj[p]
  BY <1>1, UpdateFacts DEF Closing
<1>3. /\ bev' \in [Bev -> Link]
      /\ \A b \in Bev : b # obj[o].buf => bev'[b] = bev[b]
  BY <1>1, UnlinkFacts DEF Closing
<1>4. DeadIsGone'
  BY <1>2 DEF DeadIsGone, Alive, LifeInv
<1>5. ASSUME NEW p \in Obj, obj'[p].buf # NULL
      PROVE  bev'[obj'[p].buf].st # "none" /\ bev'[obj'[p].buf].owner = p
  <2>1. p # o /\ obj'[p] = obj[p]
    BY <1>1, <1>2, <1>5
  <2>2. obj[p].buf \in Bev
    BY <1>1, <1>5, <2>1 DEF Members
  <2>3. bev[obj[p].buf].st # "none" /\ bev[obj[p].buf].owner = p
    BY <1>5, <2>1 DEF LifeInv, OwnBufferevent
  <2>4. obj[p].buf # obj[o].buf
    BY <1>5, <2>1, <2>3 DEF LifeInv, OwnBufferevent
  <2> QED
    BY <1>3, <2>1, <2>2, <2>3, <2>4
<1>6. OwnBufferevent'
  BY <1>5 DEF OwnBufferevent
<1>7. Owned'
  BY <1>1, <1>3, UnlinkFacts DEF Owned, LifeInv, Closing
<1> QED
  BY <1>2, <1>3, <1>4, <1>6, <1>7

LEMMA LifeOpening ==
    ASSUME LifeInv, ~wild, NEW o \in Obj, NEW y, NEW b \in Bev, NEW st,
           Opening(o, y, b, st), y.alive
    PROVE  /\ obj' \in [Obj -> Members] /\ bev' \in [Bev -> Link]
           /\ OwnBufferevent' /\ DeadIsGone' /\ Owned'
<1>1. /\ obj \in [Obj -> Members] /\ bev \in [Bev -> Link]
      /\ y \in Members /\ y.buf = b /\ bev[b].st = "none" /\ st # "none"
  BY DEF LifeInv, TypeOK, Opening
<1>2. /\ obj' \in [Obj -> Members] /\ obj'[o] = y
      /\ \A p \in Obj : p # o => obj'[p] = obj[p]
  BY <1>1, UpdateFacts DEF Opening
<1>3. /\ bev' \in [Bev -> Link] /\ bev'[b].st = st /\ bev'[b].owner = o
      /\ \A p \in Bev : p # b => bev'[p] = bev[p]
  BY <1>1, LinkFacts DEF Opening
<1>4. DeadIsGone'
  BY <1>2 DEF DeadIsGone, Alive, LifeInv
<1>5. ASSUME NEW p \in Obj, obj'[p].buf # NULL
      PROVE  bev'[obj'[p].buf].st # "none" /\ bev'[obj'[p].buf].owner = p
  <2>1. CASE p = o
    BY <1>1, <1>2, <1>3, <2>1
  <2>2. CASE p # o
    <3>1. obj'[p] = obj[p]
      BY <1>2, <2>2
    <3>2. obj[p].buf \in Bev
      BY <1>1, <1>5, <3>1 DEF Members
    <3>3. bev[obj[p].buf].st # "none" /\ bev[obj[p].buf].owner = p
      BY <1>5, <3>1 DEF LifeInv, OwnBufferevent
    <3> QED
      BY <1>1, <1>3, <3>1, <3>2, <3>3
  <2> QED
    BY <2>1, <2>2
<1>6. OwnBufferevent'
  BY <1>5 DEF OwnBufferevent
<1>7. Owned'
  BY <1>3 DEF Owned, LifeInv
<1> QED
  BY <1>2, <1>3, <1>4, <1>6, <1>7

LEMMA LifeKeeping ==
    ASSUME LifeInv, ~wild, NEW o \in Obj, NEW y, Keeping(o, y), y.alive
    PROVE  /\ obj' \in [Obj -> Members] /\ bev' \in [Bev -> Link]
           /\ OwnBufferevent' /\ DeadIsGone' /\ Owned'
<1>1. /\ obj \in [Obj -> Members] /\ bev \in [Bev -> Link]
      /\ y \in Members /\ y.buf = obj[o].buf /\ bev' = bev
  BY DEF LifeInv, TypeOK, Keeping
<1>2. /\ obj' \in [Obj -> Members] /\ obj'[o] = y
      /\ \A p \in Obj : p # o => obj'[p] = obj[p]
  BY <1>1, UpdateFacts DEF Keeping
<1>3. DeadIsGone'
  BY <1>2 DEF DeadIsGone, Alive, LifeInv
<1>4. \A p \in Obj : obj'[p].buf = obj[p].buf
  BY <1>1, <1>2
<1>5. OwnBufferevent'
  BY <1>1, <1>4 DEF LifeInv, OwnBufferevent
<1>6. Owned'
  BY <1>1 DEF LifeInv, Owned
<1> QED
  BY <1>1, <1>2, <1>3, <1>5, <1>6

LEMMA LifeReporting ==
    ASSUME LifeInv, ~wild, NEW b \in Bev, NEW st, Reporting(b, st),
           obj' \in [Obj -> Members],
           \A o \in Obj : obj'[o].buf = obj[o].buf
    PROVE  bev' \in [Bev -> Link] /\ OwnBufferevent' /\ Owned'
<1>1. obj \in [Obj -> Members] /\ bev \in [Bev -> Link]
  BY DEF LifeInv, TypeOK
<1>2. /\ bev' \in [Bev -> Link] /\ bev'[b].st = st
      /\ bev'[b].owner = bev[b].owner
      /\ \A p \in Bev : p # b => bev'[p] = bev[p]
  BY <1>1, ReportFacts DEF Reporting
<1>3. st # "none"
  BY DEF Reporting
<1>4. ASSUME NEW p \in Obj, obj'[p].buf # NULL
      PROVE  bev'[obj'[p].buf].st # "none" /\ bev'[obj'[p].buf].owner = p
  <2>1. obj'[p].buf = obj[p].buf /\ obj[p].buf \in Bev
    BY <1>1, <1>4 DEF Members
  <2>2. bev[obj[p].buf].st # "none" /\ bev[obj[p].buf].owner = p
    BY <1>4, <2>1 DEF LifeInv, OwnBufferevent
  <2> QED
    BY <1>2, <1>3, <2>1, <2>2
<1>5. Owned'
  BY <1>2 DEF Owned, LifeInv, Reporting
<1> QED
  BY <1>2, <1>4, <1>5 DEF OwnBufferevent

(* The map when no connector is created or destroyed.                      *)
LEMMA MapKept ==
    ASSUME LifeInv, ~wild, all' = all,
           \A o \in Accepted : Alive(o)' <=> Alive(o)
    PROVE  MapExact'
  BY DEF LifeInv, MapExact, Alive

LEMMA MapUpdated ==
    ASSUME LifeInv, ~wild, NEW o \in Obj, NEW y \in Members,
           obj' = [obj EXCEPT ![o] = y],
           all' = IF y.alive THEN all \cup ({o} \cap Accepted) ELSE all \ {o}
    PROVE  MapExact'
<1>1. obj \in [Obj -> Members] /\ all = {p \in Accepted : obj[p].alive}
  BY DEF LifeInv, TypeOK, MapExact, Alive
<1>2. obj'[o] = y /\ \A p \in Obj : p # o => obj'[p] = obj[p]
  BY <1>1, UpdateFacts
<1>3. \A p \in Accepted : p \in Obj
  BY DistinctFacts
<1>4. \A p \in Accepted : p # o => (obj'[p].alive <=> obj[p].alive)
  BY <1>2, <1>3
<1>5. \A p : p \in all' <=> p \in Accepted /\ obj'[p].alive
  <2>1. CASE y.alive
    BY <1>1, <1>2, <1>4, <2>1
  <2>2. CASE ~y.alive
    BY <1>1, <1>2, <1>4, <2>2
  <2> QED
    BY <2>1, <2>2
<1> QED
  BY <1>5 DEF MapExact, Alive

-----------------------------------------------------------------------------
(* Which of these effects each function has.                               *)

LEMMA DisConnectEffect ==
    ASSUME obj \in [Obj -> Members], NEW o \in Obj, NEW u, DisConnectFrom(o, u),
           Alive(o)
    PROVE  \E y \in Members : y.alive /\ Closing(o, y)
<1> DEFINE g == o \in Accepted
           y == Released(obj[o], g)
<1>1. obj[o] \in Members /\ obj[o].alive
  BY DEF Alive
<1>3. obj' = [obj EXCEPT ![o] = y] /\ bev' = Unlinked(o)
  BY DEF DisConnectFrom, Released
<1>a. g \in BOOLEAN
  OBVIOUS
<1> HIDE DEF g
<1>2. y \in Members /\ y.alive = obj[o].alive /\ y.buf = NULL /\ ~y.up
  BY <1>1, <1>a, FreedMember
<1> HIDE DEF y
<1>4. y.alive
  BY <1>1, <1>2
<1> QED
  BY <1>2, <1>3, <1>4 DEF Closing

LEMMA DeletedEffect ==
    ASSUME NEW o \in Obj, Deleted(o) PROVE Closing(o, Gone)
  BY FreshMember DEF Deleted, Closing

LEMMA ConnectEffect ==
    ASSUME obj \in [Obj -> Members], NEW o \in Obj, ConnectByAddr(o), Alive(o)
    PROVE  \/ \E y \in Members :
                 /\ y.alive /\ y.fd /\ (y.up <=> obj[o].up)
                 /\ Keeping(o, y) /\ stack' = stack
           \/ \E y \in Members, b \in Bev :
                 /\ y.alive /\ (y.up <=> obj[o].up)
                 /\ \/ y.fd /\ Opening(o, y, b, "connecting") /\ stack' = stack
                    \/ /\ FailAtOnce # {} /\ Opening(o, y, b, "failed")
                       /\ \/ stack' = stack
                          \/ stack' = <<At("OnError", o), At("connecting", o)>>
                                        \o stack
<1> USE DEF Alive
<1>1. obj[o] \in Members /\ obj[o].alive
  OBVIOUS
<1>2. CASE /\ obj' = [obj EXCEPT ![o].addr = TRUE, ![o].fd = TRUE]
           /\ UNCHANGED <<bev, stack>>
  <2> DEFINE y == [obj[o] EXCEPT !.addr = TRUE, !.fd = TRUE]
  <2>1. /\ y \in Members /\ y.alive = obj[o].alive /\ y.up = obj[o].up
        /\ y.buf = obj[o].buf /\ y.fd
    BY <1>1 DEF Members
  <2>2. obj' = [obj EXCEPT ![o] = y]
    BY <1>2
  <2> HIDE DEF y
  <2>3. Keeping(o, y)
    BY <1>2, <2>1, <2>2 DEF Keeping
  <2>4. y.alive /\ (y.up <=> obj[o].up)
    BY <1>1, <2>1
  <2> QED
    BY <1>2, <2>1, <2>3, <2>4
<1>3. ASSUME NEW b \in Bev, bev[b].st = "none", NEW g \in BOOLEAN,
             NEW st \in {"connecting", "failed"},
             obj' = [obj EXCEPT ![o] = [@ EXCEPT
                        !.addr = TRUE, !.fd = g, !.buf = b]],
             bev' = [bev EXCEPT ![b] = [st |-> st, owner |-> o]]
      PROVE  \E y \in Members :
               y.alive /\ (y.up <=> obj[o].up) /\ y.fd = g
               /\ Opening(o, y, b, st)
  <2> DEFINE y == [obj[o] EXCEPT !.addr = TRUE, !.fd = g, !.buf = b]
  <2>1. /\ y \in Members /\ y.alive = obj[o].alive /\ y.up = obj[o].up
        /\ y.buf = b /\ y.fd = g
    BY <1>1 DEF Members
  <2>2. obj' = [obj EXCEPT ![o] = y]
    BY <1>3
  <2> HIDE DEF y
  <2>3. Opening(o, y, b, st)
    BY <1>3, <2>1, <2>2 DEF Opening
  <2>4. y.alive /\ (y.up <=> obj[o].up)
    BY <1>1, <2>1
  <2> QED
    BY <2>1, <2>3, <2>4
<1>4. CASE \E b \in Bev :
             /\ bev[b].st = "none"
             /\ \/ /\ obj' = [obj EXCEPT ![o] = [@ EXCEPT
                               !.addr = TRUE, !.fd = TRUE, !.buf = b]]
                   /\ bev' = [bev EXCEPT ![b] = [st |-> "connecting", owner |-> o]]
                   /\ UNCHANGED stack
                \/ /\ "quiet" \in FailAtOnce
                   /\ obj' = [obj EXCEPT ![o] = [@ EXCEPT
                               !.addr = TRUE, !.fd = FALSE, !.buf = b]]
                   /\ bev' = [bev EXCEPT ![b] = [st |-> "failed", owner |-> o]]
                   /\ UNCHANGED stack
                \/ /\ "eventcb" \in FailAtOnce
                   /\ obj' = [obj EXCEPT ![o] = [@ EXCEPT
                               !.addr = TRUE, !.fd = TRUE, !.buf = b]]
                   /\ bev' = [bev EXCEPT ![b] = [st |-> "failed", owner |-> o]]
                   /\ stack' = <<At("OnError", o), At("connecting", o)>> \o stack
  <2>1. PICK b \in Bev :
             /\ bev[b].st = "none"
             /\ \/ /\ obj' = [obj EXCEPT ![o] = [@ EXCEPT
                               !.addr = TRUE, !.fd = TRUE, !.buf = b]]
                   /\ bev' = [bev EXCEPT ![b] = [st |-> "connecting", owner |-> o]]
                   /\ UNCHANGED stack
                \/ /\ "quiet" \in FailAtOnce
                   /\ obj' = [obj EXCEPT ![o] = [@ EXCEPT
                               !.addr = TRUE, !.fd = FALSE, !.buf = b]]
                   /\ bev' = [bev EXCEPT ![b] = [st |-> "failed", owner |-> o]]
                   /\ UNCHANGED stack
                \/ /\ "eventcb" \in FailAtOnce
                   /\ obj' = [obj EXCEPT ![o] = [@ EXCEPT
                               !.addr = TRUE, !.fd = TRUE, !.buf = b]]
                   /\ bev' = [bev EXCEPT ![b] = [st |-> "failed", owner |-> o]]
                   /\ stack' = <<At("OnError", o), At("connecting", o)>> \o stack
    BY <1>4, Zenon
  <2>2. CASE /\ obj' = [obj EXCEPT ![o] = [@ EXCEPT
                               !.addr = TRUE, !.fd = TRUE, !.buf = b]]
             /\ bev' = [bev EXCEPT ![b] = [st |-> "connecting", owner |-> o]]
             /\ UNCHANGED stack
    <3>1. PICK y \in Members : y.alive /\ (y.up <=> obj[o].up) /\ y.fd = TRUE
                               /\ Opening(o, y, b, "connecting")
      BY <1>3, <2>1, <2>2
    <3> QED
      BY <2>2, <3>1
  <2>3. CASE /\ "quiet" \in FailAtOnce
             /\ obj' = [obj EXCEPT ![o] = [@ EXCEPT
                               !.addr = TRUE, !.fd = FALSE, !.buf = b]]
             /\ bev' = [bev EXCEPT ![b] = [st |-> "failed", owner |-> o]]
             /\ UNCHANGED stack
    <3>1. PICK y \in Members : y.alive /\ (y.up <=> obj[o].up) /\ y.fd = FALSE
                               /\ Opening(o, y, b, "failed")
      BY <1>3, <2>1, <2>3
    <3> QED
      BY <2>3, <3>1
  <2>4. CASE /\ "eventcb" \in FailAtOnce
             /\ obj' = [obj EXCEPT ![o] = [@ EXCEPT
                               !.addr = TRUE, !.fd = TRUE, !.buf = b]]
             /\ bev' = [bev EXCEPT ![b] = [st |-> "failed", owner |-> o]]
             /\ stack' = <<At("OnError", o), At("connecting", o)>> \o stack
    <3>1. PICK y \in Members : y.alive /\ (y.up <=> obj[o].up) /\ y.fd = TRUE
                               /\ Opening(o, y, b, "failed")
      BY <1>3, <2>1, <2>4
    <3> QED
      BY <2>4, <3>1
  <2> QED
    BY <2>1, <2>2, <2>3, <2>4
<1> QED
  BY <1>2, <1>4 DEF ConnectByAddr

LEMMA AcceptEffect ==
    ASSUME NEW o \in Obj, NEW b \in Bev, Accept(o, b)
    PROVE  \E y \in Members : y.alive /\ y.up /\ y.fd
                               /\ Opening(o, y, b, "connected")
<1> DEFINE y == [Fresh EXCEPT !.addr = TRUE, !.fd = TRUE, !.buf = b,
                              !.up = TRUE]
<1>1. y \in Members /\ y.alive /\ y.up /\ y.buf = b /\ y.fd
  BY AcceptedMember
<1>2. obj' = [obj EXCEPT ![o] = y]
  BY DEF Accept
<1> HIDE DEF y
<1>3. Opening(o, y, b, "connected")
  BY <1>1, <1>2 DEF Accept, Opening
<1> QED
  BY <1>1, <1>3

LEMMA RaisedEffect ==
    ASSUME obj \in [Obj -> Members], NEW o \in Obj,
           obj' = [obj EXCEPT ![o].up = TRUE]
    PROVE  /\ obj' \in [Obj -> Members]
           /\ \A p \in Obj : /\ obj'[p].buf = obj[p].buf
                             /\ obj'[p].fd = obj[p].fd
                             /\ obj'[p].alive = obj[p].alive
                             /\ p # o => obj'[p] = obj[p]
<1> DEFINE y == [obj[o] EXCEPT !.up = TRUE]
<1>1. obj[o] \in Members
  OBVIOUS
<1>2. y \in Members /\ y.buf = obj[o].buf /\ y.fd = obj[o].fd
      /\ y.alive = obj[o].alive
  BY <1>1 DEF Members
<1>3. obj' = [obj EXCEPT ![o] = y]
  OBVIOUS
<1> HIDE DEF y
<1> QED
  BY <1>2, <1>3, UpdateFacts

LEMMA LoweredEffect ==
    ASSUME obj \in [Obj -> Members], NEW o \in Obj, Alive(o),
           obj' = [obj EXCEPT ![o].fd = FALSE], bev' = bev
    PROVE  \E y \in Members : y.alive /\ Keeping(o, y)
<1> DEFINE y == [obj[o] EXCEPT !.fd = FALSE]
<1>1. obj[o] \in Members /\ obj[o].alive
  BY DEF Alive
<1>2. y \in Members /\ y.buf = obj[o].buf /\ y.alive = obj[o].alive
  BY <1>1 DEF Members
<1>3. obj' = [obj EXCEPT ![o] = y]
  OBVIOUS
<1> HIDE DEF y
<1> QED
  BY <1>1, <1>2, <1>3 DEF Keeping

-----------------------------------------------------------------------------
(* Frames.                                                                 *)

LEMMA AtFrame ==
    ASSUME NEW o \in Obj, NEW f \in Callback \cup {"connecting"}
    PROVE  At(f, o) \in Frame /\ At(f, o).at = f /\ At(f, o).o = o
  BY DEF At, Frame

LEMMA ForeachFrame ==
    ASSUME NEW o \in Obj, NEW t \in SUBSET Accepted
    PROVE  LET f == [At("Foreach", o) EXCEPT !.todo = t] IN
           f \in Frame /\ f.at = "Foreach" /\ f.o = o
  BY DEF At, Frame, Callback

LEMMA PushType ==
    ASSUME NEW s \in Seq(Frame), NEW f \in Frame
    PROVE  <<f>> \o s \in Seq(Frame)
  BY PushFacts

LEMMA TopFrame ==
    ASSUME stack \in Seq(Frame), NEW f, Top(f)
    PROVE  /\ Head(stack).o \in Obj /\ Head(stack).at = f
           /\ Head(stack).todo \subseteq Accepted
           /\ Head(stack) = stack[1] /\ 1 \in DOMAIN stack
           /\ Tail(stack) \in Seq(Frame) /\ stack # << >>
<1>1. Head(stack) \in Frame
  BY TailFacts DEF Top
<1> QED
  BY <1>1, TailFacts DEF Top, Frame

LEMMA ConnectStack ==
    ASSUME NEW o \in Obj, stack \in Seq(Frame)
    PROVE  <<At("OnError", o), At("connecting", o)>> \o stack \in Seq(Frame)
<1>1. At("OnError", o) \in Frame /\ At("connecting", o) \in Frame
  BY AtFrame DEF Callback
<1>2. <<At("OnError", o), At("connecting", o)>> \in Seq(Frame)
  BY <1>1
<1> QED
  BY <1>2

-----------------------------------------------------------------------------
(* LifeInv, one function at a time.                                        *)

LEMMA LifeInit == Init => LifeInv
<1> SUFFICES ASSUME Init PROVE LifeInv
  OBVIOUS
<1>1. /\ Gone \in Members /\ Gone.buf = NULL /\ ~Gone.alive
      /\ NoLink \in Link /\ NoLink.st = "none"
  BY FreshMember DEF NoLink, Link
<1>2. /\ \A o \in Obj : obj[o] = Gone
      /\ \A b \in Bev : bev[b] = NoLink
  BY DEF Init
<1>3. TypeOK
  <2>1. << >> \in Seq(Frame) /\ obj \in [Obj -> Members] /\ bev \in [Bev -> Link]
    BY <1>1 DEF Init
  <2> QED
    BY <2>1 DEF Init, TypeOK
<1>4. MapExact
  BY <1>1, <1>2, DistinctFacts DEF Init, MapExact, Alive
<1>5. OwnBufferevent /\ DeadIsGone /\ Owned
  BY <1>1, <1>2 DEF OwnBufferevent, DeadIsGone, Owned
<1> QED
  BY <1>3, <1>4, <1>5 DEF LifeInv

LEMMA LifeSame ==
    ASSUME LifeInv, ~wild, UNCHANGED <<obj, all, bev>>,
           stack' \in Seq(Frame), wild' \in BOOLEAN
    PROVE  LifeInv'
  BY DEF LifeInv, TypeOK, MapExact, OwnBufferevent, DeadIsGone, Alive, Owned

(* Functions that start or end nothing in the map.                         *)
LEMMA LifeAlike ==
    ASSUME LifeInv, ~wild, NEW o \in Obj, NEW y \in Members, y.alive, Alive(o),
           obj' = [obj EXCEPT ![o] = y], all' = all
    PROVE  MapExact'
<1>1. obj \in [Obj -> Members]
  BY DEF LifeInv, TypeOK
<1>2. obj'[o] = y /\ \A p \in Obj : p # o => obj'[p] = obj[p]
  BY <1>1, UpdateFacts
<1>3. \A p \in Accepted : obj'[p].alive <=> obj[p].alive
  BY <1>2, DistinctFacts DEF Alive
<1> QED
  BY <1>3, MapKept DEF Alive

LEMMA LifeDisConnectFrom ==
    ASSUME LifeInv, ~wild, NEW o \in Obj, Alive(o), NEW u \in Seq(Frame),
           DisConnectFrom(o, u)
    PROVE  LifeInv'
<1>1. obj \in [Obj -> Members] /\ all \subseteq Accepted
  BY DEF LifeInv, TypeOK
<1>2. PICK y \in Members : y.alive /\ Closing(o, y)
  BY <1>1, DisConnectEffect
<1>3. /\ obj' \in [Obj -> Members] /\ bev' \in [Bev -> Link]
      /\ OwnBufferevent' /\ DeadIsGone' /\ Owned'
  BY <1>2, LifeClosing
<1>4. all' = all /\ wild' = wild
  BY DEF DisConnectFrom
<1>5. MapExact'
  BY <1>2, <1>4, LifeAlike DEF Closing
<1>6. stack' \in Seq(Frame)
  BY AtFrame, PushType DEF DisConnectFrom, Callback
<1> QED
  BY <1>1, <1>3, <1>4, <1>5, <1>6 DEF LifeInv, TypeOK

LEMMA LifeDeleted ==
    ASSUME LifeInv, ~wild, NEW o \in Obj, Deleted(o), all' = all \ {o},
           stack' \in Seq(Frame), wild' = wild
    PROVE  LifeInv'
<1>1. Closing(o, Gone) /\ Gone \in Members /\ ~Gone.alive
  BY DeletedEffect, FreshMember
<1>2. /\ obj' \in [Obj -> Members] /\ bev' \in [Bev -> Link]
      /\ OwnBufferevent' /\ DeadIsGone' /\ Owned'
  BY <1>1, LifeClosing
<1>3. MapExact'
  BY <1>1, MapUpdated DEF Closing
<1> QED
  BY <1>2, <1>3 DEF LifeInv, TypeOK

LEMMA LifeNewClient ==
    ASSUME LifeInv, NEW o \in Obj, NewClient(o)
    PROVE  LifeInv'
<1>1. /\ obj \in [Obj -> Members] /\ ~wild /\ o \in Client /\ ~Alive(o)
      /\ obj' = [obj EXCEPT ![o] = Fresh] /\ UNCHANGED <<all, bev, stack, wild>>
  BY DEF LifeInv, TypeOK, NewClient, AppTurn, Unused
<1>2. obj[o].buf = NULL
  BY <1>1, FreshMember DEF LifeInv, DeadIsGone
<1>3. Keeping(o, Fresh) /\ Fresh.alive
  BY <1>1, <1>2, FreshMember DEF Keeping
<1>4. /\ obj' \in [Obj -> Members] /\ bev' \in [Bev -> Link]
      /\ OwnBufferevent' /\ DeadIsGone' /\ Owned'
  BY <1>1, <1>3, LifeKeeping
<1>5. {o} \cap Accepted = {}
  BY <1>1, DistinctFacts
<1>6. MapExact'
  BY <1>1, <1>3, <1>5, FreshMember, MapUpdated
<1> QED
  BY <1>1, <1>4, <1>6 DEF LifeInv, TypeOK

LEMMA LifeConnectByAddr ==
    ASSUME LifeInv, ~wild, NEW o \in Obj, Alive(o), ConnectByAddr(o),
           UNCHANGED <<all, wild>>
    PROVE  LifeInv'
<1>1. obj \in [Obj -> Members] /\ stack \in Seq(Frame)
  BY DEF LifeInv, TypeOK
<1>2. stack' \in Seq(Frame)
  BY <1>1, ConnectEffect, ConnectStack
<1>3. CASE \E y \in Members : y.alive /\ Keeping(o, y)
  <2>1. PICK y \in Members : y.alive /\ Keeping(o, y)
    BY <1>3
  <2>2. /\ obj' \in [Obj -> Members] /\ bev' \in [Bev -> Link]
        /\ OwnBufferevent' /\ DeadIsGone' /\ Owned'
    BY <2>1, LifeKeeping
  <2>3. MapExact'
    BY <2>1, LifeAlike DEF Keeping
  <2> QED
    BY <1>2, <2>2, <2>3 DEF LifeInv, TypeOK
<1>4. CASE \E y \in Members, b \in Bev, st \in {"connecting", "failed"} :
             y.alive /\ Opening(o, y, b, st)
  <2>1. PICK y \in Members, b \in Bev, st \in {"connecting", "failed"} :
             y.alive /\ Opening(o, y, b, st)
    BY <1>4
  <2>2. /\ obj' \in [Obj -> Members] /\ bev' \in [Bev -> Link]
        /\ OwnBufferevent' /\ DeadIsGone' /\ Owned'
    BY <2>1, LifeOpening
  <2>3. MapExact'
    BY <2>1, LifeAlike DEF Opening
  <2> QED
    BY <1>2, <2>2, <2>3 DEF LifeInv, TypeOK
<1> QED
  BY <1>1, <1>3, <1>4, ConnectEffect

LEMMA LifeApplication == ASSUME LifeInv, Application PROVE LifeInv'
<1>1. PICK o \in Obj :
        \/ NewClient(o) \/ ConnectInit(o) \/ TryReconnect(o) \/ DisConnect(o)
        \/ DeleteClient(o) \/ CloseConnect(o) \/ FreeSelf(o) \/ Foreach(o)
  BY DEF Application
<1>2. stack \in Seq(Frame) /\ all \subseteq Accepted /\ wild \in BOOLEAN
  BY DEF LifeInv, TypeOK
<1>3. CASE NewClient(o)
  BY <1>3, LifeNewClient
<1>4. CASE ConnectInit(o) \/ TryReconnect(o)
  BY <1>4, LifeConnectByAddr DEF ConnectInit, TryReconnect, CanCall, AppTurn
<1>5. CASE DisConnect(o)
  BY <1>2, <1>5, LifeDisConnectFrom DEF DisConnect, CanCall, AppTurn
<1>6. CASE DeleteClient(o)
  <2>1. all \ {o} = all
    BY <1>2, <1>6, DistinctFacts DEF DeleteClient
  <2> QED
    BY <1>2, <1>6, <2>1, LifeDeleted DEF DeleteClient, AppTurn
<1>7. CASE CloseConnect(o) \/ FreeSelf(o)
  BY <1>2, <1>7, LifeDeleted DEF CloseConnect, FreeSelf, AppTurn
<1>8. CASE Foreach(o)
  <2>1. all \ {o} \in SUBSET Accepted
    BY <1>2
  <2>2. stack' \in Seq(Frame)
    BY <1>2, <1>8, <2>1, ForeachFrame, PushType DEF Foreach, Push
  <2> QED
    BY <1>2, <1>8, <2>2, LifeSame DEF Foreach, CanCall, AppTurn
<1> QED
  BY <1>1, <1>3, <1>4, <1>5, <1>6, <1>7, <1>8

LEMMA LifeAccept ==
    ASSUME LifeInv, NEW o \in Obj, NEW b \in Bev, Accept(o, b)
    PROVE  LifeInv'
<1>1. /\ ~wild /\ o \in Accepted /\ wild' = wild
      /\ all' = all \cup {o} /\ Push(At("OnConnected", o))
  BY DEF Accept, AtLoop, MapKey
<1>2. stack \in Seq(Frame) /\ all \subseteq Accepted /\ wild \in BOOLEAN
  BY DEF LifeInv, TypeOK
<1>3. PICK y \in Members : y.alive /\ y.up /\ y.fd
                           /\ Opening(o, y, b, "connected")
  BY AcceptEffect
<1>4. /\ obj' \in [Obj -> Members] /\ bev' \in [Bev -> Link]
      /\ OwnBufferevent' /\ DeadIsGone' /\ Owned'
  BY <1>1, <1>3, LifeOpening
<1>5. {o} \cap Accepted = {o}
  BY <1>1
<1>6. MapExact'
  BY <1>1, <1>3, <1>5, MapUpdated DEF Opening
<1>7. stack' \in Seq(Frame)
  BY <1>1, <1>2, AtFrame, PushType DEF Push, Callback
<1> QED
  BY <1>1, <1>2, <1>4, <1>6, <1>7 DEF LifeInv, TypeOK

LEMMA LifeLinkUp ==
    ASSUME LifeInv, NEW b \in Bev, LinkUp(b)
    PROVE  LifeInv'
<1> DEFINE o == bev[b].owner
<1>1. /\ ~wild /\ bev[b].st = "connecting" /\ bev' = [bev EXCEPT ![b].st = "connected"]
      /\ \/ ~Alive(o) /\ wild' = TRUE /\ UNCHANGED <<obj, all, stack>>
         \/ /\ Alive(o) /\ obj' = [obj EXCEPT ![o].up = TRUE]
            /\ Push(At("OnConnected", o)) /\ UNCHANGED <<all, wild>>
  BY DEF LinkUp, AtLoop
<1>2. /\ stack \in Seq(Frame) /\ all \subseteq Accepted /\ wild \in BOOLEAN
      /\ obj \in [Obj -> Members] /\ bev \in [Bev -> Link]
  BY DEF LifeInv, TypeOK
<1>3. Reporting(b, "connected")
  BY <1>1 DEF Reporting
<1>4. CASE ~Alive(o) /\ wild' = TRUE /\ UNCHANGED <<obj, all, stack>>
  <2>1. bev' \in [Bev -> Link] /\ OwnBufferevent' /\ Owned'
    BY <1>1, <1>2, <1>3, <1>4, LifeReporting
  <2> QED
    BY <1>2, <1>4, <2>1 DEF LifeInv, TypeOK, MapExact, DeadIsGone, Alive
<1>5. CASE /\ Alive(o) /\ obj' = [obj EXCEPT ![o].up = TRUE]
           /\ Push(At("OnConnected", o)) /\ UNCHANGED <<all, wild>>
  <2>1. o \in Obj
    BY <1>1 DEF LifeInv, Owned
  <2> HIDE DEF o
  <2>2. /\ obj' \in [Obj -> Members]
        /\ \A p \in Obj : /\ obj'[p].buf = obj[p].buf
                          /\ obj'[p].alive = obj[p].alive
                          /\ p # o => obj'[p] = obj[p]
    BY <1>2, <1>5, <2>1, RaisedEffect
  <2>3. bev' \in [Bev -> Link] /\ OwnBufferevent' /\ Owned'
    BY <1>1, <1>3, <2>2, LifeReporting
  <2>4. \A p \in Obj : Alive(p)' <=> Alive(p)
    BY <2>2 DEF Alive
  <2>5. MapExact'
    BY <1>1, <1>5, <2>4, MapKept, DistinctFacts
  <2>6. DeadIsGone'
    BY <1>5, <2>2, <2>4 DEF LifeInv, DeadIsGone, Alive
  <2>7. stack' \in Seq(Frame)
    BY <1>2, <1>5, <2>1, AtFrame, PushType DEF Push, Callback
  <2> QED
    BY <1>2, <1>5, <2>2, <2>3, <2>5, <2>6, <2>7 DEF LifeInv, TypeOK
<1> QED
  BY <1>1, <1>4, <1>5

LEMMA LifeLinkFails ==
    ASSUME LifeInv, NEW b \in Bev, LinkFails(b)
    PROVE  LifeInv'
<1> DEFINE o == bev[b].owner
<1>1. /\ ~wild /\ bev[b].st \in {"connecting", "connected"}
      /\ bev' = [bev EXCEPT ![b].st = "failed"]
      /\ \/ ~Alive(o) /\ wild' = TRUE /\ UNCHANGED <<obj, all, stack>>
         \/ Push(At("OnError", o)) /\ UNCHANGED <<obj, all, wild>>
  BY DEF LinkFails, AtLoop
<1>2. /\ stack \in Seq(Frame) /\ all \subseteq Accepted /\ wild \in BOOLEAN
      /\ obj \in [Obj -> Members] /\ UNCHANGED <<obj, all>>
  BY <1>1 DEF LifeInv, TypeOK
<1>3. Reporting(b, "failed")
  BY <1>1 DEF Reporting
<1>4. bev' \in [Bev -> Link] /\ OwnBufferevent' /\ Owned'
  BY <1>1, <1>2, <1>3, LifeReporting
<1>5. o \in Obj
  BY <1>1 DEF LifeInv, Owned
<1> HIDE DEF o
<1>6. stack' \in Seq(Frame) /\ wild' \in BOOLEAN
  BY <1>1, <1>2, <1>5, AtFrame, PushType DEF Push, Callback
<1> QED
  BY <1>1, <1>2, <1>4, <1>6 DEF LifeInv, TypeOK, MapExact, DeadIsGone, Alive

LEMMA LifeReadable ==
    ASSUME LifeInv, NEW b \in Bev, Readable(b)
    PROVE  LifeInv'
<1> DEFINE o == bev[b].owner
<1>1. /\ ~wild /\ bev[b].st = "connected"
      /\ \/ GoesWild
         \/ Push(At("OnRecv", o)) /\ UNCHANGED <<obj, all, bev, wild>>
         \/ Alive(o) /\ DisConnectFrom(o, << >>)
  BY DEF Readable, AtLoop
<1>2. stack \in Seq(Frame) /\ << >> \in Seq(Frame) /\ wild \in BOOLEAN
  BY DEF LifeInv, TypeOK
<1>3. o \in Obj
  BY <1>1 DEF LifeInv, Owned
<1> HIDE DEF o
<1>4. CASE GoesWild
  BY <1>1, <1>2, <1>4, LifeSame DEF GoesWild
<1>5. CASE Push(At("OnRecv", o)) /\ UNCHANGED <<obj, all, bev, wild>>
  <2>1. stack' \in Seq(Frame)
    BY <1>2, <1>3, <1>5, AtFrame, PushType DEF Push, Callback
  <2> QED
    BY <1>1, <1>2, <1>5, <2>1, LifeSame
<1>6. CASE Alive(o) /\ DisConnectFrom(o, << >>)
  BY <1>1, <1>2, <1>3, <1>6, LifeDisConnectFrom
<1> QED
  BY <1>1, <1>4, <1>5, <1>6

LEMMA LifeReturn == ASSUME LifeInv, Return PROVE LifeInv'
<1>1. /\ stack \in Seq(Frame) /\ << >> \in Seq(Frame) /\ wild \in BOOLEAN
      /\ obj \in [Obj -> Members] /\ all \subseteq Accepted
  BY DEF LifeInv, TypeOK
<1>2. ASSUME ~wild, GoesWild PROVE LifeInv'
  BY <1>1, <1>2, LifeSame DEF GoesWild
<1>3. ASSUME NEW f, Top(f), ~wild, Pop, UNCHANGED <<obj, all, bev, wild>>
      PROVE  LifeInv'
  <2>1. stack' \in Seq(Frame)
    BY <1>1, <1>3, TopFrame DEF Pop
  <2> QED
    BY <1>1, <1>3, <2>1, LifeSame
<1> DEFINE o == Head(stack).o
<1>4. ASSUME NEW f, Top(f), ~wild, Alive(o), DisConnectFrom(o, Tail(stack))
      PROVE  LifeInv'
  <2>1. o \in Obj /\ Tail(stack) \in Seq(Frame)
    BY <1>1, <1>4, TopFrame
  <2> QED
    BY <1>4, <2>1, LifeDisConnectFrom
<1>5. CASE OnConnectedReturns
  BY <1>3, <1>5 DEF OnConnectedReturns
<1>6. CASE OnRecvReturns
  BY <1>2, <1>3, <1>4, <1>6 DEF OnRecvReturns
<1>7. CASE OnErrorReturns
  BY <1>2, <1>4, <1>7 DEF OnErrorReturns
<1>8. CASE OnDisconnectedReturns
  <2>1. CASE all' = all \ {o} /\ Deleted(o) /\ Pop /\ UNCHANGED wild
    <3>1. o \in Obj /\ stack' \in Seq(Frame)
      BY <1>1, <1>8, <2>1, TopFrame DEF OnDisconnectedReturns, Pop
    <3> QED
      BY <1>8, <2>1, <3>1, LifeDeleted DEF OnDisconnectedReturns
  <2> QED
    BY <1>2, <1>3, <1>8, <2>1 DEF OnDisconnectedReturns
<1>9. CASE ForeachReturns
  <2> DEFINE rest == Head(stack).todo \cap all
  <2>1. rest \subseteq Accepted /\ \A n \in rest : n \in Obj
    BY <1>1, DistinctFacts
  <2>2. CASE \E n \in rest :
               /\ stack' = <<[At("Foreach", n) EXCEPT !.todo = rest \ {n}]>>
                             \o Tail(stack)
               /\ UNCHANGED <<obj, all, bev, wild>>
    <3>1. PICK n \in rest :
             /\ stack' = <<[At("Foreach", n) EXCEPT !.todo = rest \ {n}]>>
                             \o Tail(stack)
             /\ UNCHANGED <<obj, all, bev, wild>>
      BY <2>2
    <3>2. n \in Obj /\ rest \ {n} \in SUBSET Accepted
      BY <2>1
    <3> HIDE DEF rest
    <3>3. stack' \in Seq(Frame)
      <4>1. Tail(stack) \in Seq(Frame)
        BY <1>1, <1>9, TopFrame DEF ForeachReturns
      <4> QED
        BY <3>1, <3>2, <4>1, ForeachFrame, PushType
    <3> QED
      BY <1>1, <1>9, <3>1, <3>3, LifeSame DEF ForeachReturns
  <2> QED
    BY <1>2, <1>3, <1>9, <2>2 DEF ForeachReturns
<1>10. CASE ConnectReturns
  <2>1. CASE /\ Alive(o) /\ obj' = [obj EXCEPT ![o].fd = FALSE] /\ Pop
             /\ UNCHANGED <<all, bev, wild>>
    <3>1. o \in Obj /\ stack' \in Seq(Frame) /\ ~wild
      BY <1>1, <1>10, <2>1, TopFrame DEF ConnectReturns, Pop
    <3> HIDE DEF o
    <3>2. PICK y \in Members : y.alive /\ Keeping(o, y)
      BY <1>1, <2>1, <3>1, LoweredEffect
    <3>3. /\ obj' \in [Obj -> Members] /\ bev' \in [Bev -> Link]
          /\ OwnBufferevent' /\ DeadIsGone' /\ Owned'
      BY <3>1, <3>2, LifeKeeping
    <3>4. MapExact'
      BY <2>1, <3>1, <3>2, LifeAlike DEF Keeping
    <3> QED
      BY <1>1, <2>1, <3>1, <3>3, <3>4 DEF LifeInv, TypeOK
  <2> QED
    BY <1>2, <1>10, <2>1 DEF ConnectReturns
<1> QED
  BY <1>5, <1>6, <1>7, <1>8, <1>9, <1>10 DEF Return

LEMMA LifeEvent == ASSUME LifeInv, Event PROVE LifeInv'
  BY LifeAccept, LifeLinkUp, LifeLinkFails, LifeReadable DEF Event

LEMMA LifeInvariant == Spec => []LifeInv
<1>1. LifeInv /\ [Next]_vars => LifeInv'
  <2> SUFFICES ASSUME LifeInv, [Next]_vars PROVE LifeInv'
    OBVIOUS
  <2>1. CASE Next
    BY <2>1, LifeApplication, LifeEvent, LifeReturn DEF Next
  <2>2. CASE UNCHANGED vars
    BY <2>2 DEF vars, LifeInv, TypeOK, MapExact, OwnBufferevent, DeadIsGone,
                Alive, Owned
  <2> QED
    BY <2>1, <2>2
<1> QED
  BY <1>1, LifeInit, PTL DEF Spec

(* The types of the state (connector.h:108-117), the member of every object,*)
(* bufferevent, and frame.                                                 *)
THEOREM LifeTypeCorrect == Spec => []TypeOK
<1>1. LifeInv => TypeOK
  BY DEF LifeInv
<1> QED
  BY <1>1, LifeInvariant, PTL

(* BaseConnectorMgr's map holds exactly the connectors that exist, whatever *)
(* the application closes, frees or creates, and in which callback         *)
(* (listener.cc:21-33, 58-66, 79-95).                                      *)
THEOREM MapStaysExact == Spec => []MapExact
<1>1. LifeInv => MapExact
  BY DEF LifeInv
<1> QED
  BY <1>1, LifeInvariant, PTL

(* free() never frees a bufferevent a second time, nor that of another     *)
(* object (connector.cc:31-51), for every application.                     *)
THEOREM BuffereventsStayOwned == Spec => []OwnBufferevent
<1>1. LifeInv => OwnBufferevent
  BY DEF LifeInv
<1> QED
  BY <1>1, LifeInvariant, PTL

-----------------------------------------------------------------------------
(***************************************************************************)
(* An application that neither closes an object in use nor reconnects      *)
(* early, where connecting never fails at once.  Safety of each step needs *)
(* to know that a frame which will close its object when the callback      *)
(* returns is the last one to use it.                                      *)
(***************************************************************************)
Careful == ~CloseBusy /\ ~ReconnectEarly /\ FailAtOnce = {}

Closes(f) == f.at \in {"OnRecv", "OnError", "on_disconnected"} /\ f.o \in Accepted

FramesOK(s, x) ==
    \A i \in DOMAIN s :
        /\ s[i].at # "connecting"
        /\ s[i].at = "Foreach" => s[i].o \in Accepted
        /\ Uses(s[i]) => x[s[i].o].alive
        /\ Closes(s[i]) => \A j \in DOMAIN s :
                              i < j /\ Uses(s[j]) => s[j].o # s[i].o

(* A failed bufferevent is one that OnError is about to end.               *)
Reported(s, k) ==
    \A b \in Bev : k[b].st = "failed" =>
        \E i \in DOMAIN s : s[i].at = "OnError" /\ s[i].o = k[b].owner

UpHolds == \A o \in Obj : obj[o].up =>
    obj[o].buf # NULL /\ bev[obj[o].buf].st \in {"connected", "failed"}

HoldsFd == \A o \in Obj : obj[o].buf # NULL => obj[o].fd

SafeInv ==
    /\ LifeInv /\ NoWild /\ NoStrayLink /\ UpHolds /\ HoldsFd
    /\ FramesOK(stack, obj) /\ Reported(stack, bev)

LEMMA TypesOfSafe ==
    ASSUME SafeInv
    PROVE  /\ obj \in [Obj -> Members] /\ bev \in [Bev -> Link]
           /\ stack \in Seq(Frame) /\ ~wild /\ all \subseteq Accepted
           /\ all = {o \in Accepted : Alive(o)}
           /\ \A b \in Bev : bev[b].st # "none" =>
                 /\ bev[b].owner \in Obj /\ obj[bev[b].owner].alive
                 /\ obj[bev[b].owner].buf = b
           /\ \A o \in Obj : obj[o].buf \in Bev \cup {NULL}
           /\ \A o \in Obj : obj[o].buf # NULL =>
                 bev[obj[o].buf].st # "none" /\ bev[obj[o].buf].owner = o
<1>1. /\ obj \in [Obj -> Members] /\ bev \in [Bev -> Link]
      /\ stack \in Seq(Frame) /\ ~wild /\ all \subseteq Accepted
  BY DEF SafeInv, LifeInv, TypeOK, NoWild
<1>2. all = {o \in Accepted : Alive(o)}
  BY <1>1 DEF SafeInv, LifeInv, MapExact
<1>3. \A o \in Obj : obj[o].buf \in Bev \cup {NULL}
  BY <1>1 DEF Members
<1> QED
  BY <1>1, <1>2, <1>3
  DEF SafeInv, LifeInv, Owned, OwnBufferevent, NoStrayLink, Alive

-----------------------------------------------------------------------------
(* Links.                                                                  *)

LEMMA LinksClosing ==
    ASSUME SafeInv, NEW o \in Obj, NEW y, Closing(o, y)
    PROVE  NoStrayLink' /\ UpHolds' /\ HoldsFd'
<1>1. /\ y \in Members /\ y.buf = NULL /\ ~y.up
      /\ obj'[o] = y /\ \A p \in Obj : p # o => obj'[p] = obj[p]
  BY TypesOfSafe, UpdateFacts DEF Closing
<1>2. /\ \A b \in Bev : b = obj[o].buf => bev'[b].st = "none"
      /\ \A b \in Bev : b # obj[o].buf => bev'[b] = bev[b]
  BY TypesOfSafe, UnlinkFacts DEF Closing
<1>3. ASSUME NEW b \in Bev, bev'[b].st # "none"
      PROVE  obj'[bev'[b].owner].alive /\ obj'[bev'[b].owner].buf = b
  <2>1. b # obj[o].buf /\ bev'[b] = bev[b]
    BY <1>2, <1>3
  <2>2. /\ bev[b].owner \in Obj /\ obj[bev[b].owner].alive
        /\ obj[bev[b].owner].buf = b
    BY <1>3, <2>1, TypesOfSafe
  <2>3. bev[b].owner # o
    BY <2>1, <2>2
  <2> QED
    BY <1>1, <2>1, <2>2, <2>3
<1>4. NoStrayLink'
  BY <1>3 DEF NoStrayLink, Alive
<1>5. ASSUME NEW p \in Obj, obj'[p].up
      PROVE  /\ obj'[p].buf # NULL
             /\ bev'[obj'[p].buf].st \in {"connected", "failed"}
  <2>1. p # o /\ obj'[p] = obj[p]
    BY <1>1, <1>5
  <2>2. /\ obj[p].buf # NULL /\ bev[obj[p].buf].st \in {"connected", "failed"}
    BY <1>5, <2>1 DEF SafeInv, UpHolds
  <2>3. obj[p].buf \in Bev /\ obj[p].buf # obj[o].buf
    BY <2>1, <2>2, TypesOfSafe
  <2> QED
    BY <1>2, <2>1, <2>2, <2>3
<1>6. UpHolds'
  BY <1>5 DEF UpHolds
<1>7. HoldsFd'
  BY <1>1 DEF HoldsFd, SafeInv
<1> QED
  BY <1>4, <1>6, <1>7

LEMMA LinksOpening ==
    ASSUME SafeInv, NEW o \in Obj, NEW y, NEW b \in Bev, NEW st,
           Opening(o, y, b, st), obj[o].buf = NULL, y.alive, y.fd,
           y.up => st = "connected"
    PROVE  NoStrayLink' /\ UpHolds' /\ HoldsFd'
<1>1. /\ y \in Members /\ y.buf = b /\ bev[b].st = "none"
      /\ obj'[o] = y /\ \A p \in Obj : p # o => obj'[p] = obj[p]
  BY TypesOfSafe, UpdateFacts DEF Opening
<1>2. /\ bev'[b].st = st /\ bev'[b].owner = o
      /\ \A p \in Bev : p # b => bev'[p] = bev[p]
  BY TypesOfSafe, LinkFacts DEF Opening
<1>3. ASSUME NEW c \in Bev, bev'[c].st # "none"
      PROVE  obj'[bev'[c].owner].alive /\ obj'[bev'[c].owner].buf = c
  <2>1. CASE c = b
    BY <1>1, <1>2, <2>1
  <2>2. CASE c # b
    <3>1. /\ bev'[c] = bev[c] /\ bev[c].owner \in Obj
          /\ obj[bev[c].owner].alive /\ obj[bev[c].owner].buf = c
      BY <1>2, <1>3, <2>2, TypesOfSafe
    <3>2. bev[c].owner # o
      BY <3>1, DistinctFacts
    <3> QED
      BY <1>1, <3>1, <3>2
  <2> QED
    BY <2>1, <2>2
<1>4. NoStrayLink'
  BY <1>3 DEF NoStrayLink, Alive
<1>5. ASSUME NEW p \in Obj, obj'[p].up
      PROVE  /\ obj'[p].buf # NULL
             /\ bev'[obj'[p].buf].st \in {"connected", "failed"}
  <2>1. CASE p = o
    BY <1>1, <1>2, <1>5, <2>1, DistinctFacts
  <2>2. CASE p # o
    <3>1. obj'[p] = obj[p]
      BY <1>1, <2>2
    <3>2. /\ obj[p].buf # NULL /\ bev[obj[p].buf].st \in {"connected", "failed"}
      BY <1>5, <3>1 DEF SafeInv, UpHolds
    <3>3. obj[p].buf \in Bev /\ obj[p].buf # b
      BY <1>1, <3>2, TypesOfSafe
    <3> QED
      BY <1>2, <3>1, <3>2, <3>3
  <2> QED
    BY <2>1, <2>2
<1>6. UpHolds'
  BY <1>5 DEF UpHolds
<1>7. HoldsFd'
  BY <1>1 DEF HoldsFd, SafeInv
<1> QED
  BY <1>4, <1>6, <1>7

LEMMA LinksKeeping ==
    ASSUME SafeInv, NEW o \in Obj, NEW y, Keeping(o, y), y.alive,
           y.up => obj[o].up, y.buf # NULL => y.fd
    PROVE  NoStrayLink' /\ UpHolds' /\ HoldsFd'
<1>1. /\ y \in Members /\ y.buf = obj[o].buf /\ bev' = bev
      /\ obj'[o] = y /\ \A p \in Obj : p # o => obj'[p] = obj[p]
  BY TypesOfSafe, UpdateFacts DEF Keeping
<1>2. NoStrayLink'
  BY <1>1, TypesOfSafe DEF NoStrayLink, Alive
<1>3. UpHolds'
  BY <1>1 DEF UpHolds, SafeInv
<1>4. HoldsFd'
  BY <1>1 DEF HoldsFd, SafeInv
<1> QED
  BY <1>2, <1>3, <1>4

LEMMA LinksReporting ==
    ASSUME SafeInv, NEW b \in Bev, NEW st, Reporting(b, st),
           \A p \in Obj : /\ obj'[p].buf = obj[p].buf /\ obj'[p].fd = obj[p].fd
                          /\ obj'[p].alive = obj[p].alive
                          /\ p # bev[b].owner => obj'[p] = obj[p]
    PROVE  NoStrayLink' /\ UpHolds' /\ HoldsFd'
<1>1. /\ bev'[b].st = st /\ bev'[b].owner = bev[b].owner
      /\ \A p \in Bev : p # b => bev'[p] = bev[p]
      /\ bev[b].st # "none" /\ st \in {"connected", "failed"}
  BY TypesOfSafe, ReportFacts DEF Reporting
<1>2. NoStrayLink'
  BY <1>1, TypesOfSafe DEF NoStrayLink, Alive
<1>3. ASSUME NEW p \in Obj, obj'[p].up
      PROVE  /\ obj'[p].buf # NULL
             /\ bev'[obj'[p].buf].st \in {"connected", "failed"}
  <2>1. CASE p = bev[b].owner
    <3>1. obj[p].buf = b
      BY <1>1, <2>1, TypesOfSafe
    <3> QED
      BY <1>1, <3>1, DistinctFacts
  <2>2. CASE p # bev[b].owner
    <3>1. obj'[p] = obj[p]
      BY <2>2
    <3>2. /\ obj[p].buf # NULL /\ bev[obj[p].buf].st \in {"connected", "failed"}
      BY <1>3, <3>1 DEF SafeInv, UpHolds
    <3>3. obj[p].buf \in Bev
      BY <3>2, TypesOfSafe
    <3> QED
      BY <1>1, <3>1, <3>2, <3>3
  <2> QED
    BY <2>1, <2>2
<1>4. UpHolds'
  BY <1>3 DEF UpHolds
<1>5. HoldsFd'
  BY DEF HoldsFd, SafeInv
<1> QED
  BY <1>2, <1>4, <1>5

-----------------------------------------------------------------------------
(* Frames.                                                                 *)

LEMMA FramesPop ==
    ASSUME NEW s \in Seq(Frame), s # << >>, NEW x, FramesOK(s, x)
    PROVE  FramesOK(Tail(s), x)
<1> DEFINE t == Tail(s)
<1>1. /\ DOMAIN t = 1 .. Len(s) - 1 /\ Len(s) \in Nat
      /\ \A i \in DOMAIN t : i + 1 \in DOMAIN s /\ t[i] = s[i + 1]
  BY TailFacts
<1> HIDE DEF t
<1>2. \A i, j \in DOMAIN t : i < j => i + 1 < j + 1
  BY <1>1
<1> QED
  BY <1>1, <1>2 DEF FramesOK, t

LEMMA FramesPush ==
    ASSUME NEW s \in Seq(Frame), NEW f \in Frame, NEW x, FramesOK(s, x),
           f.at # "connecting", f.at = "Foreach" => f.o \in Accepted,
           Uses(f) => x[f.o].alive,
           Closes(f) => \A j \in DOMAIN s : Uses(s[j]) => s[j].o # f.o
    PROVE  FramesOK(<<f>> \o s, x)
<1> DEFINE t == <<f>> \o s
<1>1. /\ DOMAIN t = 1 .. Len(s) + 1 /\ t[1] = f /\ Len(s) \in Nat
      /\ \A i \in 2 .. Len(s) + 1 : i - 1 \in DOMAIN s /\ t[i] = s[i - 1]
  BY PushFacts
<1> HIDE DEF t
<1>2. ASSUME NEW i \in DOMAIN t
      PROVE  /\ t[i].at # "connecting"
             /\ t[i].at = "Foreach" => t[i].o \in Accepted
             /\ Uses(t[i]) => x[t[i].o].alive
  <2>1. CASE i = 1
    BY <1>1, <2>1
  <2>2. CASE i # 1
    <3>1. i \in 2 .. Len(s) + 1
      BY <1>1, <2>2
    <3> QED
      BY <1>1, <3>1 DEF FramesOK
  <2> QED
    BY <2>1, <2>2
<1>3. ASSUME NEW i \in DOMAIN t, Closes(t[i]), NEW j \in DOMAIN t, i < j,
             Uses(t[j])
      PROVE  t[j].o # t[i].o
  <2>1. j \in 2 .. Len(s) + 1
    BY <1>1, <1>3
  <2>2. CASE i = 1
    BY <1>1, <1>3, <2>1, <2>2
  <2>3. CASE i # 1
    <3>1. i \in 2 .. Len(s) + 1 /\ i - 1 < j - 1
      BY <1>1, <1>3, <2>1, <2>3
    <3>2. /\ i - 1 \in DOMAIN s /\ t[i] = s[i - 1]
          /\ j - 1 \in DOMAIN s /\ t[j] = s[j - 1]
      BY <1>1, <2>1, <3>1
    <3>3. \A k, l \in DOMAIN s :
             Closes(s[k]) /\ k < l /\ Uses(s[l]) => s[l].o # s[k].o
      BY DEF FramesOK
    <3>4. Closes(s[i - 1]) /\ Uses(s[j - 1])
      BY <1>3, <3>2
    <3> QED
      BY <3>1, <3>2, <3>3, <3>4
  <2> QED
    BY <2>2, <2>3
<1> QED
  BY <1>2, <1>3 DEF FramesOK, t

Needed(p, s) == \E i \in DOMAIN s : Uses(s[i]) /\ s[i].o = p

LEMMA FramesAlive ==
    ASSUME NEW s \in Seq(Frame), NEW x, NEW y, FramesOK(s, x),
           \A p \in Obj : Needed(p, s) /\ x[p].alive => y[p].alive
    PROVE  FramesOK(s, y)
<1>1. \A i \in DOMAIN s : s[i] \in Frame
  OBVIOUS
<1>2. \A i \in DOMAIN s : s[i].o \in Obj
  BY <1>1 DEF Frame
<1>3. \A i \in DOMAIN s : Uses(s[i]) => y[s[i].o].alive
  BY <1>2 DEF FramesOK, Needed
<1> QED
  BY <1>3 DEF FramesOK

LEMMA FramesKept ==
    ASSUME NEW s \in Seq(Frame), NEW x, NEW y, FramesOK(s, x),
           \A p \in Obj : x[p].alive => y[p].alive
    PROVE  FramesOK(s, y)
  BY FramesAlive

LEMMA ReportedPush ==
    ASSUME NEW s \in Seq(Frame), NEW f \in Frame, NEW k, Reported(s, k)
    PROVE  Reported(<<f>> \o s, k)
<1>1. \A i \in DOMAIN s : i + 1 \in DOMAIN (<<f>> \o s)
                           /\ (<<f>> \o s)[i + 1] = s[i]
  BY PushFacts
<1> QED
  BY <1>1 DEF Reported

(* All but the failures that the top frame reports survive its return.     *)
LEMMA ReportedPop ==
    ASSUME NEW s \in Seq(Frame), s # << >>, NEW k, NEW h, Reported(s, k),
           \A b \in Bev : h[b].st = "failed" =>
               /\ k[b].st = "failed" /\ h[b].owner = k[b].owner
               /\ Head(s).at = "OnError" => k[b].owner # Head(s).o
    PROVE  Reported(Tail(s), h)
<1> SUFFICES ASSUME NEW b \in Bev, h[b].st = "failed"
             PROVE  \E i \in DOMAIN Tail(s) :
                       Tail(s)[i].at = "OnError" /\ Tail(s)[i].o = h[b].owner
  BY DEF Reported
<1>1. PICK i \in DOMAIN s : s[i].at = "OnError" /\ s[i].o = k[b].owner
  BY DEF Reported
<1>2. i # 1
  BY <1>1, TailFacts
<1>3. i - 1 \in DOMAIN Tail(s) /\ Tail(s)[i - 1] = s[i]
  BY <1>2, TailFacts
<1> QED
  BY <1>1, <1>3

LEMMA ReportedFewer ==
    ASSUME NEW s, NEW k, NEW h, Reported(s, k),
           \A b \in Bev : h[b].st = "failed" =>
               k[b].st = "failed" /\ h[b].owner = k[b].owner
    PROVE  Reported(s, h)
  BY DEF Reported

-----------------------------------------------------------------------------
(* SafeInv, one function at a time.                                        *)

LEMMA SafeTogether ==
    ASSUME LifeInv', wild' = FALSE, NoStrayLink' /\ UpHolds' /\ HoldsFd',
           FramesOK(stack', obj'), Reported(stack', bev')
    PROVE  SafeInv'
  BY DEF SafeInv, NoWild

(* The frames of s, some of stack, do not use o.                           *)
Unneeded(o, s) == ~Needed(o, s)

LEMMA SafeDisConnectFrom ==
    ASSUME SafeInv, NEW o \in Obj, Alive(o), NEW s \in Seq(Frame),
           FramesOK(s, obj), o \in Accepted => Unneeded(o, s),
           DisConnectFrom(o, s), Reported(s, bev')
    PROVE  SafeInv'
<1> DEFINE f == At("on_disconnected", o)
<1>1. PICK y \in Members : y.alive /\ Closing(o, y)
  BY TypesOfSafe, DisConnectEffect
<1>2. obj'[o] = y /\ \A p \in Obj : p # o => obj'[p] = obj[p]
  BY <1>1, TypesOfSafe, UpdateFacts DEF Closing
<1>3. f \in Frame /\ f.at = "on_disconnected" /\ f.o = o
  BY AtFrame DEF Callback
<1>4. stack' = <<f>> \o s /\ wild' = FALSE
  BY TypesOfSafe DEF DisConnectFrom, SafeInv, LifeInv, TypeOK
<1> HIDE DEF f
<1>5. FramesOK(s, obj')
  <2>1. \A p \in Obj : obj[p].alive => obj'[p].alive
    BY <1>1, <1>2
  <2> QED
    BY <2>1, FramesAlive
<1>6. FramesOK(stack', obj')
  <2>1. Uses(f) => obj'[f.o].alive
    BY <1>1, <1>2, <1>3
  <2>2. Closes(f) => \A j \in DOMAIN s : Uses(s[j]) => s[j].o # f.o
    BY <1>3 DEF Closes, Unneeded, Needed
  <2> QED
    BY <1>3, <1>4, <1>5, <2>1, <2>2, FramesPush
<1>7. Reported(stack', bev')
  BY <1>3, <1>4, ReportedPush
<1>8. NoStrayLink' /\ UpHolds' /\ HoldsFd'
  BY <1>1, LinksClosing
<1>9. LifeInv'
  BY TypesOfSafe, LifeDisConnectFrom DEF SafeInv
<1> QED
  BY <1>4, <1>6, <1>7, <1>8, <1>9, SafeTogether

LEMMA SafeDeleted ==
    ASSUME SafeInv, NEW o \in Obj, Deleted(o), stack' \in Seq(Frame),
           FramesOK(stack', obj), Unneeded(o, stack'), Reported(stack', bev),
           LifeInv', wild' = wild
    PROVE  SafeInv'
<1>1. Closing(o, Gone)
  BY DeletedEffect
<1>2. \A p \in Obj : p # o => obj'[p] = obj[p]
  BY <1>1, TypesOfSafe, UpdateFacts DEF Closing
<1>3. FramesOK(stack', obj')
  <2>1. \A p \in Obj : Needed(p, stack') /\ obj[p].alive => obj'[p].alive
    BY <1>2 DEF Unneeded
  <2> QED
    BY <2>1, FramesAlive
<1>4. Reported(stack', bev')
  <2>1. \A b \in Bev : bev'[b].st = "none" \/ bev'[b] = bev[b]
    BY TypesOfSafe, UnlinkFacts DEF Deleted
  <2> QED
    BY <2>1, ReportedFewer
<1>5. NoStrayLink' /\ UpHolds' /\ HoldsFd'
  BY <1>1, LinksClosing
<1>6. wild' = FALSE
  BY TypesOfSafe DEF SafeInv, LifeInv, TypeOK
<1> QED
  BY <1>3, <1>4, <1>5, <1>6, SafeTogether

LEMMA SafeConnectByAddr ==
    ASSUME SafeInv, FailAtOnce = {}, NEW o \in Obj, Alive(o), ConnectByAddr(o),
           obj[o].buf = NULL, ~obj[o].up, UNCHANGED <<all, wild>>
    PROVE  SafeInv'
<1>1. LifeInv' /\ wild' = FALSE
  BY TypesOfSafe, LifeConnectByAddr DEF SafeInv, LifeInv, TypeOK
<1>2. CASE \E y \in Members : /\ y.alive /\ y.fd /\ (y.up <=> obj[o].up)
                              /\ Keeping(o, y) /\ stack' = stack
  <2>1. PICK y \in Members : /\ y.alive /\ y.fd /\ (y.up <=> obj[o].up)
                             /\ Keeping(o, y) /\ stack' = stack
    BY <1>2
  <2>2. NoStrayLink' /\ UpHolds' /\ HoldsFd'
    BY <2>1, LinksKeeping
  <2>3. obj'[o] = y /\ \A p \in Obj : p # o => obj'[p] = obj[p]
    BY <2>1, TypesOfSafe, UpdateFacts DEF Keeping
  <2>4. FramesOK(stack', obj')
    <3>1. \A p \in Obj : obj[p].alive => obj'[p].alive
      BY <2>1, <2>3
    <3>2. FramesOK(stack, obj) /\ stack' = stack /\ stack \in Seq(Frame)
      BY <2>1, TypesOfSafe DEF SafeInv
    <3> QED
      BY <3>1, <3>2, FramesKept
  <2>5. Reported(stack', bev')
    BY <2>1 DEF Keeping, SafeInv
  <2> QED
    BY <1>1, <2>2, <2>4, <2>5, SafeTogether
<1>3. CASE \E y \in Members, b \in Bev :
             /\ y.alive /\ (y.up <=> obj[o].up) /\ y.fd
             /\ Opening(o, y, b, "connecting") /\ stack' = stack
  <2>1. PICK y \in Members, b \in Bev :
             /\ y.alive /\ (y.up <=> obj[o].up) /\ y.fd
             /\ Opening(o, y, b, "connecting") /\ stack' = stack
    BY <1>3
  <2>2. NoStrayLink' /\ UpHolds' /\ HoldsFd'
    BY <2>1, LinksOpening
  <2>3. obj'[o] = y /\ \A p \in Obj : p # o => obj'[p] = obj[p]
    BY <2>1, TypesOfSafe, UpdateFacts DEF Opening
  <2>4. FramesOK(stack', obj')
    <3>1. \A p \in Obj : obj[p].alive => obj'[p].alive
      BY <2>1, <2>3
    <3>2. FramesOK(stack, obj) /\ stack' = stack /\ stack \in Seq(Frame)
      BY <2>1, TypesOfSafe DEF SafeInv
    <3> QED
      BY <3>1, <3>2, FramesKept
  <2>5. Reported(stack', bev')
    <3>1. bev'[b].st = "connecting" /\ \A p \in Bev : p # b => bev'[p] = bev[p]
      BY <2>1, TypesOfSafe, LinkFacts DEF Opening
    <3>2. \A p \in Bev : bev'[p].st = "failed" => bev'[p] = bev[p]
      BY <3>1
    <3> QED
      BY <2>1, <3>2, ReportedFewer DEF SafeInv
  <2> QED
    BY <1>1, <2>2, <2>4, <2>5, SafeTogether
<1> QED
  BY <1>2, <1>3, TypesOfSafe, ConnectEffect

LEMMA SafeNewClient ==
    ASSUME SafeInv, NEW o \in Obj, NewClient(o) PROVE SafeInv'
<1>1. /\ ~Alive(o) /\ ~OnStack(o) /\ obj' = [obj EXCEPT ![o] = Fresh]
      /\ UNCHANGED <<all, bev, stack, wild>>
  BY DEF NewClient, Unused
<1>2. LifeInv' /\ wild' = FALSE
  BY <1>1, TypesOfSafe, LifeNewClient DEF SafeInv, LifeInv, TypeOK
<1>3. obj[o].buf = NULL
  BY <1>1, FreshMember DEF SafeInv, LifeInv, DeadIsGone
<1>4. Keeping(o, Fresh) /\ Fresh.alive /\ ~Fresh.up /\ Fresh.buf = NULL
  BY <1>1, <1>3, FreshMember DEF Keeping
<1>5. NoStrayLink' /\ UpHolds' /\ HoldsFd'
  BY <1>4, LinksKeeping
<1>6. obj'[o] = Fresh /\ \A p \in Obj : p # o => obj'[p] = obj[p]
  BY <1>1, TypesOfSafe, UpdateFacts, FreshMember
<1>7. FramesOK(stack', obj')
  <2>1. \A p \in Obj : obj[p].alive => obj'[p].alive
    BY <1>4, <1>6
  <2>2. FramesOK(stack, obj) /\ stack' = stack /\ stack \in Seq(Frame)
    BY <1>1, TypesOfSafe DEF SafeInv
  <2> QED
    BY <2>1, <2>2, FramesKept
<1>8. Reported(stack', bev')
  BY <1>1 DEF SafeInv
<1> QED
  BY <1>2, <1>5, <1>7, <1>8, SafeTogether

LEMMA SafeStack ==
    ASSUME SafeInv, LifeInv', UNCHANGED <<obj, bev, wild>>,
           FramesOK(stack', obj), Reported(stack', bev)
    PROVE  SafeInv'
<1>1. NoStrayLink' /\ UpHolds' /\ HoldsFd'
  BY DEF SafeInv, NoStrayLink, UpHolds, HoldsFd, Alive
<1>2. wild' = FALSE /\ FramesOK(stack', obj') /\ Reported(stack', bev')
  BY TypesOfSafe DEF SafeInv, LifeInv, TypeOK
<1> QED
  BY <1>1, <1>2, SafeTogether

LEMMA BusyNeeded == \A o : Busy(o) <=> Needed(o, stack)
  BY DEF Busy, Needed

LEMMA SafeApplication ==
    ASSUME Careful, SafeInv, Application PROVE SafeInv'
<1>1. PICK o \in Obj :
        \/ NewClient(o) \/ ConnectInit(o) \/ TryReconnect(o) \/ DisConnect(o)
        \/ DeleteClient(o) \/ CloseConnect(o) \/ FreeSelf(o) \/ Foreach(o)
  BY DEF Application
<1>2. /\ stack \in Seq(Frame) /\ FramesOK(stack, obj) /\ Reported(stack, bev)
      /\ FailAtOnce = {}
  BY TypesOfSafe DEF SafeInv, Careful
<1>3. LifeInv'
  BY LifeApplication DEF SafeInv
<1>4. CASE NewClient(o)
  BY <1>4, SafeNewClient
<1>5. CASE ConnectInit(o)
  <2>1. obj[o].buf = NULL /\ Alive(o) /\ ~obj[o].fd
    BY <1>5 DEF ConnectInit, SafeInv, HoldsFd
  <2>2. ~obj[o].up
    BY <2>1 DEF SafeInv, UpHolds
  <2> QED
    BY <1>2, <1>5, <2>1, <2>2, SafeConnectByAddr DEF ConnectInit
<1>6. CASE TryReconnect(o)
  <2>1. LinksOf(o) = {} /\ Alive(o) /\ ~obj[o].up
    BY <1>6 DEF TryReconnect, Careful
  <2>2. obj[o].buf = NULL
    BY <2>1, TypesOfSafe DEF LinksOf
  <2> QED
    BY <1>2, <1>6, <2>1, <2>2, SafeConnectByAddr DEF TryReconnect
<1>7. CASE DisConnect(o)
  <2>1. /\ Alive(o) /\ DisConnectFrom(o, stack)
        /\ o \in Accepted => Unneeded(o, stack)
    BY <1>7, BusyNeeded DEF DisConnect, Careful, Unneeded
  <2>2. \A b \in Bev : bev'[b].st = "none" \/ bev'[b] = bev[b]
    BY <2>1, TypesOfSafe, UnlinkFacts DEF DisConnectFrom
  <2>3. Reported(stack, bev')
    BY <1>2, <2>2, ReportedFewer
  <2> QED
    BY <1>2, <2>1, <2>3, SafeDisConnectFrom
<1>8. CASE DeleteClient(o) \/ CloseConnect(o) \/ FreeSelf(o)
  <2>1. /\ Deleted(o) /\ stack' = stack /\ wild' = wild /\ Unneeded(o, stack)
    BY <1>8, BusyNeeded
    DEF DeleteClient, CloseConnect, FreeSelf, Careful, Unneeded
  <2> QED
    BY <1>2, <1>3, <2>1, SafeDeleted
<1>9. CASE Foreach(o)
  <2> DEFINE f == [At("Foreach", o) EXCEPT !.todo = all \ {o}]
  <2>1. /\ o \in all /\ stack' = <<f>> \o stack /\ UNCHANGED <<obj, bev, wild>>
    BY <1>9 DEF Foreach, Push
  <2>2. f \in Frame /\ f.at = "Foreach" /\ f.o = o
    <3>1. all \ {o} \in SUBSET Accepted
      BY TypesOfSafe
    <3> QED
      BY <3>1, ForeachFrame
  <2> HIDE DEF f
  <2>3. obj[f.o].alive /\ f.o \in Accepted /\ ~Closes(f)
    BY <2>1, <2>2, TypesOfSafe DEF Alive, Closes
  <2>4. FramesOK(stack', obj)
    BY <1>2, <2>1, <2>2, <2>3, FramesPush
  <2>5. Reported(stack', bev)
    BY <1>2, <2>1, <2>2, ReportedPush
  <2> QED
    BY <1>3, <2>1, <2>4, <2>5, SafeStack
<1> QED
  BY <1>1, <1>4, <1>5, <1>6, <1>7, <1>8, <1>9

LEMMA SafeAccept ==
    ASSUME SafeInv, NEW o \in Obj, NEW b \in Bev, Accept(o, b)
    PROVE  SafeInv'
<1> DEFINE f == At("OnConnected", o)
<1>1. ~Alive(o) /\ stack' = <<f>> \o stack /\ wild' = wild
  BY DEF Accept, Unused, Push
<1>2. f \in Frame /\ f.at = "OnConnected" /\ f.o = o
  BY AtFrame DEF Callback
<1> HIDE DEF f
<1>3. LifeInv' /\ wild' = FALSE
  BY <1>1, TypesOfSafe, LifeAccept DEF SafeInv, LifeInv, TypeOK
<1>4. PICK y \in Members : y.alive /\ y.up /\ y.fd
                           /\ Opening(o, y, b, "connected")
  BY AcceptEffect
<1>5. obj[o].buf = NULL
  BY <1>1, FreshMember DEF SafeInv, LifeInv, DeadIsGone
<1>6. NoStrayLink' /\ UpHolds' /\ HoldsFd'
  BY <1>4, <1>5, LinksOpening
<1>7. FramesOK(stack', obj')
  <2>1. \A p \in Obj : obj[p].alive => obj'[p].alive
    BY <1>4, TypesOfSafe, UpdateFacts DEF Opening
  <2>2. FramesOK(stack, obj) /\ stack \in Seq(Frame)
    BY TypesOfSafe DEF SafeInv
  <2>3. FramesOK(stack, obj')
    BY <2>1, <2>2, FramesKept
  <2>4. ~Uses(f) /\ ~Closes(f)
    BY <1>2 DEF Uses, Closes
  <2> QED
    BY <1>1, <1>2, <2>2, <2>3, <2>4, FramesPush
<1>8. Reported(stack', bev')
  <2>1. bev'[b].st = "connected" /\ \A p \in Bev : p # b => bev'[p] = bev[p]
    BY <1>4, TypesOfSafe, LinkFacts DEF Opening
  <2>2. \A p \in Bev : bev'[p].st = "failed" => bev'[p] = bev[p]
    BY <2>1
  <2>3. Reported(stack, bev')
    BY <2>2, ReportedFewer DEF SafeInv
  <2> QED
    BY <1>1, <1>2, <2>3, TypesOfSafe, ReportedPush
<1> QED
  BY <1>3, <1>6, <1>7, <1>8, SafeTogether

LEMMA SafeLinkUp ==
    ASSUME SafeInv, NEW b \in Bev, LinkUp(b)
    PROVE  SafeInv'
<1> DEFINE o == bev[b].owner
           f == At("OnConnected", o)
<1>1. bev[b].st = "connecting" /\ bev' = [bev EXCEPT ![b].st = "connected"]
  BY DEF LinkUp
<1>2. o \in Obj /\ obj[o].alive
  BY <1>1, TypesOfSafe
<1>3. /\ obj' = [obj EXCEPT ![o].up = TRUE] /\ stack' = <<f>> \o stack
      /\ wild' = wild
  BY <1>2 DEF LinkUp, Push, Alive
<1>4. f \in Frame /\ f.at = "OnConnected" /\ f.o = o
  BY <1>2, AtFrame DEF Callback
<1>5. \A p \in Obj : /\ obj'[p].buf = obj[p].buf /\ obj'[p].fd = obj[p].fd
                     /\ obj'[p].alive = obj[p].alive
                     /\ p # bev[b].owner => obj'[p] = obj[p]
  BY <1>2, <1>3, TypesOfSafe, RaisedEffect
<1> HIDE DEF f, o
<1>6. LifeInv' /\ wild' = FALSE
  BY <1>3, TypesOfSafe, LifeLinkUp DEF SafeInv, LifeInv, TypeOK
<1>7. Reporting(b, "connected")
  BY <1>1 DEF Reporting
<1>8. NoStrayLink' /\ UpHolds' /\ HoldsFd'
  BY <1>5, <1>7, LinksReporting
<1>9. FramesOK(stack', obj')
  <2>1. \A p \in Obj : obj[p].alive => obj'[p].alive
    BY <1>5
  <2>2. FramesOK(stack, obj) /\ stack \in Seq(Frame)
    BY TypesOfSafe DEF SafeInv
  <2>3. FramesOK(stack, obj')
    BY <2>1, <2>2, FramesKept
  <2>4. ~Uses(f) /\ ~Closes(f)
    BY <1>4 DEF Uses, Closes
  <2> QED
    BY <1>3, <1>4, <2>2, <2>3, <2>4, FramesPush
<1>10. Reported(stack', bev')
  <2>1. bev'[b].st = "connected" /\ \A p \in Bev : p # b => bev'[p] = bev[p]
    BY <1>1, TypesOfSafe, ReportFacts
  <2>2. \A p \in Bev : bev'[p].st = "failed" => bev'[p] = bev[p]
    BY <2>1
  <2>3. Reported(stack, bev')
    BY <2>2, ReportedFewer DEF SafeInv
  <2> QED
    BY <1>3, <1>4, <2>3, TypesOfSafe, ReportedPush
<1> QED
  BY <1>6, <1>8, <1>9, <1>10, SafeTogether

LEMMA SafeLinkFails ==
    ASSUME SafeInv, NEW b \in Bev, LinkFails(b)
    PROVE  SafeInv'
<1> DEFINE o == bev[b].owner
           f == At("OnError", o)
<1>1. /\ bev[b].st # "none" /\ bev' = [bev EXCEPT ![b].st = "failed"]
      /\ stack = << >>
  BY DEF LinkFails, AtLoop
<1>2. o \in Obj /\ obj[o].alive
  BY <1>1, TypesOfSafe
<1>3. UNCHANGED <<obj, wild>> /\ stack' = <<f>> \o stack
  BY <1>2 DEF LinkFails, Push, Alive
<1>4. f \in Frame /\ f.at = "OnError" /\ f.o = o
  BY <1>2, AtFrame DEF Callback
<1> HIDE DEF f
<1>5. LifeInv' /\ wild' = FALSE
  BY <1>3, TypesOfSafe, LifeLinkFails DEF SafeInv, LifeInv, TypeOK
<1>6. Reporting(b, "failed")
  BY <1>1 DEF Reporting
<1>7. NoStrayLink' /\ UpHolds' /\ HoldsFd'
  BY <1>3, <1>6, LinksReporting
<1>8. DOMAIN stack = {}
  BY <1>1
<1>9. FramesOK(stack', obj')
  BY <1>2, <1>3, <1>4, <1>8, TypesOfSafe, FramesPush DEF SafeInv
<1>10. Reported(stack', bev')
  <2>1. /\ bev'[b].owner = o /\ \A p \in Bev : p # b => bev'[p] = bev[p]
    BY <1>1, TypesOfSafe, ReportFacts
  <2>2. \A p \in Bev : p # b => bev'[p].st # "failed"
    BY <1>8, <2>1 DEF SafeInv, Reported
  <2>3. 1 \in DOMAIN stack' /\ stack'[1] = f
    <3>1. /\ stack \in Seq(Frame)
      BY TypesOfSafe
    <3>2. DOMAIN stack' = 1 .. Len(stack) + 1 /\ stack'[1] = f
      BY <1>3, <1>4, <3>1, PushFacts
    <3> QED
      BY <3>1, <3>2
  <2> QED
    BY <1>4, <2>1, <2>2, <2>3 DEF Reported
<1> QED
  BY <1>5, <1>7, <1>9, <1>10, SafeTogether

LEMMA SafeReadable ==
    ASSUME SafeInv, NEW b \in Bev, Readable(b)
    PROVE  SafeInv'
<1> DEFINE o == bev[b].owner
           f == At("OnRecv", o)
<1>1. bev[b].st # "none" /\ stack = << >>
  BY DEF Readable, AtLoop
<1>2. o \in Obj /\ obj[o].alive
  BY <1>1, TypesOfSafe
<1>3. /\ stack \in Seq(Frame) /\ FramesOK(stack, obj) /\ Reported(stack, bev)
      /\ LifeInv'
  BY TypesOfSafe, LifeReadable DEF SafeInv
<1>4. f \in Frame /\ f.at = "OnRecv" /\ f.o = o
  BY <1>2, AtFrame DEF Callback
<1>5. DOMAIN stack = {}
  BY <1>1
<1>6. CASE stack' = <<f>> \o stack /\ UNCHANGED <<obj, all, bev, wild>>
  <2> HIDE DEF f
  <2>1. FramesOK(stack', obj)
    BY <1>2, <1>3, <1>4, <1>5, <1>6, FramesPush
  <2>2. Reported(stack', bev)
    BY <1>3, <1>4, <1>6, ReportedPush
  <2> QED
    BY <1>3, <1>6, <2>1, <2>2, SafeStack
<1>7. CASE DisConnectFrom(o, stack)
  <2>1. \A c \in Bev : bev'[c].st = "none" \/ bev'[c] = bev[c]
    BY <1>2, <1>7, TypesOfSafe, UnlinkFacts DEF DisConnectFrom
  <2>2. Reported(stack, bev')
    BY <1>3, <2>1, ReportedFewer
  <2>3. Unneeded(o, stack)
    BY <1>5 DEF Unneeded, Needed
  <2> HIDE DEF o
  <2> QED
    BY <1>2, <1>3, <1>7, <2>2, <2>3, SafeDisConnectFrom DEF Alive
<1> QED
  BY <1>1, <1>2, <1>6, <1>7 DEF Readable, Push, Alive

LEMMA SafeReturn == ASSUME SafeInv, Return PROVE SafeInv'
<1> DEFINE o == Head(stack).o
<1>1. stack # << >>
  BY DEF Return, OnConnectedReturns, OnRecvReturns, OnErrorReturns,
         OnDisconnectedReturns, ForeachReturns, ConnectReturns, Top
<1>2. /\ stack \in Seq(Frame) /\ FramesOK(stack, obj) /\ Reported(stack, bev)
      /\ LifeInv'
  BY TypesOfSafe, LifeReturn DEF SafeInv
<1>3. /\ Head(stack) = stack[1] /\ 1 \in DOMAIN stack
      /\ Head(stack) \in Frame /\ Tail(stack) \in Seq(Frame)
  BY <1>1, <1>2, TailFacts
<1>4. FramesOK(Tail(stack), obj) /\ o \in Obj
  BY <1>1, <1>2, <1>3, FramesPop DEF Frame
<1>5. /\ Head(stack).at # "connecting"
      /\ Head(stack).at = "Foreach" => o \in Accepted
      /\ Uses(Head(stack)) => Alive(o)
  BY <1>2, <1>3 DEF FramesOK, Alive
<1>6. Closes(Head(stack)) => Unneeded(o, Tail(stack))
  <2> SUFFICES ASSUME Closes(Head(stack)), NEW i \in DOMAIN Tail(stack),
                      Uses(Tail(stack)[i]), Tail(stack)[i].o = o
               PROVE  FALSE
    BY DEF Unneeded, Needed
  <2>1. i + 1 \in DOMAIN stack /\ Tail(stack)[i] = stack[i + 1] /\ 1 < i + 1
    BY <1>1, <1>2, TailFacts
  <2> QED
    BY <1>2, <1>3, <2>1 DEF FramesOK
<1>7. Head(stack).at # "OnError" => Reported(Tail(stack), bev)
  BY <1>1, <1>2, ReportedPop
<1>8. ASSUME Pop, UNCHANGED <<obj, all, bev, wild>>, Head(stack).at # "OnError"
      PROVE  SafeInv'
  BY <1>2, <1>4, <1>7, <1>8, SafeStack DEF Pop
<1>9. ASSUME Head(stack).at \in {"OnRecv", "OnError"},
             DisConnectFrom(o, Tail(stack))
      PROVE  SafeInv'
  <2>1. o \in Accepted => Closes(Head(stack))
    BY <1>9 DEF Closes
  <2>2. Alive(o)
    BY <1>5, <1>9 DEF Uses
  <2>3. \A b \in Bev : bev'[b].st = "failed" => bev'[b] = bev[b] /\ b # obj[o].buf
    <3>1. /\ \A b \in Bev : b = obj[o].buf => bev'[b].st = "none"
          /\ \A b \in Bev : b # obj[o].buf => bev'[b] = bev[b]
      BY <1>4, <1>9, TypesOfSafe, UnlinkFacts DEF DisConnectFrom
    <3> QED
      BY <3>1
  <2>4. \A b \in Bev : bev[b].st = "failed" /\ b # obj[o].buf => bev[b].owner # o
    BY TypesOfSafe
  <2>5. Reported(Tail(stack), bev')
    <3>1. \A b \in Bev : bev'[b].st = "failed" =>
               /\ bev[b].st = "failed" /\ bev'[b].owner = bev[b].owner
               /\ Head(stack).at = "OnError" => bev[b].owner # Head(stack).o
      BY <2>3, <2>4
    <3> QED
      BY <1>1, <1>2, <3>1, ReportedPop
  <2> HIDE DEF o
  <2> QED
    BY <1>3, <1>4, <1>6, <1>9, <2>1, <2>2, <2>5, SafeDisConnectFrom
<1>10. CASE OnConnectedReturns
  BY <1>8, <1>10 DEF OnConnectedReturns, Top
<1>11. CASE OnRecvReturns
  <2>1. Alive(o) /\ Head(stack).at = "OnRecv"
    BY <1>5, <1>11 DEF OnRecvReturns, Top, Uses
  <2> QED
    BY <1>8, <1>9, <1>11, <2>1 DEF OnRecvReturns
<1>12. CASE OnErrorReturns
  <2>1. Alive(o) /\ Head(stack).at = "OnError"
    BY <1>5, <1>12 DEF OnErrorReturns, Top, Uses
  <2> QED
    BY <1>9, <1>12, <2>1 DEF OnErrorReturns
<1>13. CASE OnDisconnectedReturns
  <2>1. Head(stack).at = "on_disconnected"
    BY <1>13 DEF OnDisconnectedReturns, Top
  <2>2. CASE o \in Client /\ Pop /\ UNCHANGED <<obj, all, bev, wild>>
    BY <1>8, <2>1, <2>2
  <2>3. CASE o \in Accepted
    <3>1. Alive(o) /\ Closes(Head(stack)) /\ o \notin Client
      BY <1>5, <2>1, <2>3, DistinctFacts DEF Uses, Closes
    <3>2. Deleted(o) /\ stack' = Tail(stack) /\ wild' = wild
      BY <1>13, <2>3, <3>1 DEF OnDisconnectedReturns, Pop
    <3>3. Unneeded(o, stack') /\ Reported(stack', bev)
      BY <1>6, <1>7, <2>1, <3>1, <3>2
    <3> HIDE DEF o
    <3> QED
      BY <1>2, <1>3, <1>4, <3>2, <3>3, SafeDeleted
  <2> QED
    BY <1>4, <1>13, <2>2, <2>3, DistinctFacts DEF OnDisconnectedReturns
<1>14. CASE ForeachReturns
  <2> DEFINE rest == Head(stack).todo \cap all
  <2>1. Head(stack).at = "Foreach" /\ o \in all
    <3>1. Head(stack).at = "Foreach"
      BY <1>14 DEF ForeachReturns, Top
    <3> QED
      BY <1>5, <3>1, TypesOfSafe DEF Uses
  <2>2. CASE Pop /\ UNCHANGED <<obj, all, bev, wild>>
    BY <1>8, <2>1, <2>2
  <2>3. ASSUME NEW n \in rest, UNCHANGED <<obj, all, bev, wild>>,
               stack' = <<[At("Foreach", n) EXCEPT !.todo = rest \ {n}]>>
                          \o Tail(stack)
        PROVE  SafeInv'
    <3> DEFINE f == [At("Foreach", n) EXCEPT !.todo = rest \ {n}]
    <3>1. rest \ {n} \in SUBSET Accepted /\ n \in Accepted /\ n \in Obj
          /\ obj[n].alive
      BY <2>3, TypesOfSafe, DistinctFacts DEF Alive
    <3> HIDE DEF rest
    <3>2. f \in Frame /\ f.at = "Foreach" /\ f.o = n
      BY <3>1, ForeachFrame
    <3>3. stack' = <<f>> \o Tail(stack)
      BY <2>3
    <3> HIDE DEF f
    <3>4. ~Closes(f) /\ obj[f.o].alive /\ f.o \in Accepted
      BY <3>1, <3>2 DEF Closes
    <3>5. FramesOK(stack', obj)
      BY <1>3, <1>4, <3>2, <3>3, <3>4, FramesPush
    <3>6. Reported(stack', bev)
      BY <1>3, <1>7, <2>1, <3>2, <3>3, ReportedPush
    <3> QED
      BY <1>2, <2>3, <3>5, <3>6, SafeStack
  <2> QED
    BY <1>14, <2>1, <2>2, <2>3 DEF ForeachReturns
<1>15. CASE ConnectReturns
  BY <1>5, <1>15 DEF ConnectReturns, Top
<1> QED
  BY <1>10, <1>11, <1>12, <1>13, <1>14, <1>15 DEF Return

LEMMA SafeInit == Init => SafeInv
<1> SUFFICES ASSUME Init PROVE SafeInv
  OBVIOUS
<1>1. /\ Gone.buf = NULL /\ ~Gone.up /\ NoLink.st = "none" /\ LifeInv
  BY FreshMember, LifeInit DEF NoLink
<1>2. /\ \A o \in Obj : obj[o] = Gone
      /\ \A b \in Bev : bev[b] = NoLink
      /\ DOMAIN stack = {} /\ wild = FALSE
  BY DEF Init
<1>3. NoStrayLink /\ UpHolds /\ HoldsFd
  BY <1>1, <1>2 DEF NoStrayLink, UpHolds, HoldsFd
<1>4. FramesOK(stack, obj) /\ Reported(stack, bev)
  BY <1>1, <1>2 DEF FramesOK, Reported
<1> QED
  BY <1>1, <1>2, <1>3, <1>4 DEF SafeInv, NoWild

LEMMA SafeInvariant == Careful => (Spec => []SafeInv)
<1> SUFFICES ASSUME Careful PROVE Spec => []SafeInv
  OBVIOUS
<1>1. SafeInv /\ [Next]_vars => SafeInv'
  <2> SUFFICES ASSUME SafeInv, [Next]_vars PROVE SafeInv'
    OBVIOUS
  <2>1. CASE Next
    BY <2>1, SafeApplication, SafeAccept, SafeLinkUp, SafeLinkFails,
       SafeReadable, SafeReturn DEF Next, Event
  <2>2. CASE UNCHANGED vars
    <3>1. LifeInv'
      BY <2>2 DEF SafeInv, vars, LifeInv, TypeOK, MapExact, OwnBufferevent,
                  DeadIsGone, Alive, Owned
    <3>2. FramesOK(stack', obj) /\ Reported(stack', bev)
          /\ UNCHANGED <<obj, bev, wild>>
      BY <2>2 DEF vars, SafeInv
    <3> QED
      BY <3>1, <3>2, SafeStack
  <2> QED
    BY <2>1, <2>2
<1> QED
  BY <1>1, SafeInit, PTL DEF Spec

(* An application that closes no object in use, and asks to reconnect only *)
(* an object without a bufferevent, never makes the library use a          *)
(* destroyed object (connector.cc:162-166, 247-255, listener.cc:88-95):    *)
(* the frames below the destruction of an object do not use it.            *)
THEOREM NothingWild == Careful => (Spec => []NoWild)
<1> SUFFICES ASSUME Careful PROVE Spec => []NoWild
  OBVIOUS
<1>1. SafeInv => NoWild
  BY DEF SafeInv
<1> QED
  BY <1>1, SafeInvariant, PTL

(* For the same application no connection outlives its object: each open   *)
(* bufferevent is m_buf_e of an object that exists, so deleting the object *)
(* closes it (connector.h:48, connector.cc:31-51); and IsConnect says TRUE *)
(* only of an object whose connection stands, or has failed with OnError   *)
(* still running (connector.cc:258-294).                                   *)
THEOREM LinksStayExact == Careful => (Spec => []LinksExact)
<1> SUFFICES ASSUME Careful PROVE Spec => []LinksExact
  OBVIOUS
<1>1. SafeInv => NoStrayLink
  BY DEF SafeInv
<1>2. ASSUME SafeInv PROVE UpMeansLink
  <2> SUFFICES ASSUME NEW o \in Obj, obj[o].up
               PROVE  /\ obj[o].fd /\ obj[o].buf # NULL
                      /\ \/ bev[obj[o].buf].st = "connected"
                         \/ bev[obj[o].buf].st = "failed" /\ OnStack(o)
    BY DEF UpMeansLink
  <2>1. /\ obj[o].buf # NULL /\ obj[o].fd
        /\ bev[obj[o].buf].st \in {"connected", "failed"}
    BY <1>2 DEF SafeInv, UpHolds, HoldsFd
  <2>2. obj[o].buf \in Bev /\ bev[obj[o].buf].owner = o
    BY <1>2, <2>1, TypesOfSafe
  <2>3. bev[obj[o].buf].st = "failed" => OnStack(o)
    BY <1>2, <2>2 DEF SafeInv, Reported, OnStack
  <2> QED
    BY <2>1, <2>3
<1>3. SafeInv => LinksExact
  BY <1>1, <1>2 DEF LinksExact
<1> QED
  BY <1>3, SafeInvariant, PTL
=============================================================================
