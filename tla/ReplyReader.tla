---------------------------- MODULE ReplyReader ----------------------------
(***************************************************************************)
(* redisReader (hiredis.c): the parser that turns the bytes of a redis     *)
(* connection into replies.  Bytes come in any pieces (redisReaderFeed);   *)
(* redisReaderGetReply goes on where the last call had to stop, keeping    *)
(* the arrays it is inside of on a stack, and discards what it has used    *)
(* once that is long enough.                                               *)
(*                                                                         *)
(* A server sends Encode of up to MaxReplies replies of Reply.  A byte is  *)
(* a member of Byte: the digits and letters any text is made of are cut    *)
(* down to a few.  A number has one digit; that of the code may have more. *)
(***************************************************************************)
EXTENDS Integers, SequencesExt

CONSTANTS
  MaxReplies,  \* bound: replies in the stream
  DiscardAt,   \* used bytes after which the buffer is cut (1024 in the code)
  MaxDepth     \* the last index of rstack (8 in the code)

ASSUME ReaderConstants == MaxReplies \in Nat /\ DiscardAt \in Nat \ {0} /\ MaxDepth \in Nat

CR == "CR"
LF == "LF"
Number == [x \in {"0", "1", "2"} |-> CASE x = "0" -> 0 [] x = "1" -> 1 [] x = "2" -> 2]
Digit(n) == CHOOSE x \in DOMAIN Number : Number[x] = n
Byte == {"+", "-", ":", "$", "*", CR, LF} \cup DOMAIN Number

(***************************************************************************)
(* The protocol.                                                           *)
(***************************************************************************)
\* type is the byte that announces a reply; nil is told by either of two, which
\* str remembers here.
Text(type, str) == [type |-> type, str |-> str, n |-> 0, element |-> <<>>]
Whole(n) == [type |-> ":", str |-> <<>>, n |-> n, element |-> <<>>]
Nil(by) == [type |-> "nil", str |-> <<by>>, n |-> 0, element |-> <<>>]
Array(s) == [type |-> "*", str |-> <<>>, n |-> Len(s), element |-> s]

Leaf == {Text("+", <<"1">>), Text("-", <<>>), Whole(1), Whole(-1), Nil("$"), Nil("*"),
         Text("$", <<>>), Text("$", <<CR, LF>>), Text("$", <<CR>>)}
Reply == Leaf \cup {Array(<<>>), Array(<<Nil("$"), Text("$", <<LF>>)>>),
                    Array(<<Array(<<Whole(0)>>), Text("+", <<CR>>)>>),
                    Array(<<Array(<<Array(<<>>)>>)>>)}

Line(s) == s \o <<CR, LF>>
Signed(n) == IF n < 0 THEN <<"-", Digit(-n)>> ELSE <<Digit(n)>>

RECURSIVE Encode(_)
Encode(reply) ==
  CASE reply.type \in {"+", "-"} -> Line(<<reply.type>> \o reply.str)
    [] reply.type = ":" -> Line(<<":">> \o Signed(reply.n))
    [] reply.type = "nil" -> Line(reply.str \o <<"-", "1">>)
    [] reply.type = "$" -> Line(<<"$", Digit(Len(reply.str))>>) \o Line(reply.str)
    [] reply.type = "*" ->
         Line(<<"*", Digit(reply.n)>>) \o FlattenSeq([i \in 1 .. reply.n |-> Encode(reply.element[i])])

(***************************************************************************)
(* The reader.                                                             *)
(***************************************************************************)
VARIABLES
  said,     \* the replies the server sends on this connection
  fed,      \* bytes of them fed so far
  rd,       \* struct redisReader
  got,      \* what redisReaderGetReply returned
  dry       \* the last call of it returned NULL, and nothing was fed since

readerVars == <<said, fed, rd, got, dry>>

Stream == FlattenSeq([i \in DOMAIN said |-> Encode(said[i])])
NoReply == [type |-> "none"]

ReaderInit ==
  /\ said \in BoundedSeq(Reply, MaxReplies)
  /\ fed = 0 /\ got = <<>> /\ dry = TRUE
  /\ rd = [buf |-> <<>>, pos |-> 0, rstack |-> <<>>, reply |-> NoReply, err |-> FALSE]

\* rstack[i] for an item whose type byte is not read yet; made is obj.
NewTask == [type |-> "?", elements |-> -1, made |-> <<>>]
Left(r) == SubSeq(r.buf, r.pos + 1, Len(r.buf))

\* Mutant: any \r ends a line.
seekNewlineCR(s) == {i \in 1 .. Len(s) - 1 : s[i] = CR}

\* The positions of \r\n in s; the first one counts.
seekNewline(s) == {i \in 1 .. Len(s) - 1 : s[i] = CR /\ s[i + 1] = LF}

\* Of the text before the \r\n.
readLongLong(s) == IF s[1] = "-" THEN -Number[s[2]] ELSE Number[s[1]]

Fails(r) == [r EXCEPT !.buf = <<>>, !.pos = 0, !.rstack = <<>>, !.reply = NoReply, !.err = TRUE]

\* An object is complete: it becomes the reply, or an element of its array,
\* which may be complete with it (moveToNextTask and parent->element[idx]).
RECURSIVE Complete(_, _)
Complete(r, obj) ==
  LET under == Front(r.rstack)
      parent == Last(under)
      array == Append(parent.made, obj)
  IN IF under = <<>> THEN [r EXCEPT !.rstack = <<>>, !.reply = obj]
     ELSE IF Len(array) = parent.elements
     THEN Complete([r EXCEPT !.rstack = under], Array(array))
     ELSE [r EXCEPT !.rstack =
             Append(Front(under), [parent EXCEPT !.made = array]) \o <<NewTask>>]

processLineItem(r, line) ==
  LET type == Last(r.rstack).type
      obj == IF type = ":" THEN Whole(readLongLong(line)) ELSE Text(type, line)
  IN Complete([r EXCEPT !.pos = @ + Len(line) + 2], obj)

\* Mutant: the \r\n after the text is not waited for.
BulkFitsUnended(r, line, len) == r.pos + Len(line) + 2 + len <= Len(r.buf)

\* Only continue when the buffer contains the entire bulk item.
BulkFits(r, line, len) == r.pos + Len(line) + 2 + len + 2 <= Len(r.buf)

processBulkItem(r, line) ==
  LET len == readLongLong(line)
      start == r.pos + Len(line) + 2
  IN IF len < 0 THEN Complete([r EXCEPT !.pos = start], Nil("$"))
     ELSE IF BulkFits(r, line, len)
     THEN Complete([r EXCEPT !.pos = start + len + 2],
                   Text("$", SubSeq(r.buf, start + 1, start + len)))
     ELSE r

processMultiBulkItem(r, line) ==
  LET elements == readLongLong(line)
      moved == [r EXCEPT !.pos = @ + Len(line) + 2]
  IN IF elements = -1 THEN Complete(moved, Nil("*"))
     ELSE IF elements <= 0 THEN Complete(moved, Array(<<>>))
     ELSE [moved EXCEPT !.rstack =
             Append(Front(@), [Last(@) EXCEPT !.elements = elements]) \o <<NewTask>>]

\* One item, or as much of it as the buffer has: the type byte may be all.
processItem(r) ==
  LET typed == IF Last(r.rstack).type # "?" THEN r
               ELSE [r EXCEPT !.pos = @ + 1, !.rstack =
                       Append(Front(@), [Last(@) EXCEPT !.type = r.buf[r.pos + 1]])]
      type == Last(typed.rstack).type
      ends == seekNewline(Left(typed))
      line == SubSeq(Left(typed), 1, (CHOOSE i \in ends : \A j \in ends : i <= j) - 1)
  IN IF Last(r.rstack).type = "?" /\ Left(r) = <<>> THEN r
     ELSE IF type \notin {"-", "+", ":", "$", "*"} THEN Fails(r)
     ELSE IF type = "*" /\ Len(r.rstack) = MaxDepth + 1 THEN Fails(r)
     ELSE IF ends = {} THEN typed
     ELSE CASE type \in {"-", "+", ":"} -> processLineItem(typed, line)
            [] type = "$" -> processBulkItem(typed, line)
            [] type = "*" -> processMultiBulkItem(typed, line)

\* while (ridx >= 0) if (processItem(r) != REDIS_OK) break;
RECURSIVE ProcessItems(_)
ProcessItems(r) ==
  LET s == processItem(r)
  IN IF s = r \/ s.rstack = <<>> THEN s ELSE ProcessItems(s)

\* Mutant: pos is kept when the used bytes are cut off.
DiscardKeepsPos(r) ==
  IF r.pos >= DiscardAt THEN [r EXCEPT !.buf = Left(r)] ELSE r

Discard(r) == IF r.pos >= DiscardAt THEN [r EXCEPT !.buf = Left(r), !.pos = 0] ELSE r

redisReaderFeed(n) ==
  /\ ~rd.err /\ fed + n <= Len(Stream)
  /\ rd' = [rd EXCEPT !.buf = @ \o SubSeq(Stream, fed + 1, fed + n)]
  /\ fed' = fed + n /\ dry' = FALSE
  /\ UNCHANGED <<said, got>>

redisReaderGetReply ==
  /\ ~dry
  /\ LET r == IF rd.buf = <<>> THEN rd
              ELSE ProcessItems([rd EXCEPT !.rstack = IF @ = <<>> THEN <<NewTask>> ELSE @])
         told == ~r.err /\ r.rstack = <<>> /\ r.reply # NoReply
     IN /\ rd' = IF r.err THEN r ELSE [Discard(r) EXCEPT !.reply = NoReply]
        /\ got' = IF told THEN Append(got, r.reply) ELSE got
        /\ dry' = ~told
  /\ UNCHANGED <<said, fed>>

ReaderNext == redisReaderGetReply \/ \E n \in 1 .. Len(Stream) - fed : redisReaderFeed(n)

ReaderSpec == ReaderInit /\ [][ReaderNext]_readerVars

(***************************************************************************)
(* Properties.                                                             *)
(***************************************************************************)
ReaderTypeOK ==
  /\ fed \in 0 .. Len(Stream) /\ dry \in BOOLEAN /\ rd.err \in BOOLEAN
  /\ rd.pos \in 0 .. Len(rd.buf) /\ rd.buf \in Seq(Byte)
  /\ Len(rd.rstack) <= MaxDepth + 1

Within(n) == Len(FlattenSeq([i \in 1 .. n |-> Encode(said[i])])) <= fed

RECURSIVE Depth(_)
Depth(reply) ==
  IF reply.type # "*" THEN 0
  ELSE 1 + FoldSet(LAMBDA d, m : IF d > m THEN d ELSE m, 0, {Depth(x) : x \in ToSet(reply.element)})

\* The replies do not depend on how the network cuts the stream: wherever the
\* pieces end - in a type byte, a number, between \r and \n, inside a text that
\* itself holds \r\n, between elements of nested arrays - and whenever used bytes
\* are discarded, the caller gets the replies the server sent, in order, and
\* each as soon as its last byte is there.  An error is found only in a reply
\* that nests deeper than rstack.
RepliesExact ==
  /\ IsPrefix(got, said)
  /\ IF rd.err THEN Len(got) < Len(said) /\ Depth(said[Len(got) + 1]) > MaxDepth
     ELSE dry => (Len(got) = Len(said) \/ ~Within(Len(got) + 1))
=============================================================================
