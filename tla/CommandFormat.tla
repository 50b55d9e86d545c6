--------------------------- MODULE CommandFormat ---------------------------
(***************************************************************************)
(* How the arguments of RedisAsyncCmd and RedisAsyncCmdArgv become the     *)
(* bytes of a redis command (hiredis.c): redisvFormatCommand walks over a  *)
(* format in the manner of printf and cuts it at blanks; both functions    *)
(* count the bytes of the command before they write them.  nextArgument    *)
(* (async.c) takes the command apart again when it is submitted.           *)
(*                                                                         *)
(* A format is put together from Piece; a character is a string, with one  *)
(* digit ("3"), one flag (a blank) and one letter each for the conversions *)
(* of integers ("d") and of doubles ("g"), which the code treats alike.    *)
(***************************************************************************)
EXTENDS Integers, SequencesExt

CONSTANTS
  MaxPieces,   \* bound: pieces of a format, arguments of an argv
  FormatRoom   \* sizeof(_format) - 2 (14 in the code)

ASSUME FormatConstants == MaxPieces \in Nat /\ FormatRoom \in Nat

NUL == "NUL"
Blank == <<" ">>

\* What a caller writes in a format; two pieces may make a third together.
Conversions == {<<"%", "s">>, <<"%", "b">>, <<"%", " ", "d">>, <<"%", "h", "h", "d">>,
                <<"%", "l", "d">>, <<"%", "3", "g">>, <<"%", " ", "3", "l", "d">>}
Broken == {<<"%", "l", "g">>, <<"%", "3">>, <<"%">>}
Piece == {<<"w">>, Blank, <<"%", "%">>} \cup Conversions \cup Broken

\* What it hands over: texts that are empty, hold blanks, bytes 0 or protocol,
\* or have a length of two digits.
Value == <<<<>>, <<" ", NUL, "w">>, <<"$", "3", "CR", "LF">>, [i \in 1 .. 10 |-> "w"]>>
Given(first, k) == Value[((first + k) % Len(Value)) + 1]

VARIABLES
  call,   \* the call: its format and arguments, or its argv and argvlen
  fs      \* the local variables of redisvFormatCommand and where it is

formatVars == <<call, fs>>

\* The library's redisAsyncCommand with the arguments of its caller, or
\* RedisAsyncCmd, which calls it with its va_list as the only argument.
FormatCall ==
  [by : {"redisAsyncCommand"}, pieces : BoundedSeq(Piece, MaxPieces), first : DOMAIN Value]
    \cup [by : {"RedisAsyncCmd"}, pieces : BoundedSeq(Piece, MaxPieces), first : {1}]
ArgvCall == [argv : BoundedSeq({Value[i] : i \in DOMAIN Value}, MaxPieces), argvlen : BOOLEAN]
ByFormat == "pieces" \in DOMAIN call

Started == [at |-> "scan", c |-> 1, taken |-> 0, curarg |-> <<>>, touched |-> FALSE,
            argv |-> <<>>, totlen |-> 0, cmd |-> <<>>]

FormatInit == call \in FormatCall \cup ArgvCall /\ fs = Started

format == FlattenSeq(call.pieces)

\* format[i], with the 0 that ends it.
Char(i) == IF i <= Len(format) THEN format[i] ELSE NUL

(***************************************************************************)
(* Values as text.                                                         *)
(***************************************************************************)
DigitOf == <<"0", "1", "2", "3", "4", "5", "6", "7", "8", "9">>
Decimal(n) == IF n < 10 THEN <<DigitOf[n + 1]>> ELSE <<DigitOf[n \div 10 + 1], DigitOf[(n % 10) + 1]>>

\* The text in front of the first byte 0 (strlen, and %s).
CString(v) ==
  SubSeq(v, 1, CHOOSE n \in 0 .. Len(v) : /\ \A i \in 1 .. n : v[i] # NUL
                                          /\ n = Len(v) \/ v[n + 1] = NUL)

\* printf of a number, which is the length of the value here.
Printed(v, blank, wide) ==
  LET text == (IF blank THEN Blank ELSE <<>>) \o Decimal(Len(v))
  IN (IF wide /\ Len(text) < 3 THEN [i \in 1 .. 3 - Len(text) |-> " "] ELSE <<>>) \o text

(***************************************************************************)
(* The bytes of a command.                                                 *)
(***************************************************************************)
intlen(n) == 1 + Cardinality({k \in 1 .. 9 : 10 ^ k <= n})
bulklen(len) == 1 + intlen(len) + 2 + len + 2

Ended(s) == s \o <<"CR", "LF">>
Protocol(argv) ==
  Ended(<<"*">> \o Decimal(Len(argv)))
    \o FlattenSeq([j \in DOMAIN argv |-> Ended(<<"$">> \o Decimal(Len(argv[j]))) \o Ended(argv[j])])

(***************************************************************************)
(* redisvFormatCommand.                                                    *)
(***************************************************************************)
Scanning == ByFormat /\ fs.at = "scan"
Converts == Char(fs.c) = "%" /\ Char(fs.c + 1) # NUL

PushArg(s) ==
  [s EXCEPT !.argv = Append(@, s.curarg), !.totlen = @ + bulklen(Len(s.curarg)),
            !.curarg = <<>>, !.touched = FALSE]

\* A blank ends the argument that was begun.
ScanBlank ==
  /\ Scanning /\ Char(fs.c) = " "
  /\ fs' = [(IF fs.touched THEN PushArg(fs) ELSE fs) EXCEPT !.c = @ + 1]
  /\ UNCHANGED call

\* Every other character, and a % that ends the format.
ScanLiteral ==
  /\ Scanning /\ Char(fs.c) \notin {" ", NUL} /\ ~Converts
  /\ fs' = [fs EXCEPT !.curarg = Append(@, Char(fs.c)), !.touched = TRUE, !.c = @ + 1]
  /\ UNCHANGED call

\* Mutant: an argument is there once it has a character.
InterpolatedIfLong(s, text, to) ==
  [s EXCEPT !.curarg = @ \o text, !.touched = @ \/ text # <<>>, !.c = to]

\* What a conversion adds, and where the scan goes on.
Interpolated(s, text, to) == [s EXCEPT !.curarg = @ \o text, !.touched = TRUE, !.c = to]

Interpolate ==
  /\ Scanning /\ Converts /\ Char(fs.c + 1) \in {"s", "b", "%"}
  /\ Char(fs.c + 1) = "%" \/ call.by = "redisAsyncCommand"
  /\ LET v == Given(call.first, fs.taken + 1)
         took == [fs EXCEPT !.taken = @ + 1]
     IN fs' = CASE Char(fs.c + 1) = "s" -> Interpolated(took, CString(v), fs.c + 2)
                [] Char(fs.c + 1) = "b" -> Interpolated(took, v, fs.c + 2)
                [] Char(fs.c + 1) = "%" -> Interpolated(fs, <<"%">>, fs.c + 2)
  /\ UNCHANGED call

\* The conversion of a number at fs.c: flag, width, size, letter.  The 0 that
\* ends the format passes for a letter without a size (strchr finds it).
NumberConversion ==
  LET blank == Char(fs.c + 1) = " "
      from == fs.c + 1 + IF blank THEN 1 ELSE 0
      p == CHOOSE i \in from .. Len(format) + 1 :
             Char(i) # "3" /\ \A j \in from .. i - 1 : Char(j) = "3"
      size == CASE Char(p) \notin {"h", "l"} -> 0
                [] Char(p) \in {"h", "l"} -> IF Char(p + 1) = Char(p) THEN 2 ELSE 1
  IN [blank |-> blank, wide |-> p > from, end |-> p + size,
      valid |-> Char(p + size) \in IF size = 0 THEN {"d", "g", NUL} ELSE {"d"}]

ConvertsNumber == Scanning /\ Converts /\ Char(fs.c + 1) \notin {"s", "b", "%"}

\* A conversion that does not fit into _format takes its argument and adds
\* nothing; the scan goes on behind its first two characters.  One that the end
\* of the format cut off takes the scan behind the end.
ConvertNumber ==
  /\ ConvertsNumber /\ NumberConversion.valid /\ call.by = "redisAsyncCommand"
  /\ LET n == NumberConversion
         took == [fs EXCEPT !.taken = @ + 1]
     IN fs' = IF n.end + 1 - fs.c >= FormatRoom THEN Interpolated(took, <<>>, fs.c + 2)
              ELSE IF Char(n.end) = NUL THEN [took EXCEPT !.at = "wild"]
              ELSE Interpolated(took, Printed(Given(call.first, fs.taken + 1), n.blank, n.wide),
                                n.end + 1)
  /\ UNCHANGED call

\* Behind RedisAsyncCmd a conversion finds its va_list, or nothing, in place of
\* the caller's argument: what is read then, and what becomes of the command,
\* is undefined ("%s interpolates a string in the command", hiredis/README.md:62).
TakeVaList ==
  /\ Scanning /\ Converts /\ call.by = "RedisAsyncCmd"
  /\ Char(fs.c + 1) \in {"s", "b"} \/ (ConvertsNumber /\ NumberConversion.valid)
  /\ fs' = [fs EXCEPT !.at = "stray"]
  /\ UNCHANGED call

\* fmt_invalid.
FormatFails ==
  /\ ConvertsNumber /\ ~NumberConversion.valid
  /\ fs' = [fs EXCEPT !.at = "err", !.argv = <<>>, !.curarg = <<>>]
  /\ UNCHANGED call

BuildCommand ==
  /\ Scanning /\ Char(fs.c) = NUL
  /\ LET all == IF fs.touched THEN PushArg(fs) ELSE fs
     IN fs' = [all EXCEPT !.at = "done", !.totlen = @ + 1 + intlen(Len(all.argv)) + 2,
                          !.cmd = Protocol(all.argv)]
  /\ UNCHANGED call

(***************************************************************************)
(* redisFormatCommandArgv.                                                 *)
(***************************************************************************)
\* argvlen[j], or strlen without it.
Argument(v) == IF call.argvlen THEN v ELSE CString(v)

redisFormatCommandArgv ==
  /\ ~ByFormat /\ fs.at = "scan"
  /\ LET argv == [j \in DOMAIN call.argv |-> Argument(call.argv[j])]
         counted == FoldLeft(LAMBDA n, v : n + bulklen(Len(v)), 1 + intlen(Len(argv)) + 2, argv)
     IN fs' = [fs EXCEPT !.at = "done", !.argv = argv, !.totlen = counted, !.cmd = Protocol(argv)]
  /\ UNCHANGED call

FormatNext ==
  \/ ScanBlank \/ ScanLiteral \/ Interpolate \/ ConvertNumber \/ TakeVaList
  \/ FormatFails \/ BuildCommand \/ redisFormatCommandArgv

FormatSpec == FormatInit /\ [][FormatNext]_formatVars

(***************************************************************************)
(* nextArgument, which __redisAsyncCommand calls until it returns NULL.    *)
(***************************************************************************)
RECURSIVE Arguments(_)
Arguments(p) ==
  LET dollar == SelectInSeq(p, LAMBDA x : x = "$")
      head == SubSeq(p, dollar + 1, Len(p))
      cr == SelectInSeq(head, LAMBDA x : x = "CR")
      len == CHOOSE n \in 0 .. Len(p) : Decimal(n) = SubSeq(head, 1, cr - 1)
  IN IF dollar = 0 THEN <<>>
     ELSE <<SubSeq(head, cr + 2, cr + 1 + len)>>
            \o Arguments(SubSeq(head, cr + 2 + len + 2, Len(head)))

(***************************************************************************)
(* Properties.                                                             *)
(***************************************************************************)
FormatTypeOK ==
  /\ fs.at \in {"scan", "done", "err", "wild", "stray"} /\ fs.touched \in BOOLEAN
  /\ fs.c \in 1 .. Len(IF ByFormat THEN format ELSE <<>>) + 1
  /\ fs.taken \in 0 .. MaxPieces /\ fs.totlen \in Nat

\* A format whose every % starts a conversion that hiredis documents (or is
\* the last character), short enough for its buffer.
Plain == /\ \A i \in DOMAIN call.pieces :
              \/ call.pieces[i] \notin Broken
              \/ call.pieces[i] = <<"%">> /\ i = Len(call.pieces)
         /\ \A i \in DOMAIN call.pieces : Len(call.pieces[i]) < FormatRoom

\* What piece i stands for.
Says(i) ==
  LET piece == call.pieces[i]
      k == Cardinality({j \in 1 .. i : call.pieces[j] \in Conversions})
      v == Given(call.first, k)
  IN CASE piece = <<"%", "s">> -> CString(v)
       [] piece = <<"%", "b">> -> v
       [] piece \in Conversions \ {<<"%", "s">>, <<"%", "b">>} ->
            Printed(v, " " \in ToSet(piece), "3" \in ToSet(piece))
       [] piece \notin Conversions -> <<piece[1]>>

\* The arguments a format stands for: its stretches between blanks.
Meant ==
  LET n == Len(call.pieces)
      Cut(i) == i \in {0, n + 1} \/ call.pieces[i] = Blank
      stretches == {r \in (1 .. n) \X (1 .. n) :
                      /\ r[1] <= r[2] /\ Cut(r[1] - 1) /\ Cut(r[2] + 1)
                      /\ \A i \in r[1] .. r[2] : ~Cut(i)}
      order == SetToSortSeq(stretches, LAMBDA r, s : r[1] < s[1])
  IN [j \in DOMAIN order |->
        FlattenSeq([i \in 1 .. order[j][2] - order[j][1] + 1 |-> Says(order[j][1] + i - 1)])]

\* Whatever the arguments hold - blanks, zero bytes, protocol, nothing at all -
\* the command a redis server or nextArgument takes apart has exactly the
\* arguments the call stands for, and its length is the one that was counted
\* before the first byte was written (the assertion pos == totlen).  hiredis
\* refuses a format, or runs past its end, only when it holds a conversion that
\* is none.  For RedisAsyncCmd it speaks of formats without conversions only: one
\* that holds a conversion ends in TakeVaList.
CommandsExact ==
  /\ fs.at = "done" =>
       /\ fs.totlen = Len(fs.cmd)
       /\ Arguments(fs.cmd) = fs.argv
       /\ ~ByFormat => fs.argv = [j \in DOMAIN call.argv |->
                                    IF call.argvlen THEN call.argv[j] ELSE CString(call.argv[j])]
       /\ ByFormat /\ Plain => fs.argv = Meant
  /\ fs.at \in {"err", "wild"} => ~Plain
=============================================================================
