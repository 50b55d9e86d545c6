------------------------------- MODULE MCData -------------------------------
(***************************************************************************)
(* The parts that keep data and wait for nobody: the memory pool, redeem   *)
(* codes and the tool that makes them, the descriptors of the redis event  *)
(* loop and its timer, the parser of redis replies and the formatting of   *)
(* commands.  They share no state and are checked in one run; subject      *)
(* picks the part whose steps are taken.                                   *)
(***************************************************************************)
EXTENDS MemPool, RedeemTool, RedeemCode, AeLoop, ReplyReader,
        CommandFormat, AeTimer

VARIABLE subject

allVars == <<subject, poolVars, redeemVars, codeVars, aeVars, readerVars, formatVars, timeVars>>

Init ==
  /\ subject \in {"pool", "tool", "code", "ae", "reader", "format", "clock"}
  /\ PoolInit /\ RedeemInit /\ CodeInit /\ AeInit
  /\ ReaderInit /\ (subject # "reader" => said = <<>>)
  /\ FormatInit /\ (subject # "format" => call = [argv |-> <<>>, argvlen |-> FALSE])
  /\ TimeInit /\ (subject # "clock" => clock = Second)

PoolTurn ==
  /\ subject = "pool" /\ PoolNext
  /\ UNCHANGED <<subject, redeemVars, codeVars, aeVars, readerVars, formatVars, timeVars>>
ToolTurn ==
  /\ subject = "tool" /\ RedeemNext
  /\ UNCHANGED <<subject, poolVars, codeVars, aeVars, readerVars, formatVars, timeVars>>
CodeTurn ==
  /\ subject = "code" /\ CodeNext
  /\ UNCHANGED <<subject, poolVars, redeemVars, aeVars, readerVars, formatVars, timeVars>>
AeTurn ==
  /\ subject = "ae" /\ AeNext
  /\ UNCHANGED <<subject, poolVars, redeemVars, codeVars, readerVars, formatVars, timeVars>>
ReaderTurn ==
  /\ subject = "reader" /\ ReaderNext
  /\ UNCHANGED <<subject, poolVars, redeemVars, codeVars, aeVars, formatVars, timeVars>>
FormatTurn ==
  /\ subject = "format" /\ FormatNext
  /\ UNCHANGED <<subject, poolVars, redeemVars, codeVars, aeVars, readerVars, timeVars>>
ClockTurn ==
  /\ subject = "clock" /\ TimeNext
  /\ UNCHANGED <<subject, poolVars, redeemVars, codeVars, aeVars, readerVars, formatVars>>

Next == PoolTurn \/ ToolTurn \/ CodeTurn \/ AeTurn \/ ReaderTurn \/ FormatTurn \/ ClockTurn

Spec == Init /\ [][Next]_allVars

\* Every part has its type.
DataTypeOK ==
  PoolTypeOK /\ RedeemTypeOK /\ AeTypeOK /\ ReaderTypeOK /\ FormatTypeOK /\ TimeTypeOK
=============================================================================
