----------------------------- MODULE RedeemTool -----------------------------
(***************************************************************************)
(* RedeemCodeTool (serialcode_parser.cc): runs of the tool that make       *)
(* create_num codes for a fun_id each.  A code is the pair of fun_id and   *)
(* sequence number that CreateRedeemCode turns into text one to one        *)
(* (RedeemCode).  The sequence number to go on from is kept in a history   *)
(* file, one line per fun_id, which each run reads, truncates and writes   *)
(* line by line after it wrote its file of codes; that file is named after *)
(* the second it is made in.                                               *)
(***************************************************************************)
EXTENDS Naturals, FiniteSets, FiniteSetsExt

CONSTANTS
  Run,        \* runs of the tool, in the order a user starts them
  Fun,        \* values of fun_id
  MaxNum,     \* bound: create_num
  UniqueMax,  \* RedeemCodeCfg::UNIQUE_CODE_MAX
  Word,       \* 2^32: uint32_t arithmetic wraps here
  Faults      \* TRUE: runs may be killed, fail to reopen the history, overlap

ASSUME RedeemConstants ==
  /\ Fun \subseteq Nat /\ MaxNum \in Nat /\ UniqueMax \in Nat /\ Word \in Nat
  /\ UniqueMax + MaxNum < Word - 1 /\ Faults \in BOOLEAN

VARIABLES
  history,    \* the lines of the history file: a function from fun_id to the number
  files,      \* the codes in each file, by the order the files' seconds came
  now,        \* the second the clock shows
  tool,       \* [Run -> state of the run]
  handed,     \* every code ever written to a file
  repeated,   \* those written more than once
  faulty      \* a run was killed, could not reopen the history or overlapped another

redeemVars == <<history, files, now, tool, handed, repeated, faulty>>

NoLines == [f \in {} |-> 0]
IdleRun == [pc |-> "none", fun |-> 0, num |-> 0, id2idx |-> NoLines, last |-> 0]
Seconds == 0 .. Cardinality(Run)

RedeemInit ==
  /\ history = NoLines
  /\ files = [s \in Seconds |-> {}]
  /\ now = 0 /\ handed = {} /\ repeated = {} /\ faulty = FALSE
  /\ tool = [r \in Run |-> IdleRun]

Active(r) == tool[r].pc \notin {"none", "done"}
\* std::map's operator[]: adds or replaces.
With(m, f, i) == [g \in DOMAIN m \cup {f} |-> IF g = f THEN i ELSE m[g]]
Wrap(n) == n % Word

\* The clock moves on to the next second at most once per run.
Tick ==
  /\ now < Cardinality(Run)
  /\ now' = now + 1
  /\ UNCHANGED <<history, files, tool, handed, repeated, faulty>>

\* run(fun_id, create_num), the history read: a line whose id is 0 is taken
\* for the heading and skipped; without a line of fun_id, last_idx is -1.
ReadHistory(r, f, n) ==
  /\ tool[r].pc = "none"
  /\ Faults \/ \A q \in Run : ~Active(q)
  /\ LET seen == [g \in DOMAIN history \ {0} |-> history[g]]
     IN tool' = [tool EXCEPT ![r] =
          [pc |-> "write", fun |-> f, num |-> n, id2idx |-> seen,
           last |-> IF f \in DOMAIN seen THEN seen[f] ELSE Word - 1]]
  /\ faulty' = (faulty \/ \E q \in Run : Active(q))
  /\ UNCHANGED <<history, files, now, handed, repeated>>

\* The numbers the private run(fun_id, create_num, last_idx + 1) asks codes for.
Numbers(r) == {Wrap(tool[r].last + 1 + i) : i \in 0 .. tool[r].num - 1}
\* Mutant: one number too many.
CreatableOneMore(r) == \A i \in Numbers(r) : i <= UniqueMax + 1

\* CreateRedeemCode returns "" beyond UNIQUE_CODE_MAX.
Creatable(r) == \A i \in Numbers(r) : i <= UniqueMax

\* No code is written unless all of them could be made.
CreateFails(r) ==
  /\ tool[r].pc = "write" /\ ~Creatable(r)
  /\ tool' = [tool EXCEPT ![r] = [IdleRun EXCEPT !.pc = "done"]]
  /\ UNCHANGED <<history, files, now, handed, repeated, faulty>>

\* The file of this second is opened, which empties it, and gets the codes; a
\* run killed meanwhile leaves some of them.
WriteCodes(r, written) ==
  /\ tool[r].pc = "write" /\ Creatable(r)
  /\ written \subseteq Numbers(r)
  /\ LET codes == {<<tool[r].fun, i>> : i \in written}
     IN /\ files' = [files EXCEPT ![now] = codes]
        /\ repeated' = repeated \cup (codes \cap handed)
        /\ handed' = handed \cup codes
  /\ IF written = Numbers(r)
     THEN tool' = [tool EXCEPT ![r].pc = "reopen"] /\ UNCHANGED faulty
     ELSE /\ Faults /\ faulty' = TRUE
          /\ tool' = [tool EXCEPT ![r] = [IdleRun EXCEPT !.pc = "done"]]
  /\ UNCHANGED <<history, now>>

\* Mutant: the count is stored without the number it goes on from.
ReopenHistoryCount(r) ==
  /\ tool[r].pc = "reopen" /\ \A q \in Run : tool[q].pc # "save"
  /\ history' = NoLines
  /\ tool' = [tool EXCEPT ![r].pc = "save",
                          ![r].id2idx = With(@, tool[r].fun, Wrap(tool[r].num - 1))]
  /\ UNCHANGED <<files, now, handed, repeated, faulty>>

\* The history is opened again, which empties it, and id2idx gets the number
\* of the last code.  Overlapping runs are taken not to write it at one moment.
ReopenHistory(r) ==
  /\ tool[r].pc = "reopen" /\ \A q \in Run : tool[q].pc # "save"
  /\ history' = NoLines
  /\ tool' = [tool EXCEPT ![r].pc = "save",
                          ![r].id2idx = With(@, tool[r].fun, Wrap(tool[r].last + tool[r].num))]
  /\ UNCHANGED <<files, now, handed, repeated, faulty>>

\* The open fails: run returns false, with its codes on disk.
ReopenFails(r) ==
  /\ Faults /\ tool[r].pc = "reopen"
  /\ tool' = [tool EXCEPT ![r] = [IdleRun EXCEPT !.pc = "done"]]
  /\ faulty' = TRUE
  /\ UNCHANGED <<history, files, now, handed, repeated>>

\* One line of the history, in the order of the map; endl flushes it.
SaveLine(r) ==
  /\ tool[r].pc = "save"
  /\ LET f == Min(DOMAIN tool[r].id2idx)
         rest == DOMAIN tool[r].id2idx \ {f}
     IN /\ history' = With(history, f, tool[r].id2idx[f])
        /\ tool' = [tool EXCEPT ![r] =
             IF rest = {} THEN [IdleRun EXCEPT !.pc = "done"]
             ELSE [tool[r] EXCEPT !.id2idx = [g \in rest |-> tool[r].id2idx[g]]]]
  /\ UNCHANGED <<files, now, handed, repeated, faulty>>

Killed(r) ==
  /\ Faults /\ Active(r)
  /\ tool' = [tool EXCEPT ![r] = [IdleRun EXCEPT !.pc = "done"]]
  /\ faulty' = TRUE
  /\ UNCHANGED <<history, files, now, handed, repeated>>

ToolStep(r) ==
  \/ \E f \in Fun, n \in 0 .. MaxNum : ReadHistory(r, f, n)
  \/ \E written \in SUBSET Numbers(r) : WriteCodes(r, written)
  \/ CreateFails(r) \/ ReopenHistory(r) \/ ReopenFails(r) \/ SaveLine(r) \/ Killed(r)

RedeemNext == Tick \/ \E r \in Run : ToolStep(r)

RedeemSpec == RedeemInit /\ [][RedeemNext]_redeemVars

(***************************************************************************)
(* Properties.                                                             *)
(***************************************************************************)
RedeemTypeOK ==
  /\ DOMAIN history \subseteq Fun /\ \A f \in DOMAIN history : history[f] \in 0 .. Word - 1
  /\ files \in [Seconds -> SUBSET (Fun \X (0 .. UniqueMax))]
  /\ repeated \subseteq handed /\ handed \subseteq Fun \X (0 .. UniqueMax)
  /\ now \in Seconds /\ faulty \in BOOLEAN
  /\ \A r \in Run : tool[r].pc \in {"none", "write", "reopen", "save", "done"}

\* The tool kept its promise to make codes again later "without repeats"
\* (serialcode_parser.h:3) for every fun_id but 0, whose line is taken for the
\* heading.
NoRepeats == \A code \in repeated : code[1] = 0

\* Between runs the history knows the number of every code made, and no run has
\* lost the line of another fun_id.
HistoryCovers ==
  (\E r \in Run : Active(r))
    \/ \A code \in handed :
         code[1] # 0 => code[1] \in DOMAIN history /\ code[2] <= history[code[1]]
                        /\ history[code[1]] <= UniqueMax

\* No number is given up: one the history shows stands for codes that were
\* written, from 0 on.
NoNumberSkipped ==
  \A f \in DOMAIN history \ {0} :
    history[f] = Word - 1 \/ \A i \in 0 .. history[f] : <<f, i>> \in handed

\* The history and the codes that were handed out agree: as long as runs end and
\* do not overlap no code repeats and the history covers all of them; whatever
\* runs are killed, fail or overlap, no number is skipped.
HistoryExact == (faulty \/ (NoRepeats /\ HistoryCovers)) /\ NoNumberSkipped
=============================================================================
