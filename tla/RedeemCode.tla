----------------------------- MODULE RedeemCode -----------------------------
(***************************************************************************)
(* RedeemCodeMgr (serialcode_parser.cc): the text of a redeem code and     *)
(* back.  A code has three segments of bits, the fun_id, the unique code   *)
(* and a sign made from the other two; text has REDEEM_CODE_LEN characters *)
(* of CharBits bits each.  The unique code is disguised by one of four     *)
(* keys its last two bits choose, and the fun_id by the disguised unique   *)
(* code.  The widths are constants.  A number is the function from its bit *)
(* positions, 0 the last, to its bits.                                     *)
(***************************************************************************)
EXTENDS Integers, Sequences

CONSTANTS
  REDEEM_CODE_LEN,                 \* 8 in the code
  CharBits,                        \* 5: base 32
  FUN_ID_BIT_LEN, SIGN_BIT_LEN,    \* 8, 10
  MaxText                          \* bound: characters of a text a player types

REDEEM_CODE_BIT_LEN == REDEEM_CODE_LEN * CharBits
UNIQUE_CODE_BIT_LEN == REDEEM_CODE_BIT_LEN - SIGN_BIT_LEN - FUN_ID_BIT_LEN
UNIQUE_CODE_BIT_START_IDX == SIGN_BIT_LEN
FUN_ID_BIT_START_IDX == REDEEM_CODE_BIT_LEN - FUN_ID_BIT_LEN

\* CheckCfg; each (0x1 << LEN) - 1 is an int; GetSign takes a uint32_t.  Without two
\* bits of unique code the four keys would not differ, and without one of sign every
\* text would pass.
ASSUME RedeemCfg ==
  /\ REDEEM_CODE_LEN \in Nat /\ CharBits \in Nat \ {0} /\ MaxText \in Nat
  /\ SIGN_BIT_LEN \in 1 .. 30 /\ FUN_ID_BIT_LEN \in 1 .. 30 /\ UNIQUE_CODE_BIT_LEN \in 2 .. 30
  /\ 2 * SIGN_BIT_LEN <= REDEEM_CODE_BIT_LEN /\ REDEEM_CODE_BIT_LEN <= 64
  /\ FUN_ID_BIT_LEN + UNIQUE_CODE_BIT_LEN <= 32

VARIABLES
  asked,    \* the fun_id and unique code CreateRedeemCode was called with
  code      \* the text it returned, or a text a player typed

codeVars == <<asked, code>>

Segment(n) == [0 .. n - 1 -> {0, 1}]
TooLarge == <<>>                  \* a number above the largest of its segment
Character == Segment(CharBits)
Bad == <<>>                       \* a character outside Base32Alphabet
Failed == <<>>                    \* ""

CodeInit == asked = <<>> /\ code = Failed

\* A uint32_t from its hexadecimal digits.
Hex(digits) == [i \in 0 .. 31 |-> (digits[8 - (i \div 4)] \div <<1, 2, 4, 8>>[1 + (i % 4)]) % 2]

\* Mutant: a key that ends in other bits.
KeysCollide ==
  << Hex(<<7, 15, 8, 10, 4, 2, 3, 3>>), Hex(<<11, 10, 5, 6, 3, 14, 7, 2>>),
     Hex(<<10, 15, 15, 10, 3, 2, 12, 14>>), Hex(<<5, 15, 8, 10, 3, 13, 13, 2>>) >>

UNIQUE_CODE_XOR_KEY ==
  << Hex(<<7, 15, 8, 10, 4, 2, 3, 3>>), Hex(<<11, 10, 5, 6, 3, 14, 7, 3>>),
     Hex(<<10, 15, 15, 10, 3, 2, 12, 14>>), Hex(<<5, 15, 8, 10, 3, 13, 13, 2>>) >>
SIGN_XOR_KEY == Hex(<<7, 15, 8, 10, 1, 2, 3, 1>>)

Bit(w, i) == IF i \in DOMAIN w THEN w[i] ELSE 0
\* (w >> from) & (2^n - 1), (a ^ b) & (2^n - 1), and high << n | low.
Cut(w, from, n) == [i \in 0 .. n - 1 |-> Bit(w, from + i)]
Xor(a, b, n) == [i \in 0 .. n - 1 |-> IF Bit(a, i) = Bit(b, i) THEN 0 ELSE 1]
Join(high, low, n) ==
  [i \in 0 .. REDEEM_CODE_BIT_LEN - 1 |-> IF i < n THEN Bit(low, i) ELSE Bit(high, i - n)]

GetSign(src) == Xor(src, SIGN_XOR_KEY, SIGN_BIT_LEN)

Uint64ToCode(src) ==
  [i \in 1 .. REDEEM_CODE_LEN |-> Cut(src, CharBits * (REDEEM_CODE_LEN - i), CharBits)]

\* A character outside the alphabet makes the whole code 0.
CodeToUint64(text) ==
  [i \in 0 .. REDEEM_CODE_BIT_LEN - 1 |->
     IF \E k \in 1 .. REDEEM_CODE_LEN : text[k] = Bad THEN 0
     ELSE text[REDEEM_CODE_LEN - (i \div CharBits)][i % CharBits]]

Disguised(unique_code) ==
  Xor(unique_code, UNIQUE_CODE_XOR_KEY[1 + unique_code[0] + 2 * unique_code[1]],
      UNIQUE_CODE_BIT_LEN)

CreateRedeemCode(fun_id, unique_code) ==
  IF fun_id = TooLarge \/ unique_code = TooLarge THEN Failed
  ELSE LET unique == Disguised(unique_code)
           fun == Xor(unique, fun_id, FUN_ID_BIT_LEN)
           sign_src == Join(fun, unique, UNIQUE_CODE_BIT_LEN)
       IN Uint64ToCode(Join(sign_src, GetSign(sign_src), SIGN_BIT_LEN))

CheckCodeValid(text) ==
  /\ Len(text) = REDEEM_CODE_LEN
  /\ LET src == CodeToUint64(text)
         sign_src == Cut(src, SIGN_BIT_LEN, REDEEM_CODE_BIT_LEN)
     IN Cut(src, 0, SIGN_BIT_LEN) = GetSign(sign_src)

GetFunId(text) ==
  LET src == CodeToUint64(text)
      unique_code == Cut(src, UNIQUE_CODE_BIT_START_IDX, UNIQUE_CODE_BIT_LEN)
      fun_id == Cut(src, FUN_ID_BIT_START_IDX, FUN_ID_BIT_LEN)
  IN Xor(unique_code, fun_id, FUN_ID_BIT_LEN)

\* The tool makes a code, in range or not.
Create(fun_id, unique_code) ==
  /\ asked = <<>> /\ code = Failed
  /\ asked' = <<fun_id, unique_code>>
  /\ code' = CreateRedeemCode(fun_id, unique_code)

\* A server is given a text of any characters.
Type(text) ==
  /\ asked = <<>> /\ code = Failed
  /\ code' = text /\ UNCHANGED asked

FunIds == Segment(FUN_ID_BIT_LEN)
UniqueCodes == Segment(UNIQUE_CODE_BIT_LEN)
Texts == UNION {[1 .. n -> Character \cup {Bad}] : n \in 0 .. MaxText}

CodeNext ==
  \/ \E fun_id \in FunIds \cup {TooLarge}, unique_code \in UniqueCodes \cup {TooLarge} :
       Create(fun_id, unique_code)
  \/ \E text \in Texts : Type(text)

CodeSpec == CodeInit /\ [][CodeNext]_codeVars

(***************************************************************************)
(* Properties.                                                             *)
(***************************************************************************)
Made == [p \in FunIds \X UniqueCodes |-> CreateRedeemCode(p[1], p[2])]
MadeBy(text) == {p \in DOMAIN Made : Made[p] = text}

\* serialcode_parser.h:3: codes do not repeat, and a server accepts what the
\* tool makes.  No two pairs of fun_id and unique code have the same text,
\* which hangs on the last two bits of the four keys; CheckCodeValid accepts
\* the texts the tool can make and no other, of a text with a character
\* outside the alphabet or of another length too; GetFunId gives the fun_id
\* back; and a code is refused for an argument that is too large only.
CodesExact ==
  /\ code # Failed => /\ CheckCodeValid(code) <=> MadeBy(code) # {}
                      /\ \A p, q \in MadeBy(code) : p = q
                      /\ \A p \in MadeBy(code) : GetFunId(code) = p[1]
  /\ asked # <<>> => \/ asked \in MadeBy(code)
                     \/ code = Failed /\ TooLarge \in {asked[1], asked[2]}
=============================================================================
