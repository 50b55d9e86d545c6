--------------------------- MODULE MsgStreamProofs ---------------------------
(***************************************************************************)
(* conn_read_callback writes behind m_msg only in a message of HalfByte    *)
(* bytes whose body comes in pieces, and never passes OnRecv a length that *)
(* m_msg does not hold, for every size of a byte and of a message, every   *)
(* input, and any number of reconnects.  With well framed input it passes  *)
(* OnRecv what was sent and nothing else, however the bytes are split, and *)
(* keeps nothing back unless a body came in pieces.                        *)
(***************************************************************************)
EXTENDS MsgStream, SequenceTheorems, TLAPS

-----------------------------------------------------------------------------
(* The memory of a MsgPack.                                                *)

LEMMA SizeFacts ==
    /\ Base \in Nat /\ Base >= 2
    /\ MAX_MSG_DATA_LEN \in Nat
    /\ HEAD_LEN = 4
    /\ MsgSize \in Nat /\ MsgSize = 4 + MAX_MSG_DATA_LEN
    /\ MsgSize > 4
    /\ Byte \subseteq Nat /\ 0 \in Byte
  BY StreamAssumption DEF MsgSize, HEAD_LEN, Byte

LEMMA ProductNat == ASSUME NEW a \in Nat, NEW b \in Nat PROVE a * b \in Nat
  BY SMT

LEMMA SignedInt == ASSUME NEW n \in Int PROVE Signed(n) \in Int
<1>1. Base * Base \in Nat
  BY ProductNat, SizeFacts
<1>2. Base * Base * Base \in Nat
  BY <1>1, ProductNat, SizeFacts
<1>3. Base * Base * Base * Base \in Nat
  BY <1>2, ProductNat, SizeFacts
<1> DEFINE W == Base * Base * Base * Base
<1>4. W \in Nat
  BY <1>3
<1>5. Signed(n) = IF 2 * n >= W THEN n - W ELSE n
  BY DEF Signed
<1> HIDE DEF W
<1> QED
  BY <1>4, <1>5

(* The length in m_msg is an int whatever its bytes are.                   *)
LEMMA HostLenInt == ASSUME NEW m \in MsgPack PROVE HostLen(m) \in Int
<1>a. 0 \in 0 .. MsgSize - 1 /\ 1 \in 0 .. MsgSize - 1
      /\ 2 \in 0 .. MsgSize - 1 /\ 3 \in 0 .. MsgSize - 1
  BY SizeFacts
<1>b. m[0] \in Byte /\ m[1] \in Byte /\ m[2] \in Byte /\ m[3] \in Byte
  BY <1>a DEF MsgPack
<1>1. m[0] \in Nat /\ m[1] \in Nat /\ m[2] \in Nat /\ m[3] \in Nat
  BY <1>b, SizeFacts
<1>2. Base * m[3] \in Nat
  BY <1>1, ProductNat, SizeFacts
<1>3. m[2] + Base * m[3] \in Nat
  BY <1>1, <1>2
<1>4. Base * (m[2] + Base * m[3]) \in Nat
  BY <1>3, ProductNat, SizeFacts
<1>5. m[1] + Base * (m[2] + Base * m[3]) \in Nat
  BY <1>1, <1>4
<1>6. Base * (m[1] + Base * (m[2] + Base * m[3])) \in Nat
  BY <1>5, ProductNat, SizeFacts
<1>7. m[0] + Base * (m[1] + Base * (m[2] + Base * m[3])) \in Int
  BY <1>1, <1>6
<1> QED
  BY <1>7, SignedInt DEF HostLen

LEMMA HtoNLType == ASSUME NEW m \in MsgPack PROVE HtoNL(m) \in MsgPack
<1>1. 0 \in 0 .. MsgSize - 1 /\ 1 \in 0 .. MsgSize - 1
      /\ 2 \in 0 .. MsgSize - 1 /\ 3 \in 0 .. MsgSize - 1
  BY SizeFacts
<1> QED
  BY <1>1 DEF HtoNL, MsgPack

LEMMA PutType ==
    ASSUME NEW m \in MsgPack, NEW at \in Nat, NEW bytes \in Seq(Byte)
    PROVE  Put(m, at, bytes) \in MsgPack
<1> SUFFICES ASSUME NEW i \in 0 .. MsgSize - 1,
                    at <= i, i < at + Len(bytes)
             PROVE  bytes[i - at + 1] \in Byte
  BY DEF Put, MsgPack
<1>1. i \in Nat /\ Len(bytes) \in Nat
  BY SizeFacts
<1>2. i - at + 1 \in 1 .. Len(bytes)
  BY <1>1
<1> QED
  BY <1>2

(* Bytes of the body do not change the length in the header.               *)
LEMMA PutKeepsLen ==
    ASSUME NEW m \in MsgPack, NEW at \in Nat, at >= HEAD_LEN,
           NEW bytes \in Seq(Byte)
    PROVE  HostLen(Put(m, at, bytes)) = HostLen(m)
<1> DEFINE p == Put(m, at, bytes)
<1>1. p[0] = m[0] /\ p[1] = m[1] /\ p[2] = m[2] /\ p[3] = m[3]
  BY SizeFacts DEF Put
<1> QED
  BY <1>1 DEF HostLen

LEMMA AfterRecvType ==
    ASSUME NEW x \in [up : BOOLEAN, msg : MsgPack, wlen : Nat]
    PROVE  /\ AfterRecv(x) \in [up : BOOLEAN, msg : MsgPack, wlen : Nat]
           /\ AfterRecv(x).wlen = 0
  BY SizeFacts DEF AfterRecv, MsgPack

LEMMA FreshReceiverType ==
    /\ FreshReceiver \in [up : BOOLEAN, msg : MsgPack, wlen : Nat]
    /\ FreshReceiver.wlen = 0
  BY SizeFacts DEF FreshReceiver, MsgPack

LEMMA DataType ==
    ASSUME NEW m \in MsgPack, HostLen(m) \in 0 .. MAX_MSG_DATA_LEN
    PROVE  Data(m) \in Payload
<1>1. \A i \in 1 .. HostLen(m) : m[HEAD_LEN + i - 1] \in Byte
  BY SizeFacts DEF MsgPack
<1>2. Lesser(HostLen(m), MAX_MSG_DATA_LEN) = HostLen(m)
  BY SizeFacts DEF Lesser
<1>3. Data(m) \in [1 .. HostLen(m) -> Byte]
  BY <1>1, <1>2 DEF Data
<1> QED
  BY <1>3 DEF Payload

-----------------------------------------------------------------------------
(* The sender's bytes.                                                     *)

LEMMA BodiesArePayload == Bodies \subseteq Payload
  BY StreamAssumption

LEMMA PayloadSeq == Payload \subseteq Seq(Byte) /\ Tail4 \subseteq Seq(Byte)
<1>1. ASSUME NEW m \in Payload PROVE m \in Seq(Byte)
  <2>1. PICK n \in 0 .. MAX_MSG_DATA_LEN : m \in [1 .. n -> Byte]
    BY DEF Payload
  <2>2. n \in Nat
    BY SizeFacts
  <2> QED
    BY <2>1, <2>2
<1>2. ASSUME NEW t \in Tail4 PROVE t \in Seq(Byte)
  <2>1. t \in [1 .. 4 -> Byte]
    BY StreamAssumption DEF Tail4, HEAD_LEN
  <2>2. PICK n \in Nat : t \in [1 .. n -> Byte]
    BY <2>1
  <2> QED
    BY <2>2
<1> QED
  BY <1>1, <1>2

LEMMA DigitType == ASSUME NEW n \in Nat PROVE n % Base \in Byte
  BY SizeFacts DEF Byte

LEMMA NetBytesType == ASSUME NEW n \in Nat PROVE NetBytes(n) \in Seq(Byte)
<1>1. /\ Base * Base \in Nat /\ Base * Base > 0
      /\ Base * Base * Base \in Nat /\ Base * Base * Base > 0
  <2>1. \A a, b \in Nat : a > 0 /\ b > 0 => a * b > 0
    BY SMT
  <2>2. Base * Base \in Nat /\ Base * Base > 0
    BY ProductNat, SizeFacts, <2>1
  <2>3. Base * Base * Base \in Nat
    BY ProductNat, SizeFacts, <2>2
  <2> QED
    BY <2>1, <2>2, <2>3, SizeFacts
<1>2. \A d \in Nat : d > 0 => n \div d \in Nat
  BY SMT
<1>3. /\ n \div (Base * Base * Base) \in Nat
      /\ n \div (Base * Base) \in Nat
      /\ n \div Base \in Nat
  BY <1>1, <1>2, SizeFacts
<1>4. /\ (n \div (Base * Base * Base)) % Base \in Byte
      /\ (n \div (Base * Base)) % Base \in Byte
      /\ (n \div Base) % Base \in Byte
      /\ n % Base \in Byte
  BY <1>3, DigitType
<1> QED
  BY <1>4 DEF NetBytes

LEMMA FrameType ==
    ASSUME NEW m \in Payload, NEW tail \in Seq(Byte)
    PROVE  Frame(m, tail) \in Seq(Byte)
<1>1. m \in Seq(Byte) /\ Len(m) \in Nat
  BY PayloadSeq
<1> QED
  BY <1>1, NetBytesType DEF Frame

LEMMA PieceType ==
    ASSUME NEW q \in Seq(Byte), NEW a \in Nat \ {0}, NEW b \in Int, b <= Len(q)
    PROVE  /\ SubSeq(q, a, b) \in Seq(Byte)
           /\ Len(SubSeq(q, a, b)) = IF a <= b THEN b - a + 1 ELSE 0
<1>1. \A i \in a .. b : q[i] \in Byte
  BY ElementOfSeq
<1> QED
  BY <1>1, SubSeqProperties

-----------------------------------------------------------------------------
(***************************************************************************)
(* The framing.  The length of a message is its two lower digits; read     *)
(* with its bytes reversed it is no length.                                *)
(***************************************************************************)

LEMMA ProductLess ==
    ASSUME NEW a \in Nat, NEW b \in Nat, NEW c \in Nat
    PROVE  /\ a <= b => c * a <= c * b
           /\ a < b /\ c > 0 => c * a < c * b
           /\ a > 0 => c <= c * a
           /\ c * (a + b) = c * a + c * b
           /\ c * 0 = 0 /\ a * b = b * a
  BY SMT

LEMMA DivSmall == ASSUME NEW n \in Nat, NEW d \in Nat, n < d PROVE n \div d = 0
  BY SMT

LEMMA DivMod ==
    ASSUME NEW n \in Nat
    PROVE  /\ n \div Base \in Nat /\ n % Base \in 0 .. Base - 1
           /\ n = (n % Base) + Base * (n \div Base)
<1>1. Base \in Nat \ {0}
  BY SizeFacts
<1> QED
  BY <1>1, SMT

(* The two digits of a length.                                             *)
LEMMA LengthDigits ==
    ASSUME NEW n \in Nat, n < Base * Base
    PROVE  \E a, d \in 0 .. Base - 1 :
               n = d + Base * a /\ NetBytes(n) = <<0, 0, a, d>>
<1> DEFINE Q == Base * Base
           a == n \div Base
           d == n % Base
<1>1. Q \in Nat /\ Base \in Nat /\ Base >= 2 /\ Q * Base \in Nat /\ Q <= Q * Base
  <2>1. Q \in Nat /\ Base \in Nat /\ Base >= 2
    BY SizeFacts, ProductNat
  <2> HIDE DEF Q
  <2> QED
    BY <2>1, ProductNat, ProductLess
<1>2. a \in Nat /\ d \in 0 .. Base - 1 /\ n = d + Base * a
  BY DivMod
<1>3. a \in 0 .. Base - 1
  <2>1. Base * a \in Nat /\ Base * a < Q
    BY <1>1, <1>2, ProductNat
  <2>2. ~(Base <= a)
    BY <1>1, <1>2, <2>1, ProductLess
  <2> QED
    BY <1>1, <1>2, <2>2
<1>4. n \div Q = 0 /\ n \div (Q * Base) = 0
  <2>1. n < Q /\ n < Q * Base
    BY <1>1
  <2> HIDE DEF Q
  <2> QED
    BY <1>1, <2>1, DivSmall
<1>5. 0 % Base = 0 /\ a % Base = a
  <2> HIDE DEF a
  <2> QED
    BY <1>1, <1>3, SMT
<1>6. NetBytes(n) = <<0, 0, a, d>>
  BY <1>4, <1>5 DEF NetBytes
<1> QED
  BY <1>2, <1>3, <1>6

(* The bytes of HtoNL and what they mean.                                  *)
LEMMA HtoNLBytes ==
    ASSUME NEW m \in MsgPack
    PROVE  /\ HtoNL(m)[0] = m[3] /\ HtoNL(m)[1] = m[2]
           /\ HtoNL(m)[2] = m[1] /\ HtoNL(m)[3] = m[0]
           /\ \A i \in HEAD_LEN .. MsgSize - 1 : HtoNL(m)[i] = m[i]
<1>1. 0 \in 0 .. MsgSize - 1 /\ 1 \in 0 .. MsgSize - 1
      /\ 2 \in 0 .. MsgSize - 1 /\ 3 \in 0 .. MsgSize - 1
  BY SizeFacts
<1>2. \A i \in HEAD_LEN .. MsgSize - 1 : i \in 0 .. MsgSize - 1 /\ i \notin 0 .. 3
  BY SizeFacts
<1> QED
  BY <1>1, <1>2 DEF HtoNL, MsgPack

(* One more digit in front.                                                *)
LEMMA DigitBelow ==
    ASSUME NEW x \in 0 .. Base - 1, NEW k \in Nat, NEW y \in 0 .. k - 1
    PROVE  x + Base * y \in 0 .. Base * k - 1
<1>1. Base \in Nat /\ x \in Nat /\ y \in Nat /\ y + 1 \in Nat /\ y + 1 <= k /\ x < Base
  BY SizeFacts
<1>2. Base * y \in Nat /\ Base * (y + 1) \in Nat /\ Base * k \in Nat
  BY <1>1, ProductNat
<1>3. Base * (y + 1) = Base * y + Base * 1 /\ Base * (y + 1) <= Base * k
  BY <1>1, ProductLess
<1>4. Base * 1 = Base
  BY <1>1
<1> DEFINE e == Base * y
           g == Base * k
<1>5. e \in Nat /\ g \in Nat /\ e + Base <= g
  BY <1>2, <1>3, <1>4
<1> HIDE DEF e, g
<1>6. x + e \in 0 .. g - 1
  BY <1>1, <1>5
<1> QED
  BY <1>6 DEF e, g

(* The number of values of a byte, of a length, of an int, and half of it. *)
Bytes2 == Base * Base
Bytes4 == Base * Base * Base * Base
HalfInt == Bytes2 * (Base * HalfByte)

LEMMA IntSizes ==
    /\ HalfByte \in Nat /\ Base = 2 * HalfByte /\ HalfByte < Base
    /\ Bytes2 \in Nat /\ Bytes2 >= 4 /\ MAX_MSG_DATA_LEN < Bytes2
    /\ Base * HalfByte \in Nat
    /\ Bytes4 \in Nat /\ Bytes4 = Bytes2 * Bytes2 /\ Bytes4 = Base * (Base * Bytes2)
    /\ HalfInt \in Nat /\ Bytes4 = 2 * HalfInt /\ 2 * Bytes2 <= HalfInt
    /\ MsgSize < HalfInt
<1>1. Base \in Nat /\ Base >= 2 /\ Base % 2 = 0 /\ MAX_MSG_DATA_LEN \in Nat
      /\ MAX_MSG_DATA_LEN < Bytes2 /\ MsgSize = 4 + MAX_MSG_DATA_LEN
  BY SizeFacts, StreamAssumption DEF Bytes2
<1>2. HalfByte \in Nat /\ Base = 2 * HalfByte /\ HalfByte < Base
  BY <1>1 DEF HalfByte
<1>3. Bytes2 \in Nat /\ Bytes2 >= 4
  <2>1. \A x \in Nat : x >= 2 => x * x \in Nat /\ x * x >= 4
    BY SMT
  <2> QED
    BY <1>1, <2>1 DEF Bytes2
<1>4. Base * HalfByte \in Nat /\ Bytes2 = 2 * (Base * HalfByte)
  <2>1. \A x, y \in Nat : x = 2 * y => x * x = 2 * (x * y) /\ x * y \in Nat
    BY SMT
  <2> QED
    BY <1>1, <1>2, <2>1 DEF Bytes2
<1>5. Bytes4 = Bytes2 * Bytes2 /\ Bytes4 = Base * (Base * Bytes2)
  <2>1. \A x \in Nat : x * x * x * x = (x * x) * (x * x) /\ x * x * x * x = x * (x * (x * x))
    BY SMT
  <2> QED
    BY <1>1, <2>1 DEF Bytes2, Bytes4
<1>6. HalfInt \in Nat /\ Bytes4 = 2 * HalfInt /\ 2 * Bytes2 <= HalfInt
  <2> DEFINE p == Base * HalfByte
  <2>1. p \in Nat /\ Bytes2 = 2 * p /\ p >= 2 /\ Bytes2 \in Nat
    BY <1>3, <1>4
  <2>2. HalfInt = Bytes2 * p
    BY DEF HalfInt
  <2> HIDE DEF p
  <2>3. Bytes2 * p \in Nat /\ Bytes2 * 2 <= Bytes2 * p
    BY <2>1, ProductNat, ProductLess
  <2>4. Bytes2 * Bytes2 = 2 * (Bytes2 * p)
    <3>1. \A x, y \in Nat : x = 2 * y => x * x = 2 * (x * y)
      BY SMT
    <3> QED
      BY <2>1, <3>1
  <2>5. Bytes2 * 2 = 2 * Bytes2
    BY <2>1
  <2> QED
    BY <1>5, <2>2, <2>3, <2>4, <2>5
<1>7. Bytes4 \in Nat
  BY <1>6
<1> QED
  BY <1>1, <1>2, <1>3, <1>4, <1>5, <1>6, <1>7

LEMMA WrappedInt == ASSUME NEW x \in Int PROVE Wrapped(x) \in Int
<1>1. x % Bytes4 \in Int
  <2>1. Bytes4 \in Nat /\ Bytes4 > 0
    BY IntSizes
  <2> QED
    BY <2>1
<1>2. Signed(x % Bytes4) \in Int
  BY <1>1, SignedInt
<1> QED
  BY <1>2 DEF Wrapped, Bytes4

(* A sum that an int holds is itself, one below wraps.                     *)
LEMMA WrapFacts ==
    ASSUME NEW x \in Int, - Bytes4 <= x, x < HalfInt
    PROVE  Wrapped(x) = IF - HalfInt <= x THEN x ELSE x + Bytes4
<1>1. /\ Bytes4 \in Nat /\ HalfInt \in Nat /\ HalfInt > 0 /\ Bytes4 = 2 * HalfInt
  BY IntSizes
<1>2. Wrapped(x) = Signed(x % Bytes4)
  BY DEF Wrapped, Bytes4
<1>3. \A n : Signed(n) = IF 2 * n >= Bytes4 THEN n - Bytes4 ELSE n
  BY DEF Signed, Bytes4
<1>4. CASE x >= 0
  <2>1. x % Bytes4 = x
    BY <1>1, <1>4
  <2> QED
    BY <1>1, <1>2, <1>3, <1>4, <2>1
<1>5. CASE x < 0
  <2>1. x % Bytes4 = x + Bytes4
    BY <1>1, <1>5
  <2> QED
    BY <1>1, <1>2, <1>3, <1>5, <2>1
<1> QED
  BY <1>4, <1>5

(* The bytes of a length, and an int is never less than the smallest.      *)
LEMMA HeaderDigits ==
    ASSUME NEW m \in MsgPack
    PROVE  /\ \A k \in 0 .. 3 : m[k] \in 0 .. Base - 1
           /\ HostLen(m) \in Int /\ HostLen(m) >= - HalfInt
           /\ HostLen(m) \in 0 .. MAX_MSG_DATA_LEN =>
                 m[2] = 0 /\ m[3] = 0 /\ HostLen(m) = m[0] + Base * m[1]
<1> DEFINE v == m[2] + Base * m[3]
           l == m[0] + Base * m[1]
           n == m[0] + Base * (m[1] + Base * v)
<1>1. \A k \in 0 .. 3 : m[k] \in 0 .. Base - 1
  <2>1. \A k \in 0 .. 3 : k \in 0 .. MsgSize - 1
    BY SizeFacts
  <2> QED
    BY <2>1 DEF MsgPack, Byte
<1>2. /\ m[0] \in 0 .. Base - 1 /\ m[1] \in 0 .. Base - 1
      /\ m[2] \in 0 .. Base - 1 /\ m[3] \in 0 .. Base - 1
  BY <1>1
<1>3. /\ Base \in Nat /\ Bytes2 \in Nat /\ Base * Bytes2 \in Nat
      /\ Bytes4 \in Nat /\ HalfInt \in Nat /\ Bytes4 = 2 * HalfInt
      /\ MAX_MSG_DATA_LEN \in Nat /\ MAX_MSG_DATA_LEN < Bytes2
  BY SizeFacts, IntSizes, ProductNat
<1>4. v \in 0 .. Bytes2 - 1 /\ l \in 0 .. Bytes2 - 1
  BY <1>2, <1>3, DigitBelow DEF Bytes2
<1> HIDE DEF v
<1>5. m[1] + Base * v \in 0 .. Base * Bytes2 - 1
  BY <1>2, <1>3, <1>4, DigitBelow
<1>6. n \in 0 .. Bytes4 - 1
  <2>1. n \in 0 .. Base * (Base * Bytes2) - 1
    BY <1>2, <1>3, <1>5, DigitBelow
  <2> QED
    BY <2>1, IntSizes
<1>7. n = l + Bytes2 * v
  <2>1. \A x, y, z, b \in Nat : x + b * (y + b * z) = (x + b * y) + (b * b) * z
    BY SMT
  <2>2. m[0] \in Nat /\ m[1] \in Nat /\ v \in Nat
    BY <1>2, <1>3, <1>4
  <2> QED
    BY <1>3, <2>1, <2>2 DEF Bytes2
<1>8. HostLen(m) = IF 2 * n >= Bytes4 THEN n - Bytes4 ELSE n
  BY DEF HostLen, Signed, Bytes4, v
<1> HIDE DEF n, l
<1>9. HostLen(m) \in Int /\ HostLen(m) >= - HalfInt
  BY <1>3, <1>6, <1>8
<1>10. ASSUME HostLen(m) \in 0 .. MAX_MSG_DATA_LEN
       PROVE  m[2] = 0 /\ m[3] = 0 /\ HostLen(m) = l
  <2>1. HostLen(m) = n /\ n < Bytes2
    BY <1>3, <1>6, <1>8, <1>10
  <2>2. v > 0 => Bytes2 <= Bytes2 * v
    BY <1>3, <1>4, ProductLess
  <2>3. Bytes2 * v \in Nat
    BY <1>3, <1>4, ProductNat
  <2>4. v = 0
    BY <1>3, <1>4, <1>7, <2>1, <2>2, <2>3
  <2>5. m[2] = 0 /\ m[3] = 0
    <3>1. m[2] \in Nat /\ m[3] \in Nat /\ Base * m[3] \in Nat /\ m[2] + Base * m[3] = 0
      BY <1>2, <1>3, <2>4, ProductNat DEF v
    <3>2. m[3] > 0 => Base <= Base * m[3]
      BY <1>3, <3>1, ProductLess
    <3> QED
      BY SizeFacts, <3>1, <3>2
  <2>6. Bytes2 * 0 = 0
    BY <1>3
  <2> QED
    BY <1>3, <1>4, <1>7, <2>1, <2>4, <2>5, <2>6
<1> QED
  BY <1>1, <1>9, <1>10 DEF l

(* A length that arrived is right once reversed.                           *)
LEMMA LengthOnce ==
    ASSUME NEW m \in MsgPack, NEW n \in 0 .. MAX_MSG_DATA_LEN,
           \A k \in 1 .. HEAD_LEN : m[k - 1] = NetBytes(n)[k]
    PROVE  HostLen(HtoNL(m)) = n
<1>1. /\ Base \in Nat /\ Base >= 2 /\ Bytes2 \in Nat /\ n \in Nat /\ n < Bytes2
      /\ Bytes4 \in Nat /\ Bytes4 = 2 * HalfInt /\ HalfInt \in Nat /\ 2 * Bytes2 <= HalfInt
  BY SizeFacts, IntSizes
<1>2. PICK a \in 0 .. Base - 1, d \in 0 .. Base - 1 :
          n = d + Base * a /\ NetBytes(n) = <<0, 0, a, d>>
  BY <1>1, LengthDigits DEF Bytes2
<1>3. m[0] = 0 /\ m[1] = 0 /\ m[2] = a /\ m[3] = d
  <2>1. 1 \in 1 .. HEAD_LEN /\ 2 \in 1 .. HEAD_LEN /\ 3 \in 1 .. HEAD_LEN /\ 4 \in 1 .. HEAD_LEN
    BY DEF HEAD_LEN
  <2>2. /\ m[1 - 1] = NetBytes(n)[1] /\ m[2 - 1] = NetBytes(n)[2]
        /\ m[3 - 1] = NetBytes(n)[3] /\ m[4 - 1] = NetBytes(n)[4]
    BY <2>1
  <2> QED
    BY <1>2, <2>2
<1>4. HostLen(HtoNL(m)) = Signed(d + Base * (a + Base * (0 + Base * 0)))
  BY <1>3, HtoNLBytes DEF HostLen
<1>5. d + Base * (a + Base * (0 + Base * 0)) = n
  <2>1. a \in Nat /\ d \in Nat /\ Base * 0 = 0 /\ 0 + 0 = 0 /\ a + 0 = a
    BY <1>1, <1>2
  <2> QED
    BY <1>2, <2>1
<1>6. ~(2 * n >= Bytes4)
  BY <1>1
<1> QED
  BY <1>4, <1>5, <1>6 DEF Signed, Bytes4

(* Reversed twice the header is what it was, and bytes of the body do not  *)
(* matter to it.                                                           *)
LEMMA ReversedTwice ==
    ASSUME NEW m \in MsgPack
    PROVE  /\ HtoNL(HtoNL(m)) = m
           /\ \A w \in Nat, p \in Seq(Byte) :
                 w >= HEAD_LEN => HtoNL(Put(m, w, p)) = Put(HtoNL(m), w, p)
<1>1. HEAD_LEN = 4 /\ MsgSize \in Nat /\ MsgSize > 4
  BY SizeFacts
<1>2. /\ HtoNL(m) \in MsgPack
      /\ HtoNL(m)[0] = m[3] /\ HtoNL(m)[1] = m[2] /\ HtoNL(m)[2] = m[1] /\ HtoNL(m)[3] = m[0]
      /\ \A i \in 4 .. MsgSize - 1 : HtoNL(m)[i] = m[i]
  BY <1>1, HtoNLBytes, HtoNLType
<1>3. \A i \in 0 .. MsgSize - 1 : i = 0 \/ i = 1 \/ i = 2 \/ i = 3 \/ i \in 4 .. MsgSize - 1
  BY <1>1
<1>4. ASSUME NEW x \in MsgPack, NEW y \in MsgPack, \A i \in 0 .. MsgSize - 1 : x[i] = y[i]
      PROVE  x = y
  <2>1. x = [i \in 0 .. MsgSize - 1 |-> x[i]] /\ y = [i \in 0 .. MsgSize - 1 |-> y[i]]
    BY DEF MsgPack
  <2>2. [i \in 0 .. MsgSize - 1 |-> x[i]] = [i \in 0 .. MsgSize - 1 |-> y[i]]
    BY <1>4
  <2> QED
    BY <2>1, <2>2
<1>5. HtoNL(HtoNL(m)) = m
  <2> DEFINE u == HtoNL(m)
             x == HtoNL(u)
  <2>1. /\ u \in MsgPack
        /\ u[0] = m[3] /\ u[1] = m[2] /\ u[2] = m[1] /\ u[3] = m[0]
        /\ \A i \in 4 .. MsgSize - 1 : u[i] = m[i]
    BY <1>2
  <2> HIDE DEF u
  <2>2. /\ x \in MsgPack
        /\ x[0] = u[3] /\ x[1] = u[2] /\ x[2] = u[1] /\ x[3] = u[0]
        /\ \A i \in 4 .. MsgSize - 1 : x[i] = u[i]
    BY <1>1, <2>1, HtoNLBytes, HtoNLType
  <2> HIDE DEF x
  <2>3. \A i \in 0 .. MsgSize - 1 : x[i] = m[i]
    BY <1>3, <2>1, <2>2
  <2>4. x = m
    BY <1>4, <2>2, <2>3
  <2> QED
    BY <2>4 DEF x, u
<1>6. ASSUME NEW w \in Nat, NEW p \in Seq(Byte), w >= HEAD_LEN
      PROVE  HtoNL(Put(m, w, p)) = Put(HtoNL(m), w, p)
  <2> DEFINE u == HtoNL(m)
             q == Put(m, w, p)
             x == HtoNL(q)
             y == Put(u, w, p)
  <2>1. q \in MsgPack /\ y \in MsgPack
    BY <1>2, PutType
  <2>2. x \in MsgPack /\ x[0] = q[3] /\ x[1] = q[2] /\ x[2] = q[1] /\ x[3] = q[0]
        /\ \A i \in 4 .. MsgSize - 1 : x[i] = q[i]
    <3> HIDE DEF q
    <3> QED
      BY <1>1, <2>1, HtoNLBytes, HtoNLType
  <2>3. q[0] = m[0] /\ q[1] = m[1] /\ q[2] = m[2] /\ q[3] = m[3]
    BY <1>1, <1>6 DEF Put
  <2>4. y[0] = u[0] /\ y[1] = u[1] /\ y[2] = u[2] /\ y[3] = u[3]
    <3> HIDE DEF u
    <3> QED
      BY <1>1, <1>6 DEF Put
  <2>5. \A i \in 4 .. MsgSize - 1 : q[i] = y[i]
    <3> SUFFICES ASSUME NEW i \in 4 .. MsgSize - 1 PROVE q[i] = y[i]
      OBVIOUS
    <3>1. i \in 0 .. MsgSize - 1 /\ u[i] = m[i]
      BY <1>1, <1>2
    <3> HIDE DEF u
    <3>2. /\ q[i] = IF w <= i /\ i < w + Len(p) THEN p[i - w + 1] ELSE m[i]
          /\ y[i] = IF w <= i /\ i < w + Len(p) THEN p[i - w + 1] ELSE u[i]
      BY <3>1 DEF Put
    <3> QED
      BY <3>1, <3>2
  <2>6. u[0] = m[3] /\ u[1] = m[2] /\ u[2] = m[1] /\ u[3] = m[0]
    BY <1>2
  <2> HIDE DEF u, q, x, y
  <2>7. \A i \in 0 .. MsgSize - 1 : x[i] = y[i]
    BY <1>3, <2>2, <2>3, <2>4, <2>5, <2>6
  <2>8. x = y
    BY <1>4, <2>1, <2>2, <2>7
  <2> QED
    BY <2>8 DEF x, y, q, u
<1> QED
  BY <1>5, <1>6

(* How many bytes are still to be read, as long as nothing wraps.          *)
LEMMA NeedExact ==
    ASSUME NEW m \in MsgPack, NEW w \in Nat, HEAD_LEN <= w, w <= MsgSize,
           HostLen(m) <= MAX_MSG_DATA_LEN, w = HEAD_LEN \/ HostLen(m) >= 0
    PROVE  NeedToRead(m, w) = HostLen(m) + HEAD_LEN - w
<1>1. /\ HEAD_LEN = 4 /\ MsgSize = 4 + MAX_MSG_DATA_LEN /\ MAX_MSG_DATA_LEN \in Nat
      /\ HalfInt \in Nat /\ Bytes4 = 2 * HalfInt /\ MsgSize < HalfInt
      /\ HostLen(m) \in Int /\ HostLen(m) >= - HalfInt
  BY SizeFacts, IntSizes, HeaderDigits
<1> DEFINE x == HostLen(m) + HEAD_LEN - w
<1>2. x \in Int /\ - HalfInt <= x /\ x < HalfInt /\ - Bytes4 <= x
  BY <1>1
<1> HIDE DEF x
<1>3. Wrapped(x) = x
  BY <1>2, WrapFacts
<1> QED
  BY <1>3 DEF NeedToRead, x

(***************************************************************************)
(* What a length does once its bytes are reversed again and part of the    *)
(* body is there.  It is too large, or it is negative and the bytes that   *)
(* are still to be read are fewer than none; but for HalfByte, which is    *)
(* the smallest int then: their number wraps, and is too large for m_msg.  *)
(***************************************************************************)
Valid(m) == HostLen(m) \in 0 .. MAX_MSG_DATA_LEN

LEMMA ReversedNeeds ==
    ASSUME NEW m \in MsgPack, Valid(m), NEW w \in Nat, HEAD_LEN < w, w <= MsgSize,
           ~TooBig(HtoNL(m)), NeedToRead(HtoNL(m), w) >= 0
    PROVE  /\ HostLen(m) = HalfByte
           /\ w + NeedToRead(HtoNL(m), w) > MsgSize
<1> DEFINE c == HtoNL(m)
           a == m[1]
           d == m[0]
           u == a + Base * d
           x == HostLen(c) + HEAD_LEN - w
<1>1. /\ HEAD_LEN = 4 /\ MsgSize = 4 + MAX_MSG_DATA_LEN /\ MAX_MSG_DATA_LEN \in Nat
      /\ Base \in Nat /\ Base >= 2
      /\ HalfByte \in Nat /\ Base * HalfByte \in Nat /\ Bytes2 \in Nat /\ Bytes2 >= 4
      /\ MAX_MSG_DATA_LEN < Bytes2 /\ Bytes4 \in Nat /\ Bytes4 = Bytes2 * Bytes2
      /\ HalfInt \in Nat /\ Bytes4 = 2 * HalfInt /\ 2 * Bytes2 <= HalfInt /\ MsgSize < HalfInt
  BY SizeFacts, IntSizes
<1>2. /\ m[0] \in 0 .. Base - 1 /\ m[1] \in 0 .. Base - 1
      /\ m[2] = 0 /\ m[3] = 0 /\ HostLen(m) = d + Base * a
  BY HeaderDigits DEF Valid
<1>3. a \in 0 .. Base - 1 /\ d \in 0 .. Base - 1 /\ a \in Nat /\ d \in Nat
  BY <1>1, <1>2
<1>4. u \in 0 .. Bytes2 - 1
  BY <1>1, <1>3, DigitBelow DEF Bytes2
<1>5. Bytes2 * u \in Nat /\ Bytes2 * u < Bytes4 /\ (u > 0 => Bytes2 <= Bytes2 * u)
  <2> HIDE DEF u
  <2>1. u \in Nat /\ u < Bytes2 /\ Bytes2 > 0
    BY <1>1, <1>4
  <2>2. Bytes2 * u < Bytes2 * Bytes2
    BY <1>1, <2>1, ProductLess
  <2> QED
    BY <1>1, <2>1, <2>2, ProductNat, ProductLess
<1>6. HostLen(c) = IF 2 * (Bytes2 * u) >= Bytes4 THEN Bytes2 * u - Bytes4 ELSE Bytes2 * u
  <2>1. c[0] = 0 /\ c[1] = 0 /\ c[2] = a /\ c[3] = d
    BY <1>2, HtoNLBytes
  <2>2. HostLen(c) = Signed(0 + Base * (0 + Base * u))
    BY <2>1 DEF HostLen
  <2>3. 0 + Base * (0 + Base * u) = Bytes2 * u
    <3>1. \A y, z \in Nat : 0 + y * (0 + y * z) = (y * y) * z
      BY SMT
    <3>2. u \in Nat
      BY <1>1, <1>4
    <3> HIDE DEF u
    <3> QED
      BY <1>1, <3>1, <3>2 DEF Bytes2
  <2> HIDE DEF u, c
  <2> QED
    BY <2>2, <2>3 DEF Signed, Bytes4
<1> HIDE DEF a, d, c
<1>7. NeedToRead(c, w) = Wrapped(x)
  BY DEF NeedToRead
<1>8. ~TooBig(c) /\ NeedToRead(c, w) >= 0
  BY DEF c
<1> DEFINE e == Bytes2 * u
<1>9. /\ HostLen(c) <= MAX_MSG_DATA_LEN
      /\ e \in Nat /\ e < Bytes4 /\ (u > 0 => Bytes2 <= e) /\ u \in Nat
      /\ HostLen(c) = IF 2 * e >= Bytes4 THEN e - Bytes4 ELSE e
  <2>1. HostLen(c) \in Int
    BY <1>5, <1>6, <1>1
  <2> QED
    BY <1>1, <1>4, <1>5, <1>6, <1>8, <2>1 DEF TooBig
<1>10. e >= HalfInt
  <2> SUFFICES ASSUME ~(e >= HalfInt) PROVE FALSE
    OBVIOUS
  <2> HIDE DEF e, u
  <2>1. HostLen(c) = e /\ u = 0
    BY <1>1, <1>9
  <2>2. e = 0
    BY <1>1, <2>1 DEF e
  <2>3. x \in Int /\ - HalfInt <= x /\ - Bytes4 <= x /\ x < 0
    BY <1>1, <2>1, <2>2
  <2> HIDE DEF x
  <2>4. Wrapped(x) = x
    BY <1>1, <2>3, WrapFacts
  <2> QED
    BY <1>7, <1>8, <2>3, <2>4
<1>11. x = e - Bytes4 + 4 - w
  BY <1>1, <1>9, <1>10
<1>12. x < - HalfInt /\ NeedToRead(c, w) = e + 4 - w
  <2> HIDE DEF e, u
  <2>1. x \in Int /\ x < 0 /\ - Bytes4 <= x
    BY <1>1, <1>9, <1>10, <1>11
  <2>2. Wrapped(x) = IF - HalfInt <= x THEN x ELSE x + Bytes4
    <3> HIDE DEF x
    <3> QED
      BY <1>1, <2>1, WrapFacts
  <2> QED
    BY <1>1, <1>7, <1>8, <1>9, <1>11, <2>1, <2>2
<1>13. u = Base * HalfByte
  <2> DEFINE p == Base * HalfByte
  <2>1. HalfInt = Bytes2 * p /\ p \in Nat
    BY <1>1 DEF HalfInt
  <2> HIDE DEF p, u
  <2>2. u < p => Bytes2 * u < Bytes2 * p
    BY <1>1, <1>9, <2>1, ProductLess
  <2>3. p + 1 \in Nat /\ (p + 1 <= u => Bytes2 * (p + 1) <= Bytes2 * u)
    BY <1>1, <1>9, <2>1, ProductLess
  <2>4. Bytes2 * (p + 1) = Bytes2 * p + Bytes2
    <3>1. Bytes2 * (p + 1) = Bytes2 * p + Bytes2 * 1 /\ Bytes2 * 1 = Bytes2
      BY <1>1, <2>1, ProductLess
    <3> QED
      BY <3>1
  <2>5. e < HalfInt + Bytes2
    <3> HIDE DEF e
    <3> QED
      BY <1>1, <1>9, <1>11, <1>12
  <2>6. ~(u < p) /\ ~(p + 1 <= u)
    <3> HIDE DEF HalfInt
    <3>1. Bytes2 * p \in Nat /\ Bytes2 * u \in Nat
      BY <1>1, <1>9, <2>1
    <3> QED
      BY <1>1, <1>10, <2>1, <2>2, <2>3, <2>4, <2>5, <3>1
  <2>7. u = p
    BY <1>9, <2>1, <2>6
  <2> QED
    BY <2>7 DEF p
<1>14. a = 0 /\ d = HalfByte
  <2>1. a + Base * d = Base * HalfByte
    BY <1>13
  <2>2. d < HalfByte => Base * (d + 1) <= Base * HalfByte /\ Base * (d + 1) = Base * d + Base
    <3>1. d + 1 \in Nat /\ (d < HalfByte => d + 1 <= HalfByte)
      BY <1>1, <1>3
    <3>2. Base * (d + 1) = Base * d + Base * 1 /\ Base * 1 = Base
      BY <1>1, <1>3, ProductLess
    <3> QED
      BY <1>1, <1>3, <3>1, <3>2, ProductLess
  <2>3. HalfByte < d => Base * HalfByte < Base * d
    BY <1>1, <1>3, ProductLess
  <2>4. Base * d \in Nat /\ Base * HalfByte \in Nat
    BY <1>1, <1>3, ProductNat
  <2>5. d = HalfByte
    BY <1>1, <1>3, <2>1, <2>2, <2>3, <2>4
  <2> QED
    BY <1>1, <1>3, <2>1, <2>4, <2>5
<1>15. HostLen(m) = HalfByte
  <2>1. Base * 0 = 0
    BY <1>1
  <2> QED
    BY <1>1, <1>2, <1>14, <2>1
<1>16. w + NeedToRead(c, w) > MsgSize
  BY <1>1, <1>9, <1>10, <1>12
<1> QED
  BY <1>15, <1>16 DEF c

-----------------------------------------------------------------------------
(***************************************************************************)
(* InBuffer holds together with the types and LengthKnown: a body that is  *)
(* read goes on where a valid length was found, and at each entry the      *)
(* header holds that length or its reversal.  So only the smallest int can *)
(* make more bytes be read than m_msg has room for.  DeliveredFits follows *)
(* in the step that completes the body: the number of bytes to be read did *)
(* not wrap there, and those bytes lie behind the header.                  *)
(***************************************************************************)
InBuffer == /\ h.pc # "wild" => r.wlen <= MsgSize
            /\ h.pc = "wild" => HostLen(HtoNL(r.msg)) = HalfByte
LengthKnown == h.pc # "wild" /\ r.wlen > HEAD_LEN => Valid(r.msg) \/ Valid(HtoNL(r.msg))

StreamInv == TypeOK /\ InBuffer /\ LengthKnown /\ DeliveredFits

Handler == [pc : {"idle", "loop", "onrecv", "wild"}, in : Seq(Byte)]
Receiver == [up : BOOLEAN, msg : MsgPack, wlen : Nat]

LEMMA StreamInit == Init => StreamInv
<1> SUFFICES ASSUME Init PROVE StreamInv
  OBVIOUS
<1>1. r \in Receiver /\ r.wlen = 0 /\ h = Idle
  BY FreshReceiverType DEF Init, Receiver
<1>2. << >> \in Seq(Byte) /\ << >> \in Seq(Payload) /\ << >> \in Seq(Bodies) /\ Len(<< >>) = 0
  OBVIOUS
<1>3. TypeOK
  <2>1. s \in [up : BOOLEAN, out : Nat] /\ wire \in Seq(Byte) /\ s.out <= Len(wire)
    BY <1>2 DEF Init, FreshSender
  <2>2. h \in Handler
    BY <1>1, <1>2 DEF Idle, Handler
  <2>3. sent \in Seq(Bodies) /\ got \in Seq(Payload)
        /\ torn \in BOOLEAN /\ conns \in Nat
    BY <1>2 DEF Init
  <2> QED
    BY <1>1, <2>1, <2>2, <2>3 DEF TypeOK, Receiver, Handler
<1>4. InBuffer /\ LengthKnown
  BY <1>1, SizeFacts DEF InBuffer, LengthKnown, Idle
<1>5. DeliveredFits
  BY <1>1 DEF DeliveredFits, Idle
<1> QED
  BY <1>3, <1>4, <1>5 DEF StreamInv

(* The sender's steps leave the receiver alone.                            *)
LEMMA SenderDownStep ==
    ASSUME StreamInv, SenderDown PROVE StreamInv'
<1>1. wire' \in Seq(Byte)
  <2>1. Len(wire) - s.out <= Len(wire) /\ Len(wire) - s.out \in Int
    BY DEF StreamInv, TypeOK
  <2> QED
    BY <2>1, PieceType DEF StreamInv, TypeOK, SenderDown
<1>2. s' \in [up : BOOLEAN, out : Nat] /\ s'.out = 0
  BY DEF SenderDown
<1>3. UNCHANGED <<r, h, sent, got, torn, conns>>
  BY DEF SenderDown
<1>4. TypeOK'
  BY <1>1, <1>2, <1>3 DEF StreamInv, TypeOK
<1> QED
  BY <1>3, <1>4 DEF StreamInv, InBuffer, LengthKnown, DeliveredFits

LEMMA WriteStep ==
    ASSUME StreamInv, NEW m \in Bodies, NEW bytes \in Seq(Byte),
           Write(m, bytes)
    PROVE  StreamInv'
<1>1. /\ wire' = wire \o bytes /\ s' = [s EXCEPT !.out = @ + Len(bytes)]
      /\ sent' = Append(sent, m)
      /\ UNCHANGED <<r, h, got, torn, conns>>
  BY DEF Write
<1>2. wire' \in Seq(Byte) /\ Len(wire') = Len(wire) + Len(bytes)
  BY <1>1 DEF StreamInv, TypeOK
<1>3. s' \in [up : BOOLEAN, out : Nat] /\ s'.out = s.out + Len(bytes)
  <2>1. s \in [up : BOOLEAN, out : Nat] /\ Len(bytes) \in Nat
    BY DEF StreamInv, TypeOK
  <2>2. s.out + Len(bytes) \in Nat
    BY <2>1
  <2> QED
    BY <1>1, <2>1, <2>2
<1>4. sent' \in Seq(Bodies)
  BY <1>1 DEF StreamInv, TypeOK
<1>5. TypeOK'
  BY <1>1, <1>2, <1>3, <1>4 DEF StreamInv, TypeOK
<1> QED
  BY <1>1, <1>5 DEF StreamInv, InBuffer, LengthKnown, DeliveredFits

LEMMA SendStep == ASSUME StreamInv, Send PROVE StreamInv'
<1>1. CASE TooMuchWaiting /\ SenderDown
  BY <1>1, SenderDownStep
<1>2. CASE SendData /\ \E m \in Bodies, tail \in Tail4 : Write(m, Frame(m, tail))
  <2>1. PICK m \in Bodies, tail \in Tail4 : Write(m, Frame(m, tail))
    BY <1>2
  <2>2. Frame(m, tail) \in Seq(Byte)
    BY FrameType, PayloadSeq, BodiesArePayload
  <2> QED
    BY <2>1, <2>2, WriteStep
<1>3. CASE ~SendData /\ \E m \in Bodies : Write(m, Frame(m, << >>))
  <2>1. PICK m \in Bodies : Write(m, Frame(m, << >>))
    BY <1>3
  <2>2. << >> \in Seq(Byte)
    OBVIOUS
  <2>3. Frame(m, << >>) \in Seq(Byte)
    BY <2>2, FrameType, BodiesArePayload
  <2> QED
    BY <2>1, <2>3, WriteStep
<1> QED
  BY <1>1, <1>2, <1>3 DEF Send

LEMMA FlushStep == ASSUME StreamInv, Flush PROVE StreamInv'
<1>1. PICK n \in 0 .. s.out - 1 : s' = [s EXCEPT !.out = n]
  BY DEF Flush
<1>2. UNCHANGED <<wire, r, h, sent, got, torn, conns>>
  BY DEF Flush
<1>3. s' \in [up : BOOLEAN, out : Nat] /\ s'.out <= s.out
  <2>1. s \in [up : BOOLEAN, out : Nat]
    BY DEF StreamInv, TypeOK
  <2>2. s.out \in Nat /\ n \in Nat /\ n <= s.out
    BY <2>1
  <2> QED
    BY <1>1, <2>1, <2>2
<1>4. TypeOK'
  BY <1>2, <1>3 DEF StreamInv, TypeOK
<1> QED
  BY <1>2, <1>4 DEF StreamInv, InBuffer, LengthKnown, DeliveredFits

LEMMA ArriveStep == ASSUME StreamInv, Arrive PROVE StreamInv'
<1>1. PICK n \in 1 .. Len(wire) - s.out :
          /\ h' = [pc |-> "loop", in |-> SubSeq(wire, 1, n)]
          /\ wire' = SubSeq(wire, n + 1, Len(wire))
  BY DEF Arrive
<1>2. UNCHANGED <<s, r, sent, got, torn, conns>>
  BY DEF Arrive
<1>3. n \in Nat /\ n >= 1 /\ n <= Len(wire) - s.out /\ n <= Len(wire)
      /\ Len(wire) \in Nat /\ s.out \in Nat
  BY DEF StreamInv, TypeOK
<1>4. SubSeq(wire, 1, n) \in Seq(Byte)
  BY <1>3, PieceType DEF StreamInv, TypeOK
<1>5. /\ SubSeq(wire, n + 1, Len(wire)) \in Seq(Byte)
      /\ s.out <= Len(SubSeq(wire, n + 1, Len(wire)))
  <2>1. n + 1 \in Nat \ {0} /\ Len(wire) \in Int /\ Len(wire) <= Len(wire)
    BY <1>3
  <2>2. wire \in Seq(Byte)
    BY DEF StreamInv, TypeOK
  <2>3. /\ SubSeq(wire, n + 1, Len(wire)) \in Seq(Byte)
        /\ Len(SubSeq(wire, n + 1, Len(wire)))
             = IF n + 1 <= Len(wire) THEN Len(wire) - (n + 1) + 1 ELSE 0
    BY <2>1, <2>2, PieceType
  <2> QED
    BY <2>3, <1>3
<1>6. TypeOK'
  BY <1>1, <1>2, <1>4, <1>5 DEF StreamInv, TypeOK
<1>7. h.pc = "idle" /\ h'.pc = "loop"
  BY <1>1 DEF Arrive
<1> QED
  BY <1>2, <1>6, <1>7 DEF StreamInv, InBuffer, LengthKnown, DeliveredFits

LEMMA ReadHeadStep == ASSUME StreamInv, ReadHead PROVE StreamInv'
<1> DEFINE n == Lesser(Len(h.in), HEAD_LEN - r.wlen)
           piece == SubSeq(h.in, 1, n)
<1>1. /\ h.pc = "loop" /\ r.wlen < HEAD_LEN
      /\ r' = [r EXCEPT !.msg = Put(r.msg, r.wlen, piece), !.wlen = r.wlen + n]
      /\ h' = [h EXCEPT !.in = SubSeq(h.in, n + 1, Len(h.in))]
      /\ UNCHANGED <<s, wire, sent, got, torn, conns>>
  BY DEF ReadHead
<1>2. /\ r \in Receiver /\ r.wlen \in Nat /\ r.msg \in MsgPack
      /\ h \in Handler
      /\ h.in \in Seq(Byte) /\ Len(h.in) \in Nat
  BY DEF StreamInv, TypeOK, Receiver, Handler
<1>3. n \in Nat /\ n <= Len(h.in) /\ r.wlen + n \in Nat /\ r.wlen + n <= 4
  <2>1. r.wlen < 4 /\ n = Lesser(Len(h.in), 4 - r.wlen)
    BY <1>1 DEF HEAD_LEN
  <2>2. \A a, w \in Nat : w < 4 => /\ Lesser(a, 4 - w) \in Nat
                                   /\ Lesser(a, 4 - w) <= a
                                   /\ w + Lesser(a, 4 - w) <= 4
    BY DEF Lesser
  <2>3. n \in Nat /\ n <= Len(h.in) /\ r.wlen + n <= 4
    BY <1>2, <2>1, <2>2
  <2> HIDE DEF n
  <2> QED
    BY <1>2, <2>3, SizeFacts
<1> HIDE DEF n
<1>4. piece \in Seq(Byte)
  BY <1>2, <1>3, PieceType
<1>5. SubSeq(h.in, n + 1, Len(h.in)) \in Seq(Byte)
  BY <1>2, <1>3, PieceType
<1>6. Put(r.msg, r.wlen, piece) \in MsgPack
  BY <1>2, <1>4, PutType
<1> HIDE DEF piece
<1>7. r' \in Receiver /\ r'.wlen = r.wlen + n
  <2>1. r.wlen + n \in Nat
    BY <1>3
  <2> DEFINE w == r.wlen + n
             g == Put(r.msg, r.wlen, piece)
  <2>2. w \in Nat /\ g \in MsgPack
    BY <2>1, <1>6
  <2>3. r' = [r EXCEPT !.msg = g, !.wlen = w]
    BY <1>1
  <2> HIDE DEF w, g
  <2>4. r' \in Receiver /\ r'.wlen = w
    BY <1>2, <2>2, <2>3 DEF Receiver
  <2> QED
    BY <2>4 DEF w
<1>8. h' \in Handler /\ h'.pc = "loop"
  BY <1>1, <1>2, <1>5 DEF Handler
<1>9. TypeOK'
  BY <1>1, <1>7, <1>8 DEF StreamInv, TypeOK, Receiver, Handler
<1>10. InBuffer' /\ LengthKnown'
  <2>1. r'.wlen <= 4
    BY <1>3, <1>7
  <2>2. MsgSize' = MsgSize /\ MsgSize >= 4 /\ MsgSize \in Nat
    BY SizeFacts DEF MsgSize, HEAD_LEN
  <2>3. h'.pc # "wild" /\ r'.wlen \in Nat
    BY <1>7, <1>8 DEF Receiver
  <2> QED
    BY <2>1, <2>2, <2>3 DEF InBuffer, LengthKnown, HEAD_LEN
<1>11. DeliveredFits'
  BY <1>8 DEF DeliveredFits
<1> QED
  BY <1>9, <1>10, <1>11 DEF StreamInv

LEMMA ReadBodyStep == ASSUME StreamInv, ReadBody PROVE StreamInv'
<1> DEFINE m     == HtoNL(r.msg)
           need  == NeedToRead(m, r.wlen)
           n     == Lesser(Len(h.in), need)
           piece == SubSeq(h.in, 1, n)
<1>1. /\ h.pc = "loop" /\ r.wlen >= HEAD_LEN
      /\ UNCHANGED <<s, wire, sent, conns>>
  BY DEF ReadBody
<1>2. /\ r \in Receiver /\ r.wlen \in Nat /\ r.msg \in MsgPack /\ r.wlen <= MsgSize
      /\ h.in \in Seq(Byte) /\ Len(h.in) \in Nat
      /\ << >> \in Seq(Byte)
      /\ HEAD_LEN = 4 /\ MsgSize = 4 + MAX_MSG_DATA_LEN /\ MAX_MSG_DATA_LEN \in Nat
  BY <1>1, SizeFacts DEF StreamInv, TypeOK, Receiver, InBuffer
<1>3. m \in MsgPack /\ HostLen(m) \in Int /\ HtoNL(m) = r.msg
  BY <1>2, HtoNLType, HostLenInt, ReversedTwice
<1> HIDE DEF m
<1>4. need \in Int
  <2>1. HostLen(m) + HEAD_LEN - r.wlen \in Int
    BY <1>2, <1>3
  <2> QED
    BY <2>1, WrappedInt DEF NeedToRead
(* On entry the length is there, in one order of its bytes or the other.   *)
<1>5. r.wlen > HEAD_LEN => Valid(m) \/ Valid(HtoNL(m))
  BY <1>1, <1>3 DEF StreamInv, LengthKnown, m
<1>6. Valid(m) => need = HostLen(m) + 4 - r.wlen
  BY <1>1, <1>2, <1>3, NeedExact DEF Valid
<1>7. CASE /\ TooBig(m) \/ need < 0
           /\ r' = DisConnect([r EXCEPT !.msg = m])
           /\ h' = Idle
           /\ UNCHANGED <<got, torn>>
  <2>1. r' \in Receiver /\ r'.wlen = r.wlen /\ r'.msg = m
    BY <1>2, <1>3, <1>7 DEF DisConnect, Receiver
  <2>2. h' \in Handler /\ h'.pc = "idle"
    BY <1>2, <1>7 DEF Idle, Handler
  <2>3. TypeOK'
    BY <1>1, <1>7, <2>1, <2>2 DEF StreamInv, TypeOK, Receiver, Handler
  <2>4. InBuffer'
    BY <1>2, <2>1, <2>2 DEF InBuffer, MsgSize, HEAD_LEN
  <2>5. LengthKnown'
    BY <1>2, <1>5, <2>1 DEF LengthKnown, HEAD_LEN
  <2>6. DeliveredFits'
    BY <2>2 DEF DeliveredFits
  <2> QED
    BY <2>3, <2>4, <2>5, <2>6 DEF StreamInv
(* What is not rejected is a valid length, or HalfByte reversed.           *)
<1>8. ASSUME ~(TooBig(m) \/ need < 0)
      PROVE  \/ Valid(m) /\ need = HostLen(m) + 4 - r.wlen
             \/ /\ r.wlen > 4 /\ Valid(r.msg) /\ HostLen(r.msg) = HalfByte
                /\ r.wlen + need > MsgSize
  <2>1. HostLen(m) <= MAX_MSG_DATA_LEN /\ ~TooBig(m) /\ need >= 0
    BY <1>2, <1>3, <1>4, <1>8 DEF TooBig
  <2>2. CASE Valid(m)
    BY <1>6, <2>2
  <2>3. CASE r.wlen = 4
    <3>1. need = HostLen(m)
      BY <1>2, <1>3, <2>1, <2>3, NeedExact
    <3>2. Valid(m)
      BY <1>2, <1>3, <2>1, <3>1 DEF Valid
    <3> QED
      BY <2>2, <3>2
  <2>4. CASE r.wlen > 4 /\ Valid(r.msg)
    <3> HIDE DEF need
    <3>1. ~TooBig(HtoNL(r.msg)) /\ NeedToRead(HtoNL(r.msg), r.wlen) >= 0
      BY <2>1 DEF m, need
    <3>2. /\ HostLen(r.msg) = HalfByte
          /\ r.wlen + NeedToRead(HtoNL(r.msg), r.wlen) > MsgSize
      BY <1>2, <2>4, <3>1, ReversedNeeds
    <3> QED
      BY <2>4, <3>2 DEF m, need
  <2> QED
    BY <1>1, <1>2, <1>3, <1>5, <2>2, <2>3, <2>4
<1>9. CASE /\ ~TooBig(m) /\ need >= 0 /\ r.wlen + n > MsgSize
           /\ r' = [r EXCEPT !.msg = m, !.wlen = r.wlen + n]
           /\ h' = [pc |-> "wild", in |-> << >>]
           /\ UNCHANGED <<got, torn>>
  <2>1. n \in Nat /\ n <= need
    BY <1>2, <1>4, <1>9 DEF Lesser
  <2> HIDE DEF n
  <2>2. HostLen(r.msg) = HalfByte
    <3>1. ASSUME Valid(m), need = HostLen(m) + 4 - r.wlen PROVE FALSE
      <4>1. HostLen(m) <= MAX_MSG_DATA_LEN /\ n <= need /\ r.wlen + n > MsgSize
        BY <1>2, <1>9, <2>1, <3>1 DEF Valid
      <4> HIDE DEF need
      <4> QED
        BY <1>2, <1>3, <1>4, <2>1, <3>1, <4>1
    <3>2. ~(TooBig(m) \/ need < 0)
      BY <1>4, <1>9
    <3> QED
      BY <1>8, <3>1, <3>2
  <2>3. r' \in Receiver /\ r'.msg = m
    <3> DEFINE w == r.wlen + n
    <3>1. w \in Nat /\ r' = [r EXCEPT !.msg = m, !.wlen = w]
      BY <1>2, <1>9, <2>1
    <3> HIDE DEF w
    <3> QED
      BY <1>2, <1>3, <3>1 DEF Receiver
  <2>4. h' \in Handler /\ h'.pc = "wild"
    BY <1>2, <1>9 DEF Handler
  <2>5. TypeOK'
    BY <1>1, <1>9, <2>3, <2>4 DEF StreamInv, TypeOK, Receiver, Handler
  <2>6. HostLen(HtoNL(r'.msg)) = HalfByte
    BY <1>3, <2>2, <2>3
  <2>7. InBuffer'
    BY <2>4, <2>6 DEF InBuffer, HalfByte
  <2>8. LengthKnown' /\ DeliveredFits'
    BY <2>4 DEF LengthKnown, DeliveredFits
  <2> QED
    BY <2>5, <2>7, <2>8 DEF StreamInv
<1>10. CASE /\ ~TooBig(m) /\ need >= 0 /\ r.wlen + n <= MsgSize
            /\ r' = [r EXCEPT !.msg = Put(m, r.wlen, piece), !.wlen = r.wlen + n]
            /\ h' = [pc |-> IF n = need THEN "onrecv" ELSE "loop",
                     in |-> SubSeq(h.in, n + 1, Len(h.in))]
            /\ got' = IF n = need THEN Append(got, Data(r'.msg)) ELSE got
            /\ torn' = (torn \/ n < need)
  <2>1. n \in Nat /\ n <= Len(h.in) /\ n <= need
    BY <1>2, <1>4, <1>10 DEF Lesser
  (* A message is complete only if its length is valid.                    *)
  <2>2. n = need => Valid(m) /\ r.wlen + n = HostLen(m) + 4
    <3>1. ~(TooBig(m) \/ need < 0)
      BY <1>4, <1>10
    <3> HIDE DEF n
    <3>2. CASE Valid(m) /\ need = HostLen(m) + 4 - r.wlen
      <4> HIDE DEF need
      <4> QED
        BY <1>2, <1>3, <3>2
    <3>3. CASE r.wlen + need > MsgSize
      <4> HIDE DEF need
      <4> QED
        BY <1>2, <1>4, <1>10, <2>1, <3>3
    <3> QED
      BY <1>8, <3>1, <3>2, <3>3
  <2>3. Valid(m) \/ Valid(HtoNL(m))
    <3>1. ~(TooBig(m) \/ need < 0)
      BY <1>4, <1>10
    <3> QED
      BY <1>3, <1>8, <3>1
  <2> HIDE DEF need, n
  <2>4. piece \in Seq(Byte)
    BY <1>2, <2>1, PieceType
  <2>5. SubSeq(h.in, n + 1, Len(h.in)) \in Seq(Byte)
    BY <1>2, <2>1, PieceType
  <2> HIDE DEF piece
  <2>6. /\ Put(m, r.wlen, piece) \in MsgPack
        /\ HostLen(Put(m, r.wlen, piece)) = HostLen(m)
        /\ HostLen(HtoNL(Put(m, r.wlen, piece))) = HostLen(HtoNL(m))
    <3>1. HtoNL(Put(m, r.wlen, piece)) = Put(HtoNL(m), r.wlen, piece)
      BY <1>1, <1>2, <1>3, <2>4, ReversedTwice
    <3>2. HtoNL(m) \in MsgPack
      BY <1>3, HtoNLType
    <3> QED
      BY <1>1, <1>2, <1>3, <2>4, <3>1, <3>2, PutType, PutKeepsLen
  <2>7. /\ r' \in Receiver /\ r'.wlen = r.wlen + n /\ HostLen(r'.msg) = HostLen(m)
        /\ HostLen(HtoNL(r'.msg)) = HostLen(HtoNL(m))
    <3> DEFINE w == r.wlen + n
               g == Put(m, r.wlen, piece)
    <3>1. w \in Nat /\ g \in MsgPack /\ HostLen(g) = HostLen(m)
          /\ HostLen(HtoNL(g)) = HostLen(HtoNL(m))
      BY <1>2, <2>1, <2>6
    <3>2. r' = [r EXCEPT !.msg = g, !.wlen = w]
      BY <1>10
    <3> HIDE DEF w, g
    <3>3. r' \in Receiver /\ r'.wlen = w /\ r'.msg = g
      BY <1>2, <3>1, <3>2 DEF Receiver
    <3> QED
      BY <3>1, <3>3 DEF w
  <2>8. h' \in Handler /\ h'.pc = IF n = need THEN "onrecv" ELSE "loop"
    BY <1>10, <2>5 DEF Handler
  <2>9. got' \in Seq(Payload)
    <3>1. n = need => Data(r'.msg) \in Payload
      BY <2>2, <2>7, DataType DEF Receiver, Valid
    <3> QED
      BY <1>10, <3>1 DEF StreamInv, TypeOK
  <2>10. torn' \in BOOLEAN
    BY <1>10
  <2>11. TypeOK'
    BY <1>1, <2>7, <2>8, <2>9, <2>10 DEF StreamInv, TypeOK, Receiver, Handler
  <2>12. InBuffer'
    <3>1. r'.wlen <= MsgSize /\ h'.pc # "wild"
      BY <1>10, <2>7, <2>8
    <3> QED
      BY <3>1 DEF InBuffer, MsgSize, HEAD_LEN
  <2>13. LengthKnown'
    <3>1. Valid(r'.msg) \/ Valid(HtoNL(r'.msg))
      BY <2>3, <2>7 DEF Valid
    <3> QED
      BY <3>1 DEF LengthKnown
  <2>14. DeliveredFits'
    <3> SUFFICES ASSUME h'.pc = "onrecv"
                 PROVE  HostLen(r'.msg) \in 0 .. MAX_MSG_DATA_LEN /\ r'.wlen = 4 + HostLen(r'.msg)
      BY DEF DeliveredFits, HEAD_LEN
    <3>1. n = need
      BY <2>8
    <3>2. Valid(m) /\ r.wlen + n = HostLen(m) + 4
      BY <2>2, <3>1
    <3> QED
      BY <1>3, <2>7, <3>2 DEF Valid
  <2> QED
    BY <2>11, <2>12, <2>13, <2>14 DEF StreamInv
<1> QED
  BY <1>7, <1>9, <1>10 DEF ReadBody, m

LEMMA OnRecvReturnsStep == ASSUME StreamInv, OnRecvReturns PROVE StreamInv'
<1>1. /\ r' = AfterRecv(r) /\ h' = [h EXCEPT !.pc = "loop"]
      /\ UNCHANGED <<s, wire, sent, got, torn, conns>>
  BY DEF OnRecvReturns
<1>2. r' \in Receiver /\ r'.wlen = 0
  BY <1>1, AfterRecvType DEF StreamInv, TypeOK, Receiver, Handler
<1>3. h' \in Handler /\ h'.pc = "loop"
  BY <1>1 DEF StreamInv, TypeOK, Handler
<1>4. TypeOK'
  BY <1>1, <1>2, <1>3 DEF StreamInv, TypeOK, Receiver, Handler
<1>5. InBuffer' /\ LengthKnown' /\ DeliveredFits'
  BY <1>2, <1>3, SizeFacts DEF HEAD_LEN, InBuffer, LengthKnown, DeliveredFits
<1> QED
  BY <1>4, <1>5 DEF StreamInv

LEMMA LoopEndsStep == ASSUME StreamInv, LoopEnds PROVE StreamInv'
<1>1. h' = Idle /\ UNCHANGED <<s, wire, r, sent, got, torn, conns>>
  BY DEF LoopEnds
<1>2. << >> \in Seq(Byte)
  OBVIOUS
<1>3. h' \in Handler /\ h'.pc = "idle"
  BY <1>1, <1>2 DEF Idle, Handler
<1>4. h.pc # "wild"
  BY DEF LoopEnds
<1> QED
  BY <1>1, <1>3, <1>4 DEF StreamInv, TypeOK, Handler, InBuffer, LengthKnown, DeliveredFits

LEMMA ReceiverDownStep == ASSUME StreamInv, ReceiverDown PROVE StreamInv'
<1>1. r' = DisConnect(r) /\ UNCHANGED <<s, wire, h, sent, got, torn, conns>>
  BY DEF ReceiverDown
<1>2. r' \in Receiver /\ r'.wlen = r.wlen /\ r'.msg = r.msg
  BY <1>1 DEF StreamInv, TypeOK, Receiver, Handler, DisConnect
<1> QED
  BY <1>1, <1>2 DEF StreamInv, TypeOK, Receiver, Handler, InBuffer, LengthKnown, DeliveredFits

(* A reconnect keeps whatever m_msg holds, and that is within bounds.      *)
LEMMA ReconnectStep == ASSUME StreamInv, Reconnect PROVE StreamInv'
<1>1. /\ h.pc = "idle" /\ conns' = conns + 1
      /\ r' = IF Accepted THEN FreshReceiver ELSE [r EXCEPT !.up = TRUE]
      /\ s' = FreshSender /\ wire' = << >>
      /\ sent' = << >> /\ got' = << >> /\ torn' = FALSE /\ h' = h
  BY DEF Reconnect
<1>2. /\ r' \in Receiver /\ r'.wlen <= MsgSize
      /\ r'.wlen > HEAD_LEN => Valid(r'.msg) \/ Valid(HtoNL(r'.msg))
  <2>1. CASE Accepted
    <3>1. r' = FreshReceiver
      BY <1>1, <2>1
    <3>2. 0 <= MsgSize /\ ~(0 > HEAD_LEN)
      BY SizeFacts
    <3> QED
      BY <3>1, <3>2, FreshReceiverType DEF Receiver
  <2>2. CASE ~Accepted
    <3>1. r' = [r EXCEPT !.up = TRUE]
      BY <1>1, <2>2
    <3>2. /\ r \in Receiver /\ r.wlen <= MsgSize
          /\ r.wlen > HEAD_LEN => Valid(r.msg) \/ Valid(HtoNL(r.msg))
      BY <1>1 DEF StreamInv, TypeOK, InBuffer, LengthKnown, Receiver
    <3> QED
      BY <3>1, <3>2 DEF Receiver
  <2> QED
    BY <2>1, <2>2
<1>3. s' \in [up : BOOLEAN, out : Nat] /\ wire' \in Seq(Byte) /\ s'.out <= Len(wire')
  BY <1>1 DEF FreshSender
<1>4. sent' \in Seq(Bodies) /\ got' \in Seq(Payload)
      /\ torn' \in BOOLEAN /\ conns' \in Nat
  <2>1. << >> \in Seq(Payload) /\ << >> \in Seq(Bodies)
    OBVIOUS
  <2>2. sent' = << >> /\ got' = << >> /\ torn' = FALSE
    BY <1>1
  <2>3. conns \in Nat /\ conns' = conns + 1
    BY <1>1 DEF StreamInv, TypeOK
  <2>4. conns' \in Nat
    BY <2>3
  <2> QED
    BY <2>1, <2>2, <2>4
<1>5. TypeOK'
  BY <1>1, <1>2, <1>3, <1>4 DEF StreamInv, TypeOK, Receiver, Handler
<1> QED
  BY <1>1, <1>2, <1>5 DEF StreamInv, InBuffer, LengthKnown, DeliveredFits

LEMMA StreamNext == StreamInv /\ [Next]_vars => StreamInv'
<1> SUFFICES ASSUME StreamInv, [Next]_vars PROVE StreamInv'
  OBVIOUS
<1>1. CASE Send
  BY <1>1, SendStep
<1>2. CASE Flush
  BY <1>2, FlushStep
<1>3. CASE SenderEnds
  BY <1>3, SenderDownStep DEF SenderEnds
<1>4. CASE Arrive
  BY <1>4, ArriveStep
<1>5. CASE ReadHead
  BY <1>5, ReadHeadStep
<1>6. CASE ReadBody
  BY <1>6, ReadBodyStep
<1>7. CASE OnRecvReturns
  BY <1>7, OnRecvReturnsStep
<1>8. CASE LoopEnds
  BY <1>8, LoopEndsStep
<1>9. CASE ReceiverDown
  BY <1>9, ReceiverDownStep
<1>10. CASE Reconnect
  BY <1>10, ReconnectStep
<1>11. CASE UNCHANGED vars
  BY <1>11 DEF vars, StreamInv, TypeOK, InBuffer, LengthKnown, DeliveredFits
<1> QED
  BY <1>1, <1>2, <1>3, <1>4, <1>5, <1>6, <1>7, <1>8, <1>9, <1>10, <1>11
  DEF Next, ReadCallback

(* The types of the model.                                                 *)
THEOREM StreamTypeCorrect == Spec => []TypeOK
<1>1. StreamInv => TypeOK
  BY DEF StreamInv
<1> QED
  BY <1>1, StreamInit, StreamNext, PTL DEF Spec

(* conn_read_callback writes behind m_msg only in the middle of a message  *)
(* of HalfByte bytes, and OnRecv gets a length that m_msg holds.           *)
THEOREM ReadsStayInBuffer == Spec => []ReadsInBounds
<1>1. StreamInv => ReadsInBounds
  BY SizeFacts DEF StreamInv, TypeOK, InBuffer, ReadsInBounds, OverrunAtHalfByte
<1> QED
  BY <1>1, StreamInit, StreamNext, PTL DEF Spec

-----------------------------------------------------------------------------
(* A frame adds at most its header, a full message and the HEAD_LEN bytes  *)
(* behind it to an output that was within the limit.                       *)

LEMMA ConcatLen ==
    ASSUME NEW a \in Seq(Byte), NEW b \in Seq(Byte)
    PROVE  a \o b \in Seq(Byte) /\ Len(a \o b) = Len(a) + Len(b)
  BY ConcatProperties

LEMMA FrameLen ==
    ASSUME NEW m \in Payload, NEW tail \in Seq(Byte)
    PROVE  Len(Frame(m, tail)) <= 4 + MAX_MSG_DATA_LEN + Len(tail)
<1>1. m \in Seq(Byte) /\ NetBytes(Len(m)) \in Seq(Byte)
  BY PayloadSeq, NetBytesType
<1>2. Len(m) \in Nat /\ Len(m) <= MAX_MSG_DATA_LEN
  <2>1. PICK n \in 0 .. MAX_MSG_DATA_LEN : m \in [1 .. n -> Byte]
    BY DEF Payload
  <2>2. n \in Nat /\ n <= MAX_MSG_DATA_LEN
    BY SizeFacts
  <2>3. Len(m) = n
    BY <1>1, <2>1, <2>2, LenProperties
  <2> QED
    BY <2>2, <2>3
<1>3. Len(NetBytes(Len(m))) = 4
  BY DEF NetBytes
<1>4. Len(Frame(m, tail)) = 4 + Len(m) + Len(tail)
  <2> DEFINE head == NetBytes(Len(m))
  <2>1. head \in Seq(Byte) /\ Len(head) = 4
    BY <1>1, <1>3
  <2> HIDE DEF head
  <2>2. head \o m \in Seq(Byte) /\ Len(head \o m) = 4 + Len(m)
    BY <1>1, <2>1, ConcatLen
  <2>3. Len((head \o m) \o tail) = 4 + Len(m) + Len(tail)
    BY <2>2, ConcatLen
  <2>4. Frame(m, tail) = (head \o m) \o tail
    BY DEF Frame, head
  <2> QED
    BY <2>3, <2>4
<1> QED
  BY <1>2, <1>4, SizeFacts

LEMMA OverheadNat ==
    /\ Overhead \in Nat
    /\ SendData => Overhead = 8
    /\ ~SendData => Overhead = 4
  BY StreamAssumption DEF Overhead, HEAD_LEN

LEMMA OutputNext ==
    StreamInv /\ OutputBounded /\ [Next]_vars => OutputBounded'
<1> SUFFICES ASSUME StreamInv, OutputBounded, [Next]_vars, MaxSendBuf # 0
             PROVE  s'.out <= MaxSendBuf + MAX_MSG_DATA_LEN + Overhead
  BY DEF OutputBounded, Overhead, HEAD_LEN
<1>1. /\ s.out \in Nat /\ s.out <= MaxSendBuf + MAX_MSG_DATA_LEN + Overhead
      /\ MaxSendBuf \in Nat /\ MAX_MSG_DATA_LEN \in Nat /\ Overhead \in Nat
  BY StreamAssumption, OverheadNat DEF OutputBounded, StreamInv, TypeOK
<1>2. ASSUME NEW m \in Payload, NEW tail \in Seq(Byte), 4 + Len(tail) <= Overhead,
             Write(m, Frame(m, tail))
      PROVE  s'.out <= MaxSendBuf + MAX_MSG_DATA_LEN + Overhead
  <2>1. s.out <= MaxSendBuf
    BY <1>1, <1>2 DEF Write, TooMuchWaiting
  <2>2. s'.out = s.out + Len(Frame(m, tail))
    BY <1>2 DEF Write, StreamInv, TypeOK
  <2>3. /\ Len(Frame(m, tail)) \in Nat /\ Len(tail) \in Nat
        /\ Len(Frame(m, tail)) <= 4 + MAX_MSG_DATA_LEN + Len(tail)
    BY FrameType, FrameLen
  <2> QED
    BY <1>1, <1>2, <2>1, <2>2, <2>3
<1>3. CASE SenderDown
  <2>1. s'.out = 0
    BY <1>3 DEF SenderDown
  <2> QED
    BY <1>1, <2>1
<1>4. CASE Send
  <2>1. CASE SendData /\ \E m \in Bodies, tail \in Tail4 : Write(m, Frame(m, tail))
    <3>1. PICK m \in Bodies, tail \in Tail4 : Write(m, Frame(m, tail))
      BY <2>1
    <3>2. tail \in Seq(Byte) /\ 4 + Len(tail) <= Overhead
      <4>1. tail \in [1 .. 4 -> TailByte] /\ tail \in Seq(Byte)
        BY PayloadSeq DEF Tail4, HEAD_LEN
      <4>2. Len(tail) = 4
        BY <4>1, LenProperties
      <4>3. Overhead = 8
        BY <2>1, OverheadNat
      <4> QED
        BY <4>1, <4>2, <4>3
    <3> QED
      BY <1>2, <3>1, <3>2, BodiesArePayload
  <2>2. CASE ~SendData /\ \E m \in Bodies : Write(m, Frame(m, << >>))
    <3>1. << >> \in Seq(Byte) /\ 4 + Len(<< >>) <= Overhead
      BY <2>2, OverheadNat
    <3> QED
      BY <1>2, <2>2, <3>1, BodiesArePayload
  <2> QED
    BY <1>3, <1>4, <2>1, <2>2 DEF Send
<1>5. CASE Flush
  <2>1. PICK n \in 0 .. s.out - 1 : s' = [s EXCEPT !.out = n]
    BY <1>5 DEF Flush
  <2>2. s'.out <= s.out /\ s'.out \in Nat
    BY <1>1, <2>1 DEF StreamInv, TypeOK
  <2> QED
    BY <1>1, <2>2
<1>6. CASE SenderEnds
  BY <1>3, <1>6 DEF SenderEnds
<1>7. CASE UNCHANGED s
  BY <1>1, <1>7
<1>8. CASE Reconnect
  <2>1. s'.out = 0
    BY <1>8 DEF Reconnect, FreshSender
  <2> QED
    BY <1>1, <2>1
<1>9. Arrive \/ ReadCallback \/ ReceiverDown \/ UNCHANGED vars => UNCHANGED s
  BY DEF Arrive, ReadCallback, ReadHead, ReadBody, OnRecvReturns, LoopEnds,
         ReceiverDown, vars
<1> QED
  BY <1>4, <1>5, <1>6, <1>7, <1>8, <1>9 DEF Next

(* The output evbuffer exceeds the limit by at most one frame, however     *)
(* large the limit is and however often it is written to.                  *)
THEOREM OutputStaysBounded == Spec => []OutputBounded
<1>1. Init => OutputBounded
  <2>1. Init => s.out = 0
    BY DEF Init, FreshSender
  <2>2. MaxSendBuf \in Nat /\ MAX_MSG_DATA_LEN \in Nat /\ Overhead \in Nat
    BY StreamAssumption, OverheadNat
  <2> QED
    BY <2>1, <2>2 DEF OutputBounded
<1> QED
  BY <1>1, StreamInit, StreamNext, OutputNext, PTL DEF Spec

-----------------------------------------------------------------------------
(* The bytes b are the frames of the messages g + 1 .. of ms, one after    *)
(* another and perhaps cut off at the end: cut has where each one ends.    *)
(* With all nothing is cut off.                                            *)
Ends(cut, b, g, ms) ==
    /\ cut[g] = 0 /\ Len(b) <= cut[Len(ms)]
    /\ \A i, j \in g .. Len(ms) : i <= j => cut[i] <= cut[j]
    /\ \A i \in g + 1 .. Len(ms) : cut[i] = cut[i - 1] + HEAD_LEN + Len(ms[i])
    /\ \A i \in g + 1 .. Len(ms) : \A k \in 1 .. HEAD_LEN + Len(ms[i]) :
          cut[i - 1] + k <= Len(b) => b[cut[i - 1] + k] = Frame(ms[i], << >>)[k]

Lined(b, g, ms, all) ==
    \E cut \in [g .. Len(ms) -> Nat] :
        Ends(cut, b, g, ms) /\ (all => Len(b) = cut[Len(ms)])

LEMMA FrameBytes ==
    ASSUME NEW m \in Payload
    PROVE  LET f == Frame(m, << >>) IN
           /\ f \in Seq(Byte) /\ Len(f) = HEAD_LEN + Len(m)
           /\ \A k \in 1 .. HEAD_LEN : f[k] = NetBytes(Len(m))[k]
           /\ \A k \in 1 .. Len(m) : f[HEAD_LEN + k] = m[k]
<1> DEFINE n == NetBytes(Len(m))
           p == n \o m
<1>1. m \in Seq(Byte) /\ Len(m) \in Nat
  BY PayloadSeq
<1>2. n \in Seq(Byte) /\ Len(n) = HEAD_LEN
  BY <1>1, NetBytesType DEF NetBytes, HEAD_LEN
<1> HIDE DEF n
<1>3. /\ p \in Seq(Byte) /\ Len(p) = HEAD_LEN + Len(m)
      /\ \A k \in 1 .. HEAD_LEN + Len(m) : p[k] = IF k <= HEAD_LEN THEN n[k] ELSE m[k - HEAD_LEN]
  BY <1>1, <1>2, ConcatProperties
<1>4. p \o << >> = p
  BY <1>3, ConcatEmptySeq
<1>5. Frame(m, << >>) = p
  BY <1>4 DEF Frame, n
<1> HIDE DEF p
<1>6. HEAD_LEN = 4
  BY DEF HEAD_LEN
<1>7. \A k \in 1 .. HEAD_LEN : p[k] = n[k]
  BY <1>1, <1>3, <1>6
<1>8. \A k \in 1 .. Len(m) : p[HEAD_LEN + k] = m[k]
  BY <1>1, <1>3, <1>6
<1> QED
  BY <1>3, <1>5, <1>7, <1>8 DEF n

LEMMA LinedTypes ==
    ASSUME NEW ms \in Seq(Payload), NEW g \in 0 .. Len(ms), NEW cut \in [g .. Len(ms) -> Nat]
    PROVE  /\ Len(ms) \in Nat /\ g \in Nat /\ HEAD_LEN = 4
           /\ cut[g] \in Nat /\ cut[Len(ms)] \in Nat
           /\ \A i \in g + 1 .. Len(ms) :
                 /\ i \in Nat \ {0} /\ i \in g .. Len(ms) /\ i - 1 \in g .. Len(ms)
                 /\ cut[i] \in Nat /\ cut[i - 1] \in Nat
                 /\ ms[i] \in Payload /\ Len(ms[i]) \in Nat
<1>1. Len(ms) \in Nat /\ g \in Nat /\ g \in g .. Len(ms) /\ Len(ms) \in g .. Len(ms)
  OBVIOUS
<1>2. ASSUME NEW i \in g + 1 .. Len(ms)
      PROVE  i \in Nat \ {0} /\ i \in 1 .. Len(ms) /\ i \in g .. Len(ms) /\ i - 1 \in g .. Len(ms)
  BY <1>1
<1>3. ASSUME NEW i \in 1 .. Len(ms) PROVE ms[i] \in Payload /\ Len(ms[i]) \in Nat
  BY ElementOfSeq, PayloadSeq
<1>4. HEAD_LEN = 4
  BY DEF HEAD_LEN
<1> QED
  BY <1>1, <1>2, <1>3, <1>4

(* The beginning of such bytes is such.                                    *)
LEMMA LinedCut ==
    ASSUME NEW b \in Seq(Byte), NEW c \in Seq(Byte),
           NEW ms \in Seq(Payload), NEW g \in 0 .. Len(ms), NEW all, NEW every, Lined(b, g, ms, all),
           Len(c) <= Len(b), \A j \in 1 .. Len(c) : c[j] = b[j],
           every => all /\ Len(c) = Len(b)
    PROVE  Lined(c, g, ms, every)
<1>1. PICK cut \in [g .. Len(ms) -> Nat] :
          Ends(cut, b, g, ms) /\ (all => Len(b) = cut[Len(ms)])
  BY DEF Lined
<1>2. Len(ms) \in Nat /\ Len(b) \in Nat /\ Len(c) \in Nat
  OBVIOUS
<1>3. \A i \in g + 1 .. Len(ms) : cut[i - 1] \in Nat
  BY LinedTypes
<1>4. ASSUME NEW i \in g + 1 .. Len(ms), NEW k \in 1 .. HEAD_LEN + Len(ms[i]), cut[i - 1] + k <= Len(c)
      PROVE  c[cut[i - 1] + k] = Frame(ms[i], << >>)[k]
  <2>1. cut[i - 1] + k \in 1 .. Len(c) /\ cut[i - 1] + k <= Len(b)
    BY <1>2, <1>3, <1>4, LinedTypes
  <2>2. b[cut[i - 1] + k] = Frame(ms[i], << >>)[k]
    BY <1>1, <2>1 DEF Ends
  <2> QED
    BY <2>1, <2>2
<1>5. Len(c) <= cut[Len(ms)]
  <2>1. Len(b) <= cut[Len(ms)] /\ cut[Len(ms)] \in Nat
    BY <1>1, LinedTypes DEF Ends
  <2> QED
    BY <1>2, <2>1
<1>6. Ends(cut, c, g, ms)
  BY <1>1, <1>4, <1>5 DEF Ends
<1> QED
  BY <1>1, <1>6 DEF Lined

(* Nothing is the frames of no messages.                                   *)
LEMMA LinedNone ==
    ASSUME NEW ms \in Seq(Payload), NEW all
    PROVE  Lined(<< >>, Len(ms), ms, all)
<1> DEFINE n == Len(ms)
           cut == [i \in n .. n |-> 0]
<1>1. n \in Nat /\ n .. n = {n} /\ n + 1 .. n = {} /\ Len(<< >>) = 0
  OBVIOUS
<1> HIDE DEF n
<1>2. cut \in [n .. n -> Nat] /\ cut[n] = 0
  BY <1>1
<1> HIDE DEF cut
<1>3. Ends(cut, << >>, n, ms) /\ Len(<< >>) = cut[Len(ms)]
  BY <1>1, <1>2 DEF Ends, n
<1> QED
  BY <1>2, <1>3 DEF Lined, n

(* One more frame at the end is one more message.                          *)
LEMMA LinedSend ==
    ASSUME NEW b \in Seq(Byte), NEW ms \in Seq(Payload), NEW g \in 0 .. Len(ms),
           NEW m \in Payload, Lined(b, g, ms, TRUE)
    PROVE  Lined(b \o Frame(m, << >>), g, Append(ms, m), TRUE)
<1> DEFINE f == Frame(m, << >>)
           n == Len(ms)
           c == b \o f
           ns == Append(ms, m)
<1>1. PICK cut \in [g .. n -> Nat] : Ends(cut, b, g, ms) /\ Len(b) = cut[n]
  BY DEF Lined
<1>2. n \in Nat /\ g \in Nat /\ g <= n /\ HEAD_LEN = 4 /\ Len(m) \in Nat
  BY PayloadSeq DEF HEAD_LEN
<1>3. f \in Seq(Byte) /\ Len(f) = HEAD_LEN + Len(m)
  BY FrameBytes
<1> HIDE DEF f
<1>4. /\ c \in Seq(Byte) /\ Len(b) \in Nat /\ Len(c) = Len(b) + HEAD_LEN + Len(m)
      /\ \A j \in 1 .. Len(b) : c[j] = b[j]
      /\ \A k \in 1 .. HEAD_LEN + Len(m) : c[Len(b) + k] = f[k]
  <2>1. \A i \in 1 .. Len(b) + Len(f) : c[i] = IF i <= Len(b) THEN b[i] ELSE f[i - Len(b)]
    BY <1>3, ConcatProperties
  <2>2. Len(b) \in Nat
    OBVIOUS
  <2>3. \A k \in 1 .. HEAD_LEN + Len(m) : c[Len(b) + k] = f[k]
    BY <1>2, <1>3, <2>1, <2>2
  <2>4. \A j \in 1 .. Len(b) : c[j] = b[j]
    BY <1>2, <1>3, <2>1, <2>2
  <2>5. c \in Seq(Byte) /\ Len(c) = Len(b) + Len(f)
    BY <1>3, ConcatProperties
  <2> HIDE DEF c
  <2> QED
    BY <1>2, <1>3, <2>2, <2>3, <2>4, <2>5
<1>5. /\ ns \in Seq(Payload) /\ Len(ns) = n + 1 /\ ns[n + 1] = m
      /\ \A i \in 1 .. n : ns[i] = ms[i]
  BY AppendProperties
<1> DEFINE new == [i \in g .. n + 1 |-> IF i <= n THEN cut[i] ELSE Len(c)]
<1>6. /\ new \in [g .. n + 1 -> Nat] /\ new[n + 1] = Len(c)
      /\ \A i \in g .. n : new[i] = cut[i] /\ cut[i] \in Nat
  <2>1. Len(c) \in Nat
    BY <1>4
  <2>2. \A i \in g .. n : i \in g .. n + 1 /\ i <= n /\ cut[i] \in Nat
    BY <1>2
  <2>3. \A i \in g .. n + 1 : i <= n => i \in g .. n
    BY <1>2
  <2>4. n + 1 \in g .. n + 1 /\ ~(n + 1 <= n)
    BY <1>2
  <2> HIDE DEF c, n
  <2> QED
    BY <2>1, <2>2, <2>3, <2>4
<1> HIDE DEF c, ns, new
<1>7. \A i \in g .. n : cut[i] <= Len(b)
  BY <1>1, <1>2 DEF Ends
<1>8. new[g] = 0
  BY <1>1, <1>2, <1>6 DEF Ends
<1>9. ASSUME NEW i \in g .. n + 1, NEW j \in g .. n + 1, i <= j PROVE new[i] <= new[j]
  <2>1. CASE j <= n
    <3>1. i \in g .. n /\ j \in g .. n
      BY <1>2, <1>9, <2>1
    <3>2. cut[i] <= cut[j]
      BY <1>1, <1>9, <3>1 DEF Ends
    <3> QED
      BY <1>6, <3>1, <3>2
  <2>2. CASE j = n + 1 /\ i <= n
    <3>1. i \in g .. n /\ new[i] \in Nat
      BY <1>2, <1>6, <2>2
    <3> QED
      BY <1>2, <1>4, <1>6, <1>7, <2>2, <3>1
  <2>3. CASE i = n + 1 /\ j = n + 1
    BY <1>4, <1>6, <2>3, <1>2
  <2> QED
    BY <1>2, <1>9, <2>1, <2>2, <2>3
<1>10. ASSUME NEW i \in g + 1 .. n + 1
       PROVE  /\ new[i] = new[i - 1] + HEAD_LEN + Len(ns[i])
              /\ \A k \in 1 .. HEAD_LEN + Len(ns[i]) :
                    new[i - 1] + k <= Len(c) => c[new[i - 1] + k] = Frame(ns[i], << >>)[k]
  <2>1. CASE i <= n
    <3>1. /\ i \in g + 1 .. n /\ i \in 1 .. n /\ i \in g .. n /\ i - 1 \in g .. n
          /\ new[i] = cut[i] /\ new[i - 1] = cut[i - 1] /\ ns[i] = ms[i]
      BY <1>2, <1>5, <1>6, <2>1
    <3>2. cut[i] = cut[i - 1] + HEAD_LEN + Len(ms[i])
      BY <1>1, <3>1 DEF Ends
    <3>3. Len(ms[i]) \in Nat /\ cut[i - 1] \in Nat
      BY <1>6, <3>1, LinedTypes
    <3>4. ASSUME NEW k \in 1 .. HEAD_LEN + Len(ms[i]) PROVE c[cut[i - 1] + k] = Frame(ms[i], << >>)[k]
      <4>1. cut[i - 1] + k \in 1 .. Len(b)
        <5>1. cut[i] <= Len(b) /\ Len(b) \in Nat
          BY <1>4, <1>7, <3>1
        <5>2. k \in Nat /\ 1 <= k /\ k <= HEAD_LEN + Len(ms[i])
          BY <1>2, <3>3
        <5>3. cut[i - 1] + k <= cut[i] /\ cut[i - 1] + k \in Nat \ {0}
          <6> DEFINE x == cut[i - 1]
                     y == Len(ms[i])
          <6>1. x \in Nat /\ y \in Nat /\ cut[i] = x + 4 + y /\ k \in Nat /\ 1 <= k /\ k <= 4 + y
            BY <1>2, <3>2, <3>3, <5>2
          <6> HIDE DEF x, y
          <6>2. x + k <= cut[i] /\ x + k \in Nat \ {0}
            BY <6>1
          <6> QED
            BY <6>2 DEF x
        <5>4. cut[i] \in Nat
          BY <1>6, <3>1
        <5> QED
          BY <5>1, <5>3, <5>4
      <4>2. cut[i - 1] + k <= Len(b)
        BY <1>4, <4>1
      <4>3. b[cut[i - 1] + k] = Frame(ms[i], << >>)[k]
        BY <1>1, <3>1, <4>2 DEF Ends
      <4> QED
        BY <1>4, <4>1, <4>3
    <3> QED
      BY <3>1, <3>2, <3>4
  <2>2. CASE i = n + 1
    <3>1. n \in g .. n /\ i - 1 = n /\ new[i - 1] = Len(b) /\ new[i] = Len(c) /\ ns[i] = m
      BY <1>1, <1>2, <1>5, <1>6, <2>2
    <3> QED
      BY <1>4, <3>1 DEF f
  <2> QED
    BY <1>2, <2>1, <2>2
<1>11. Ends(new, c, g, ns)
  <2>1. Len(c) <= new[Len(ns)]
    BY <1>4, <1>5, <1>6, <1>2
  <2> QED
    BY <1>5, <1>8, <1>9, <1>10, <2>1 DEF Ends
<1>12. Lined(c, g, ns, TRUE)
  <2>1. new \in [g .. Len(ns) -> Nat] /\ Len(c) = new[Len(ns)]
    BY <1>5, <1>6
  <2> QED
    BY <1>11, <2>1 DEF Lined
<1> QED
  BY <1>12 DEF c, f, ns

(* What bytes that are not there yet begin with.                           *)
LEMMA LinedFirst ==
    ASSUME NEW b \in Seq(Byte), NEW ms \in Seq(Payload), NEW g \in 0 .. Len(ms), NEW all,
           Lined(b, g, ms, all), Len(b) > 0
    PROVE  /\ g < Len(ms) /\ ms[g + 1] \in Payload
           /\ \A k \in 1 .. HEAD_LEN + Len(ms[g + 1]) :
                 k <= Len(b) => b[k] = Frame(ms[g + 1], << >>)[k]
<1>1. PICK cut \in [g .. Len(ms) -> Nat] : Ends(cut, b, g, ms)
  BY DEF Lined
<1>2. Len(ms) \in Nat /\ g \in Nat /\ g <= Len(ms) /\ Len(b) \in Nat
  OBVIOUS
<1>3. g < Len(ms)
  <2>1. cut[g] = 0 /\ Len(b) <= cut[Len(ms)]
    BY <1>1 DEF Ends
  <2> QED
    BY <1>2, <2>1
<1>4. g + 1 \in g + 1 .. Len(ms) /\ (g + 1) - 1 = g
  BY <1>2, <1>3
<1>5. ms[g + 1] \in Payload /\ Len(ms[g + 1]) \in Nat
  BY <1>4, LinedTypes
<1>6. ASSUME NEW k \in 1 .. HEAD_LEN + Len(ms[g + 1]), k <= Len(b)
      PROVE  b[k] = Frame(ms[g + 1], << >>)[k]
  <2>1. cut[(g + 1) - 1] = 0 /\ k \in Nat
    BY <1>1, <1>4, <1>5 DEF Ends, HEAD_LEN
  <2>2. cut[(g + 1) - 1] + k = k
    BY <2>1
  <2>3. cut[(g + 1) - 1] + k <= Len(b) =>
            b[cut[(g + 1) - 1] + k] = Frame(ms[g + 1], << >>)[k]
    BY <1>1, <1>4 DEF Ends
  <2> QED
    BY <1>6, <2>2, <2>3
<1> QED
  BY <1>3, <1>5, <1>6

LEMMA ShiftLess ==
    ASSUME NEW x \in Nat, NEW y \in Nat, NEW z \in Nat, x <= y PROVE x - z <= y - z
  OBVIOUS

LEMMA ShiftEnd ==
    ASSUME NEW x \in Nat, NEW y \in Nat, NEW z \in Nat, NEW l \in Nat, y = z + l
    PROVE  /\ y <= x => l <= x - z
           /\ y = x => l = x - z
  OBVIOUS

LEMMA ShiftSum ==
    ASSUME NEW x \in Nat, NEW y \in Nat, NEW z \in Nat, NEW k \in Nat
    PROVE  (x + y + k) - z = (x - z) + y + k
  OBVIOUS

LEMMA ShiftPlace ==
    ASSUME NEW x \in Nat, NEW l \in Nat, NEW z \in Nat, NEW k \in Nat,
           x - z \in Nat, k > 0, (x - z) + k <= l
    PROVE  (x - z) + k \in 1 .. l /\ x + k <= z + l
  OBVIOUS

LEMMA ShiftBack ==
    ASSUME NEW x \in Nat, NEW z \in Nat, NEW k \in Nat
    PROVE  z + ((x - z) + k) = x + k
  OBVIOUS

(* Without the first frame they are those of the other messages.           *)
LEMMA LinedNext ==
    ASSUME NEW b \in Seq(Byte), NEW c \in Seq(Byte), NEW ms \in Seq(Payload),
           NEW g \in 0 .. Len(ms), NEW all, Lined(b, g, ms, all), g < Len(ms),
           NEW z \in Nat, z = HEAD_LEN + Len(ms[g + 1]),
           Len(b) = z + Len(c), \A j \in 1 .. Len(c) : c[j] = b[z + j]
    PROVE  Lined(c, g + 1, ms, all)
<1> DEFINE n == Len(ms)
<1>1. PICK cut \in [g .. n -> Nat] : Ends(cut, b, g, ms) /\ (all => Len(b) = cut[n])
  BY DEF Lined
<1>2. n \in Nat /\ g \in Nat /\ g < n /\ Len(b) \in Nat /\ Len(c) \in Nat /\ HEAD_LEN = 4
  BY DEF HEAD_LEN
<1>3. cut[g + 1] = z
  <2>1. g + 1 \in g + 1 .. n /\ (g + 1) - 1 = g
    BY <1>2
  <2>2. cut[g + 1] = cut[(g + 1) - 1] + HEAD_LEN + Len(ms[g + 1]) /\ cut[g] = 0
    BY <1>1, <2>1 DEF Ends
  <2> QED
    BY <1>2, <2>1, <2>2
<1>4. \A i \in g + 1 .. n : /\ i \in g .. n /\ cut[i] \in Nat /\ z <= cut[i]
                            /\ cut[i] - z \in Nat
  <2> SUFFICES ASSUME NEW i \in g + 1 .. n
               PROVE  i \in g .. n /\ cut[i] \in Nat /\ z <= cut[i] /\ cut[i] - z \in Nat
    OBVIOUS
  <2>1. i \in g .. n /\ g + 1 \in g .. n /\ g + 1 <= i
    BY <1>2
  <2>2. cut[g + 1] <= cut[i] /\ cut[i] \in Nat
    BY <1>1, <2>1 DEF Ends
  <2> QED
    BY <1>3, <2>1, <2>2
<1> DEFINE new == [i \in g + 1 .. n |-> cut[i] - z]
<1>5. new \in [g + 1 .. n -> Nat] /\ \A i \in g + 1 .. n : new[i] = cut[i] - z
  BY <1>4
<1>6. g + 1 \in g + 1 .. n /\ n \in g + 1 .. n
  BY <1>2
<1> HIDE DEF new
<1>7. new[g + 1] = 0 /\ Len(c) <= new[n] /\ (all => Len(c) = new[n])
  <2>1. Len(b) <= cut[n]
    BY <1>1 DEF Ends
  <2>2. cut[n] \in Nat /\ new[n] = cut[n] - z /\ new[g + 1] = cut[g + 1] - z
    BY <1>4, <1>5, <1>6
  <2>3. all => Len(b) = cut[n]
    BY <1>1
  <2> DEFINE l == Len(c)
             e == cut[n]
  <2>4. l \in Nat /\ e \in Nat /\ z \in Nat /\ Len(b) = z + l /\ Len(b) <= e
        /\ new[n] = e - z
    BY <1>2, <2>1, <2>2
  <2>5. all => Len(b) = e
    BY <2>3
  <2> DEFINE y == Len(b)
  <2> HIDE DEF l, e, y
  <2>6. /\ l \in Nat /\ e \in Nat /\ z \in Nat /\ y \in Nat /\ y = z + l /\ y <= e
    BY <1>2, <2>4 DEF y
  <2>7. l <= e - z /\ (y = e => l = e - z)
    BY <2>6, ShiftEnd, SMTT(30)
  <2>8. new[g + 1] = 0
    BY <1>3, <2>2
  <2> QED
    BY <2>4, <2>5, <2>7, <2>8 DEF l, y
<1>8. ASSUME NEW i \in g + 1 .. n, NEW j \in g + 1 .. n, i <= j PROVE new[i] <= new[j]
  <2>1. cut[i] <= cut[j]
    BY <1>1, <1>4, <1>8 DEF Ends
  <2>2. new[i] = cut[i] - z /\ new[j] = cut[j] - z /\ cut[i] \in Nat /\ cut[j] \in Nat
    BY <1>4, <1>5
  <2> QED
    BY <2>1, <2>2, ShiftLess
<1>9. ASSUME NEW i \in g + 1 + 1 .. n
      PROVE  /\ new[i] = new[i - 1] + HEAD_LEN + Len(ms[i])
             /\ \A k \in 1 .. HEAD_LEN + Len(ms[i]) :
                   new[i - 1] + k <= Len(c) => c[new[i - 1] + k] = Frame(ms[i], << >>)[k]
  <2>1. i \in g + 1 .. n /\ i - 1 \in g + 1 .. n
    BY <1>2
  <2>2. /\ new[i] = cut[i] - z /\ new[i - 1] = cut[i - 1] - z
        /\ cut[i] \in Nat /\ cut[i - 1] \in Nat /\ cut[i - 1] - z \in Nat
    BY <1>4, <1>5, <2>1
  <2>3. cut[i] = cut[i - 1] + HEAD_LEN + Len(ms[i]) /\ Len(ms[i]) \in Nat
    BY <1>1, <2>1, LinedTypes DEF Ends
  <2>4. ASSUME NEW k \in 1 .. HEAD_LEN + Len(ms[i]), new[i - 1] + k <= Len(c)
        PROVE  c[new[i - 1] + k] = Frame(ms[i], << >>)[k]
    <3> DEFINE x == cut[i - 1]
    <3>1. k \in Nat \ {0} /\ x \in Nat /\ x - z \in Nat /\ new[i - 1] = x - z
      BY <1>2, <2>2, <2>3
    <3> HIDE DEF x
    <3>2. (x - z) + k \in 1 .. Len(c) /\ z + ((x - z) + k) = x + k /\ x + k <= Len(b)
      <4> DEFINE l == Len(c)
      <4>1. l \in Nat /\ (x - z) + k <= l /\ k > 0 /\ k \in Nat /\ x \in Nat /\ x - z \in Nat
        BY <1>2, <2>4, <3>1
      <4>2. Len(b) = z + l
        OBVIOUS
      <4> HIDE DEF l
      <4>3. (x - z) + k \in 1 .. l
        BY <4>1, ShiftPlace
      <4>4. z + ((x - z) + k) = x + k
        <5>1. z \in Nat /\ x \in Nat /\ k \in Nat
          BY <4>1
        <5> QED
          BY <5>1, ShiftBack, Zenon
      <4>5. x + k <= z + l
        BY <4>1, ShiftPlace
      <4> QED
        BY <4>2, <4>3, <4>4, <4>5 DEF l
    <3>3. c[new[i - 1] + k] = b[x + k]
      BY <3>1, <3>2
    <3>4. b[x + k] = Frame(ms[i], << >>)[k]
      BY <1>1, <2>1, <3>2 DEF Ends, x
    <3> QED
      BY <3>3, <3>4
  <2>5. new[i] = new[i - 1] + HEAD_LEN + Len(ms[i])
    <3> DEFINE x == cut[i - 1]
               y == Len(ms[i])
    <3>1. /\ x \in Nat /\ y \in Nat /\ new[i] = cut[i] - z /\ new[i - 1] = x - z
          /\ cut[i] = x + HEAD_LEN + y
      BY <2>2, <2>3
    <3> HIDE DEF x, y
    <3>2. HEAD_LEN \in Nat /\ x \in Nat /\ y \in Nat /\ z \in Nat
      BY <1>2, <3>1
    <3>3. (x + HEAD_LEN + y) - z = (x - z) + HEAD_LEN + y
      BY <3>2, ShiftSum, SMTT(20)
    <3>4. new[i] = new[i - 1] + HEAD_LEN + y
      BY <3>1, <3>3
    <3> QED
      BY <3>4 DEF y
  <2> QED
    BY <2>4, <2>5
<1>10. Ends(new, c, g + 1, ms)
  BY <1>7, <1>8, <1>9 DEF Ends
<1> QED
  BY <1>5, <1>7, <1>10 DEF Lined

(* No more than a header of them can only be that of an empty last message.*)
LEMMA LinedEnd ==
    ASSUME NEW b \in Seq(Byte), NEW ms \in Seq(Payload), NEW g \in 0 .. Len(ms),
           Lined(b, g, ms, TRUE), Len(b) <= HEAD_LEN
    PROVE  \/ g = Len(ms)
           \/ g + 1 = Len(ms) /\ Len(ms[g + 1]) = 0
<1> DEFINE n == Len(ms)
<1>1. PICK cut \in [g .. n -> Nat] : Ends(cut, b, g, ms) /\ Len(b) = cut[n]
  BY DEF Lined
<1>2. n \in Nat /\ g \in Nat /\ g <= n /\ HEAD_LEN = 4
  BY DEF HEAD_LEN
<1>3. CASE g < n
  <2>1. /\ g + 1 \in g + 1 .. n /\ (g + 1) - 1 = g /\ g + 1 \in g .. n /\ n \in g .. n
        /\ g + 1 <= n
    BY <1>2, <1>3
  <2>2. cut[g + 1] = cut[(g + 1) - 1] + HEAD_LEN + Len(ms[g + 1]) /\ cut[g] = 0
    BY <1>1, <2>1 DEF Ends
  <2>3. cut[g + 1] = 4 + Len(ms[g + 1]) /\ Len(ms[g + 1]) \in Nat
    BY <1>2, <2>1, <2>2, LinedTypes
  <2>4. cut[g + 1] <= cut[n] /\ cut[n] <= 4
    BY <1>1, <1>2, <2>1 DEF Ends
  <2>5. Len(ms[g + 1]) = 0 /\ cut[g + 1] = 4
    BY <1>1, <2>1, <2>3, <2>4
  <2>6. ASSUME g + 1 < n PROVE FALSE
    <3>1. /\ g + 2 \in g + 1 .. n /\ (g + 2) - 1 = g + 1 /\ g + 2 \in g .. n /\ g + 2 <= n
      BY <1>2, <2>6
    <3>2. cut[g + 2] = cut[(g + 2) - 1] + HEAD_LEN + Len(ms[g + 2]) /\ cut[g + 2] <= cut[n]
      BY <1>1, <2>1, <3>1 DEF Ends
    <3>3. Len(ms[g + 2]) \in Nat
      BY <3>1, LinedTypes
    <3>4. cut[n] \in Nat
      BY <1>1, <2>1
    <3> QED
      BY <1>2, <2>4, <2>5, <3>1, <3>2, <3>3, <3>4
  <2> QED
    BY <1>2, <2>1, <2>5, <2>6
<1> QED
  BY <1>2, <1>3

-----------------------------------------------------------------------------
(***************************************************************************)
(* With well framed input and a new object for each connection the bytes   *)
(* on their way are always the frames of the messages that OnRecv did not  *)
(* get, but for the end when the sender is down.  The bytes in m_msg are   *)
(* the first of them; each read of a part of a body reverses the header    *)
(* among them, and before the next part it is put in order only as far as  *)
(* its length is concerned that was valid.                                 *)
(***************************************************************************)
HeldOf(m, w) == [i \in 1 .. w |-> m[i - 1]]
Coming(m) == HeldOf(m, r.wlen) \o (h.in \o wire)

Agrees == Len(got) <= Len(sent) /\ \A i \in 1 .. Len(got) : got[i] = sent[i]

Down == h.pc = "idle" /\ ~r.up
Waiting(m) == h.pc \in {"idle", "loop"} /\ Lined(Coming(m), Len(got), sent, s.up)
(* The header in m_msg has its bytes as they were sent, or reversed.       *)
InOrder == Waiting(r.msg) /\ (r.wlen > HEAD_LEN => torn)
Swapped == Waiting(HtoNL(r.msg)) /\ r.wlen > HEAD_LEN /\ torn
AtRecv == h.pc = "onrecv" /\ Lined(h.in \o wire, Len(got), sent, s.up)
Wild == /\ h.pc = "wild" /\ Len(got) < Len(sent)
        /\ Len(sent[Len(got) + 1]) = HalfByte

FrameInv ==
    /\ StreamInv /\ Agrees /\ (h.pc = "idle" => h.in = << >>)
    /\ Down \/ InOrder \/ Swapped \/ AtRecv \/ Wild

LEMMA HeldTypes ==
    ASSUME NEW m \in MsgPack, NEW w \in Nat, w <= MsgSize
    PROVE  HeldOf(m, w) \in Seq(Byte) /\ Len(HeldOf(m, w)) = w
<1>1. ASSUME NEW i \in 1 .. w PROVE m[i - 1] \in Byte
  <2>1. i - 1 \in 0 .. MsgSize - 1
    BY SizeFacts
  <2> QED
    BY <2>1 DEF MsgPack
<1>2. HeldOf(m, w) \in [1 .. w -> Byte]
  BY <1>1 DEF HeldOf
<1>3. \A x \in [1 .. w -> Byte] : x \in Seq(Byte) /\ Len(x) = w
  OBVIOUS
<1> QED
  BY <1>2, <1>3

LEMMA FrameTypes ==
    ASSUME StreamInv, Agrees
    PROVE  /\ h.in \in Seq(Byte) /\ wire \in Seq(Byte) /\ h.in \o wire \in Seq(Byte)
           /\ sent \in Seq(Payload) /\ got \in Seq(Payload) /\ Len(got) \in 0 .. Len(sent)
           /\ r.msg \in MsgPack /\ HtoNL(r.msg) \in MsgPack /\ r.wlen \in Nat /\ r \in Receiver
           /\ s.up \in BOOLEAN /\ s.out \in 0 .. Len(wire) /\ h \in Handler
           /\ h.pc # "wild" => r.wlen <= MsgSize
           /\ h.pc # "wild" => \A m \in MsgPack :
                 /\ HeldOf(m, r.wlen) \in Seq(Byte) /\ Len(HeldOf(m, r.wlen)) = r.wlen
                 /\ Coming(m) \in Seq(Byte)
<1>1. /\ h.in \in Seq(Byte) /\ wire \in Seq(Byte) /\ sent \in Seq(Bodies) /\ got \in Seq(Payload)
      /\ r.msg \in MsgPack /\ r.wlen \in Nat /\ r \in Receiver /\ h \in Handler
      /\ s.up \in BOOLEAN /\ s.out \in Nat /\ s.out <= Len(wire)
      /\ h.pc # "wild" => r.wlen <= MsgSize
  BY DEF StreamInv, TypeOK, InBuffer, Receiver, Handler
<1>2. sent \in Seq(Payload)
  <2>1. sent \in [1 .. Len(sent) -> Bodies] /\ Len(sent) \in Nat
    BY <1>1
  <2>2. sent \in [1 .. Len(sent) -> Payload]
    BY <2>1, BodiesArePayload
  <2> QED
    BY <2>1, <2>2
<1>3. h.in \o wire \in Seq(Byte)
  BY <1>1, ConcatProperties
<1>4. ASSUME h.pc # "wild", NEW m \in MsgPack
      PROVE  /\ HeldOf(m, r.wlen) \in Seq(Byte) /\ Len(HeldOf(m, r.wlen)) = r.wlen
             /\ Coming(m) \in Seq(Byte)
  <2>1. HeldOf(m, r.wlen) \in Seq(Byte) /\ Len(HeldOf(m, r.wlen)) = r.wlen
    BY <1>1, <1>4, HeldTypes
  <2> QED
    BY <1>3, <2>1, ConcatProperties DEF Coming
<1>5. Len(got) \in 0 .. Len(sent) /\ s.out \in 0 .. Len(wire)
  BY <1>1 DEF Agrees
<1>6. HtoNL(r.msg) \in MsgPack
  BY <1>1, HtoNLType
<1> QED
  BY <1>1, <1>2, <1>3, <1>4, <1>5, <1>6

LEMMA JoinFacts ==
    ASSUME NEW a \in Seq(Byte), NEW b \in Seq(Byte)
    PROVE  /\ a \o b \in Seq(Byte) /\ Len(a \o b) = Len(a) + Len(b)
           /\ Len(a) \in Nat /\ Len(b) \in Nat
           /\ \A j \in 1 .. Len(a) : (a \o b)[j] = a[j]
           /\ \A j \in 1 .. Len(b) : (a \o b)[Len(a) + j] = b[j]
           /\ \A c \in Seq(Byte) : (a \o b) \o c = a \o (b \o c)
           /\ << >> \o a = a /\ a \o << >> = a
<1> DEFINE t == a \o b
<1>1. /\ t \in Seq(Byte) /\ Len(t) = Len(a) + Len(b) /\ Len(a) \in Nat /\ Len(b) \in Nat
      /\ \A i \in 1 .. Len(a) + Len(b) : t[i] = IF i <= Len(a) THEN a[i] ELSE b[i - Len(a)]
  BY ConcatProperties
<1> HIDE DEF t
<1>2. \A j \in 1 .. Len(a) : t[j] = a[j]
  BY <1>1
<1>3. \A j \in 1 .. Len(b) : t[Len(a) + j] = b[j]
  <2> DEFINE n == Len(a)
  <2>1. n \in Nat /\ \A i \in 1 .. n + Len(b) : t[i] = IF i <= n THEN a[i] ELSE b[i - n]
    BY <1>1
  <2> SUFFICES ASSUME NEW j \in 1 .. Len(b) PROVE t[n + j] = b[j]
    OBVIOUS
  <2> HIDE DEF n
  <2>2. n + j \in 1 .. n + Len(b) /\ ~(n + j <= n) /\ (n + j) - n = j
    BY <1>1, <2>1
  <2> QED
    BY <2>1, <2>2
<1>4. \A c \in Seq(Byte) : (a \o b) \o c = a \o (b \o c)
  BY ConcatAssociative
<1>5. << >> \o a = a /\ a \o << >> = a
  BY ConcatEmptySeq
<1> QED
  BY <1>1, <1>2, <1>3, <1>4, <1>5 DEF t

LEMMA JoinIs ==
    ASSUME NEW a \in Seq(Byte), NEW b \in Seq(Byte), NEW c, c = a \o b
    PROVE  /\ Len(c) = Len(a) + Len(b) /\ Len(a) \in Nat /\ Len(b) \in Nat
           /\ \A j \in 1 .. Len(a) : c[j] = a[j]
           /\ \A j \in 1 .. Len(b) : c[Len(a) + j] = b[j]
<1> DEFINE t == a \o b
<1>1. /\ Len(t) = Len(a) + Len(b) /\ Len(a) \in Nat /\ Len(b) \in Nat
      /\ \A j \in 1 .. Len(a) : t[j] = a[j]
      /\ \A j \in 1 .. Len(b) : t[Len(a) + j] = b[j]
  BY JoinFacts
<1>2. c = t
  OBVIOUS
<1> HIDE DEF t
<1> QED
  BY <1>1, <1>2

LEMMA JoinMoves ==
    ASSUME NEW a \in Seq(Byte), NEW b \in Seq(Byte), NEW c \in Seq(Byte)
    PROVE  a \o (b \o c) = (a \o b) \o c
  BY ConcatAssociative, SMTT(30)

(* Cut in two a sequence is what it was.                                   *)
LEMMA CutFacts ==
    ASSUME NEW q \in Seq(Byte), NEW n \in 0 .. Len(q)
    PROVE  /\ SubSeq(q, 1, n) \in Seq(Byte) /\ Len(SubSeq(q, 1, n)) = n
           /\ SubSeq(q, n + 1, Len(q)) \in Seq(Byte)
           /\ Len(SubSeq(q, n + 1, Len(q))) = Len(q) - n
           /\ SubSeq(q, 1, n) \o SubSeq(q, n + 1, Len(q)) = q
           /\ \A j \in 1 .. n : SubSeq(q, 1, n)[j] = q[j]
<1>1. Len(q) \in Nat /\ n \in Nat
  OBVIOUS
<1>2. /\ SubSeq(q, 1, n) \in Seq(Byte) /\ Len(SubSeq(q, 1, n)) = n
      /\ SubSeq(q, n + 1, Len(q)) \in Seq(Byte)
      /\ Len(SubSeq(q, n + 1, Len(q))) = Len(q) - n
  BY <1>1, PieceType
<1>3. SubSeq(q, 1, n) \o SubSeq(q, n + 1, Len(q)) = q
  <2>1. 1 \in 1 .. Len(q) + 1 /\ n \in 1 - 1 .. Len(q) /\ Len(q) \in n .. Len(q)
    BY <1>1
  <2>2. SubSeq(q, 1, n) \o SubSeq(q, n + 1, Len(q)) = SubSeq(q, 1, Len(q))
    BY <2>1, ConcatAdjacentSubSeq
  <2> QED
    BY <2>2, SubSeqFull
<1>4. \A j \in 1 .. n : SubSeq(q, 1, n)[j] = q[j]
  BY <1>1, SubSeqProperties
<1> QED
  BY <1>2, <1>3, <1>4

(* Fewer bytes at the end of the second are fewer at the end of both.      *)
LEMMA JoinPrefix ==
    ASSUME NEW a \in Seq(Byte), NEW b \in Seq(Byte), NEW c \in Seq(Byte),
           Len(c) <= Len(b), \A j \in 1 .. Len(c) : c[j] = b[j]
    PROVE  /\ a \o b \in Seq(Byte) /\ a \o c \in Seq(Byte) /\ Len(a \o c) <= Len(a \o b)
           /\ \A j \in 1 .. Len(a \o c) : (a \o c)[j] = (a \o b)[j]
           /\ Len(c) = Len(b) => Len(a \o c) = Len(a \o b)
<1> DEFINE p == a \o b
           q == a \o c
<1>1. /\ p \in Seq(Byte) /\ q \in Seq(Byte)
      /\ Len(p) = Len(a) + Len(b) /\ Len(q) = Len(a) + Len(c)
      /\ Len(a) \in Nat /\ Len(b) \in Nat /\ Len(c) \in Nat
      /\ \A j \in 1 .. Len(a) : p[j] = a[j] /\ q[j] = a[j]
      /\ \A j \in 1 .. Len(b) : p[Len(a) + j] = b[j]
      /\ \A j \in 1 .. Len(c) : q[Len(a) + j] = c[j]
  <2>1. /\ p \in Seq(Byte) /\ q \in Seq(Byte)
        /\ p = a \o b /\ q = a \o c
    BY JoinFacts
  <2> HIDE DEF p, q
  <2>2. /\ Len(p) = Len(a) + Len(b) /\ Len(a) \in Nat /\ Len(b) \in Nat
        /\ \A j \in 1 .. Len(a) : p[j] = a[j]
        /\ \A j \in 1 .. Len(b) : p[Len(a) + j] = b[j]
    BY <2>1, JoinIs
  <2>3. /\ Len(q) = Len(a) + Len(c) /\ Len(c) \in Nat
        /\ \A j \in 1 .. Len(a) : q[j] = a[j]
        /\ \A j \in 1 .. Len(c) : q[Len(a) + j] = c[j]
    BY <2>1, JoinIs
  <2> QED
    BY <2>1, <2>2, <2>3
<1> HIDE DEF p, q
<1>2. ASSUME NEW j \in 1 .. Len(q) PROVE q[j] = p[j]
  <2>1. CASE j <= Len(a)
    BY <1>1, <2>1
  <2>2. CASE ~(j <= Len(a))
    <3>1. PICK i \in 1 .. Len(c) : j = Len(a) + i
      <4>1. j - Len(a) \in 1 .. Len(c) /\ j = Len(a) + (j - Len(a))
        BY <1>1, <2>2
      <4> QED
        BY <4>1
    <3>2. i \in 1 .. Len(b) /\ c[i] = b[i]
      BY <1>1
    <3> QED
      BY <1>1, <3>1, <3>2
  <2> QED
    BY <2>1, <2>2
<1>3. Len(q) <= Len(p) /\ (Len(c) = Len(b) => Len(q) = Len(p))
  <2>1. /\ Len(p) = Len(a) + Len(b) /\ Len(q) = Len(a) + Len(c)
        /\ Len(a) \in Nat /\ Len(b) \in Nat /\ Len(c) \in Nat /\ Len(c) <= Len(b)
    BY <1>1
  <2>2. \A x, y, z \in Nat : y <= z => x + y <= x + z
    BY SMT
  <2> QED
    BY ONLY <2>1, <2>2, SMT
<1> QED
  BY <1>1, <1>2, <1>3 DEF p, q

LEMMA LinedTail ==
    ASSUME NEW a \in Seq(Byte), NEW b \in Seq(Byte), NEW c \in Seq(Byte),
           NEW ms \in Seq(Payload), NEW g \in 0 .. Len(ms), NEW all, NEW every,
           Lined(a \o b, g, ms, all),
           Len(c) <= Len(b), \A j \in 1 .. Len(c) : c[j] = b[j],
           every => all /\ Len(c) = Len(b)
    PROVE  Lined(a \o c, g, ms, every)
<1> DEFINE p == a \o b
           q == a \o c
<1>1. /\ p \in Seq(Byte) /\ q \in Seq(Byte) /\ Len(q) <= Len(p)
      /\ \A j \in 1 .. Len(q) : q[j] = p[j]
      /\ Len(c) = Len(b) => Len(q) = Len(p)
  BY JoinPrefix
<1>2. Lined(p, g, ms, all)
  OBVIOUS
<1> HIDE DEF p, q
<1>3. every => all /\ Len(q) = Len(p)
  BY <1>1
<1>4. Lined(q, g, ms, every)
  BY <1>1, <1>2, <1>3, LinedCut
<1> QED
  BY <1>4 DEF q

(* What keeps a phase: the same bytes, or fewer of them at the end.        *)
LEMMA KeepsPhase ==
    ASSUME FrameInv, StreamInv', UNCHANGED <<r, h, sent, got, torn>>,
           wire' \in Seq(Byte), Len(wire') <= Len(wire),
           \A j \in 1 .. Len(wire') : wire'[j] = wire[j],
           s.up' => s.up /\ wire' = wire
    PROVE  FrameInv'
<1>1. /\ Agrees' /\ (h'.pc = "idle" => h'.in = << >>)
      /\ (Down => Down') /\ (Wild => Wild')
  BY DEF FrameInv, Agrees, Down, Wild, HalfByte
<1>2. /\ h.in \in Seq(Byte) /\ wire \in Seq(Byte) /\ h.in \o wire \in Seq(Byte)
      /\ sent \in Seq(Payload) /\ Len(got) \in 0 .. Len(sent)
      /\ r.msg \in MsgPack /\ HtoNL(r.msg) \in MsgPack
      /\ h.pc # "wild" => \A m \in MsgPack : HeldOf(m, r.wlen) \in Seq(Byte)
  BY FrameTypes DEF FrameInv
<1> DEFINE b == h.in \o wire
           c == h.in \o wire'
<1>3. /\ c \in Seq(Byte) /\ b \in Seq(Byte) /\ Len(c) <= Len(b)
      /\ \A j \in 1 .. Len(c) : c[j] = b[j]
      /\ Len(wire') = Len(wire) => Len(c) = Len(b)
  <2>1. h.in \in Seq(Byte) /\ wire \in Seq(Byte)
    BY <1>2
  <2> QED
    BY <2>1, JoinPrefix, Zenon
<1> HIDE DEF b, c
<1>4. s.up' => s.up /\ Len(c) = Len(b)
  BY <1>3, Zenon
<1>5. ASSUME NEW a \in Seq(Byte), Lined(a \o b, Len(got), sent, s.up)
      PROVE  Lined(a \o c, Len(got), sent, s.up')
  BY <1>2, <1>3, <1>4, <1>5, LinedTail
<1>6. AtRecv => AtRecv'
  <2>1. ASSUME Lined(b, Len(got), sent, s.up) PROVE Lined(c, Len(got), sent, s.up')
    BY <1>2, <1>3, <1>4, <2>1, LinedCut
  <2> QED
    BY <2>1 DEF AtRecv, b, c
<1>7. InOrder => InOrder'
  <2>1. ASSUME InOrder PROVE HeldOf(r.msg, r.wlen) \in Seq(Byte)
    BY <1>2, <2>1 DEF InOrder, Waiting
  <2>2. Coming(r.msg) = HeldOf(r.msg, r.wlen) \o b /\ Coming(r.msg)' = HeldOf(r.msg, r.wlen) \o c
    BY DEF Coming, b, c
  <2> QED
    BY <1>5, <2>1, <2>2 DEF InOrder, Waiting, HEAD_LEN
<1>8. Swapped => Swapped'
  <2>1. ASSUME Swapped PROVE HeldOf(HtoNL(r.msg), r.wlen) \in Seq(Byte)
    BY <1>2, <2>1 DEF Swapped, Waiting
  <2>2. /\ Coming(HtoNL(r.msg)) = HeldOf(HtoNL(r.msg), r.wlen) \o b
        /\ Coming(HtoNL(r.msg))' = HeldOf(HtoNL(r.msg), r.wlen) \o c
    BY DEF Coming, b, c
  <2> QED
    BY <1>5, <2>1, <2>2 DEF Swapped, Waiting, HEAD_LEN
<1> QED
  BY <1>1, <1>6, <1>7, <1>8 DEF FrameInv

LEMMA SenderDownFrames == ASSUME FrameInv, SenderDown, StreamInv' PROVE FrameInv'
<1>1. wire \in Seq(Byte) /\ s.out \in 0 .. Len(wire)
  BY FrameTypes DEF FrameInv
<1>2. /\ wire' = SubSeq(wire, 1, Len(wire) - s.out) /\ s'.up = FALSE
      /\ UNCHANGED <<r, h, sent, got, torn>>
  BY DEF SenderDown
<1>3. Len(wire) - s.out \in 0 .. Len(wire) /\ Len(wire) \in Nat
  BY <1>1
<1>4. /\ wire' \in Seq(Byte) /\ Len(wire') <= Len(wire)
      /\ \A j \in 1 .. Len(wire') : wire'[j] = wire[j]
  <2> DEFINE n == Len(wire) - s.out
  <2>1. n \in 0 .. Len(wire) /\ wire' = SubSeq(wire, 1, n)
    BY <1>2, <1>3
  <2> HIDE DEF n
  <2>2. wire' \in Seq(Byte) /\ Len(wire') = n /\ \A j \in 1 .. n : wire'[j] = wire[j]
    BY <1>1, <2>1, CutFacts
  <2> QED
    BY <1>3, <2>1, <2>2
<1> QED
  BY <1>2, <1>4, KeepsPhase


(* One more message is written whole.                                      *)
LEMMA WriteFrames ==
    ASSUME FrameInv, s.up, NEW m \in Bodies, NEW f \in Seq(Byte), f = Frame(m, << >>),
           Write(m, f), StreamInv'
    PROVE  FrameInv'
<1>1. /\ wire' = wire \o f /\ sent' = Append(sent, m) /\ s.up' = s.up
      /\ UNCHANGED <<r, h, got, torn>>
  BY DEF Write, FrameInv, StreamInv, TypeOK
<1>2. /\ h.in \in Seq(Byte) /\ wire \in Seq(Byte) /\ h.in \o wire \in Seq(Byte)
      /\ sent \in Seq(Payload) /\ Len(got) \in 0 .. Len(sent) /\ m \in Payload
      /\ r.msg \in MsgPack /\ HtoNL(r.msg) \in MsgPack
      /\ h.pc # "wild" => \A x \in MsgPack :
            HeldOf(x, r.wlen) \in Seq(Byte) /\ Coming(x) \in Seq(Byte)
  BY FrameTypes, BodiesArePayload DEF FrameInv
<1>3. s.up = TRUE /\ s.up' = TRUE
  BY <1>1, FrameTypes DEF FrameInv
<1>4. /\ Len(sent') = Len(sent) + 1 /\ \A i \in 1 .. Len(sent) : sent'[i] = sent[i]
      /\ Len(sent) \in Nat /\ got' = got
  BY <1>1, <1>2, AppendProperties
<1>5. Agrees' /\ (h.pc = "idle" => h.in = << >>)'
  <2>1. Len(got) \in 0 .. Len(sent) /\ \A i \in 1 .. Len(got) : got[i] = sent[i]
    BY <1>2 DEF FrameInv, Agrees
  <2>2. \A i \in 1 .. Len(got) : i \in 1 .. Len(sent)
    BY <1>4, <2>1
  <2>3. Agrees'
    BY <1>4, <2>1, <2>2 DEF Agrees
  <2> QED
    BY <1>1, <2>3 DEF FrameInv
<1>6. /\ h.in \o (wire \o f) = (h.in \o wire) \o f
      /\ (h.in \o wire)' = (h.in \o wire) \o f
  <2>1. h.in \in Seq(Byte) /\ wire \in Seq(Byte) /\ f \in Seq(Byte)
    BY <1>2
  <2>2. h.in \o (wire \o f) = (h.in \o wire) \o f
    BY ONLY <2>1, JoinMoves, ZenonT(40)
  <2> QED
    BY <1>1, <2>2
<1>7. AtRecv => AtRecv'
  <2>1. ASSUME AtRecv PROVE Lined((h.in \o wire) \o f, Len(got), Append(sent, m), TRUE)
    BY <1>2, <1>3, <2>1, LinedSend DEF AtRecv
  <2> QED
    BY <1>1, <1>3, <1>6, <2>1 DEF AtRecv
<1>8. ASSUME NEW a \in Seq(Byte), Lined(a \o (h.in \o wire), Len(got), sent, TRUE)
      PROVE  Lined(a \o (h.in \o (wire \o f)), Len(got), Append(sent, m), TRUE)
  <2> DEFINE b == h.in \o wire
             c == a \o b
  <2>1. b \in Seq(Byte) /\ Lined(c, Len(got), sent, TRUE)
    BY <1>2, <1>8
  <2>2. h.in \o (wire \o f) = b \o f
    BY <1>6, Zenon
  <2> HIDE DEF b
  <2>3. c \in Seq(Byte) /\ a \o (b \o f) = c \o f
    BY <2>1, ConcatProperties, JoinMoves
  <2> HIDE DEF c
  <2>4. Lined(c \o f, Len(got), Append(sent, m), TRUE)
    BY <1>2, <2>1, <2>3, LinedSend
  <2> QED
    BY <2>2, <2>3, <2>4
<1>9. InOrder => InOrder'
  <2>1. ASSUME InOrder
        PROVE  Lined(HeldOf(r.msg, r.wlen) \o (h.in \o (wire \o f)), Len(got), Append(sent, m), TRUE)
    BY <1>2, <1>3, <1>8, <2>1 DEF InOrder, Waiting, Coming
  <2> QED
    BY <1>1, <1>3, <2>1 DEF InOrder, Waiting, Coming, HEAD_LEN
<1>10. Swapped => Swapped'
  <2>1. ASSUME Swapped
        PROVE  Lined(HeldOf(HtoNL(r.msg), r.wlen) \o (h.in \o (wire \o f)),
                     Len(got), Append(sent, m), TRUE)
    BY <1>2, <1>3, <1>8, <2>1 DEF Swapped, Waiting, Coming
  <2> QED
    BY <1>1, <1>3, <2>1 DEF Swapped, Waiting, Coming, HEAD_LEN
<1>11. Wild => Wild'
  <2>1. ASSUME Wild PROVE Len(got) + 1 \in 1 .. Len(sent)
    BY <1>2, <2>1 DEF Wild
  <2> QED
    BY <1>1, <1>2, <1>4, <2>1 DEF Wild, HalfByte
<1>12. Down => Down'
  BY <1>1 DEF Down
<1> QED
  BY <1>5, <1>7, <1>9, <1>10, <1>11, <1>12 DEF FrameInv

LEMMA SendFrames == ASSUME FrameInv, Send, ~SendData, StreamInv' PROVE FrameInv'
<1>1. ASSUME NEW m \in Bodies, s.up, Write(m, Frame(m, << >>)) PROVE FrameInv'
  BY <1>1, FrameBytes, WriteFrames, BodiesArePayload
<1> QED
  BY <1>1, SenderDownFrames DEF Send

LEMMA FlushFrames == ASSUME FrameInv, Flush, StreamInv' PROVE FrameInv'
<1>1. wire' = wire /\ s.up' = s.up /\ UNCHANGED <<r, h, sent, got, torn>>
  BY DEF Flush, FrameInv, StreamInv, TypeOK
<1>2. wire' \in Seq(Byte) /\ Len(wire') <= Len(wire)
      /\ \A j \in 1 .. Len(wire') : wire'[j] = wire[j]
  BY <1>1 DEF FrameInv, StreamInv, TypeOK
<1> QED
  BY <1>1, <1>2, KeepsPhase

LEMMA ArriveFrames == ASSUME FrameInv, Arrive, StreamInv' PROVE FrameInv'
<1>1. PICK n \in 1 .. Len(wire) - s.out :
          /\ h' = [pc |-> "loop", in |-> SubSeq(wire, 1, n)]
          /\ wire' = SubSeq(wire, n + 1, Len(wire))
  BY DEF Arrive
<1>2. r.up /\ h.pc = "idle" /\ UNCHANGED <<s, r, sent, got, torn>>
  BY DEF Arrive
<1>3. wire \in Seq(Byte) /\ s.out \in 0 .. Len(wire)
  BY FrameTypes DEF FrameInv
<1>4. h.in \o wire = wire /\ (h.in \o wire)' = wire
  <2>1. n \in 0 .. Len(wire)
    BY <1>3
  <2>2. SubSeq(wire, 1, n) \o SubSeq(wire, n + 1, Len(wire)) = wire
    BY <1>3, <2>1, CutFacts
  <2>3. << >> \o wire = wire
    BY <1>3, JoinFacts
  <2>4. h.in = << >>
    BY <1>2 DEF FrameInv
  <2> QED
    BY <1>1, <2>2, <2>3, <2>4
<1>5. /\ Coming(r.msg)' = Coming(r.msg)
      /\ Coming(HtoNL(r.msg))' = Coming(HtoNL(r.msg))
  BY <1>2, <1>4 DEF Coming
<1>6. Agrees' /\ h.pc' = "loop"
  BY <1>1, <1>2 DEF FrameInv, Agrees
<1>7. InOrder \/ Swapped
  BY <1>2 DEF FrameInv, Down, AtRecv, Wild
<1>8. InOrder => InOrder'
  BY <1>2, <1>5, <1>6 DEF InOrder, Waiting, HEAD_LEN
<1>9. Swapped => Swapped'
  BY <1>2, <1>5, <1>6 DEF Swapped, Waiting, HEAD_LEN
<1> QED
  BY <1>6, <1>7, <1>8, <1>9 DEF FrameInv

(* What a read puts behind the bytes in m_msg.                             *)
LEMMA PutJoins ==
    ASSUME NEW m \in MsgPack, NEW w \in Nat, NEW p \in Seq(Byte), w + Len(p) <= MsgSize
    PROVE  HeldOf(Put(m, w, p), w + Len(p)) = HeldOf(m, w) \o p
<1> DEFINE a == [i \in 1 .. w |-> m[i - 1]]
           q == Put(m, w, p)
           c == [i \in 1 .. w + Len(p) |-> q[i - 1]]
<1>1. Len(p) \in Nat /\ MsgSize \in Nat
  BY SizeFacts
<1>2. /\ q \in MsgPack
      /\ \A i \in 1 .. w + Len(p) : q[i - 1] = IF i <= w THEN m[i - 1] ELSE p[i - w]
  <2>1. q \in MsgPack
    BY PutType
  <2>2. ASSUME NEW i \in 1 .. w + Len(p)
        PROVE  q[i - 1] = IF i <= w THEN m[i - 1] ELSE p[i - w]
    <3>1. i - 1 \in 0 .. MsgSize - 1 /\ i - 1 - w + 1 = i - w
      BY <1>1
    <3>2. q[i - 1] = IF w <= i - 1 /\ i - 1 < w + Len(p) THEN p[i - 1 - w + 1] ELSE m[i - 1]
      BY <3>1 DEF Put
    <3>3. (w <= i - 1 /\ i - 1 < w + Len(p)) <=> ~(i <= w)
      BY <1>1
    <3> HIDE DEF q
    <3> QED
      BY <3>1, <3>2, <3>3
  <2> QED
    BY <2>1, <2>2
<1> HIDE DEF q
<1>3. a \in Seq(Byte) /\ Len(a) = w /\ c \in Seq(Byte) /\ Len(c) = w + Len(p)
  <2>1. ASSUME NEW x \in MsgPack, NEW i \in 1 .. w + Len(p) PROVE x[i - 1] \in Byte
    <3>1. i - 1 \in 0 .. MsgSize - 1
      BY <1>1
    <3> QED
      BY <3>1 DEF MsgPack
  <2>2. a \in [1 .. w -> Byte] /\ c \in [1 .. w + Len(p) -> Byte]
    <3>1. \A i \in 1 .. w : i \in 1 .. w + Len(p)
      BY <1>1
    <3>2. \A i \in 1 .. w : m[i - 1] \in Byte
      BY <2>1, <3>1
    <3>3. \A i \in 1 .. w + Len(p) : q[i - 1] \in Byte
      BY <1>2, <2>1
    <3> QED
      BY <3>2, <3>3
  <2>3. \A n \in Nat : \A x \in [1 .. n -> Byte] : x \in Seq(Byte) /\ Len(x) = n
    OBVIOUS
  <2>4. w + Len(p) \in Nat
    BY <1>1
  <2> HIDE DEF a, c
  <2> QED
    BY <2>2, <2>3, <2>4
<1>4. \A i \in 1 .. w : a[i] = m[i - 1]
  OBVIOUS
<1>5. \A i \in 1 .. w + Len(p) : c[i] = q[i - 1]
  OBVIOUS
<1> DEFINE d == a \o p
<1> HIDE DEF a, c
<1>6. /\ d \in Seq(Byte) /\ Len(d) = w + Len(p)
      /\ \A i \in 1 .. w + Len(p) : d[i] = IF i <= w THEN a[i] ELSE p[i - w]
  BY <1>3, ConcatProperties
<1> HIDE DEF d
<1>7. ASSUME NEW i \in 1 .. w + Len(p) PROVE c[i] = d[i]
  <2>1. c[i] = IF i <= w THEN m[i - 1] ELSE p[i - w]
    BY <1>2, <1>5
  <2>2. d[i] = IF i <= w THEN a[i] ELSE p[i - w]
    BY <1>6
  <2>3. i <= w => a[i] = m[i - 1]
    BY <1>4
  <2> QED
    BY <2>1, <2>2, <2>3
<1>8. c = d
  <2>1. Len(c) = Len(d) /\ \A i \in 1 .. Len(c) : c[i] = d[i]
    BY <1>3, <1>6, <1>7
  <2>2. c \in Seq(Byte) /\ d \in Seq(Byte)
    BY <1>3, <1>6
  <2> QED
    BY <2>1, <2>2, SeqEqual, Zenon
<1> QED
  BY <1>8 DEF HeldOf, c, d, a, q

(* They are the bytes that were to come.                                   *)
LEMMA PieceMoves ==
    ASSUME NEW m \in MsgPack, NEW w \in Nat, NEW p \in Seq(Byte), NEW t \in Seq(Byte),
           NEW v \in Seq(Byte), w + Len(p) <= MsgSize
    PROVE  HeldOf(Put(m, w, p), w + Len(p)) \o (t \o v) = HeldOf(m, w) \o ((p \o t) \o v)
<1> DEFINE a == HeldOf(m, w)
           c == t \o v
<1>1. a \in Seq(Byte) /\ c \in Seq(Byte)
  <2>1. Len(p) \in Nat /\ w <= MsgSize
    BY SizeFacts
  <2> QED
    BY <2>1, HeldTypes, JoinFacts
<1>2. (p \o t) \o v = p \o c
  BY JoinMoves
<1>3. HeldOf(Put(m, w, p), w + Len(p)) = a \o p
  BY PutJoins
<1> HIDE DEF a, c
<1>4. a \o (p \o c) = (a \o p) \o c
  BY <1>1, JoinMoves
<1> QED
  BY <1>2, <1>3, <1>4 DEF a, c

LEMMA ReadHeadFrames == ASSUME FrameInv, ReadHead, StreamInv' PROVE FrameInv'
<1> DEFINE n == Lesser(Len(h.in), HEAD_LEN - r.wlen)
           p == SubSeq(h.in, 1, n)
           t == SubSeq(h.in, n + 1, Len(h.in))
<1>1. /\ h.pc = "loop" /\ r.wlen < HEAD_LEN
      /\ r' = [r EXCEPT !.msg = Put(r.msg, r.wlen, p), !.wlen = r.wlen + n]
      /\ h' = [h EXCEPT !.in = t] /\ UNCHANGED <<s, wire, sent, got, torn>>
  BY DEF ReadHead
<1>2. /\ r.msg \in MsgPack /\ r.wlen \in Nat /\ r \in Receiver /\ h.in \in Seq(Byte)
      /\ h \in Handler /\ wire \in Seq(Byte)
  BY FrameTypes DEF FrameInv
<1>3. n \in 0 .. Len(h.in) /\ r.wlen + n <= 4
  <2>1. Len(h.in) \in Nat /\ r.wlen \in Nat /\ r.wlen < 4
    BY <1>1, <1>2 DEF HEAD_LEN
  <2> QED
    BY <2>1 DEF Lesser, HEAD_LEN
<1> HIDE DEF n
<1>4. p \in Seq(Byte) /\ Len(p) = n /\ t \in Seq(Byte) /\ p \o t = h.in
  BY <1>2, <1>3, CutFacts
<1> HIDE DEF p, t
<1>5. /\ r'.msg = Put(r.msg, r.wlen, p) /\ r'.wlen = r.wlen + n
      /\ h'.pc = "loop" /\ h'.in = t
  BY <1>1, <1>2 DEF Receiver, Handler
<1>6. Coming(r.msg)' = Coming(r.msg)
  <2>1. r.wlen + Len(p) <= MsgSize /\ r'.wlen = r.wlen + Len(p)
    BY <1>2, <1>3, <1>4, <1>5, SizeFacts
  <2>2. HeldOf(Put(r.msg, r.wlen, p), r.wlen + Len(p)) \o (t \o wire)
           = HeldOf(r.msg, r.wlen) \o ((p \o t) \o wire)
    <3>1. /\ r.msg \in MsgPack /\ r.wlen \in Nat /\ p \in Seq(Byte) /\ t \in Seq(Byte)
          /\ wire \in Seq(Byte) /\ r.wlen + Len(p) <= MsgSize
      BY <1>2, <1>4, <2>1
    <3> QED
      BY <3>1, PieceMoves, ZenonT(40)
  <2> QED
    BY <1>1, <1>4, <1>5, <2>1, <2>2 DEF Coming
<1>7. InOrder
  BY <1>1, <1>2 DEF FrameInv, Down, AtRecv, Swapped, Wild, HEAD_LEN
<1>8. InOrder'
  <2>1. ~(r'.wlen > 4)
    BY <1>2, <1>3, <1>5
  <2>2. Waiting(r.msg)'
    BY <1>1, <1>5, <1>6, <1>7 DEF InOrder, Waiting
  <2> QED
    BY <2>1, <2>2 DEF InOrder, HEAD_LEN
<1> QED
  BY <1>1, <1>5, <1>8 DEF FrameInv, Agrees

LEMMA PayloadLen == ASSUME NEW f \in Payload PROVE Len(f) \in 0 .. MAX_MSG_DATA_LEN
<1>1. PICK n \in 0 .. MAX_MSG_DATA_LEN : f \in [1 .. n -> Byte]
  BY DEF Payload
<1>2. n \in Nat
  BY SizeFacts
<1>3. \A x \in [1 .. n -> Byte] : Len(x) = n
  BY <1>2
<1> QED
  BY <1>1, <1>3

(* A complete header in m_msg is that of the next message, and what comes  *)
(* behind it is its body.                                                  *)
LEMMA HeaderIsNext ==
    ASSUME NEW m \in MsgPack, NEW w \in Nat, HEAD_LEN <= w, w <= MsgSize,
           NEW b \in Seq(Byte), NEW ms \in Seq(Payload), NEW g \in 0 .. Len(ms), NEW all,
           Lined(HeldOf(m, w) \o b, g, ms, all), NEW f, f = ms[g + 1]
    PROVE  /\ g < Len(ms) /\ f \in Payload /\ HostLen(HtoNL(m)) = Len(f)
           /\ \A k \in 1 .. Len(f) : HEAD_LEN + k <= w => m[HEAD_LEN + k - 1] = f[k]
<1> DEFINE a == HeldOf(m, w)
           c == a \o b
<1>1. a \in Seq(Byte) /\ Len(a) = w
  BY HeldTypes
<1>2. \A k \in 1 .. w : a[k] = m[k - 1]
  BY DEF HeldOf
<1>3. Lined(c, g, ms, all)
  OBVIOUS
<1> HIDE DEF a
<1>4. /\ c \in Seq(Byte) /\ Len(c) = w + Len(b) /\ Len(b) \in Nat
      /\ \A k \in 1 .. w : c[k] = a[k]
  <2>1. /\ c \in Seq(Byte) /\ Len(c) = Len(a) + Len(b) /\ Len(b) \in Nat
        /\ \A k \in 1 .. Len(a) : c[k] = a[k]
    BY <1>1, JoinFacts
  <2> HIDE DEF c
  <2> QED
    BY <1>1, <2>1
<1> HIDE DEF c
<1>5. HEAD_LEN = 4 /\ Len(c) > 0 /\ Len(c) \in Nat
  BY <1>4, SizeFacts
<1>6. /\ g < Len(ms) /\ f \in Payload
      /\ \A k \in 1 .. HEAD_LEN + Len(f) : k <= Len(c) => c[k] = Frame(f, << >>)[k]
  BY <1>3, <1>4, <1>5, LinedFirst
<1>7. Len(f) \in 0 .. MAX_MSG_DATA_LEN /\ Len(f) \in Nat
  BY <1>6, PayloadLen, SizeFacts
<1>8. ASSUME NEW k \in 1 .. HEAD_LEN + Len(f), k <= w
      PROVE  m[k - 1] = Frame(f, << >>)[k]
  <2>1. k \in 1 .. w /\ k <= Len(c)
    BY <1>4, <1>5, <1>7, <1>8
  <2> QED
    BY <1>2, <1>4, <1>6, <2>1
<1>9. /\ \A k \in 1 .. HEAD_LEN : Frame(f, << >>)[k] = NetBytes(Len(f))[k]
      /\ \A k \in 1 .. Len(f) : Frame(f, << >>)[HEAD_LEN + k] = f[k]
  BY <1>6, FrameBytes
<1>10. \A k \in 1 .. HEAD_LEN : m[k - 1] = NetBytes(Len(f))[k]
  <2> SUFFICES ASSUME NEW k \in 1 .. 4 PROVE m[k - 1] = NetBytes(Len(f))[k]
    BY <1>5
  <2>1. k \in 1 .. HEAD_LEN + Len(f) /\ k <= w
    BY <1>5, <1>7
  <2> QED
    BY <1>5, <1>8, <1>9, <2>1
<1>11. HostLen(HtoNL(m)) = Len(f)
  BY <1>7, <1>10, LengthOnce
<1>12. ASSUME NEW k \in 1 .. Len(f), HEAD_LEN + k <= w PROVE m[HEAD_LEN + k - 1] = f[k]
  <2>1. HEAD_LEN + k \in 1 .. HEAD_LEN + Len(f)
    BY <1>5, <1>7
  <2>2. m[HEAD_LEN + k - 1] = Frame(f, << >>)[HEAD_LEN + k]
    <3> DEFINE j == HEAD_LEN + k
    <3>1. j \in 1 .. HEAD_LEN + Len(f) /\ j <= w /\ j - 1 = HEAD_LEN + k - 1
      BY <1>5, <1>12, <2>1
    <3> HIDE DEF j
    <3>2. m[j - 1] = Frame(f, << >>)[j]
      BY <1>8, <3>1, Zenon
    <3> QED
      BY <3>1, <3>2 DEF j
  <2> QED
    BY <1>9, <2>2
<1> QED
  BY <1>6, <1>11, <1>12

(* A body that completes a message: OnRecv gets the next one, and what is  *)
(* left are the frames of the others.  The header of q is that of a valid  *)
(* length, so reversed it is what was sent.                                *)
LEMMA BodyComplete ==
    ASSUME NEW q \in MsgPack, NEW w \in Nat, HEAD_LEN <= w, w <= MsgSize,
           NEW b \in Seq(Byte), NEW ms \in Seq(Payload), NEW g \in 0 .. Len(ms), NEW all,
           Lined(HeldOf(HtoNL(q), w) \o b, g, ms, all), NEW f, f = ms[g + 1],
           w = HEAD_LEN + Len(f)
    PROVE  Data(q) = f /\ Lined(b, g + 1, ms, all)
<1> DEFINE m == HtoNL(q)
           a == HeldOf(m, w)
           c == a \o b
<1>1. m \in MsgPack /\ HtoNL(m) = q /\ HEAD_LEN = 4
      /\ \A i \in 4 .. MsgSize - 1 : m[i] = q[i]
  <2>1. HEAD_LEN = 4
    BY SizeFacts
  <2> QED
    BY <2>1, HtoNLType, ReversedTwice, HtoNLBytes
<1> HIDE DEF m
<1>2. Lined(c, g, ms, all)
  BY DEF m
<1>3. /\ g < Len(ms) /\ f \in Payload /\ HostLen(q) = Len(f)
      /\ \A k \in 1 .. Len(f) : HEAD_LEN + k <= w => m[HEAD_LEN + k - 1] = f[k]
  BY <1>1, <1>2, HeaderIsNext
<1>4. a \in Seq(Byte) /\ Len(a) = w
  BY <1>1, HeldTypes
<1>5. Len(f) \in 0 .. MAX_MSG_DATA_LEN /\ f \in Seq(Byte) /\ Len(f) \in Nat
  BY <1>3, PayloadLen, PayloadSeq
<1>6. Data(q) = f
  <2>1. ASSUME NEW k \in 1 .. Len(f) PROVE q[HEAD_LEN + k - 1] = f[k]
    <3>1. /\ HEAD_LEN + k - 1 \in 4 .. MsgSize - 1 /\ HEAD_LEN + k <= w
      BY <1>1, <1>5, SizeFacts
    <3> QED
      BY <1>1, <1>3, <3>1
  <2>2. Lesser(HostLen(q), MAX_MSG_DATA_LEN) = Len(f)
    BY <1>3, <1>5, SizeFacts DEF Lesser
  <2>3. Data(q) = [k \in 1 .. Len(f) |-> f[k]]
    BY <2>1, <2>2 DEF Data
  <2>4. f = [k \in 1 .. Len(f) |-> f[k]]
    BY <1>5
  <2> QED
    BY <2>3, <2>4
<1> HIDE DEF a
<1>7. /\ c \in Seq(Byte) /\ Len(c) = w + Len(b)
      /\ \A j \in 1 .. Len(b) : c[w + j] = b[j]
  <2>1. /\ c \in Seq(Byte) /\ Len(c) = Len(a) + Len(b)
        /\ \A j \in 1 .. Len(b) : c[Len(a) + j] = b[j]
    BY <1>4, JoinFacts
  <2> HIDE DEF c
  <2> QED
    BY <1>4, <2>1
<1> HIDE DEF c
<1>8. w = HEAD_LEN + Len(ms[g + 1]) /\ \A j \in 1 .. Len(b) : b[j] = c[w + j]
  BY <1>7
<1>9. Lined(b, g + 1, ms, all)
  BY <1>2, <1>3, <1>7, <1>8, LinedNext
<1> QED
  BY <1>6, <1>9

(* As many bytes as there are, if not as many as are needed.               *)
LEMMA LesserIs ==
    ASSUME NEW a \in Nat, NEW b \in Int, b >= 0
    PROVE  /\ Lesser(a, b) \in 0 .. a /\ Lesser(a, b) <= b
           /\ Lesser(a, b) # b => Lesser(a, b) < b /\ Lesser(a, b) = a
  BY DEF Lesser

(* ReadBody completes a message, tears one, goes on with a torn one, or    *)
(* disconnects or writes behind m_msg because of a torn one.               *)
LEMMA ReadBodyFrames ==
    ASSUME FrameInv, ReadBody, StreamInv'
    PROVE  FrameInv' /\ (r.up /\ ~r'.up => torn)
<1> DEFINE m     == HtoNL(r.msg)
           w     == r.wlen
           need  == NeedToRead(m, w)
           n     == Lesser(Len(h.in), need)
           p     == SubSeq(h.in, 1, n)
           t     == SubSeq(h.in, n + 1, Len(h.in))
           b     == h.in \o wire
           g     == Len(got)
           f     == sent[g + 1]
<1>1. /\ h.pc = "loop" /\ h.in # << >> /\ w >= HEAD_LEN
      /\ UNCHANGED <<s, wire, sent, conns>>
  BY DEF ReadBody
<1>2. /\ r \in Receiver /\ w \in Nat /\ r.msg \in MsgPack /\ w <= MsgSize
      /\ h.in \in Seq(Byte) /\ Len(h.in) \in Nat /\ Len(h.in) > 0
      /\ g \in 0 .. Len(sent) /\ sent \in Seq(Payload) /\ got \in Seq(Payload)
      /\ wire \in Seq(Byte) /\ b \in Seq(Byte) /\ HEAD_LEN = 4
  <2>1. h.in \in Seq(Byte) /\ h.in # << >>
    BY <1>1, FrameTypes DEF FrameInv
  <2>2. Len(h.in) \in Nat /\ Len(h.in) > 0
    BY <2>1, EmptySeq
  <2>3. w <= MsgSize
    BY <1>1, FrameTypes DEF FrameInv
  <2> QED
    BY <2>2, <2>3, FrameTypes DEF FrameInv, HEAD_LEN
<1>3. /\ m \in MsgPack /\ HtoNL(m) = r.msg /\ HostLen(m) \in Int
      /\ need \in Int
      /\ \A x \in Seq(Byte) : HtoNL(Put(m, w, x)) = Put(r.msg, w, x)
  <2>1. m \in MsgPack /\ HtoNL(m) = r.msg
    BY <1>2, HtoNLType, ReversedTwice
  <2> HIDE DEF m
  <2>2. HostLen(m) \in Int
    BY <2>1, HostLenInt
  <2>3. need \in Int
    <3>1. HostLen(m) + HEAD_LEN - w \in Int
      BY <1>2, <2>2
    <3> QED
      BY <3>1, WrappedInt DEF NeedToRead
  <2>4. \A x \in Seq(Byte) : HtoNL(Put(m, w, x)) = Put(r.msg, w, x)
    BY <1>1, <1>2, <2>1, ReversedTwice
  <2> QED
    BY <2>1, <2>2, <2>3, <2>4
<1>4. InOrder \/ Swapped
  BY <1>1 DEF FrameInv, Down, AtRecv, Wild
<1> HIDE DEF m
<1>5. ASSUME InOrder
      PROVE  /\ g < Len(sent) /\ f \in Payload /\ Len(f) \in 0 .. MAX_MSG_DATA_LEN
             /\ need = Len(f) + 4 - w /\ ~TooBig(m) /\ (w > 4 => torn)
             /\ Lined(HeldOf(r.msg, w) \o b, g, sent, s.up)
  <2>1. Lined(HeldOf(r.msg, w) \o b, g, sent, s.up) /\ (w > 4 => torn)
    BY <1>5, <1>2 DEF InOrder, Waiting, Coming
  <2>2. g < Len(sent) /\ f \in Payload /\ HostLen(m) = Len(f)
    <3> HIDE DEF b, w, g
    <3> QED
      BY <1>1, <1>2, <2>1, HeaderIsNext DEF m
  <2>3. Len(f) \in 0 .. MAX_MSG_DATA_LEN
    BY <2>2, PayloadLen
  <2> HIDE DEF f
  <2>4. HostLen(m) <= MAX_MSG_DATA_LEN /\ HostLen(m) >= 0 /\ ~TooBig(m)
    BY <2>2, <2>3, SizeFacts DEF TooBig
  <2>5. need = Len(f) + 4 - w
    BY <1>1, <1>2, <1>3, <2>2, <2>4, NeedExact
  <2> QED
    BY <2>1, <2>2, <2>3, <2>4, <2>5
<1>6. ASSUME Swapped
      PROVE  /\ g < Len(sent) /\ f \in Payload /\ HostLen(r.msg) = Len(f)
             /\ Valid(r.msg) /\ w > 4 /\ torn
             /\ Lined(HeldOf(m, w) \o b, g, sent, s.up)
  <2>1. Lined(HeldOf(m, w) \o b, g, sent, s.up) /\ w > 4 /\ torn
    BY <1>6, <1>2 DEF Swapped, Waiting, Coming, m
  <2>2. g < Len(sent) /\ f \in Payload /\ HostLen(r.msg) = Len(f)
    <3> HIDE DEF b, w, g
    <3>1. g < Len(sent) /\ f \in Payload /\ HostLen(HtoNL(m)) = Len(f)
      BY <1>1, <1>2, <1>3, <2>1, HeaderIsNext
    <3> QED
      BY <1>3, <3>1
  <2>3. Valid(r.msg)
    BY <2>2, PayloadLen DEF Valid
  <2> QED
    BY <2>1, <2>2, <2>3
<1>7. ASSUME Swapped, ~TooBig(m), need >= 0
      PROVE  Len(f) = HalfByte /\ w + need > MsgSize
  <2> HIDE DEF f
  <2> QED
    BY <1>2, <1>6, <1>7, ReversedNeeds DEF m
<1> HIDE DEF need, f, b
<1>8. CASE /\ TooBig(m) \/ need < 0
           /\ r' = DisConnect([r EXCEPT !.msg = m])
           /\ h' = Idle
           /\ UNCHANGED <<got, torn>>
  <2>1. torn
    BY <1>2, <1>4, <1>5, <1>6, <1>8
  <2>2. r'.up = FALSE /\ h'.pc = "idle" /\ h'.in = << >>
    BY <1>2, <1>8 DEF DisConnect, Receiver, Idle
  <2>3. Agrees'
    BY <1>1, <1>8 DEF FrameInv, Agrees
  <2> QED
    BY <2>1, <2>2, <2>3 DEF FrameInv, Down
<1>9. CASE /\ ~TooBig(m) /\ need >= 0 /\ w + n > MsgSize
           /\ r' = [r EXCEPT !.msg = m, !.wlen = w + n]
           /\ h' = [pc |-> "wild", in |-> << >>]
           /\ UNCHANGED <<got, torn>>
  <2>1. ~InOrder
    <3> SUFFICES ASSUME InOrder PROVE FALSE
      OBVIOUS
    <3>1. n <= need
      BY <1>2, <1>3 DEF Lesser
    <3>2. n \in Int
      BY <1>2, <1>3 DEF Lesser
    <3>3. w + n > MsgSize
      BY <1>9
    <3> HIDE DEF n
    <3>4. w + n <= 4 + MAX_MSG_DATA_LEN
      BY <1>2, <1>3, <1>5, <3>1, <3>2, SizeFacts
    <3> QED
      BY <1>2, <3>2, <3>3, <3>4, SizeFacts
  <2>2. g < Len(sent) /\ Len(f) = HalfByte
    BY <1>4, <1>6, <1>7, <1>9, <2>1
  <2>3. r'.up = r.up /\ h'.pc = "wild" /\ Agrees'
    BY <1>1, <1>2, <1>9 DEF FrameInv, Agrees, Receiver
  <2>4. Wild'
    BY <1>1, <1>9, <2>2, <2>3 DEF Wild, f, HalfByte
  <2> QED
    BY <2>3, <2>4 DEF FrameInv
<1>10. CASE /\ ~TooBig(m) /\ need >= 0 /\ w + n <= MsgSize
            /\ r' = [r EXCEPT !.msg = Put(m, w, p), !.wlen = w + n]
            /\ h' = [pc |-> IF n = need THEN "onrecv" ELSE "loop", in |-> t]
            /\ got' = IF n = need THEN Append(got, Data(r'.msg)) ELSE got
            /\ torn' = (torn \/ n < need)
  <2> DEFINE q == Put(m, w, p)
             v == t \o wire
  <2>1. n \in 0 .. Len(h.in) /\ n <= need /\ (n # need => n < need /\ n = Len(h.in))
    BY <1>2, <1>3, <1>10, LesserIs
  <2>2. w + n <= MsgSize
    BY <1>10
  <2> HIDE DEF n
  <2>3. p \in Seq(Byte) /\ Len(p) = n /\ t \in Seq(Byte) /\ p \o t = h.in
    BY <1>2, <2>1, CutFacts
  <2> HIDE DEF p, t
  <2>4. /\ r'.msg = q /\ r'.wlen = w + n /\ r'.up = r.up
        /\ h'.in = t /\ h'.pc = IF n = need THEN "onrecv" ELSE "loop"
    BY <1>2, <1>10 DEF Receiver
  <2>5. HtoNL(q) = Put(r.msg, w, p) /\ q \in MsgPack
    BY <1>2, <1>3, <2>3, PutType
  <2>6. ASSUME NEW x \in MsgPack
        PROVE  HeldOf(Put(x, w, p), w + n) \o v = HeldOf(x, w) \o b
    <3>1. /\ w \in Nat /\ p \in Seq(Byte) /\ t \in Seq(Byte) /\ wire \in Seq(Byte)
          /\ w + Len(p) <= MsgSize
      BY <1>2, <2>2, <2>3
    <3>2. HeldOf(Put(x, w, p), w + Len(p)) \o (t \o wire) = HeldOf(x, w) \o ((p \o t) \o wire)
      <4> HIDE DEF w
      <4> QED
        BY <3>1, PieceMoves, ZenonT(40)
    <3> QED
      BY <2>3, <3>2 DEF b
  <2>7. v \in Seq(Byte)
    BY <1>2, <2>3, JoinFacts
  <2> HIDE DEF q, w
  <2>8. InOrder => Lined(HeldOf(HtoNL(q), w + n) \o v, g, sent, s.up)
    BY <1>2, <1>5, <2>5, <2>6
  <2>9. Swapped => Lined(HeldOf(q, w + n) \o v, g, sent, s.up)
    BY <1>3, <1>6, <2>6 DEF q
  <2>10. CASE n = need
    <3>1. InOrder
      BY <1>4, <1>7, <1>10, <2>10, <2>2, <1>2, <1>3, SizeFacts
    <3>2. w + n = HEAD_LEN + Len(f) /\ w + n \in Nat /\ HEAD_LEN <= w + n
      <4>1. Len(f) \in Nat
        BY <1>5, <3>1, SizeFacts
      <4> QED
        BY <1>2, <1>5, <2>10, <3>1, <4>1
    <3>3. Data(q) = f /\ Lined(v, g + 1, sent, s.up)
      <4> DEFINE w2 == w + n
      <4>1. w2 \in Nat /\ HEAD_LEN <= w2 /\ w2 <= MsgSize /\ w2 = HEAD_LEN + Len(f)
        BY <2>2, <3>2
      <4>2. Lined(HeldOf(HtoNL(q), w2) \o v, g, sent, s.up)
        BY <2>8, <3>1
      <4>3. f = sent[g + 1]
        BY DEF f
      <4> HIDE DEF w2, v, g
      <4> QED
        BY <1>2, <2>5, <2>7, <4>1, <4>2, <4>3, BodyComplete
    <3>4. got' = Append(got, f) /\ h'.pc = "onrecv"
      BY <1>10, <2>4, <2>10, <3>3
    <3>5. /\ Len(got') = g + 1 /\ got'[g + 1] = f
          /\ \A i \in 1 .. g : got'[i] = got[i]
      BY <1>2, <1>5, <3>1, <3>4, AppendProperties
    <3>6. Agrees'
      <4>1. Len(got') <= Len(sent)
        BY <1>2, <1>5, <3>1, <3>5
      <4>2. \A i \in 1 .. g + 1 : i \in 1 .. g \/ i = g + 1
        <5> HIDE DEF g
        <5> QED
          BY <1>2
      <4>3. \A i \in 1 .. g + 1 : got'[i] = sent[i]
        BY <3>5, <4>2 DEF FrameInv, Agrees, f
      <4> QED
        BY <1>1, <3>5, <4>1, <4>3 DEF Agrees
    <3>7. AtRecv'
      BY <1>1, <2>4, <3>3, <3>4, <3>5 DEF AtRecv
    <3> QED
      BY <2>4, <3>4, <3>6, <3>7 DEF FrameInv
  <2>11. CASE n # need
    <3>1. h'.pc = "loop" /\ got' = got /\ torn'
      <4>1. h'.pc = "loop"
        BY <2>4, <2>11
      <4>2. got' = got
        BY <1>10, <2>11, Zenon
      <4>3. n < need
        BY <2>1, <2>11
      <4>4. torn'
        BY <1>10, <4>3, Zenon
      <4> QED
        BY <4>1, <4>2, <4>4
    <3>2. r'.wlen > 4
      <4>1. w \in Nat /\ w >= 4 /\ n \in Nat /\ n > 0
        BY <1>1, <1>2, <2>1, <2>11
      <4> QED
        BY <2>4, <4>1
    <3>3. /\ Coming(r.msg)' = HeldOf(q, w + n) \o v
          /\ Coming(HtoNL(r.msg))' = HeldOf(HtoNL(q), w + n) \o v
      BY <1>1, <2>4 DEF Coming
    <3>4. InOrder => Swapped'
      <4>1. InOrder => Waiting(HtoNL(r.msg))'
        BY <1>1, <2>8, <3>1, <3>3 DEF Waiting
      <4> QED
        BY <1>2, <3>1, <3>2, <4>1 DEF Swapped, HEAD_LEN
    <3>5. Swapped => InOrder'
      <4>1. Swapped => Waiting(r.msg)'
        BY <1>1, <2>9, <3>1, <3>3 DEF Waiting
      <4> QED
        BY <3>1, <4>1 DEF InOrder
    <3>6. Agrees'
      BY <1>1, <3>1 DEF FrameInv, Agrees
    <3> QED
      BY <1>4, <2>4, <3>1, <3>4, <3>5, <3>6 DEF FrameInv
  <2> QED
    BY <2>10, <2>11
<1> QED
  BY <1>8, <1>9, <1>10 DEF ReadBody, m, need


LEMMA HeldEmpty ==
    ASSUME NEW m, NEW b \in Seq(Byte)
    PROVE  HeldOf(m, 0) = << >> /\ HeldOf(m, 0) \o b = b
<1>1. HeldOf(m, 0) = << >>
  BY DEF HeldOf
<1>2. << >> \o b = b
  BY JoinFacts
<1> QED
  BY <1>1, <1>2

LEMMA OnRecvReturnsFrames == ASSUME FrameInv, OnRecvReturns, StreamInv' PROVE FrameInv'
<1>1. /\ h.pc = "onrecv" /\ r' = AfterRecv(r) /\ h' = [h EXCEPT !.pc = "loop"]
      /\ UNCHANGED <<s, wire, sent, got, torn>>
  BY DEF OnRecvReturns
<1>2. r'.wlen = 0 /\ h'.pc = "loop" /\ h'.in = h.in
  BY <1>1, AfterRecvType DEF FrameInv, StreamInv, TypeOK
<1>3. Coming(r.msg)' = h.in \o wire
  <2>1. h.in \o wire \in Seq(Byte)
    BY FrameTypes DEF FrameInv
  <2>2. HeldOf(r'.msg, 0) \o (h.in \o wire) = h.in \o wire
    BY <2>1, HeldEmpty
  <2> QED
    BY <1>1, <1>2, <2>2 DEF Coming
<1>4. AtRecv
  BY <1>1 DEF FrameInv, Down, InOrder, Swapped, Waiting, Wild
<1>5. Waiting(r.msg)' /\ ~(r'.wlen > 4)
  BY <1>1, <1>2, <1>3, <1>4 DEF AtRecv, Waiting
<1> QED
  BY <1>1, <1>2, <1>5 DEF FrameInv, Agrees, InOrder, HEAD_LEN

LEMMA LoopEndsFrames == ASSUME FrameInv, LoopEnds, StreamInv' PROVE FrameInv'
<1>1. /\ h.pc = "loop" /\ h.in = << >> /\ h'.pc = "idle" /\ h'.in = << >>
      /\ UNCHANGED <<s, wire, r, sent, got, torn>>
  BY DEF LoopEnds, Idle
<1>2. /\ Coming(r.msg)' = Coming(r.msg)
      /\ Coming(HtoNL(r.msg))' = Coming(HtoNL(r.msg))
  BY <1>1 DEF Coming
<1>3. InOrder \/ Swapped
  BY <1>1 DEF FrameInv, Down, AtRecv, Wild
<1>4. InOrder => InOrder'
  BY <1>1, <1>2 DEF InOrder, Waiting, HEAD_LEN
<1>5. Swapped => Swapped'
  BY <1>1, <1>2 DEF Swapped, Waiting, HEAD_LEN
<1> QED
  BY <1>1, <1>3, <1>4, <1>5 DEF FrameInv, Agrees

LEMMA ReceiverDownFrames == ASSUME FrameInv, ReceiverDown, StreamInv' PROVE FrameInv'
<1>1. /\ h.pc \in {"idle", "onrecv"} /\ r' = DisConnect(r)
      /\ UNCHANGED <<s, wire, h, sent, got, torn>>
  BY DEF ReceiverDown
<1>2. r'.up = FALSE
  BY <1>1, FrameTypes DEF FrameInv, DisConnect, Receiver
<1>3. CASE h.pc = "idle"
  BY <1>1, <1>2, <1>3 DEF FrameInv, Agrees, Down
<1>4. CASE h.pc = "onrecv"
  <2>1. AtRecv
    BY <1>4 DEF FrameInv, Down, InOrder, Swapped, Waiting, Wild
  <2>2. AtRecv'
    BY <1>1, <2>1 DEF AtRecv
  <2> QED
    BY <1>1, <1>4, <2>2 DEF FrameInv, Agrees
<1> QED
  BY <1>1, <1>3, <1>4

(* A new object on a new connection has nothing in m_msg.                  *)
LEMMA ReconnectFrames == ASSUME FrameInv, Reconnect, Accepted, StreamInv' PROVE FrameInv'
<1>1. /\ h.pc = "idle" /\ h' = h /\ r' = FreshReceiver /\ s' = FreshSender
      /\ wire' = << >> /\ sent' = << >> /\ got' = << >>
  BY DEF Reconnect
<1>2. h.in = << >> /\ r'.wlen = 0 /\ s'.up = TRUE
  BY <1>1, FreshReceiverType DEF FrameInv, FreshSender
<1>3. Coming(r.msg)' = << >>
  <2>1. << >> \o << >> = << >> /\ << >> \in Seq(Byte)
    OBVIOUS
  <2>2. HeldOf(r'.msg, 0) \o << >> = << >>
    BY <2>1, HeldEmpty
  <2> QED
    BY <1>1, <1>2, <2>1, <2>2 DEF Coming
<1>4. Lined(<< >>, 0, << >>, TRUE)
  <2>1. << >> \in Seq(Payload) /\ Len(<< >>) = 0
    OBVIOUS
  <2> QED
    BY <2>1, LinedNone
<1>5. InOrder'
  <2>1. Len(got') = 0 /\ ~(r'.wlen > 4) /\ h'.pc = "idle"
    BY <1>1, <1>2
  <2>2. Lined(Coming(r.msg)', Len(got'), sent', s'.up)
    BY <1>1, <1>2, <1>3, <1>4, <2>1, Zenon
  <2> QED
    BY <2>1, <2>2 DEF InOrder, Waiting, HEAD_LEN
<1>6. Agrees'
  BY <1>1 DEF Agrees
<1> QED
  BY <1>1, <1>2, <1>5, <1>6 DEF FrameInv

LEMMA FrameInit == Init => FrameInv
<1> SUFFICES ASSUME Init PROVE FrameInv
  OBVIOUS
<1>1. /\ h.pc = "idle" /\ h.in = << >> /\ r.wlen = 0 /\ s.up = TRUE
      /\ wire = << >> /\ sent = << >> /\ got = << >>
  BY FreshReceiverType DEF Init, Idle, FreshSender
<1>2. Coming(r.msg) = << >>
  <2>1. << >> \o << >> = << >> /\ << >> \in Seq(Byte)
    OBVIOUS
  <2> QED
    BY <1>1, <2>1, HeldEmpty DEF Coming
<1>3. Lined(<< >>, 0, << >>, TRUE)
  <2>1. << >> \in Seq(Payload) /\ Len(<< >>) = 0
    OBVIOUS
  <2> QED
    BY <2>1, LinedNone
<1>4. InOrder
  <2>1. Len(got) = 0 /\ ~(r.wlen > 4) /\ h.pc = "idle"
    BY <1>1
  <2>2. Lined(Coming(r.msg), Len(got), sent, s.up)
    BY <1>1, <1>2, <1>3, <2>1, Zenon
  <2> QED
    BY <2>1, <2>2 DEF InOrder, Waiting, HEAD_LEN
<1>5. Agrees
  BY <1>1 DEF Agrees
<1> QED
  BY <1>1, <1>4, <1>5, StreamInit DEF FrameInv

LEMMA FrameNext ==
    ASSUME ~SendData, Accepted
    PROVE  FrameInv /\ [Next]_vars => FrameInv'
<1> SUFFICES ASSUME FrameInv, [Next]_vars PROVE FrameInv'
  OBVIOUS
<1>0. StreamInv'
  BY StreamNext DEF FrameInv
<1>1. CASE Send
  BY <1>0, <1>1, SendFrames
<1>2. CASE Flush
  BY <1>0, <1>2, FlushFrames
<1>3. CASE SenderEnds
  BY <1>0, <1>3, SenderDownFrames DEF SenderEnds
<1>4. CASE Arrive
  BY <1>0, <1>4, ArriveFrames
<1>5. CASE ReadHead
  BY <1>0, <1>5, ReadHeadFrames
<1>6. CASE ReadBody
  BY <1>0, <1>6, ReadBodyFrames
<1>7. CASE OnRecvReturns
  BY <1>0, <1>7, OnRecvReturnsFrames
<1>8. CASE LoopEnds
  BY <1>0, <1>8, LoopEndsFrames
<1>9. CASE ReceiverDown
  BY <1>0, <1>9, ReceiverDownFrames
<1>10. CASE Reconnect
  BY <1>0, <1>10, ReconnectFrames
<1>11. CASE UNCHANGED vars
  <2>1. UNCHANGED <<s, wire, r, h, sent, got, torn>>
    BY <1>11 DEF vars
  <2>2. wire' \in Seq(Byte) /\ Len(wire') <= Len(wire)
        /\ \A j \in 1 .. Len(wire') : wire'[j] = wire[j]
    BY <2>1 DEF FrameInv, StreamInv, TypeOK
  <2> QED
    BY <1>0, <2>1, <2>2, KeepsPhase
<1> QED
  BY <1>1, <1>2, <1>3, <1>4, <1>5, <1>6, <1>7, <1>8, <1>9, <1>10, <1>11
  DEF Next, ReadCallback

(* With well framed input and a new object for each connection OnRecv gets *)
(* the messages that were sent, unchanged and in order, whatever the split *)
(* of the bytes and wherever a connection is cut; until a split of a       *)
(* message of HalfByte bytes makes it write behind m_msg.                  *)
THEOREM FramesStayIntact ==
    ASSUME ~SendData, Accepted
    PROVE  Spec => []FramesIntact
<1>1. FrameInv => FramesIntact
  <2> SUFFICES ASSUME FrameInv PROVE FramesIntact
    OBVIOUS
  <2>1. /\ got \in Seq(Payload) /\ sent \in Seq(Payload)
        /\ Len(got) \in 0 .. Len(sent) /\ \A i \in 1 .. Len(got) : got[i] = sent[i]
    BY FrameTypes DEF FrameInv, Agrees
  <2> DEFINE b == SubSeq(sent, 1, Len(got))
  <2>2. /\ b \in Seq(Payload) /\ Len(b) = Len(got)
        /\ \A i \in 1 .. Len(got) : b[i] = sent[i]
    BY <2>1, SubSeqProperties
  <2> HIDE DEF b
  <2>3. got = b
    <3>1. \A i \in 1 .. Len(got) : got[i] = b[i]
      BY <2>1, <2>2
    <3> QED
      BY <2>1, <2>2, <3>1, SeqEqual
  <2>4. Len(got) <= Len(sent) /\ SubSeq(got, 1, Len(got)) = got
    BY <2>1, SubSeqFull
  <2> QED
    BY <2>3, <2>4 DEF FramesIntact, IsPrefix, b
<1> QED
  BY <1>1, FrameInit, FrameNext, PTL DEF Spec

(* With well framed input, a new object for each connection and no message *)
(* of HalfByte bytes nothing is ever written behind m_msg.                 *)
THEOREM SafeLengths ==
    ASSUME ~SendData, Accepted, \A m \in Bodies : Len(m) # HalfByte
    PROVE  Spec => []NoOverrun
<1>1. FrameInv => NoOverrun
  <2> SUFFICES ASSUME FrameInv PROVE NoOverrun
    OBVIOUS
  <2>1. h.pc # "wild" => r.wlen <= MsgSize
    BY FrameTypes DEF FrameInv
  <2>2. ASSUME h.pc = "wild" PROVE FALSE
    <3>1. Len(got) < Len(sent) /\ Len(sent[Len(got) + 1]) = HalfByte
      BY <2>2 DEF FrameInv, Down, InOrder, Swapped, Waiting, AtRecv, Wild
    <3>2. sent \in Seq(Bodies) /\ Len(got) \in Nat
      BY DEF FrameInv, StreamInv, TypeOK
    <3>3. sent[Len(got) + 1] \in Bodies
      BY <3>1, <3>2, ElementOfSeq
    <3> QED
      BY <3>1, <3>3
  <2> QED
    BY <2>1, <2>2 DEF NoOverrun
<1> QED
  BY <1>1, FrameInit, FrameNext, PTL DEF Spec

(* Only ReadBody takes a connection down in the loop that reads.           *)
LEMMA RejectsTorn ==
    ASSUME ~SendData, Accepted
    PROVE  FrameInv /\ [Next]_vars
              => [(h.pc = "loop" /\ r.up /\ ~r'.up) => torn]_vars
<1> SUFFICES ASSUME FrameInv, [Next]_vars, h.pc = "loop", r.up, ~r'.up PROVE torn
  OBVIOUS
<1>1. StreamInv' /\ r \in Receiver
  BY StreamNext, FrameTypes DEF FrameInv
<1>2. r' # r
  OBVIOUS
<1>3. ASSUME SenderDown PROVE FALSE
  BY <1>2, <1>3 DEF SenderDown
<1>4. ASSUME Send PROVE FALSE
  BY <1>2, <1>3, <1>4 DEF Send, Write
<1>5. ASSUME Flush \/ SenderEnds \/ Arrive \/ LoopEnds PROVE FALSE
  BY <1>2, <1>3, <1>5 DEF Flush, SenderEnds, Arrive, LoopEnds
<1>6. ASSUME OnRecvReturns \/ ReceiverDown \/ Reconnect PROVE FALSE
  BY <1>6 DEF OnRecvReturns, ReceiverDown, Reconnect
<1>7. ASSUME ReadHead PROVE FALSE
  <2>1. PICK x, y : r' = [r EXCEPT !.msg = x, !.wlen = y]
    BY <1>7 DEF ReadHead
  <2> QED
    BY <1>1, <2>1 DEF Receiver
<1>8. CASE ReadBody
  BY <1>1, <1>8, ReadBodyFrames
<1>9. ASSUME UNCHANGED vars PROVE FALSE
  BY <1>2, <1>9 DEF vars
<1> QED
  BY <1>4, <1>5, <1>6, <1>7, <1>8, <1>9 DEF Next, ReadCallback

(* At rest and with no byte on the way at most the header of an empty last *)
(* message is in m_msg.                                                    *)
LEMMA NoneHeldBack == FrameInv => NothingHeldBack
<1> SUFFICES ASSUME FrameInv, h.pc = "idle", s.up, r.up, wire = << >>, ~torn
             PROVE  \/ got = sent
                    \/ /\ sent # << >> /\ ~NonEmpty(Last(sent))
                       /\ got = Front(sent)
  BY DEF NothingHeldBack
<1>1. /\ got \in Seq(Payload) /\ sent \in Seq(Payload)
      /\ Len(got) \in 0 .. Len(sent) /\ \A i \in 1 .. Len(got) : got[i] = sent[i]
  BY FrameTypes DEF FrameInv, Agrees
<1> DEFINE a == HeldOf(r.msg, r.wlen)
<1>2. InOrder
  BY DEF FrameInv, Down, AtRecv, Swapped, Wild
<1>3. Coming(r.msg) = a /\ a \in Seq(Byte) /\ Len(a) <= HEAD_LEN
  <2>1. a \in Seq(Byte) /\ Len(a) = r.wlen /\ r.wlen \in Nat
    BY FrameTypes DEF FrameInv
  <2>2. h.in = << >>
    BY DEF FrameInv
  <2>3. << >> \o << >> = << >> /\ a \o << >> = a
    BY <2>1, ConcatEmptySeq
  <2>4. ~(r.wlen > 4)
    BY <1>2 DEF InOrder, HEAD_LEN
  <2> QED
    BY <2>1, <2>2, <2>3, <2>4 DEF Coming, HEAD_LEN
<1> HIDE DEF a
<1>4. \/ Len(got) = Len(sent)
      \/ Len(got) + 1 = Len(sent) /\ Len(sent[Len(got) + 1]) = 0
  <2>1. Lined(a, Len(got), sent, TRUE)
    <3>1. s.up = TRUE
      BY FrameTypes DEF FrameInv
    <3> QED
      BY <1>2, <1>3, <3>1 DEF InOrder, Waiting
  <2> QED
    BY <1>1, <1>3, <2>1, LinedEnd
<1>5. CASE Len(got) = Len(sent)
  <2>1. \A i \in 1 .. Len(got) : got[i] = sent[i]
    BY <1>1
  <2> QED
    BY <1>1, <1>5, <2>1, SeqEqual
<1>6. CASE Len(got) + 1 = Len(sent) /\ Len(sent[Len(got) + 1]) = 0
  <2> DEFINE n == Len(sent)
             f == sent[n]
             b == SubSeq(sent, 1, n - 1)
  <2>1. n \in Nat /\ n > 0 /\ n - 1 = Len(got) /\ n \in 1 .. Len(sent)
    BY <1>1, <1>6
  <2>2. f \in Seq(Byte) /\ Len(f) = 0
    <3>1. f \in Payload
      BY <1>1, <2>1, ElementOfSeq
    <3>2. Len(sent[n]) = 0
      BY <1>1, <1>6, <2>1
    <3> QED
      BY <3>1, <3>2, PayloadSeq
  <2>3. b \in Seq(Payload) /\ Len(b) = Len(got) /\ \A i \in 1 .. Len(got) : b[i] = sent[i]
    <3>1. Len(got) \in 0 .. Len(sent)
      BY <1>1
    <3>2. b = SubSeq(sent, 1, Len(got))
      BY <2>1
    <3> HIDE DEF b
    <3> QED
      BY <1>1, <3>1, <3>2, SubSeqProperties
  <2> HIDE DEF b, f
  <2>4. got = b
    <3>1. \A i \in 1 .. Len(got) : got[i] = b[i]
      BY <1>1, <2>3
    <3> QED
      BY <1>1, <2>3, <3>1, SeqEqual
  <2>5. f = << >>
    BY <2>2, EmptySeq
  <2>6. sent # << >>
    BY <2>1
  <2> QED
    BY <2>4, <2>5, <2>6 DEF Last, Front, NonEmpty, b, f
<1> QED
  BY <1>4, <1>5, <1>6

(* With well framed input nothing that has arrived is kept from OnRecv and *)
(* no connection is cut, unless a body came in pieces.                     *)
THEOREM NothingStaysBehind ==
    ASSUME ~SendData, Accepted
    PROVE  Spec => NothingLost
<1>1. FrameInv => NothingHeldBack
  BY NoneHeldBack
<1>2. FrameInv /\ [Next]_vars => [(h.pc = "loop" /\ r.up /\ ~r'.up) => torn]_vars
  BY RejectsTorn
<1> QED
  BY <1>1, <1>2, FrameInit, FrameNext, PTL DEF Spec, NothingLost, RejectsOnlyTorn

-----------------------------------------------------------------------------
(***************************************************************************)
(* Refinement of MsgChannel.  That what OnRecv gets is the next message    *)
(* follows from FrameInv after the step: what was got before is still      *)
(* there, and one message more is still a message of those sent.  That     *)
(* the receiver breaks only at a message of HalfByte bytes is Wild.        *)
(***************************************************************************)

ChannelUp == [e \in {"s", "r"} |-> IF e = "s" THEN s.up ELSE r.up]
Goes == h.pc # "wild" /\ h'.pc # "wild"

LEMMA ChannelSend ==
    ASSUME s.up, NEW m \in Bodies, sent' = Append(sent, m), s'.up = s.up,
           UNCHANGED <<r, got, h>>
    PROVE  Channel!Next
<1>1. ChannelUp["s"] /\ ChannelUp' = ChannelUp
  BY DEF ChannelUp
<1>2. UNCHANGED (h.pc = "wild")
  OBVIOUS
<1>3. Channel!Send(m)
  BY <1>1, <1>2 DEF Channel!Send, ChannelUp
<1> QED
  BY <1>3 DEF Channel!Next

LEMMA ChannelStays ==
    ASSUME s'.up = s.up, r'.up = r.up, sent' = sent, got' = got, h'.pc = h.pc \/ Goes
    PROVE  UNCHANGED Channel!chanVars
<1>1. UNCHANGED (h.pc = "wild")
  BY DEF Goes
<1> QED
  BY <1>1 DEF Channel!chanVars

LEMMA ChannelCloses ==
    ASSUME \/ s.up = TRUE /\ s'.up = FALSE /\ r'.up = r.up
           \/ r.up = TRUE /\ r'.up = FALSE /\ s'.up = s.up,
           sent' = sent, got' = got, h'.pc = h.pc \/ Goes
    PROVE  Channel!Next
<1>0. UNCHANGED (h.pc = "wild")
  BY DEF Goes
<1>1. CASE s.up = TRUE /\ s'.up = FALSE /\ r'.up = r.up
  <2>1. ChannelUp["s"] /\ ChannelUp' = [ChannelUp EXCEPT !["s"] = FALSE]
    BY <1>1 DEF ChannelUp
  <2>2. Channel!Close("s")
    BY <1>0, <2>1 DEF Channel!Close, ChannelUp
  <2> QED
    BY <2>2 DEF Channel!Next, Channel!Ends
<1>2. CASE r.up = TRUE /\ r'.up = FALSE /\ s'.up = s.up
  <2>1. ChannelUp["r"] /\ ChannelUp' = [ChannelUp EXCEPT !["r"] = FALSE]
    BY <1>2 DEF ChannelUp
  <2>2. Channel!Close("r")
    BY <1>0, <2>1 DEF Channel!Close, ChannelUp
  <2> QED
    BY <2>2 DEF Channel!Next, Channel!Ends
<1> QED
  BY <1>1, <1>2

LEMMA ChannelDelivers ==
    ASSUME FrameInv, FrameInv', NEW x, got' = Append(got, x), sent' = sent,
           s'.up = s.up, r'.up = r.up, Goes
    PROVE  Channel!Next
<1>1. /\ got \in Seq(Payload) /\ got' \in Seq(Payload) /\ sent \in Seq(Payload)
      /\ Len(got) \in Nat /\ Len(got') <= Len(sent) /\ Len(sent) \in Nat
      /\ \A i \in 1 .. Len(got') : got'[i] = sent[i]
  <2>1. sent \in Seq(Payload)
    BY FrameTypes DEF FrameInv
  <2> QED
    BY <2>1 DEF FrameInv, StreamInv, TypeOK, Agrees
<1>2. Len(got') = Len(got) + 1 /\ got'[Len(got) + 1] = x
  BY <1>1
<1>3. Len(got) < Len(sent) /\ x = sent[Len(got) + 1] /\ UNCHANGED (h.pc = "wild")
  BY <1>1, <1>2 DEF Goes
<1>4. Channel!Deliver
  BY <1>3 DEF Channel!Deliver
<1> QED
  BY <1>4 DEF Channel!Next

LEMMA ChannelBreaks ==
    ASSUME FrameInv, FrameInv', h'.pc = "wild", s'.up = s.up, r'.up = r.up,
           sent' = sent, got' = got
    PROVE  Channel!Next
<1>1. Len(got) < Len(sent) /\ Len(sent[Len(got) + 1]) = HalfByte
  <2>1. Wild'
    BY DEF FrameInv, Down, InOrder, Swapped, Waiting, AtRecv
  <2> QED
    BY <2>1 DEF Wild, HalfByte
<1>2. sent[Len(got) + 1] \in {m \in Bodies : Len(m) = HalfByte}
  <2>1. sent \in Seq(Bodies) /\ Len(got) \in Nat
    BY DEF FrameInv, StreamInv, TypeOK
  <2> QED
    BY <1>1, <2>1, ElementOfSeq
<1>3. Channel!Break
  BY <1>1, <1>2 DEF Channel!Break
<1> QED
  BY <1>3 DEF Channel!Next

LEMMA SenderDownCloses ==
    ASSUME FrameInv, s.up, SenderDown
    PROVE  Channel!Next
<1>1. s.up = TRUE /\ s'.up = FALSE /\ UNCHANGED <<r, h, sent, got>>
  BY DEF SenderDown, FrameInv, StreamInv, TypeOK
<1> QED
  BY <1>1, ChannelCloses

LEMMA SendRefines ==
    ASSUME FrameInv, Send
    PROVE  Channel!Next
<1>1. ASSUME NEW m \in Bodies, NEW bytes, Write(m, bytes)
      PROVE  Channel!Next
  <2>1. s'.up = s.up /\ sent' = Append(sent, m) /\ UNCHANGED <<r, got, h>>
    BY <1>1 DEF Write, FrameInv, StreamInv, TypeOK
  <2> QED
    BY <2>1, ChannelSend DEF Send
<1> QED
  BY <1>1, SenderDownCloses DEF Send

LEMMA ReadBodyRefines ==
    ASSUME FrameInv, FrameInv', ReadBody
    PROVE  Channel!Next \/ UNCHANGED Channel!chanVars
<1>1. r.up \in BOOLEAN /\ r \in Receiver /\ UNCHANGED <<s, sent>> /\ h.pc = "loop"
  BY DEF FrameInv, StreamInv, TypeOK, ReadBody, Receiver
<1>2. \/ r'.up = FALSE /\ got' = got /\ Goes
      \/ r'.up = r.up /\ got' = got /\ h'.pc = "wild"
      \/ r'.up = r.up /\ got' = got /\ Goes
      \/ r'.up = r.up /\ (\E x : got' = Append(got, x)) /\ Goes
  <2> DEFINE m    == HtoNL(r.msg)
             need == NeedToRead(m, r.wlen)
             n    == Lesser(Len(h.in), need)
             p    == SubSeq(h.in, 1, n)
             t    == SubSeq(h.in, n + 1, Len(h.in))
  <2>1. CASE r' = DisConnect([r EXCEPT !.msg = m]) /\ h' = Idle /\ got' = got
    <3>1. r'.up = FALSE /\ got' = got /\ Goes
      BY <1>1, <2>1 DEF DisConnect, Receiver, Goes, Idle
    <3> QED
      BY <3>1
  <2>2. CASE /\ r' = [r EXCEPT !.msg = m, !.wlen = r.wlen + n]
             /\ h' = [pc |-> "wild", in |-> << >>] /\ got' = got
    <3>1. r'.up = r.up /\ got' = got /\ h'.pc = "wild"
      BY <1>1, <2>2 DEF Receiver
    <3> QED
      BY <3>1
  <2>3. CASE /\ r' = [r EXCEPT !.msg = Put(m, r.wlen, p), !.wlen = r.wlen + n]
             /\ h' = [pc |-> IF n = need THEN "onrecv" ELSE "loop", in |-> t]
             /\ got' = IF n = need THEN Append(got, Data(r'.msg)) ELSE got
    <3> HIDE DEF n, need, p, t, m
    <3>1. r'.up = r.up
      BY <1>1, <2>3 DEF Receiver
    <3>2. Goes
      BY <1>1, <2>3 DEF Goes
    <3>3. got' = got \/ \E x : got' = Append(got, x)
      <4>1. got' = got \/ got' = Append(got, Data(r'.msg))
        BY <2>3, Zenon
      <4> QED
        BY <4>1, Zenon
    <3> QED
      BY <3>1, <3>2, <3>3
  <2> QED
    BY <2>1, <2>2, <2>3 DEF ReadBody
<1> QED
  BY <1>1, <1>2, ChannelDelivers, ChannelStays, ChannelCloses, ChannelBreaks

LEMMA ReconnectRefines ==
    ASSUME FrameInv, Reconnect, Accepted
    PROVE  Channel!Next
<1>1. /\ r.up = FALSE /\ s'.up = TRUE /\ r'.up = TRUE /\ sent' = << >> /\ got' = << >>
      /\ h'.pc # "wild"
  BY DEF FrameInv, StreamInv, TypeOK, Reconnect, FreshSender, FreshReceiver
<1>2. Channel!Opened'
  BY <1>1 DEF Channel!Opened, Channel!Ends
<1>3. Channel!Reopen
  BY <1>1, <1>2 DEF Channel!Reopen
<1> QED
  BY <1>3 DEF Channel!Next

LEMMA StepRefines ==
    ASSUME ~SendData, Accepted, FrameInv, FrameInv', [Next]_vars
    PROVE  Channel!Next \/ UNCHANGED Channel!chanVars
<1>0. /\ s \in [up : BOOLEAN, out : Nat] /\ r \in Receiver /\ h \in Handler
  BY DEF FrameInv, StreamInv, TypeOK, Receiver, Handler
<1>1. CASE Send
  BY <1>1, SendRefines
<1>2. CASE Flush
  BY <1>0, <1>2, ChannelStays DEF Flush
<1>3. CASE SenderEnds
  BY <1>3, SenderDownCloses DEF SenderEnds
<1>4. CASE Arrive
  <2>1. h.pc = "idle" /\ h'.pc = "loop" /\ UNCHANGED <<s, r, sent, got>>
    BY <1>4 DEF Arrive
  <2> QED
    BY <2>1, ChannelStays DEF Goes
<1>5. CASE ReadHead
  <2>1. h'.pc = h.pc
    BY <1>0, <1>5 DEF ReadHead, Handler
  <2> QED
    BY <1>0, <1>5, <2>1, ChannelStays DEF ReadHead, Receiver
<1>6. CASE ReadBody
  BY <1>6, ReadBodyRefines
<1>7. CASE OnRecvReturns
  <2>1. Goes
    BY <1>0, <1>7 DEF OnRecvReturns, Goes, Handler
  <2> QED
    BY <1>0, <1>7, <2>1, ChannelStays DEF OnRecvReturns, AfterRecv, Receiver
<1>8. CASE LoopEnds
  BY <1>8, ChannelStays DEF LoopEnds, Goes, Idle
<1>9. CASE ReceiverDown
  <2>1. r.up = TRUE /\ r'.up = FALSE /\ UNCHANGED <<s, h, sent, got>>
    BY <1>0, <1>9 DEF ReceiverDown, DisConnect, Receiver
  <2> QED
    BY <2>1, ChannelCloses
<1>10. CASE Reconnect
  BY <1>10, ReconnectRefines
<1>11. CASE UNCHANGED vars
  BY <1>11, ChannelStays DEF vars
<1> QED
  BY <1>1, <1>2, <1>3, <1>4, <1>5, <1>6, <1>7, <1>8, <1>9, <1>10, <1>11
  DEF Next, ReadCallback

(* With well framed input and a new object for each connection the framing *)
(* implements MsgChannel, for every size of a byte, a message, a limit and *)
(* any number of messages and connections; its Break, where nothing is     *)
(* promised any more, is taken only in a message of HalfByte bytes.        *)
THEOREM ChannelKept ==
    ASSUME ~SendData, Accepted
    PROVE  Spec => KeepsChannel
<1>1. Init => Channel!Opened
  BY DEF Init, Channel!Opened, Channel!Ends, FreshSender, FreshReceiver, Idle
<1>2. FrameInv /\ FrameInv' /\ [Next]_vars => [Channel!Next]_(Channel!chanVars)
  BY StepRefines
<1> QED
  BY <1>1, <1>2, FrameInit, FrameNext, PTL DEF Spec, KeepsChannel, Channel!Spec
=============================================================================
