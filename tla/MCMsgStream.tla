---------------------------- MODULE MCMsgStream ----------------------------
(* Bytes of four values: an int has four of them, from -128 to 127.  The   *)
(* lengths 1 and 3 are in reverse order too large (64) and negative (-64), *)
(* as most lengths are in the code, and 2 is the smallest int, as 128 is.  *)
EXTENDS MsgStream

Zero == {0}
ZeroOrTwo == {0, 2}
UpToThree == {<< >>, <<1>>, <<2, 1>>, <<1, 0, 3>>}
UpToOne == {<< >>, <<0>>, <<1>>}
UpToTwo == {<< >>, <<1>>, <<0, 2>>}
OfTwo == {<<2, 1>>}
=============================================================================
