------------------------------ MODULE MCFixNum ------------------------------
(* FixNum for TLC: words of three bytes of four values, -32 to 31. *)
EXTENDS FixNum

MCWeight == [n \in 0 .. 3 |-> 4 ^ n]
MCLongs  == {-7, -3, -1, 0, 1, 2, 3}
MCEpochs == {0, 30}
=============================================================================
