------------------------------ MODULE MCWbBus ------------------------------
(***************************************************************************)
(* Instances of the bus for TLC: two slaves at most, one address on each   *)
(* (a0, b0) and one address that no slave answers (n0).                    *)
(***************************************************************************)
EXTENDS WbBus

CONSTANTS a0, b0, n0

DecodeTwo  == [r \in {a0, b0, n0} |-> IF r = a0 THEN 0 ELSE IF r = b0 THEN 1 ELSE 2]
DecodeSame == [r \in {a0, b0} |-> 0]

Handshaking == [c \in Slaves |-> 0]
OnePipelined == [c \in Slaves |-> 2 * c]

TwoAndOne == [n \in Masters |-> 2 - n]
Nine      == [n \in Masters |-> 9]

FirstSlave == {0}
=============================================================================
