------------------------------ MODULE WbuQueue ------------------------------
(***************************************************************************)
(* What the FIFOs of the debug bus promise: a queue of at most Depth words *)
(* clocked by i_clk.  A read removes the word offered, if one is; a write  *)
(* is dropped only when the queue is full and nothing is read; words leave *)
(* in the order they came, once each.                                      *)
(***************************************************************************)
EXTENDS Naturals, Sequences

CONSTANTS Word, Depth

VARIABLES i_reset, i_wr, i_data, i_rd,   \* the inputs of the clock
          q,                             \* the words kept
          offered                        \* whether Head(q) is offered

queueing == <<i_reset, i_wr, i_data, i_rd, q, offered>>

Taken   == i_rd /\ offered
Dropped == Len(q) = Depth /\ ~i_rd

Init == q = << >> /\ ~offered

Next ==
    /\ q' = IF i_reset THEN << >>
            ELSE (IF Taken THEN Tail(q) ELSE q)
                 \o (IF i_wr /\ ~Dropped THEN <<i_data>> ELSE << >>)
    /\ offered' => q' # << >>

Spec == Init /\ [][Next]_queueing
=============================================================================
