------------------------------ MODULE WbSwitch ------------------------------
(***************************************************************************)
(* What a Wishbone switch promises, with no registers, grants or counters: *)
(* each master in a cycle has a short queue of requests the switch has     *)
(* accepted and not yet handed over, the one slave it is talking to, and   *)
(* the number of requests handed over whose answers it has not yet had.    *)
(* Requests are handed over in order, each exactly once and to the slave   *)
(* they address; a master changes slave only when it is owed nothing, and  *)
(* no slave owes answers to two masters.                                   *)
(***************************************************************************)
EXTENDS Naturals, Sequences

CONSTANTS Masters, Slaves, Request, SlaveOf, Depth

VARIABLES queue,   \* per master: accepted, not yet handed to a slave
          home,    \* per master: the slave it talks to
          owed     \* per master: handed over, answer not yet delivered

sw == <<queue, home, owed>>

Idle(n) == queue[n] = << >> /\ owed[n] = 0

\* A master abandons its cycle, or is told of an error: nothing is owed.
Abandon(n) == queue'[n] = << >> /\ owed'[n] = 0

Transfer(n) ==
    \E give, back \in {0, 1}, new \in {<< >>} \cup {<<r>> : r \in Request} :
        /\ give <= Len(queue[n])
        /\ back <= owed[n]
        /\ queue'[n] = SubSeq(queue[n], 1 + give, Len(queue[n])) \o new
        /\ owed'[n] + back = owed[n] + give
        /\ give = 1 => /\ home'[n] = SlaveOf[Head(queue[n])]
                       /\ owed[n] > 0 => home'[n] = home[n]
        /\ owed'[n] > 0 /\ give = 0 => home'[n] = home[n]

Exclusive ==
    \A m, n \in Masters :
        m # n /\ owed[m] > 0 /\ owed[n] > 0 => home[m] # home[n]

Init == /\ \A n \in Masters : Idle(n)
        /\ Exclusive

Next == /\ \A n \in Masters : Transfer(n) \/ Abandon(n)
        /\ \A n \in Masters : Len(queue'[n]) <= Depth
        /\ Exclusive'

Spec == Init /\ [][Next]_sw
=============================================================================
