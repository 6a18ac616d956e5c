----------------------------- MODULE MCTtyLink -----------------------------
(* Three places to write to, one reached by a difference from another, and what the
   programs of a behaviour do. *)
EXTENDS TtyLink

VARIABLE script

MCWord == {3, 4, 5, 5000, 5001, 5002, 5030, 5031, 5032}
MCMemoryOf(w) == 7 + (w % 2)
R(a, inc, n)  == [op |-> "read", a |-> a, inc |-> inc, len |-> n]
W(a, inc, v)  == [op |-> "write", a |-> a, inc |-> inc, vals |-> v, io |-> Len(v) = 1 /\ ~inc]

Reads  == {R(5000, TRUE, 3), R(5030, FALSE, 1), R(5001, TRUE, 2)}
Writes == {W(5000, TRUE, <<5, 61, 7>>), W(5030, FALSE, <<61>>), W(5002, TRUE, <<61, 5>>)}
All    == Reads \cup Writes \cup {[op |-> "wait"]}

\* Bounds: the calls from which each is chosen, whether a program is replaced by
\* another in between, and whether newlines and interrupts come among the answers.
Scripts ==
    {[calls |-> <<All, All>>, stops |-> TRUE, noisy |-> FALSE],
     [calls |-> <<Reads \cup {W(5030, FALSE, <<61>>)}, All>>, stops |-> FALSE, noisy |-> TRUE],
     [calls |-> <<Writes, Reads, {R(5000, TRUE, 3)}>>, stops |-> TRUE, noisy |-> FALSE]}

Follows ==
    /\ calls' # calls => calls < Len(script.calls) /\ call' \in script.calls[calls']
    /\ Replace => script.stops /\ calls < Len(script.calls)
    /\ noise' # noise => script.noisy

MCInit == Init /\ script \in Scripts
MCSpec == MCInit /\ [][Next /\ Follows /\ UNCHANGED script]_<<vars, script>> /\ Fairness
=============================================================================
