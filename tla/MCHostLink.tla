----------------------------- MODULE MCHostLink -----------------------------
(* The two ways the streams of HostLink are carried, next to each other: each behaviour
   is that of a real board behind netuart, or that of a simulation. What is promised to
   the programs is the same. *)
EXTENDS NetUart, DblUartSim

VARIABLE via           \* "board" or "simulation"

vars == <<link, tty, uart, via>>

Init == LinkInit /\ NetInit /\ SimInit /\ via \in {"board", "simulation"}

Program    == ProgramStep /\ UNCHANGED <<tty, uart, via>>
Board      == via = "board" /\ (BoardSends \/ Signal) /\ UNCHANGED <<uart, via>>
Daemon     == via = "board" /\ NetStep /\ UNCHANGED <<uart, via>>
Simulation == via = "simulation" /\ running /\ tick /\ UNCHANGED <<tty, via>>
Finish     == via = "simulation" /\ running /\ kill /\ UNCHANGED <<tty, via>>

Next == Program \/ Board \/ Daemon \/ Simulation \/ Finish

\* The daemon is scheduled when poll wakes it, and the clock of the simulation runs.
Spec == Init /\ [][Next]_vars /\ WF_vars(Daemon) /\ WF_vars(Simulation)

-----------------------------------------------------------------------------
(* A program that closes its connection, and then reads until the other end closes
   (NETCOMMS::close), is not kept waiting for ever: in the end none is. *)
Closing      == \E s \in Streams : prog[s].st = "closing"
CloseReturns == Closing ~> ~Closing

(* What a program wrote reaches the board, unless it was killed before it was read or
   the daemon has ended: in the end nothing is owed. *)
Owed           == running /\ \E s \in Streams : ~aborted[s] /\ Len(arrived[s]) < typed[s]
WrittenArrives == Owed ~> ~Owed
=============================================================================
