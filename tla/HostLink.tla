------------------------------ MODULE HostLink ------------------------------
(* The two byte streams between programs on the host and the board, commands and the
   console, which share one serial line: bit 7 of a byte says which one it belongs to
   (wbuconsole.v). On a real board netuart carries them between the line and two
   sockets (NetUart); in simulation class DBLUARTSIM is line and sockets in one
   (DblUartSim). Here is what both have: the programs at the sockets, class NETCOMMS of
   sw/host/llcomms.cpp, and the characters of the board. Those of a stream are numbered,
   so that order and loss can be seen, and the odd ones are newlines. *)
EXTENDS Integers, Sequences, FiniteSets

CONSTANTS MaxOut,      \* bound: characters the board sends, on both together
          MaxIn,       \* bound: characters programs send on each stream
          Sessions     \* bound: programs one after another on each stream

ASSUME HostLinkAssumption == {MaxOut, MaxIn, Sessions} \subseteq Nat

Streams == {"cmd", "con"}
IsNewline(n) == n % 2 = 1

VARIABLES prog,      \* of each stream: the program, [st, got], got since it connected
          sock,      \* what it has written and the other end not read
          fd,        \* whether the other end has a connection
          sent,      \* how many characters the board has sent
          typed,     \* how many the programs have
          arrived,   \* the ones the board has got
          begun,     \* programs that have connected
          aborted,   \* a program has been killed, its last characters lost with it
          running    \* the other end, daemon or simulation, has not ended

link == <<prog, sock, fd, sent, typed, arrived, begun, aborted, running>>

Sent == sent["cmd"] + sent["con"]

Away == [st |-> "away", got |-> <<>>]

LinkInit ==
    /\ prog = [s \in Streams |-> Away] /\ sock = [s \in Streams |-> <<>>]
    /\ fd = [s \in Streams |-> FALSE] /\ sent = [s \in Streams |-> 0]
    /\ typed = [s \in Streams |-> 0] /\ arrived = [s \in Streams |-> <<>>]
    /\ begun = [s \in Streams |-> 0] /\ aborted = [s \in Streams |-> FALSE]
    /\ running = TRUE

\* The program sees characters only while its end of the connection is open.
Listening(p) == p.st \in {"on", "closing"}
Deliver(p, ns) == IF Listening(p) THEN [p EXCEPT !.got = @ \o ns] ELSE p

-----------------------------------------------------------------------------
(* The programs *)

Connect(s) ==
    /\ prog[s].st = "away" /\ begun[s] < Sessions
    /\ prog' = [prog EXCEPT ![s] = [st |-> "asking", got |-> <<>>]]
    /\ begun' = [begun EXCEPT ![s] = @ + 1]
    /\ UNCHANGED <<sock, fd, sent, typed, arrived, aborted, running>>

write(s) ==
    /\ prog[s].st = "on" /\ typed[s] < MaxIn
    /\ sock' = [sock EXCEPT ![s] = Append(@, typed[s])]
    /\ typed' = [typed EXCEPT ![s] = @ + 1]
    /\ UNCHANGED <<prog, fd, sent, arrived, begun, aborted, running>>

\* NETCOMMS::close tells the other end, and reads until that closes too.
close(s) ==
    /\ prog[s].st = "on"
    /\ prog' = [prog EXCEPT ![s].st = "closing"]
    /\ UNCHANGED <<sock, fd, sent, typed, arrived, begun, aborted, running>>

\* The program dies; what it wrote and was not read yet may go with it.
Abort(s) ==
    /\ prog[s].st = "on"
    /\ prog' = [prog EXCEPT ![s] = [st |-> "dead", got |-> <<>>]]
    /\ \/ UNCHANGED <<sock, aborted>>
       \/ sock' = [sock EXCEPT ![s] = <<>>] /\ aborted' = [aborted EXCEPT ![s] = TRUE]
    /\ UNCHANGED <<fd, sent, typed, arrived, begun, running>>

ProgramStep == \E s \in Streams : Connect(s) \/ write(s) \/ close(s) \/ Abort(s)

-----------------------------------------------------------------------------
(* The sockets, from the other end *)

Asking(s)   == ~fd[s] /\ prog[s].st = "asking"
Readable(s) == fd[s] /\ (sock[s] # <<>> \/ prog[s].st \in {"closing", "dead"})
EndOfFile(s) == sock[s] = <<>>

Accept(p) == [p EXCEPT !.st = "on"]
-----------------------------------------------------------------------------
(* What is promised to the programs and to the board *)

Increasing(ns) == \A i \in 1..Len(ns)-1 : ns[i] < ns[i+1]
Run(ns)        == \A i \in 1..Len(ns)-1 : ns[i+1] = ns[i] + 1

(* A program gets the characters of its own stream, each once, in order, with none
   missing between the first it gets and the last. *)
ProgramsGetARun == \A s \in Streams : Run(prog[s].got) /\ \A i \in DOMAIN prog[s].got : prog[s].got[i] < sent[s]

(* The board gets what the programs of a stream wrote, once and in order, and all of it
   as long as none of them was killed. *)
BoardGetsInOrder ==
    \A s \in Streams : /\ Increasing(arrived[s])
                       /\ aborted[s] \/ \A i \in DOMAIN arrived[s] : arrived[s][i] = i - 1
=============================================================================
