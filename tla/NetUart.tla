------------------------------ MODULE NetUart ------------------------------
(* sw/host/netuart.cpp: the daemon that joins the serial port of a board to two sockets.
   One pass of its loop is one step: it is woken by what can be read, and what comes
   in meanwhile wakes it again. *)
EXTENDS HostLink

VARIABLE tty           \* from the board: <<stream, number>>

\* What is of a stream in it: the places, the one that is k-th of them, and the characters there.
Places(s, q) == {i \in DOMAIN q : q[i][1] = s}
UpTo(P, i)   == {j \in P : j <= i}
Place(P, k)  == CHOOSE i \in P : Cardinality(UpTo(P, i)) = k
Of(s, q)     == [k \in 1..Cardinality(Places(s, q)) |-> q[Place(Places(s, q), k)][2]]

NetInit == tty = <<>>

\* Mutant: the counts of the buffers are not set back.
Split_Kept(s, out) == Of(s, out) \o Of(s, out)

\* lbcmd.m_buf and lbcon.m_buf: the stream by bit 7, the bit itself taken off.
Split(s, out) == Of(s, out)

\* Mutants: both looks are at the first socket; only an error closes a connection, not its end.
Read_First(s) == Readable(s) /\ ~EndOfFile(s) /\ s = "cmd"
Close_Dead(s) == Readable(s) /\ EndOfFile(s) /\ prog[s].st = "dead"
Read(s)  == Readable(s) /\ ~EndOfFile(s)
Close(s) == Readable(s) /\ EndOfFile(s)

(* Everything the serial port has goes to the sockets, or nowhere when nobody is
   connected; then, of each socket, a program is let in, or what it wrote is read, or
   its end is seen. *)
Pass ==
    /\ running /\ (tty # <<>> \/ \E s \in Streams : Asking(s) \/ Readable(s))
    /\ tty' = <<>>
    /\ prog' = [s \in Streams |-> IF Close(s) THEN Away
                                  ELSE IF Asking(s) THEN Accept(prog[s])
                                  ELSE IF fd[s] THEN Deliver(prog[s], Split(s, tty)) ELSE prog[s]]
    /\ fd' = [s \in Streams |-> (fd[s] \/ Asking(s)) /\ ~Close(s)]
    /\ sock' = [s \in Streams |-> IF Read(s) THEN <<>> ELSE sock[s]]
    /\ arrived' = [s \in Streams |-> IF Read(s) THEN arrived[s] \o sock[s] ELSE arrived[s]]
    /\ UNCHANGED <<sent, typed, begun, aborted, running>>

End ==
    /\ running' = FALSE
    /\ prog' = [s \in Streams |-> Away] /\ fd' = [s \in Streams |-> FALSE]
    /\ sock' = [s \in Streams |-> <<>>] /\ tty' = <<>>
    /\ UNCHANGED <<sent, typed, arrived, begun, aborted>>

\* A write to a program that is dead is an error, and every error of a write ends the daemon.
Exit == running /\ (\E s \in Streams : fd[s] /\ prog[s].st = "dead" /\ Split(s, tty) # <<>>) /\ End

\* So does the signal of an interrupt or a hang-up.
Signal == running /\ End

BoardSends ==
    /\ running
    /\ \E s \in Streams : /\ Sent < MaxOut
                          /\ tty' = Append(tty, <<s, sent[s]>>)
                          /\ sent' = [sent EXCEPT ![s] = @ + 1]
    /\ UNCHANGED <<prog, sock, fd, typed, arrived, begun, aborted, running>>

NetStep == Pass \/ Exit

(* The daemon alone, with the programs and the board it has to do with. *)
netVars == <<link, tty>>
NetNext == (ProgramStep /\ UNCHANGED tty) \/ BoardSends \/ Signal \/ NetStep
NetSpec == LinkInit /\ NetInit /\ [][NetNext]_netVars
=============================================================================
