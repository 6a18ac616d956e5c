----------------------------- MODULE DblUartSim -----------------------------
(* sim/verilated/dbluartsim.cpp: the serial line of the simulated board, bit by bit,
   and the two sockets. One step of it is one clock of the board (tick). A character is
   NBITS data bits, the last of them the stream, and one stop bit (8N1 in main_tb.cpp);
   the board sends and samples its bits at the same BAUD. *)
EXTENDS HostLink, SequencesExt

CONSTANTS BAUD,        \* m_baud_counts, clocks to a bit: 100
          NBITS,       \* m_nbits: 8
          BUFLEN       \* DBLPIPEBUFLEN-2: 254

ASSUME UartAssumption == BAUD > 2 /\ NBITS > 1 /\ BUFLEN > 1 /\ 2^(NBITS-1) >= MaxOut /\ 2^(NBITS-1) >= MaxIn

VARIABLES rx,          \* m_rx_state, m_rx_baudcounter, m_rx_changectr, m_last_tx, m_rx_data
          tx,          \* m_tx_state, m_tx_baudcounter, m_tx_data
          m_rxbuf,     \* read from the sockets and not yet on the line, m_ilen of them
          m_cmdbuf, m_conbuf,
          btx, brx     \* the board's end: the levels it has still to send, those it has seen

uart == <<rx, tx, m_rxbuf, m_cmdbuf, m_conbuf, btx, brx>>

FrameBits == NBITS + 1                       \* data and stop: the start bit is not counted
MaxChange == BAUD                            \* bound: m_rx_changectr counts no further

\* A character on the line, and back: the lowest bit goes first.
Bits(c)  == LET v == c[2] + (IF c[1] = "cmd" THEN 2^(NBITS-1) ELSE 0)
            IN  [i \in 1..NBITS |-> (v \div 2^(i-1)) % 2]
Char(bs) == LET v == FoldLeft(LAMBDA a, i : a + bs[i] * 2^(i-1), 0, [i \in 1..NBITS-1 |-> i])
            IN  <<IF bs[NBITS] = 1 THEN "cmd" ELSE "con", v>>

RxIdle == [state |-> "idle", baud |-> 0, change |-> 0, last |-> 1, data |-> <<>>]
TxIdle == [state |-> "idle", baud |-> 0, data |-> <<>>]

SimInit ==
    /\ rx = RxIdle /\ tx = TxIdle
    /\ m_rxbuf = <<>> /\ m_cmdbuf = <<>> /\ m_conbuf = <<>> /\ btx = <<>> /\ brx = <<>>

-----------------------------------------------------------------------------
(* received, called with the character that is complete at the end of its stop bit: a
   command line is sent when it is whole, or the buffer full, the console as it comes.
   What nobody is connected for is printed and dropped. *)

CmdAfter(buf) == IF IsNewline(Last(buf)) \/ Len(buf) >= BUFLEN THEN <<>> ELSE buf
ConAfter(buf, to) == IF to \/ IsNewline(Last(buf)) \/ Len(buf) >= BUFLEN THEN <<>> ELSE buf

Completes(s) == /\ rx.state = "data" /\ rx.baud <= 0 /\ Len(rx.data) = FrameBits
                /\ Char(rx.data)[1] = s
ch  == Char(rx.data)[2]
cmd == Append(m_cmdbuf, ch)

\* What received sends to the program of a stream.
Out(s) == IF ~Completes(s) THEN <<>>
          ELSE IF s = "con" THEN <<ch>>
          ELSE IF CmdAfter(cmd) = <<>> THEN cmd ELSE <<>>

received(open) ==
    /\ m_cmdbuf' = IF Completes("cmd") THEN CmdAfter(cmd) ELSE m_cmdbuf
    /\ m_conbuf' = IF Completes("con") THEN ConAfter(Append(m_conbuf, ch), "con" \in open)
                   ELSE m_conbuf

\* It makes up for a start bit it saw late, the last stop bit being counted to its end.
StartCount(change) == BAUD + (BAUD \div 2) - 1 - change

\* The half of tick that takes the line from the board, whose level is i_tx.
Receive(i_tx) ==
    LET change == IF i_tx = 0 /\ rx.last = 1 THEN 0
                  ELSE IF rx.change < MaxChange THEN rx.change + 1 ELSE MaxChange
        next   == [rx EXCEPT !.change = change, !.last = i_tx]
    IN  \/ /\ rx.state = "idle"
           /\ rx' = IF i_tx = 1 THEN next
                    ELSE [next EXCEPT !.state = "data", !.baud = StartCount(change), !.data = <<>>]
        \/ /\ rx.state = "data" /\ rx.baud <= 0 /\ Len(rx.data) = FrameBits
           /\ rx' = [next EXCEPT !.state = "idle", !.baud = BAUD - 1, !.data = <<>>]
        \/ /\ rx.state = "data" /\ rx.baud <= 0 /\ Len(rx.data) < FrameBits
           /\ rx' = [next EXCEPT !.data = Append(@, i_tx), !.baud = BAUD - 1]
        \/ /\ rx.state = "data" /\ rx.baud > 0
           /\ rx' = [next EXCEPT !.baud = @ - 1]

-----------------------------------------------------------------------------
(* The other half of tick, which drives the line to the board: o_rx is its level. The
   sockets are read when nothing waits for the line (next): first the commands, then the
   console, all that is there, up to the end. *)
Polls == tx.state = "idle" /\ m_rxbuf = <<>>

\* Mutant: the commands go without their bit.
FromSock_NoMask(s) == [i \in DOMAIN sock[s] |-> <<"con", sock[s][i]>>]
FromSock(s) == [i \in DOMAIN sock[s] |-> <<s, sock[s][i]>>]
poll_read(open) ==
    IF Polls THEN (IF "cmd" \in open THEN FromSock("cmd") ELSE <<>>)
                  \o (IF "con" \in open THEN FromSock("con") ELSE <<>>)
    ELSE m_rxbuf

Transmit(buf, o_rx) ==
    \/ /\ tx.state = "idle" /\ buf = <<>>
       /\ o_rx = 1 /\ m_rxbuf' = buf /\ UNCHANGED tx
    \/ /\ tx.state = "idle" /\ buf # <<>>
       /\ o_rx = 0 /\ m_rxbuf' = Tail(buf)
       /\ tx' = [state |-> "data", baud |-> BAUD - 1, data |-> <<0>> \o Bits(Head(buf)) \o <<1>>]
    \/ /\ tx.state = "data" /\ tx.baud <= 0 /\ UNCHANGED m_rxbuf
       /\ o_rx = IF Len(tx.data) > 1 THEN tx.data[2] ELSE 1
       /\ tx' = IF Len(tx.data) > 1 THEN [tx EXCEPT !.data = Tail(@), !.baud = BAUD - 1]
                ELSE TxIdle
    \/ /\ tx.state = "data" /\ tx.baud > 0 /\ UNCHANGED m_rxbuf
       /\ o_rx = Head(tx.data) /\ tx' = [tx EXCEPT !.baud = @ - 1]

-----------------------------------------------------------------------------
(* The board's transmitter and receiver, txuartlite and rxuartlite. The transmitter is
   idle for a clock after every stop bit (r_busy falls at the end of it). *)

Frame(c) == FlattenSeq([i \in 1..FrameBits+1 |->
                [k \in 1..BAUD |-> (<<0>> \o Bits(c) \o <<1>>)[i]]])
BoardTransmit ==
    \/ /\ btx # <<>> /\ btx' = Tail(btx) /\ UNCHANGED sent
    \/ /\ btx = <<>>
       /\ \E s \in Streams : /\ Sent < MaxOut
                             /\ btx' = Frame(<<s, sent[s]>>)
                             /\ sent' = [sent EXCEPT ![s] = @ + 1]
    \/ btx = <<>> /\ UNCHANGED <<btx, sent>>

\* From the start bit on, a bit is taken in its middle, and the character is complete in
\* the middle of its stop bit, which the line's other end always sends.
BoardReceive(o_rx) ==
    LET seen == Append(brx, o_rx)
        full == Len(seen) = FrameBits * BAUD + (BAUD \div 2) + 1
        c    == Char([i \in 1..NBITS |-> seen[i * BAUD + (BAUD \div 2) + 1]])
    IN  /\ brx' = IF brx = <<>> /\ o_rx = 1 THEN <<>> ELSE IF full THEN <<>> ELSE seen
        /\ arrived' = IF full THEN [arrived EXCEPT ![c[1]] = Append(@, c[2])] ELSE arrived

Line == IF btx = <<>> THEN 1 ELSE Head(btx)

(* poll_accept lets programs in; a send to one that has died may fail, and then its
   connection is closed with what it wrote unread; a connection that has been read to
   its end is closed. *)
tick ==
    \E cut \in SUBSET {s \in Streams : prog[s].st = "dead" /\ Out(s) # <<>>} :
    LET open == {s \in Streams : fd[s] \/ Asking(s)}
        left == open \ cut
        atend == {s \in left : Polls /\ EndOfFile(s) /\ prog[s].st \in {"closing", "dead"}}
        read == IF Polls THEN left ELSE {}
    IN  /\ fd' = [s \in Streams |-> s \in left \ atend]
        /\ prog' = [s \in Streams |-> IF s \in cut \union atend THEN Away
                        ELSE Deliver(IF Asking(s) THEN Accept(prog[s]) ELSE prog[s], Out(s))]
        /\ sock' = [s \in Streams |-> IF s \in cut \union read THEN <<>> ELSE sock[s]]
        /\ aborted' = [s \in Streams |-> aborted[s] \/ (s \in cut /\ ~EndOfFile(s))]
        /\ Receive(Line) /\ received(open)
        /\ \E o_rx \in {0, 1} : Transmit(poll_read(left), o_rx) /\ BoardReceive(o_rx)
        /\ BoardTransmit
        /\ UNCHANGED <<typed, begun, running>>

\* The end of the simulation: what waits for the end of its line is sent as it is.
kill ==
    /\ running' = FALSE
    /\ prog' = [s \in Streams |-> IF ~fd[s] THEN prog[s]
                    ELSE [Deliver(prog[s], IF s = "cmd" THEN m_cmdbuf ELSE m_conbuf) EXCEPT !.st = "away"]]
    /\ fd' = [s \in Streams |-> FALSE] /\ sock' = [s \in Streams |-> <<>>]
    /\ rx' = RxIdle /\ tx' = TxIdle /\ m_rxbuf' = <<>>
    /\ m_cmdbuf' = <<>> /\ m_conbuf' = <<>> /\ btx' = <<>> /\ brx' = <<>>
    /\ UNCHANGED <<sent, typed, arrived, begun, aborted>>
=============================================================================
