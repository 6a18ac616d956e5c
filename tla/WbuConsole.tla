----------------------------- MODULE WbuConsole -----------------------------
(***************************************************************************)
(* The debug port rtl/wbubus/wbuconsole.v as rtl/main.v instantiates it:   *)
(* commands from the host wait in a FIFO (wbufifo.v) until the bus master  *)
(* of WbuExec is free, its answers wait in another (wbuoutput.v) until the *)
(* serial port is, and a watchdog resets both and the bus master when a    *)
(* bus cycle goes without an acknowledgement for too long.                 *)
(*                                                                         *)
(* The FIFOs are the queues that FifoIsAQueue proves wbufifo.v to be.  The *)
(* host is that of sw/host/ttybus.cpp: readv() keeps at most Window words  *)
(* unread, and a new address is only sent when none is.  due counts them;  *)
(* told is the address the host has from the answers alone.  everReset and *)
(* missed are not in the code: whether the watchdog has ever fired, and    *)
(* whether an answer has found no room since it last did.                  *)
(***************************************************************************)
EXTENDS Naturals, Sequences

CONSTANTS ADDRESSES, MaxLen, WriteData, MaxAtSlave,
          WATCHDOG,        \* 2^LGWATCHDOG - 1
          IDepth, ODepth,  \* one more than 2^LGINPUT_FIFO, 2^LGOUTPUT_FIFO
          Window,          \* READAHEAD + READBLOCK of ttybus.cpp
          MayErr,          \* the cycles a slave may end with an error: "read", "write"
          HostOps          \* the codewords the host sends

\* In main.v and ttybus.cpp: IDepth 65, ODepth 1025, Window 1024.
ASSUME ConsoleAssumption ==
    /\ ADDRESSES \in Nat \ {0} /\ MaxLen \in 1 .. 1023 /\ MaxAtSlave \in Nat \ {0}
    /\ WATCHDOG \in Nat /\ IDepth \in Nat \ {0} /\ ODepth \in Nat \ {0}
    /\ Window \in Nat /\ Window < ODepth
    /\ MayErr \subseteq {"read", "write"}

VARIABLES
    ififo, ififo_empty_n, fifo_in_word,     \* commands waiting
    r_wdt_timer, r_wdt_reset,
    ofifo, ofifo_empty_n, ofifo_rd,         \* answers waiting
    i_wb_stall, i_wb_ack, i_wb_err,
    wb_state, w_bus_busy,
    o_wb_cyc, o_wb_stb, o_wb_we, o_wb_addr, o_wb_data,
    r_inc, r_new_addr, r_acks_needed, zero_acks,
    r_len, last_ack, last_read_request, single_read_request,
    exec_stb, exec_word, atSlave,
    in_stb, in_word,                        \* the command just received
    due, told, everReset, missed

fifos    == <<ififo, ififo_empty_n, fifo_in_word, ofifo, ofifo_empty_n, ofifo_rd>>
watchdog == <<r_wdt_timer, r_wdt_reset>>
host     == <<in_stb, in_word, due, told, everReset, missed>>

\* A codeword is handed to the bus master only while that is not busy. After a write it
\* stays busy, as it waits to see the next one (wbuexec.v:195-212): until the watchdog,
\* or, with its cycle closed by an error, for ever.
fifo_in_stb_WhileBusy == ififo_empty_n
fifo_in_stb == ~w_bus_busy /\ ififo_empty_n

Exec == INSTANCE WbuExec WITH
    i_reset <- r_wdt_reset, i_stb <- fifo_in_stb, i_codword <- fifo_in_word,
    o_busy <- w_bus_busy, o_stb <- exec_stb, o_codword <- exec_word

vars == <<fifos, watchdog, host, Exec!exec, Exec!busIn, atSlave>>

(***************************************************************************)
(* The two FIFOs (HeldStep of WbuConsoleProofs: when a word is offered).   *)
(***************************************************************************)
Pushed(q, taken, wr, w, depth) ==
    (IF taken THEN Tail(q) ELSE q)
    \o (IF wr /\ (Len(q) < depth \/ taken) THEN <<w>> ELSE << >>)

Offers(q, offered, taken) ==
    Len(q) > (IF offered THEN 1 ELSE 0) \/ (offered /\ ~taken)

CommandFifoClock ==
    /\ ififo' = IF r_wdt_reset THEN << >>
                ELSE Pushed(ififo, fifo_in_stb, in_stb, in_word, IDepth)
    /\ ififo_empty_n' =
          (~r_wdt_reset /\ Offers(ififo, ififo_empty_n, fifo_in_stb))
    /\ fifo_in_word' = IF ififo_empty_n' THEN Head(ififo') ELSE fifo_in_word

AnswerFifoClock ==
    /\ ofifo' = IF r_wdt_reset THEN << >>
                ELSE Pushed(ofifo, ofifo_rd, exec_stb, exec_word, ODepth)
    /\ ofifo_empty_n' = (~r_wdt_reset /\ Offers(ofifo, ofifo_empty_n, ofifo_rd))
    /\ ofifo_rd' \in {FALSE, ofifo_empty_n'}

(***************************************************************************)
(* The watchdog.                                                           *)
(***************************************************************************)
WatchdogClock ==
    LET quiet == ~o_wb_cyc \/ i_wb_ack
    IN  /\ r_wdt_timer' = IF quiet \/ r_wdt_timer = WATCHDOG THEN 0
                          ELSE r_wdt_timer + 1
        /\ r_wdt_reset' = (~quiet /\ r_wdt_timer = WATCHDOG)

(***************************************************************************)
(* The host.                                                               *)
(***************************************************************************)
NoAddress == ADDRESSES
NoCommand == [op |-> "eow"]    \* in_word without in_stb, past the last write

Words(cw) == IF cw.op = "read" THEN cw.len ELSE 0

MaySend_OneMore(cw) ==
    /\ cw.op \in {"addr", "rel", "write"} => due = 0
    /\ cw.op = "read" => due + cw.len <= Window + 1
MaySend(cw) ==
    /\ cw.op \in {"addr", "rel", "write"} => due = 0
    /\ cw.op = "read" => due + cw.len <= Window

Follows(last, cw) ==
    /\ last.op = "write" => cw.op = "eow" \/ (cw.op = "write" /\ cw.inc = last.inc)
    /\ cw.op = "eow" => last.op = "write"

\* The answer the host is given on this clock.
Answer == Head(ofifo)

AnswerFits == exec_stb => Len(ofifo) < ODepth \/ ofifo_rd

\* What it has left to read, and knows of the address, after that answer.
Unread ==
    IF ~ofifo_rd THEN due
    ELSE CASE Answer.kind = "data" -> IF due > 0 THEN due - 1 ELSE 0
           [] Answer.kind \in {"reset", "err"} -> 0
           [] OTHER -> due

ToldAt ==
    IF ~ofifo_rd THEN told
    ELSE CASE Answer.kind = "data" /\ told # NoAddress ->
                 (told + (IF Answer.inc THEN 1 ELSE 0)) % ADDRESSES
           [] Answer.kind = "addr"  -> Answer.a
           [] Answer.kind = "reset" -> NoAddress
           [] OTHER -> told

HostClock ==
    /\ told' = ToldAt
    /\ everReset' = (everReset \/ r_wdt_reset)
    /\ missed' = (~r_wdt_reset /\ (missed \/ ~AnswerFits))
    /\ \/ /\ in_stb' = FALSE
          /\ due' = Unread
          /\ in_word' = IF in_word.op = "write" THEN in_word ELSE NoCommand
       \/ /\ in_stb' = TRUE
          /\ \E cw \in Exec!Command :
                /\ cw.op \in HostOps
                /\ MaySend(cw)
                /\ Follows(in_word, cw)
                /\ in_word' = cw
                /\ due' = Unread + Words(cw)

Init == /\ Exec!ExecInit
        /\ o_wb_addr = 0
        /\ ififo = << >> /\ ififo_empty_n = FALSE /\ fifo_in_word = [op |-> "eow"]
        /\ ofifo = << >> /\ ofifo_empty_n = FALSE /\ ofifo_rd = FALSE
        /\ r_wdt_timer = 0 /\ r_wdt_reset = FALSE
        /\ in_stb = FALSE /\ in_word = [op |-> "eow"]
        /\ due = 0 /\ told = NoAddress /\ everReset = FALSE /\ missed = FALSE

Next == /\ Exec!ExecClock
        /\ CommandFifoClock /\ AnswerFifoClock /\ WatchdogClock /\ HostClock
        /\ i_wb_err' => wb_state' \in MayErr

Spec == Init /\ [][Next]_vars
-----------------------------------------------------------------------------
\* As long as every bus cycle is answered in time, no answer is lost for want
\* of room: what readv() may leave unread, and the address that goes before it,
\* are exactly what the answer FIFO holds (ttybus.cpp:514 and :531-535;
\* wbuconsole.v:69, LGOUTPUT_FIFO).
AnswersFit == ~everReset => AnswerFits

\* Whatever commands and answers the watchdog threw away, the host is not given
\* a word without having been told, since then, the address it was read from
\* (wbuexec.v:266-273, r_new_addr, against the two resets of wbuconsole.v:135
\* and :162).
ToldAfterReset ==
    ofifo_rd /\ Answer.kind = "data" /\ ~missed => Answer.a = told

\* A codeword only gets to the bus master when the one before it is over: its cycle
\* closed, its strobe down and nothing of it left at a slave, after the last word of a
\* read as after an error or the watchdog's reset (wbuconsole.v:146-148, "This only works
\* if no requests come in while requests are pending").
NoRequestWhilePending == fifo_in_stb => ~o_wb_cyc /\ ~o_wb_stb /\ atSlave = << >>
=============================================================================
