------------------------------ MODULE WbuExec ------------------------------
(***************************************************************************)
(* The bus master of the debug port, rtl/wbubus/wbuexec.v: it takes        *)
(* codewords (set address, write, vector read, end of write), runs them on *)
(* the Wishbone bus and turns what the bus answers into codewords for the  *)
(* host.  One step is one rising edge of i_clk.                            *)
(*                                                                         *)
(* A codeword is a record; addresses have ADDRESSES values and wrap.  The  *)
(* slave behind the bus remembers the requests it has accepted, and a read *)
(* returns its own address, so that an answer says where it was read.      *)
(***************************************************************************)
EXTENDS Naturals, Sequences

CONSTANTS ADDRESSES,      \* the width of an address: 2^32 in the code
          MaxLen,         \* the longest vector read: 520 in the code
          WriteData,      \* what a write codeword can carry
          MaxAtSlave      \* bound: requests a slave accepts before answering

ASSUME ExecAssumption ==
    /\ ADDRESSES \in Nat \ {0}
    /\ MaxLen \in 1 .. 1023    \* within the ten bits of r_acks_needed
    /\ MaxAtSlave \in Nat \ {0}

Address == 0 .. ADDRESSES-1
Command ==
    [op : {"addr"}, a : Address]
       \cup [op : {"rel"}, a : Address]
       \cup [op : {"write"}, d : WriteData, inc : BOOLEAN]
       \cup [op : {"read"}, len : 1 .. MaxLen, inc : BOOLEAN]
       \cup [op : {"eow"}]
Answer ==
    [kind : {"reset", "err", "wack"}]
       \cup [kind : {"addr"}, a : Address]
       \cup [kind : {"data"}, a : Address, inc : BOOLEAN]

VARIABLES
    i_reset, i_stb, i_codword,              \* the commands
    i_wb_stall, i_wb_ack, i_wb_err,         \* the bus
    wb_state, o_busy,
    o_wb_cyc, o_wb_stb, o_wb_we, o_wb_addr, o_wb_data,
    r_inc, r_new_addr, r_acks_needed, zero_acks,
    r_len, last_ack, last_read_request, single_read_request,
    o_stb, o_codword,                       \* the answers
    atSlave                                 \* accepted by the slave, in order

busIn   == <<i_wb_stall, i_wb_ack, i_wb_err>>
control == <<wb_state, o_busy, o_wb_cyc, o_wb_stb, o_wb_we, o_wb_addr, o_wb_data>>
reading == <<r_len, last_ack, last_read_request, single_read_request>>
exec    == <<control, r_inc, r_new_addr, r_acks_needed, zero_acks, reading,
             o_stb, o_codword>>
vars    == <<i_reset, i_stb, i_codword, busIn, exec, atSlave>>

IsWrite(cw) == cw.op = "write"
IsRead(cw)  == cw.op = "read"
Len1(cw)    == IsRead(cw) /\ cw.len <= 1
LenOf(cw)   == IF IsRead(cw) THEN cw.len ELSE 0
IncOf(cw)   == (IsRead(cw) \/ IsWrite(cw)) /\ cw.inc

Issued == o_wb_stb /\ ~i_wb_stall
Starts == wb_state = "idle" /\ i_stb /\ (IsRead(i_codword) \/ IsWrite(i_codword))

(***************************************************************************)
(* The state machine: wb_state, o_wb_cyc, o_wb_stb, o_busy, o_wb_data.     *)
(***************************************************************************)
ControlTo(st, cyc, stb, busy) ==
    /\ wb_state' = st /\ o_wb_cyc' = cyc /\ o_wb_stb' = stb /\ o_busy' = busy

Idle ==
    /\ wb_state = "idle"
    /\ o_wb_data' = IF IsWrite(i_codword) THEN i_codword.d ELSE o_wb_data
    /\ IF ~Starts THEN ControlTo("idle", FALSE, FALSE, o_busy)
       ELSE ControlTo(IF IsRead(i_codword) THEN "read" ELSE "write", TRUE, TRUE, TRUE)

LastIssued == Issued /\ (single_read_request \/ last_read_request)

ReadRequest ==
    /\ wb_state = "read"
    /\ UNCHANGED o_wb_data
    /\ IF i_wb_err \/ (i_wb_ack /\ last_ack)
       THEN ControlTo("idle", FALSE, o_wb_stb /\ ~LastIssued /\ ~i_wb_err, FALSE)
       ELSE ControlTo("read", TRUE, o_wb_stb /\ ~LastIssued, o_busy)

\* The next command, looked at only when the strobe is down.
NextIsWrite == i_stb /\ ~o_wb_stb /\ IsWrite(i_codword)
NextIsOther == i_stb /\ ~o_wb_stb /\ ~IsWrite(i_codword)

WriteRequest ==
    /\ wb_state = "write"
    /\ o_wb_data' = IF ~o_busy /\ IsWrite(i_codword) THEN i_codword.d ELSE o_wb_data
    /\ \/ /\ i_wb_err
          /\ ControlTo("flush", FALSE, FALSE, TRUE)
       \/ /\ ~i_wb_err /\ i_stb /\ ~o_wb_stb /\ ~o_busy
          /\ ControlTo("write", TRUE, TRUE, TRUE)
       \/ /\ ~i_wb_err /\ o_busy /\ NextIsWrite
          /\ ControlTo("write", TRUE, FALSE, FALSE)
       \/ /\ ~i_wb_err /\ o_busy /\ NextIsOther /\ zero_acks
          /\ ControlTo("idle", FALSE, FALSE, FALSE)
       \/ /\ ~i_wb_err
          /\ ~(i_stb /\ ~o_wb_stb) \/ (o_busy /\ NextIsOther /\ ~zero_acks)
          /\ ControlTo("write", TRUE, o_wb_stb /\ i_wb_stall, TRUE)

\* An error among writes: the rest of the burst is to be skipped.
Flush ==
    /\ wb_state = "flush"
    /\ UNCHANGED o_wb_data
    /\ IF i_stb /\ ~IsWrite(i_codword) THEN ControlTo("idle", FALSE, FALSE, FALSE)
       ELSE ControlTo("flush", FALSE, FALSE, TRUE)

ControlClock ==
    /\ IF i_reset
       THEN ControlTo("idle", FALSE, FALSE, FALSE) /\ UNCHANGED o_wb_data
       ELSE Idle \/ ReadRequest \/ WriteRequest \/ Flush
    /\ o_wb_we' = IF wb_state = "idle" THEN ~IsRead(i_codword) /\ i_codword.op # "eow"
                  ELSE o_wb_we

(***************************************************************************)
(* Addresses.                                                              *)
(***************************************************************************)
AddressClock_WhileBusy ==
    /\ o_wb_addr' =
          IF i_stb /\ i_codword.op = "addr" THEN i_codword.a
          ELSE IF i_stb /\ i_codword.op = "rel"
               THEN (o_wb_addr + i_codword.a) % ADDRESSES
          ELSE IF Issued /\ r_inc THEN (o_wb_addr + 1) % ADDRESSES
          ELSE o_wb_addr
    /\ r_inc' = IF wb_state = "idle" THEN IncOf(i_codword) ELSE r_inc
AddressClock ==
    /\ o_wb_addr' =
          IF i_stb /\ ~o_busy /\ i_codword.op = "addr" THEN i_codword.a
          ELSE IF i_stb /\ ~o_busy /\ i_codword.op = "rel"
               THEN (o_wb_addr + i_codword.a) % ADDRESSES
          ELSE IF Issued /\ r_inc THEN (o_wb_addr + 1) % ADDRESSES
          ELSE o_wb_addr
    /\ r_inc' = IF wb_state = "idle" THEN IncOf(i_codword) ELSE r_inc

NewAddrClock_NotOnReset ==
    r_new_addr' =
       (/\ ~o_wb_cyc
        /\ (i_stb /\ i_codword.op \in {"addr", "rel", "write"}) \/ r_new_addr)
NewAddrClock ==
    r_new_addr' =
       (\/ i_reset
        \/ ~o_wb_cyc /\ i_stb /\ i_codword.op \in {"addr", "rel", "write"}
        \/ ~o_wb_cyc /\ r_new_addr)

(***************************************************************************)
(* How much of a vector read is left to ask for and to be answered.  The   *)
(* counter of acknowledgements is ten bits wide.                           *)
(***************************************************************************)
AcksClock ==
    /\ r_acks_needed' =
          IF i_reset \/ ~o_wb_cyc THEN 0
          ELSE IF Issued /\ ~i_wb_ack THEN (r_acks_needed + 1) % 1024
          ELSE IF ~Issued /\ i_wb_ack THEN (r_acks_needed + 1023) % 1024
          ELSE r_acks_needed
    /\ zero_acks' =
          IF i_reset \/ ~o_wb_cyc THEN TRUE
          ELSE IF Issued /\ ~i_wb_ack THEN FALSE
          ELSE IF ~Issued /\ i_wb_ack THEN r_acks_needed = 1
          ELSE zero_acks

\* Whether the next acknowledgement is the last.
NextIsLast_Early        == ~o_wb_we /\ r_len + r_acks_needed <= 2
NextIsLast ==
    ~o_wb_we /\ r_len + r_acks_needed <= (IF i_wb_ack THEN 2 ELSE 1)

LenClock ==
    /\ r_len' = IF ~o_wb_cyc THEN LenOf(i_codword)
                ELSE IF Issued /\ r_len > 0 THEN r_len - 1 ELSE r_len
    /\ last_ack' = IF ~o_wb_cyc THEN Len1(i_codword) ELSE NextIsLast
    /\ single_read_request' =
          IF ~o_wb_cyc THEN LenOf(i_codword) <= 1 ELSE single_read_request
    /\ last_read_request' =
          IF ~o_wb_cyc THEN LenOf(i_codword) <= 1
          ELSE r_len <= (IF Issued THEN 2 ELSE 1)

(***************************************************************************)
(* What is told to the host.                                               *)
(***************************************************************************)
AnswerClock ==
    /\ o_stb' = \/ i_reset
                \/ ~o_wb_cyc /\ i_stb /\ ~o_busy /\ IsRead(i_codword) /\ r_new_addr
                \/ o_wb_cyc /\ (i_wb_err \/ i_wb_ack)
    /\ o_codword' =
          IF i_reset THEN [kind |-> "reset"]
          ELSE IF ~o_wb_cyc THEN [kind |-> "addr", a |-> o_wb_addr]
          ELSE IF i_wb_err THEN [kind |-> "err"]
          ELSE IF o_wb_we THEN [kind |-> "wack"]
          ELSE IF i_wb_ack THEN [kind |-> "data", a |-> Head(atSlave).a, inc |-> r_inc]
          ELSE o_codword

(***************************************************************************)
(* The slave: it accepts requests in order, up to MaxAtSlave of them, and  *)
(* answers them in order, or ends the cycle with an error.                 *)
(***************************************************************************)
Request == [we : BOOLEAN, a : Address]

SlaveClock ==
    /\ atSlave' =
          IF ~o_wb_cyc \/ ~o_wb_cyc' THEN << >>
          ELSE (IF i_wb_ack THEN Tail(atSlave) ELSE atSlave)
               \o (IF Issued THEN <<[we |-> o_wb_we, a |-> o_wb_addr]>> ELSE << >>)
    /\ i_wb_stall' \in BOOLEAN
    /\ Len(atSlave') >= MaxAtSlave => i_wb_stall'
    /\ i_wb_ack' \in BOOLEAN
    /\ i_wb_err' \in BOOLEAN
    /\ i_wb_ack' \/ i_wb_err' => atSlave' # << >>
    /\ ~(i_wb_ack' /\ i_wb_err')

ExecInit ==
    /\ wb_state = "idle" /\ o_busy = FALSE
    /\ o_wb_cyc = FALSE /\ o_wb_stb = FALSE /\ o_wb_we = FALSE
    /\ o_wb_addr \in Address /\ o_wb_data \in WriteData
    /\ r_inc = FALSE /\ r_new_addr = TRUE
    /\ r_acks_needed = 0 /\ zero_acks = TRUE
    /\ r_len = 0 /\ last_ack = FALSE
    /\ last_read_request = FALSE /\ single_read_request = FALSE
    /\ o_stb = FALSE /\ o_codword = [kind |-> "reset"]
    /\ i_wb_stall = FALSE /\ i_wb_ack = FALSE /\ i_wb_err = FALSE
    /\ atSlave = << >>

ExecClock ==
    /\ ControlClock /\ AddressClock /\ NewAddrClock
    /\ AcksClock /\ LenClock /\ AnswerClock /\ SlaveClock
=============================================================================
