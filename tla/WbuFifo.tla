------------------------------ MODULE WbuFifo -------------------------------
(***************************************************************************)
(* The FIFO rtl/wbubus/wbufifo.v: a memory of FLEN words behind a          *)
(* registered output, with full and empty flags computed one clock ahead.  *)
(* wbuconsole.v uses it for the commands on their way to the bus (64) and  *)
(* wbuoutput.v for the answers on their way out (1024).                    *)
(*                                                                         *)
(* One step is one rising edge of i_clk.  The inputs are arbitrary: writes *)
(* while full and reads while empty, which the code reports on o_err, are  *)
(* among them.  Pointers have one bit more than an address.                *)
(***************************************************************************)
EXTENDS Naturals, Sequences

CONSTANTS FLEN, Word

ASSUME FLENAssumption == FLEN \in Nat /\ FLEN >= 4

VARIABLES i_reset, i_wr, i_data, i_rd,
          fifo, r_wrptr, r_rdptr,
          will_overflow, will_underflow,
          o_data, o_empty_n

inputs    == <<i_reset, i_wr, i_data, i_rd>>
registers == <<inputs, fifo, r_wrptr, r_rdptr, will_overflow, will_underflow,
               o_data, o_empty_n>>

Addresses == 0 .. FLEN-1
Pointers  == 0 .. 2*FLEN-1

next(p)    == IF p = 2*FLEN-1 THEN 0 ELSE p + 1
address(p) == IF p < FLEN THEN p ELSE p - FLEN

r_empty_n == ~will_underflow

w_write_WhenFull == i_wr
w_write == i_wr /\ (~will_overflow \/ i_rd)
w_read  == (i_rd \/ ~o_empty_n) /\ ~will_underflow

WriteClock ==
    /\ r_wrptr' = IF i_reset THEN 0
                  ELSE IF w_write THEN next(r_wrptr) ELSE r_wrptr
    /\ fifo' = IF w_write THEN [fifo EXCEPT ![address(r_wrptr)] = i_data]
               ELSE fifo
    /\ will_overflow' =
          /\ ~i_reset
          /\ IF i_rd THEN will_overflow /\ i_wr
             ELSE IF w_write
                  THEN /\ address(next(r_wrptr)) = address(r_rdptr)
                       /\ next(r_wrptr) # r_rdptr
             ELSE will_overflow

ReadClock ==
    /\ r_rdptr' = IF i_reset THEN 0
                  ELSE IF w_read /\ r_empty_n THEN next(r_rdptr) ELSE r_rdptr
    /\ will_underflow' =
          IF i_reset THEN TRUE
          ELSE IF i_wr THEN FALSE
          ELSE IF w_read THEN will_underflow \/ next(r_rdptr) = r_wrptr
          ELSE will_underflow
    /\ o_data' = IF w_read /\ r_empty_n THEN fifo[address(r_rdptr)] ELSE o_data
    /\ o_empty_n' = IF i_reset THEN FALSE
                    ELSE IF ~o_empty_n \/ i_rd THEN r_empty_n ELSE o_empty_n

InputsOK == /\ i_reset \in BOOLEAN
            /\ i_wr \in BOOLEAN
            /\ i_data \in Word
            /\ i_rd \in BOOLEAN

\* Neither the memory nor the output register has an initial value.
FifoInit ==
    /\ InputsOK
    /\ fifo \in [Addresses -> Word]
    /\ o_data \in Word
    /\ r_wrptr = 0 /\ r_rdptr = 0
    /\ will_overflow = FALSE /\ will_underflow = TRUE
    /\ o_empty_n = FALSE

InputsClock == /\ i_reset' \in BOOLEAN
               /\ i_wr' \in BOOLEAN
               /\ i_data' \in Word
               /\ i_rd' \in BOOLEAN

FifoClock == WriteClock /\ ReadClock /\ InputsClock

FifoSpec == FifoInit /\ [][FifoClock]_registers

TypeOK ==
    /\ InputsOK
    /\ fifo \in [Addresses -> Word]
    /\ r_wrptr \in Pointers /\ r_rdptr \in Pointers
    /\ will_overflow \in BOOLEAN /\ will_underflow \in BOOLEAN
    /\ o_data \in Word
    /\ o_empty_n \in BOOLEAN
-----------------------------------------------------------------------------
f_fifo_fill == IF r_wrptr >= r_rdptr THEN r_wrptr - r_rdptr
               ELSE r_wrptr + 2*FLEN - r_rdptr

\* The flags, registers set a clock ahead from the inputs, always tell the
\* truth about the pointers: the memory never holds more than it has room
\* for, and more than one word is never kept without one being offered (the
\* assertions of wbufifo.v:138-152).
FlagsAgree ==
    /\ f_fifo_fill <= FLEN
    /\ will_underflow <=> f_fifo_fill = 0
    /\ will_overflow <=> f_fifo_fill = FLEN
    /\ f_fifo_fill > 1 => o_empty_n

\* The words held, oldest first: the one in the output register, then those
\* in memory.
after(p, k) == IF p + k < 2*FLEN THEN p + k ELSE p + k - 2*FLEN
InMemory(k) == fifo[address(after(r_rdptr, k))]
Held == f_fifo_fill + (IF o_empty_n THEN 1 ELSE 0)
word(k) == IF ~o_empty_n THEN InMemory(k - 1)
           ELSE IF k = 1 THEN o_data ELSE InMemory(k - 2)
Contents == [k \in 1 .. Held |-> word(k)]

\* A FIFO is a queue of one word more than its memory.
Queue == INSTANCE WbuQueue WITH
    Depth <- FLEN + 1, q <- Contents, offered <- o_empty_n

ImplementsQueue == Queue!Spec

\* A word written to an empty FIFO is offered two clocks later, whatever else
\* is written or read meanwhile.
OffersNext == [][f_fifo_fill > 0 /\ ~i_reset => o_empty_n']_registers
=============================================================================
