----------------------------- MODULE WbuOutput -----------------------------
(***************************************************************************)
(* The way out of the debug port, rtl/wbubus/wbuoutput.v behind its FIFO:  *)
(* wbuidleint.v puts interrupt and idle codewords between the answers,     *)
(* wbucompress.v (two stages) looks for shorter forms of them, wbudeword.v *)
(* sends each one as characters of six bits and a newline, and             *)
(* wbucompactlines.v swallows the newlines that a line does not need.      *)
(* Each stage holds what it has until the next one takes it.               *)
(*                                                                         *)
(* A codeword is a model value; compression only changes how many          *)
(* characters it becomes, so an answer may become 1 .. LongWord of them.   *)
(* The inputs of a clock are a record in: the bus cycle, the strobe of the *)
(* bus master, the interrupt, the FIFO in front and the stage behind.      *)
(*                                                                         *)
(* words, at and quiet are not in the code: the codewords not yet sent in  *)
(* full, which character of the first one comes next, and whether the bus  *)
(* and the interrupt have gone quiet for good.                             *)
(***************************************************************************)
EXTENDS Naturals, Sequences

CONSTANTS Data,       \* the codewords of the bus master
          LongWord,   \* characters in the longest codeword: 6
          MaxLine,    \* MAX_LINE_LENGTH: 79
          IDLE,       \* clocks until the idle word: 2^(IDLEBITS-1)
          NewLine     \* the character 7'h40

\* The codewords that can be on their way, and the characters they become.
Words == Data \cup {"interrupt", "busbusy", "idle"}
Chars == [w : Words, n : 1 .. LongWord, last : BOOLEAN]

ASSUME OutputAssumption ==
    /\ LongWord \in Nat \ {0} /\ MaxLine \in Nat /\ MaxLine > LongWord
    /\ IDLE \in Nat
    /\ NewLine \notin Chars

TRIGGER == MaxLine - LongWord

VARIABLES
    int_request, int_sent, idle_counter, idle_state, cw_stb, cw_word,
    aword_valid, a_addrword, cp_stb, cp_word,
    dw_stb, dw_bits, r_len,
    ln_stb, ln_bits, r_busy, last_out_nl, last_in_nl, full_line, linelen,
    words, at, quiet

idleint  == <<int_request, int_sent, idle_counter, idle_state, cw_stb, cw_word>>
compress == <<aword_valid, a_addrword, cp_stb, cp_word>>
deword   == <<dw_stb, dw_bits, r_len>>
lines    == <<ln_stb, ln_bits, r_busy, last_out_nl, last_in_nl, full_line, linelen>>
vars     == <<idleint, compress, deword, lines, words, at, quiet>>

Inputs == [cyc : BOOLEAN, busy : BOOLEAN, int : BOOLEAN,
           have : BOOLEAN, word : Data, tx_busy : BOOLEAN]
Quiet(in) == ~in.cyc /\ ~in.busy /\ ~in.int /\ ~in.have

tbl_busy == cp_stb /\ dw_stb
cp_busy  == aword_valid /\ tbl_busy
ln_busy  == r_busy \/ ln_stb

fifo_rd(in) == in.have /\ ~cw_stb
CwSent      == cw_stb /\ ~(cp_stb /\ cp_busy)

(***************************************************************************)
(* wbuidleint.v.                                                           *)
(***************************************************************************)
IntClock_ForgetWhileBusy(in) ==
    /\ int_request' = ((int_request /\ ~cw_stb) \/ in.int)
    /\ int_sent' = ((int_request /\ ~cw_stb /\ ~fifo_rd(in)) \/ (int_sent /\ in.int))
IntClock(in) ==
    /\ int_request' =
          IF CwSent /\ cw_word = "interrupt" THEN in.int ELSE int_request \/ in.int
    /\ int_sent' = ((int_request /\ ~cw_stb /\ ~fifo_rd(in)) \/ (int_sent /\ in.int))

expired == idle_counter = IDLE
IdleClock(in) ==
    /\ idle_counter' = IF fifo_rd(in) \/ cw_stb \/ in.busy THEN 0
                       ELSE IF expired THEN idle_counter ELSE idle_counter + 1
    /\ idle_state' = ((CwSent /\ cw_word = "idle") \/ (idle_state /\ expired))

Generated(in) == IF int_request /\ ~int_sent THEN "interrupt"
                 ELSE IF in.cyc THEN "busbusy" ELSE "idle"
WordClock(in) ==
    IF cw_stb /\ ~CwSent THEN UNCHANGED <<cw_stb, cw_word>>
    ELSE /\ cw_stb' = \/ fifo_rd(in)
                      \/ ~cw_stb /\ (int_request \/ (~idle_state /\ expired))
         /\ cw_word' = IF fifo_rd(in) THEN in.word ELSE Generated(in)

(***************************************************************************)
(* wbucompress.v: the word with its address shortened, then the word that  *)
(* is being looked up.                                                     *)
(***************************************************************************)
CompressClock_TakeWhileBusy ==
    /\ aword_valid' = (cw_stb \/ (aword_valid /\ tbl_busy))
    /\ a_addrword'  = IF cw_stb \/ ~aword_valid \/ ~tbl_busy THEN cw_word ELSE a_addrword
    /\ cp_stb'  = (aword_valid \/ (cp_stb /\ dw_stb))
    /\ cp_word' = IF tbl_busy THEN cp_word ELSE a_addrword
CompressClock ==
    /\ aword_valid' = (cw_stb \/ (aword_valid /\ tbl_busy))
    /\ a_addrword'  = IF ~aword_valid \/ ~tbl_busy THEN cw_word ELSE a_addrword
    /\ cp_stb'  = (aword_valid \/ (cp_stb /\ dw_stb))
    /\ cp_word' = IF tbl_busy THEN cp_word ELSE a_addrword

(***************************************************************************)
(* wbudeword.v.                                                            *)
(***************************************************************************)
Char(w, n, last) == [w |-> w, n |-> n, last |-> last]
Lengths(w) == IF w \in Data THEN 1 .. LongWord ELSE {1}

DewordClock ==
    IF cp_stb /\ ~dw_stb
    THEN \E n \in Lengths(cp_word) :
            /\ dw_stb' = TRUE /\ r_len' = n
            /\ dw_bits' = Char(cp_word, 1, n = 1)
    ELSE IF ln_busy THEN UNCHANGED deword
    ELSE /\ dw_stb' = (dw_stb /\ r_len # 0)
         /\ r_len' = IF r_len > 0 THEN r_len - 1 ELSE 0
         /\ dw_bits' = IF r_len > 1 THEN Char(dw_bits.w, dw_bits.n + 1, r_len = 2)
                       ELSE NewLine

(***************************************************************************)
(* wbucompactlines.v.                                                      *)
(***************************************************************************)
LnTakes    == dw_stb /\ ~ln_busy
LnSent(in) == ln_stb /\ ~in.tx_busy

AddNewLine(in) ==
    /\ ~in.tx_busy /\ ~(in.cyc \/ in.busy \/ in.have \/ cw_stb)
    /\ ~last_out_nl /\ last_in_nl

LineLenClock_OffByOne(in) ==
    IF ~LnSent(in) THEN UNCHANGED <<last_out_nl, linelen, full_line>>
    ELSE IF ln_bits = NewLine THEN last_out_nl' = TRUE /\ linelen' = 0 /\ full_line' = FALSE
    ELSE /\ last_out_nl' = FALSE /\ linelen' = linelen + 1
         /\ full_line' = (linelen > TRIGGER)
LineLenClock(in) ==
    IF ~LnSent(in) THEN UNCHANGED <<last_out_nl, linelen, full_line>>
    ELSE IF ln_bits = NewLine THEN last_out_nl' = TRUE /\ linelen' = 0 /\ full_line' = FALSE
    ELSE /\ last_out_nl' = FALSE /\ linelen' = linelen + 1
         /\ full_line' = (linelen >= TRIGGER)

BusyClock_NotCleared(in) == r_busy' = (r_busy \/ (ln_stb /\ in.tx_busy))
BusyClock(in) == r_busy' = (ln_stb /\ in.tx_busy)

LineClock(in) ==
    /\ LineLenClock(in) /\ BusyClock(in)
    /\ last_in_nl' = IF LnTakes THEN dw_bits = NewLine ELSE last_in_nl
    /\ ln_stb' = IF LnTakes THEN full_line \/ dw_bits # NewLine
                 ELSE IF ~ln_busy THEN AddNewLine(in)
                 ELSE ln_stb /\ in.tx_busy
    /\ ln_bits' = IF LnTakes THEN dw_bits ELSE IF ~ln_busy THEN NewLine ELSE ln_bits

(***************************************************************************)
(* What is owed to the host: words enter at wbuidleint.v and leave with    *)
(* their last character.                                                   *)
(***************************************************************************)
Loaded == cw_stb' /\ (~cw_stb \/ CwSent)
WordDone(in) == LnSent(in) /\ ln_bits # NewLine /\ ln_bits.last

OwedClock(in) ==
    /\ words' = (IF WordDone(in) /\ words # << >> THEN Tail(words) ELSE words)
                \o (IF Loaded THEN <<cw_word'>> ELSE << >>)
    /\ at' = IF ~LnSent(in) \/ ln_bits = NewLine THEN at
             ELSE IF ln_bits.last THEN 1 ELSE at + 1
    /\ quiet' \in {TRUE, quiet}
    /\ quiet' => Quiet(in)

Init ==
    /\ int_request = FALSE /\ int_sent = FALSE /\ idle_counter = 0
    /\ idle_state = FALSE /\ cw_stb = FALSE /\ cw_word = "idle"
    /\ aword_valid = FALSE /\ a_addrword = "idle" /\ cp_stb = FALSE /\ cp_word = "idle"
    /\ dw_stb = FALSE /\ dw_bits = NewLine /\ r_len = 0
    /\ ln_stb = FALSE /\ ln_bits = NewLine /\ r_busy = FALSE
    /\ last_out_nl = TRUE /\ last_in_nl = TRUE /\ full_line = FALSE /\ linelen = 0
    /\ words = << >> /\ at = 1 /\ quiet = FALSE

Clock(in) ==
    /\ IntClock(in) /\ IdleClock(in) /\ WordClock(in)
    /\ CompressClock /\ DewordClock /\ LineClock(in) /\ OwedClock(in)

Next == \E in \in Inputs : Clock(in)

Spec == Init /\ [][Next]_vars

\* The clock runs, the next stage is ready again and again, and so is a gap
\* between the answers of the bus master.
Ready == \E in \in Inputs : ~in.tx_busy /\ Clock(in)
Gap   == ~cw_stb /\ \E in \in Inputs : ~in.have /\ Clock(in)
LiveSpec == Spec /\ WF_vars(Next) /\ SF_vars(Ready) /\ SF_vars(Gap)
-----------------------------------------------------------------------------
\* Every character that leaves is the next one of the oldest codeword not yet
\* sent: no codeword is lost, repeated or cut short between the five stages,
\* and a newline only falls between two of them (wbuoutput.v:7-10; wbuoutput.v
\* :91-96 note how stages have been seen to get stuck).
CharsInOrder ==
    ln_stb => IF ln_bits = NewLine THEN at = 1
              ELSE words # << >> /\ ln_bits.w = Head(words) /\ ln_bits.n = at

\* No line is longer than an 80-character display shows, though a newline is
\* only sent where a codeword ends (wbucompactlines.v:7-10, MAX_LINE_LENGTH).
LineFits == linelen <= MaxLine

\* Once the bus is quiet for good, every answer gets out, and the line it is on
\* is ended, however slow the transmitter and whatever idle words still follow
\* (wbucompactlines.v:46-47 and :117-127).
OnlyIdle == \A i \in DOMAIN words : words[i] = "idle"
Drains == quiet ~> OnlyIdle /\ last_out_nl

\* An interrupt that has not been announced is, however busy the bus is
\* (wbuidleint.v:70-75 and :132-137).
InterruptTold == int_request /\ ~int_sent ~> cw_stb /\ cw_word = "interrupt"
=============================================================================
