-------------------------- MODULE WbuOutputProofs --------------------------
(***************************************************************************)
(* For a codeword and a line of any length, and for any inputs on every    *)
(* clock: no line is longer than MaxLine.  A line may only end where a     *)
(* codeword does, so the proof follows a codeword through wbudeword.v:     *)
(* when its first character is taken the line is at most TRIGGER long, and *)
(* each of its LongWord characters adds one.                               *)
(*                                                                         *)
(* Then the codewords: those owed to the host are, in their order, what    *)
(* the five stages hold, and each character that leaves is the next.       *)
(*                                                                         *)
(* Last, where the characters go on a real board: netuart.cpp and its two  *)
(* sockets, for any number of them.                                        *)
(***************************************************************************)
EXTENDS Integers, WbuOutput, NetUart, SequenceTheorems, FiniteSetTheorems, TLAPS

\* The words in the three stages before wbudeword.v, and what it sends.
WordsType == cw_word \in Words /\ a_addrword \in Words /\ cp_word \in Words

\* wbudeword.v sends a character with as many to follow as r_len says, or the
\* newline with none.
DewordOK ==
    dw_stb => \/ dw_bits = NewLine /\ r_len = 0
              \/ /\ dw_bits \in Chars /\ r_len \in 1 .. LongWord
                 /\ dw_bits.n + r_len <= LongWord + 1

LineType == /\ linelen \in Nat
            /\ full_line <=> linelen > TRIGGER

\* How many characters of the present codeword wbucompactlines.v has taken.
Before == IF ~dw_stb THEN 0
          ELSE IF dw_bits = NewLine THEN LongWord ELSE dw_bits.n - 1

\* The line, with the character that is on its way out, is as long as the
\* codewords that began before TRIGGER and what is taken of the present one;
\* else the newline is what is on its way.
LineOK ==
    IF ln_stb /\ ln_bits = NewLine THEN linelen <= MaxLine
    ELSE (IF ln_stb THEN linelen + 1 ELSE linelen) - TRIGGER <= Before

IInv == WordsType /\ DewordOK /\ LineType /\ LineOK

\* A clock leaves codewords in the stages in front of wbudeword.v.
LEMMA WordsStep ==
  ASSUME WordsType, NEW in \in Inputs, Clock(in)
  PROVE  WordsType'
<1>1. Generated(in) \in Words /\ in.word \in Words
  BY DEF Generated, Words, Inputs
<1>2. cw_word' \in Words
  BY <1>1 DEF Clock, WordClock, WordsType
<1>3. a_addrword' \in Words /\ cp_word' \in Words
  BY DEF Clock, CompressClock, WordsType
<1> QED
  BY <1>2, <1>3 DEF WordsType

\* The character after the one taken, or the newline after the last.
LEMMA DewordStep ==
  ASSUME IInv, NEW in \in Inputs, Clock(in)
  PROVE  DewordOK'
<1> USE OutputAssumption DEF IInv, DewordOK
<1>1. CASE cp_stb /\ ~dw_stb
  <2>1. PICK n \in Lengths(cp_word) :
           dw_stb' = TRUE /\ r_len' = n /\ dw_bits' = Char(cp_word, 1, n = 1)
    BY <1>1 DEF Clock, DewordClock
  <2>2. n \in 1 .. LongWord
    BY DEF Lengths
  <2>3. dw_bits' \in Chars /\ dw_bits'.n = 1
    BY <2>1 DEF Char, Chars, WordsType
  <2> QED
    BY <2>1, <2>2, <2>3
<1>2. CASE ~(cp_stb /\ ~dw_stb) /\ ln_busy
  BY <1>2 DEF Clock, DewordClock, deword, LineType
<1>3. CASE ~(cp_stb /\ ~dw_stb) /\ ~ln_busy
  <2>1. /\ dw_stb' = (dw_stb /\ r_len # 0)
        /\ r_len' = IF r_len > 0 THEN r_len - 1 ELSE 0
        /\ dw_bits' = IF r_len > 1 THEN Char(dw_bits.w, dw_bits.n + 1, r_len = 2)
                      ELSE NewLine
    BY <1>3 DEF Clock, DewordClock
  <2>2. ASSUME dw_stb, r_len > 1
        PROVE  /\ dw_bits' \in Chars /\ dw_bits'.n + r_len' <= LongWord + 1
               /\ r_len' \in 1 .. LongWord
    <3>1. dw_bits \in Chars /\ r_len \in 1 .. LongWord /\ dw_bits.n + r_len <= LongWord + 1
      BY <2>2
    <3>2. dw_bits.n \in 1 .. LongWord /\ dw_bits.w \in Words
      BY <3>1 DEF Chars
    <3>3. dw_bits' = [w |-> dw_bits.w, n |-> dw_bits.n + 1, last |-> r_len = 2]
      BY <2>1, <2>2 DEF Char
    <3>4. dw_bits.n + 1 \in 1 .. LongWord
      BY <3>1, <3>2, <2>2
    <3>5. dw_bits' \in Chars /\ dw_bits'.n = dw_bits.n + 1
      BY <3>2, <3>3, <3>4 DEF Chars
    <3>6. r_len' = r_len - 1
      BY <2>1, <2>2
    <3> QED
      BY <2>2, <3>1, <3>2, <3>5, <3>6
  <2>3. ASSUME dw_stb, ~(r_len > 1)
        PROVE  dw_stb' => dw_bits' = NewLine /\ r_len' = 0
    <3>1. r_len = 0 \/ r_len = 1
      BY <2>3
    <3> QED
      BY <2>1, <3>1
  <2> QED
    BY <2>1, <2>2, <2>3
<1> QED
  BY <1>1, <1>2, <1>3

\* The line grows by the character that is sent, and the flag with it.
LEMMA LineTypeStep ==
  ASSUME IInv, NEW in \in Inputs, Clock(in)
  PROVE  LineType'
<1>1. LineLenClock(in) /\ LineClock(in)
  BY DEF Clock, LineClock
<1>2. linelen' \in Nat /\ (full_line' <=> linelen' > TRIGGER)
  <2>1. TRIGGER \in Nat
    BY OutputAssumption DEF TRIGGER
  <2>2. CASE ~LnSent(in)
    BY <1>1, <2>2 DEF LineLenClock, IInv, LineType
  <2>3. CASE LnSent(in) /\ ln_bits = NewLine
    <3>1. linelen' = 0 /\ full_line' = FALSE
      BY <1>1, <2>3 DEF LineLenClock
    <3> QED
      BY <2>1, <3>1
  <2>4. CASE LnSent(in) /\ ln_bits # NewLine
    <3>1. linelen' = linelen + 1 /\ (full_line' <=> linelen >= TRIGGER)
      BY <1>1, <2>4 DEF LineLenClock
    <3> QED
      BY <2>1, <3>1 DEF IInv, LineType
  <2> QED
    BY <2>2, <2>3, <2>4
<1> QED
  BY <1>2 DEF LineType

\* What is taken, what is held and what is sent, one at a time.
LEMMA LineStep ==
  ASSUME IInv, NEW in \in Inputs, Clock(in)
  PROVE  LineOK'
<1> USE OutputAssumption DEF IInv, LineType
<1>0. TRIGGER \in Nat /\ TRIGGER + LongWord = MaxLine
  BY DEF TRIGGER
<1>a. linelen \in Nat /\ (full_line <=> linelen > TRIGGER)
  OBVIOUS
<1>1. LineClock(in) /\ LineLenClock(in) /\ DewordClock
  BY DEF Clock, LineClock
<1>2. Before \in Nat /\ Before <= LongWord /\ Before' \in Nat
  <2>1. DewordOK /\ DewordOK'
    BY DewordStep
  <2>2. \A c \in Chars : c.n \in 1 .. LongWord
    BY DEF Chars
  <2>3. Before \in 0 .. LongWord
    BY <2>1, <2>2 DEF Before, DewordOK
  <2>4. Before' \in 0 .. LongWord
    BY <2>1, <2>2 DEF Before, DewordOK
  <2> QED
    BY <2>3, <2>4
<1>3. CASE LnTakes
  <2>1. ~ln_stb /\ dw_stb /\ ~ln_busy /\ linelen - TRIGGER <= Before
    BY <1>3 DEF LnTakes, ln_busy, LineOK
  <2>2. linelen' = linelen
    BY <1>1, <2>1 DEF LineLenClock, LnSent
  <2>3. ln_stb' = (full_line \/ dw_bits # NewLine) /\ ln_bits' = dw_bits
    BY <1>1, <1>3 DEF LineClock
  <2>4. CASE dw_bits = NewLine
    <3>1. linelen <= MaxLine
      BY <1>0, <1>2, <2>1
    <3>2. CASE full_line
      BY <2>2, <2>3, <2>4, <3>1, <3>2 DEF LineOK
    <3>3. CASE ~full_line
      <4>1. ~ln_stb'
        BY <2>3, <2>4, <3>3
      <4>2. ~(linelen > TRIGGER)
        BY <1>a, <3>3
      <4>3. linelen' - TRIGGER <= Before'
        BY <1>0, <1>2, <1>a, <2>2, <4>2
      <4> QED
        BY <4>1, <4>3 DEF LineOK
    <3> QED
      BY <3>2, <3>3
  <2>5. CASE dw_bits # NewLine
    <3>1. dw_bits \in Chars /\ r_len \in 1 .. LongWord /\ dw_bits.n + r_len <= LongWord + 1
      BY <2>1, <2>5 DEF DewordOK
    <3>2. dw_bits.n \in 1 .. LongWord
      BY <3>1 DEF Chars
    <3>3. Before = dw_bits.n - 1
      BY <2>1, <2>5 DEF Before
    <3>4. /\ dw_stb' = TRUE
          /\ dw_bits' = IF r_len > 1 THEN Char(dw_bits.w, dw_bits.n + 1, r_len = 2)
                        ELSE NewLine
      <4>1. r_len # 0
        BY <3>1
      <4> QED
        BY <1>1, <2>1, <4>1 DEF DewordClock
    <3>5. Before' >= dw_bits.n
      <4>1. CASE r_len > 1
        <5>1. dw_bits' \in Chars /\ dw_bits'.n = dw_bits.n + 1
          <6>1. DewordOK' /\ dw_bits' = Char(dw_bits.w, dw_bits.n + 1, r_len = 2)
            BY <3>4, <4>1, DewordStep
          <6>2. dw_bits.n + 1 \in 1 .. LongWord /\ dw_bits.w \in Words
            BY <3>1, <3>2, <4>1 DEF Chars
          <6> QED
            BY <6>1, <6>2 DEF Char, Chars
        <5>2. dw_bits' # NewLine
          BY <5>1
        <5> QED
          BY <3>2, <3>4, <5>1, <5>2 DEF Before
      <4>2. CASE ~(r_len > 1)
        BY <3>2, <3>4, <4>2 DEF Before
      <4> QED
        BY <4>1, <4>2
    <3>6. ln_stb' /\ ln_bits' # NewLine
      BY <2>3, <2>5
    <3> QED
      <4>1. (linelen' + 1) - TRIGGER <= Before'
        BY <1>0, <1>2, <2>1, <2>2, <3>2, <3>3, <3>5
      <4> QED
        BY <3>6, <4>1 DEF LineOK
  <2> QED
    BY <2>4, <2>5
<1>4. CASE ~LnTakes /\ ~ln_busy
  <2>1. ~ln_stb /\ ~dw_stb /\ Before = 0 /\ linelen <= TRIGGER
    <3>1. ~ln_stb /\ ~dw_stb
      BY <1>4 DEF LnTakes, ln_busy
    <3> QED
      BY <1>0, <3>1 DEF LineOK, Before
  <2>2. linelen' = linelen
    BY <1>1, <2>1 DEF LineLenClock, LnSent
  <2>3. ln_bits' = NewLine
    BY <1>1, <1>4 DEF LineClock
  <2>4. CASE ln_stb'
    <3>1. linelen' <= MaxLine
      BY <1>0, <2>1, <2>2
    <3> QED
      BY <2>3, <2>4, <3>1 DEF LineOK
  <2>5. CASE ~ln_stb'
    <3>1. linelen' - TRIGGER <= Before'
      BY <1>0, <1>2, <2>1, <2>2
    <3> QED
      BY <2>5, <3>1 DEF LineOK
  <2> QED
    BY <2>4, <2>5
<1>5. CASE ~LnTakes /\ ln_busy
  <2>1. ln_bits' = ln_bits /\ ln_stb' = (ln_stb /\ in.tx_busy)
    BY <1>1, <1>5 DEF LineClock
  <2>2. Before' = Before
    <3>1. CASE dw_stb
      BY <1>1, <1>5, <3>1 DEF DewordClock, deword, Before
    <3>2. CASE ~dw_stb /\ ~cp_stb
      BY <1>1, <1>5, <3>2 DEF DewordClock, deword, Before
    <3>3. CASE ~dw_stb /\ cp_stb
      <4>1. PICK n \in Lengths(cp_word) :
               dw_stb' = TRUE /\ dw_bits' = Char(cp_word, 1, n = 1)
        BY <1>1, <3>3 DEF DewordClock
      <4>2. dw_bits' \in Chars /\ dw_bits'.n = 1
        BY <4>1 DEF Char, Chars, WordsType
      <4> QED
        BY <3>3, <4>1, <4>2 DEF Before
    <3> QED
      BY <3>1, <3>2, <3>3
  <2>3. CASE LnSent(in)
    <3>1. ln_stb /\ ~ln_stb'
      BY <2>1, <2>3 DEF LnSent
    <3>2. CASE ln_bits = NewLine
      <4>1. linelen' = 0 /\ ~ln_stb'
        BY <1>1, <2>3, <3>1, <3>2 DEF LineLenClock
      <4> QED
        BY <1>0, <1>2, <4>1 DEF LineOK
    <3>3. CASE ln_bits # NewLine
      BY <1>0, <1>1, <1>2, <2>2, <2>3, <3>1, <3>3 DEF LineLenClock, LineOK
    <3> QED
      BY <3>2, <3>3
  <2>4. CASE ~LnSent(in)
    <3>1. linelen' = linelen /\ (ln_stb' <=> ln_stb)
      BY <1>1, <2>1, <2>4 DEF LineLenClock, LnSent, Inputs
    <3> QED
      BY <2>1, <2>2, <3>1 DEF LineOK
  <2> QED
    BY <2>3, <2>4
<1> QED
  BY <1>3, <1>4, <1>5

\* Initially nothing is on its way and the line is empty.
LEMMA InitInv == Init => IInv
<1> SUFFICES ASSUME Init PROVE IInv
  OBVIOUS
<1>1. TRIGGER \in Nat /\ TRIGGER > 0
  BY OutputAssumption DEF TRIGGER
<1>2. WordsType
  BY DEF Init, WordsType, Words
<1>3. DewordOK
  BY DEF Init, DewordOK
<1>4. LineType
  BY <1>1 DEF Init, LineType
<1>5. LineOK
  <2>1. Before = 0
    BY DEF Init, Before
  <2>2. linelen = 0 /\ ~ln_stb
    BY DEF Init
  <2> QED
    BY <1>1, <2>1, <2>2 DEF LineOK
<1> QED
  BY <1>2, <1>3, <1>4, <1>5 DEF IInv

\* The invariant does what it is for: LongWord characters beyond TRIGGER.
LEMMA InvFits == IInv => LineFits
<1> SUFFICES ASSUME IInv PROVE LineFits
  OBVIOUS
<1> USE OutputAssumption DEF IInv
<1>1. Before \in 0 .. LongWord
  <2>1. \A c \in Chars : c.n \in 1 .. LongWord
    BY DEF Chars
  <2> QED
    BY <2>1 DEF Before, DewordOK, LineType
<1> QED
  BY <1>1 DEF LineOK, LineType, LineFits, TRIGGER

\* A clock keeps the invariant.
LEMMA InvStep == IInv /\ [Next]_vars => IInv'
<1> SUFFICES ASSUME IInv, [Next]_vars PROVE IInv'
  OBVIOUS
<1>1. CASE Next
  <2>1. PICK in \in Inputs : Clock(in)
    BY <1>1 DEF Next
  <2> QED
    BY <2>1, WordsStep, DewordStep, LineTypeStep, LineStep DEF IInv
<1>2. CASE UNCHANGED vars
  BY <1>2 DEF vars, idleint, compress, deword, lines, IInv, WordsType, DewordOK,
              LineType, LineOK, Before
<1> QED
  BY <1>1, <1>2

\* No line is longer than MaxLine, whatever comes in and whenever the
\* transmitter takes it (wbucompactlines.v:7-10 and :141-150).
THEOREM LineAlwaysFits == Spec => []LineFits
  BY InvStep, InitInv, InvFits, PTL DEF Spec
-----------------------------------------------------------------------------
\* The codewords on their way, stage by stage from the front.  The first is the
\* one whose characters wbudeword.v and wbucompactlines.v are at.
One(stb, w) == IF stb THEN <<w>> ELSE << >>
LnHolds == ln_stb /\ ln_bits # NewLine
DwHolds == dw_stb /\ dw_bits # NewLine
Front   == IF LnHolds THEN <<ln_bits.w>> ELSE One(DwHolds, dw_bits.w)
Behind  == One(cp_stb, cp_word) \o (One(aword_valid, a_addrword) \o One(cw_stb, cw_word))

\* Nothing is lost or repeated between the stages.
WordsOK == words = Front \o Behind

\* The last character is the one with none to follow.
LastOK == DwHolds => (dw_bits.last <=> r_len = 1)

\* The character sent and the one behind it belong together, and where a codeword
\* has ended the newline is held in wbudeword.v.
CharsOK ==
    /\ LnHolds => /\ ln_bits \in Chars /\ at = ln_bits.n /\ dw_stb
                  /\ IF ln_bits.last THEN dw_bits = NewLine
                     ELSE /\ dw_bits # NewLine
                          /\ dw_bits.w = ln_bits.w /\ dw_bits.n = at + 1
    /\ ~LnHolds => at = IF DwHolds THEN dw_bits.n ELSE 1
    /\ ln_stb /\ ln_bits = NewLine => at = 1 /\ (dw_stb => DwHolds)

OrderInv == IInv /\ WordsOK /\ LastOK /\ CharsOK

\* Joining sequences does not depend on where one begins.
LEMMA Associative ==
    \A s, t, u \in Seq(Words) : (s \o t) \o u = s \o (t \o u)
  BY ConcatAssociative

\* A codeword wbudeword.v begins, or goes on with, or holds, or is rid of.
LEMMA DewordMoves ==
  ASSUME OrderInv, NEW in \in Inputs, Clock(in)
  PROVE  /\ LastOK'
         /\ cp_stb /\ ~dw_stb =>
               DwHolds' /\ dw_bits'.w = cp_word /\ dw_bits'.n = 1
         /\ ~(cp_stb /\ ~dw_stb) /\ ln_busy => UNCHANGED <<dw_stb, dw_bits>>
         /\ ~(cp_stb /\ ~dw_stb) /\ ~dw_stb => ~dw_stb'
         /\ LnTakes /\ dw_bits = NewLine => ~dw_stb'
         /\ LnTakes /\ dw_bits # NewLine /\ dw_bits.last => dw_stb' /\ dw_bits' = NewLine
         /\ LnTakes /\ dw_bits # NewLine /\ ~dw_bits.last =>
               DwHolds' /\ dw_bits'.w = dw_bits.w /\ dw_bits'.n = dw_bits.n + 1
<1> USE OutputAssumption DEF OrderInv, IInv, DwHolds, LastOK
<1>0. DewordOK /\ LineType /\ DewordClock
  BY DEF Clock
<1>a. LnTakes => dw_stb /\ ~ln_busy /\ ~(cp_stb /\ ~dw_stb)
  BY DEF LnTakes
<1>1. CASE cp_stb /\ ~dw_stb
  <2>1. PICK n \in Lengths(cp_word) :
           dw_stb' = TRUE /\ r_len' = n /\ dw_bits' = Char(cp_word, 1, n = 1)
    BY <1>0, <1>1 DEF DewordClock
  <2>2. n \in 1 .. LongWord
    BY DEF Lengths
  <2>3. dw_bits' \in Chars /\ dw_bits'.n = 1 /\ dw_bits'.w = cp_word
    BY <2>1 DEF Char, Chars, WordsType
  <2>4. dw_bits'.last <=> n = 1
    BY <2>1 DEF Char
  <2> QED
    BY <1>1, <1>a, <2>1, <2>2, <2>3, <2>4
<1>2. CASE ~(cp_stb /\ ~dw_stb) /\ ln_busy
  <2>1. UNCHANGED <<dw_stb, dw_bits, r_len>>
    BY <1>0, <1>2 DEF DewordClock, deword
  <2> QED
    BY <1>2, <1>a, <2>1
<1>3. CASE ~(cp_stb /\ ~dw_stb) /\ ~ln_busy
  <2>1. /\ dw_stb' = (dw_stb /\ r_len # 0)
        /\ r_len' = IF r_len > 0 THEN r_len - 1 ELSE 0
        /\ dw_bits' = IF r_len > 1 THEN Char(dw_bits.w, dw_bits.n + 1, r_len = 2)
                      ELSE NewLine
    BY <1>0, <1>3 DEF DewordClock
  <2>0. dw_stb' <=> dw_stb /\ r_len # 0
    BY <2>1
  <2>2. CASE ~dw_stb
    BY <1>3, <1>a, <2>1, <2>2
  <2>3. CASE dw_stb /\ dw_bits = NewLine
    <3>1. r_len = 0
      <4>1. NewLine \notin Chars
        OBVIOUS
      <4> QED
        BY <1>0, <2>3, <4>1 DEF DewordOK
    <3> QED
      BY <1>3, <2>1, <2>3, <3>1
  <2>4. CASE dw_stb /\ dw_bits # NewLine
    <3>1. dw_bits \in Chars /\ r_len \in 1 .. LongWord /\ dw_bits.n + r_len <= LongWord + 1
      BY <1>0, <2>4 DEF DewordOK
    <3>2. dw_bits.n \in 1 .. LongWord /\ dw_bits.w \in Words
      BY <3>1 DEF Chars
    <3>3. dw_bits.last <=> r_len = 1
      BY <2>4
    <3>4. CASE r_len = 1
      <4>1. dw_stb' /\ dw_bits' = NewLine
        BY <2>0, <2>1, <2>4, <3>4
      <4> QED
        BY <1>3, <2>4, <3>3, <3>4, <4>1
    <3>5. CASE r_len > 1
      <4>1. dw_stb' /\ r_len' = r_len - 1
        BY <2>0, <2>1, <2>4, <3>1, <3>5
      <4>2. dw_bits' = [w |-> dw_bits.w, n |-> dw_bits.n + 1, last |-> r_len = 2]
        BY <2>1, <3>5 DEF Char
      <4>3. dw_bits.n + 1 \in 1 .. LongWord
        BY <3>1, <3>2, <3>5
      <4>4. /\ dw_bits' \in Chars /\ dw_bits'.n = dw_bits.n + 1 /\ dw_bits'.w = dw_bits.w
            /\ dw_bits'.last <=> r_len = 2
        BY <3>2, <4>2, <4>3 DEF Chars
      <4>5. dw_bits' # NewLine /\ (r_len = 2 <=> r_len' = 1)
        BY <3>1, <4>1, <4>4
      <4> QED
        BY <1>3, <2>4, <3>1, <3>3, <3>5, <4>1, <4>4, <4>5
    <3> QED
      BY <3>1, <3>4, <3>5
  <2> QED
    BY <2>2, <2>3, <2>4
<1> QED
  BY <1>1, <1>2, <1>3

\* A character taken moves on, one sent is gone, and the codeword with its last.
LEMMA CharsStep ==
  ASSUME OrderInv, NEW in \in Inputs, Clock(in)
  PROVE  /\ CharsOK'
         /\ cp_stb /\ ~dw_stb => Front = << >> /\ Front' = <<cp_word>> /\ ~WordDone(in)
         /\ ~(cp_stb /\ ~dw_stb) => Front' = IF WordDone(in) THEN << >> ELSE Front
         /\ WordDone(in) => Front = <<ln_bits.w>>
<1> DEFINE loads == cp_stb /\ ~dw_stb
<1>1. /\ CharsOK /\ DewordOK
      /\ LineClock(in) /\ OwedClock(in)
  BY DEF OrderInv, IInv, Clock
<1>2. WordDone(in) => LnHolds /\ LnSent(in) /\ ln_bits.last
  BY DEF WordDone, LnHolds, LnSent
<1>3. at' = IF ~LnSent(in) \/ ln_bits = NewLine THEN at
            ELSE IF ln_bits.last THEN 1 ELSE at + 1
  BY <1>1 DEF OwedClock
<1>4. LnHolds => dw_stb /\ ~loads
  BY <1>1 DEF CharsOK
<1>5. CASE LnTakes
  <2>1. dw_stb /\ ~ln_busy /\ ~ln_stb /\ ~LnHolds /\ ~LnSent(in) /\ ~WordDone(in) /\ ~loads
    BY <1>2, <1>5 DEF LnTakes, ln_busy, LnHolds, LnSent
  <2>2. at' = at /\ at = IF DwHolds THEN dw_bits.n ELSE 1
    BY <1>1, <1>3, <2>1 DEF CharsOK
  <2>3. ln_bits' = dw_bits /\ (ln_stb' <=> full_line \/ dw_bits # NewLine)
    BY <1>1, <1>5 DEF LineClock
  <2>4. CASE dw_bits = NewLine
    <3>1. ~DwHolds /\ ~LnHolds' /\ ~dw_stb' /\ ~DwHolds'
      BY <1>5, <2>3, <2>4, DewordMoves DEF DwHolds, LnHolds
    <3> QED
      BY <2>1, <2>2, <3>1 DEF CharsOK, Front, One
  <2>5. CASE dw_bits # NewLine
    <3>1. DwHolds /\ LnHolds' /\ dw_bits \in Chars
      BY <1>1, <2>1, <2>3, <2>5 DEF DwHolds, LnHolds, DewordOK
    <3>2. CASE dw_bits.last
      <4>1. dw_stb' /\ dw_bits' = NewLine
        BY <1>5, <2>5, <3>2, DewordMoves
      <4> QED
        BY <2>1, <2>2, <2>3, <2>5, <3>1, <3>2, <4>1 DEF CharsOK, Front, One, LnHolds
    <3>3. CASE ~dw_bits.last
      <4>1. DwHolds' /\ dw_bits'.w = dw_bits.w /\ dw_bits'.n = dw_bits.n + 1
        BY <1>5, <2>5, <3>3, DewordMoves
      <4> QED
        BY <2>1, <2>2, <2>3, <2>5, <3>1, <3>3, <4>1 DEF CharsOK, Front, One, LnHolds, DwHolds
    <3> QED
      BY <3>2, <3>3
  <2> QED
    BY <2>4, <2>5
<1>6. CASE ~LnTakes /\ ~ln_busy
  <2>1. ~dw_stb /\ ~ln_stb /\ ~LnHolds /\ ~DwHolds /\ ~LnSent(in) /\ ~WordDone(in)
    BY <1>2, <1>6 DEF LnTakes, ln_busy, LnHolds, DwHolds, LnSent
  <2>2. at' = 1
    BY <1>1, <1>3, <2>1 DEF CharsOK
  <2>3. ln_bits' = NewLine /\ ~LnHolds'
    BY <1>1, <1>6 DEF LineClock, LnHolds
  <2>4. Front = << >>
    BY <2>1 DEF Front, One
  <2>5. CASE loads
    <3>1. DwHolds' /\ dw_bits'.w = cp_word /\ dw_bits'.n = 1
      BY <2>5, DewordMoves
    <3> QED
      BY <2>1, <2>2, <2>3, <2>4, <2>5, <3>1 DEF CharsOK, Front, One
  <2>6. CASE ~loads
    <3>1. ~dw_stb' /\ ~DwHolds'
      BY <2>1, <2>6, DewordMoves DEF DwHolds
    <3> QED
      BY <2>1, <2>2, <2>3, <2>4, <2>6, <3>1 DEF CharsOK, Front, One
  <2> QED
    BY <2>5, <2>6
<1>7. CASE ~LnTakes /\ ln_busy
  <2>1. ln_bits' = ln_bits /\ (ln_stb' <=> ln_stb /\ in.tx_busy)
    BY <1>1, <1>7 DEF LineClock
  <2>2. ~loads => UNCHANGED <<dw_stb, dw_bits>>
    BY <1>7, DewordMoves
  <2>3. loads => DwHolds' /\ dw_bits'.w = cp_word /\ dw_bits'.n = 1
    BY DewordMoves
  <2>4. loads => ~dw_stb /\ ~DwHolds
    BY DEF DwHolds
  <2>5. ~loads => (DwHolds' <=> DwHolds)
    BY <2>2 DEF DwHolds
  <2>6. CASE LnHolds /\ LnSent(in)
    <3>1. ~ln_stb' /\ ~LnHolds' /\ ~loads /\ dw_stb
      BY <1>4, <2>1, <2>6 DEF LnSent, LnHolds
    <3>2. CASE ln_bits.last
      <4>1. WordDone(in) /\ at' = 1 /\ ~DwHolds /\ Front = <<ln_bits.w>>
        BY <1>1, <1>3, <2>6, <3>2 DEF WordDone, LnHolds, DwHolds, CharsOK, Front
      <4> QED
        BY <2>2, <2>5, <3>1, <4>1 DEF CharsOK, Front, One
    <3>3. CASE ~ln_bits.last
      <4>1. /\ ~WordDone(in) /\ at' = at + 1 /\ DwHolds
            /\ dw_bits.w = ln_bits.w /\ dw_bits.n = at + 1
        BY <1>1, <1>2, <1>3, <2>6, <3>1, <3>3 DEF LnHolds, DwHolds, CharsOK
      <4> QED
        BY <2>2, <2>5, <2>6, <3>1, <4>1 DEF CharsOK, Front, One
    <3> QED
      BY <3>2, <3>3
  <2>7. CASE LnHolds /\ ~LnSent(in)
    <3>1. LnHolds' /\ ~loads /\ dw_stb /\ at' = at /\ ~WordDone(in)
      BY <1>2, <1>3, <1>4, <2>1, <2>7 DEF LnSent, LnHolds
    <3> QED
      BY <1>1, <2>1, <2>2, <2>5, <2>7, <3>1 DEF CharsOK, Front, LnHolds
  <2>8. CASE ~LnHolds
    <3>1. ~LnHolds' /\ at' = at /\ ~WordDone(in)
      BY <1>2, <1>3, <2>1, <2>8 DEF LnSent, LnHolds
    <3>2. /\ at = IF DwHolds THEN dw_bits.n ELSE 1
          /\ ln_stb /\ ln_bits = NewLine => at = 1 /\ (dw_stb => DwHolds)
      BY <1>1, <2>8 DEF CharsOK
    <3>3. ln_stb' => ln_stb
      BY <2>1
    <3>4. Front = One(DwHolds, dw_bits.w) /\ Front' = One(DwHolds', dw_bits'.w)
      BY <2>8, <3>1 DEF Front
    <3>5. CASE loads
      BY <2>1, <2>3, <2>4, <3>1, <3>2, <3>3, <3>4, <3>5 DEF CharsOK, One
    <3>6. CASE ~loads
      BY <2>1, <2>2, <2>5, <3>1, <3>2, <3>3, <3>4, <3>6 DEF CharsOK, One
    <3> QED
      BY <3>5, <3>6
  <2> QED
    BY <2>6, <2>7, <2>8
<1> QED
  BY <1>5, <1>6, <1>7

\* The stages in front of wbudeword.v hand on what they hold, or hold it.
LEMMA StagesMove ==
  ASSUME OrderInv, NEW in \in Inputs, Clock(in)
  PROVE  LET Cp == One(cp_stb, cp_word)
             A  == One(aword_valid, a_addrword)
             Cw == One(cw_stb, cw_word)
             N  == IF Loaded THEN <<cw_word'>> ELSE << >>
         IN  \/ tbl_busy /\ Cp' = Cp /\ A' = A /\ Cw' = Cw \o N
             \/ tbl_busy /\ A = << >> /\ Cp' = Cp /\ A' = Cw /\ Cw' = N
             \/ ~tbl_busy /\ Cp' = A /\ A' = Cw /\ Cw' = N
<1>1. /\ aword_valid' = (cw_stb \/ (aword_valid /\ tbl_busy))
      /\ a_addrword'  = IF ~aword_valid \/ ~tbl_busy THEN cw_word ELSE a_addrword
      /\ cp_stb'  = (aword_valid \/ (cp_stb /\ dw_stb))
      /\ cp_word' = IF tbl_busy THEN cp_word ELSE a_addrword
  BY DEF Clock, CompressClock
<1>2. CASE tbl_busy /\ aword_valid
  <2>1. ~CwSent
    BY <1>2 DEF CwSent, cp_busy, tbl_busy
  <2>2. One(cw_stb, cw_word)'
           = One(cw_stb, cw_word) \o (IF Loaded THEN <<cw_word'>> ELSE << >>)
    <3>1. CASE cw_stb
      <4>1. UNCHANGED <<cw_stb, cw_word>> /\ ~Loaded
        BY <2>1, <3>1 DEF Clock, WordClock, Loaded
      <4> QED
        BY <3>1, <4>1 DEF One
    <3>2. CASE ~cw_stb
      <4>1. One(cw_stb, cw_word)' = IF Loaded THEN <<cw_word'>> ELSE << >>
        BY <3>2 DEF One, Loaded
      <4>2. One(cw_stb, cw_word) = << >>
        BY <3>2 DEF One
      <4>3. \A w : << >> \o <<w>> = <<w>>
        OBVIOUS
      <4> QED
        BY <4>1, <4>2, <4>3
    <3> QED
      BY <3>1, <3>2
  <2> QED
    BY <1>1, <1>2, <2>2 DEF One, tbl_busy
<1>3. CASE ~(tbl_busy /\ aword_valid)
  <2>1. cw_stb => CwSent
    BY <1>3 DEF CwSent, cp_busy
  <2>2. One(cw_stb, cw_word)' = IF Loaded THEN <<cw_word'>> ELSE << >>
    BY <2>1 DEF One, Loaded
  <2>3. One(aword_valid, a_addrword)' = One(cw_stb, cw_word)
    BY <1>1, <1>3 DEF One
  <2>4. CASE tbl_busy
    BY <1>1, <1>3, <2>2, <2>3, <2>4 DEF One, tbl_busy
  <2>5. CASE ~tbl_busy
    BY <1>1, <1>3, <2>2, <2>3, <2>5 DEF One, tbl_busy
  <2> QED
    BY <2>4, <2>5
<1> QED
  BY <1>2, <1>3

\* The codewords owed are those in the stages, in their order.
LEMMA OrderStep ==
  ASSUME OrderInv, NEW in \in Inputs, Clock(in), WordsType'
  PROVE  WordsOK'
<1> DEFINE Cp == One(cp_stb, cp_word)
           A  == One(aword_valid, a_addrword)
           Cw == One(cw_stb, cw_word)
           N  == IF Loaded THEN <<cw_word'>> ELSE << >>
           rest == IF WordDone(in) THEN << >> ELSE Front
           all  == Cp \o (A \o (Cw \o N))
<1>1. WordsOK /\ IInv /\ CharsOK /\ OwedClock(in)
  BY DEF OrderInv, Clock
<1>2. Cp \in Seq(Words) /\ A \in Seq(Words) /\ Cw \in Seq(Words) /\ N \in Seq(Words)
  BY <1>1 DEF IInv, WordsType, One
<1>3. Front \in Seq(Words)
  <2>1. \A c \in Chars : c.w \in Words
    BY DEF Chars
  <2>2. LnHolds => ln_bits \in Chars
    BY <1>1 DEF CharsOK
  <2>3. DwHolds => dw_bits \in Chars
    BY <1>1 DEF IInv, DewordOK, DwHolds
  <2> QED
    BY <2>1, <2>2, <2>3 DEF Front, One
<1>4. rest \in Seq(Words) /\ Behind \in Seq(Words) /\ Behind \o N = all
  <2>1. A \o Cw \in Seq(Words) /\ Behind = Cp \o (A \o Cw)
    BY <1>2, ConcatProperties DEF Behind
  <2>2. rest \in Seq(Words) /\ Behind \in Seq(Words)
    BY <1>2, <1>3, <2>1, ConcatProperties
  <2> HIDE DEF Cp, A, Cw, N
  <2>3. Behind \o N = all
    <3>1. Behind \o N = (Cp \o (A \o Cw)) \o N
      BY <2>1
    <3>2. (Cp \o (A \o Cw)) \o N = Cp \o ((A \o Cw) \o N)
      BY <1>2, <2>1, Associative, ZenonT(60)
    <3>3. (A \o Cw) \o N = A \o (Cw \o N)
      BY <1>2, Associative, Zenon
    <3> QED
      BY <3>1, <3>2, <3>3
  <2> QED
    BY <2>2, <2>3
<1>5. words' = rest \o all
  <2>1. words = Front \o Behind
    BY <1>1 DEF WordsOK
  <2>2. words' = (IF WordDone(in) /\ words # << >> THEN Tail(words) ELSE words) \o N
    BY <1>1 DEF OwedClock
  <2>3. words' = (rest \o Behind) \o N
    <3>1. CASE WordDone(in)
      <4>1. Front = <<ln_bits.w>>
        BY <3>1, CharsStep
      <4>2. words # << >> /\ Tail(words) = Behind
        BY <1>4, <2>1, <4>1
      <4>3. rest \o Behind = Behind
        BY <1>4, <3>1
      <4> QED
        BY <2>2, <3>1, <4>2, <4>3
    <3>2. CASE ~WordDone(in)
      BY <2>1, <2>2, <3>2
    <3> QED
      BY <3>1, <3>2
  <2>4. (rest \o Behind) \o N = rest \o (Behind \o N)
    <3> HIDE DEF N, rest
    <3> QED
      BY <1>2, <1>4, Associative, ZenonT(60)
  <2> QED
    BY <1>4, <2>3, <2>4
<1>6. rest \o all = Front' \o Behind'
  <2>1. Behind' = Cp' \o (A' \o Cw')
    BY DEF Behind
  <2>2. \/ tbl_busy /\ Cp' = Cp /\ A' = A /\ Cw' = Cw \o N
        \/ tbl_busy /\ A = << >> /\ Cp' = Cp /\ A' = Cw /\ Cw' = N
        \/ ~tbl_busy /\ Cp' = A /\ A' = Cw /\ Cw' = N
    BY StagesMove
  <2>3. CASE tbl_busy
    <3>1. Front' = rest
      BY <2>3, CharsStep DEF tbl_busy
    <3>2. Cw \o N \in Seq(Words)
      BY <1>2, ConcatProperties
    <3>3. A = << >> => A \o (Cw \o N) = Cw \o N
      BY <3>2
    <3>4. Behind' = all
      BY <2>1, <2>2, <2>3, <3>3
    <3> QED
      BY <3>1, <3>4
  <2>4. CASE ~tbl_busy
    <3>1. Behind' = A \o (Cw \o N)
      BY <2>1, <2>2, <2>4
    <3>2. A \o (Cw \o N) \in Seq(Words)
      BY <1>2, ConcatProperties
    <3>3. CASE cp_stb /\ ~dw_stb
      <4>1. rest = << >> /\ Front' = Cp
        BY <3>3, CharsStep DEF One
      <4>2. all \in Seq(Words)
        BY <1>2, <3>2, ConcatProperties
      <4> HIDE DEF rest, all
      <4>3. rest \o all = all
        BY <4>1, <4>2
      <4> QED
        BY <3>1, <4>1, <4>3 DEF all
    <3>4. CASE ~(cp_stb /\ ~dw_stb)
      <4>1. Cp = << >> /\ Front' = rest
        BY <2>4, <3>4, CharsStep DEF One, tbl_busy
      <4>2. all = A \o (Cw \o N)
        BY <3>2, <4>1
      <4> QED
        BY <3>1, <4>1, <4>2
    <3> QED
      BY <3>3, <3>4
  <2> QED
    BY <2>3, <2>4
<1> QED
  BY <1>5, <1>6 DEF WordsOK

\* What is owed, and the characters of it, from one clock to the next.
LEMMA OrderInvStep == OrderInv /\ [Next]_vars => OrderInv'
<1> SUFFICES ASSUME OrderInv, [Next]_vars PROVE OrderInv'
  OBVIOUS
<1>1. IInv'
  BY InvStep DEF OrderInv
<1>2. CASE Next
  <2>1. PICK in \in Inputs : Clock(in)
    BY <1>2 DEF Next
  <2> QED
    BY <1>1, <2>1, DewordMoves, CharsStep, OrderStep DEF OrderInv, IInv
<1>3. CASE UNCHANGED vars
  BY <1>1, <1>3 DEF vars, idleint, compress, deword, lines, OrderInv, WordsOK, LastOK,
     CharsOK, LnHolds, DwHolds, Front, Behind
<1> QED
  BY <1>2, <1>3

\* The character on its way out is the first of those owed.
LEMMA OrderShows == OrderInv => CharsInOrder
<1> SUFFICES ASSUME OrderInv, ln_stb, ln_bits # NewLine
             PROVE  words # << >> /\ ln_bits.w = Head(words) /\ ln_bits.n = at
  BY DEF CharsInOrder, OrderInv, CharsOK
<1> DEFINE Cp == One(cp_stb, cp_word)
           A  == One(aword_valid, a_addrword)
           Cw == One(cw_stb, cw_word)
<1>1. words = <<ln_bits.w>> \o Behind /\ ln_bits.n = at /\ ln_bits.w \in Words
  BY DEF OrderInv, WordsOK, CharsOK, Front, LnHolds, Chars
<1>2. Cp \in Seq(Words) /\ A \in Seq(Words) /\ Cw \in Seq(Words)
  BY DEF OrderInv, IInv, WordsType, One
<1>3. Behind \in Seq(Words)
  <2>1. Behind = Cp \o (A \o Cw)
    BY DEF Behind
  <2> HIDE DEF Cp, A, Cw
  <2> QED
    BY <1>2, <2>1, ConcatProperties
<1>4. words # << >> /\ Head(words) = ln_bits.w
  BY <1>1, <1>3
<1> QED
  BY <1>1, <1>4

\* Every character that leaves is the next one of the oldest codeword not yet sent,
\* and a newline only falls between two codewords: the five stages, each of which
\* looks only at its neighbour, lose, repeat and cut short none (wbuidleint.v,
\* wbucompress.v, wbudeword.v, wbucompactlines.v), whatever comes in, whenever the
\* transmitter is ready, and for codewords and lines of any length.
THEOREM CharsAlwaysInOrder == Spec => []CharsInOrder
<1>1. Init => OrderInv
  <2> SUFFICES ASSUME Init PROVE OrderInv
    OBVIOUS
  <2>1. ~LnHolds /\ ~DwHolds /\ ~ln_stb /\ at = 1 /\ words = << >>
    BY DEF Init, LnHolds, DwHolds
  <2>2. Front = << >> /\ Behind = << >>
    BY <2>1 DEF Init, Front, Behind, One
  <2> QED
    BY <2>1, <2>2, InitInv DEF OrderInv, WordsOK, LastOK, CharsOK
<1> QED
  BY <1>1, OrderInvStep, OrderShows, PTL DEF Spec

-----------------------------------------------------------------------------
(* netuart.  What is on the serial line are the last characters the board has
   sent, each in its place, so a program that is connected has got all before
   them.  The other way, what the board has and what is in a socket are the
   characters the programs wrote, as far as they were not killed. *)

\* How many characters of a stream the daemon has still to hand on.
Waiting(s) == Cardinality(Places(s, tty))

\* The registers of the daemon and what the programs are at.
LinkType ==
    /\ sent \in [Streams -> Nat] /\ typed \in [Streams -> Nat]
    /\ DOMAIN prog = Streams /\ DOMAIN sock = Streams /\ DOMAIN arrived = Streams /\ DOMAIN aborted = Streams
    /\ DOMAIN fd = Streams
    /\ \A s \in Streams : /\ prog[s] = [st |-> prog[s].st, got |-> prog[s].got]
                          /\ prog[s].got \in Seq(Nat)
                          /\ sock[s] \in Seq(Nat) /\ arrived[s] \in Seq(Nat)

\* The line holds the last characters the board has sent of each stream, in order, and every
\* one of them has its place.
TtyOK ==
    /\ tty \in Seq(Streams \X Nat)
    /\ \A s \in Streams :
          LET P == Places(s, tty) IN
          /\ IsFiniteSet(P) /\ Waiting(s) <= sent[s]
          /\ \A i \in P : /\ IsFiniteSet(UpTo(P, i))
                          /\ tty[i][2] = sent[s] - Waiting(s) + Cardinality(UpTo(P, i)) - 1
          /\ \A k \in 1 .. Waiting(s) : \E i \in P : Cardinality(UpTo(P, i)) = k

\* A program that has got characters is connected, and has got all up to those on the line.
GotOK ==
    \A s \in Streams :
        LET got == prog[s].got IN
        /\ got # << >> => fd[s] /\ Listening(prog[s])
        /\ \A i \in 1 .. Len(got) : got[i] = sent[s] - Waiting(s) - 1 - (Len(got) - i)

\* What the board has and what is on its way to it are in order.
InOrder(s) ==
    /\ \A i, j \in 1 .. Len(arrived[s]) : i < j => arrived[s][i] < arrived[s][j]
    /\ \A i, j \in 1 .. Len(sock[s]) : i < j => sock[s][i] < sock[s][j]
    /\ \A i \in 1 .. Len(arrived[s]), j \in 1 .. Len(sock[s]) : arrived[s][i] < sock[s][j]
    /\ \A i \in 1 .. Len(arrived[s]) : arrived[s][i] < typed[s]
    /\ \A i \in 1 .. Len(sock[s]) : sock[s][i] < typed[s]

\* They are all that was written, unless a program was killed; nothing is, once the daemon has ended.
Complete(s) ==
    /\ \A i \in 1 .. Len(arrived[s]) : arrived[s][i] = i - 1
    /\ \A i \in 1 .. Len(sock[s]) : sock[s][i] = Len(arrived[s]) + i - 1
    /\ running => typed[s] = Len(arrived[s]) + Len(sock[s])
BoardOK ==
    /\ \A s \in Streams : InOrder(s) /\ (aborted[s] \/ Complete(s))
    /\ ~running => \A s \in Streams : prog[s].st # "on" /\ sock[s] = << >>

NetInv == LinkType /\ TtyOK /\ GotOK /\ BoardOK

\* What is handed on of a stream are the last characters that the board has sent of it, in order.
LEMMA SplitIs ==
  ASSUME LinkType, TtyOK, NEW s \in Streams
  PROVE  /\ Waiting(s) \in Nat /\ sent[s] \in Nat
         /\ Split(s, tty) \in Seq(Nat) /\ Len(Split(s, tty)) = Waiting(s)
         /\ \A k \in 1 .. Waiting(s) : Split(s, tty)[k] = sent[s] - Waiting(s) + k - 1
<1> DEFINE P == Places(s, tty)
<1>1. Waiting(s) \in Nat /\ sent[s] \in Nat /\ Waiting(s) <= sent[s]
  BY FS_CardinalityType DEF Waiting, TtyOK, LinkType
<1>2. ASSUME NEW k \in 1 .. Waiting(s)
      PROVE  tty[Place(P, k)][2] = sent[s] - Waiting(s) + k - 1
  <2>1. Place(P, k) \in P /\ Cardinality(UpTo(P, Place(P, k))) = k
    <3>1. \E i \in P : Cardinality(UpTo(P, i)) = k
      BY DEF TtyOK
    <3> HIDE DEF P
    <3> QED
      BY <3>1 DEF Place
  <2> QED
    BY <2>1 DEF TtyOK
<1>3. Split(s, tty) = [k \in 1 .. Waiting(s) |-> tty[Place(P, k)][2]]
  BY DEF Split, Of, Waiting
<1>4. \A k \in 1 .. Waiting(s) : tty[Place(P, k)][2] \in Nat
  BY <1>1, <1>2
<1> HIDE DEF P
<1> QED
  BY <1>1, <1>2, <1>3, <1>4

\* A line that has been read is empty.
LEMMA TtyEmptied ==
  ASSUME LinkType, tty' = << >>, sent' = sent
  PROVE  TtyOK' /\ \A s \in Streams : Waiting(s)' = 0
<1>1. \A s \in Streams : Places(s, tty') = {}
  BY DEF Places
<1>2. \A s \in Streams : Waiting(s)' = 0
  BY <1>1, FS_EmptySet DEF Waiting
<1>3. IsFiniteSet({})
  BY FS_EmptySet
<1>4. tty' \in Seq(Streams \X Nat)
  OBVIOUS
<1>5. ASSUME NEW s \in Streams
      PROVE  LET P == Places(s, tty') IN
             /\ IsFiniteSet(P) /\ Waiting(s)' <= sent'[s]
             /\ \A i \in P : /\ IsFiniteSet(UpTo(P, i))
                             /\ tty'[i][2] = sent'[s] - Waiting(s)' + Cardinality(UpTo(P, i)) - 1
             /\ \A k \in 1 .. Waiting(s)' : \E i \in P : Cardinality(UpTo(P, i)) = k
  <2>1. Waiting(s)' = 0 /\ sent'[s] \in Nat
    BY <1>2 DEF LinkType
  <2>2. 1 .. Waiting(s)' = {} /\ Waiting(s)' <= sent'[s]
    BY <2>1
  <2> QED
    BY <1>1, <1>3, <2>2
<1> QED
  BY <1>2, <1>4, <1>5 DEF TtyOK

\* A character that the board sends is the last on the line.
LEMMA TtyAppended ==
  ASSUME LinkType, TtyOK, NEW s \in Streams,
         tty' = Append(tty, <<s, sent[s]>>), sent' = [sent EXCEPT ![s] = @ + 1]
  PROVE  TtyOK' /\ \A t \in Streams : sent'[t] - Waiting(t)' = sent[t] - Waiting(t)
<1> DEFINE n == Len(tty)
<1>1. /\ tty \in Seq(Streams \X Nat) /\ n \in Nat /\ sent[s] \in Nat
      /\ tty' \in Seq(Streams \X Nat) /\ Len(tty') = n + 1
      /\ \A i \in 1 .. n : tty'[i] = tty[i]
      /\ tty'[n + 1] = <<s, sent[s]>>
      /\ DOMAIN tty = 1 .. n /\ DOMAIN tty' = 1 .. n + 1
  BY DEF TtyOK, LinkType
<1>a. /\ sent'[s] = sent[s] + 1
      /\ \A t \in Streams : t # s => sent'[t] = sent[t]
  BY DEF LinkType
<1> HIDE DEF n
<1>2. ASSUME NEW t \in Streams, t # s
      PROVE  Places(t, tty') = Places(t, tty) /\ sent'[t] = sent[t]
  <2>1. tty'[n + 1][1] # t
    BY <1>1, <1>2
  <2>2. \A i : i \in DOMAIN tty' /\ tty'[i][1] = t <=> i \in DOMAIN tty /\ tty[i][1] = t
    BY <1>1, <2>1
  <2> QED
    BY <1>2, <1>a, <2>2 DEF Places
<1>3. /\ Places(s, tty') = Places(s, tty) \cup {n + 1}
      /\ n + 1 \notin Places(s, tty) /\ Places(s, tty) \subseteq 1 .. n
      /\ sent'[s] = sent[s] + 1
  <2>1. tty'[n + 1][1] = s
    BY <1>1
  <2>2. \A i : i \in DOMAIN tty' /\ tty'[i][1] = s
                 <=> (i \in DOMAIN tty /\ tty[i][1] = s) \/ i = n + 1
    BY <1>1, <2>1
  <2>3. n + 1 \notin 1 .. n
    BY <1>1
  <2> QED
    BY <1>1, <1>a, <2>2, <2>3 DEF Places
<1>4. ASSUME NEW t \in Streams
      PROVE  Waiting(t) \in Nat /\ sent[t] \in Nat /\ Places(t, tty) \subseteq 1 .. n
  <2>1. IsFiniteSet(Places(t, tty)) /\ sent[t] \in Nat
    BY DEF TtyOK, LinkType
  <2> QED
    BY <1>1, <2>1, FS_CardinalityType DEF Waiting, Places
<1>b. Waiting(s) \in Nat /\ sent[s] \in Nat
  BY <1>4
<1>5. Waiting(s)' = Waiting(s) + 1 /\ IsFiniteSet(Places(s, tty'))
  <2>1. IsFiniteSet(Places(s, tty))
    BY DEF TtyOK
  <2>2. /\ IsFiniteSet(Places(s, tty) \cup {n + 1})
        /\ Cardinality(Places(s, tty) \cup {n + 1}) = Cardinality(Places(s, tty)) + 1
    BY <1>3, <2>1, FS_AddElement
  <2> QED
    BY <1>3, <2>2 DEF Waiting
<1>6. \A t \in Streams : t # s => Waiting(t)' = Waiting(t)
  BY <1>2 DEF Waiting
<1>7. ASSUME NEW i \in Places(s, tty)
      PROVE  UpTo(Places(s, tty'), i) = UpTo(Places(s, tty), i)
  <2>1. i \in 1 .. n /\ ~(n + 1 <= i)
    BY <1>1, <1>3
  <2> QED
    BY <1>3, <2>1 DEF UpTo
<1>8. UpTo(Places(s, tty'), n + 1) = Places(s, tty')
  <2>1. \A i \in Places(s, tty) \cup {n + 1} : i <= n + 1
    BY <1>1, <1>3
  <2> QED
    BY <1>3, <2>1 DEF UpTo
<1>9. ASSUME NEW t \in Streams
      PROVE  LET P == Places(t, tty') IN
             /\ IsFiniteSet(P) /\ Waiting(t)' <= sent'[t]
             /\ \A i \in P : /\ IsFiniteSet(UpTo(P, i))
                             /\ tty'[i][2] = sent'[t] - Waiting(t)' + Cardinality(UpTo(P, i)) - 1
             /\ \A k \in 1 .. Waiting(t)' : \E i \in P : Cardinality(UpTo(P, i)) = k
  <2>1. CASE t # s
    <3>1. \A i \in Places(t, tty) : tty'[i] = tty[i]
      BY <1>1, <1>4
    <3>2. Places(t, tty') = Places(t, tty) /\ sent'[t] = sent[t] /\ Waiting(t)' = Waiting(t)
      BY <1>2, <1>6, <2>1
    <3>3. LET P == Places(t, tty) IN
          /\ IsFiniteSet(P) /\ Waiting(t) <= sent[t]
          /\ \A i \in P : /\ IsFiniteSet(UpTo(P, i))
                          /\ tty[i][2] = sent[t] - Waiting(t) + Cardinality(UpTo(P, i)) - 1
          /\ \A k \in 1 .. Waiting(t) : \E i \in P : Cardinality(UpTo(P, i)) = k
      BY DEF TtyOK
    <3> QED
      BY <3>1, <3>2, <3>3
  <2>2. CASE t = s
    <3> DEFINE P == Places(s, tty')
    <3>1. IsFiniteSet(P) /\ Waiting(s)' <= sent'[s]
      BY <1>3, <1>4, <1>5 DEF TtyOK
    <3>2. ASSUME NEW i \in P
          PROVE  /\ IsFiniteSet(UpTo(P, i))
                 /\ tty'[i][2] = sent'[s] - Waiting(s)' + Cardinality(UpTo(P, i)) - 1
      <4>1. CASE i \in Places(s, tty)
        <5>1. /\ IsFiniteSet(UpTo(Places(s, tty), i)) /\ i \in 1 .. n
              /\ tty[i][2] = sent[s] - Waiting(s) + Cardinality(UpTo(Places(s, tty), i)) - 1
          BY <1>3, <4>1 DEF TtyOK
        <5>2. Cardinality(UpTo(Places(s, tty), i)) \in Nat
          BY <5>1, FS_CardinalityType
        <5>3. UpTo(P, i) = UpTo(Places(s, tty), i) /\ tty'[i] = tty[i]
          BY <1>1, <1>7, <4>1, <5>1
        <5> HIDE DEF P
        <5>4. sent[s] - Waiting(s) = sent'[s] - Waiting(s)'
          BY <1>3, <1>b, <1>5
        <5> QED
          BY <5>1, <5>3, <5>4
      <4>2. CASE i = n + 1
        <5>1. UpTo(P, i) = P /\ Cardinality(P) = Waiting(s) + 1
          BY <1>5, <1>8, <4>2 DEF Waiting
        <5>2. tty'[i][2] = sent[s]
          BY <1>1, <4>2
        <5>3. sent[s] = sent'[s] - Waiting(s)' + Cardinality(P) - 1
          BY <1>3, <1>b, <1>5, <5>1
        <5> HIDE DEF P
        <5> QED
          BY <3>1, <5>1, <5>2, <5>3
      <4> QED
        BY <1>3, <4>1, <4>2
    <3>3. ASSUME NEW k \in 1 .. Waiting(s)'
          PROVE  \E i \in P : Cardinality(UpTo(P, i)) = k
      <4>1. CASE k <= Waiting(s)
        <5>1. PICK i \in Places(s, tty) : Cardinality(UpTo(Places(s, tty), i)) = k
          BY <1>4, <4>1 DEF TtyOK
        <5>2. i \in P /\ UpTo(P, i) = UpTo(Places(s, tty), i)
          BY <1>3, <1>7
        <5> HIDE DEF P
        <5> QED
          BY <5>1, <5>2
      <4>2. CASE k = Waiting(s) + 1
        <5>1. n + 1 \in P /\ UpTo(P, n + 1) = P /\ Cardinality(P) = k
          BY <1>3, <1>5, <1>8, <4>2 DEF Waiting
        <5> HIDE DEF P
        <5> QED
          BY <5>1
      <4>3. k <= Waiting(s) \/ k = Waiting(s) + 1
        BY <1>b, <1>5
      <4> QED
        BY <4>1, <4>2, <4>3
    <3> QED
      BY <2>2, <3>1, <3>2, <3>3
  <2> QED
    BY <2>1, <2>2
<1>10. TtyOK'
  BY <1>1, <1>9 DEF TtyOK
<1>11. ASSUME NEW t \in Streams PROVE sent'[t] - Waiting(t)' = sent[t] - Waiting(t)
  <2>1. CASE t = s
    BY <1>3, <1>4, <1>5, <2>1
  <2>2. CASE t # s
    BY <1>2, <1>6, <2>2
  <2> QED
    BY <2>1, <2>2
<1> QED
  BY <1>10, <1>11

\* What is on the line stays what it is when nobody touches it.
LEMMA TtyKept ==
  ASSUME TtyOK, tty' = tty, sent' = sent
  PROVE  TtyOK' /\ \A s \in Streams : Waiting(s)' = Waiting(s)
  BY DEF TtyOK, Waiting

\* A program connects, or tells that it is done, or dies: what others have stays as it is.
LEMMA ProgramKept ==
  ASSUME NetInv, NEW s \in Streams, NEW st, NEW got,
         prog' = [prog EXCEPT ![s] = [st |-> st, got |-> got]],
         got = << >> \/ (got = prog[s].got /\ st = "closing" /\ prog[s].st = "on"),
         st # "on",
         tty' = tty, sent' = sent, typed' = typed, arrived' = arrived, fd' = fd, running' = running,
         \/ sock' = sock /\ aborted' = aborted
         \/ sock' = [sock EXCEPT ![s] = << >>] /\ aborted' = [aborted EXCEPT ![s] = TRUE]
  PROVE  NetInv'
<1> USE DEF NetInv
<1>1. /\ prog'[s] = [st |-> st, got |-> got] /\ DOMAIN prog' = Streams
      /\ \A t \in Streams : t # s => prog'[t] = prog[t]
  BY DEF LinkType
<1>2. got \in Seq(Nat)
  <2>1. prog[s].got \in Seq(Nat) /\ << >> \in Seq(Nat)
    BY DEF LinkType
  <2> QED
    BY <2>1
<1>3. /\ DOMAIN sock' = Streams /\ DOMAIN aborted' = Streams
      /\ \A t \in Streams : \/ sock'[t] = sock[t] /\ aborted'[t] = aborted[t]
                            \/ sock'[t] = << >> /\ aborted'[t]
  <2>1. DOMAIN sock = Streams /\ DOMAIN aborted = Streams
    BY DEF LinkType
  <2>2. CASE sock' = sock /\ aborted' = aborted
    BY <2>1, <2>2
  <2>3. CASE sock' = [sock EXCEPT ![s] = << >>] /\ aborted' = [aborted EXCEPT ![s] = TRUE]
    BY <2>1, <2>3
  <2> QED
    BY <2>2, <2>3
<1>4. LinkType'
  <2>1. ASSUME NEW t \in Streams
        PROVE  /\ prog'[t] = [st |-> prog'[t].st, got |-> prog'[t].got] /\ prog'[t].got \in Seq(Nat)
               /\ sock'[t] \in Seq(Nat)
    <3>1. CASE t = s
      <4>1. prog'[t].st = st /\ prog'[t].got = got
        BY <1>1, <3>1
      <4>2. sock[t] \in Seq(Nat) /\ << >> \in Seq(Nat)
        BY DEF LinkType
      <4> QED
        BY <1>1, <1>2, <1>3, <3>1, <4>1, <4>2
    <3>2. CASE t # s
      <4>1. /\ prog[t] = [st |-> prog[t].st, got |-> prog[t].got] /\ prog[t].got \in Seq(Nat)
            /\ sock[t] \in Seq(Nat) /\ << >> \in Seq(Nat)
        BY DEF LinkType
      <4> QED
        BY <1>1, <1>3, <3>2, <4>1
    <3> QED
      BY <3>1, <3>2
  <2> QED
    BY <1>1, <1>3, <2>1 DEF LinkType
<1>5. TtyOK' /\ \A t \in Streams : Waiting(t)' = Waiting(t)
  BY TtyKept
<1>6. GotOK'
  <2>1. ASSUME NEW t \in Streams
        PROVE  /\ prog'[t].got # << >> => fd'[t] /\ Listening(prog'[t])
               /\ \A i \in 1 .. Len(prog'[t].got) :
                    prog'[t].got[i] = sent'[t] - Waiting(t)' - 1 - (Len(prog'[t].got) - i)
    <3>1. /\ prog[t].got # << >> => fd[t] /\ Listening(prog[t])
          /\ \A i \in 1 .. Len(prog[t].got) :
               prog[t].got[i] = sent[t] - Waiting(t) - 1 - (Len(prog[t].got) - i)
      BY DEF GotOK
    <3>2. Waiting(t)' = Waiting(t)
      BY <1>5
    <3>3. CASE t # s
      BY <1>1, <3>1, <3>2, <3>3
    <3>4. CASE t = s /\ got = << >>
      <4>1. prog'[t].got = << >> /\ Len(<< >>) = 0 /\ 1 .. 0 = {}
        BY <1>1, <3>4
      <4> QED
        BY <4>1
    <3>5. CASE t = s /\ got = prog[s].got /\ st = "closing" /\ prog[s].st = "on"
      <4>1. prog'[t].got = prog[t].got /\ prog'[t].st = "closing"
        BY <1>1, <3>5
      <4> QED
        BY <3>1, <3>2, <4>1 DEF Listening
    <3> QED
      BY <3>3, <3>4, <3>5
  <2> QED
    BY <2>1 DEF GotOK
<1>7. ASSUME NEW t \in Streams PROVE InOrder(t)' /\ (aborted'[t] \/ Complete(t)')
  <2>a. InOrder(t) /\ (aborted[t] \/ Complete(t))
    BY DEF BoardOK
  <2>1. CASE sock'[t] = sock[t] /\ aborted'[t] = aborted[t]
    <3>1. InOrder(t)'
      BY <2>a, <2>1 DEF InOrder
    <3>2. Complete(t) => Complete(t)'
      BY <2>1 DEF Complete
    <3> QED
      BY <2>a, <2>1, <3>1, <3>2
  <2>2. CASE sock'[t] = << >> /\ aborted'[t]
    <3>1. 1 .. Len(sock'[t]) = {}
      BY <2>2
    <3> QED
      BY <2>a, <2>2, <3>1 DEF InOrder
  <2> QED
    BY <1>3, <2>1, <2>2
<1>8. ~running' => \A t \in Streams : prog'[t].st # "on" /\ sock'[t] = << >>
  BY <1>1, <1>3 DEF BoardOK
<1> QED
  BY <1>4, <1>5, <1>6, <1>7, <1>8 DEF BoardOK

\* A program writes the next of its characters.
LEMMA WriteStep ==
  ASSUME NetInv, NEW s \in Streams, write(s), tty' = tty
  PROVE  NetInv'
<1> USE DEF NetInv
<1>1. /\ prog' = prog /\ fd' = fd /\ sent' = sent /\ arrived' = arrived /\ aborted' = aborted /\ running' = running
      /\ prog[s].st = "on"
  BY DEF write
<1>2. /\ DOMAIN sock' = Streams /\ typed' \in [Streams -> Nat]
      /\ sock'[s] = Append(sock[s], typed[s]) /\ typed'[s] = typed[s] + 1
      /\ \A t \in Streams : t # s => sock'[t] = sock[t] /\ typed'[t] = typed[t]
  BY DEF write, LinkType
<1>3. sock[s] \in Seq(Nat) /\ arrived[s] \in Seq(Nat) /\ typed[s] \in Nat
  BY DEF LinkType
<1>4. /\ sock'[s] \in Seq(Nat) /\ Len(sock'[s]) = Len(sock[s]) + 1 /\ sock'[s][Len(sock[s]) + 1] = typed[s]
      /\ \A i \in 1 .. Len(sock[s]) : sock'[s][i] = sock[s][i] /\ sock[s][i] \in Nat
      /\ Len(sock[s]) \in Nat /\ Len(arrived[s]) \in Nat /\ \A i \in 1 .. Len(arrived[s]) : arrived[s][i] \in Nat
  <2>1. /\ \A i \in 1 .. Len(sock[s]) : sock[s][i] \in Nat
        /\ \A i \in 1 .. Len(arrived[s]) : arrived[s][i] \in Nat
        /\ Len(sock[s]) \in Nat /\ Len(arrived[s]) \in Nat
    BY <1>3
  <2>2. /\ Append(sock[s], typed[s]) \in Seq(Nat)
        /\ Len(Append(sock[s], typed[s])) = Len(sock[s]) + 1
        /\ Append(sock[s], typed[s])[Len(sock[s]) + 1] = typed[s]
        /\ \A i \in 1 .. Len(sock[s]) : Append(sock[s], typed[s])[i] = sock[s][i]
    BY <1>3
  <2> QED
    BY <1>2, <2>1, <2>2
<1>5. LinkType'
  BY <1>1, <1>2, <1>4 DEF LinkType
<1>6. TtyOK' /\ \A t \in Streams : Waiting(t)' = Waiting(t)
  BY <1>1, TtyKept
<1>7. GotOK'
  BY <1>1, <1>6 DEF GotOK
<1>8. running
  BY <1>1 DEF BoardOK
<1>9. InOrder(s)'
  <2>1. InOrder(s)
    BY DEF BoardOK
  <2>2. \A i \in 1 .. Len(sock[s]) + 1 : i \in 1 .. Len(sock[s]) \/ i = Len(sock[s]) + 1
    BY <1>4
  <2>3. \A i, j \in 1 .. Len(sock'[s]) : i < j => sock'[s][i] < sock'[s][j]
    <3>1. /\ \A i, j \in 1 .. Len(sock[s]) : i < j => sock[s][i] < sock[s][j]
          /\ \A i \in 1 .. Len(sock[s]) : sock[s][i] < typed[s]
      BY <2>1 DEF InOrder
    <3> SUFFICES ASSUME NEW i \in 1 .. Len(sock'[s]), NEW j \in 1 .. Len(sock'[s]), i < j
                 PROVE  sock'[s][i] < sock'[s][j]
      OBVIOUS
    <3>2. i \in 1 .. Len(sock[s])
      BY <1>4, <2>2
    <3>3. CASE j \in 1 .. Len(sock[s])
      BY <1>4, <3>1, <3>2, <3>3
    <3>4. CASE j = Len(sock[s]) + 1
      BY <1>4, <3>1, <3>2, <3>4
    <3> QED
      BY <1>4, <2>2, <3>3, <3>4
  <2>4. \A i \in 1 .. Len(arrived[s]), j \in 1 .. Len(sock'[s]) : arrived[s][i] < sock'[s][j]
    BY <1>3, <1>4, <2>1, <2>2 DEF InOrder
  <2>5. \A i \in 1 .. Len(arrived[s]) : arrived[s][i] < typed'[s]
    BY <1>2, <1>3, <1>4, <2>1 DEF InOrder
  <2>6. \A i \in 1 .. Len(sock'[s]) : sock'[s][i] < typed'[s]
    BY <1>2, <1>3, <1>4, <2>1, <2>2 DEF InOrder
  <2> QED
    BY <1>1, <2>1, <2>3, <2>4, <2>5, <2>6 DEF InOrder
<1>10. Complete(s) => Complete(s)'
  <2> SUFFICES ASSUME Complete(s) PROVE Complete(s)'
    OBVIOUS
  <2>1. /\ \A i \in 1 .. Len(arrived[s]) : arrived[s][i] = i - 1
        /\ \A i \in 1 .. Len(sock[s]) : sock[s][i] = Len(arrived[s]) + i - 1
        /\ typed[s] = Len(arrived[s]) + Len(sock[s])
    BY <1>8 DEF Complete
  <2>2. ASSUME NEW i \in 1 .. Len(sock'[s]) PROVE sock'[s][i] = Len(arrived[s]) + i - 1
    <3>1. CASE i \in 1 .. Len(sock[s])
      BY <1>4, <2>1, <3>1
    <3>2. CASE i = Len(sock[s]) + 1
      <4>1. sock'[s][i] = typed[s]
        BY <1>4, <3>2
      <4>2. Len(sock[s]) \in Nat /\ Len(arrived[s]) \in Nat
        BY <1>4
      <4> QED
        BY <2>1, <3>2, <4>1, <4>2
    <3> QED
      BY <1>4, <3>1, <3>2
  <2>3. typed'[s] = Len(arrived[s]) + Len(sock'[s])
    <3>1. typed'[s] = typed[s] + 1 /\ Len(sock'[s]) = Len(sock[s]) + 1
      BY <1>2, <1>4
    <3>2. Len(sock[s]) \in Nat /\ Len(arrived[s]) \in Nat
      BY <1>4
    <3>3. typed[s] = Len(arrived[s]) + Len(sock[s])
      BY <2>1
    <3>4. (Len(arrived[s]) + Len(sock[s])) + 1 = Len(arrived[s]) + (Len(sock[s]) + 1)
      <4>1. \A m, n \in Nat : (m + n) + 1 = m + (n + 1)
        OBVIOUS
      <4> QED
        BY <3>2, <4>1
    <3> QED
      BY <3>1, <3>3, <3>4, Zenon
  <2> QED
    BY <1>1, <2>1, <2>2, <2>3 DEF Complete
<1>11. ASSUME NEW t \in Streams PROVE InOrder(t)' /\ (aborted'[t] \/ Complete(t)')
  <2>1. CASE t = s
    BY <1>1, <1>9, <1>10, <2>1 DEF BoardOK
  <2>2. CASE t # s
    BY <1>1, <1>2, <2>2, ZenonT(60) DEF BoardOK, InOrder, Complete
  <2> QED
    BY <2>1, <2>2
<1> QED
  BY <1>1, <1>5, <1>6, <1>7, <1>8, <1>11 DEF BoardOK

\* What a program does.
LEMMA ProgramStepKeeps ==
  ASSUME NetInv, ProgramStep, tty' = tty
  PROVE  NetInv'
<1> PICK s \in Streams : Connect(s) \/ write(s) \/ close(s) \/ Abort(s)
  BY DEF ProgramStep
<1>1. prog[s] = [st |-> prog[s].st, got |-> prog[s].got] /\ DOMAIN prog = Streams
  BY DEF NetInv, LinkType
<1>2. CASE Connect(s)
  BY <1>2, ProgramKept DEF Connect
<1>3. CASE write(s)
  BY <1>3, WriteStep
<1>4. CASE close(s)
  <2>1. prog' = [prog EXCEPT ![s] = [st |-> "closing", got |-> prog[s].got]]
    <3>1. prog' = [prog EXCEPT ![s].st = "closing"]
      BY <1>4 DEF close
    <3>2. [prog[s] EXCEPT !.st = "closing"] = [st |-> "closing", got |-> prog[s].got]
      BY <1>1
    <3> QED
      BY <3>1, <3>2
  <2>2. /\ prog[s].st = "on" /\ "closing" # "on"
        /\ sock' = sock /\ fd' = fd /\ sent' = sent /\ typed' = typed /\ arrived' = arrived
        /\ aborted' = aborted /\ running' = running
    BY <1>4 DEF close
  <2> DEFINE st == "closing"
             got == prog[s].got
  <2>3. prog' = [prog EXCEPT ![s] = [st |-> st, got |-> got]] /\ got = prog[s].got /\ st = "closing" /\ st # "on"
    BY <2>1
  <2> HIDE DEF st, got
  <2> QED
    BY <2>2, <2>3, ProgramKept
<1>5. CASE Abort(s)
  BY <1>5, ProgramKept DEF Abort
<1> QED
  BY <1>2, <1>3, <1>4, <1>5

\* The board sends a character.
LEMMA BoardSendsKeeps ==
  ASSUME NetInv, BoardSends
  PROVE  NetInv'
<1> USE DEF NetInv
<1>1. PICK s \in Streams : tty' = Append(tty, <<s, sent[s]>>) /\ sent' = [sent EXCEPT ![s] = @ + 1]
  BY DEF BoardSends
<1>2. UNCHANGED <<prog, sock, fd, typed, arrived, begun, aborted, running>>
  BY DEF BoardSends
<1>3. TtyOK' /\ \A t \in Streams : sent'[t] - Waiting(t)' = sent[t] - Waiting(t)
  BY <1>1, TtyAppended
<1>4. LinkType'
  BY <1>1, <1>2 DEF LinkType
<1>5. GotOK'
  BY <1>2, <1>3 DEF GotOK
<1>6. BoardOK'
  <2>1. /\ prog' = prog /\ sock' = sock /\ typed' = typed /\ arrived' = arrived
        /\ aborted' = aborted /\ running' = running
    BY <1>2
  <2>2. \A t \in Streams : (InOrder(t) => InOrder(t)') /\ (Complete(t) => Complete(t)')
    BY <2>1 DEF InOrder, Complete
  <2> QED
    BY <2>1, <2>2 DEF BoardOK
<1> QED
  BY <1>3, <1>4, <1>5, <1>6

\* The daemon ends, and its connections with it.
LEMMA EndKeeps ==
  ASSUME NetInv, End
  PROVE  NetInv'
<1> USE DEF NetInv
<1>1. /\ \A s \in Streams : prog'[s] = [st |-> "away", got |-> << >>] /\ sock'[s] = << >>
      /\ DOMAIN prog' = Streams /\ DOMAIN sock' = Streams /\ DOMAIN fd' = Streams
      /\ tty' = << >> /\ ~running' /\ sent' = sent /\ typed' = typed /\ arrived' = arrived /\ aborted' = aborted
  BY DEF End, Away
<1>a. << >> \in Seq(Nat) /\ Len(<< >>) = 0 /\ 1 .. 0 = {}
  OBVIOUS
<1>2. LinkType'
  <2>1. \A s \in Streams : prog'[s].st = "away" /\ prog'[s].got = << >>
    BY <1>1
  <2>2. /\ sent' \in [Streams -> Nat] /\ typed' \in [Streams -> Nat]
        /\ DOMAIN arrived' = Streams /\ DOMAIN aborted' = Streams
        /\ \A s \in Streams : arrived'[s] \in Seq(Nat)
    BY <1>1 DEF LinkType
  <2> QED
    BY <1>1, <1>a, <2>1, <2>2 DEF LinkType
<1>3. TtyOK'
  BY <1>1, TtyEmptied
<1>4. GotOK'
  BY <1>1 DEF GotOK
<1>5. BoardOK'
  <2>1. ASSUME NEW s \in Streams PROVE InOrder(s)' /\ (aborted'[s] \/ Complete(s)')
    <3>1. 1 .. Len(sock'[s]) = {} /\ arrived'[s] = arrived[s] /\ typed'[s] = typed[s] /\ aborted'[s] = aborted[s]
      BY <1>1, <1>a
    <3>2. InOrder(s) /\ (aborted[s] \/ Complete(s))
      BY DEF BoardOK
    <3>3. InOrder(s)'
      BY <3>1, <3>2 DEF InOrder
    <3>4. Complete(s) => Complete(s)'
      BY <1>1, <3>1 DEF Complete
    <3> QED
      BY <3>1, <3>2, <3>3, <3>4
  <2>2. \A s \in Streams : prog'[s].st # "on" /\ sock'[s] = << >>
    BY <1>1
  <2> QED
    BY <2>1, <2>2 DEF BoardOK
<1> QED
  BY <1>2, <1>3, <1>4, <1>5

\* A pass of its loop hands on all there is, to those who are connected.
LEMMA PassKeeps ==
  ASSUME NetInv, Pass
  PROVE  NetInv'
<1> USE DEF NetInv
<1>1. tty' = << >> /\ sent' = sent /\ typed' = typed /\ aborted' = aborted /\ running' = running /\ running
  BY DEF Pass
<1>2. TtyOK' /\ \A s \in Streams : Waiting(s)' = 0
  BY <1>1, TtyEmptied
<1>3. ASSUME NEW s \in Streams
      PROVE  /\ prog'[s] = [st |-> prog'[s].st, got |-> prog'[s].got] /\ prog'[s].got \in Seq(Nat)
             /\ prog'[s].got # << >> => fd'[s] /\ Listening(prog'[s])
             /\ \A i \in 1 .. Len(prog'[s].got) :
                  prog'[s].got[i] = sent[s] - 0 - 1 - (Len(prog'[s].got) - i)
  <2>1. prog'[s] = IF Close(s) THEN Away ELSE IF Asking(s) THEN Accept(prog[s])
                   ELSE IF fd[s] THEN Deliver(prog[s], Split(s, tty)) ELSE prog[s]
    BY DEF Pass
  <2>2. prog[s] = [st |-> prog[s].st, got |-> prog[s].got] /\ prog[s].got \in Seq(Nat)
    BY DEF LinkType
  <2>3. fd'[s] <=> (fd[s] \/ Asking(s)) /\ ~Close(s)
    BY DEF Pass
  <2>4. CASE Close(s)
    <3>1. prog'[s] = [st |-> "away", got |-> << >>]
      BY <2>1, <2>4 DEF Away
    <3> QED
      BY <3>1
  <2>5. CASE ~Close(s) /\ Asking(s)
    <3>1. prog'[s] = [st |-> "on", got |-> << >>]
      BY <2>1, <2>2, <2>5 DEF Accept, Asking, GotOK
    <3> QED
      BY <3>1
  <2>6. CASE ~Close(s) /\ ~Asking(s) /\ ~fd[s]
    <3>1. prog'[s] = prog[s] /\ prog[s].got = << >>
      BY <2>1, <2>6 DEF GotOK
    <3> QED
      BY <2>2, <3>1
  <2>7. CASE ~Close(s) /\ fd[s] /\ ~Listening(prog[s])
    <3>1. prog'[s] = prog[s] /\ prog[s].got = << >>
      BY <2>1, <2>7 DEF GotOK, Deliver, Asking
    <3> QED
      BY <2>2, <3>1
  <2>8. CASE ~Close(s) /\ fd[s] /\ Listening(prog[s])
    <3> DEFINE g == prog[s].got
               n == Split(s, tty)
    <3>1. prog'[s] = [st |-> prog[s].st, got |-> g \o n]
      BY <2>1, <2>2, <2>8 DEF Deliver, Asking
    <3>2. /\ Waiting(s) \in Nat /\ sent[s] \in Nat /\ n \in Seq(Nat) /\ Len(n) = Waiting(s)
          /\ \A k \in 1 .. Waiting(s) : n[k] = sent[s] - Waiting(s) + k - 1
      BY SplitIs
    <3>3. /\ g \in Seq(Nat) /\ Len(g) \in Nat
          /\ \A i \in 1 .. Len(g) : g[i] = sent[s] - Waiting(s) - 1 - (Len(g) - i)
      BY <2>2 DEF GotOK
    <3> HIDE DEF g, n
    <3>4. /\ g \o n \in Seq(Nat) /\ Len(g \o n) = Len(g) + Len(n)
          /\ \A i \in 1 .. Len(g) + Len(n) :
                (g \o n)[i] = IF i <= Len(g) THEN g[i] ELSE n[i - Len(g)]
      BY <3>2, <3>3, ConcatProperties
    <3>5. ASSUME NEW i \in 1 .. Len(g \o n)
          PROVE  (g \o n)[i] = sent[s] - 0 - 1 - (Len(g \o n) - i)
      <4>1. CASE i <= Len(g)
        <5>1. i \in 1 .. Len(g)
          BY <3>2, <3>3, <3>4, <4>1
        <5> QED
          BY <3>2, <3>3, <3>4, <4>1, <5>1
      <4>2. CASE ~(i <= Len(g))
        <5>1. i - Len(g) \in 1 .. Waiting(s)
          BY <3>2, <3>3, <3>4, <4>2
        <5>2. n[i - Len(g)] = sent[s] - Waiting(s) + (i - Len(g)) - 1
          BY <3>2, <5>1
        <5> QED
          BY <3>2, <3>3, <3>4, <4>2, <5>1, <5>2
      <4> QED
        BY <4>1, <4>2
    <3> QED
      BY <2>3, <2>8, <3>1, <3>4, <3>5 DEF Listening
  <2> QED
    BY <2>4, <2>5, <2>6, <2>7, <2>8
<1>4. ASSUME NEW s \in Streams
      PROVE  /\ sock'[s] \in Seq(Nat) /\ arrived'[s] \in Seq(Nat)
             /\ InOrder(s)' /\ (aborted'[s] \/ Complete(s)')
  <2>1. /\ sock'[s] = IF Read(s) THEN << >> ELSE sock[s]
        /\ arrived'[s] = IF Read(s) THEN arrived[s] \o sock[s] ELSE arrived[s]
    BY DEF Pass
  <2>2. sock[s] \in Seq(Nat) /\ arrived[s] \in Seq(Nat) /\ InOrder(s) /\ (aborted[s] \/ Complete(s)) /\ typed[s] \in Nat
    BY DEF LinkType, BoardOK
  <2>3. CASE ~Read(s)
    BY <1>1, <2>1, <2>2, <2>3 DEF InOrder, Complete
  <2>4. CASE Read(s)
    <3> DEFINE a == arrived[s]
               b == sock[s]
    <3>1. /\ a \o b \in Seq(Nat) /\ Len(a \o b) = Len(a) + Len(b) /\ Len(a) \in Nat /\ Len(b) \in Nat
          /\ \A i \in 1 .. Len(a) + Len(b) : (a \o b)[i] = IF i <= Len(a) THEN a[i] ELSE b[i - Len(a)]
      <4>1. a \in Seq(Nat) /\ b \in Seq(Nat)
        BY <2>2
      <4> HIDE DEF a, b
      <4>2. Len(a) \in Nat /\ Len(b) \in Nat
        BY <4>1
      <4> QED
        BY <4>1, <4>2, ConcatProperties
    <3>a. Len(a) \in Nat /\ Len(b) \in Nat
      BY <3>1
    <3>2. \A i \in 1 .. Len(a) + Len(b) : i \in 1 .. Len(a) \/ (~(i <= Len(a)) /\ i - Len(a) \in 1 .. Len(b))
      <4> HIDE DEF a, b
      <4> QED
        BY <3>a
    <3>3. \A i \in 1 .. Len(a) : a[i] \in Nat
      BY <2>2
    <3>4. \A i \in 1 .. Len(b) : b[i] \in Nat
      BY <2>2
    <3>5. arrived'[s] = a \o b /\ sock'[s] = << >> /\ Len(sock'[s]) = 0
      <4>1. Len(<< >>) = 0
        OBVIOUS
      <4> QED
        BY <2>1, <2>4, <4>1
    <3>6. /\ \A i, j \in 1 .. Len(a) : i < j => a[i] < a[j]
          /\ \A i, j \in 1 .. Len(b) : i < j => b[i] < b[j]
          /\ \A i \in 1 .. Len(a), j \in 1 .. Len(b) : a[i] < b[j]
          /\ \A i \in 1 .. Len(a) : a[i] < typed[s]
          /\ \A i \in 1 .. Len(b) : b[i] < typed[s]
      BY <2>2 DEF InOrder
    <3>7. Complete(s) => /\ \A i \in 1 .. Len(a) : a[i] = i - 1
                         /\ \A i \in 1 .. Len(b) : b[i] = Len(a) + i - 1
                         /\ typed[s] = Len(a) + Len(b)
      BY <1>1 DEF Complete
    <3> HIDE DEF a, b
    <3>8. ASSUME NEW i \in 1 .. Len(a \o b), NEW j \in 1 .. Len(a \o b), i < j
          PROVE  (a \o b)[i] < (a \o b)[j]
      <4>1. CASE j <= Len(a)
        BY <3>1, <3>2, <3>6, <3>8, <4>1
      <4>2. CASE i <= Len(a) /\ ~(j <= Len(a))
        <5>1. i \in 1 .. Len(a) /\ j - Len(a) \in 1 .. Len(b)
          BY <3>1, <3>2, <4>2
        <5> QED
          BY <3>1, <3>6, <4>2, <5>1
      <4>3. CASE ~(i <= Len(a))
        <5>1. i - Len(a) \in 1 .. Len(b) /\ j - Len(a) \in 1 .. Len(b) /\ i - Len(a) < j - Len(a) /\ ~(j <= Len(a))
          BY <3>1, <3>2, <3>8, <4>3
        <5> QED
          BY <3>1, <3>6, <4>3, <5>1
      <4> QED
        BY <4>1, <4>2, <4>3
    <3>9. \A i \in 1 .. Len(a \o b) : (a \o b)[i] < typed[s]
      BY <3>1, <3>2, <3>6
    <3>10. InOrder(s)'
      BY <1>1, <3>5, <3>8, <3>9 DEF InOrder
    <3>11. ASSUME Complete(s) PROVE Complete(s)'
      <4>1. \A i \in 1 .. Len(a \o b) : (a \o b)[i] = i - 1
        BY <3>1, <3>2, <3>7, <3>11
      <4> QED
        <5>1. /\ \A i \in 1 .. Len(arrived'[s]) : arrived'[s][i] = i - 1
              /\ 1 .. Len(sock'[s]) = {}
          BY <3>5, <4>1
        <5>2. typed'[s] = Len(arrived'[s]) + Len(sock'[s])
          BY <1>1, <3>1, <3>5, <3>7, <3>11
        <5> QED
          BY <5>1, <5>2 DEF Complete
    <3> QED
      BY <1>1, <2>2, <3>1, <3>5, <3>10, <3>11
  <2> QED
    BY <2>3, <2>4
<1>5. DOMAIN prog' = Streams /\ DOMAIN fd' = Streams /\ DOMAIN sock' = Streams /\ DOMAIN arrived' = Streams
  BY DEF Pass
<1>6. LinkType'
  BY <1>1, <1>3, <1>4, <1>5 DEF LinkType
<1>7. GotOK'
  <2>1. ASSUME NEW s \in Streams
        PROVE  /\ prog'[s].got # << >> => fd'[s] /\ Listening(prog'[s])
               /\ \A i \in 1 .. Len(prog'[s].got) :
                    prog'[s].got[i] = sent'[s] - Waiting(s)' - 1 - (Len(prog'[s].got) - i)
    <3>1. sent'[s] = sent[s] /\ Waiting(s)' = 0
      BY <1>1, <1>2
    <3> QED
      BY <1>3, <3>1, ZenonT(60)
  <2> QED
    BY <2>1 DEF GotOK
<1>8. BoardOK'
  BY <1>1, <1>4 DEF BoardOK
<1> QED
  BY <1>2, <1>6, <1>7, <1>8

\* At first nobody is connected and nothing has been sent.
LEMMA NetInvInit == LinkInit /\ NetInit => NetInv
<1> SUFFICES ASSUME LinkInit, NetInit PROVE NetInv
  OBVIOUS
<1>1. LinkType
  <2>1. << >> \in Seq(Nat) /\ 0 \in Nat
    OBVIOUS
  <2>2. /\ sent \in [Streams -> Nat] /\ typed \in [Streams -> Nat]
        /\ DOMAIN prog = Streams /\ DOMAIN sock = Streams /\ DOMAIN arrived = Streams /\ DOMAIN aborted = Streams
        /\ DOMAIN fd = Streams
        /\ \A s \in Streams : sock[s] = << >> /\ arrived[s] = << >>
    BY DEF LinkInit
  <2>3. \A s \in Streams : prog[s] = [st |-> "away", got |-> << >>]
    BY DEF LinkInit, Away
  <2>4. \A s \in Streams : prog[s].st = "away" /\ prog[s].got = << >>
    BY <2>3
  <2> QED
    BY <2>1, <2>2, <2>3, <2>4 DEF LinkType
<1>2. tty = << >>
  BY DEF NetInit
<1>3. TtyOK
  <2>1. \A s \in Streams : Places(s, tty) = {}
    BY <1>2 DEF Places
  <2>2. IsFiniteSet({}) /\ Cardinality({}) = 0
    BY FS_EmptySet
  <2>3. \A s \in Streams : Waiting(s) = 0 /\ sent[s] = 0
    BY <2>1, <2>2 DEF Waiting, LinkInit
  <2> QED
    BY <1>2, <2>1, <2>2, <2>3 DEF TtyOK
<1>4. GotOK /\ BoardOK
  BY DEF LinkInit, Away, GotOK, BoardOK, InOrder, Complete
<1> QED
  BY <1>1, <1>3, <1>4 DEF NetInv

\* Every step of daemon, board and programs keeps it.
LEMMA NetInvStep == NetInv /\ [NetNext]_netVars => NetInv'
<1> SUFFICES ASSUME NetInv, [NetNext]_netVars PROVE NetInv'
  OBVIOUS
<1>1. CASE ProgramStep /\ UNCHANGED tty
  BY <1>1, ProgramStepKeeps
<1>2. CASE BoardSends
  BY <1>2, BoardSendsKeeps
<1>3. CASE Signal \/ Exit
  BY <1>3, EndKeeps DEF Signal, Exit
<1>4. CASE Pass
  BY <1>4, PassKeeps
<1>5. CASE UNCHANGED netVars
  <2>1. prog' = prog /\ sock' = sock /\ fd' = fd /\ sent' = sent /\ typed' = typed /\ arrived' = arrived
        /\ aborted' = aborted /\ running' = running /\ tty' = tty
    BY <1>5 DEF netVars, link
  <2>2. TtyOK' /\ \A t \in Streams : Waiting(t)' = Waiting(t)
    BY <2>1, TtyKept DEF NetInv
  <2> QED
    BY <2>1, <2>2 DEF NetInv, LinkType, GotOK, BoardOK, InOrder, Complete
<1> QED
  BY <1>1, <1>2, <1>3, <1>4, <1>5 DEF NetNext, NetStep

\* Characters that a program gets are those it is to get.
LEMMA NetInvShows == NetInv => ProgramsGetARun /\ BoardGetsInOrder
<1> SUFFICES ASSUME NetInv PROVE ProgramsGetARun /\ BoardGetsInOrder
  OBVIOUS
<1> USE DEF NetInv
<1>1. ASSUME NEW s \in Streams
      PROVE  Run(prog[s].got) /\ \A i \in DOMAIN prog[s].got : prog[s].got[i] < sent[s]
  <2> DEFINE g == prog[s].got
  <2>1. /\ g \in Seq(Nat) /\ Len(g) \in Nat /\ DOMAIN g = 1 .. Len(g)
        /\ \A i \in 1 .. Len(g) : g[i] = sent[s] - Waiting(s) - 1 - (Len(g) - i)
        /\ Waiting(s) \in Nat /\ sent[s] \in Nat
    <3>1. g \in Seq(Nat)
      BY DEF LinkType
    <3>2. \A i \in 1 .. Len(g) : g[i] = sent[s] - Waiting(s) - 1 - (Len(g) - i)
      BY DEF GotOK
    <3>3. Waiting(s) \in Nat /\ sent[s] \in Nat
      BY SplitIs
    <3> HIDE DEF g
    <3> QED
      BY <3>1, <3>2, <3>3
  <2> HIDE DEF g
  <2>2. \A i \in 1 .. Len(g) - 1 : i \in 1 .. Len(g) /\ i + 1 \in 1 .. Len(g)
    BY <2>1
  <2>3. ASSUME NEW i \in 1 .. Len(g) - 1
        PROVE  g[i + 1] = g[i] + 1
    <3>1. /\ g[i] = sent[s] - Waiting(s) - 1 - (Len(g) - i)
          /\ g[i + 1] = sent[s] - Waiting(s) - 1 - (Len(g) - (i + 1))
      BY <2>1, <2>2
    <3>2. sent[s] \in Int /\ Waiting(s) \in Int /\ Len(g) \in Int /\ i \in Int
      BY <2>1
    <3>3. \A a, b, c, k \in Int : a - b - 1 - (c - (k + 1)) = (a - b - 1 - (c - k)) + 1
      OBVIOUS
    <3> QED
      BY <3>1, <3>2, <3>3
  <2>4. \A i \in DOMAIN g : g[i] < sent[s]
    BY <2>1
  <2> QED
    BY <2>3, <2>4 DEF Run, g
<1>2. ASSUME NEW s \in Streams
      PROVE  Increasing(arrived[s]) /\ (aborted[s] \/ \A i \in DOMAIN arrived[s] : arrived[s][i] = i - 1)
  <2>1. arrived[s] \in Seq(Nat) /\ Len(arrived[s]) \in Nat /\ DOMAIN arrived[s] = 1 .. Len(arrived[s])
    BY DEF LinkType
  <2>2. \A i, j \in 1 .. Len(arrived[s]) : i < j => arrived[s][i] < arrived[s][j]
    BY DEF BoardOK, InOrder
  <2>3. aborted[s] \/ \A i \in 1 .. Len(arrived[s]) : arrived[s][i] = i - 1
    BY DEF BoardOK, Complete
  <2>4. \A i \in 1 .. Len(arrived[s]) - 1 : i \in 1 .. Len(arrived[s]) /\ i + 1 \in 1 .. Len(arrived[s]) /\ i < i + 1
    BY <2>1
  <2> QED
    BY <2>1, <2>2, <2>3, <2>4 DEF Increasing
<1> QED
  BY <1>1, <1>2 DEF ProgramsGetARun, BoardGetsInOrder

\* Behind netuart (netuart.cpp:370-504) a program gets the characters of its own stream, each once and in order,
\* with none missing between the first and the last, whoever connects, closes or is killed meanwhile.
THEOREM ProgramsAlwaysGetARun == NetSpec => []ProgramsGetARun
<1>1. NetInv => ProgramsGetARun
  BY NetInvShows
<1> QED
  BY <1>1, NetInvInit, NetInvStep, PTL DEF NetSpec

\* And the board gets what the programs of a stream wrote, once and in order, and all of it as long as none of
\* them was killed (netuart.cpp:475-484).
THEOREM BoardAlwaysGetsInOrder == NetSpec => []BoardGetsInOrder
<1>1. NetInv => BoardGetsInOrder
  BY NetInvShows
<1> QED
  BY <1>1, NetInvInit, NetInvStep, PTL DEF NetSpec
=============================================================================
