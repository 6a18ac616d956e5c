--------------------------- MODULE WbuExecProofs ---------------------------
(***************************************************************************)
(* For vector reads of any length that the counters of wbuexec.v can hold, *)
(* addresses of any width and a slave that stalls and answers as it likes: *)
(* a vector read that ends without a bus error has asked for exactly the   *)
(* words it was told to, and has them all.                                 *)
(*                                                                         *)
(* The code never compares what it asked for with what it was answered.    *)
(* It ends a read on last_ack, a flag computed a clock ahead from two      *)
(* counters, and drops its strobe on another.  The invariant ties the      *)
(* flags to the counters, the counters to what the slave holds, and all of *)
(* it to the length that was asked for.                                    *)
(*                                                                         *)
(* The second half follows the address of every word: what the host works  *)
(* out, what the bus master counts, and what the slave still holds.        *)
(***************************************************************************)
EXTENDS Integers, WbuExecBus, SequenceTheorems, TLAPS

\* What holds of the bus in every state of the machine.
BusOK ==
    /\ i_reset = FALSE
    /\ i_codword \in Command
    /\ o_wb_addr \in Address /\ o_wb_we \in BOOLEAN
    /\ atSlave \in Seq(Request)
    /\ wb_state \in {"idle", "flush"} => ~o_wb_cyc
    /\ ~o_wb_cyc => atSlave = << >>
    /\ i_wb_ack => atSlave # << >>
    /\ wb_state \in {"idle", "read", "write", "flush"}

\* What a vector read owes: words the slave holds, and words not yet asked for.
Counting ==
    wb_state = "read" =>
       /\ asked \in 1 .. MaxLen /\ answered \in Nat
       /\ r_len \in Nat /\ r_acks_needed \in Nat
       /\ r_acks_needed = Len(atSlave)
       /\ answered + r_acks_needed + r_len = asked
       /\ o_wb_cyc /\ ~o_wb_we
       /\ o_wb_stb <=> r_len > 0
       /\ last_read_request <=> r_len <= 1
       /\ single_read_request => r_len <= 1
       /\ last_ack <=> r_len + r_acks_needed <= 1

IInv == BusOK /\ Counting

\* Every codeword of a vector read has a length the counter holds.
LEMMA ReadLength ==
  ASSUME NEW cw \in Command, IsRead(cw)
  PROVE  cw.len \in 1 .. MaxLen
  BY DEF Command, IsRead

\* The queue of the slave loses what it answers and gains what is issued.
LEMMA SlaveLength ==
  ASSUME IInv, Next, wb_state = "read", wb_state' = "read"
  PROVE  Len(atSlave') = Len(atSlave) + (IF Issued THEN 1 ELSE 0)
                                      - (IF i_wb_ack THEN 1 ELSE 0)
<1> DEFINE kept == IF i_wb_ack THEN Tail(atSlave) ELSE atSlave
           new  == IF Issued THEN <<[we |-> o_wb_we, a |-> o_wb_addr]>> ELSE << >>
<1>1. atSlave \in Seq(Request) /\ (i_wb_ack => atSlave # << >>)
  BY DEF IInv, BusOK
<1>2. kept \in Seq(Request) /\ Len(kept) = Len(atSlave) - (IF i_wb_ack THEN 1 ELSE 0)
  BY <1>1, HeadTailProperties, LenProperties
<1>3. [we |-> o_wb_we, a |-> o_wb_addr] \in Request
  BY DEF IInv, BusOK, Request
<1>4. new \in Seq(Request) /\ Len(new) = IF Issued THEN 1 ELSE 0
  BY <1>3
<1>5. o_wb_cyc /\ o_wb_cyc'
  <2>1. o_wb_cyc
    BY DEF IInv, Counting
  <2>2. ReadRequest
    BY DEF Next, ExecClock, ControlClock, Idle, WriteRequest, Flush, IInv, BusOK
  <2> QED
    BY <2>1, <2>2 DEF ReadRequest, ControlTo
<1>6. atSlave' = kept \o new
  BY <1>5 DEF Next, ExecClock, SlaveClock
<1>7. Len(kept \o new) = Len(kept) + Len(new)
  BY <1>2, <1>4, ConcatProperties
<1>8. Len(atSlave) \in Nat
  BY <1>1, LenProperties
<1> HIDE DEF kept, new
<1> QED
  BY <1>2, <1>4, <1>6, <1>7, <1>8

\* A clock keeps the bus and its commands as they are.
LEMMA BusStep ==
  ASSUME BusOK, Next
  PROVE  BusOK'
<1> USE ExecAssumption
<1>1. i_reset' = FALSE /\ ~i_reset
  BY DEF Next, BusOK
<1>2. i_codword' \in Command
  BY DEF Next, SourceClock, BusOK
<1>3. o_wb_addr' \in Address
  <2>1. o_wb_addr \in Nat /\ ADDRESSES \in Nat /\ ADDRESSES > 0
    BY DEF BusOK, Address
  <2>2. \A n \in Nat : n % ADDRESSES \in Address
    BY <2>1 DEF Address
  <2>3. i_codword.op = "addr" => i_codword.a \in Address
    BY DEF BusOK, Command
  <2>4. i_codword.op = "rel" => i_codword.a \in Address
    BY DEF BusOK, Command
  <2>5. i_codword.op = "rel" => (o_wb_addr + i_codword.a) % ADDRESSES \in Address
    <3>1. ASSUME i_codword.op = "rel" PROVE i_codword.a \in Nat
      BY <2>4, <3>1 DEF Address
    <3> QED
      BY <2>1, <2>2, <3>1
  <2>6. (o_wb_addr + 1) % ADDRESSES \in Address
    BY <2>1, <2>2
  <2> QED
    BY <2>3, <2>5, <2>6 DEF Next, ExecClock, AddressClock, BusOK
<1>4. o_wb_we' \in BOOLEAN
  BY DEF Next, ExecClock, ControlClock, BusOK
<1>5. /\ wb_state' \in {"idle", "flush"} => ~o_wb_cyc'
      /\ wb_state' \in {"idle", "read", "write", "flush"}
  <2>1. Idle \/ ReadRequest \/ WriteRequest \/ Flush
    BY <1>1 DEF Next, ExecClock, ControlClock
  <2> QED
    BY <2>1 DEF Idle, ReadRequest, WriteRequest, Flush, ControlTo
<1>6. atSlave' \in Seq(Request)
  <2>1. [we |-> o_wb_we, a |-> o_wb_addr] \in Request
    BY DEF BusOK, Request
  <2>2. atSlave \in Seq(Request) /\ (i_wb_ack => atSlave # << >>)
    BY DEF BusOK
  <2>3. i_wb_ack => Tail(atSlave) \in Seq(Request)
    BY <2>2, HeadTailProperties
  <2>4. \A s, t \in Seq(Request) : s \o t \in Seq(Request)
    BY ConcatProperties
  <2>5. << >> \in Seq(Request) /\ <<[we |-> o_wb_we, a |-> o_wb_addr]>> \in Seq(Request)
    BY <2>1
  <2> QED
    BY <2>2, <2>3, <2>4, <2>5 DEF Next, ExecClock, SlaveClock
<1>7. /\ ~o_wb_cyc' => atSlave' = << >>
      /\ i_wb_ack' => atSlave' # << >>
  BY DEF Next, ExecClock, SlaveClock
<1> QED
  BY <1>1, <1>2, <1>3, <1>4, <1>5, <1>6, <1>7 DEF BusOK

\* A vector read begins with nothing at the slave and its whole length to ask.
LEMMA CountingStart ==
  ASSUME IInv, Next, wb_state # "read", wb_state' = "read"
  PROVE  Counting'
<1>1. Idle /\ wb_state = "idle" /\ ~o_wb_cyc
  BY DEF Next, ExecClock, ControlClock, Idle, ReadRequest, WriteRequest, Flush, ControlTo,
         IInv, BusOK
<1>2. Starts /\ IsRead(i_codword) /\ o_wb_cyc' /\ o_wb_stb'
  BY <1>1 DEF Idle, ControlTo
<1>3. i_codword.len \in 1 .. MaxLen
  BY <1>2, ReadLength DEF IInv, BusOK
<1>4. asked' = i_codword.len /\ answered' = 0
  BY <1>2 DEF Next, HostClock
<1>5. r_acks_needed' = 0
  BY <1>1 DEF Next, ExecClock, AcksClock
<1>6. atSlave' = << >>
  BY <1>1 DEF Next, ExecClock, SlaveClock
<1>7. /\ r_len' = i_codword.len
      /\ last_ack' <=> i_codword.len <= 1
      /\ single_read_request' <=> i_codword.len <= 1
      /\ last_read_request' <=> i_codword.len <= 1
  BY <1>1, <1>2 DEF Next, ExecClock, LenClock, LenOf, Len1
<1>8. ~o_wb_we'
  BY <1>1, <1>2 DEF Next, ExecClock, ControlClock, IInv, BusOK
<1> QED
  BY <1>2, <1>3, <1>4, <1>5, <1>6, <1>7, <1>8, ExecAssumption DEF Counting

\* What a clock of a vector read that goes on finds, and what it does.
LEMMA CountingKept ==
  ASSUME IInv, Next, wb_state = "read", wb_state' = "read"
  PROVE  Counting'
<1> DEFINE issued == IF Issued THEN 1 ELSE 0
           acked  == IF i_wb_ack THEN 1 ELSE 0
<1>1. /\ asked \in 1 .. MaxLen /\ answered \in Nat
      /\ r_len \in Nat /\ r_acks_needed \in Nat
      /\ r_acks_needed = Len(atSlave)
      /\ answered + r_acks_needed + r_len = asked
      /\ o_wb_cyc /\ ~o_wb_we
      /\ o_wb_stb <=> r_len > 0
      /\ last_read_request <=> r_len <= 1
      /\ single_read_request => r_len <= 1
      /\ last_ack <=> r_len + r_acks_needed <= 1
  BY DEF IInv, Counting
<1>2. /\ ReadRequest /\ ~i_reset
      /\ ~(i_wb_ack /\ last_ack) /\ o_wb_cyc'
      /\ o_wb_stb' <=> (o_wb_stb /\ ~LastIssued)
  <2>1. ReadRequest /\ ~i_reset
    BY DEF Next, ExecClock, ControlClock, Idle, WriteRequest, Flush, IInv, BusOK
  <2> QED
    BY <2>1 DEF ReadRequest, ControlTo
<1>3. Issued => r_len > 0
  BY <1>1 DEF Issued
<1>4. i_wb_ack => r_acks_needed > 0
  BY <1>1, EmptySeq, LenProperties DEF IInv, BusOK
<1>5. asked' = asked /\ answered' = answered + acked /\ ~o_wb_we'
  BY <1>1 DEF Next, ExecClock, ControlClock, HostClock, Starts
<1>6. r_len' = r_len - issued
  BY <1>1, <1>3 DEF Next, ExecClock, LenClock
<1>7. r_acks_needed' = r_acks_needed + issued - acked
  <2>1. r_acks_needed + r_len <= 1023
    BY <1>1, ExecAssumption
  <2>2. CASE Issued /\ ~i_wb_ack
    <3>1. r_acks_needed' = (r_acks_needed + 1) % 1024
      BY <1>1, <1>2, <2>2 DEF Next, ExecClock, AcksClock
    <3> QED
      BY <1>1, <1>3, <2>1, <2>2, <3>1
  <2>3. CASE ~Issued /\ i_wb_ack
    <3>1. r_acks_needed' = (r_acks_needed + 1023) % 1024
      BY <1>1, <1>2, <2>3 DEF Next, ExecClock, AcksClock
    <3> QED
      BY <1>1, <1>4, <2>1, <2>3, <3>1
  <2>4. CASE Issued <=> i_wb_ack
    <3>1. r_acks_needed' = r_acks_needed
      BY <1>1, <1>2, <2>4 DEF Next, ExecClock, AcksClock
    <3> QED
      BY <1>1, <2>4, <3>1
  <2> QED
    BY <2>2, <2>3, <2>4
<1>8. Len(atSlave') = r_acks_needed'
  BY <1>1, <1>7, SlaveLength
<1>9. /\ last_read_request' <=> r_len' <= 1
      /\ single_read_request' => r_len' <= 1
  <2>1. /\ last_read_request' <=> r_len <= (IF Issued THEN 2 ELSE 1)
        /\ single_read_request' <=> single_read_request
    BY <1>1 DEF Next, ExecClock, LenClock
  <2> QED
    BY <1>1, <1>3, <1>6, <2>1
<1>10. o_wb_stb' <=> r_len' > 0
  BY <1>1, <1>2, <1>6 DEF LastIssued, Issued
<1>11. last_ack' <=> r_len' + r_acks_needed' <= 1
  <2>1. last_ack' <=> r_len + r_acks_needed <= (IF i_wb_ack THEN 2 ELSE 1)
    BY <1>1 DEF Next, ExecClock, LenClock, NextIsLast
  <2>2. r_len' + r_acks_needed' = r_len + r_acks_needed - acked
    BY <1>1, <1>6, <1>7
  <2> QED
    BY <1>1, <2>1, <2>2
<1>12. r_len' \in Nat /\ r_acks_needed' \in Nat /\ answered' \in Nat
  BY <1>1, <1>3, <1>4, <1>5, <1>6, <1>7
<1>13. answered' + r_acks_needed' + r_len' = asked'
  <2> HIDE DEF issued, acked
  <2>1. issued \in {0, 1} /\ acked \in {0, 1}
    BY DEF issued, acked
  <2> QED
    BY <1>1, <1>5, <1>6, <1>7, <2>1
<1> QED
  BY <1>1, <1>2, <1>5, <1>8, <1>9, <1>10, <1>11, <1>12, <1>13 DEF Counting

\* A vector read ends with its last word, and only then.
LEMMA ReadEnds ==
  ASSUME IInv, Next, wb_state = "read", wb_state' = "idle", ~i_wb_err
  PROVE  answered' = asked /\ ~o_wb_stb /\ Len(atSlave) = 1
<1>1. i_wb_ack /\ last_ack
  BY DEF Next, ExecClock, ControlClock, Idle, ReadRequest, WriteRequest, Flush, ControlTo,
         IInv, BusOK
<1>2. Len(atSlave) > 0
  BY <1>1, EmptySeq, LenProperties DEF IInv, BusOK
<1>3. answered' = answered + 1
  BY <1>1 DEF Next, HostClock, Starts
<1>4. Len(atSlave) = 1 /\ r_len = 0
  BY <1>1, <1>2 DEF IInv, Counting
<1> QED
  BY <1>3, <1>4 DEF IInv, Counting

\* Initially the bus is idle.
LEMMA InitInv == Init => IInv
<1> SUFFICES ASSUME Init PROVE IInv
  OBVIOUS
<1>1. i_codword \in Command
  BY DEF Init, Command
<1>2. atSlave \in Seq(Request)
  BY DEF Init, ExecInit
<1>3. BusOK
  BY <1>1, <1>2 DEF Init, ExecInit, BusOK
<1>4. Counting
  BY DEF Init, ExecInit, Counting
<1> QED
  BY <1>3, <1>4 DEF IInv

\* The invariant holds of every state: the flags of a vector read agree with
\* its counters, and these with what was asked for and answered (wbuexec.v
\* :196-238).
THEOREM CountersAlwaysAgree == Spec => []IInv
<1>1. IInv /\ [Next]_allvars => IInv'
  <2> SUFFICES ASSUME IInv, [Next]_allvars PROVE IInv'
    OBVIOUS
  <2>1. CASE Next
    <3>1. BusOK'
      BY <2>1, BusStep DEF IInv
    <3>2. Counting'
      <4>1. CASE wb_state' # "read"
        BY <4>1 DEF Counting
      <4>2. CASE wb_state' = "read"
        BY <2>1, <4>2, CountingStart, CountingKept
      <4> QED
        BY <4>1, <4>2
    <3> QED
      BY <3>1, <3>2 DEF IInv
  <2>2. CASE UNCHANGED allvars
    BY <2>2 DEF allvars, vars, busIn, exec, control, reading, IInv, BusOK, Counting
  <2> QED
    BY <2>1, <2>2
<1> QED
  BY <1>1, InitInv, PTL DEF Spec

\* A vector read that no bus error ends has asked for as many words as it was
\* told to, and ends on the clock that brings the last of them.
THEOREM AlwaysReadsExactly == Spec => ReadsExactly
<1>1. IInv /\ [Next]_allvars
        => [wb_state = "read" /\ wb_state' = "idle" /\ ~i_wb_err
              => answered' = asked /\ ~o_wb_stb /\ Len(atSlave) = 1]_allvars
  BY ReadEnds DEF allvars
<1> QED
  BY <1>1, CountersAlwaysAgree, PTL DEF Spec, ReadsExactly
-----------------------------------------------------------------------------
\* The word of a vector read in i-th place from the front of what the slave
\* holds; after the last of them comes the one the strobe asks for.
Asked(i) == IF i <= Len(atSlave) THEN atSlave[i].a ELSE o_wb_addr

\* Between two bursts the bus address is what the host works out, once it has
\* the answer that is on its way.
IdleAddress ==
    wb_state = "idle" =>
       /\ ~o_busy /\ ~o_wb_stb
       /\ ~failed => o_wb_addr = Answered

\* The host counts a word written when its codeword is taken, the bus when the
\* request is issued; the source holds a write of this burst, or what ends it.
WriteAddress ==
    wb_state = "write" =>
       /\ o_wb_cyc /\ o_wb_we
       /\ ~o_busy => i_stb /\ ~o_wb_stb /\ IsWrite(i_codword)
       /\ IF IsWrite(i_codword) THEN i_codword.inc = r_inc ELSE i_stb
       /\ o_codword.kind # "data"
       /\ ~failed => lastaddr = IF o_wb_stb THEN plus(o_wb_addr, Step(r_inc))
                                ELSE o_wb_addr

\* The words of a vector read follow each other from the address the host has,
\* and the bus address follows the last of them.
ReadAddress ==
    wb_state = "read" =>
       /\ o_busy
       /\ o_stb /\ o_codword.kind = "data" => o_codword.inc = r_inc
       /\ ~failed =>
            /\ Asked(1) = Answered
            /\ \A i \in 1 .. Len(atSlave) : Asked(i+1) = plus(Asked(i), Step(r_inc))

\* Writes are skipped only after an error, and none of them is taken.
FlushAddress == wb_state = "flush" => o_busy /\ failed

AddrInv == IInv /\ IdleAddress /\ WriteAddress /\ ReadAddress /\ FlushAddress

\* Issuing a request moves the address on by what the burst steps by.
LEMMA NextAddress ==
  ASSUME IInv, Next, ~(Taken /\ i_codword.op \in {"addr", "rel"})
  PROVE  o_wb_addr' = IF Issued THEN plus(o_wb_addr, Step(r_inc)) ELSE o_wb_addr
<1>1. o_wb_addr \in Nat /\ ADDRESSES \in Nat /\ 0 < ADDRESSES /\ o_wb_addr < ADDRESSES
  BY ExecAssumption DEF IInv, BusOK, Address
<1>2. plus(o_wb_addr, 0) = o_wb_addr
  BY <1>1 DEF plus
<1>3. o_wb_addr' = IF Issued /\ r_inc THEN plus(o_wb_addr, 1) ELSE o_wb_addr
  BY DEF Next, ExecClock, AddressClock, Taken, plus
<1> QED
  BY <1>2, <1>3 DEF Step

\* What a clock of the machine does in each of its states (no reset).
LEMMA Machine ==
  ASSUME IInv, Next
  PROVE  /\ wb_state = "idle" => Idle /\ ~o_wb_cyc
         /\ wb_state = "read" => ReadRequest /\ o_wb_cyc /\ ~o_wb_we
         /\ wb_state = "write" => WriteRequest
         /\ wb_state = "flush" => Flush /\ ~o_wb_cyc
         /\ wb_state \in {"idle", "read", "write", "flush"}
         /\ wb_state # "idle" => r_inc' = r_inc /\ o_wb_we' = o_wb_we
         /\ ~i_reset
         /\ i_wb_err => failed'
  BY DEF Next, ExecClock, ControlClock, AddressClock, HostClock, Idle, ReadRequest,
         WriteRequest, Flush, IInv, BusOK, Counting

\* Between bursts nothing is answered but the address, and that is the host's.
LEMMA FromIdle ==
  ASSUME AddrInv, Next, wb_state = "idle"
  PROVE  /\ o_codword' = [kind |-> "addr", a |-> o_wb_addr]
         /\ Answered' = lastaddr'
         /\ ~failed' /\ (~Starts \/ IsRead(i_codword)) => o_wb_addr' = Answered'
         /\ ~failed' /\ Starts /\ IsWrite(i_codword)
               => lastaddr' = plus(o_wb_addr', Step(i_codword.inc))
         /\ ~failed' => (o_stb' => o_wb_addr = lastaddr')
<1>1. /\ Idle /\ ~o_wb_cyc /\ ~i_reset /\ ~o_busy /\ ~o_wb_stb
      /\ ~failed => o_wb_addr = Answered
  BY Machine DEF AddrInv, IdleAddress
<1>2. o_codword' = [kind |-> "addr", a |-> o_wb_addr]
  BY <1>1 DEF Next, ExecClock, AnswerClock
<1>3. Answered' = lastaddr'
  BY <1>2 DEF Answered
<1>4. ~Issued /\ (Taken <=> i_stb)
  BY <1>1 DEF Issued, Taken
<1>5. CASE Taken /\ i_codword.op = "addr"
  <2>1. o_wb_addr' = i_codword.a /\ lastaddr' = i_codword.a
    BY <1>1, <1>5 DEF Next, ExecClock, AddressClock, HostClock, Taken
  <2>2. ~o_stb' /\ ~Starts
    BY <1>1, <1>5 DEF Next, ExecClock, AnswerClock, Starts, IsRead, IsWrite
  <2> QED
    BY <1>2, <1>3, <2>1, <2>2
<1>6. CASE Taken /\ i_codword.op = "rel"
  <2>1. o_wb_addr' = plus(o_wb_addr, i_codword.a) /\ lastaddr' = plus(Answered, i_codword.a)
    BY <1>1, <1>6 DEF Next, ExecClock, AddressClock, HostClock, Taken, plus
  <2>2. ~o_stb' /\ ~Starts /\ (failed' <=> i_wb_err \/ failed)
    BY <1>1, <1>6 DEF Next, ExecClock, AnswerClock, HostClock, Starts, IsRead, IsWrite
  <2> QED
    BY <1>1, <1>2, <1>3, <2>1, <2>2
<1>7. CASE ~(Taken /\ i_codword.op \in {"addr", "rel"})
  <2>1. o_wb_addr' = o_wb_addr
    BY <1>4, <1>7, NextAddress DEF AddrInv
  <2>2. failed' <=> i_wb_err \/ failed
    BY <1>7 DEF Next, HostClock
  <2>3. lastaddr' = IF Taken /\ IsWrite(i_codword)
                    THEN plus(Answered, Step(i_codword.inc)) ELSE Answered
    BY <1>7 DEF Next, HostClock
  <2>4. Starts <=> Taken /\ (IsRead(i_codword) \/ IsWrite(i_codword))
    BY <1>1, <1>4 DEF Starts
  <2>5. o_stb' => Taken /\ IsRead(i_codword)
    BY <1>1, <1>4 DEF Next, ExecClock, AnswerClock
  <2>6. IsRead(i_codword) => ~IsWrite(i_codword)
    BY DEF IsRead, IsWrite
  <2> QED
    BY <1>1, <1>2, <1>3, <2>1, <2>2, <2>3, <2>4, <2>5, <2>6
<1> QED
  BY <1>5, <1>6, <1>7

\* A clock between bursts keeps the addresses, and starts a burst with them.
LEMMA IdleKeeps ==
  ASSUME AddrInv, Next, wb_state = "idle"
  PROVE  IdleAddress' /\ WriteAddress' /\ ReadAddress' /\ FlushAddress'
<1>1. /\ Idle /\ ~o_wb_cyc /\ ~i_reset /\ ~o_busy /\ ~o_wb_stb
      /\ i_codword \in Command /\ i_codword' \in Command
  BY Machine, BusStep DEF AddrInv, IdleAddress, IInv, BusOK
<1>2. CASE ~Starts
  <2>1. wb_state' = "idle" /\ ~o_busy' /\ ~o_wb_stb'
    BY <1>1, <1>2 DEF Idle, ControlTo
  <2>2. ~failed' => o_wb_addr' = Answered'
    BY <1>2, FromIdle
  <2> QED
    BY <2>1, <2>2 DEF IdleAddress, WriteAddress, ReadAddress, FlushAddress
<1>3. CASE Starts /\ IsRead(i_codword)
  <2>1. wb_state' = "read" /\ o_busy'
    BY <1>1, <1>3 DEF Idle, ControlTo
  <2>2. o_codword'.kind = "addr"
    BY FromIdle
  <2>3. atSlave' = << >>
    BY <1>1 DEF Next, ExecClock, SlaveClock
  <2>4. Len(atSlave') = 0
    BY <2>3
  <2>5. Asked(1)' = o_wb_addr'
    BY <2>4 DEF Asked
  <2>6. ~failed' => Asked(1)' = Answered'
    BY <1>3, <2>5, FromIdle
  <2>7. (\A i \in 1 .. Len(atSlave) : Asked(i+1) = plus(Asked(i), Step(r_inc)))'
    BY <2>4
  <2> QED
    BY <2>1, <2>2, <2>6, <2>7 DEF IdleAddress, WriteAddress, ReadAddress, FlushAddress
<1>4. CASE Starts /\ IsWrite(i_codword)
  <2>1. wb_state' = "write" /\ o_busy' /\ o_wb_cyc' /\ o_wb_stb'
    <3>1. ~IsRead(i_codword)
      BY <1>4 DEF IsRead, IsWrite
    <3> QED
      BY <1>1, <1>4, <3>1 DEF Idle, ControlTo
  <2>2. o_codword'.kind = "addr"
    BY FromIdle
  <2>3. o_wb_we'
    BY <1>1, <1>4 DEF Next, ExecClock, ControlClock, IsRead, IsWrite
  <2>4. r_inc' = i_codword.inc
    <3>1. i_codword.inc \in BOOLEAN
      BY <1>1, <1>4 DEF Command, IsWrite
    <3>2. r_inc' = IncOf(i_codword)
      BY <1>1, <1>4 DEF Next, ExecClock, AddressClock, Starts
    <3> QED
      BY <1>4, <3>1, <3>2 DEF IncOf
  <2>5. IF IsWrite(i_codword') THEN i_codword'.inc = r_inc' ELSE i_stb'
    <3>1. CASE i_codword' = i_codword
      BY <1>4, <2>4, <3>1
    <3>2. CASE i_stb' /\ Follows(i_codword, i_codword')
      BY <1>4, <2>4, <3>2 DEF Follows, IsWrite
    <3> QED
      BY <3>1, <3>2 DEF Next, SourceClock
  <2>6. ~failed' => lastaddr' = plus(o_wb_addr', Step(r_inc'))
    BY <1>4, <2>4, FromIdle
  <2> QED
    BY <2>1, <2>2, <2>3, <2>5, <2>6 DEF IdleAddress, WriteAddress, ReadAddress, FlushAddress
<1> QED
  BY <1>2, <1>3, <1>4 DEF Starts

\* In a burst of writes the host and the bus each step once a word.
LEMMA WriteKeeps ==
  ASSUME AddrInv, Next, wb_state = "write"
  PROVE  /\ IdleAddress' /\ WriteAddress' /\ ReadAddress' /\ FlushAddress'
         /\ o_codword'.kind \notin {"data", "addr"}
<1>1. /\ WriteRequest /\ ~i_reset /\ r_inc' = r_inc /\ o_wb_we' = o_wb_we
      /\ o_wb_cyc /\ o_wb_we
      /\ ~o_busy => i_stb /\ ~o_wb_stb /\ IsWrite(i_codword)
      /\ IF IsWrite(i_codword) THEN i_codword.inc = r_inc ELSE i_stb
      /\ o_codword.kind # "data"
      /\ ~failed => lastaddr = IF o_wb_stb THEN plus(o_wb_addr, Step(r_inc)) ELSE o_wb_addr
      /\ i_wb_err => failed'
  BY Machine DEF AddrInv, WriteAddress
<1>2. o_codword'.kind \notin {"data", "addr"}
  BY <1>1 DEF Next, ExecClock, AnswerClock
<1>3. Taken => IsWrite(i_codword) /\ ~o_wb_stb
  BY <1>1 DEF Taken
<1>4. ~(Taken /\ i_codword.op \in {"addr", "rel"})
  BY <1>3 DEF IsWrite
<1>5. o_wb_addr' = IF Issued THEN plus(o_wb_addr, Step(r_inc)) ELSE o_wb_addr
  BY <1>4, NextAddress DEF AddrInv
<1>6. Answered = lastaddr /\ Answered' = lastaddr'
  BY <1>1, <1>2 DEF Answered
<1>7. lastaddr' = IF Taken THEN plus(lastaddr, Step(r_inc)) ELSE lastaddr
  BY <1>1, <1>3, <1>4, <1>6 DEF Next, HostClock
<1>8. failed' <=> i_wb_err \/ failed
  BY <1>4 DEF Next, HostClock
<1>9. CASE i_wb_err
  <2>1. wb_state' = "flush" /\ o_busy'
    BY <1>1, <1>9 DEF WriteRequest, ControlTo
  <2> QED
    BY <1>2, <1>8, <1>9, <2>1 DEF IdleAddress, WriteAddress, ReadAddress, FlushAddress
<1>10. CASE ~i_wb_err /\ wb_state' = "idle"
  <2>1. i_stb /\ ~o_wb_stb /\ o_busy /\ ~o_busy' /\ ~o_wb_stb'
    BY <1>1, <1>10 DEF WriteRequest, ControlTo, NextIsOther
  <2>2. ~failed' => o_wb_addr' = Answered'
    BY <1>1, <1>5, <1>6, <1>7, <1>8, <2>1 DEF Taken, Issued
  <2> QED
    BY <1>2, <1>10, <2>1, <2>2 DEF IdleAddress, WriteAddress, ReadAddress, FlushAddress
<1>11. CASE ~i_wb_err /\ wb_state' = "write"
  <2>1. /\ o_wb_cyc'
        /\ ~o_busy' => i_stb /\ o_busy /\ ~o_wb_stb' /\ IsWrite(i_codword)
        /\ o_wb_stb' <=> Taken \/ (o_wb_stb /\ i_wb_stall)
    BY <1>1, <1>11 DEF WriteRequest, ControlTo, NextIsWrite, NextIsOther, Taken
  <2>2. ~o_busy' => i_stb' /\ ~o_wb_stb' /\ IsWrite(i_codword')
    BY <2>1 DEF Next, SourceClock, Taken
  <2>3. IF IsWrite(i_codword') THEN i_codword'.inc = r_inc' ELSE i_stb'
    <3>1. CASE i_codword' = i_codword /\ i_stb' = i_stb
      BY <1>1, <3>1
    <3>2. CASE Taken \/ ~i_stb
      <4>1. IsWrite(i_codword) /\ i_codword.inc = r_inc
        BY <1>1, <1>3, <3>2
      <4>2. i_codword' = i_codword \/ (i_stb' /\ Follows(i_codword, i_codword'))
        BY DEF Next, SourceClock
      <4> QED
        BY <1>1, <4>1, <4>2 DEF Follows, IsWrite
    <3> QED
      BY <3>1, <3>2 DEF Next, SourceClock
  <2>4. ~failed' => lastaddr' = IF o_wb_stb' THEN plus(o_wb_addr', Step(r_inc'))
                                ELSE o_wb_addr'
    <3>1. CASE Taken
      BY <1>1, <1>3, <1>5, <1>7, <1>8, <2>1, <3>1 DEF Issued
    <3>2. CASE ~Taken
      BY <1>1, <1>5, <1>7, <1>8, <2>1, <3>2 DEF Issued
    <3> QED
      BY <3>1, <3>2
  <2> QED
    BY <1>1, <1>2, <1>11, <2>1, <2>2, <2>3, <2>4
       DEF IdleAddress, WriteAddress, ReadAddress, FlushAddress
<1> QED
  BY <1>1, <1>2, <1>9, <1>10, <1>11 DEF WriteRequest, ControlTo

\* Skipping the rest of a burst takes nothing and stays failed.
LEMMA FlushKeeps ==
  ASSUME AddrInv, Next, wb_state = "flush"
  PROVE  /\ IdleAddress' /\ WriteAddress' /\ ReadAddress' /\ FlushAddress'
         /\ failed'
<1>1. Flush /\ o_busy /\ failed
  BY Machine DEF AddrInv, FlushAddress
<1>2. failed'
  BY <1>1 DEF Next, HostClock, Taken
<1>3. \/ wb_state' = "idle" /\ ~o_busy' /\ ~o_wb_stb'
      \/ wb_state' = "flush" /\ o_busy'
  BY <1>1 DEF Flush, ControlTo
<1> QED
  BY <1>2, <1>3 DEF IdleAddress, WriteAddress, ReadAddress, FlushAddress

\* A clock of a vector read that goes on drops the word that is answered from
\* the front of the words awaited, and adds the one issued at their end.
LEMMA AskedMoves ==
  ASSUME AddrInv, Next, wb_state = "read", wb_state' = "read",
         NEW gone \in {0, 1}, gone = IF i_wb_ack THEN 1 ELSE 0,
         NEW more \in {0, 1}, more = IF Issued THEN 1 ELSE 0
  PROVE  /\ Len(atSlave) \in Nat /\ gone <= Len(atSlave)
         /\ Len(atSlave') = Len(atSlave) + more - gone
         /\ \A i \in 1 .. Len(atSlave) + 1 - gone : Asked(i)' = Asked(i + gone)
         /\ \A i \in Nat : more = 1 /\ i = Len(atSlave) + 2 - gone
                            => Asked(i)' = o_wb_addr'
<1> DEFINE kept == IF i_wb_ack THEN Tail(atSlave) ELSE atSlave
           last == IF Issued THEN <<[we |-> o_wb_we, a |-> o_wb_addr]>> ELSE << >>
           held == Len(atSlave)
<1>1. atSlave \in Seq(Request) /\ (i_wb_ack => atSlave # << >>) /\ held \in Nat
  BY LenProperties DEF AddrInv, IInv, BusOK
<1>2. /\ kept \in Seq(Request) /\ Len(kept) = held - gone /\ gone <= held
      /\ \A i \in 1 .. held - gone : kept[i] = atSlave[i + gone]
  BY <1>1, HeadTailProperties, LenProperties
<1>3. [we |-> o_wb_we, a |-> o_wb_addr] \in Request
  BY DEF AddrInv, IInv, BusOK, Request
<1>4. last \in Seq(Request) /\ Len(last) = more /\ (more = 1 => last[1].a = o_wb_addr)
  BY <1>3
<1>5. atSlave' = kept \o last
  <2>1. o_wb_cyc /\ o_wb_cyc'
    BY Machine DEF AddrInv, ReadRequest, ControlTo
  <2> QED
    BY <2>1 DEF Next, ExecClock, SlaveClock
<1>6. /\ Len(atSlave') = held - gone + more
      /\ \A i \in 1 .. held - gone : atSlave'[i] = kept[i]
      /\ more = 1 => atSlave'[held - gone + 1] = last[1]
  <2> HIDE DEF kept, last, held
  <2>1. /\ Len(kept \o last) = Len(kept) + Len(last)
        /\ \A i \in 1 .. Len(kept) + Len(last) : (kept \o last)[i] =
              IF i <= Len(kept) THEN kept[i] ELSE last[i - Len(kept)]
    BY <1>2, <1>4, ConcatProperties
  <2>2. Len(kept \o last) = held - gone + more
    BY <1>1, <1>2, <1>4, <2>1
  <2>3. \A i \in 1 .. held - gone : (kept \o last)[i] = kept[i]
    BY <1>1, <1>2, <1>4, <2>1
  <2>4. more = 1 => (kept \o last)[held - gone + 1] = last[1]
    BY <1>1, <1>2, <1>4, <2>1
  <2> QED
    BY <1>5, <2>2, <2>3, <2>4
<1>7. o_wb_addr' = IF more = 1 THEN plus(o_wb_addr, Step(r_inc)) ELSE o_wb_addr
  <2>1. ~(Taken /\ i_codword.op \in {"addr", "rel"})
    BY DEF AddrInv, ReadAddress, Taken
  <2> QED
    BY <2>1, NextAddress DEF AddrInv
<1>8. ASSUME NEW i \in 1 .. held + 1 - gone
      PROVE  Asked(i)' = Asked(i + gone)
  <2> HIDE DEF kept, last, held
  <2>1. CASE i <= held - gone
    <3>1. Asked(i)' = atSlave[i + gone].a
      BY <1>1, <1>2, <1>6, <2>1 DEF Asked, held
    <3> QED
      BY <1>1, <1>2, <2>1, <3>1 DEF Asked, held
  <2>2. CASE i = held - gone + 1
    <3>1. Asked(i + gone) = o_wb_addr
      BY <1>1, <1>2, <2>2 DEF Asked, held
    <3>2. CASE more = 1
      BY <1>1, <1>2, <1>4, <1>6, <2>2, <3>1, <3>2 DEF Asked, held
    <3>3. CASE more = 0
      BY <1>1, <1>2, <1>6, <1>7, <2>2, <3>1, <3>3 DEF Asked, held
    <3> QED
      BY <3>2, <3>3
  <2> QED
    BY <1>1, <1>2, <2>1, <2>2
<1>9. \A i \in Nat : more = 1 /\ i = held + 2 - gone => Asked(i)' = o_wb_addr'
  <2> HIDE DEF kept, last
  <2> QED
    BY <1>1, <1>2, <1>6 DEF Asked
<1> QED
  BY <1>1, <1>2, <1>6, <1>8, <1>9

\* In a vector read the words come to the host in the order of their addresses.
LEMMA ReadKeeps ==
  ASSUME AddrInv, Next, wb_state = "read"
  PROVE  /\ IdleAddress' /\ WriteAddress' /\ ReadAddress' /\ FlushAddress'
         /\ ~failed' /\ o_stb' /\ o_codword'.kind \in {"data", "addr"}
               => o_codword'.a = lastaddr'
<1>1. /\ ReadRequest /\ ~i_reset /\ r_inc' = r_inc
      /\ o_wb_cyc /\ ~o_wb_we /\ o_busy
      /\ o_stb /\ o_codword.kind = "data" => o_codword.inc = r_inc
      /\ i_wb_err => failed'
      /\ atSlave \in Seq(Request) /\ (i_wb_ack => atSlave # << >>)
  BY Machine DEF AddrInv, ReadAddress, IInv, BusOK
<1>2. /\ ~Taken
      /\ lastaddr' = Answered
      /\ failed' <=> i_wb_err \/ failed
  BY <1>1 DEF Next, HostClock, Taken
<1>3. /\ o_stb' <=> i_wb_ack \/ i_wb_err
      /\ ~i_wb_err /\ i_wb_ack
            => o_codword' = [kind |-> "data", a |-> Head(atSlave).a, inc |-> r_inc]
  BY <1>1 DEF Next, ExecClock, AnswerClock
<1>4. i_wb_ack => Len(atSlave) \in Nat \ {0} /\ Head(atSlave) = atSlave[1]
  BY <1>1, EmptySeq, LenProperties
<1>5. i_wb_ack => Head(atSlave).a = Asked(1)
  BY <1>4 DEF Asked
<1>6. ~failed' => ~failed /\ ~i_wb_err /\ Asked(1) = Answered
  BY <1>2 DEF AddrInv, ReadAddress
<1>7. ~failed' /\ o_stb' => o_codword'.a = lastaddr'
  BY <1>2, <1>3, <1>5, <1>6
<1>8. ~failed' => Answered' = IF i_wb_ack THEN plus(Answered, Step(r_inc)) ELSE Answered
  <2>1. CASE i_wb_ack
    BY <1>2, <1>3, <1>6, <2>1 DEF Answered
  <2>2. CASE ~i_wb_ack
    BY <1>2, <1>3, <1>6, <2>2 DEF Answered
  <2> QED
    BY <2>1, <2>2
<1>9. CASE wb_state' = "idle"
  <2>1. ~o_busy' /\ (i_wb_err \/ (i_wb_ack /\ last_ack))
    BY <1>1, <1>9 DEF ReadRequest, ControlTo
  <2>2. ~o_wb_stb'
    <3>1. CASE i_wb_err
      BY <1>1, <3>1 DEF ReadRequest, ControlTo
    <3>2. CASE ~i_wb_err
      <4>1. ~o_wb_stb
        BY <1>9, <3>2, ReadEnds DEF AddrInv
      <4> QED
        BY <1>1, <4>1 DEF ReadRequest, ControlTo
    <3> QED
      BY <3>1, <3>2
  <2>3. ~failed' => o_wb_addr' = Answered'
    <3> SUFFICES ASSUME ~failed' PROVE o_wb_addr' = Answered'
      OBVIOUS
    <3>1. i_wb_ack /\ ~i_wb_err /\ ~o_wb_stb /\ Len(atSlave) = 1
      BY <1>6, <1>9, <2>1, ReadEnds DEF AddrInv
    <3>2. o_wb_addr' = o_wb_addr
      BY <1>2, <3>1, NextAddress DEF AddrInv, Issued
    <3>3. Asked(2) = o_wb_addr
      BY <3>1 DEF Asked
    <3>4. Asked(1+1) = plus(Asked(1), Step(r_inc))
      <4>1. 1 \in 1 .. Len(atSlave)
        BY <3>1
      <4> QED
        BY <1>6, <4>1 DEF AddrInv, ReadAddress
    <3>5. Asked(2) = plus(Answered, Step(r_inc))
      BY <1>6, <3>4
    <3> QED
      BY <1>8, <3>1, <3>2, <3>3, <3>5
  <2> QED
    BY <1>7, <1>9, <2>1, <2>2, <2>3 DEF IdleAddress, WriteAddress, ReadAddress, FlushAddress
<1>10. CASE wb_state' = "read"
  <2>1. o_busy'
    BY <1>1, <1>10 DEF ReadRequest, ControlTo
  <2>2. o_stb' /\ o_codword'.kind = "data" => o_codword'.inc = r_inc'
    <3>1. ~i_wb_err
      BY <1>1, <1>10 DEF ReadRequest, ControlTo
    <3> QED
      BY <1>1, <1>3, <3>1
  <2>3. ASSUME ~failed'
        PROVE  /\ Asked(1)' = Answered'
               /\ (\A i \in 1 .. Len(atSlave) : Asked(i+1) = plus(Asked(i), Step(r_inc)))'
    <3>1. PICK gone \in {0, 1}, more \in {0, 1} :
             /\ gone = IF i_wb_ack THEN 1 ELSE 0
             /\ more = IF Issued THEN 1 ELSE 0
      OBVIOUS
    <3> DEFINE held == Len(atSlave)
               next(a) == plus(a, Step(r_inc))
    <3>2. /\ held \in Nat /\ gone <= held
          /\ Len(atSlave') = held + more - gone
          /\ \A i \in 1 .. held + 1 - gone : Asked(i)' = Asked(i + gone)
          /\ \A i \in Nat : more = 1 /\ i = held + 2 - gone => Asked(i)' = o_wb_addr'
      BY <1>10, <3>1, AskedMoves
    <3>3. \A i \in 1 .. held : Asked(i+1) = next(Asked(i))
      BY <1>6, <2>3 DEF AddrInv, ReadAddress
    <3>4. Asked(1)' = Answered'
      <4>1. CASE i_wb_ack
        <5>1. 1 \in 1 .. held + 1 - gone /\ 1 \in 1 .. held
          BY <3>1, <3>2, <4>1
        <5>2. Asked(1)' = Asked(1 + 1)
          BY <3>1, <3>2, <4>1, <5>1
        <5>3. Asked(1 + 1) = next(Asked(1))
          BY <3>3, <5>1
        <5> QED
          BY <1>6, <1>8, <2>3, <4>1, <5>2, <5>3
      <4>2. CASE ~i_wb_ack
        <5>1. Asked(1)' = Asked(1)
          BY <3>1, <3>2, <4>2
        <5> QED
          BY <1>6, <1>8, <2>3, <4>2, <5>1
      <4> QED
        BY <4>1, <4>2
    <3>5. more = 1 => o_wb_addr' = next(o_wb_addr)
      BY <1>2, <3>1, NextAddress DEF AddrInv
    <3>6. Asked(held + 1) = o_wb_addr
      BY <3>2 DEF Asked
    <3> HIDE DEF held, next
    <3>7. ASSUME NEW i \in 1 .. held + more - gone
          PROVE  Asked(i+1)' = next(Asked(i)')
      <4>1. CASE i <= held - gone
        <5>1. Asked(i)' = Asked(i + gone) /\ Asked(i+1)' = Asked(i + 1 + gone)
          BY <3>1, <3>2, <4>1
        <5>2. Asked((i + gone) + 1) = next(Asked(i + gone))
          BY <3>1, <3>2, <3>3, <4>1
        <5>3. (i + gone) + 1 = i + 1 + gone
          BY <3>1
        <5> QED
          BY <5>1, <5>2, <5>3
      <4>2. CASE more = 1 /\ i = held + 1 - gone
        <5>1. Asked(i)' = Asked(i + gone) /\ i + gone = held + 1
          BY <3>1, <3>2, <4>2
        <5>2. i + 1 = held + 2 - gone /\ i + 1 \in Nat
          BY <3>1, <3>2, <4>2
        <5>3. Asked(i+1)' = o_wb_addr'
          BY <3>2, <4>2, <5>2
        <5> QED
          BY <3>5, <3>6, <4>2, <5>1, <5>3
      <4> QED
        BY <3>1, <3>2, <4>1, <4>2
    <3>8. ASSUME NEW i \in 1 .. Len(atSlave')
          PROVE  Asked(i+1)' = plus(Asked(i)', Step(r_inc'))
      BY <1>1, <3>2, <3>7 DEF next
    <3> QED
      BY <3>4, <3>8
  <2> QED
    BY <1>7, <1>10, <2>1, <2>2, <2>3 DEF IdleAddress, WriteAddress, ReadAddress, FlushAddress
<1> QED
  BY <1>1, <1>9, <1>10 DEF ReadRequest, ControlTo

\* What every clock keeps: the addresses agree, and what is told is expected.
LEMMA AddressStep ==
  ASSUME AddrInv, HostKnowsAddressSet, Next, IInv'
  PROVE  AddrInv' /\ HostKnowsAddressSet'
<1>1. wb_state \in {"idle", "read", "write", "flush"}
  BY Machine DEF AddrInv
<1>2. CASE wb_state = "idle"
  <2>1. ~failed' => (o_stb' => o_codword'.a = lastaddr')
    BY <1>2, FromIdle
  <2> QED
    BY <1>2, <2>1, IdleKeeps DEF AddrInv, HostKnowsAddressSet, HostKnowsAddress
<1>3. CASE wb_state = "write"
  BY <1>3, WriteKeeps DEF AddrInv, HostKnowsAddressSet, HostKnowsAddress
<1>4. CASE wb_state = "flush"
  BY <1>4, FlushKeeps DEF AddrInv, HostKnowsAddressSet, HostKnowsAddress
<1>5. CASE wb_state = "read"
  BY <1>5, ReadKeeps DEF AddrInv, HostKnowsAddressSet, HostKnowsAddress
<1> QED
  BY <1>1, <1>2, <1>3, <1>4, <1>5

\* The host, which is sent no address with the words it reads and writes, knows
\* the address of each (ttybus.cpp:351-355 against wbuexec.v:254-273), until a
\* bus error and again once it has set an address, for vector reads of any
\* length, a slave of any depth and addresses of any width.
THEOREM HostAlwaysKnowsAddress == Spec => []HostKnowsAddressSet
<1> DEFINE Known == AddrInv /\ HostKnowsAddressSet
<1>1. Init => Known
  <2> SUFFICES ASSUME Init PROVE Known
    OBVIOUS
  <2>1. Answered = lastaddr
    BY DEF Init, ExecInit, Answered
  <2> QED
    BY <2>1, InitInv DEF Init, ExecInit, AddrInv, IdleAddress, WriteAddress, ReadAddress,
       FlushAddress, HostKnowsAddressSet, HostKnowsAddress
<1>2. Known /\ IInv' /\ [Next]_allvars => Known'
  <2> SUFFICES ASSUME Known, IInv', [Next]_allvars PROVE Known'
    OBVIOUS
  <2>1. CASE Next
    BY <2>1, AddressStep
  <2>2. CASE UNCHANGED allvars
    <3>1. Answered' = Answered
      BY <2>2 DEF allvars, vars, exec, Answered
    <3>2. \A i : Asked(i)' = Asked(i)
      BY <2>2 DEF allvars, vars, exec, control, Asked
    <3>3. IdleAddress' /\ WriteAddress' /\ FlushAddress'
      BY <2>2, <3>1 DEF allvars, vars, exec, control, AddrInv, IdleAddress, WriteAddress,
         FlushAddress
    <3>4. ReadAddress'
      BY <2>2, <3>1, <3>2 DEF allvars, vars, exec, control, AddrInv, ReadAddress
    <3>5. HostKnowsAddressSet'
      BY <2>2 DEF allvars, vars, exec, HostKnowsAddressSet, HostKnowsAddress
    <3> QED
      BY <3>3, <3>4, <3>5 DEF AddrInv
  <2> QED
    BY <2>1, <2>2
<1> QED
  BY <1>1, <1>2, CountersAlwaysAgree, PTL DEF Spec, AddrInv
=============================================================================
