--------------------------- MODULE WbuConsoleProofs ---------------------------
(***************************************************************************)
(* For FIFOs, windows, vector reads, addresses and a watchdog of any size, *)
(* and a slave that stalls and answers as it likes, or never: what runs of *)
(* WbuConsole check on small ones; and for its FIFOs of any length, what   *)
(* the run of WbuFifo checks.                                              *)
(***************************************************************************)
EXTENDS Integers, WbuFifo, WbuConsole, SequenceTheorems, TLAPS

\* The bus master without the skipped writes that an error leaves behind.
NeverErr == MayErr = {}

\* A bus master that is not idle has its cycle open; one that is, is not busy.
Watched ==
    /\ ~i_wb_err
    /\ wb_state \in {"idle", "read", "write"}
    /\ wb_state = "idle" => ~w_bus_busy /\ ~o_wb_cyc
    /\ wb_state # "idle" => o_wb_cyc

\* What a clock of the bus master does, unless it is reset.
LEMMA Machine ==
  ASSUME Watched, Next, ~r_wdt_reset
  PROVE  /\ wb_state = "idle"  => Exec!Idle
         /\ wb_state = "read"  => Exec!ReadRequest
         /\ wb_state = "write" => Exec!WriteRequest
  BY DEF Next, Exec!ExecClock, Exec!ControlClock, Exec!Idle, Exec!ReadRequest,
         Exec!WriteRequest, Exec!Flush, Watched

\* Every clock keeps that, a reset included.
LEMMA WatchedStep ==
  ASSUME NeverErr, Watched, [Next]_vars
  PROVE  Watched'
<1>1. CASE Next /\ r_wdt_reset
  <2>1. Exec!ControlTo("idle", FALSE, FALSE, FALSE) /\ ~i_wb_err'
    BY <1>1 DEF Next, Exec!ExecClock, Exec!ControlClock, NeverErr
  <2> QED
    BY <2>1 DEF Exec!ControlTo, Watched
<1>2. CASE Next /\ ~r_wdt_reset
  <2>1. ~i_wb_err'
    BY <1>2 DEF Next, NeverErr
  <2>2. CASE wb_state = "idle"
    BY <1>2, <2>1, <2>2, Machine DEF Watched, Exec!Idle, Exec!ControlTo
  <2>3. CASE wb_state = "read"
    BY <1>2, <2>1, <2>3, Machine DEF Watched, Exec!ReadRequest, Exec!ControlTo
  <2>4. CASE wb_state = "write"
    BY <1>2, <2>1, <2>4, Machine DEF Watched, Exec!WriteRequest, Exec!ControlTo
  <2> QED
    BY <2>2, <2>3, <2>4 DEF Watched
<1>3. CASE UNCHANGED vars
  BY <1>3 DEF vars, Exec!exec, Exec!control, Exec!busIn, Watched
<1> QED
  BY <1>1, <1>2, <1>3

\* The flags that end a vector read agree with what is to come (wbuexec.v:196-238).
CountsOK ==
    wb_state = "read" =>
       /\ w_bus_busy /\ o_wb_we = FALSE
       /\ r_len \in Nat /\ r_acks_needed \in Nat
       /\ r_acks_needed = Len(atSlave)
       /\ r_len + r_acks_needed \in 1 .. MaxLen
       /\ o_wb_stb <=> r_len > 0
       /\ last_read_request <=> r_len <= 1
       /\ single_read_request => r_len <= 1
       /\ last_ack <=> r_len + r_acks_needed <= 1

\* A queue after a clock is a queue of the same words.
LEMMA PushedType ==
  ASSUME NEW S, NEW q \in Seq(S), NEW taken, taken => q # << >>,
         NEW wr, NEW w, wr => w \in S, NEW depth
  PROVE  Pushed(q, taken, wr, w, depth) \in Seq(S)
<1> DEFINE left == IF taken THEN Tail(q) ELSE q
           more == IF wr /\ (Len(q) < depth \/ taken) THEN <<w>> ELSE << >>
<1>1. left \in Seq(S)
  BY HeadTailProperties
<1>2. more \in Seq(S)
  <2>1. CASE wr
    BY <2>1
  <2>2. CASE ~wr
    BY <2>2
  <2> QED
    BY <2>1, <2>2
<1> HIDE DEF left, more
<1>3. left \o more \in Seq(S)
  BY <1>1, <1>2, ConcatProperties
<1> QED
  BY <1>3 DEF Pushed, left, more

\* A queue offers a word only when it keeps one.
LEMMA OffersOne ==
  ASSUME NEW S, NEW q \in Seq(S), NEW offered, NEW taken,
         offered => q # << >>, taken => offered, Offers(q, offered, taken),
         NEW wr, NEW w, NEW depth
  PROVE  Pushed(q, taken, wr, w, depth) # << >>
<1> DEFINE left == IF taken THEN Tail(q) ELSE q
           more == IF wr /\ (Len(q) < depth \/ taken) THEN <<w>> ELSE << >>
<1>1. Len(q) \in Nat /\ (q # << >> <=> Len(q) > 0)
  BY LenProperties, EmptySeq
<1>2. left # << >>
  <2>1. CASE taken
    <3>1. Len(q) > 1
      BY <1>1, <2>1 DEF Offers
    <3>2. Len(Tail(q)) = Len(q) - 1
      BY <1>1, <3>1, HeadTailProperties
    <3>3. Tail(q) # << >>
      <4>0. \A n \in Nat : n > 1 => n - 1 # 0
        OBVIOUS
      <4>1. Len(Tail(q)) # 0
        BY <1>1, <3>1, <3>2, <4>0, Zenon
      <4>2. Len(<< >>) = 0
        OBVIOUS
      <4> QED
        BY <4>1, <4>2, Zenon
    <3> QED
      BY <2>1, <3>3
  <2>2. CASE ~taken
    BY <1>1, <2>2 DEF Offers
  <2> QED
    BY <2>1, <2>2
<1>3. more \in Seq({w})
  <2>1. more = << >> \/ more = <<w>>
    BY Zenon
  <2>2. << >> \in Seq({w}) /\ <<w>> \in Seq({w})
    OBVIOUS
  <2> QED
    BY <2>1, <2>2, Zenon
<1>4. left \in Seq(S)
  BY HeadTailProperties
<1> HIDE DEF left, more
<1>5. left \o more # << >>
  BY <1>2, <1>3, <1>4
<1> QED
  BY <1>5 DEF Pushed, left, more

\* The FIFO of commands keeps what it is given, and offers what it keeps.
LEMMA CommandsStep ==
  ASSUME NEW S, ififo \in Seq(S), in_stb => in_word \in S, Next,
         ififo_empty_n => ififo # << >> /\ fifo_in_word = Head(ififo)
  PROVE  /\ ififo' \in Seq(S)
         /\ ififo_empty_n' => ififo' # << >> /\ fifo_in_word' = Head(ififo')
<1>1. ififo' \in Seq(S)
  <2>1. CASE r_wdt_reset
    BY <2>1 DEF Next, CommandFifoClock
  <2>2. CASE ~r_wdt_reset
    <3>1. ififo' = Pushed(ififo, fifo_in_stb, in_stb, in_word, IDepth)
      BY <2>2 DEF Next, CommandFifoClock
    <3>2. fifo_in_stb => ififo # << >>
      BY DEF fifo_in_stb
    <3>3. Pushed(ififo, fifo_in_stb, in_stb, in_word, IDepth) \in Seq(S)
      BY <3>2, PushedType
    <3> QED
      BY <3>1, <3>3
  <2> QED
    BY <2>1, <2>2
<1>2. ASSUME ififo_empty_n' PROVE ififo' # << >> /\ fifo_in_word' = Head(ififo')
  <2>1. /\ ~r_wdt_reset /\ Offers(ififo, ififo_empty_n, fifo_in_stb)
        /\ ififo' = Pushed(ififo, fifo_in_stb, in_stb, in_word, IDepth)
        /\ fifo_in_word' = Head(ififo')
    BY <1>2 DEF Next, CommandFifoClock
  <2>2. fifo_in_stb => ififo_empty_n
    BY DEF fifo_in_stb
  <2>3. Pushed(ififo, fifo_in_stb, in_stb, in_word, IDepth) # << >>
    BY <2>1, <2>2, OffersOne
  <2> QED
    BY <2>1, <2>3
<1> QED
  BY <1>1, <1>2

\* The bus address stays one.
LEMMA AddressStep ==
  ASSUME Next, o_wb_addr \in Exec!Address,
         fifo_in_stb /\ fifo_in_word.op \in {"addr", "rel"} => fifo_in_word.a \in Exec!Address
  PROVE  o_wb_addr' \in Exec!Address
<1>1. o_wb_addr \in Nat /\ ADDRESSES \in Nat /\ ADDRESSES > 0
  BY ConsoleAssumption DEF Exec!Address
<1>2. \A n \in Nat : n % ADDRESSES \in Exec!Address
  BY <1>1 DEF Exec!Address
<1>3. fifo_in_stb /\ fifo_in_word.op = "rel"
        => (o_wb_addr + fifo_in_word.a) % ADDRESSES \in Exec!Address
  <2>1. ASSUME fifo_in_stb, fifo_in_word.op = "rel" PROVE fifo_in_word.a \in Nat
    BY <2>1 DEF Exec!Address
  <2> QED
    BY <1>1, <1>2, <2>1
<1>4. (o_wb_addr + 1) % ADDRESSES \in Exec!Address
  BY <1>1, <1>2
<1> QED
  BY <1>3, <1>4 DEF Next, Exec!ExecClock, Exec!AddressClock

\* What the slave holds, a clock later.
LEMMA SlaveQueue ==
  ASSUME Next, atSlave \in Seq(Exec!Request), i_wb_ack => atSlave # << >>,
         Exec!Issued => o_wb_addr \in Exec!Address /\ o_wb_we \in BOOLEAN,
         NEW gone \in {0, 1}, gone = IF i_wb_ack THEN 1 ELSE 0,
         NEW more \in {0, 1}, more = IF Exec!Issued THEN 1 ELSE 0
  PROVE  /\ atSlave' \in Seq(Exec!Request)
         /\ ~(o_wb_cyc /\ o_wb_cyc') => atSlave' = << >>
         /\ i_wb_ack' => atSlave' # << >>
         /\ Len(atSlave) \in Nat /\ gone <= Len(atSlave)
         /\ o_wb_cyc /\ o_wb_cyc' =>
               /\ Len(atSlave') = Len(atSlave) + more - gone
               /\ \A i \in 1 .. Len(atSlave) - gone : atSlave'[i] = atSlave[i + gone]
               /\ more = 1 => atSlave'[Len(atSlave) + 1 - gone].a = o_wb_addr
<1> DEFINE kept == IF i_wb_ack THEN Tail(atSlave) ELSE atSlave
           last == IF Exec!Issued THEN <<[we |-> o_wb_we, a |-> o_wb_addr]>> ELSE << >>
           held == Len(atSlave)
<1>1. atSlave \in Seq(Exec!Request) /\ (i_wb_ack => atSlave # << >>) /\ held \in Nat
  BY LenProperties
<1>2. /\ kept \in Seq(Exec!Request) /\ Len(kept) = held - gone /\ gone <= held
      /\ \A i \in 1 .. held - gone : kept[i] = atSlave[i + gone]
  BY <1>1, HeadTailProperties, LenProperties
<1>3. Exec!Issued => [we |-> o_wb_we, a |-> o_wb_addr] \in Exec!Request
  BY DEF Exec!Request
<1>4. last \in Seq(Exec!Request) /\ Len(last) = more /\ (more = 1 => last[1].a = o_wb_addr)
  BY <1>3
<1>5. atSlave' = IF o_wb_cyc /\ o_wb_cyc' THEN kept \o last ELSE << >>
  BY DEF Next, Exec!ExecClock, Exec!SlaveClock
<1>6. i_wb_ack' => atSlave' # << >>
  BY DEF Next, Exec!ExecClock, Exec!SlaveClock
<1> HIDE DEF kept, last
<1>7. kept \o last \in Seq(Exec!Request)
  BY <1>2, <1>4, ConcatProperties
<1>8. ASSUME o_wb_cyc, o_wb_cyc'
      PROVE  /\ Len(atSlave') = held + more - gone
             /\ \A i \in 1 .. held - gone : atSlave'[i] = atSlave[i + gone]
             /\ more = 1 => atSlave'[held + 1 - gone].a = o_wb_addr
  <2> HIDE DEF held
  <2>1. /\ Len(kept \o last) = Len(kept) + Len(last)
        /\ \A i \in 1 .. Len(kept) + Len(last) : (kept \o last)[i] =
              IF i <= Len(kept) THEN kept[i] ELSE last[i - Len(kept)]
    BY <1>2, <1>4, ConcatProperties
  <2>2. Len(kept \o last) = held + more - gone
    BY <1>1, <1>2, <1>4, <2>1
  <2>3. \A i \in 1 .. held - gone : (kept \o last)[i] = atSlave[i + gone]
    BY <1>1, <1>2, <1>4, <2>1
  <2>4. more = 1 => (kept \o last)[held + 1 - gone] = last[1]
    BY <1>1, <1>2, <1>4, <2>1
  <2>5. atSlave' = kept \o last
    BY <1>5, <1>8
  <2> QED
    BY <1>4, <2>2, <2>3, <2>4, <2>5
<1>9. atSlave' \in Seq(Exec!Request) /\ (~(o_wb_cyc /\ o_wb_cyc') => atSlave' = << >>)
  <2>1. << >> \in Seq(Exec!Request)
    OBVIOUS
  <2> QED
    BY <1>5, <1>7, <2>1, Zenon
<1>10. Len(atSlave) \in Nat /\ gone <= Len(atSlave)
  BY <1>1, <1>2
<1> QED
  BY <1>6, <1>8, <1>9, <1>10

\* A read that goes on keeps its counts.
LEMMA CountsKept ==
  ASSUME Next, CountsOK, ~r_wdt_reset, ~(i_wb_ack /\ last_ack),
         wb_state = "read", o_wb_cyc, wb_state' = "read", o_wb_cyc', w_bus_busy',
         o_wb_we' = FALSE, o_wb_stb' <=> o_wb_stb /\ ~Exec!LastIssued,
         NEW gone \in {0, 1}, gone = IF i_wb_ack THEN 1 ELSE 0,
         NEW more \in {0, 1}, more = IF Exec!Issued THEN 1 ELSE 0,
         gone <= Len(atSlave), Len(atSlave') = Len(atSlave) + more - gone
  PROVE  CountsOK' /\ r_len' + r_acks_needed' = r_len + r_acks_needed - gone
<1>1. /\ r_len \in Nat /\ r_acks_needed \in Nat
      /\ r_acks_needed = Len(atSlave)
      /\ r_len + r_acks_needed \in 1 .. MaxLen
      /\ o_wb_stb <=> r_len > 0
      /\ last_read_request <=> r_len <= 1
      /\ single_read_request => r_len <= 1
      /\ last_ack <=> r_len + r_acks_needed <= 1
      /\ o_wb_we = FALSE
  BY DEF CountsOK
<1>2. gone <= r_acks_needed
  BY <1>1
<1>3. more <= r_len
  BY <1>1 DEF Exec!Issued
<1>4. r_len' = r_len - more
  BY <1>1, <1>3 DEF Next, Exec!ExecClock, Exec!LenClock
<1>5. r_acks_needed' = r_acks_needed + more - gone
  <2>1. r_acks_needed + r_len <= 1023
    <3>1. MaxLen \in Nat /\ MaxLen <= 1023
      BY ConsoleAssumption
    <3> QED
      BY <1>1, <3>1
  <2>2. CASE Exec!Issued /\ ~i_wb_ack
    <3>1. r_acks_needed' = (r_acks_needed + 1) % 1024
      BY <2>2 DEF Next, Exec!ExecClock, Exec!AcksClock
    <3> QED
      BY <1>1, <1>3, <2>1, <2>2, <3>1
  <2>3. CASE ~Exec!Issued /\ i_wb_ack
    <3>1. r_acks_needed' = (r_acks_needed + 1023) % 1024
      BY <2>3 DEF Next, Exec!ExecClock, Exec!AcksClock
    <3> QED
      BY <1>1, <1>2, <2>1, <2>3, <3>1
  <2>4. CASE Exec!Issued <=> i_wb_ack
    <3>1. r_acks_needed' = r_acks_needed
      BY <2>4 DEF Next, Exec!ExecClock, Exec!AcksClock
    <3> QED
      BY <1>1, <2>4, <3>1
  <2> QED
    BY <2>2, <2>3, <2>4
<1>6. r_acks_needed' = Len(atSlave')
  BY <1>1, <1>5
<1>7. r_len' + r_acks_needed' = r_len + r_acks_needed - gone
  BY <1>1, <1>4, <1>5
<1>8. /\ last_read_request' <=> r_len' <= 1
      /\ single_read_request' => r_len' <= 1
  <2>1. /\ last_read_request' <=> r_len <= (IF Exec!Issued THEN 2 ELSE 1)
        /\ single_read_request' <=> single_read_request
    BY DEF Next, Exec!ExecClock, Exec!LenClock
  <2> QED
    BY <1>1, <1>3, <1>4, <2>1
<1>9. o_wb_stb' <=> r_len' > 0
  BY <1>1, <1>4 DEF Exec!LastIssued, Exec!Issued
<1>10. last_ack' <=> r_len' + r_acks_needed' <= 1
  <2>1. last_ack' <=> r_len + r_acks_needed <= (IF i_wb_ack THEN 2 ELSE 1)
    BY <1>1 DEF Next, Exec!ExecClock, Exec!LenClock, Exec!NextIsLast
  <2> QED
    BY <1>1, <1>7, <2>1
<1>11. r_len' \in Nat /\ r_acks_needed' \in Nat /\ r_len' + r_acks_needed' \in 1 .. MaxLen
  <2>1. r_len' \in Nat /\ r_acks_needed' \in Nat
    BY <1>1, <1>2, <1>3, <1>4, <1>5
  <2>2. r_len + r_acks_needed - gone \in 1 .. MaxLen
    BY <1>1, ConsoleAssumption
  <2> QED
    BY <1>7, <2>1, <2>2
<1> QED
  BY <1>6, <1>7, <1>8, <1>9, <1>10, <1>11 DEF CountsOK
-----------------------------------------------------------------------------
\* The debug port under any commands, errors and resets.  A bus master that is not idle
\* is busy; one that is idle, or skips the rest of a failed burst, has nothing on the bus.
Sound ==
    /\ in_stb => in_word \in Exec!Command
    /\ ififo \in Seq(Exec!Command)
    /\ ififo_empty_n => ififo # << >> /\ fifo_in_word = Head(ififo)
    /\ wb_state \in {"idle", "read", "write", "flush"}
    /\ wb_state # "idle" => w_bus_busy
    /\ wb_state \in {"idle", "flush"} => ~o_wb_cyc /\ ~o_wb_stb
    /\ wb_state \in {"read", "write"} => o_wb_cyc
    /\ o_wb_addr \in Exec!Address /\ o_wb_we \in BOOLEAN
    /\ atSlave \in Seq(Exec!Request)
    /\ ~o_wb_cyc => atSlave = << >>
    /\ i_wb_ack => atSlave # << >>
    /\ CountsOK

\* The codeword taken on this clock.
LEMMA AnyCommand ==
  ASSUME Sound, fifo_in_stb
  PROVE  /\ wb_state = "idle" /\ fifo_in_word \in Exec!Command
         /\ fifo_in_word.op \in {"addr", "rel"} => fifo_in_word.a \in Exec!Address
         /\ fifo_in_word.op = "read" => fifo_in_word.len \in 1 .. MaxLen
<1>1. ififo # << >> /\ fifo_in_word = Head(ififo) /\ ififo \in Seq(Exec!Command)
  BY DEF Sound, fifo_in_stb
<1>2. fifo_in_word \in Exec!Command
  BY <1>1, HeadTailProperties
<1>3. wb_state = "idle"
  BY DEF Sound, fifo_in_stb
<1>4. /\ fifo_in_word.op \in {"addr", "rel"} => fifo_in_word.a \in Exec!Address
      /\ fifo_in_word.op = "read" => fifo_in_word.len \in 1 .. MaxLen
  BY <1>2 DEF Exec!Command
<1> QED
  BY <1>2, <1>3, <1>4

\* What a clock does to a bus master that may fail: a command is taken only when it is
\* idle, so that a write never sees the next one.
LEMMA AnyMove ==
  ASSUME Sound, Next, ~r_wdt_reset
  PROVE  \/ /\ wb_state = "idle" /\ ~(fifo_in_stb /\ fifo_in_word.op \in {"read", "write"})
            /\ wb_state' = "idle" /\ ~o_wb_cyc' /\ ~o_wb_stb'
         \/ /\ wb_state = "idle" /\ fifo_in_stb /\ fifo_in_word.op = "read"
            /\ wb_state' = "read" /\ o_wb_cyc' /\ o_wb_stb' /\ w_bus_busy'
         \/ /\ wb_state = "idle" /\ fifo_in_stb /\ fifo_in_word.op = "write"
            /\ wb_state' = "write" /\ o_wb_cyc' /\ w_bus_busy'
         \/ /\ wb_state = "read" /\ (i_wb_err \/ (i_wb_ack /\ last_ack))
            /\ wb_state' = "idle" /\ ~o_wb_cyc'
            /\ o_wb_stb' => o_wb_stb /\ ~i_wb_err
         \/ /\ wb_state = "read" /\ ~(i_wb_ack /\ last_ack)
            /\ wb_state' = "read" /\ o_wb_cyc' /\ w_bus_busy'
            /\ o_wb_stb' <=> o_wb_stb /\ ~Exec!LastIssued
         \/ /\ wb_state = "write" /\ wb_state' \in {"write", "flush"} /\ w_bus_busy'
            /\ wb_state' = "write" => o_wb_cyc'
            /\ wb_state' = "flush" => ~o_wb_cyc' /\ ~o_wb_stb'
         \/ /\ wb_state = "flush" /\ wb_state' = "flush" /\ w_bus_busy'
            /\ ~o_wb_cyc' /\ ~o_wb_stb'
<1>1. /\ wb_state = "idle"  => Exec!Idle
      /\ wb_state = "read"  => Exec!ReadRequest
      /\ wb_state = "write" => Exec!WriteRequest
      /\ wb_state = "flush" => Exec!Flush
  BY DEF Next, Exec!ExecClock, Exec!ControlClock, Exec!Idle, Exec!ReadRequest,
         Exec!WriteRequest, Exec!Flush, Sound
<1>2. wb_state # "idle" => w_bus_busy /\ ~fifo_in_stb
  BY DEF Sound, fifo_in_stb
<1>3. CASE wb_state = "idle"
  BY <1>1, <1>3 DEF Exec!Idle, Exec!Starts, Exec!IsRead, Exec!IsWrite, Exec!ControlTo
<1>4. CASE wb_state = "read"
  BY <1>1, <1>2, <1>4 DEF Exec!ReadRequest, Exec!ControlTo
<1>5. CASE wb_state = "write"
  BY <1>1, <1>2, <1>5 DEF Exec!WriteRequest, Exec!NextIsWrite, Exec!NextIsOther, Exec!ControlTo
<1>6. CASE wb_state = "flush"
  BY <1>1, <1>2, <1>6 DEF Exec!Flush, Exec!ControlTo
<1> QED
  BY <1>3, <1>4, <1>5, <1>6 DEF Sound

\* A reset leaves nothing on the bus.
LEMMA ResetMove ==
  ASSUME Next, r_wdt_reset
  PROVE  wb_state' = "idle" /\ ~o_wb_cyc' /\ ~o_wb_stb' /\ ~w_bus_busy'
  BY DEF Next, Exec!ExecClock, Exec!ControlClock, Exec!ControlTo

\* The counts of a read, from its first clock to its last.
LEMMA AnyCounts ==
  ASSUME Sound, Next
  PROVE  CountsOK' /\ (wb_state' \in {"idle", "flush"} => ~o_wb_cyc' /\ ~o_wb_stb')
<1>1. CASE r_wdt_reset
  BY <1>1, ResetMove DEF CountsOK
<1>2. CASE ~r_wdt_reset /\ wb_state = "idle" /\ wb_state' = "read"
  <2>1. /\ fifo_in_stb /\ fifo_in_word.op = "read" /\ ~o_wb_cyc
        /\ o_wb_cyc' /\ o_wb_stb' /\ w_bus_busy'
    BY <1>2, AnyMove DEF Sound
  <2>2. fifo_in_word.len \in 1 .. MaxLen
    BY <2>1, AnyCommand
  <2>3. o_wb_we' = FALSE
    BY <1>2, <2>1 DEF Next, Exec!ExecClock, Exec!ControlClock, Exec!IsRead
  <2>4. r_acks_needed' = 0 /\ atSlave' = << >>
    BY <2>1 DEF Next, Exec!ExecClock, Exec!AcksClock, Exec!SlaveClock
  <2>5. /\ r_len' = fifo_in_word.len
        /\ last_ack' <=> fifo_in_word.len <= 1
        /\ single_read_request' <=> fifo_in_word.len <= 1
        /\ last_read_request' <=> fifo_in_word.len <= 1
    BY <2>1 DEF Next, Exec!ExecClock, Exec!LenClock, Exec!LenOf, Exec!Len1, Exec!IsRead
  <2> QED
    BY <1>2, <2>1, <2>2, <2>3, <2>4, <2>5, ConsoleAssumption DEF CountsOK
<1>3. CASE ~r_wdt_reset /\ wb_state = "read" /\ wb_state' = "read"
  <2>1. /\ o_wb_cyc /\ o_wb_cyc' /\ w_bus_busy' /\ ~(i_wb_ack /\ last_ack)
        /\ o_wb_stb' <=> o_wb_stb /\ ~Exec!LastIssued
    BY <1>3, AnyMove DEF Sound
  <2>2. o_wb_we' = FALSE
    BY <1>3 DEF Next, Exec!ExecClock, Exec!ControlClock, Sound, CountsOK
  <2>3. PICK gone \in {0, 1}, more \in {0, 1} :
          gone = (IF i_wb_ack THEN 1 ELSE 0) /\ more = (IF Exec!Issued THEN 1 ELSE 0)
    OBVIOUS
  <2>4. gone <= Len(atSlave) /\ Len(atSlave') = Len(atSlave) + more - gone
    BY <2>1, <2>3, SlaveQueue DEF Sound
  <2> QED
    BY <1>3, <2>1, <2>2, <2>3, <2>4, CountsKept DEF Sound
<1>4. CASE ~r_wdt_reset /\ wb_state = "read" /\ wb_state' = "idle"
  <2>1. /\ i_wb_err \/ (i_wb_ack /\ last_ack)
        /\ ~o_wb_cyc' /\ (o_wb_stb' => o_wb_stb /\ ~i_wb_err)
    BY <1>4, AnyMove
  <2>2. i_wb_ack /\ last_ack => ~o_wb_stb
    <3>1. i_wb_ack => Len(atSlave) \in Nat /\ Len(atSlave) > 0
      BY LenProperties, EmptySeq DEF Sound
    <3> QED
      BY <1>4, <3>1 DEF Sound, CountsOK
  <2> QED
    BY <1>4, <2>1, <2>2 DEF CountsOK
<1>5. CASE ~r_wdt_reset /\ wb_state # "read" /\ wb_state' # "read"
  BY <1>5, AnyMove DEF CountsOK
<1>6. \/ wb_state = "read" /\ wb_state' \in {"read", "idle"}
      \/ wb_state = "idle" /\ wb_state' = "read"
      \/ wb_state # "read" /\ wb_state' # "read"
      \/ r_wdt_reset
  BY AnyMove
<1> QED
  BY <1>1, <1>2, <1>3, <1>4, <1>5, <1>6

\* Every clock keeps the port sound, a reset included.
LEMMA SoundStep ==
  ASSUME Sound, [Next]_vars
  PROVE  Sound'
<1>1. CASE UNCHANGED vars
  BY <1>1 DEF vars, fifos, host, Exec!exec, Exec!control, Exec!reading, Exec!busIn,
              Sound, CountsOK
<1>2. CASE Next
  <2>1. in_stb' => in_word' \in Exec!Command
    BY <1>2 DEF Next, HostClock
  <2>2. /\ ififo' \in Seq(Exec!Command)
        /\ ififo_empty_n' => ififo' # << >> /\ fifo_in_word' = Head(ififo')
    BY <1>2, CommandsStep DEF Sound
  <2>3. /\ wb_state' \in {"idle", "read", "write", "flush"}
        /\ wb_state' # "idle" => w_bus_busy'
        /\ wb_state' \in {"read", "write"} => o_wb_cyc'
    BY <1>2, AnyMove, ResetMove
  <2>4. CountsOK' /\ (wb_state' \in {"idle", "flush"} => ~o_wb_cyc' /\ ~o_wb_stb')
    BY <1>2, AnyCounts
  <2>5. o_wb_addr' \in Exec!Address
    BY <1>2, AddressStep, AnyCommand DEF Sound
  <2>6. o_wb_we' \in BOOLEAN
    BY <1>2 DEF Next, Exec!ExecClock, Exec!ControlClock, Sound
  <2>7. PICK gone \in {0, 1}, more \in {0, 1} :
          gone = (IF i_wb_ack THEN 1 ELSE 0) /\ more = (IF Exec!Issued THEN 1 ELSE 0)
    OBVIOUS
  <2>8. /\ atSlave' \in Seq(Exec!Request) /\ (i_wb_ack' => atSlave' # << >>)
        /\ ~o_wb_cyc' => atSlave' = << >>
    BY <1>2, <2>7, SlaveQueue DEF Sound
  <2> QED
    BY <2>1, <2>2, <2>3, <2>4, <2>5, <2>6, <2>8 DEF Sound
<1> QED
  BY <1>1, <1>2

\* The port is sound from the first clock.
LEMMA SoundInit == Init => Sound
<1> SUFFICES ASSUME Init PROVE Sound
  OBVIOUS
<1>1. << >> \in Seq(Exec!Request) /\ << >> \in Seq(Exec!Command)
  OBVIOUS
<1> QED
  BY <1>1 DEF Init, Exec!ExecInit, Sound, CountsOK

\* Whatever commands come, and however their cycles end, a codeword reaches the bus
\* master only when nothing of the one before it is left on the bus (wbuconsole.v
\* :146-148).
THEOREM AlwaysNonePending == Spec => []NoRequestWhilePending
<1>1. Sound => NoRequestWhilePending
  BY AnyCommand DEF Sound, NoRequestWhilePending
<1> QED
  BY <1>1, SoundInit, SoundStep, PTL DEF Spec
-----------------------------------------------------------------------------
\* A host that only reads: what follows counts the answers it is owed.
ReadsOnly == HostOps \subseteq {"addr", "rel", "read"}

ReadCommand == {cw \in Exec!Command : cw.op \in {"addr", "rel", "read"}}

\* What the FIFOs hold and offer.
QueuesOK ==
    /\ in_word.op # "write"
    /\ in_stb => in_word \in ReadCommand
    /\ ififo \in Seq(ReadCommand)
    /\ ififo_empty_n => ififo # << >> /\ fifo_in_word = Head(ififo)
    /\ ofifo \in Seq(Exec!Answer)
    /\ ofifo_empty_n => ofifo # << >>
    /\ ofifo_rd => ofifo_empty_n

\* The bus master between its cycles and in them.
MasterOK ==
    /\ Watched /\ wb_state # "write"
    /\ o_wb_addr \in Exec!Address /\ r_inc \in BOOLEAN /\ exec_word \in Exec!Answer
    /\ atSlave \in Seq(Exec!Request)
    /\ wb_state = "idle" => ~o_wb_stb /\ atSlave = << >>
    /\ i_wb_ack => atSlave # << >>

\* The words of a vector read still to come: asked for, and not yet.
ToCome == IF wb_state = "read" THEN r_len + r_acks_needed ELSE 0

Base == QueuesOK /\ MasterOK /\ CountsOK

\* The command taken on this clock, and what a queue is left with.
LEMMA TakenCommand ==
  ASSUME Base, fifo_in_stb
  PROVE  /\ wb_state = "idle"
         /\ ififo # << >> /\ fifo_in_word = Head(ififo) /\ fifo_in_word \in ReadCommand
         /\ fifo_in_word.op \in {"addr", "rel", "read"}
         /\ fifo_in_word.op = "read" => fifo_in_word.len \in 1 .. MaxLen
         /\ fifo_in_word.op \in {"addr", "rel"} => fifo_in_word.a \in Exec!Address
<1>1. ififo # << >> /\ fifo_in_word = Head(ififo) /\ ififo \in Seq(ReadCommand)
  BY DEF Base, QueuesOK, fifo_in_stb
<1>2. fifo_in_word \in ReadCommand
  BY <1>1, HeadTailProperties
<1>3. wb_state = "idle"
  BY DEF fifo_in_stb, Base, MasterOK, CountsOK, Watched
<1>4. /\ fifo_in_word.op = "read" => fifo_in_word.len \in 1 .. MaxLen
      /\ fifo_in_word.op \in {"addr", "rel"} => fifo_in_word.a \in Exec!Address
  BY <1>2 DEF ReadCommand, Exec!Command
<1> QED
  BY <1>1, <1>2, <1>3, <1>4 DEF ReadCommand

\* The FIFOs keep commands and answers, and offer what they keep.
LEMMA QueuesStep ==
  ASSUME ReadsOnly, Base, Next, exec_stb => exec_word \in Exec!Answer
  PROVE  QueuesOK'
<1> USE DEF Base, QueuesOK
<1>1. in_word'.op # "write" /\ (in_stb' => in_word' \in ReadCommand)
  <2>1. CASE in_stb' = FALSE /\ in_word' = NoCommand
    BY <2>1 DEF NoCommand
  <2>2. CASE in_word' \in Exec!Command /\ in_word'.op \in HostOps
    BY <2>2 DEF ReadsOnly, ReadCommand
  <2> QED
    BY <2>1, <2>2 DEF Next, HostClock
<1>2. /\ ififo' \in Seq(ReadCommand)
      /\ ififo_empty_n' => ififo' # << >> /\ fifo_in_word' = Head(ififo')
  BY CommandsStep
<1>4. ofifo' \in Seq(Exec!Answer)
  <2>1. CASE r_wdt_reset
    BY <2>1 DEF Next, AnswerFifoClock
  <2>2. CASE ~r_wdt_reset
    <3>1. ofifo' = Pushed(ofifo, ofifo_rd, exec_stb, exec_word, ODepth)
      BY <2>2 DEF Next, AnswerFifoClock
    <3>2. Pushed(ofifo, ofifo_rd, exec_stb, exec_word, ODepth) \in Seq(Exec!Answer)
      BY PushedType
    <3> QED
      BY <3>1, <3>2
  <2> QED
    BY <2>1, <2>2
<1>5. (ofifo_empty_n' => ofifo' # << >>) /\ (ofifo_rd' => ofifo_empty_n')
  <2>1. ofifo_rd' => ofifo_empty_n'
    BY DEF Next, AnswerFifoClock
  <2>2. ASSUME ofifo_empty_n' PROVE ofifo' # << >>
    <3>1. /\ Offers(ofifo, ofifo_empty_n, ofifo_rd)
          /\ ofifo' = Pushed(ofifo, ofifo_rd, exec_stb, exec_word, ODepth)
      BY <2>2 DEF Next, AnswerFifoClock
    <3>2. ofifo_rd => ofifo_empty_n
      OBVIOUS
    <3>3. Pushed(ofifo, ofifo_rd, exec_stb, exec_word, ODepth) # << >>
      BY <3>1, <3>2, OffersOne
    <3> QED
      BY <3>1, <3>3
  <2> QED
    BY <2>1, <2>2
<1> QED
  BY <1>1, <1>2, <1>4, <1>5

\* What a clock does to the state of the bus master when the host only reads: it is
\* reset, takes a command, or goes on with its read or ends it.
LEMMA MasterMoves ==
  ASSUME Base, Next
  PROVE  /\ o_wb_cyc <=> wb_state = "read"
         /\ o_wb_cyc' => wb_state' # "idle"
         /\ r_wdt_reset => wb_state' = "idle" /\ ~o_wb_stb'
         /\ ~r_wdt_reset /\ wb_state = "idle" =>
               IF fifo_in_stb /\ fifo_in_word.op = "read"
               THEN wb_state' = "read" /\ o_wb_cyc' /\ o_wb_stb' /\ w_bus_busy'
                    /\ o_wb_we' = FALSE
               ELSE wb_state' = "idle" /\ ~o_wb_stb'
         /\ ~r_wdt_reset /\ wb_state = "read" =>
               IF i_wb_ack /\ last_ack
               THEN wb_state' = "idle" /\ (o_wb_stb' <=> o_wb_stb /\ ~Exec!LastIssued)
               ELSE /\ wb_state' = "read" /\ o_wb_cyc' /\ w_bus_busy' /\ o_wb_we' = FALSE
                    /\ o_wb_stb' <=> o_wb_stb /\ ~Exec!LastIssued
<1> USE DEF Base, MasterOK, Watched
<1>1. /\ o_wb_cyc <=> wb_state = "read"
      /\ wb_state \in {"idle", "read"}
  OBVIOUS
<1>2. CASE r_wdt_reset
  BY <1>1, <1>2 DEF Next, Exec!ExecClock, Exec!ControlClock, Exec!ControlTo
<1>3. CASE ~r_wdt_reset /\ wb_state = "idle"
  <2>1. Exec!Idle
    BY <1>3, Machine
  <2>2. Exec!Starts <=> fifo_in_stb /\ fifo_in_word.op = "read"
    <3>1. fifo_in_stb => fifo_in_word.op # "write"
      BY TakenCommand
    <3> QED
      BY <1>3, <3>1 DEF Exec!Starts, Exec!IsRead, Exec!IsWrite
  <2>3. CASE Exec!Starts
    <3>1. /\ wb_state' = "read" /\ o_wb_cyc' /\ o_wb_stb' /\ w_bus_busy'
      BY <2>1, <2>2, <2>3 DEF Exec!Idle, Exec!ControlTo, Exec!IsRead
    <3>2. o_wb_we' = FALSE
      BY <1>3, <2>2, <2>3 DEF Next, Exec!ExecClock, Exec!ControlClock, Exec!IsRead
    <3> QED
      BY <1>1, <1>3, <2>2, <2>3, <3>1, <3>2
  <2>4. CASE ~Exec!Starts
    BY <1>1, <1>3, <2>1, <2>2, <2>4 DEF Exec!Idle, Exec!ControlTo
  <2> QED
    BY <2>3, <2>4
<1>4. CASE ~r_wdt_reset /\ wb_state = "read"
  <2>1. Exec!ReadRequest
    BY <1>4, Machine
  <2>2. o_wb_we' = FALSE /\ w_bus_busy
    BY <1>4 DEF Next, Exec!ExecClock, Exec!ControlClock, CountsOK
  <2> QED
    BY <1>1, <1>4, <2>1, <2>2 DEF Exec!ReadRequest, Exec!ControlTo
<1> QED
  BY <1>1, <1>2, <1>3, <1>4

\* The slave's queue while a read goes on.
LEMMA SlaveMoves ==
  ASSUME Base, Next,
         NEW gone \in {0, 1}, gone = IF i_wb_ack THEN 1 ELSE 0,
         NEW more \in {0, 1}, more = IF Exec!Issued THEN 1 ELSE 0
  PROVE  /\ atSlave' \in Seq(Exec!Request)
         /\ ~(o_wb_cyc /\ o_wb_cyc') => atSlave' = << >>
         /\ i_wb_ack' => atSlave' # << >>
         /\ Len(atSlave) \in Nat /\ gone <= Len(atSlave)
         /\ o_wb_cyc /\ o_wb_cyc' =>
               /\ Len(atSlave') = Len(atSlave) + more - gone
               /\ \A i \in 1 .. Len(atSlave) - gone : atSlave'[i] = atSlave[i + gone]
               /\ more = 1 => atSlave'[Len(atSlave) + 1 - gone].a = o_wb_addr
<1>1. Exec!Issued => o_wb_addr \in Exec!Address /\ o_wb_we \in BOOLEAN
  BY DEF Base, MasterOK, Watched, CountsOK, Exec!Issued
<1>2. atSlave \in Seq(Exec!Request) /\ (i_wb_ack => atSlave # << >>)
  BY DEF Base, MasterOK
<1> QED
  BY <1>1, <1>2, SlaveQueue

\* What the host is answered, and what is on its way there.
LEMMA AnswerMoves ==
  ASSUME Base, Next
  PROVE  /\ exec_stb' <=> \/ r_wdt_reset
                          \/ fifo_in_stb /\ fifo_in_word.op = "read" /\ r_new_addr
                          \/ wb_state = "read" /\ i_wb_ack
         /\ r_wdt_reset => exec_word' = [kind |-> "reset"]
         /\ ~r_wdt_reset /\ wb_state = "idle"
               => exec_word' = [kind |-> "addr", a |-> o_wb_addr]
         /\ ~r_wdt_reset /\ wb_state = "read" /\ i_wb_ack
               => exec_word' = [kind |-> "data", a |-> Head(atSlave).a, inc |-> r_inc]
         /\ ~r_wdt_reset /\ wb_state = "read" /\ ~i_wb_ack => exec_word' = exec_word
         /\ exec_word' \in Exec!Answer
<1> USE DEF Base, MasterOK, Watched
<1>1. (o_wb_cyc <=> wb_state = "read") /\ ~i_wb_err /\ wb_state \in {"idle", "read"}
  OBVIOUS
<1>2. fifo_in_stb => ~w_bus_busy /\ wb_state = "idle"
  BY TakenCommand DEF fifo_in_stb
<1>3. exec_stb' <=> \/ r_wdt_reset
                    \/ fifo_in_stb /\ fifo_in_word.op = "read" /\ r_new_addr
                    \/ wb_state = "read" /\ i_wb_ack
  BY <1>1, <1>2 DEF Next, Exec!ExecClock, Exec!AnswerClock, Exec!IsRead
<1>4. exec_word' = IF r_wdt_reset THEN [kind |-> "reset"]
                   ELSE IF wb_state = "idle" THEN [kind |-> "addr", a |-> o_wb_addr]
                   ELSE IF i_wb_ack
                        THEN [kind |-> "data", a |-> Head(atSlave).a, inc |-> r_inc]
                   ELSE exec_word
  BY <1>1 DEF Next, Exec!ExecClock, Exec!AnswerClock, CountsOK
<1>5. exec_word' \in Exec!Answer
  <2>1. [kind |-> "reset"] \in Exec!Answer
    BY DEF Exec!Answer
  <2>2. [kind |-> "addr", a |-> o_wb_addr] \in Exec!Answer
    BY DEF Exec!Answer
  <2>3. i_wb_ack => [kind |-> "data", a |-> Head(atSlave).a, inc |-> r_inc] \in Exec!Answer
    <3>1. i_wb_ack => Head(atSlave) \in Exec!Request
      BY HeadTailProperties
    <3>2. \A r \in Exec!Request : r.a \in Exec!Address
      BY DEF Exec!Request
    <3> QED
      BY <3>1, <3>2 DEF Exec!Answer
  <2> QED
    BY <1>4, <2>1, <2>2, <2>3
<1> QED
  BY <1>1, <1>3, <1>4, <1>5

\* A clock keeps the state of the bus master sound.
LEMMA MasterStep ==
  ASSUME NeverErr, ReadsOnly, Base, Next
  PROVE  MasterOK'
<1>1. Watched' /\ wb_state' # "write"
  <2>1. Watched'
    BY WatchedStep DEF Base, MasterOK
  <2> QED
    BY <2>1, MasterMoves DEF Base, MasterOK, Watched
<1>2. o_wb_addr' \in Exec!Address
  BY AddressStep, TakenCommand DEF Base, MasterOK
<1>3. r_inc' \in BOOLEAN
  BY DEF Next, Exec!ExecClock, Exec!AddressClock, Exec!IncOf, Base, MasterOK
<1>4. exec_word' \in Exec!Answer
  BY AnswerMoves
<1>5. PICK gone \in {0, 1}, more \in {0, 1} :
        gone = (IF i_wb_ack THEN 1 ELSE 0) /\ more = (IF Exec!Issued THEN 1 ELSE 0)
  OBVIOUS
<1>6. /\ atSlave' \in Seq(Exec!Request)
      /\ ~(o_wb_cyc /\ o_wb_cyc') => atSlave' = << >>
      /\ i_wb_ack' => atSlave' # << >>
  BY <1>5, SlaveMoves
<1>7. wb_state' = "idle" => ~o_wb_stb' /\ atSlave' = << >>
  <2> SUFFICES ASSUME wb_state' = "idle" PROVE ~o_wb_stb' /\ atSlave' = << >>
    OBVIOUS
  <2>1. atSlave' = << >>
    BY <1>6, MasterMoves
  <2>2. CASE r_wdt_reset \/ wb_state = "idle"
    BY <2>1, <2>2, MasterMoves
  <2>3. CASE ~r_wdt_reset /\ wb_state = "read"
    <3>1. i_wb_ack /\ last_ack /\ (o_wb_stb' <=> o_wb_stb /\ ~Exec!LastIssued)
      BY <2>3, MasterMoves
    <3>2. Len(atSlave) \in Nat /\ Len(atSlave) > 0
      BY <3>1, LenProperties, EmptySeq DEF Base, MasterOK
    <3>3. ~o_wb_stb
      BY <2>3, <3>1, <3>2 DEF Base, CountsOK
    <3> QED
      BY <2>1, <3>1, <3>3
  <2> QED
    BY <2>2, <2>3 DEF Base, MasterOK, Watched
<1> QED
  BY <1>1, <1>2, <1>3, <1>4, <1>6, <1>7 DEF MasterOK

\* How much of a read is to come, from one clock to the next.
LEMMA CountsStep ==
  ASSUME Base, Next
  PROVE  /\ CountsOK'
         /\ ~r_wdt_reset => ToCome' = ToCome
               + (IF fifo_in_stb THEN Words(fifo_in_word) ELSE 0)
               - (IF wb_state = "read" /\ i_wb_ack THEN 1 ELSE 0)
         /\ ToCome \in Nat /\ (wb_state = "read" => ToCome > 0)
<1>0. ToCome \in Nat /\ (wb_state = "read" => ToCome > 0)
  BY DEF Base, CountsOK, ToCome
<1>1. CASE r_wdt_reset
  <2>1. wb_state' = "idle"
    BY <1>1, MasterMoves
  <2> QED
    BY <1>0, <1>1, <2>1 DEF CountsOK
<1>2. CASE ~r_wdt_reset /\ wb_state = "idle"
  <2>1. ToCome = 0
    BY <1>2 DEF ToCome
  <2>2. CASE fifo_in_stb /\ fifo_in_word.op = "read"
    <3>1. /\ wb_state' = "read" /\ o_wb_cyc' /\ o_wb_stb' /\ w_bus_busy' /\ o_wb_we' = FALSE
          /\ ~o_wb_cyc
      BY <1>2, <2>2, MasterMoves
    <3>2. fifo_in_word.len \in 1 .. MaxLen
      BY <2>2, TakenCommand
    <3>3. r_acks_needed' = 0
      BY <3>1 DEF Next, Exec!ExecClock, Exec!AcksClock
    <3>4. atSlave' = << >>
      BY <3>1 DEF Next, Exec!ExecClock, Exec!SlaveClock
    <3>5. /\ r_len' = fifo_in_word.len
          /\ last_ack' <=> fifo_in_word.len <= 1
          /\ single_read_request' <=> fifo_in_word.len <= 1
          /\ last_read_request' <=> fifo_in_word.len <= 1
      BY <2>2, <3>1 DEF Next, Exec!ExecClock, Exec!LenClock, Exec!LenOf, Exec!Len1, Exec!IsRead
    <3>6. CountsOK'
      BY <3>1, <3>2, <3>3, <3>4, <3>5, ConsoleAssumption DEF CountsOK
    <3>7. ToCome' = fifo_in_word.len
      BY <3>1, <3>2, <3>3, <3>5, ConsoleAssumption DEF ToCome
    <3>8. Words(fifo_in_word) = fifo_in_word.len
      BY <2>2 DEF Words
    <3> QED
      BY <1>0, <1>2, <2>1, <2>2, <3>2, <3>6, <3>7, <3>8, ConsoleAssumption
  <2>3. CASE ~(fifo_in_stb /\ fifo_in_word.op = "read")
    <3>1. wb_state' = "idle"
      BY <1>2, <2>3, MasterMoves
    <3>2. CountsOK' /\ ToCome' = 0
      BY <3>1 DEF CountsOK, ToCome
    <3>3. fifo_in_stb => Words(fifo_in_word) = 0
      BY <2>3 DEF Words
    <3> QED
      BY <1>0, <1>2, <2>1, <3>2, <3>3
  <2> QED
    BY <2>2, <2>3
<1>3. CASE ~r_wdt_reset /\ wb_state = "read"
  <2>1. /\ r_len \in Nat /\ r_acks_needed \in Nat
        /\ r_acks_needed = Len(atSlave)
        /\ r_len + r_acks_needed \in 1 .. MaxLen
        /\ o_wb_stb <=> r_len > 0
        /\ last_read_request <=> r_len <= 1
        /\ single_read_request => r_len <= 1
        /\ last_ack <=> r_len + r_acks_needed <= 1
        /\ o_wb_we = FALSE
    BY <1>3 DEF Base, CountsOK
  <2>2. PICK gone \in {0, 1}, more \in {0, 1} :
          gone = (IF i_wb_ack THEN 1 ELSE 0) /\ more = (IF Exec!Issued THEN 1 ELSE 0)
    OBVIOUS
  <2>3. gone <= r_acks_needed
    BY <2>1, <2>2, SlaveMoves
  <2>4. more <= r_len
    BY <2>1, <2>2 DEF Exec!Issued
  <2>5. ~fifo_in_stb
    BY <1>3, TakenCommand
  <2>6. ToCome = r_len + r_acks_needed
    BY <1>3 DEF ToCome
  <2>7. CASE i_wb_ack /\ last_ack
    <3>1. wb_state' = "idle"
      BY <1>3, <2>7, MasterMoves
    <3>2. CountsOK' /\ ToCome' = 0
      BY <3>1 DEF CountsOK, ToCome
    <3>3. r_len + r_acks_needed = 1
      BY <2>1, <2>7
    <3> QED
      BY <1>0, <1>3, <2>5, <2>6, <2>7, <3>2, <3>3
  <2>8. CASE ~(i_wb_ack /\ last_ack)
    <3>1. /\ wb_state' = "read" /\ o_wb_cyc' /\ w_bus_busy' /\ o_wb_we' = FALSE
          /\ o_wb_stb' <=> o_wb_stb /\ ~Exec!LastIssued
          /\ o_wb_cyc
      BY <1>3, <2>8, MasterMoves
    <3>10. /\ CountsOK'
           /\ r_len' + r_acks_needed' = r_len + r_acks_needed - gone
      BY <1>3, <2>2, <2>8, <3>1, SlaveMoves, CountsKept DEF Base
    <3>11. ToCome' = r_len + r_acks_needed - gone
      BY <3>1, <3>10 DEF ToCome
    <3> QED
      BY <1>0, <1>3, <2>1, <2>2, <2>5, <2>6, <3>10, <3>11
  <2> QED
    BY <2>7, <2>8
<1> QED
  BY <1>1, <1>2, <1>3 DEF Base, MasterOK, Watched

\* The FIFOs and the bus master stay sound, whatever the watchdog does.
LEMMA BaseStep ==
  ASSUME NeverErr, ReadsOnly, Base, [Next]_vars
  PROVE  Base'
<1>1. CASE Next
  <2>1. QueuesOK'
    BY <1>1, QueuesStep DEF Base, MasterOK
  <2> QED
    BY <1>1, <2>1, MasterStep, CountsStep DEF Base
<1>2. CASE UNCHANGED vars
  <2>1. QueuesOK'
    BY <1>2 DEF vars, fifos, host, Exec!exec, Base, QueuesOK
  <2>2. MasterOK'
    BY <1>2 DEF vars, Exec!exec, Exec!control, Exec!busIn, Base, MasterOK, Watched
  <2>3. CountsOK'
    BY <1>2 DEF vars, Exec!exec, Exec!control, Exec!reading, Base, CountsOK
  <2> QED
    BY <2>1, <2>2, <2>3 DEF Base
<1> QED
  BY <1>1, <1>2

\* At first nothing waits and the bus is idle.
LEMMA BaseInit == Init => Base
<1> SUFFICES ASSUME Init PROVE Base
  OBVIOUS
<1>1. QueuesOK
  BY DEF Init, QueuesOK
<1>2. o_wb_addr \in Exec!Address /\ exec_word \in Exec!Answer
  BY DEF Init, Exec!ExecInit, Exec!Answer
<1>3. MasterOK
  <2>1. << >> \in Seq(Exec!Request)
    OBVIOUS
  <2> QED
    BY <1>2, <2>1 DEF Init, Exec!ExecInit, MasterOK, Watched
<1>4. CountsOK
  BY DEF Init, Exec!ExecInit, CountsOK
<1> QED
  BY <1>1, <1>3, <1>4 DEF Base
-----------------------------------------------------------------------------
\* The answers on their way to the host, from the next one it is given.
Owed == ofifo \o (IF exec_stb THEN <<exec_word>> ELSE << >>)

OwedShape ==
    /\ Owed \in Seq(Exec!Answer) /\ Len(Owed) \in Nat /\ Len(ofifo) \in Nat
    /\ Len(Owed) = Len(ofifo) + (IF exec_stb THEN 1 ELSE 0)
    /\ \A i \in 1 .. Len(Owed) : Owed[i] \in Exec!Answer
    /\ \A i \in 1 .. Len(ofifo) : Owed[i] = ofifo[i]
    /\ exec_stb => Owed[Len(Owed)] = exec_word
    /\ ofifo_rd => Len(ofifo) > 0 /\ Answer = Owed[1]

\* What the answer FIFO holds comes first, what the bus master has made last.
LEMMA OwedType == Base => OwedShape
<1> SUFFICES ASSUME Base PROVE OwedShape
  OBVIOUS
<1> DEFINE last == IF exec_stb THEN <<exec_word>> ELSE << >>
<1>1. /\ ofifo \in Seq(Exec!Answer) /\ Len(ofifo) \in Nat
      /\ last \in Seq(Exec!Answer) /\ Len(last) = (IF exec_stb THEN 1 ELSE 0)
      /\ exec_stb => last[1] = exec_word
  BY LenProperties DEF Base, QueuesOK, MasterOK
<1>2. ofifo_rd => ofifo # << >>
  BY DEF Base, QueuesOK
<1>3. Owed = ofifo \o last
  BY DEF Owed
<1> HIDE DEF last
<1>4. /\ Owed \in Seq(Exec!Answer) /\ Len(Owed) = Len(ofifo) + Len(last)
      /\ \A i \in 1 .. Len(ofifo) + Len(last) : Owed[i] =
            IF i <= Len(ofifo) THEN ofifo[i] ELSE last[i - Len(ofifo)]
  BY <1>1, <1>3, ConcatProperties
<1>5. \A i \in 1 .. Len(ofifo) : Owed[i] = ofifo[i]
  BY <1>1, <1>4
<1>6. exec_stb => Owed[Len(Owed)] = exec_word
  BY <1>1, <1>4
<1>7. ofifo_rd => Len(ofifo) > 0 /\ Answer = Owed[1]
  <2>1. ofifo_rd => Len(ofifo) > 0 /\ Head(ofifo) = ofifo[1]
    BY <1>1, <1>2, EmptySeq
  <2> QED
    BY <1>1, <1>5, <2>1 DEF Answer
<1>8. \A i \in 1 .. Len(Owed) : Owed[i] \in Exec!Answer
  BY <1>4, ElementOfSeq
<1> QED
  BY <1>1, <1>4, <1>5, <1>6, <1>7, <1>8 DEF OwedShape

\* A clock on which there is room takes the first answer, if the host is given it,
\* and adds the one the bus master has just made.
LEMMA OwedMoves ==
  ASSUME Base, Base', Next, ~r_wdt_reset, AnswerFits,
         NEW given \in {0, 1}, given = IF ofifo_rd THEN 1 ELSE 0,
         NEW made \in {0, 1}, made = IF exec_stb' THEN 1 ELSE 0
  PROVE  /\ given <= Len(Owed)
         /\ Len(Owed') = Len(Owed) + made - given
         /\ \A i \in 1 .. Len(Owed) - given : Owed'[i] = Owed[i + given]
         /\ made = 1 => Owed'[Len(Owed')] = exec_word'
<1> DEFINE left == IF ofifo_rd THEN Tail(ofifo) ELSE ofifo
           last == IF exec_stb THEN <<exec_word>> ELSE << >>
<1>1. /\ ofifo \in Seq(Exec!Answer) /\ Len(ofifo) \in Nat /\ Len(Owed) \in Nat
      /\ ofifo_rd => ofifo # << >> /\ Len(ofifo) > 0
      /\ last \in Seq(Exec!Answer) /\ Len(last) = (IF exec_stb THEN 1 ELSE 0)
      /\ exec_stb => last[1] = exec_word
      /\ Len(Owed) = Len(ofifo) + (IF exec_stb THEN 1 ELSE 0)
  BY OwedType DEF OwedShape, Base, QueuesOK, MasterOK
<1>2. ofifo' = left \o last
  <2>1. ofifo' = Pushed(ofifo, ofifo_rd, exec_stb, exec_word, ODepth)
    BY DEF Next, AnswerFifoClock
  <2> QED
    BY <2>1 DEF Pushed, AnswerFits
<1>3. /\ left \in Seq(Exec!Answer) /\ Len(left) = Len(ofifo) - given
      /\ \A i \in 1 .. Len(ofifo) - given : left[i] = ofifo[i + given]
  BY <1>1, HeadTailProperties
<1> HIDE DEF left, last
<1>4. /\ Len(ofifo') = Len(left) + Len(last)
      /\ \A i \in 1 .. Len(left) + Len(last) : ofifo'[i] =
            IF i <= Len(left) THEN left[i] ELSE last[i - Len(left)]
  BY <1>1, <1>2, <1>3, ConcatProperties
<1>5. given <= Len(Owed) /\ Len(ofifo') = Len(Owed) - given
  BY <1>1, <1>3, <1>4
<1>6. \A i \in 1 .. Len(Owed) - given : ofifo'[i] = Owed[i + given]
  <2> SUFFICES ASSUME NEW i \in 1 .. Len(Owed) - given PROVE ofifo'[i] = Owed[i + given]
    OBVIOUS
  <2>1. CASE i <= Len(ofifo) - given
    <3>1. ofifo'[i] = ofifo[i + given]
      BY <1>1, <1>3, <1>4, <2>1
    <3>2. Owed[i + given] = ofifo[i + given]
      <4>1. i + given \in 1 .. Len(ofifo)
        BY <1>1, <2>1
      <4> QED
        BY <4>1, OwedType DEF OwedShape
    <3> QED
      BY <3>1, <3>2
  <2>2. CASE ~(i <= Len(ofifo) - given)
    <3>1. exec_stb /\ i = Len(ofifo) - given + 1 /\ i + given = Len(Owed)
      BY <1>1, <2>2
    <3>2. ofifo'[i] = exec_word
      BY <1>1, <1>3, <1>4, <3>1
    <3>3. Owed[Len(Owed)] = exec_word
      BY <3>1, OwedType DEF OwedShape
    <3> QED
      BY <3>1, <3>2, <3>3
  <2> QED
    BY <2>1, <2>2
<1>7. /\ Len(Owed') = Len(ofifo') + made
      /\ \A i \in 1 .. Len(ofifo') : Owed'[i] = ofifo'[i]
      /\ made = 1 => Owed'[Len(Owed')] = exec_word'
  <2>1. OwedShape'
    BY OwedType, PTL
  <2> QED
    BY <2>1 DEF OwedShape
<1>8. \A i \in 1 .. Len(Owed) - given : Owed'[i] = Owed[i + given]
  BY <1>5, <1>6, <1>7
<1>9. Len(Owed') = Len(Owed) + made - given
  BY <1>1, <1>5, <1>7
<1> QED
  BY <1>5, <1>7, <1>8, <1>9, Zenon
-----------------------------------------------------------------------------
Onward(a, inc) == (a + (IF inc THEN 1 ELSE 0)) % ADDRESSES

\* The address the host has after an answer that tells it one.
Tells(w) == w.kind \in {"data", "addr"}
After(w) == IF w.kind = "data" THEN Onward(w.a, w.inc) ELSE w.a

\* The word of a read in i-th place from the front of what the slave holds; after
\* the last comes the one the strobe asks for.
Asked(i) == IF i <= Len(atSlave) THEN atSlave[i].a ELSE o_wb_addr

AskedInOrder ==
    wb_state = "read" =>
       \A i \in 1 .. Len(atSlave) : Asked(i+1) = Onward(Asked(i), r_inc)

\* A word owed was read where the answer before it, or the host, says.
OwedInOrder ==
    \A i \in 1 .. Len(Owed) : Owed[i].kind = "data" =>
       IF i = 1 THEN Owed[1].a = told ELSE Tells(Owed[i-1]) /\ Owed[i].a = After(Owed[i-1])

\* All that is owed leaves the host with this address.
EndsAt(a) == IF Owed = << >> THEN told = a
             ELSE Tells(Owed[Len(Owed)]) /\ After(Owed[Len(Owed)]) = a

\* Unless an answer has been lost, or an address is to be told first, the next word
\* the bus master answers with is where the host will then expect it.
ToldOK ==
    /\ AskedInOrder
    /\ ~missed => /\ OwedInOrder
                  /\ wb_state = "read" \/ ~r_new_addr => EndsAt(Asked(1))

\* Where the next word is read, from one clock to the next.
LEMMA AskedMoves ==
  ASSUME Base, Base', Next, ~r_wdt_reset, AskedInOrder
  PROVE  /\ AskedInOrder'
         /\ wb_state = "read" =>
               Asked(1)' = IF i_wb_ack THEN Onward(Asked(1), r_inc) ELSE Asked(1)
         /\ i_wb_ack => Asked(1) = Head(atSlave).a
         /\ wb_state = "idle" /\ ~(fifo_in_stb /\ fifo_in_word.op \in {"addr", "rel"})
               => Asked(1)' = Asked(1) /\ Asked(1) = o_wb_addr
<1>0. /\ o_wb_addr \in Nat /\ ADDRESSES \in Nat /\ o_wb_addr < ADDRESSES
      /\ Len(atSlave) \in Nat
  BY ConsoleAssumption, LenProperties DEF Base, MasterOK, Exec!Address
<1>1. i_wb_ack => Asked(1) = Head(atSlave).a
  <2>1. i_wb_ack => Len(atSlave) > 0 /\ Head(atSlave) = atSlave[1]
    BY <1>0, EmptySeq DEF Base, MasterOK
  <2> QED
    BY <1>0, <2>1 DEF Asked
<1>2. ~(fifo_in_stb /\ fifo_in_word.op \in {"addr", "rel"})
         => o_wb_addr' = IF Exec!Issued THEN Onward(o_wb_addr, r_inc) ELSE o_wb_addr
  <2>1. ~r_inc => Onward(o_wb_addr, r_inc) = o_wb_addr
    BY <1>0 DEF Onward
  <2>2. r_inc => Onward(o_wb_addr, r_inc) = (o_wb_addr + 1) % ADDRESSES
    BY DEF Onward
  <2>3. ~(fifo_in_stb /\ fifo_in_word.op \in {"addr", "rel"})
         => o_wb_addr' = IF Exec!Issued /\ r_inc THEN (o_wb_addr + 1) % ADDRESSES
                         ELSE o_wb_addr
    BY DEF Next, Exec!ExecClock, Exec!AddressClock
  <2> QED
    BY <2>1, <2>2, <2>3
<1>3. atSlave = << >> => Len(atSlave) = 0
  OBVIOUS
<1>4. wb_state' = "idle" => Asked(1)' = o_wb_addr'
  <2>1. wb_state' = "idle" => atSlave' = << >>
    BY DEF Base, MasterOK
  <2>2. atSlave' = << >> => Len(atSlave') = 0
    OBVIOUS
  <2> QED
    BY <2>1, <2>2 DEF Asked
<1>5. CASE wb_state = "idle"
  <2>1. ~Exec!Issued /\ atSlave = << >> /\ ~o_wb_cyc
    BY <1>5, MasterMoves DEF Base, MasterOK, Exec!Issued
  <2>2. Asked(1) = o_wb_addr
    BY <1>3, <2>1 DEF Asked
  <2>3. atSlave' = << >>
    BY <2>1 DEF Next, Exec!ExecClock, Exec!SlaveClock
  <2>4. Len(atSlave') = 0
    BY <2>3
  <2>5. Asked(1)' = o_wb_addr' /\ AskedInOrder'
    BY <2>4 DEF Asked, AskedInOrder
  <2> QED
    BY <1>1, <1>2, <1>5, <2>1, <2>2, <2>5
<1>6. CASE wb_state = "read"
  <2>1. ~fifo_in_stb /\ o_wb_cyc
    BY <1>6, TakenCommand, MasterMoves
  <2>2. PICK gone \in {0, 1}, more \in {0, 1} :
          gone = (IF i_wb_ack THEN 1 ELSE 0) /\ more = (IF Exec!Issued THEN 1 ELSE 0)
    OBVIOUS
  <2> DEFINE held == Len(atSlave)
             onward(a) == Onward(a, r_inc)
  <2>3. \A i \in 1 .. held : Asked(i+1) = onward(Asked(i))
    BY <1>6 DEF AskedInOrder
  <2>4. Asked(held + 1) = o_wb_addr
    BY <1>0 DEF Asked
  <2>5. CASE wb_state' = "idle"
    <3>1. i_wb_ack /\ last_ack
      BY <1>6, <2>5, MasterMoves
    <3>2. held = 1 /\ ~Exec!Issued
      <4>1. held > 0
        BY <1>0, <3>1, EmptySeq DEF Base, MasterOK
      <4> QED
        BY <1>0, <1>6, <3>1, <4>1 DEF Base, CountsOK, Exec!Issued
    <3>3. Asked(1+1) = onward(Asked(1))
      BY <2>3, <3>2
    <3>4. o_wb_addr = onward(Asked(1))
      BY <2>4, <3>2, <3>3
    <3>5. Asked(1)' = o_wb_addr
      BY <1>2, <1>4, <2>1, <2>5, <3>2
    <3> QED
      BY <1>1, <1>6, <2>5, <3>1, <3>4, <3>5 DEF AskedInOrder
  <2>6. CASE wb_state' = "read"
    <3>1. o_wb_cyc' /\ r_inc' = r_inc
      BY <1>6, <2>6, MasterMoves DEF Next, Exec!ExecClock, Exec!AddressClock
    <3>2. /\ gone <= held
          /\ Len(atSlave') = held + more - gone
          /\ \A i \in 1 .. held - gone : atSlave'[i] = atSlave[i + gone]
          /\ more = 1 => atSlave'[held + 1 - gone].a = o_wb_addr
      BY <2>1, <2>2, <3>1, SlaveMoves
    <3>3. o_wb_addr' = IF more = 1 THEN onward(o_wb_addr) ELSE o_wb_addr
      BY <1>2, <2>1, <2>2
    <3> HIDE DEF held, onward
    <3>4. held \in Nat
      BY <1>0 DEF held
    <3>5. ASSUME NEW i \in 1 .. held + 1 - gone PROVE Asked(i)' = Asked(i + gone)
      <4>1. CASE i <= held - gone
        <5>1. Asked(i)' = atSlave[i + gone].a
          BY <2>2, <3>2, <3>4, <4>1 DEF Asked
        <5>2. i + gone <= Len(atSlave)
          BY <2>2, <3>4, <4>1 DEF held
        <5> QED
          BY <5>1, <5>2 DEF Asked
      <4>2. CASE i = held + 1 - gone
        <5>1. Asked(i + gone) = o_wb_addr
          <6>1. i + gone = held + 1
            BY <2>2, <3>4, <4>2
          <6> QED
            BY <2>4, <6>1
        <5>2. CASE more = 1
          <6>1. i <= Len(atSlave')
            BY <2>2, <3>2, <3>4, <4>2, <5>2
          <6>2. atSlave'[i].a = o_wb_addr
            BY <3>2, <4>2, <5>2
          <6> QED
            BY <5>1, <6>1, <6>2 DEF Asked
        <5>3. CASE more = 0
          <6>1. ~(i <= Len(atSlave'))
            BY <2>2, <3>2, <3>4, <4>2, <5>3
          <6>2. o_wb_addr' = o_wb_addr
            BY <3>3, <5>3
          <6> QED
            BY <5>1, <6>1, <6>2 DEF Asked
        <5> QED
          BY <2>2, <5>2, <5>3
      <4> QED
        BY <2>2, <3>4, <4>1, <4>2
    <3>6. \A i \in Nat : i = held + 2 - gone /\ more = 1 => Asked(i)' = o_wb_addr'
      <4> SUFFICES ASSUME NEW i \in Nat, i = held + 2 - gone, more = 1
                   PROVE  Asked(i)' = o_wb_addr'
        OBVIOUS
      <4>1. ~(i <= Len(atSlave'))
        BY <2>2, <3>2, <3>4
      <4> QED
        BY <4>1 DEF Asked
    <3>7. ASSUME NEW i \in 1 .. held + more - gone PROVE Asked(i+1)' = onward(Asked(i)')
      <4>1. CASE i <= held - gone
        <5>1. Asked(i)' = Asked(i + gone) /\ Asked(i+1)' = Asked(i + 1 + gone)
          BY <2>2, <3>4, <3>5, <4>1
        <5>2. Asked((i + gone) + 1) = onward(Asked(i + gone))
          BY <2>2, <2>3, <3>4, <4>1
        <5>3. (i + gone) + 1 = i + 1 + gone
          BY <2>2
        <5> QED
          BY <5>1, <5>2, <5>3
      <4>2. CASE more = 1 /\ i = held + 1 - gone
        <5>1. Asked(i)' = Asked(i + gone) /\ i + gone = held + 1
          BY <2>2, <3>4, <3>5, <4>2
        <5>2. i + 1 = held + 2 - gone /\ i + 1 \in Nat
          BY <2>2, <3>4, <4>2
        <5>3. Asked(i+1)' = o_wb_addr'
          BY <3>6, <4>2, <5>2
        <5> QED
          BY <2>4, <3>3, <4>2, <5>1, <5>3
      <4> QED
        BY <2>2, <3>4, <4>1, <4>2
    <3>8. AskedInOrder'
      <4>1. ASSUME NEW i \in 1 .. Len(atSlave')
            PROVE  Asked(i+1)' = Onward(Asked(i)', r_inc')
        BY <3>1, <3>2, <3>7 DEF onward
      <4> QED
        BY <4>1 DEF AskedInOrder, Onward
    <3>9. Asked(1)' = IF i_wb_ack THEN onward(Asked(1)) ELSE Asked(1)
      <4>0. 1 \in 1 .. held + 1 - gone
        BY <2>2, <3>2, <3>4
      <4>1. CASE i_wb_ack
        <5>1. 1 \in 1 .. held
          BY <2>2, <3>2, <3>4, <4>1
        <5>2. Asked(1)' = Asked(1 + 1)
          BY <2>2, <3>5, <4>0, <4>1
        <5>3. Asked(1 + 1) = onward(Asked(1))
          BY <2>3, <5>1
        <5> QED
          BY <4>1, <5>2, <5>3
      <4>2. CASE ~i_wb_ack
        BY <2>2, <3>5, <4>0, <4>2
      <4> QED
        BY <4>1, <4>2
    <3> QED
      BY <1>1, <1>6, <3>8, <3>9 DEF onward
  <2> QED
    BY <1>6, <2>5, <2>6 DEF Base, MasterOK, Watched
<1> QED
  BY <1>5, <1>6 DEF Base, MasterOK, Watched

\* The host takes the first of what it is owed.
LEMMA ToldMoves ==
  ASSUME Base, Next, OwedInOrder
  PROVE  /\ ~ofifo_rd => told' = told
         /\ ofifo_rd /\ Tells(Owed[1]) => told' = After(Owed[1])
<1>1. told' = ToldAt
  BY DEF Next, HostClock
<1>2. ~ofifo_rd => told' = told
  BY <1>1 DEF ToldAt
<1>3. ASSUME ofifo_rd, Tells(Owed[1]) PROVE told' = After(Owed[1])
  <2>1. /\ Answer = Owed[1] /\ 1 \in 1 .. Len(Owed)
        /\ Owed[1] \in Exec!Answer
    BY <1>3, OwedType DEF OwedShape
  <2>2. CASE Owed[1].kind = "data"
    <3>1. Owed[1].a = told
      BY <2>1, <2>2 DEF OwedInOrder
    <3>2. Owed[1].a \in Exec!Address
      BY <2>1, <2>2 DEF Exec!Answer
    <3>3. told # NoAddress
      BY <3>1, <3>2, ConsoleAssumption DEF NoAddress, Exec!Address
    <3>4. told' = (told + (IF Answer.inc THEN 1 ELSE 0)) % ADDRESSES
      BY <1>1, <1>3, <2>1, <2>2, <3>3 DEF ToldAt
    <3> QED
      BY <2>1, <2>2, <3>1, <3>4 DEF After, Onward
  <2>3. CASE Owed[1].kind = "addr"
    <3>1. told' = Answer.a
      BY <1>1, <1>3, <2>1, <2>3 DEF ToldAt
    <3> QED
      BY <2>1, <2>3, <3>1 DEF After
  <2> QED
    BY <1>3, <2>2, <2>3 DEF Tells
<1> QED
  BY <1>2, <1>3

\* A clock without a new answer leaves the host, in the end, where it was; a new one
\* that is where the host expects it keeps the order.
LEMMA OrderMoves ==
  ASSUME Base, Base', Next, ~r_wdt_reset, AnswerFits, OwedInOrder
  PROVE  /\ \A a : EndsAt(a) /\ ~exec_stb' => EndsAt(a)'
         /\ \A a : exec_stb' /\ Tells(exec_word') /\ After(exec_word') = a => EndsAt(a)'
         /\ \/ ~exec_stb' \/ exec_word'.kind # "data"
            \/ \E a : EndsAt(a) /\ exec_word'.a = a
            => OwedInOrder'
<1>1. PICK given \in {0, 1}, made \in {0, 1} :
        given = (IF ofifo_rd THEN 1 ELSE 0) /\ made = (IF exec_stb' THEN 1 ELSE 0)
  OBVIOUS
<1> DEFINE owed == Len(Owed)
<1>2. /\ given <= owed
      /\ Len(Owed') = owed + made - given
      /\ \A i \in 1 .. owed - given : Owed'[i] = Owed[i + given]
      /\ made = 1 => Owed'[Len(Owed')] = exec_word'
  BY <1>1, OwedMoves
<1>3. owed \in Nat /\ (Owed = << >> <=> owed = 0)
  BY OwedType, EmptySeq DEF OwedShape
<1>4. Owed' = << >> <=> Len(Owed') = 0
  <2>1. OwedShape'
    BY OwedType, PTL
  <2> QED
    BY <2>1, EmptySeq DEF OwedShape
<1>5. /\ given = 0 => told' = told
      /\ given = 1 /\ Tells(Owed[1]) => told' = After(Owed[1])
  BY <1>1, ToldMoves
<1> HIDE DEF owed
<1>6. ASSUME NEW a, EndsAt(a), Len(Owed') = owed - given PROVE EndsAt(a)'
  <2>1. CASE owed = 0
    BY <1>1, <1>2, <1>3, <1>4, <1>5, <1>6, <2>1 DEF EndsAt
  <2>2. CASE owed # 0
    <3>1. Tells(Owed[owed]) /\ After(Owed[owed]) = a
      BY <1>3, <1>6, <2>2 DEF EndsAt, owed
    <3>2. CASE owed = given
      BY <1>1, <1>2, <1>3, <1>4, <1>5, <1>6, <2>2, <3>1, <3>2 DEF EndsAt
    <3>3. CASE owed # given
      <4>1. Owed'[owed - given] = Owed[owed]
        <5>1. owed - given \in 1 .. owed - given /\ (owed - given) + given = owed
          BY <1>1, <1>2, <1>3, <3>3
        <5> QED
          BY <1>2, <5>1
      <4>2. Len(Owed') # 0
        BY <1>1, <1>3, <1>6, <3>3
      <4>3. Owed'[Len(Owed')] = Owed[owed]
        BY <1>6, <4>1
      <4> QED
        BY <1>4, <3>1, <4>2, <4>3 DEF EndsAt, Tells, After, Onward
    <3> QED
      BY <3>2, <3>3
  <2> QED
    BY <2>1, <2>2
<1>7. \A a : EndsAt(a) /\ ~exec_stb' => EndsAt(a)'
  <2> SUFFICES ASSUME NEW a, EndsAt(a), ~exec_stb' PROVE EndsAt(a)'
    OBVIOUS
  <2>1. Len(Owed') = owed - given
    BY <1>1, <1>2, <1>3
  <2> QED
    BY <1>6, <2>1
<1>8. \A a : exec_stb' /\ Tells(exec_word') /\ After(exec_word') = a => EndsAt(a)'
  <2>1. exec_stb' => Owed'[Len(Owed')] = exec_word' /\ Len(Owed') # 0
    BY <1>1, <1>2, <1>3
  <2> QED
    BY <1>4, <2>1 DEF EndsAt, Tells, After, Onward
<1>9. ASSUME \/ ~exec_stb' \/ exec_word'.kind # "data"
             \/ \E a : EndsAt(a) /\ exec_word'.a = a
      PROVE  OwedInOrder'
  <2> SUFFICES ASSUME NEW i \in 1 .. Len(Owed'), Owed'[i].kind = "data"
               PROVE  IF i = 1 THEN Owed'[1].a = told'
                      ELSE Tells(Owed'[i-1]) /\ Owed'[i].a = After(Owed'[i-1])
    BY DEF OwedInOrder, Tells, After, Onward
  <2>1. CASE i <= owed - given
    <3>1. Owed'[i] = Owed[i + given] /\ i + given \in 1 .. owed
      BY <1>1, <1>2, <1>3, <2>1
    <3>2. IF i + given = 1 THEN Owed[1].a = told
          ELSE Tells(Owed[i + given - 1]) /\ Owed[i + given].a = After(Owed[i + given - 1])
      BY <3>1 DEF OwedInOrder, owed
    <3>3. CASE i = 1 /\ given = 0
      BY <1>5, <3>1, <3>2, <3>3
    <3>4. CASE i = 1 /\ given = 1
      <4>1. Tells(Owed[1]) /\ Owed[2].a = After(Owed[1])
        BY <3>2, <3>4
      <4> QED
        BY <1>5, <3>1, <3>4, <4>1
    <3>5. CASE i # 1
      <4>1. i - 1 \in 1 .. owed - given /\ (i - 1) + given = i + given - 1 /\ i + given # 1
        BY <1>1, <1>3, <2>1, <3>5
      <4>2. Owed'[i-1] = Owed[i + given - 1]
        BY <1>2, <4>1
      <4> QED
        BY <3>1, <3>2, <3>5, <4>1, <4>2
    <3> QED
      BY <1>1, <3>3, <3>4, <3>5
  <2>2. CASE ~(i <= owed - given)
    <3>1. made = 1 /\ i = Len(Owed') /\ i = owed - given + 1
      BY <1>1, <1>2, <1>3, <2>2
    <3>2. Owed'[i] = exec_word' /\ exec_stb'
      BY <1>1, <1>2, <3>1
    <3>3. PICK a : EndsAt(a) /\ exec_word'.a = a
      BY <1>9, <3>2
    <3>4. CASE owed = 0
      <4>1. given = 0 /\ i = 1 /\ told = a
        BY <1>1, <1>2, <1>3, <3>1, <3>3, <3>4 DEF EndsAt
      <4> QED
        BY <1>5, <3>2, <3>3, <4>1
    <3>5. CASE owed # 0
      <4>1. Tells(Owed[owed]) /\ After(Owed[owed]) = a
        BY <1>3, <3>3, <3>5 DEF EndsAt, owed
      <4>2. CASE owed = given
        <5>1. i = 1 /\ given = 1 /\ owed = 1
          BY <1>1, <1>3, <3>1, <3>5, <4>2
        <5> QED
          BY <1>5, <3>2, <3>3, <4>1, <5>1
      <4>3. CASE owed # given
        <5>1. i - 1 \in 1 .. owed - given /\ (i - 1) + given = owed /\ i # 1
          BY <1>1, <1>2, <1>3, <3>1, <4>3
        <5>2. Owed'[i-1] = Owed[owed]
          BY <1>2, <5>1
        <5> QED
          BY <3>2, <3>3, <4>1, <5>1, <5>2
      <4> QED
        BY <4>2, <4>3
    <3> QED
      BY <3>4, <3>5
  <2> QED
    BY <2>1, <2>2
<1> QED
  BY <1>7, <1>8, <1>9

\* After a reset only the word that says so is owed.
LEMMA ToldAfterAReset ==
  ASSUME Base, Base', Next, r_wdt_reset
  PROVE  Owed' = <<[kind |-> "reset"]>> /\ ToldOK'
<1>1. exec_stb' /\ exec_word' = [kind |-> "reset"]
  BY AnswerMoves
<1>2. ofifo' = << >>
  BY DEF Next, AnswerFifoClock
<1>3. Owed' = <<[kind |-> "reset"]>>
  BY <1>1, <1>2 DEF Owed
<1>4. OwedInOrder'
  <2>1. Len(Owed') = 1 /\ Owed'[1].kind # "data"
    BY <1>3
  <2> QED
    BY <2>1 DEF OwedInOrder
<1>5. wb_state' = "idle" /\ r_new_addr'
  BY MasterMoves DEF Next, Exec!ExecClock, Exec!NewAddrClock
<1> QED
  BY <1>3, <1>4, <1>5 DEF ToldOK, AskedInOrder

\* Every clock keeps the answers in order.
LEMMA ToldStep ==
  ASSUME Base, Base', Next, ToldOK
  PROVE  ToldOK'
<1>1. CASE r_wdt_reset
  BY <1>1, ToldAfterAReset
<1>2. CASE ~r_wdt_reset
  <2>1. AskedInOrder'
    BY <1>2, AskedMoves DEF ToldOK
  <2>2. ASSUME ~missed' PROVE OwedInOrder' /\ (wb_state' = "read" \/ ~r_new_addr' => EndsAt(Asked(1))')
    <3>1. ~missed /\ AnswerFits
      BY <1>2, <2>2 DEF Next, HostClock
    <3>2. /\ AskedInOrder /\ OwedInOrder
          /\ wb_state = "read" \/ ~r_new_addr => EndsAt(Asked(1))
      BY <3>1 DEF ToldOK
    <3>3. /\ \A a : EndsAt(a) /\ ~exec_stb' => EndsAt(a)'
          /\ \A a : exec_stb' /\ Tells(exec_word') /\ After(exec_word') = a => EndsAt(a)'
          /\ (\/ ~exec_stb' \/ exec_word'.kind # "data"
              \/ \E a : EndsAt(a) /\ exec_word'.a = a) => OwedInOrder'
      BY <1>2, <3>1, <3>2, OrderMoves
    <3>4. ASSUME NEW a, EndsAt(a)', Asked(1)' = a PROVE EndsAt(Asked(1))'
      BY <3>4 DEF EndsAt
    <3>5. CASE wb_state = "idle"
      <4>1. ~exec_stb' \/ exec_word' = [kind |-> "addr", a |-> o_wb_addr]
        BY <1>2, <3>5, AnswerMoves
      <4>2. OwedInOrder'
        BY <3>3, <4>1
      <4>3. CASE fifo_in_stb /\ fifo_in_word.op = "read"
        <5>1. Asked(1)' = Asked(1) /\ Asked(1) = o_wb_addr
          BY <1>2, <3>2, <3>5, <4>3, AskedMoves
        <5>2. CASE r_new_addr
          <6>1. exec_stb' /\ exec_word' = [kind |-> "addr", a |-> o_wb_addr]
            BY <1>2, <3>5, <4>3, <5>2, AnswerMoves
          <6>2. Tells(exec_word') /\ After(exec_word') = o_wb_addr
            BY <6>1 DEF Tells, After
          <6> QED
            BY <3>3, <3>4, <4>2, <5>1, <6>1, <6>2
        <5>3. CASE ~r_new_addr
          <6>1. ~exec_stb'
            BY <1>2, <3>5, <5>3, AnswerMoves
          <6> QED
            BY <3>2, <3>3, <3>4, <4>2, <5>1, <5>3, <6>1
        <5> QED
          BY <5>2, <5>3
      <4>4. CASE ~(fifo_in_stb /\ fifo_in_word.op = "read")
        <5>1. wb_state' = "idle" /\ ~exec_stb' /\ ~o_wb_cyc
          BY <1>2, <3>5, <4>4, MasterMoves, AnswerMoves
        <5>2. ~r_new_addr' => ~r_new_addr /\ ~(fifo_in_stb /\ fifo_in_word.op \in {"addr", "rel"})
          BY <5>1 DEF Next, Exec!ExecClock, Exec!NewAddrClock
        <5>3. ~r_new_addr' => Asked(1)' = Asked(1)
          BY <1>2, <3>2, <3>5, <5>2, AskedMoves
        <5> QED
          BY <3>2, <3>3, <3>4, <4>2, <5>1, <5>2, <5>3
      <4> QED
        BY <4>3, <4>4
    <3>6. CASE wb_state = "read"
      <4>1. EndsAt(Asked(1))
        BY <3>2, <3>6
      <4>2. CASE i_wb_ack
        <5>1. exec_stb' /\ exec_word' = [kind |-> "data", a |-> Head(atSlave).a, inc |-> r_inc]
          BY <1>2, <3>6, <4>2, AnswerMoves
        <5>2. Asked(1) = Head(atSlave).a /\ Asked(1)' = Onward(Asked(1), r_inc)
          BY <1>2, <3>2, <3>6, <4>2, AskedMoves
        <5>3. exec_word'.a = Asked(1) /\ Tells(exec_word') /\ After(exec_word') = Asked(1)'
          BY <5>1, <5>2 DEF Tells, After
        <5>4. OwedInOrder'
          BY <3>3, <4>1, <5>3
        <5> QED
          BY <3>3, <3>4, <5>1, <5>3, <5>4
      <4>3. CASE ~i_wb_ack
        <5>1. ~exec_stb'
          <6>1. ~fifo_in_stb
            BY <3>6, TakenCommand
          <6> QED
            BY <1>2, <4>3, <6>1, AnswerMoves
        <5>2. Asked(1)' = Asked(1)
          BY <1>2, <3>2, <3>6, <4>3, AskedMoves
        <5> QED
          BY <3>3, <3>4, <4>1, <5>1, <5>2
      <4> QED
        BY <4>2, <4>3
    <3> QED
      BY <3>5, <3>6 DEF Base, MasterOK, Watched
  <2> QED
    BY <2>1, <2>2 DEF ToldOK
<1> QED
  BY <1>1, <1>2

\* To a host that only reads, no word is given whose address the answers before it do
\* not tell, whatever the watchdog threw away (wbuexec.v:266-273; wbuconsole.v:135).
THEOREM AlwaysToldAfterReset == ASSUME NeverErr, ReadsOnly PROVE Spec => []ToldAfterReset
<1>1. Init => Base /\ ToldOK
  <2> SUFFICES ASSUME Init PROVE ToldOK
    BY BaseInit
  <2>1. Owed = << >> /\ Len(Owed) = 0 /\ wb_state = "idle" /\ r_new_addr
    BY DEF Init, Exec!ExecInit, Owed
  <2> QED
    BY <2>1 DEF ToldOK, AskedInOrder, OwedInOrder
<1>2. Base /\ ToldOK /\ [Next]_vars => (Base /\ ToldOK)'
  <2> SUFFICES ASSUME Base, ToldOK, [Next]_vars PROVE Base' /\ ToldOK'
    OBVIOUS
  <2>1. Base'
    BY BaseStep
  <2>2. CASE Next
    BY <2>1, <2>2, ToldStep
  <2>3. CASE UNCHANGED vars
    <3>1. /\ UNCHANGED <<ofifo, exec_stb, exec_word, told, missed>>
          /\ UNCHANGED <<wb_state, atSlave, o_wb_addr, r_inc, r_new_addr>>
      BY <2>3 DEF vars, fifos, host, Exec!exec, Exec!control
    <3>2. Owed' = Owed
      BY <3>1 DEF Owed
    <3>3. AskedInOrder' <=> AskedInOrder
      BY <3>1 DEF AskedInOrder, Asked, Onward
    <3>4. OwedInOrder' <=> OwedInOrder
      BY <3>1, <3>2 DEF OwedInOrder, Tells, After, Onward
    <3>5. EndsAt(Asked(1))' <=> EndsAt(Asked(1))
      BY <3>1, <3>2 DEF EndsAt, Asked, Tells, After, Onward
    <3> QED
      BY <2>1, <3>1, <3>3, <3>4, <3>5 DEF ToldOK
  <2> QED
    BY <2>1, <2>2, <2>3
<1>3. Base /\ ToldOK => ToldAfterReset
  <2> SUFFICES ASSUME Base, ToldOK, ofifo_rd, Answer.kind = "data", ~missed
               PROVE  Answer.a = told
    BY DEF ToldAfterReset
  <2>1. Answer = Owed[1] /\ 1 \in 1 .. Len(Owed)
    BY OwedType DEF OwedShape
  <2> QED
    BY <2>1 DEF ToldOK, OwedInOrder
<1> QED
  BY <1>1, <1>2, <1>3, PTL DEF Spec
-----------------------------------------------------------------------------
\* The words that the reads in a queue of commands ask for, as a running total from
\* its end.
Queued(q, n) ==
    \E total \in [1 .. Len(q) + 1 -> Nat] :
       /\ total[1] = n
       /\ \A i \in 1 .. Len(q) : total[i] = Words(q[i]) + total[i+1]
       /\ \A i, j \in 1 .. Len(q) : i <= j => Words(q[j]) <= total[i]

\* A read asks for at least one word, an address for none.
LEMMA WordsType ==
  ASSUME NEW cw \in ReadCommand
  PROVE  Words(cw) \in Nat /\ (Words(cw) = 0 <=> cw.op # "read")
<1>1. cw.op = "read" => cw.len \in Nat /\ cw.len > 0
  <2>1. cw.op = "read" => cw.len \in 1 .. MaxLen
    BY DEF ReadCommand, Exec!Command
  <2> QED
    BY <2>1, ConsoleAssumption
<1> QED
  BY <1>1 DEF Words

\* An empty queue asks for nothing.
LEMMA QueuedEmpty == Queued(<< >>, 0)
<1> DEFINE total == [i \in 1 .. 1 |-> 0]
<1>1. Len(<< >>) = 0
  OBVIOUS
<1>2. /\ total \in [1 .. Len(<< >>) + 1 -> Nat] /\ total[1] = 0
      /\ 1 .. Len(<< >>) = {}
  BY <1>1
<1> HIDE DEF total
<1> QED
  BY <1>2 DEF Queued

\* A queue that asks for nothing holds no read.
LEMMA QueuedNone ==
  ASSUME NEW q \in Seq(ReadCommand), Queued(q, 0), NEW j \in 1 .. Len(q)
  PROVE  q[j].op # "read"
<1>1. PICK total \in [1 .. Len(q) + 1 -> Nat] :
        /\ total[1] = 0
        /\ \A i, k \in 1 .. Len(q) : i <= k => Words(q[k]) <= total[i]
  BY DEF Queued
<1>2. q[j] \in ReadCommand
  BY ElementOfSeq
<1>3. Words(q[j]) <= 0
  <2>1. 1 \in 1 .. Len(q) /\ 1 <= j
    BY LenProperties
  <2> QED
    BY <1>1, <2>1
<1> QED
  BY <1>2, <1>3, WordsType

\* Without its first command it asks for as many fewer.
LEMMA QueuedTail ==
  ASSUME NEW q \in Seq(ReadCommand), q # << >>, NEW n \in Nat, Queued(q, n)
  PROVE  Words(Head(q)) <= n /\ Queued(Tail(q), n - Words(Head(q)))
<1> DEFINE held == Len(q)
<1>1. PICK total \in [1 .. held + 1 -> Nat] :
        /\ total[1] = n
        /\ \A i \in 1 .. held : total[i] = Words(q[i]) + total[i+1]
        /\ \A i, j \in 1 .. held : i <= j => Words(q[j]) <= total[i]
  BY DEF Queued
<1>2. /\ held \in Nat /\ held > 0 /\ Head(q) = q[1]
      /\ Len(Tail(q)) = held - 1
      /\ \A i \in 1 .. held - 1 : Tail(q)[i] = q[i+1]
  BY LenProperties, EmptySeq, HeadTailProperties
<1>3. Words(q[1]) \in Nat
  <2>1. 1 \in 1 .. Len(q)
    BY <1>2
  <2>2. q[1] \in ReadCommand
    BY <2>1, ElementOfSeq
  <2> QED
    BY <2>2, WordsType
<1> HIDE DEF held
<1>4. 1 \in 1 .. held /\ 2 \in 1 .. held + 1
  BY <1>2
<1>5. n = Words(q[1]) + total[1+1] /\ total[2] \in Nat
  BY <1>1, <1>4
<1>6. n - Words(q[1]) = total[2]
  BY <1>3, <1>5
<1> DEFINE left == [i \in 1 .. held |-> total[i+1]]
<1>7. left \in [1 .. (held - 1) + 1 -> Nat] /\ left[1] = total[2]
  <2>1. \A i \in 1 .. held : i + 1 \in 1 .. held + 1
    BY <1>2
  <2>2. 1 .. (held - 1) + 1 = 1 .. held
    BY <1>2
  <2>3. left \in [1 .. held -> Nat]
    BY <2>1
  <2>4. left[1] = total[2]
    BY <1>4
  <2> HIDE DEF left
  <2> QED
    BY <2>2, <2>3, <2>4
<1>8. \A i \in 1 .. held - 1 : left[i] = Words(Tail(q)[i]) + left[i+1]
  <2> SUFFICES ASSUME NEW i \in 1 .. held - 1
               PROVE  left[i] = Words(Tail(q)[i]) + left[i+1]
    OBVIOUS
  <2>1. i \in 1 .. held /\ i + 1 \in 1 .. held
    BY <1>2
  <2>2. left[i] = total[i+1] /\ left[i+1] = total[(i+1)+1]
    BY <2>1
  <2>3. total[i+1] = Words(q[i+1]) + total[(i+1)+1]
    BY <1>1, <2>1
  <2> QED
    BY <1>2, <2>2, <2>3
<1>9. \A i, j \in 1 .. held - 1 : i <= j => Words(Tail(q)[j]) <= left[i]
  <2> SUFFICES ASSUME NEW i \in 1 .. held - 1, NEW j \in 1 .. held - 1, i <= j
               PROVE  Words(Tail(q)[j]) <= left[i]
    OBVIOUS
  <2>1. i \in 1 .. held /\ i + 1 \in 1 .. held /\ j + 1 \in 1 .. held /\ i + 1 <= j + 1
    BY <1>2
  <2>2. left[i] = total[i+1] /\ Tail(q)[j] = q[j+1]
    BY <1>2, <2>1
  <2>3. Words(q[j+1]) <= total[i+1]
    BY <1>1, <2>1
  <2> QED
    BY <2>2, <2>3
<1> HIDE DEF left
<1>10. Queued(Tail(q), total[2])
  BY <1>2, <1>7, <1>8, <1>9 DEF Queued
<1>11. Words(q[1]) <= n
  BY <1>3, <1>5
<1> QED
  BY <1>2, <1>6, <1>10, <1>11

\* With a command more it asks for that one's words too.
LEMMA QueuedAppend ==
  ASSUME NEW q \in Seq(ReadCommand), NEW n \in Nat, Queued(q, n), NEW cw \in ReadCommand
  PROVE  Queued(q \o <<cw>>, n + Words(cw))
<1> DEFINE held == Len(q)
           w == Words(cw)
           all == q \o <<cw>>
<1>1. PICK total \in [1 .. held + 1 -> Nat] :
        /\ total[1] = n
        /\ \A i \in 1 .. held : total[i] = Words(q[i]) + total[i+1]
        /\ \A i, j \in 1 .. held : i <= j => Words(q[j]) <= total[i]
  BY DEF Queued
<1>2. /\ held \in Nat /\ Len(all) = held + 1 /\ all[held + 1] = cw
      /\ \A i \in 1 .. held : all[i] = q[i]
  BY LenProperties, ConcatProperties
<1>3. w \in Nat /\ \A i \in 1 .. held : Words(q[i]) \in Nat
  BY WordsType, ElementOfSeq
<1> HIDE DEF held, w, all
<1> DEFINE more == [i \in 1 .. held + 2 |->
                       IF i = held + 2 THEN total[held + 1] ELSE total[i] + w]
<1>4. \A i \in 1 .. held + 1 : more[i] = total[i] + w /\ total[i] \in Nat
  <2> SUFFICES ASSUME NEW i \in 1 .. held + 1
               PROVE  more[i] = total[i] + w /\ total[i] \in Nat
    OBVIOUS
  <2>1. i \in 1 .. held + 2 /\ i # held + 2
    BY <1>2
  <2> QED
    BY <2>1
<1>5. more[held + 2] = total[held + 1] /\ total[held + 1] \in Nat
  <2>1. held + 2 \in 1 .. held + 2 /\ held + 1 \in 1 .. held + 1
    BY <1>2
  <2> QED
    BY <2>1
<1>6. more \in [1 .. (held + 1) + 1 -> Nat]
  <2>1. 1 .. (held + 1) + 1 = 1 .. held + 2
    BY <1>2
  <2>2. \A i \in 1 .. held + 2 : more[i] \in Nat
    <3> SUFFICES ASSUME NEW i \in 1 .. held + 2 PROVE more[i] \in Nat
      OBVIOUS
    <3>1. i = held + 2 \/ i \in 1 .. held + 1
      BY <1>2
    <3> HIDE DEF more
    <3> QED
      BY <1>3, <1>4, <1>5, <3>1
  <2>3. DOMAIN more = 1 .. held + 2 /\ more = [i \in DOMAIN more |-> more[i]]
    OBVIOUS
  <2> HIDE DEF more
  <2> QED
    BY <2>1, <2>2, <2>3
<1> HIDE DEF more
<1>7. more[1] = n + w
  <2>1. 1 \in 1 .. held + 1
    BY <1>2
  <2> QED
    BY <1>1, <1>4, <2>1
<1>8. \A i \in 1 .. held + 1 : more[i] = Words(all[i]) + more[i+1]
  <2> SUFFICES ASSUME NEW i \in 1 .. held + 1 PROVE more[i] = Words(all[i]) + more[i+1]
    OBVIOUS
  <2>1. CASE i = held + 1
    <3>1. i + 1 = held + 2 /\ Words(all[i]) = w
      BY <1>2, <2>1 DEF w
    <3>2. more[i] = total[held + 1] + w /\ more[i+1] = total[held + 1]
      BY <1>4, <1>5, <2>1, <3>1
    <3> QED
      BY <1>3, <1>5, <3>1, <3>2
  <2>2. CASE i # held + 1
    <3>1. i \in 1 .. held /\ i + 1 \in 1 .. held + 1
      BY <1>2, <2>2
    <3>2. more[i] = total[i] + w /\ more[i+1] = total[i+1] + w
      BY <1>4, <3>1
    <3>3. total[i] = Words(q[i]) + total[i+1] /\ all[i] = q[i]
      BY <1>1, <1>2, <3>1
    <3>4. total[i+1] \in Nat /\ Words(q[i]) \in Nat
      BY <1>3, <1>4, <3>1
    <3> QED
      BY <1>3, <3>2, <3>3, <3>4
  <2> QED
    BY <2>1, <2>2
<1>9. \A i, j \in 1 .. held + 1 : i <= j => Words(all[j]) <= more[i]
  <2> SUFFICES ASSUME NEW i \in 1 .. held + 1, NEW j \in 1 .. held + 1, i <= j
               PROVE  Words(all[j]) <= more[i]
    OBVIOUS
  <2>0. more[i] = total[i] + w /\ total[i] \in Nat
    BY <1>4
  <2>1. CASE j = held + 1
    <3>1. Words(all[j]) = w
      BY <1>2, <2>1 DEF w
    <3> QED
      BY <1>3, <2>0, <3>1
  <2>2. CASE j # held + 1
    <3>1. i \in 1 .. held /\ j \in 1 .. held
      BY <1>2, <2>2
    <3>2. Words(q[j]) <= total[i] /\ all[j] = q[j] /\ Words(q[j]) \in Nat
      BY <1>1, <1>2, <1>3, <3>1
    <3> QED
      BY <1>3, <2>0, <3>2
  <2> QED
    BY <2>1, <2>2
<1>10. Queued(all, n + w)
  BY <1>2, <1>6, <1>7, <1>8, <1>9 DEF Queued
<1> QED
  BY <1>10 DEF all, w

\* What a clock makes of the command FIFO, place by place.
LEMMA CommandPlaces ==
  ASSUME Base, Next, ~r_wdt_reset,
         NEW gone \in {0, 1}, gone = IF fifo_in_stb THEN 1 ELSE 0
  PROVE  /\ Len(ififo) \in Nat /\ gone <= Len(ififo)
         /\ \A i \in 1 .. Len(ififo) - gone : ififo'[i] = ififo[i + gone]
         /\ \A i \in 1 .. Len(ififo') :
               i > Len(ififo) - gone => in_stb /\ ififo'[i] = in_word
<1> DEFINE left == IF fifo_in_stb THEN Tail(ififo) ELSE ififo
           more == IF in_stb /\ (Len(ififo) < IDepth \/ fifo_in_stb)
                   THEN <<in_word>> ELSE << >>
           held == Len(ififo)
<1>1. /\ held \in Nat /\ gone <= held
      /\ left \in Seq(ReadCommand) /\ Len(left) = held - gone
      /\ \A i \in 1 .. held - gone : left[i] = ififo[i + gone]
  <2>1. ififo \in Seq(ReadCommand) /\ (fifo_in_stb => ififo # << >>)
    BY TakenCommand DEF Base, QueuesOK
  <2> QED
    BY <2>1, HeadTailProperties, LenProperties, EmptySeq
<1>2. /\ more \in Seq(ReadCommand)
      /\ Len(more) = 0 \/ (in_stb /\ Len(more) = 1 /\ more[1] = in_word)
  <2>1. CASE in_stb /\ (Len(ififo) < IDepth \/ fifo_in_stb)
    BY <2>1 DEF Base, QueuesOK
  <2>2. CASE ~(in_stb /\ (Len(ififo) < IDepth \/ fifo_in_stb))
    BY <2>2
  <2> QED
    BY <2>1, <2>2
<1>3. ififo' = left \o more
  BY DEF Next, CommandFifoClock, Pushed
<1> HIDE DEF left, more, held
<1>4. /\ Len(left \o more) = Len(left) + Len(more)
      /\ \A i \in 1 .. Len(left) + Len(more) : (left \o more)[i] =
            IF i <= Len(left) THEN left[i] ELSE more[i - Len(left)]
  BY <1>1, <1>2, ConcatProperties
<1>5. \A i \in 1 .. held - gone : (left \o more)[i] = ififo[i + gone]
  BY <1>1, <1>2, <1>4
<1>6. Len(more) \in {0, 1} /\ (Len(more) = 1 => in_stb /\ more[1] = in_word)
  BY <1>2
<1>7. Len(left \o more) = held - gone + Len(more)
  BY <1>1, <1>4, <1>6
<1>8. \A i \in 1 .. Len(left \o more) : i > held - gone => in_stb /\ (left \o more)[i] = in_word
  <2> DEFINE kept == Len(left)
             added == Len(more)
  <2>a. kept = held - gone /\ kept \in Nat /\ added \in {0, 1}
    BY <1>1, <1>6
  <2>b. Len(left \o more) = kept + added
    BY <1>4
  <2> SUFFICES ASSUME NEW i \in 1 .. Len(left \o more), i > kept
               PROVE  in_stb /\ (left \o more)[i] = in_word
    BY <2>a, Zenon
  <2> HIDE DEF kept, added
  <2>1. added = 1 /\ i - kept = 1
    BY <2>a, <2>b
  <2> USE DEF kept, added
  <2>2. (left \o more)[i] = more[i - Len(left)]
    BY <1>1, <1>4, <2>1
  <2> QED
    BY <1>6, <2>1, <2>2
<1> QED
  BY <1>1, <1>3, <1>5, <1>8 DEF held
-----------------------------------------------------------------------------
\* Of what the host is owed, all are words but for an address before them.
AddressesOwed == IF Owed # << >> /\ Owed[1].kind = "addr" THEN 1 ELSE 0

WordsOwed == Len(Owed) - AddressesOwed

OwedWords ==
    /\ \A i \in 1 .. Len(Owed) : Owed[i].kind \in {"data", "addr"}
                                    /\ (Owed[i].kind = "addr" => i = 1)
    /\ Len(Owed) = 1 /\ AddressesOwed = 1 => ToCome > 0
    /\ r_new_addr /\ wb_state = "idle" => Owed = << >>

\* The bus is idle and nothing is owed.
Quiet == wb_state = "idle" /\ Owed = << >>

IsAddress(cw) == cw.op # "read"

\* A new address is on its way, or known, before the next read is sent.
AddressesFirst ==
    /\ \A i \in 1 .. Len(ififo) :
          IsAddress(ififo[i]) => Quiet /\ \A j \in 1 .. i : IsAddress(ififo[j])
    /\ in_stb /\ IsAddress(in_word) =>
          Quiet /\ \A j \in 1 .. Len(ififo) : IsAddress(ififo[j])

\* The words of the command the host has just sent.
Sent == IF in_stb THEN Words(in_word) ELSE 0

\* What the host may still be given is what it counts as unread.
WindowKept ==
    /\ due \in 0 .. Window
    /\ \E n \in Nat : Queued(ififo, n) /\ WordsOwed + ToCome + n + Sent <= due

Fits == OwedWords /\ AddressesFirst /\ WindowKept

\* Every answer then finds room.
LEMMA FitsShows ==
  ASSUME Base, Fits
  PROVE  /\ AnswerFits
         /\ WordsOwed \in Nat /\ AddressesOwed \in {0, 1} /\ ToCome \in Nat /\ Sent \in Nat
<1>1. /\ Len(Owed) \in Nat /\ Len(ofifo) \in Nat
      /\ exec_stb => Len(ofifo) = Len(Owed) - 1
      /\ Owed = << >> <=> Len(Owed) = 0
  BY OwedType, EmptySeq DEF OwedShape
<1>2. AddressesOwed \in {0, 1} /\ AddressesOwed <= Len(Owed)
  BY <1>1 DEF AddressesOwed
<1>3. WordsOwed \in Nat /\ Len(Owed) = WordsOwed + AddressesOwed
  BY <1>1, <1>2 DEF WordsOwed
<1>4. ToCome \in Nat
  BY DEF ToCome, Base, CountsOK
<1>5. Sent \in Nat
  BY WordsType DEF Sent, Base, QueuesOK
<1>6. PICK n \in Nat : WordsOwed + ToCome + n + Sent <= due
  BY DEF Fits, WindowKept
<1>7. due <= Window /\ Window < ODepth /\ due \in Nat /\ Window \in Nat /\ ODepth \in Nat
  BY ConsoleAssumption DEF Fits, WindowKept
<1>8. Len(Owed) <= Window + 1
  <2> HIDE DEF WordsOwed, AddressesOwed, ToCome, Sent
  <2> QED
    BY <1>2, <1>3, <1>4, <1>5, <1>6, <1>7
<1>9. AnswerFits
  BY <1>1, <1>7, <1>8 DEF AnswerFits
<1> QED
  BY <1>2, <1>3, <1>4, <1>5, <1>9

\* With nothing unread, only addresses can be on their way.
LEMMA NothingDue ==
  ASSUME Base, Fits, due = 0
  PROVE  /\ Quiet /\ \A j \in 1 .. Len(ififo) : IsAddress(ififo[j])
         /\ in_stb => IsAddress(in_word)
<1>1. PICK n \in Nat : Queued(ififo, n) /\ WordsOwed + ToCome + n + Sent <= 0
  BY DEF Fits, WindowKept
<1>2. WordsOwed = 0 /\ ToCome = 0 /\ n = 0 /\ Sent = 0
  BY <1>1, FitsShows
<1>3. wb_state = "idle"
  BY <1>2, ConsoleAssumption DEF ToCome, Base, CountsOK, MasterOK, Watched
<1>4. Owed = << >>
  <2>1. Len(Owed) \in Nat /\ (Owed = << >> <=> Len(Owed) = 0)
    BY OwedType, EmptySeq DEF OwedShape
  <2>2. AddressesOwed \in {0, 1} /\ Len(Owed) = AddressesOwed
    BY <1>2, <2>1, FitsShows DEF WordsOwed
  <2>3. ~(Len(Owed) = 1 /\ AddressesOwed = 1)
    BY <1>2 DEF Fits, OwedWords
  <2> QED
    BY <2>1, <2>2, <2>3
<1>5. \A j \in 1 .. Len(ififo) : IsAddress(ififo[j])
  BY <1>1, <1>2, QueuedNone DEF IsAddress, Base, QueuesOK
<1>6. in_stb => IsAddress(in_word)
  BY <1>2, WordsType DEF Sent, IsAddress, Base, QueuesOK
<1> QED
  BY <1>3, <1>4, <1>5, <1>6 DEF Quiet

\* A clock pays the host at most one word, and owes it the one that was read.
LEMMA OwedWordsStep ==
  ASSUME Base, Base', Next, ~r_wdt_reset, OwedWords, AnswerFits,
         fifo_in_stb /\ IsAddress(fifo_in_word) => Quiet,
         NEW got \in {0, 1}, got = IF wb_state = "read" /\ i_wb_ack THEN 1 ELSE 0,
         NEW paid \in {0, 1},
         paid = IF ofifo_rd /\ Answer.kind = "data" THEN 1 ELSE 0
  PROVE  /\ OwedWords' /\ (Quiet /\ ~(fifo_in_stb /\ fifo_in_word.op = "read") => Quiet')
         /\ WordsOwed' = WordsOwed + got - paid
         /\ paid <= WordsOwed
<1>1. PICK given \in {0, 1}, made \in {0, 1} :
        given = (IF ofifo_rd THEN 1 ELSE 0) /\ made = (IF exec_stb' THEN 1 ELSE 0)
  OBVIOUS
<1> DEFINE owed == Len(Owed)
           owedAfter == Len(Owed')
<1>2. /\ given <= owed
      /\ owedAfter = owed + made - given
      /\ \A i \in 1 .. owed - given : Owed'[i] = Owed[i + given]
      /\ made = 1 => Owed'[owedAfter] = exec_word'
  BY <1>1, OwedMoves
<1>3. owed \in Nat /\ (Owed = << >> <=> owed = 0)
  BY OwedType, EmptySeq DEF OwedShape
<1>4. owedAfter \in Nat /\ (Owed' = << >> <=> owedAfter = 0)
  <2>1. OwedShape'
    BY OwedType, PTL
  <2> QED
    BY <2>1, EmptySeq DEF OwedShape
<1>5. /\ given = 1 => (paid = 1 <=> Owed[1].kind = "data")
      /\ given = 0 => paid = 0
  <2>1. ofifo_rd => Answer = Owed[1]
    BY OwedType DEF OwedShape
  <2> QED
    BY <1>1, <2>1
<1>6. \/ made = got /\ (made = 1 => exec_word'.kind = "data")
      \/ /\ made = 1 /\ got = 0 /\ exec_word'.kind = "addr" /\ owed = 0
         /\ wb_state' = "read"
  <2>1. CASE wb_state = "read"
    <3>1. ~fifo_in_stb
      BY <2>1, TakenCommand
    <3> QED
      BY <1>1, <2>1, <3>1, AnswerMoves
  <2>2. CASE wb_state = "idle"
    <3>1. r_new_addr => owed = 0
      BY <1>3, <2>2 DEF OwedWords
    <3>2. /\ exec_stb' <=> fifo_in_stb /\ fifo_in_word.op = "read" /\ r_new_addr
          /\ exec_word' = [kind |-> "addr", a |-> o_wb_addr]
      BY <2>2, AnswerMoves
    <3>3. fifo_in_stb /\ fifo_in_word.op = "read" => wb_state' = "read"
      BY <2>2, MasterMoves
    <3> QED
      BY <1>1, <2>2, <3>1, <3>2, <3>3
  <2> QED
    BY <2>1, <2>2 DEF Base, MasterOK, Watched
<1>7. /\ AddressesOwed \in {0, 1}
      /\ AddressesOwed = 1 <=> owed > 0 /\ Owed[1].kind = "addr"
  BY <1>3 DEF AddressesOwed
<1>8. /\ AddressesOwed' \in {0, 1}
      /\ AddressesOwed' = 1 <=> owedAfter > 0 /\ Owed'[1].kind = "addr"
  BY <1>4 DEF AddressesOwed
<1>9. \A i \in 1 .. owed : Owed[i].kind \in {"data", "addr"} /\ (Owed[i].kind = "addr" => i = 1)
  BY DEF OwedWords
<1>10. /\ ToCome \in Nat
       /\ ToCome' = ToCome + (IF fifo_in_stb THEN Words(fifo_in_word) ELSE 0) - got
       /\ wb_state' = "read" => ToCome' > 0
       /\ fifo_in_stb => Words(fifo_in_word) \in Nat
  <2>1. ToCome' \in Nat /\ (wb_state' = "read" => ToCome' > 0)
    BY ConsoleAssumption DEF Base, CountsOK, ToCome
  <2> QED
    BY <2>1, CountsStep, TakenCommand, WordsType
<1>11. owed = 0 /\ made = 0 => owedAfter = 0 /\ given = 0
  BY <1>1, <1>2, <1>3
<1>12. Quiet /\ ~(fifo_in_stb /\ fifo_in_word.op = "read") => Quiet'
  <2> SUFFICES ASSUME Quiet, ~(fifo_in_stb /\ fifo_in_word.op = "read") PROVE Quiet'
    OBVIOUS
  <2>1. wb_state' = "idle" /\ ~exec_stb'
    BY MasterMoves, AnswerMoves DEF Quiet
  <2>2. owedAfter = 0
    BY <1>1, <1>3, <1>11, <2>1 DEF Quiet
  <2> QED
    BY <1>4, <2>1, <2>2 DEF Quiet
<1>13. r_new_addr' /\ wb_state' = "idle" => Owed' = << >>
  <2> SUFFICES ASSUME r_new_addr', wb_state' = "idle" PROVE Owed' = << >>
    OBVIOUS
  <2>1. wb_state = "idle" /\ ~o_wb_cyc
    BY MasterMoves DEF Next, Exec!ExecClock, Exec!NewAddrClock, Base, MasterOK, Watched
  <2>2. ~(fifo_in_stb /\ fifo_in_word.op = "read")
    BY <2>1, MasterMoves
  <2>3. (fifo_in_stb /\ IsAddress(fifo_in_word)) \/ r_new_addr
    BY <2>1 DEF Next, Exec!ExecClock, Exec!NewAddrClock, IsAddress
  <2>4. Quiet
    BY <2>1, <2>3 DEF OwedWords, Quiet
  <2> QED
    BY <1>12, <2>2, <2>4 DEF Quiet
<1>14. WordsOwed = owed - AddressesOwed /\ WordsOwed' = owedAfter - AddressesOwed'
  BY DEF WordsOwed
<1> HIDE DEF owed, owedAfter
<1>15. CASE owed = 0 /\ made = 1 /\ exec_word'.kind = "addr"
  <2>1. given = 0 /\ paid = 0 /\ owedAfter = 1 /\ Owed'[1].kind = "addr" /\ got = 0
    BY <1>1, <1>2, <1>3, <1>5, <1>6, <1>15
  <2>2. wb_state' = "read"
    BY <1>6, <1>15, <2>1
  <2>3. AddressesOwed = 0 /\ AddressesOwed' = 1
    BY <1>7, <1>8, <1>15, <2>1
  <2>4. OwedWords'
    <3>1. \A i \in 1 .. owedAfter : i = 1
      BY <2>1
    <3> QED
      BY <1>10, <1>13, <2>1, <2>2, <3>1 DEF OwedWords, owedAfter
  <2>5. WordsOwed' = 0 /\ WordsOwed = 0
    BY <1>15, <2>1, <2>3 DEF WordsOwed, owed, owedAfter
  <2> QED
    BY <1>12, <2>1, <2>4, <2>5
<1>16. CASE made = got /\ (made = 1 => exec_word'.kind = "data")
  <2>1. \A i \in 1 .. owedAfter : /\ Owed'[i].kind \in {"data", "addr"}
                                  /\ Owed'[i].kind = "addr" => i = 1 /\ given = 0 /\ i <= owed
    <3> SUFFICES ASSUME NEW i \in 1 .. owedAfter
                 PROVE  /\ Owed'[i].kind \in {"data", "addr"}
                        /\ Owed'[i].kind = "addr" => i = 1 /\ given = 0 /\ i <= owed
      OBVIOUS
    <3>1. CASE i <= owed - given
      <4>1. Owed'[i] = Owed[i + given] /\ i + given \in 1 .. owed
        BY <1>1, <1>2, <1>3, <3>1
      <4>2. i + given = 1 => i = 1 /\ given = 0 /\ i <= owed
        BY <1>1, <1>3, <4>1
      <4> QED
        BY <1>9, <4>1, <4>2
    <3>2. CASE ~(i <= owed - given)
      <4>1. i = owedAfter /\ made = 1
        BY <1>1, <1>2, <1>3, <3>2
      <4> QED
        BY <1>2, <1>16, <4>1
    <3> QED
      BY <3>1, <3>2
  <2>2. CASE given = 1
    <3>1. AddressesOwed' = 0
      <4>1. owedAfter > 0 => 1 \in 1 .. owedAfter
        BY <1>4 DEF owedAfter
      <4> QED
        BY <1>8, <2>1, <2>2, <4>1
    <3>2. owed > 0 /\ Owed[1].kind \in {"data", "addr"}
      <4>1. owed > 0
        BY <1>2, <1>3, <2>2
      <4>2. 1 \in 1 .. owed
        BY <1>3, <4>1
      <4> QED
        BY <1>9, <4>1, <4>2
    <3>3. AddressesOwed = 1 - paid
      BY <1>5, <1>7, <2>2, <3>2
    <3>4. OwedWords'
      BY <1>13, <2>1, <3>1 DEF OwedWords, owedAfter
    <3>5. WordsOwed' = owed + made - 1 /\ WordsOwed = owed - (1 - paid)
      BY <1>2, <1>3, <1>4, <1>14, <2>2, <3>1, <3>3
    <3>6. WordsOwed' = WordsOwed + got - paid /\ paid <= WordsOwed
      BY <1>1, <1>3, <1>16, <3>2, <3>5
    <3> QED
      BY <1>12, <3>4, <3>6
  <2>3. CASE given = 0
    <3>1. paid = 0 /\ owedAfter = owed + got
      BY <1>1, <1>2, <1>3, <1>5, <1>16, <2>3
    <3>2. AddressesOwed' = AddressesOwed
      <4>1. CASE owed > 0
        <5>1. 1 \in 1 .. owed - given /\ 1 + given = 1
          BY <1>3, <2>3, <4>1
        <5>2. Owed'[1] = Owed[1] /\ owedAfter > 0
          BY <1>2, <1>3, <3>1, <4>1, <5>1
        <5> QED
          BY <1>7, <1>8, <4>1, <5>2
      <4>2. CASE owed = 0
        <5>1. owedAfter > 0 => 1 \in 1 .. owedAfter
          BY <1>4 DEF owedAfter
        <5>2. ~(1 <= owed)
          BY <4>2
        <5>3. AddressesOwed' # 1
          BY <1>8, <2>1, <5>1, <5>2
        <5> QED
          BY <1>7, <1>8, <4>2, <5>3
      <4> QED
        BY <1>3, <4>1, <4>2
    <3>3. owedAfter = 1 /\ AddressesOwed' = 1 => ToCome' > 0
      <4> SUFFICES ASSUME owedAfter = 1, AddressesOwed' = 1 PROVE ToCome' > 0
        OBVIOUS
      <4>1. owed = 1 /\ got = 0
        BY <1>3, <1>7, <3>1, <3>2
      <4>2. ToCome > 0
        BY <3>2, <4>1 DEF OwedWords, owed
      <4> HIDE DEF ToCome, Words
      <4> QED
        BY <1>10, <4>1, <4>2
    <3>4. OwedWords'
      BY <1>13, <2>1, <3>3 DEF OwedWords, owedAfter
    <3>5. WordsOwed' = owed + got - AddressesOwed /\ WordsOwed = owed - AddressesOwed
      <4>1. PICK n \in {0, 1} : n = AddressesOwed'
        BY <1>8
      <4>2. WordsOwed' = owedAfter - n /\ n = AddressesOwed /\ WordsOwed = owed - AddressesOwed
        BY <1>14, <3>2, <4>1
      <4> QED
        BY <1>3, <3>1, <4>2
    <3>6. AddressesOwed <= owed
      BY <1>3, <1>7
    <3>7. WordsOwed' = WordsOwed + got - paid /\ paid <= WordsOwed
      BY <1>3, <1>7, <3>1, <3>5, <3>6
    <3> QED
      BY <1>12, <3>4, <3>7
  <2> QED
    BY <2>2, <2>3
<1> QED
  BY <1>6, <1>15, <1>16

\* A new address is only taken with the bus idle and nothing owed.
LEMMA TakesAddress ==
  ASSUME Base, Fits, fifo_in_stb
  PROVE  /\ 1 \in 1 .. Len(ififo) /\ ififo[1] = fifo_in_word
         /\ IsAddress(fifo_in_word) => Quiet
<1>1. 1 \in 1 .. Len(ififo) /\ ififo[1] = fifo_in_word
  <2>1. ififo # << >> /\ fifo_in_word = Head(ififo) /\ ififo \in Seq(ReadCommand)
    BY TakenCommand DEF Base, QueuesOK
  <2> QED
    BY <2>1, LenProperties, EmptySeq
<1> QED
  BY <1>1 DEF Fits, AddressesFirst

\* Addresses stay ahead of the reads that need them.
LEMMA AddressesStep ==
  ASSUME Base, Base', Next, ~r_wdt_reset, Fits,
         Quiet /\ ~(fifo_in_stb /\ fifo_in_word.op = "read") => Quiet'
  PROVE  AddressesFirst'
<1>1. PICK gone \in {0, 1} : gone = IF fifo_in_stb THEN 1 ELSE 0
  OBVIOUS
<1> DEFINE held == Len(ififo)
<1>2. /\ held \in Nat /\ gone <= held
      /\ \A i \in 1 .. held - gone : ififo'[i] = ififo[i + gone]
      /\ \A i \in 1 .. Len(ififo') : i > held - gone => in_stb /\ ififo'[i] = in_word
  BY <1>1, CommandPlaces
<1>3. fifo_in_stb => 1 <= held /\ ififo[1] = fifo_in_word
  BY <1>2, TakesAddress
<1> HIDE DEF held
<1>4. ASSUME NEW i \in 1 .. Len(ififo'), IsAddress(ififo'[i])
      PROVE  Quiet' /\ \A j \in 1 .. i : IsAddress(ififo'[j])
  <2>1. CASE i <= held - gone
    <3>1. i + gone \in 1 .. held /\ ififo'[i] = ififo[i + gone]
      BY <1>1, <1>2, <2>1
    <3>2. Quiet /\ \A j \in 1 .. i + gone : IsAddress(ififo[j])
      BY <1>4, <3>1 DEF Fits, AddressesFirst, held
    <3>3. Quiet'
      <4>1. ASSUME fifo_in_stb PROVE IsAddress(fifo_in_word)
        <5>1. 1 \in 1 .. i + gone
          BY <1>1, <3>1
        <5> QED
          BY <1>3, <3>2, <4>1, <5>1
      <4> QED
        BY <3>2, <4>1 DEF IsAddress
    <3>4. ASSUME NEW j \in 1 .. i PROVE IsAddress(ififo'[j])
      <4>1. j \in 1 .. held - gone /\ j + gone \in 1 .. i + gone
        BY <1>1, <1>2, <2>1
      <4> QED
        BY <1>2, <3>2, <4>1
    <3> QED
      BY <3>3, <3>4
  <2>2. CASE ~(i <= held - gone)
    <3>1. in_stb /\ ififo'[i] = in_word
      <4>1. i > held - gone
        BY <1>1, <1>2, <2>2
      <4> QED
        BY <1>2, <4>1
    <3>2. Quiet /\ \A j \in 1 .. held : IsAddress(ififo[j])
      BY <1>4, <3>1 DEF Fits, AddressesFirst, held
    <3>3. Quiet'
      <4>1. ASSUME fifo_in_stb PROVE IsAddress(fifo_in_word)
        <5>1. 1 \in 1 .. held
          BY <1>2, <1>3, <4>1
        <5> QED
          BY <1>3, <3>2, <4>1, <5>1
      <4> QED
        BY <3>2, <4>1 DEF IsAddress
    <3>4. ASSUME NEW j \in 1 .. i PROVE IsAddress(ififo'[j])
      <4>1. CASE j <= held - gone
        <5>1. j \in 1 .. held - gone /\ j + gone \in 1 .. held
          BY <1>1, <1>2, <4>1
        <5> QED
          BY <1>2, <3>2, <5>1
      <4>2. CASE ~(j <= held - gone)
        <5>1. j \in 1 .. Len(ififo') /\ j > held - gone
          <6>1. OwedShape' /\ Len(ififo') \in Nat
            <7>1. OwedShape'
              BY OwedType, PTL
            <7>2. ififo' \in Seq(ReadCommand)
              BY DEF Base, QueuesOK
            <7> QED
              BY <7>1, <7>2, LenProperties
          <6> QED
            BY <1>1, <1>2, <4>2, <6>1
        <5> QED
          BY <1>2, <1>4, <3>1, <5>1
      <4> QED
        BY <4>1, <4>2
    <3> QED
      BY <3>3, <3>4
  <2> QED
    BY <2>1, <2>2
<1>5. ASSUME in_stb', IsAddress(in_word')
      PROVE  Quiet' /\ \A j \in 1 .. Len(ififo') : IsAddress(ififo'[j])
  <2>1. due = 0
    <3>1. in_word' \in ReadCommand
      BY <1>5 DEF Base, QueuesOK
    <3>2. MaySend(in_word')
      BY <1>5 DEF Next, HostClock
    <3> QED
      BY <1>5, <3>1, <3>2 DEF MaySend, ReadCommand, IsAddress
  <2>2. /\ Quiet /\ \A j \in 1 .. held : IsAddress(ififo[j])
        /\ in_stb => IsAddress(in_word)
    BY <2>1, NothingDue DEF held
  <2>3. Quiet'
    <3>1. ASSUME fifo_in_stb PROVE IsAddress(fifo_in_word)
      <4>1. 1 \in 1 .. held
        BY <1>2, <1>3, <3>1
      <4> QED
        BY <1>3, <2>2, <3>1, <4>1
    <3> QED
      BY <2>2, <3>1 DEF IsAddress
  <2>4. ASSUME NEW j \in 1 .. Len(ififo') PROVE IsAddress(ififo'[j])
    <3>1. CASE j <= held - gone
      <4>1. j \in 1 .. held - gone /\ j + gone \in 1 .. held
        BY <1>1, <1>2, <3>1
      <4> QED
        BY <1>2, <2>2, <4>1
    <3>2. CASE ~(j <= held - gone)
      <4>1. j > held - gone
        BY <1>1, <1>2, <3>2
      <4> QED
        BY <1>2, <2>2, <4>1
    <3> QED
      BY <3>1, <3>2
  <2> QED
    BY <2>3, <2>4
<1> QED
  BY <1>4, <1>5 DEF AddressesFirst, IsAddress

\* What the command FIFO asks for after a clock: less what was taken from it, and
\* at most what has come.
LEMMA QueuedStep ==
  ASSUME Base, Next, ~r_wdt_reset, NEW n \in Nat, Queued(ififo, n),
         NEW popped, popped = IF fifo_in_stb THEN Words(fifo_in_word) ELSE 0
  PROVE  /\ popped \in Nat /\ popped <= n
         /\ \E pushed \in Nat : pushed <= Sent /\ Queued(ififo', (n - popped) + pushed)
<1> DEFINE left == IF fifo_in_stb THEN Tail(ififo) ELSE ififo
           put == in_stb /\ (Len(ififo) < IDepth \/ fifo_in_stb)
<1>1. ififo \in Seq(ReadCommand) /\ (in_stb => in_word \in ReadCommand)
  BY DEF Base, QueuesOK
<1>2. left \in Seq(ReadCommand) /\ popped \in Nat /\ popped <= n /\ Queued(left, n - popped)
  <2>1. CASE fifo_in_stb
    <3>1. ififo # << >> /\ fifo_in_word = Head(ififo) /\ fifo_in_word \in ReadCommand
      BY <2>1, TakenCommand
    <3> QED
      BY <1>1, <2>1, <3>1, QueuedTail, WordsType, HeadTailProperties
  <2>2. CASE ~fifo_in_stb
    <3>1. popped = 0 /\ n - popped = n
      BY <2>2
    <3> QED
      BY <1>1, <2>2, <3>1
  <2> QED
    BY <2>1, <2>2
<1>3. ififo' = left \o (IF put THEN <<in_word>> ELSE << >>)
  BY DEF Next, CommandFifoClock, Pushed
<1> HIDE DEF left
<1>4. CASE put
  <2>1. ififo' = left \o <<in_word>> /\ in_word \in ReadCommand /\ Sent = Words(in_word)
    BY <1>1, <1>3, <1>4 DEF Sent
  <2>2. n - popped \in Nat /\ Words(in_word) \in Nat
    BY <1>2, <2>1, WordsType
  <2>3. Queued(ififo', (n - popped) + Words(in_word))
    BY <1>2, <2>1, <2>2, QueuedAppend
  <2>4. Words(in_word) <= Sent
    BY <2>1, <2>2
  <2> QED
    BY <1>2, <2>2, <2>3, <2>4
<1>5. CASE ~put
  <2>1. ififo' = left
    BY <1>2, <1>3, <1>5
  <2>2. Sent \in Nat
    BY <1>1, WordsType DEF Sent
  <2>3. (n - popped) + 0 = n - popped
    BY <1>2
  <2> QED
    BY <1>2, <2>1, <2>2, <2>3
<1> QED
  BY <1>4, <1>5

\* The host's count of what is unread covers what may still be given to it.
LEMMA WindowStep ==
  ASSUME Base, Base', Next, ~r_wdt_reset, Fits,
         NEW got \in {0, 1}, NEW paid \in {0, 1},
         got = IF wb_state = "read" /\ i_wb_ack THEN 1 ELSE 0,
         paid = IF ofifo_rd /\ Answer.kind = "data" THEN 1 ELSE 0,
         WordsOwed' = WordsOwed + got - paid, paid <= WordsOwed
  PROVE  WindowKept'
<1>1. PICK n \in Nat : Queued(ififo, n) /\ WordsOwed + ToCome + n + Sent <= due
  BY DEF Fits, WindowKept
<1>2. PICK popped : popped = IF fifo_in_stb THEN Words(fifo_in_word) ELSE 0
  OBVIOUS
<1>3. /\ popped \in Nat /\ popped <= n
      /\ \E pushed \in Nat : pushed <= Sent /\ Queued(ififo', (n - popped) + pushed)
  BY <1>1, <1>2, QueuedStep
<1>4. PICK pushed \in Nat : pushed <= Sent /\ Queued(ififo', (n - popped) + pushed)
  BY <1>3
<1>5. PICK owed \in Nat, toCome \in Nat, sent \in Nat :
        owed = WordsOwed /\ toCome = ToCome /\ sent = Sent
  BY FitsShows
<1>6. due \in Nat /\ due <= Window /\ Window \in Nat /\ owed + toCome + n + sent <= due
  BY <1>1, <1>5, ConsoleAssumption DEF Fits, WindowKept
<1>7. \A m \in Int : m = toCome + popped - got => ToCome' = m
  <2>1. ToCome' = ToCome + (IF fifo_in_stb THEN Words(fifo_in_word) ELSE 0)
               - (IF wb_state = "read" /\ i_wb_ack THEN 1 ELSE 0)
    BY CountsStep
  <2>2. ToCome' = toCome + popped - got
    BY <1>2, <1>5, <2>1
  <2> QED
    BY <2>2
<1>8. Unread = due - paid
  <2>1. CASE ofifo_rd
    <3>1. Answer = Owed[1] /\ 1 \in 1 .. Len(Owed)
      BY <2>1, OwedType DEF OwedShape
    <3>2. Answer.kind \in {"data", "addr"}
      BY <3>1 DEF Fits, OwedWords
    <3>3. CASE Answer.kind = "data"
      <4>1. paid = 1
        BY <2>1, <3>3
      <4>2. due > 0
        BY <1>5, <1>6, <4>1
      <4> QED
        BY <2>1, <3>3, <4>1, <4>2 DEF Unread
    <3>4. CASE Answer.kind = "addr"
      <4>1. paid = 0 /\ Unread = due
        BY <2>1, <3>4 DEF Unread
      <4> QED
        BY <1>6, <4>1
    <3> QED
      BY <3>2, <3>3, <3>4
  <2>2. CASE ~ofifo_rd
    <3>1. paid = 0 /\ Unread = due
      BY <2>2 DEF Unread
    <3> QED
      BY <1>6, <3>1
  <2> QED
    BY <2>1, <2>2
<1>9. paid <= due
  BY <1>5, <1>6
<1>10. PICK more \in Nat : more = Sent' /\ due' = (due - paid) + more /\ due + more <= Window
  <2>1. CASE in_stb' = FALSE /\ due' = Unread
    <3>1. Sent' = 0
      BY <2>1 DEF Sent
    <3>2. due' = (due - paid) + 0 /\ due + 0 <= Window
      BY <1>6, <1>8, <2>1
    <3> QED
      BY <3>1, <3>2
  <2>2. CASE in_stb' /\ MaySend(in_word') /\ due' = Unread + Words(in_word')
    <3>1. in_word' \in ReadCommand
      BY <2>2 DEF Base, QueuesOK
    <3>2. Words(in_word') \in Nat /\ Sent' = Words(in_word')
      BY <2>2, <3>1, WordsType DEF Sent, Words
    <3>3. due + Words(in_word') <= Window
      <4>1. CASE in_word'.op = "read"
        BY <2>2, <4>1 DEF MaySend, Words
      <4>2. CASE in_word'.op # "read"
        BY <1>6, <4>2 DEF Words
      <4> QED
        BY <4>1, <4>2
    <3> QED
      BY <1>8, <2>2, <3>2, <3>3
  <2> QED
    BY <2>1, <2>2 DEF Next, HostClock
<1>11. due' \in 0 .. Window
  <2>1. \A m, p \in Nat : p <= 1 /\ p <= due /\ due + m <= Window => (due - p) + m \in 0 .. Window
    BY <1>6
  <2> QED
    BY <1>9, <1>10, <2>1
<1>12. \E m \in Nat : Queued(ififo', m) /\ WordsOwed' + ToCome' + m + Sent' <= due'
  <2> DEFINE left == (n - popped) + pushed
             coming == toCome + popped - got
  <2>1. left \in Nat /\ coming \in Int
    BY <1>3
  <2>2. ToCome' = coming
    BY <1>7, <2>1
  <2>3. WordsOwed' = owed + got - paid
    BY <1>5
  <2>4. (owed + got - paid) + coming + left + more <= (due - paid) + more
    BY <1>3, <1>4, <1>5, <1>6
  <2>5. WordsOwed' + ToCome' + left + Sent' <= due'
    BY <1>10, <2>2, <2>3, <2>4
  <2> QED
    BY <1>4, <2>1, <2>5
<1> QED
  BY <1>11, <1>12 DEF WindowKept, Queued, Words

\* As long as the watchdog has not fired, a clock keeps it all so.
LEMMA FitsStep ==
  ASSUME Base, Base', Next, ~r_wdt_reset, Fits
  PROVE  Fits'
<1>1. PICK got \in {0, 1}, paid \in {0, 1} :
        /\ got = IF wb_state = "read" /\ i_wb_ack THEN 1 ELSE 0
        /\ paid = IF ofifo_rd /\ Answer.kind = "data" THEN 1 ELSE 0
  OBVIOUS
<1>2. /\ OwedWords' /\ (Quiet /\ ~(fifo_in_stb /\ fifo_in_word.op = "read") => Quiet')
      /\ WordsOwed' = WordsOwed + got - paid
      /\ paid <= WordsOwed
  <2>1. OwedWords /\ AnswerFits /\ (fifo_in_stb /\ IsAddress(fifo_in_word) => Quiet)
    BY FitsShows, TakesAddress DEF Fits
  <2> QED
    BY <1>1, <2>1, OwedWordsStep
<1>3. AddressesFirst'
  BY <1>2, AddressesStep
<1>4. WindowKept'
  BY <1>1, <1>2, WindowStep
<1> QED
  BY <1>2, <1>3, <1>4 DEF Fits

\* Before the watchdog first fires, every word a host that only reads has asked for
\* finds room in the answer FIFO, whatever the slave and the serial port do
\* (ttybus.cpp:514 and :531-535; wbuconsole.v:69).
THEOREM AnswersAlwaysFit == ASSUME NeverErr, ReadsOnly PROVE Spec => []AnswersFit
<1> DEFINE Inv == Base /\ (~everReset => Fits)
<1>1. Init => Inv
  <2> SUFFICES ASSUME Init PROVE Base /\ Fits
    OBVIOUS
  <2>1. Owed = << >> /\ Len(Owed) = 0 /\ wb_state = "idle" /\ ififo = << >> /\ ~in_stb /\ due = 0
    BY DEF Init, Exec!ExecInit, Owed
  <2>2. OwedWords
    BY <2>1 DEF OwedWords
  <2>3. Len(ififo) = 0
    BY <2>1
  <2>4. AddressesFirst
    BY <2>1, <2>3 DEF AddressesFirst
  <2>5. WordsOwed = 0 /\ ToCome = 0 /\ Sent = 0
    BY <2>1 DEF WordsOwed, AddressesOwed, ToCome, Sent
  <2>6. WindowKept
    BY <2>1, <2>5, QueuedEmpty, ConsoleAssumption DEF WindowKept
  <2> QED
    BY <2>2, <2>4, <2>6, BaseInit DEF Fits
<1>2. Inv /\ [Next]_vars => Inv'
  <2> SUFFICES ASSUME Base, ~everReset => Fits, [Next]_vars
               PROVE  Base' /\ (~everReset' => Fits')
    OBVIOUS
  <2>1. Base'
    BY BaseStep
  <2>2. CASE Next
    <3>1. everReset' <=> everReset \/ r_wdt_reset
      BY <2>2 DEF Next, HostClock
    <3> QED
      BY <2>1, <2>2, <3>1, FitsStep
  <2>3. CASE UNCHANGED vars
    <3>1. /\ UNCHANGED <<ofifo, exec_stb, exec_word, ififo, in_stb, in_word, due>>
          /\ UNCHANGED <<everReset, wb_state, r_new_addr, r_len, r_acks_needed>>
      BY <2>3 DEF vars, fifos, host, Exec!exec, Exec!control, Exec!reading
    <3>2. Owed' = Owed /\ ToCome' = ToCome /\ Sent' = Sent
      BY <3>1 DEF Owed, ToCome, Sent, Words
    <3>3. AddressesOwed' = AddressesOwed /\ WordsOwed' = WordsOwed
      BY <3>2 DEF AddressesOwed, WordsOwed
    <3>4. OwedWords' <=> OwedWords
      BY <3>1, <3>2, <3>3 DEF OwedWords
    <3>5. AddressesFirst' <=> AddressesFirst
      BY <3>1, <3>2 DEF AddressesFirst, Quiet, IsAddress
    <3>6. WindowKept' <=> WindowKept
      BY <3>1, <3>2, <3>3 DEF WindowKept, Queued, Words
    <3> QED
      BY <2>1, <3>1, <3>4, <3>5, <3>6 DEF Fits
  <2> QED
    BY <2>1, <2>2, <2>3
<1>3. Inv => AnswersFit
  BY FitsShows DEF AnswersFit
<1> HIDE DEF Inv
<1> QED
  BY <1>1, <1>2, <1>3, PTL DEF Spec

(***************************************************************************)
(* The FIFOs themselves (WbuFifo), of any length and any words, whatever   *)
(* is written to them and read from them: the flags agree with the         *)
(* pointers, and a FIFO is a queue (WbuQueue), which is how WbuConsole     *)
(* models the two it has.  The proofs follow the code's own two halves,    *)
(* the write side and the read side, and the invariant says what each of   *)
(* them may assume of the other.                                           *)
(***************************************************************************)

\* The register types, and the flags that tell the truth of the pointers.
FifoInv == TypeOK /\ FlagsAgree

\* Initially the FIFO is empty, and says so.
LEMMA FifoInvInit == FifoInit => FifoInv
<1> SUFFICES ASSUME FifoInit PROVE FifoInv
  OBVIOUS
<1> USE FLENAssumption DEF FifoInit
<1>1. r_wrptr \in Pointers /\ r_rdptr \in Pointers
  BY DEF Pointers
<1>4. TypeOK
  BY <1>1 DEF TypeOK
<1>2. f_fifo_fill = 0
  BY DEF f_fifo_fill
<1>3. FlagsAgree
  BY <1>2 DEF FlagsAgree
<1> QED
  BY <1>3, <1>4 DEF FifoInv

\* The fill is a number, however the pointers stand.
LEMMA FillType == TypeOK => f_fifo_fill \in Nat
  BY FLENAssumption DEF TypeOK, Pointers, f_fifo_fill

\* A clock keeps every register in its type.
LEMMA FifoTypeStep == TypeOK /\ FifoClock => TypeOK'
<1> SUFFICES ASSUME TypeOK, FifoClock PROVE TypeOK'
  OBVIOUS
<1> USE FLENAssumption DEF TypeOK, Addresses, Pointers
<1>1. InputsOK'
  BY DEF FifoClock, InputsClock, InputsOK
<1>2. address(r_wrptr) \in Addresses /\ address(r_rdptr) \in Addresses
  BY DEF address
<1>3. next(r_wrptr) \in Pointers /\ next(r_rdptr) \in Pointers
  BY DEF next
<1>4. fifo' \in [Addresses -> Word] /\ r_wrptr' \in Pointers
  BY <1>2, <1>3 DEF FifoClock, WriteClock, InputsOK
<1>5. r_rdptr' \in Pointers /\ o_data' \in Word
  BY <1>2, <1>3 DEF FifoClock, ReadClock
<1>6. will_overflow' \in BOOLEAN
  BY DEF FifoClock, WriteClock, InputsOK, w_write
<1>7. will_underflow' \in BOOLEAN /\ o_empty_n' \in BOOLEAN
  BY DEF FifoClock, ReadClock, InputsOK, w_read, r_empty_n
<1> QED
  BY <1>1, <1>4, <1>5, <1>6, <1>7

\* The fill counts the writes and reads of the clock.
LEMMA FillStep ==
  ASSUME FifoInv, FifoClock, ~i_reset
  PROVE  f_fifo_fill' = f_fifo_fill + (IF w_write THEN 1 ELSE 0)
                                    - (IF w_read THEN 1 ELSE 0)
<1> USE FLENAssumption DEF FifoInv, TypeOK, FlagsAgree, InputsOK, Pointers
<1>1. r_wrptr' = IF w_write THEN next(r_wrptr) ELSE r_wrptr
  BY DEF FifoClock, WriteClock
<1>2. r_rdptr' = IF w_read THEN next(r_rdptr) ELSE r_rdptr
  BY DEF FifoClock, ReadClock, r_empty_n, w_read
<1>3. w_write => f_fifo_fill < FLEN \/ w_read
  BY FillType DEF w_write, w_read
<1>4. w_read => f_fifo_fill > 0
  BY DEF w_read, f_fifo_fill
<1> QED
  BY <1>1, <1>2, <1>3, <1>4 DEF f_fifo_fill, next

\* The four flags still agree after the clock.
LEMMA FlagsStep == FifoInv /\ FifoClock => FlagsAgree'
<1> SUFFICES ASSUME FifoInv, FifoClock PROVE FlagsAgree'
  OBVIOUS
<1> USE FLENAssumption DEF FifoInv, TypeOK, InputsOK, Pointers
<1>1. CASE i_reset
  BY <1>1 DEF FifoClock, WriteClock, ReadClock, FlagsAgree, f_fifo_fill
<1>2. CASE ~i_reset
  <2>1. f_fifo_fill \in Nat
    BY FillType
  <2>2. f_fifo_fill' = f_fifo_fill + (IF w_write THEN 1 ELSE 0)
                                   - (IF w_read THEN 1 ELSE 0)
    BY <1>2, FillStep
  <2>3. w_write => f_fifo_fill < FLEN \/ w_read
    BY <2>1 DEF w_write, w_read, FlagsAgree
  <2>4. w_read => f_fifo_fill > 0
    BY <2>1 DEF w_read, FlagsAgree
  <2>5. f_fifo_fill' \in Nat /\ f_fifo_fill' <= FLEN
    BY <2>1, <2>2, <2>3, <2>4 DEF FlagsAgree
  <2>6. will_underflow' <=> f_fifo_fill' = 0
    <3>1. next(r_rdptr) = r_wrptr <=> f_fifo_fill = 1
      BY DEF next, f_fifo_fill
    <3>2. i_wr => w_write \/ f_fifo_fill = FLEN
      BY DEF w_write, FlagsAgree
    <3>3. CASE i_wr
      <4>1. ~will_underflow'
        BY <1>2, <3>3 DEF FifoClock, ReadClock
      <4>2. ~w_write => ~w_read
        BY <2>1, <3>2, <3>3 DEF w_read, w_write, FlagsAgree
      <4>3. f_fifo_fill' # 0
        BY <2>1, <2>2, <2>4, <3>2, <3>3, <4>2
      <4> QED
        BY <4>1, <4>3
    <3>4. CASE ~i_wr /\ w_read
      <4>1. ~w_write /\ ~will_underflow
        BY <3>4 DEF w_write, w_read
      <4>2. will_underflow' <=> next(r_rdptr) = r_wrptr
        BY <1>2, <3>4, <4>1 DEF FifoClock, ReadClock
      <4>3. f_fifo_fill' = f_fifo_fill - 1
        BY <2>1, <2>2, <3>4, <4>1
      <4> QED
        BY <2>1, <3>1, <4>2, <4>3
    <3>5. CASE ~i_wr /\ ~w_read
      BY <1>2, <2>1, <2>2, <3>5 DEF FifoClock, ReadClock, FlagsAgree, w_write
    <3> QED
      BY <3>3, <3>4, <3>5
  <2>7. will_overflow' <=> f_fifo_fill' = FLEN
    <3>1. address(next(r_wrptr)) = address(r_rdptr) /\ next(r_wrptr) # r_rdptr
            <=> f_fifo_fill = FLEN - 1
      BY DEF next, address, f_fifo_fill, FlagsAgree
    <3> QED
      BY <1>2, <2>1, <2>2, <3>1 DEF FifoClock, WriteClock, FlagsAgree, w_read, w_write
  <2>8. f_fifo_fill' > 1 => o_empty_n'
    BY <1>2, <2>1, <2>2, <2>4 DEF FifoClock, ReadClock, FlagsAgree, r_empty_n, w_read, w_write
  <2> QED
    BY <2>5, <2>6, <2>7, <2>8 DEF FlagsAgree
<1> QED
  BY <1>1, <1>2

\* A step that leaves every register as it was leaves the invariant true.
LEMMA FifoStutter == FifoInv /\ UNCHANGED registers => FifoInv'
  BY DEF FifoInv, TypeOK, FlagsAgree, InputsOK, f_fifo_fill, registers, inputs

\* The invariant holds on every clock (wbufifo.v:138-156).
THEOREM FifoInvariance == FifoSpec => []FifoInv
<1>1. FifoInv /\ [FifoClock]_registers => FifoInv'
  BY FifoTypeStep, FlagsStep, FifoStutter DEF FifoInv
<1> QED
  BY <1>1, FifoInvInit, PTL DEF FifoSpec

\* Full and empty are known a clock early and are never wrong, for a FIFO of
\* any length, whatever is written and read.
THEOREM FlagsAlwaysAgree == FifoSpec => []FlagsAgree
<1>1. FifoInv => FlagsAgree
  BY DEF FifoInv
<1> QED
  BY <1>1, FifoInvariance, PTL

\* What is in memory reaches the output within a clock.
THEOREM AlwaysOffersNext == FifoSpec => OffersNext
<1>1. FifoInv /\ [FifoClock]_registers => [f_fifo_fill > 0 /\ ~i_reset => o_empty_n']_registers
  <2> SUFFICES ASSUME FifoInv, FifoClock, f_fifo_fill > 0, ~i_reset PROVE o_empty_n'
    OBVIOUS
  <2>1. r_empty_n
    BY FillType DEF FifoInv, FlagsAgree, r_empty_n
  <2> QED
    BY <2>1 DEF FifoClock, ReadClock, FifoInv, TypeOK
<1> QED
  BY <1>1, FifoInvariance, PTL DEF FifoSpec, OffersNext

\* What the FIFO holds is a sequence of words.
LEMMA ContentsType ==
  ASSUME FifoInv
  PROVE  /\ Held \in Nat
         /\ \A k \in 1 .. Held : word(k) \in Word
         /\ Contents \in Seq(Word)
         /\ Len(Contents) = Held
         /\ \A k \in 1 .. Held : Contents[k] = word(k)
<1> USE FLENAssumption DEF FifoInv
<1>1. Held \in Nat
  BY FillType DEF Held
<1>2. \A k \in 0 .. FLEN-1 : InMemory(k) \in Word
  BY DEF TypeOK, InMemory, after, address, Pointers, Addresses
<1>3. \A k \in 1 .. Held : word(k) \in Word
  BY <1>1, <1>2, FillType DEF TypeOK, FlagsAgree, Held, word
<1>4. Contents \in Seq(Word) /\ Len(Contents) = Held
  BY <1>1, <1>3 DEF Contents
<1>5. \A k \in 1 .. Held : Contents[k] = word(k)
  BY DEF Contents
<1> QED
  BY <1>1, <1>3, <1>4, <1>5

Gone  == IF Queue!Taken THEN 1 ELSE 0
Added == IF i_wr /\ ~Queue!Dropped THEN 1 ELSE 0

\* The code's two conditions are the queue's: a word leaves exactly when the
\* one offered is read, and a word enters exactly when w_write holds.
LEMMA HeldStep ==
  ASSUME FifoInv, FifoClock, ~i_reset
  PROVE  /\ Held' = Held - Gone + Added
         /\ (i_wr /\ ~Queue!Dropped) <=> w_write
         /\ o_empty_n' <=> (f_fifo_fill > 0 \/ (o_empty_n /\ ~i_rd))
<1> USE FLENAssumption DEF FifoInv, TypeOK, FlagsAgree, InputsOK
<1>1. f_fifo_fill \in Nat
  BY FillType
<1>2. Len(Contents) = Held
  BY ContentsType
<1>3. Held = FLEN + 1 <=> f_fifo_fill = FLEN
  BY <1>1 DEF Held
<1>4. (i_wr /\ ~Queue!Dropped) <=> w_write
  BY <1>2, <1>3 DEF Queue!Dropped, w_write
<1>5. f_fifo_fill' = f_fifo_fill + (IF w_write THEN 1 ELSE 0)
                                 - (IF w_read THEN 1 ELSE 0)
  BY FillStep
<1>6. o_empty_n' <=> (f_fifo_fill > 0 \/ (o_empty_n /\ ~i_rd))
  <2>1. r_empty_n <=> f_fifo_fill > 0
    BY <1>1 DEF r_empty_n
  <2>2. o_empty_n' = IF ~o_empty_n \/ i_rd THEN r_empty_n ELSE o_empty_n
    BY DEF FifoClock, ReadClock
  <2>3. r_empty_n \in BOOLEAN /\ (~i_rd /\ ~o_empty_n => TRUE)
    BY DEF r_empty_n
  <2> QED
    BY <1>1, <2>1, <2>2, <2>3
<1>7. w_read <=> (i_rd \/ ~o_empty_n) /\ f_fifo_fill > 0
  BY <1>1 DEF w_read
<1>8. Held' = Held - Gone + Added
  <2>1. Held' = f_fifo_fill' + (IF o_empty_n' THEN 1 ELSE 0)
    BY DEF Held
  <2>2. Added = IF w_write THEN 1 ELSE 0
    BY <1>4 DEF Added
  <2> QED
    BY <1>1, <1>5, <1>6, <1>7, <2>1, <2>2 DEF Held, Gone, Queue!Taken
<1> QED
  BY <1>4, <1>6, <1>8

\* Where each word stands a clock later.
LEMMA WordStep ==
  ASSUME FifoInv, FifoClock, ~i_reset, NEW k \in 1 .. Held'
  PROVE  word(k)' = IF k <= Held - Gone THEN word(k + Gone) ELSE i_data
<1> USE FLENAssumption DEF FifoInv, TypeOK, FlagsAgree, InputsOK, Pointers, Addresses
<1> DEFINE at(j) == address(after(r_rdptr, j))
<1>1. f_fifo_fill \in Nat /\ Held \in Nat /\ Gone \in {0, 1} /\ Added \in {0, 1}
  BY FillType, ContentsType DEF Gone, Added
<1>2. /\ Held' = Held - Gone + Added
      /\ Added = IF w_write THEN 1 ELSE 0
      /\ o_empty_n' <=> (f_fifo_fill > 0 \/ (o_empty_n /\ ~i_rd))
  BY HeldStep DEF Added
<1>3. w_read <=> (i_rd \/ ~o_empty_n) /\ f_fifo_fill > 0
  BY <1>1 DEF w_read
<1>4. address(r_wrptr) = at(f_fifo_fill)
  BY DEF address, after, f_fifo_fill
<1>5. \A j \in 0 .. f_fifo_fill - 1 :
        at(j) = at(f_fifo_fill) => j = 0 /\ f_fifo_fill = FLEN
  BY <1>1 DEF address, after
<1>6. \A j \in 0 .. f_fifo_fill : at(j) \in Addresses
  BY <1>1 DEF address, after
<1>7. w_write /\ f_fifo_fill = FLEN => w_read
  BY <1>1, <1>3 DEF w_write
<1>8. \A j \in 0 .. f_fifo_fill - 1 :
        j > 0 \/ ~w_read => fifo'[at(j)] = InMemory(j)
  BY <1>1, <1>4, <1>5, <1>6, <1>7 DEF FifoClock, WriteClock, InMemory
<1>9. w_write => fifo'[at(f_fifo_fill)] = i_data
  BY <1>1, <1>4, <1>6 DEF FifoClock, WriteClock
<1>10. ASSUME NEW j \in 0 .. FLEN
       PROVE  InMemory(j)' = fifo'[at(IF w_read THEN j + 1 ELSE j)]
  <2>1. r_rdptr' = IF w_read THEN next(r_rdptr) ELSE r_rdptr
    BY DEF FifoClock, ReadClock, w_read, r_empty_n
  <2>2. after(r_rdptr', j) = after(r_rdptr, IF w_read THEN j + 1 ELSE j)
    BY <2>1 DEF after, next
  <2> QED
    BY <2>2 DEF InMemory, at
<1>11. w_read => o_data' = InMemory(0)
  BY DEF FifoClock, ReadClock, w_read, r_empty_n, InMemory, after
<1>12. ~w_read => o_data' = o_data
  BY DEF FifoClock, ReadClock
<1>13. CASE w_read
  <2>1. o_empty_n'
    BY <1>2, <1>3, <1>13
  <2>2. Held - Gone = f_fifo_fill
    BY <1>1, <1>3, <1>13 DEF Held, Gone, Queue!Taken
  <2>3. k <= f_fifo_fill => word(k + Gone) = InMemory(k - 1)
    BY <1>1, <1>3, <1>13 DEF word, Gone, Queue!Taken
  <2>4. CASE k = 1
    <3>1. word(k)' = InMemory(0)
      BY <1>11, <1>13, <2>1, <2>4 DEF word
    <3> QED
      BY <1>1, <1>3, <1>13, <2>2, <2>3, <2>4, <3>1
  <2>5. CASE k > 1
    <3>1. word(k)' = InMemory(k - 2)'
      BY <2>1, <2>5 DEF word
    <3>2. k - 2 \in 0 .. FLEN
      BY <1>1, <1>2, <2>2, <2>5
    <3>3. word(k)' = fifo'[at(k - 1)]
      BY <1>10, <1>13, <3>1, <3>2
    <3>4. k = f_fifo_fill + 1 => w_write
      BY <1>1, <1>2, <2>2
    <3> QED
      BY <1>1, <1>2, <1>8, <1>9, <2>2, <2>3, <2>5, <3>3, <3>4
  <2> QED
    BY <1>1, <1>2, <2>4, <2>5
<1>14. CASE ~w_read /\ o_empty_n'
  <2>1. o_empty_n /\ ~i_rd
    BY <1>1, <1>2, <1>3, <1>14
  <2>2. Gone = 0 /\ Held = f_fifo_fill + 1
    BY <1>1, <2>1 DEF Gone, Held, Queue!Taken
  <2>3. CASE k = 1
    BY <1>1, <1>12, <1>14, <2>1, <2>2, <2>3 DEF word
  <2>4. CASE k > 1
    <3>1. word(k)' = InMemory(k - 2)'
      BY <1>14, <2>4 DEF word
    <3>2. k - 2 \in 0 .. FLEN
      BY <1>1, <1>2, <2>2, <2>4
    <3>3. word(k)' = fifo'[at(k - 2)]
      BY <1>10, <1>14, <3>1, <3>2
    <3>4. k <= Held => word(k) = InMemory(k - 2)
      BY <2>1, <2>4 DEF word
    <3>5. k = f_fifo_fill + 2 => w_write
      BY <1>1, <1>2, <2>2
    <3> QED
      BY <1>1, <1>2, <1>8, <1>9, <1>14, <2>2, <2>4, <3>3, <3>4, <3>5
  <2> QED
    BY <1>1, <1>2, <2>3, <2>4
<1>15. CASE ~w_read /\ ~o_empty_n'
  <2>1. f_fifo_fill = 0 /\ Gone = Held
    BY <1>1, <1>2, <1>3, <1>15 DEF Gone, Held, Queue!Taken
  <2>2. k = 1 /\ w_write
    BY <1>1, <1>2, <2>1
  <2>3. word(k)' = InMemory(0)'
    BY <1>15, <2>2 DEF word
  <2> QED
    BY <1>1, <1>9, <1>10, <1>15, <2>1, <2>2, <2>3
<1> QED
  BY <1>13, <1>14, <1>15

\* A word offered is a word held.
LEMMA OfferedIsHeld == TypeOK /\ o_empty_n => Contents # << >>
<1> SUFFICES ASSUME TypeOK, o_empty_n PROVE Contents # << >>
  OBVIOUS
<1>1. Held \in Nat /\ Held > 0
  BY FillType DEF Held
<1>2. 1 \in DOMAIN Contents
  BY <1>1 DEF Contents
<1> QED
  BY <1>2

\* The same, a clock later.
LEMMA OfferedNext == (TypeOK /\ o_empty_n)' => (Contents # << >>)'
  BY OfferedIsHeld, PTL

\* Every clock of the FIFO is a clock of the queue.
LEMMA FifoQueueStep == FifoInv /\ FifoInv' /\ FifoClock => Queue!Next
<1> SUFFICES ASSUME FifoInv, FifoInv', FifoClock PROVE Queue!Next
  OBVIOUS
<1>1. o_empty_n' => Contents' # << >>
  BY OfferedNext DEF FifoInv
<1>2. CASE i_reset
  <2>1. Held' = 0
    BY <1>2 DEF FifoClock, WriteClock, ReadClock, Held, f_fifo_fill
  <2>2. Contents' = << >>
    BY <2>1 DEF Contents
  <2> QED
    BY <1>1, <1>2, <2>2 DEF Queue!Next
<1>3. CASE ~i_reset
  <2> DEFINE kept == IF Queue!Taken THEN Tail(Contents) ELSE Contents
             new  == IF i_wr /\ ~Queue!Dropped THEN <<i_data>> ELSE << >>
  <2>1. /\ Held \in Nat /\ Contents \in Seq(Word) /\ Len(Contents) = Held
        /\ \A k \in 1 .. Held : Contents[k] = word(k) /\ word(k) \in Word
    BY ContentsType
  <2>2. Gone = 1 => Held > 0 /\ Contents # << >>
    BY <2>1, FillType DEF Gone, Queue!Taken, Held, FifoInv
  <2>3. /\ kept \in Seq(Word) /\ Len(kept) = Held - Gone
        /\ \A k \in 1 .. Held - Gone : kept[k] = word(k + Gone)
    BY <2>1, <2>2, HeadTailProperties DEF Gone
  <2>4. new \in Seq(Word) /\ Len(new) = Added /\ (Added = 1 => new[1] = i_data)
    BY DEF Added, FifoInv, TypeOK, InputsOK
  <2>5. /\ kept \o new \in Seq(Word) /\ Len(kept \o new) = Held - Gone + Added
        /\ \A k \in 1 .. Held - Gone + Added :
              (kept \o new)[k] = IF k <= Held - Gone THEN word(k + Gone) ELSE i_data
    <3> HIDE DEF kept, new
    <3>1. /\ kept \o new \in Seq(Word)
          /\ Len(kept \o new) = Len(kept) + Len(new)
          /\ \A k \in 1 .. Len(kept) + Len(new) :
                (kept \o new)[k] = IF k <= Len(kept) THEN kept[k]
                                   ELSE new[k - Len(kept)]
      BY <2>3, <2>4, ConcatProperties
    <3>2. Held - Gone \in Nat /\ Added \in {0, 1}
      BY <2>1, <2>2 DEF Gone, Added
    <3> QED
      BY <2>3, <2>4, <3>1, <3>2
  <2>6. Held' = Held - Gone + Added
    BY <1>3, HeldStep
  <2>7. \A k \in 1 .. Held' :
          word(k)' = IF k <= Held - Gone THEN word(k + Gone) ELSE i_data
    BY <1>3, WordStep
  <2>8. Contents' = kept \o new
    <3>1. Contents' = [k \in 1 .. Held' |-> word(k)']
      BY DEF Contents
    <3> HIDE DEF kept, new
    <3>2. \A k \in 1 .. Held' : word(k)' = (kept \o new)[k]
      BY <2>5, <2>6, <2>7
    <3>3. kept \o new = [k \in 1 .. Held' |-> (kept \o new)[k]]
      BY <2>5, <2>6, LenProperties
    <3> QED
      BY <3>1, <3>2, <3>3
  <2> QED
    BY <1>1, <1>3, <2>8 DEF Queue!Next
<1> QED
  BY <1>2, <1>3

\* A FIFO of any length is a queue of one word more: no word is lost, changed,
\* repeated or overtaken, whatever is written and read.
THEOREM FifoIsAQueue == FifoSpec => ImplementsQueue
<1>1. FifoInit => Queue!Init
  <2> SUFFICES ASSUME FifoInit PROVE Queue!Init
    OBVIOUS
  <2>1. Held = 0 /\ ~o_empty_n
    BY DEF FifoInit, Held, f_fifo_fill
  <2> QED
    BY <2>1 DEF Queue!Init, Contents
<1>2. FifoInv /\ FifoInv' /\ [FifoClock]_registers => [Queue!Next]_Queue!queueing
  <2> SUFFICES ASSUME FifoInv, FifoInv', UNCHANGED registers
               PROVE  UNCHANGED Queue!queueing
    BY FifoQueueStep
  <2>1. UNCHANGED <<Held, r_rdptr, fifo, o_data, o_empty_n, inputs>>
    BY DEF registers, Held, f_fifo_fill
  <2>2. Contents' = Contents
    BY <2>1 DEF Contents, word, InMemory
  <2> QED
    BY <2>1, <2>2 DEF Queue!queueing, inputs
<1> QED
  BY <1>1, <1>2, FifoInvariance, PTL DEF FifoSpec, ImplementsQueue, Queue!Spec
=============================================================================
