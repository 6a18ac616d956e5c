----------------------------- MODULE TtyDevice -----------------------------
(* The debug port as the host library sees it: it takes the codewords of a stream of
   characters (rtl/wbubus/wbureadcw.v, wbudecompress.v), runs them one after the other
   (wbuexec.v, in WbuExec clock by clock) and sends what comes back (wbucompress.v,
   wbuidleint.v, wbuoutput's newlines). A write never ends of itself: the port is busy
   until the watchdog of wbuconsole.v resets it, and after one that failed for ever
   (WbuConsole). What the clocks decide between is a choice: how far a vector read had
   come when it met an error, when the watchdog fires, and whether the search of the
   table was given the time to find a word. Every slave answers. *)
EXTENDS TtyBus

CONSTANTS Word,           \* the addresses something is mapped at
          MemoryOf(_),    \* what is there at first
          REACH,          \* how far into the past a word is looked for: 521
          MaxNoise        \* bound: newlines and interrupts among the answers

VARIABLES mem,
          addr, newaddr,        \* o_wb_addr, r_new_addr
          wtbl, wr_addr,        \* the table of written values
          burst,                \* "none", or what the bus master is in: "read", "write", "flush"
          left, rinc,           \* words the read has left, r_inc
          answers,              \* what the answer FIFO holds
          sent,                 \* the raw words since the table of the other way was cleared
          lastw, noise

receiver == <<wtbl, wr_addr, lastw>>
master   == <<mem, addr, newaddr, burst, left, rinc, answers>>
device   == <<receiver, master, sent, noise>>

DeviceInit ==
    /\ mem = [w \in Word |-> MemoryOf(w)]
    /\ addr = 0 /\ newaddr = TRUE
    /\ wtbl = [i \in 0..WRTBL-1 |-> 0] /\ wr_addr = 0 /\ sent = <<>>
    /\ burst = "none" /\ left = 0 /\ rinc = FALSE /\ lastw = FALSE
    /\ answers = <<>> /\ noise = MaxNoise

ADDRESSES == 2^30
Say(s)    == toHost' = toHost \o s
Answer(c) == answers' = Append(answers, c)

\* cw_len
Length(c) == IF c = NL \/ (c >= 32 /\ c < 48) THEN 1
             ELSE IF c >= 48 \/ (c >= 16 /\ c < 24) THEN 2
             ELSE IF c >= 8 /\ c < 16 THEN 2 + ((c % 8) \div 2)
             ELSE 6
Signed(s)    == LET v == Value(s) IN IF s[1] >= 32 THEN v - 64^Len(s) ELSE v
Offset(a, d) == (a + d) % ADDRESSES

(***************************************************************************)
(* Codewords                                                               *)
(***************************************************************************)
\* A written value: in full, or by how far back in the table it is.
WrittenValue(s) ==
    IF Len(s) = 6 THEN Value(Tail(s))
    ELSE wtbl[(wr_addr - (64 * ((s[1] \div 2) % 4) + s[2])) % WRTBL]
\* Every codeword is stored in the table, and only a full write stays there.
Table(s) ==
    /\ wtbl' = [wtbl EXCEPT ![wr_addr] = Value(Tail(s))]
    /\ wr_addr' = IF s[1] \in 24..31 THEN (wr_addr + 1) % WRTBL ELSE wr_addr

SetAddress(s) ==
    /\ addr' = IF s[1] < 4 THEN Value(Tail(s))
               ELSE IF s[1] % 2 = 0 THEN Value(Tail(s)) ELSE Offset(addr, Signed(Tail(s)))
    /\ newaddr' = TRUE
    /\ UNCHANGED <<mem, burst, left, rinc, answers>>

\* The one write of a burst that is done; the bus master then waits for a codeword that
\* it is not given while it is busy.
Write(s) ==
    /\ addr' = Offset(addr, s[1] % 2) /\ newaddr' = FALSE
    /\ UNCHANGED <<left, rinc>>
    /\ \/ /\ addr \in Word
          /\ mem' = [mem EXCEPT ![addr] = WrittenValue(s)]
          /\ Answer([kind |-> "status", code |-> 2]) /\ burst' = "write"
       \/ /\ addr \notin Word
          /\ Answer([kind |-> "status", code |-> 5]) /\ burst' = "flush"
          /\ UNCHANGED mem

\* A codeword that begins with bits 101110 ends a burst of writes, whoever sent it, and
\* does nothing else.
EndOfWrite(s) == s = <<46>> \/ s = <<NL>>

ReadLength(s) == IF Len(s) = 1 THEN 1 + ((s[1] \div 2) % 8)
                 ELSE 9 + 64 * ((s[1] \div 2) % 8) + s[2]
StartRead(s) ==
    /\ burst' = "read" /\ left' = ReadLength(s) /\ rinc' = (s[1] % 2 = 1)
    /\ IF newaddr THEN Answer([kind |-> "addr", a |-> addr]) ELSE UNCHANGED answers
    /\ newaddr' = FALSE
    /\ UNCHANGED <<mem, addr>>

Run(s) == \/ s[1] \in 16..31 /\ Write(s)
          \/ EndOfWrite(s) /\ UNCHANGED master
          \/ s[1] < 16 /\ SetAddress(s)
          \/ s[1] \in 32..63 /\ ~EndOfWrite(s) /\ StartRead(s)

\* What comes while the bus master waits is decoded and stays in the command FIFO; it
\* can only be thrown away.
Take ==
    /\ toDev # <<>> /\ burst # "read"
    /\ LET n == Length(toDev[1])
           s == SubSeq(toDev, 1, n)
       IN  /\ toDev' = SubSeq(toDev, n + 1, Len(toDev))
           /\ \/ s = <<NL>> /\ ~lastw /\ UNCHANGED <<receiver, master>>
              \/ /\ s # <<NL>> \/ lastw
                 /\ Table(s) /\ lastw' = (s[1] \in 16..31)
                 /\ IF burst = "none" THEN Run(s) ELSE UNCHANGED master
    /\ UNCHANGED <<toHost, sent, noise>>

\* Mutant: the reset is not announced.
AfterReset_Silent == <<>>
AfterReset == <<[kind |-> "status", code |-> 3]>>

\* The reset of the watchdog empties both FIFOs.
Watchdog ==
    /\ burst = "write"
    /\ burst' = "none" /\ newaddr' = TRUE
    /\ answers' = AfterReset
    /\ UNCHANGED <<toDev, toHost, receiver, mem, addr, left, rinc, sent, noise>>

\* The words of a read, and its end on an error: the bus has gone on asking for words
\* while the error was on its way.
ReadWord ==
    /\ burst = "read" /\ addr \in Word
    /\ Answer([kind |-> "data", w |-> mem[addr], inc |-> rinc])
    /\ addr' = Offset(addr, Inc(rinc))
    /\ left' = left - 1
    /\ burst' = IF left = 1 THEN "none" ELSE "read"
    /\ UNCHANGED <<toDev, toHost, receiver, mem, newaddr, rinc, sent, noise>>

ReadError ==
    /\ burst = "read" /\ addr \notin Word
    /\ Answer([kind |-> "status", code |-> 5]) /\ burst' = "none" /\ left' = 0
    /\ \E n \in 1..left : addr' = Offset(addr, n * Inc(rinc))
    /\ UNCHANGED <<toDev, toHost, receiver, mem, newaddr, rinc, sent, noise>>

(***************************************************************************)
(* Answers                                                                 *)
(***************************************************************************)
\* Mutant: a word is looked for one further than the host counts.
DataWord_Shifted(w, inc, k) ==
    IF k = 0 THEN Raw(56 + Inc(inc), w)
    ELSE IF k <= SHORT THEN <<32 + 2 * (k - 1) + Inc(inc)>>
    ELSE <<16 + 2 * ((k - SHORT - 1) \div 64) + Inc(inc), ((k - SHORT - 1) % 64)>>

\* The word w, found k into the past or (k = 0) sent as it is.
DataWord(w, inc, k) ==
    IF k = 0 THEN Raw(56 + Inc(inc), w)
    ELSE IF k = 1 THEN <<6 + Inc(inc)>>
    ELSE IF k <= SHORT THEN <<32 + 2 * (k - 2) + Inc(inc)>>
    ELSE <<16 + 2 * ((k - SHORT - 1) \div 64) + Inc(inc), ((k - SHORT - 1) % 64)>>
AddressWord(a) ==
    IF AbsLen(a) = 5 THEN Raw(8, a) ELSE <<11 + AbsLen(a)>> \o Digits(a, AbsLen(a))
Nearest(w) ==
    LET Hits == {k \in 1..Least(REACH, Len(sent)) : sent[Len(sent) + 1 - k] = w}
    IN  {k \in Hits : \A j \in Hits : k <= j}

\* The next answer leaves the FIFO: an address starts the table anew.
Send ==
    /\ answers # <<>> /\ answers' = Tail(answers)
    /\ LET c == Head(answers)
       IN \/ c.kind = "status" /\ Say(<<c.code>>) /\ UNCHANGED sent
          \/ c.kind = "addr" /\ Say(AddressWord(c.a)) /\ sent' = <<>>
          \/ /\ c.kind = "data"
             /\ \E k \in {0} \cup Nearest(c.w) :
                   /\ Say(DataWord(c.w, c.inc, k))
                   /\ sent' = IF k = 0 THEN Append(sent, c.w) ELSE sent
    /\ UNCHANGED <<toDev, receiver, mem, addr, newaddr, burst, left, rinc, noise>>

\* Nothing to say for long; and the end of a line, or an interrupt.
SayIdle ==
    /\ burst \in {"none", "flush"} /\ toDev = <<>> /\ toHost = <<>> /\ answers = <<>>
    /\ Say(<<0>>)
    /\ UNCHANGED <<toDev, device>>
Interject ==
    /\ noise > 0 /\ noise' = noise - 1 /\ (Say(<<NL>>) \/ Say(<<4>>))
    /\ UNCHANGED <<toDev, receiver, master, sent>>

DeviceStep == Take \/ Watchdog \/ ReadWord \/ ReadError \/ Send
=============================================================================
