------------------------------- MODULE TtyBus -------------------------------
(* The library through which every host program reaches the bus, class TTYBUS of
   sw/host/ttybus.cpp, and the two streams of characters it shares with the debug
   port. A character is its six bits (chardec), or NL for a newline; an address is
   a word's (a>>2), and words and addresses have the 30 bits of five characters.
   A blocking read is a step that waits for a character. *)
EXTENDS Integers, SequencesExt

CONSTANTS WRTBL,      \* entries in m_writetbl: 256 in the code
          RDTBL,      \* entries in m_readtbl: 1024
          SHORT,      \* how far into the past one character can refer: 9
          MAXRDLEN,   \* words of reads in flight: 1024
          MAXWRLEN,   \* words of writes in a burst: 32
          Calls,      \* the calls that programs make
          MaxCalls    \* bound: how many of them, and one program after another for each

ASSUME TtyBusAssumption ==
    /\ {WRTBL, RDTBL, SHORT, MAXRDLEN, MAXWRLEN, MaxCalls} \subseteq Nat \ {0}
    /\ MAXRDLEN % 2 = 0

VARIABLES toDev, toHost,           \* the streams
          pc, call, cmdrd, nw, last, m_buf, buf, calls,
          m_addr_set, m_lastaddr,
          m_readtbl, m_rdaddr, m_writetbl, m_wraddr, m_wrloaded,
          m_interrupt_flag

tables  == <<m_readtbl, m_rdaddr>>
wtables == <<m_writetbl, m_wraddr, m_wrloaded>>
address == <<m_addr_set, m_lastaddr>>
host    == <<pc, call, cmdrd, nw, last, m_buf, buf, calls, address, tables, wtables, m_interrupt_flag>>

NL == 256
Value(s)     == FoldLeft(LAMBDA v, c : v * 64 + (c % 64), 0, s)
Digits(v, n) == [i \in 1..n |-> (v \div 64^(n-i)) % 64]
Raw(h, v)    == <<h>> \o Digits(v, 5)
Least(a, b)  == IF a < b THEN a ELSE b
Inc(b)       == IF b THEN 1 ELSE 0

HostInit ==
    /\ pc = "app" /\ call = [op |-> "none"] /\ cmdrd = 0 /\ nw = 0 /\ last = FALSE
    /\ m_buf = <<>> /\ buf = <<>> /\ calls = 0
    /\ m_addr_set = FALSE /\ m_lastaddr = 0 /\ m_interrupt_flag = FALSE
    /\ m_readtbl = [i \in 0..RDTBL-1 |-> 0] /\ m_rdaddr = 0
    /\ m_writetbl = [i \in 0..WRTBL-1 |-> 0] /\ m_wraddr = 0 /\ m_wrloaded = FALSE
StreamInit == toDev = <<>> /\ toHost = <<>>

(* lclreadcode: the characters of a read that are part of the code are to be moved
   together, but its two pointers are swapped: behind the first that is not, the
   buffer is filled with that one. *)
Codes(s) ==
    LET firstNL == SelectInSeq(s, LAMBDA c : c = NL)
    IN  [i \in 1..Len(SelectSeq(s, LAMBDA c : c # NL)) |->
            IF firstNL # 0 /\ i >= firstNL THEN NL ELSE s[i]]

-----------------------------------------------------------------------------
(* encode_address. A difference is used where it is shorter; it is worked out in
   unsigned numbers, so one that is negative is out of reach of every code. *)
AbsLen(a) == CHOOSE n \in 1..5 : a < 64^n /\ \A k \in 1..n-1 : a >= 64^k
RelLen(d) == IF d < 0 \/ d >= 2^23 THEN 6
             ELSE CHOOSE n \in 1..4 : d < 32 * 64^(n-1) /\ \A k \in 1..n-1 : d >= 32 * 64^(k-1)

AddressCode(a) ==
    LET n == RelLen(a - m_lastaddr)
    IN  IF m_addr_set /\ a = m_lastaddr THEN <<>>
        ELSE IF m_addr_set /\ n < AbsLen(a) THEN <<7 + 2*n>> \o Digits(a - m_lastaddr, n)
        ELSE IF AbsLen(a) = 5 THEN Raw(0, a)
        ELSE <<6 + 2 * AbsLen(a)>> \o Digits(a, AbsLen(a))
RdaddrAfter(a) == IF AddressCode(a) = <<>> THEN m_rdaddr ELSE 0

-----------------------------------------------------------------------------
(* writev *)

\* Mutant: one entry too many is looked at, the one about to be written.
Past_OffByOne == 1..WRTBL
Past == 1..WRTBL-1

\* How far in the past the table holds val, 0 for nowhere.
Caddr(t, val) ==
    LET Slot(i) == (t.wraddr - i) % WRTBL
        Hits == {i \in Past : /\ t.loaded \/ \A k \in 1..i : Slot(k) <= t.wraddr
                              /\ t.tbl[Slot(i)] = val}
    IN  IF Hits = {} THEN 0 ELSE CHOOSE i \in Hits : \A k \in Hits : i <= k

\* One word: t is the table and the characters so far.
Encode(t, val, p) ==
    LET caddr == Caddr(t, val)
        next  == (t.wraddr + 1) % WRTBL
    IN  IF caddr # 0
        THEN [t EXCEPT !.out = @ \o <<16 + Inc(p) + 2 * (caddr \div 64), (caddr % 64)>>]
        ELSE [out |-> t.out \o Raw(24 + Inc(p), val), tbl |-> [t.tbl EXCEPT ![t.wraddr] = val],
              wraddr |-> next, loaded |-> t.loaded \/ next = 0]

\* The block of at most MAXWRLEN words from nw on, and the idle characters looked for behind it.
SendBlock(c, from, prefix) ==
    LET ln  == Least(Len(c.vals) - from, MAXWRLEN)
        t   == FoldLeft(LAMBDA t, v : Encode(t, v, c.inc),
                        [out |-> prefix, tbl |-> m_writetbl, wraddr |-> m_wraddr, loaded |-> m_wrloaded],
                        SubSeq(c.vals, from + 1, from + ln))
        end == IF from + ln = Len(c.vals) THEN <<NL>> ELSE <<>>
    IN  /\ toDev' = toDev \o t.out \o end
        /\ m_writetbl' = t.tbl /\ m_wraddr' = t.wraddr /\ m_wrloaded' = t.loaded
        /\ nw' = from + ln
        /\ pc' = "readidle" /\ last' = FALSE

writev(c) ==
    /\ SendBlock(c, 0, AddressCode(c.a))
    /\ m_addr_set' = TRUE
    /\ m_lastaddr' = c.a + (IF c.inc THEN Least(Len(c.vals), MAXWRLEN) ELSE 0)
    /\ m_rdaddr' = RdaddrAfter(c.a)
    /\ UNCHANGED <<toHost, cmdrd, m_buf, m_readtbl, m_interrupt_flag>>

-----------------------------------------------------------------------------
(* readv *)

READAHEAD == MAXRDLEN \div 2
READBLOCK == Least(512, MAXRDLEN \div 2)

readcmd(inc, len) ==
    IF len <= 8 THEN <<32 + 2 * (len - 1) + Inc(inc)>>
    ELSE <<48 + 2 * ((len - 9) \div 64) + Inc(inc), ((len - 9) % 64)>>

\* The commands for the next reads: as many as may be in flight, in blocks.
Commanded(c, cmd, nread) == Least(c.len - cmd, READAHEAD + READBLOCK - (cmd - nread))
ReadCommands(c, cmd, nread) ==
    LET total == Commanded(c, cmd, nread)
        Cmd(i) == readcmd(c.inc, Least(READBLOCK, total - (i-1) * READBLOCK))
    IN  FlattenSeq([i \in 1..((total + READBLOCK - 1) \div READBLOCK) |-> Cmd(i)]) \o <<NL>>

readv(c) ==
    /\ toDev' = toDev \o AddressCode(c.a) \o ReadCommands(c, 0, 0)
    /\ cmdrd' = Commanded(c, 0, 0)
    /\ m_rdaddr' = RdaddrAfter(c.a)
    /\ pc' = "readword"
    /\ UNCHANGED <<toHost, nw, last, m_buf, address, m_readtbl, wtables, m_interrupt_flag>>

Call ==
    /\ pc = "app" /\ calls < MaxCalls
    /\ calls' = calls + 1
    /\ \E c \in Calls :
          /\ call' = c /\ buf' = <<>>
          /\ \/ c.op = "read" /\ readv(c)
             \/ c.op = "write" /\ writev(c)
             \/ /\ c.op = "wait" /\ pc' = "wait"
                /\ UNCHANGED <<toDev, toHost, cmdrd, nw, last, m_buf, address, tables, wtables, m_interrupt_flag>>

Return == pc' = "app" /\ call' = [op |-> "none"]
Throw  == Return        \* BUSERR, which the program catches

-----------------------------------------------------------------------------
(* readword and readidle: one codeword of the device *)

Kind(c) == IF c = NL THEN "none"
           ELSE IF c < 6 THEN "status" ELSE IF c < 8 THEN "again" ELSE IF c < 16 THEN "address"
           ELSE IF c < 32 THEN "long"  ELSE IF c < 48 THEN "short" ELSE IF c < 56 THEN "unknown" ELSE "raw"
Need(c) == CASE Kind(c) = "address" -> (IF c < 12 THEN 6 ELSE (c % 4) + 2)
             [] Kind(c) = "long"    -> 2
             [] Kind(c) = "raw"     -> 6
             [] OTHER               -> 1

AddressOf(s) == Value(Tail(s)) % 2^30
Past1(k)     == m_readtbl[(m_rdaddr - k) % RDTBL]
\* An unknown character is passed on as a word of zeros.
WordOf(s) ==
    CASE Kind(s[1]) = "again" -> Past1(1)
      [] Kind(s[1]) = "short" -> Past1(((s[1] \div 2) % 8) + 2)
      [] Kind(s[1]) = "long"  -> Past1(((s[1] \div 2) % 8) * 64 + (s[2] % 64) + SHORT + 1)
      [] Kind(s[1]) = "raw"   -> Value(Tail(s))
      [] OTHER                -> 0

\* What a word that has come does to the table and to the address.
LearnWord(s) ==
    IF Kind(s[1]) = "raw"
    THEN /\ m_readtbl' = [m_readtbl EXCEPT ![m_rdaddr] = WordOf(s)]
         /\ m_rdaddr' = (m_rdaddr + 1) % RDTBL
    ELSE UNCHANGED tables
AddrAfter(s) == m_lastaddr + (IF Kind(s[1]) # "unknown" THEN (s[1] % 2) ELSE 0)

(* readv with a word more. More commands are written when few enough are left to
   answer. At the end the address has to be the one after the last word, or the
   program exits. *)
TakeWord(s) ==
    LET n == Len(buf) + 1
    IN  /\ buf' = Append(buf, WordOf(s))
        /\ LearnWord(s) /\ m_lastaddr' = AddrAfter(s) /\ UNCHANGED m_addr_set
        /\ \/ /\ n < call.len /\ (cmdrd = call.len \/ n < cmdrd - READAHEAD)
              /\ pc' = "readword" /\ UNCHANGED <<toDev, cmdrd, call>>
           \/ /\ n < call.len /\ cmdrd < call.len /\ n >= cmdrd - READAHEAD
              /\ toDev' = toDev \o ReadCommands(call, cmdrd, n)
              /\ cmdrd' = cmdrd + Commanded(call, cmdrd, n)
              /\ pc' = "readword" /\ UNCHANGED call
           \/ /\ n = call.len
              /\ IF AddrAfter(s) = call.a + (IF call.inc THEN call.len ELSE 0)
                 THEN Return ELSE pc' = "exit" /\ UNCHANGED call
              /\ UNCHANGED <<toDev, cmdrd>>

TakeStatus(c) ==
    /\ m_interrupt_flag' = (m_interrupt_flag \/ c = 4)
    /\ IF c \in {3, 5} THEN Throw ELSE UNCHANGED call /\ pc' = IF pc = "second" THEN "readidle" ELSE pc

\* The first character of a codeword.
readword ==
    /\ pc = "readword" /\ toHost # <<>>
    /\ toHost' = Tail(toHost)
    /\ LET c == Head(toHost)
       IN  \/ /\ Kind(c) = "none"
              /\ UNCHANGED <<toDev, pc, call, cmdrd, m_buf, buf, address, tables, m_interrupt_flag>>
           \/ /\ Kind(c) = "status" /\ TakeStatus(c)
              /\ UNCHANGED <<toDev, cmdrd, m_buf, buf, address, tables>>
           \/ /\ Need(c) > 1 /\ m_buf' = <<c>> /\ pc' = "rest"
              /\ UNCHANGED <<toDev, call, cmdrd, buf, address, tables, m_interrupt_flag>>
           \/ /\ Kind(c) \notin {"none", "status"} /\ Need(c) = 1
              /\ TakeWord(<<c>>)
              /\ UNCHANGED <<m_buf, m_interrupt_flag>>
    /\ UNCHANGED <<nw, last, calls, wtables>>

\* More characters of it, as many as there are of those wanted.
More == LET n == Least(Need(m_buf[1]) - Len(m_buf), Len(toHost))
        IN  /\ toHost # <<>>
            /\ m_buf' = m_buf \o Codes(SubSeq(toHost, 1, n))
            /\ toHost' = SubSeq(toHost, n + 1, Len(toHost))

readword_Rest ==
    /\ pc = "rest" /\ More
    /\ \/ /\ Len(m_buf') < Need(m_buf[1])
          /\ UNCHANGED <<toDev, pc, call, cmdrd, buf, address, tables>>
       \/ /\ Len(m_buf') = Need(m_buf[1]) /\ Kind(m_buf[1]) = "address"
          /\ m_addr_set' = TRUE /\ m_lastaddr' = AddressOf(m_buf') /\ pc' = "readword"
          /\ UNCHANGED <<toDev, call, cmdrd, buf, tables>>
       \/ /\ Len(m_buf') = Need(m_buf[1]) /\ Kind(m_buf[1]) # "address"
          /\ TakeWord(m_buf')
    /\ UNCHANGED <<nw, last, calls, wtables, m_interrupt_flag>>

-----------------------------------------------------------------------------
(* readidle. The condition of its loop reads a character, and the first line of its
   body another one over it. *)


\* The loop has ended, with a for m_lastaddr: the next block of the write, or the
\* second readidle, or the return. writeio sets the address once more.
IdleEnd(a) ==
    \/ /\ nw < Len(call.vals)
       /\ SendBlock(call, nw, <<>>)
       /\ m_lastaddr' = a + (IF call.inc THEN Least(Len(call.vals) - nw, MAXWRLEN) ELSE 0)
       /\ UNCHANGED call
    \/ /\ nw = Len(call.vals) /\ ~last
       /\ last' = TRUE /\ pc' = "readidle" /\ m_lastaddr' = a
       /\ UNCHANGED <<toDev, call, nw, wtables>>
    \/ /\ nw = Len(call.vals) /\ last
       /\ Return /\ m_lastaddr' = IF call.io THEN call.a ELSE a
       /\ UNCHANGED <<toDev, nw, last, wtables>>

readidle ==
    /\ pc = "readidle"
    /\ IF toHost = <<>> THEN IdleEnd(m_lastaddr) /\ UNCHANGED toHost
       ELSE /\ toHost' = Tail(toHost)
            /\ IF Head(toHost) = NL THEN IdleEnd(m_lastaddr)
               ELSE pc' = "second" /\ UNCHANGED <<toDev, call, nw, last, wtables, m_lastaddr>>
    /\ UNCHANGED <<cmdrd, m_buf, buf, calls, m_addr_set, tables, m_interrupt_flag>>

readidle_Second ==
    /\ pc = "second" /\ toHost # <<>>
    /\ toHost' = Tail(toHost)
    /\ LET c == Head(toHost)
       IN  \/ /\ Kind(c) = "none" /\ pc' = "readidle"
              /\ UNCHANGED <<toDev, call, nw, last, m_buf, m_lastaddr, tables, wtables, m_interrupt_flag>>
           \/ /\ Kind(c) = "status" /\ TakeStatus(c)
              /\ UNCHANGED <<toDev, nw, last, m_buf, m_lastaddr, tables, wtables>>
           \/ /\ Need(c) > 1 /\ m_buf' = <<c>> /\ pc' = "idlerest"
              /\ UNCHANGED <<toDev, call, nw, last, m_lastaddr, tables, wtables, m_interrupt_flag>>
           \/ /\ Kind(c) \notin {"none", "status"} /\ Need(c) = 1
              /\ LearnWord(<<c>>) /\ IdleEnd(AddrAfter(<<c>>))
              /\ UNCHANGED <<m_buf, m_interrupt_flag>>
    /\ UNCHANGED <<cmdrd, buf, calls, m_addr_set>>

readidle_Rest ==
    /\ pc = "idlerest" /\ More
    /\ \/ /\ Len(m_buf') < Need(m_buf[1])
          /\ UNCHANGED <<toDev, pc, call, nw, last, m_lastaddr, tables, wtables>>
       \/ /\ Len(m_buf') = Need(m_buf[1]) /\ Kind(m_buf[1]) = "address"
          /\ pc' = "readidle"
          /\ UNCHANGED <<toDev, call, nw, last, m_lastaddr, tables, wtables>>
       \/ /\ Len(m_buf') = Need(m_buf[1]) /\ Kind(m_buf[1]) # "address"
          /\ LearnWord(m_buf') /\ IdleEnd(AddrAfter(m_buf'))
    /\ UNCHANGED <<cmdrd, buf, calls, m_addr_set, m_interrupt_flag>>

-----------------------------------------------------------------------------
(* wait: usleep drops whatever has come, sixteen characters at a time, and looks only
   for an interrupt in it. *)
wait ==
    /\ pc = "wait" /\ (toHost # <<>> \/ m_interrupt_flag)
    /\ LET n == Least(16, Len(toHost))
       IN  /\ toHost' = SubSeq(toHost, n + 1, Len(toHost))
           /\ m_interrupt_flag' = (m_interrupt_flag \/ 4 \in ToSet(SubSeq(toHost, 1, n)))
    /\ IF m_interrupt_flag' THEN Return ELSE UNCHANGED <<pc, call>>
    /\ UNCHANGED <<toDev, cmdrd, nw, last, m_buf, buf, calls, address, tables, wtables>>

\* The program ends, wherever it is, and another one begins; the streams stay.
NewProgram ==
    /\ calls > 0 /\ calls < MaxCalls
    /\ pc' = "app" /\ call' = [op |-> "none"] /\ cmdrd' = 0 /\ nw' = 0 /\ last' = FALSE
    /\ m_buf' = <<>> /\ m_addr_set' = FALSE /\ m_lastaddr' = 0 /\ m_interrupt_flag' = FALSE
    /\ m_readtbl' = [i \in 0..RDTBL-1 |-> 0] /\ m_rdaddr' = 0
    /\ m_writetbl' = [i \in 0..WRTBL-1 |-> 0] /\ m_wraddr' = 0 /\ m_wrloaded' = FALSE
    /\ UNCHANGED <<toDev, toHost, buf, calls>>

HostStep == readword \/ readword_Rest \/ readidle \/ readidle_Second \/ readidle_Rest \/ wait
=============================================================================
