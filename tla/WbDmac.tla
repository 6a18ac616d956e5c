------------------------------ MODULE WbDmac ------------------------------
(* rtl/cpu/wbdmac.v, clock by clock, with the memory it copies in. A transfer goes in
   blocks: up to a block of words is read into dma_mem, then written. A write to
   the engine's registers takes effect one clock after the bus sees it (DELAY_ACCESS), and
   only while the engine is idle.

   The bus between engine and memory is external here (WbXbar models it). It takes one
   request into its skid buffer, and stalls until the crossbar has granted the slave. From
   then on block memory takes a write on every clock, while the flash may stall reads.
   Requests are answered in order, LATENCY clocks after they reached the slave or
   later, or with an error, after which the others are dropped. Addresses are those of
   words, and memory is one array. Transfers paced by a device's interrupt are
   left out, as are user_halt and abort: the software under src/sw asks for neither of a
   busy engine. *)
EXTENDS Integers, Sequences

CONSTANTS LGMEMLEN,   \* log of the words in a block
          LATENCY,    \* clocks the bus needs for an answer
          Memory,     \* the addresses
          Junk        \* what nobody has written

(* A block has two words or more. The engine counts on an answer taking two clocks: with fewer it
   takes the answer before the last for the last (wbdmac.v:474). One that passes the crossbar's
   registers and the memory's takes more. *)
ASSUME DmacAssumption ==
    /\ LGMEMLEN \in Nat \ {0} /\ 2^LGMEMLEN \in Nat \ {0, 1}
    /\ LATENCY \in Nat \ {0, 1}
    /\ Memory \subseteq Nat

VARIABLES dma,   \* the engine
          s,     \* the register access the engine sees this clock
          bus,   \* requests taken and not answered, and whether the slave is granted
          mem

dmaVars == <<dma, s, bus, mem>>

None == [reg |-> "none", val |-> 0]
Controls == {"DMACLEAR", "DMACCOPY", "DMA_CONSTSRC"}   \* writes to the control register
Block == 0..(2^LGMEMLEN - 1)

(* What a reset leaves alone are the addresses and the block. *)
DmaReset(d) ==
    [state |-> "IDLE", len |-> 0, incs |-> FALSE, nracks |-> 0, nread |-> 0, nwritten |-> 0, nwacks |-> 0,
     last_read_request |-> FALSE, last_read_ack |-> FALSE,
     last_write_request |-> FALSE, last_write_ack |-> FALSE,
     trigger |-> FALSE, interrupt |-> FALSE, rdaddr |-> 0, data |-> Junk,
     raddr |-> d.raddr, waddr |-> d.waddr, addr |-> d.addr, dma_mem |-> d.dma_mem]
PowerOn == DmaReset([raddr |-> 0, waddr |-> 0, addr |-> 0, dma_mem |-> [i \in Block |-> Junk]])

Cyc(d) == d.state \in {"READ_REQ", "READ_ACK", "WRITE_REQ", "WRITE_ACK"}
Stb(d) == d.state \in {"READ_REQ", "WRITE_REQ"}
We(d)  == d.state \in {"PRE_WRITE", "WRITE_REQ", "WRITE_ACK"}
sub_one == 2^LGMEMLEN - 1

(* dma_state: what an answer decides comes after what the request decides, and wins. *)
AfterWrite(d) == IF d.len <= 1 THEN "IDLE" ELSE "WAIT"
NextState(d, stall, ack, err) ==
    CASE d.state = "IDLE" -> IF s.reg \in Controls \ {"DMACLEAR"} /\ d.len > 0 THEN "WAIT" ELSE "IDLE"
      [] d.state = "WAIT" -> IF d.trigger THEN "READ_REQ" ELSE "WAIT"
      [] d.state = "PRE_WRITE" -> "WRITE_REQ"
      [] d.state \in {"READ_REQ", "READ_ACK"} ->
            IF err THEN "IDLE"
            ELSE IF ack /\ d.last_read_ack THEN "PRE_WRITE"
            ELSE IF ~stall /\ d.last_read_request THEN "READ_ACK" ELSE d.state
      [] d.state \in {"WRITE_REQ", "WRITE_ACK"} ->
            IF err THEN "IDLE"
            ELSE IF ack /\ d.last_write_ack THEN AfterWrite(d)
            ELSE IF d.len = 0 THEN "IDLE"
            ELSE IF ~stall /\ d.last_write_request THEN "WRITE_ACK" ELSE d.state

One(b) == IF b THEN 1 ELSE 0

(* The four flags are registers, worked out one clock ahead of their use. *)
LastReadRequest(d, stall) ==
    /\ d.state \in {"WAIT", "READ_REQ"}
    /\ IF d.state = "READ_REQ" /\ ~stall
       THEN d.nracks + 1 = sub_one \/ d.nracks = d.len - 2
       ELSE d.nracks = sub_one \/ d.nracks = d.len - 1
LastReadAck(d, stall, ack) ==
    LET ahead == ack /\ (~Stb(d) \/ stall) IN
      \/ d.state = "READ_REQ" /\ (IF ahead THEN d.nread + 1 ELSE d.nread) = sub_one
      \/ d.state = "READ_ACK" /\ d.nracks = (IF ahead THEN d.nread + 2 ELSE d.nread + 1)
LastWriteRequest(d, stall) ==
    \/ d.state = "PRE_WRITE" /\ d.nread <= 1
    \/ d.state = "WRITE_REQ" /\ LET n == IF stall THEN 1 ELSE 2 IN d.nread >= n /\ d.nwritten >= d.nread - n
LastWriteAck(d, stall, ack) ==
    /\ d.state \in {"WRITE_REQ", "WRITE_ACK"}
    /\ d.nwritten = d.nwacks + (IF ack /\ (~Stb(d) \/ stall) THEN 2 ELSE 1)

Step(d, b) == One(d.incs /\ b)

(* A clock of the engine. "word" is what the bus returns with an answer. *)
DmaClock(d, stall, ack, err, word) ==
    LET taken == Stb(d) /\ ~stall
        rd == ack /\ d.state \in {"READ_REQ", "READ_ACK"}
        wr == ack /\ Cyc(d) /\ We(d)
        idle == d.state = "IDLE"
    IN [state |-> NextState(d, stall, ack, err),
        raddr |-> IF idle /\ s.reg = "rd" THEN s.val ELSE d.raddr + Step(d, rd),
        waddr |-> IF idle /\ s.reg = "wr" THEN s.val ELSE d.waddr + One(d.state = "WRITE_REQ" /\ taken),
        len |-> IF idle /\ s.reg = "len" THEN s.val ELSE d.len - One(wr),
        incs |-> IF idle /\ s.reg \in Controls THEN s.reg = "DMACCOPY" ELSE d.incs,
        addr |-> CASE d.state \in {"IDLE", "WAIT"} -> d.raddr
                   [] d.state = "PRE_WRITE" -> d.waddr
                   [] d.state = "READ_REQ" -> d.addr + Step(d, taken)
                   [] OTHER -> d.addr + One(d.state = "WRITE_REQ" /\ taken),
        nracks |-> IF d.state \in {"IDLE", "WAIT"} THEN 0 ELSE d.nracks + One(d.state = "READ_REQ" /\ taken),
        nread |-> IF d.state \in {"IDLE", "WAIT"} THEN 0 ELSE d.nread + One(rd),
        nwritten |-> IF Cyc(d) /\ We(d) THEN d.nwritten + One(taken) ELSE 0,
        nwacks |-> IF Cyc(d) /\ We(d) THEN d.nwacks + One(ack) ELSE 0,
        last_read_request |-> LastReadRequest(d, stall),
        last_read_ack |-> LastReadAck(d, stall, ack),
        last_write_request |-> LastWriteRequest(d, stall),
        last_write_ack |-> LastWriteAck(d, stall, ack),
        trigger |-> d.state = "WAIT",
        interrupt |-> \/ d.state = "WRITE_ACK" /\ ack /\ d.last_write_ack /\ d.len = 1
                      \/ ~idle /\ err,
        rdaddr |-> CASE d.state \in {"IDLE", "WAIT", "WRITE_ACK"} -> 0
                     [] d.state = "PRE_WRITE" \/ (d.state = "WRITE_REQ" /\ taken) -> (d.rdaddr + 1) % (2^LGMEMLEN)
                     [] OTHER -> d.rdaddr,
        data |-> IF d.state = "WRITE_REQ" /\ stall THEN d.data ELSE d.dma_mem[d.rdaddr],
        dma_mem |-> IF d.state \in {"READ_REQ", "READ_ACK"}
                    THEN [d.dma_mem EXCEPT ![d.nread % (2^LGMEMLEN)] = word] ELSE d.dma_mem]

(* The bus and the memory: writes are done at the latest when they are answered. *)
NoCycle == [granted |-> FALSE, requests |-> <<>>]
Request(d) == [we |-> We(d), addr |-> d.addr, data |-> d.data, age |-> 0]
Aged(q) == [i \in DOMAIN q |-> IF q[i].age < LATENCY THEN [q[i] EXCEPT !.age = @ + 1] ELSE q[i]]
Oldest == Head(bus.requests)
Answers ==
    IF bus.requests # <<>> /\ Oldest.age = LATENCY THEN {"none", "ack", "err"} ELSE {"none"}
Stalls ==
    IF ~Stb(dma) THEN {FALSE}
    ELSE IF ~bus.granted THEN {bus.requests # <<>>}
    ELSE IF We(dma) THEN {FALSE} ELSE BOOLEAN
Grants == IF bus.granted \/ bus.requests = <<>> THEN {bus.granted} ELSE BOOLEAN
BusAfter(grant, stall, answer) ==
    LET left == IF answer = "ack" THEN Tail(bus.requests) ELSE bus.requests
    IN IF answer = "err" \/ ~Cyc(dma) THEN NoCycle
       ELSE [granted |-> grant,
             requests |-> (IF bus.granted THEN Aged(left) ELSE left)
                          \o (IF Stb(dma) /\ ~stall THEN <<Request(dma)>> ELSE <<>>)]
Performed(m, r) == IF r.we THEN [m EXCEPT ![r.addr] = r.data] ELSE m
Transfer(grant, stall, answer) ==
    /\ dma' = DmaClock(dma, stall, answer = "ack", answer = "err",
                       IF answer = "ack" /\ ~Oldest.we THEN mem[Oldest.addr] ELSE Junk)
    /\ bus' = BusAfter(grant, stall, answer)

(* Where a cycle is dropped, of the writes taken the first few have been done. *)
WritesTo(a, i, j) == {n \in i..j : bus.requests[n].we /\ bus.requests[n].addr = a}
After(k) ==
    [a \in Memory |-> IF WritesTo(a, 1, k) = {} THEN mem[a]
                      ELSE bus.requests[CHOOSE n \in WritesTo(a, 1, k) : WritesTo(a, n + 1, k) = {}].data]
Aborted == {After(k) : k \in 0..Len(bus.requests)}
Written(answer) ==
    IF answer = "err" \/ ~Cyc(dma) THEN Aborted
    ELSE {IF answer = "ack" THEN Performed(mem, Oldest) ELSE mem}
=============================================================================
