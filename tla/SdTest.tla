------------------------------- MODULE SdTest -------------------------------
(* The SD card test of the board, sw/board/sdtest.c, the controller it drives
   through four registers, rtl/sdspi, and the simulated card (SdCard) on the
   controller's wires. The program is the list of its register accesses: what it
   prints is left out, so a comparison that only chooses a message is no step.
   A transfer on the wires is one unit of SdCard in each direction. The card may be
   pulled out at any time, and then the line from it reads as ones. *)
EXTENDS SdCard

(* The test reads the sectors 0 to 4. *)
ASSUME TestAssumption == NSECTORS > 4

VARIABLES card,    \* SDSPISIM
          ctl,     \* the registers of sdspi.v and of the modules in it
          pc,      \* the next register access of main
          pulled   \* no card answers any more

vars == <<card, ctl, pc, pulled>>

FIFOs == {0, 1}
Junk  == 999       \* a word put together from bytes that are no word

-----------------------------------------------------------------------------
(* sdtest.c *)

HCS == 2^30
Set(v)     == <<[op |-> "data", v |-> v]>>
Ctrl(n)    == [op |-> "ctrl", n |-> n, clr |-> FALSE, reg |-> FALSE, fifo |-> FALSE, wr |-> FALSE, id |-> 0]
SETAUX     == <<Ctrl(255)>>
READAUX    == <<Ctrl(191)>>
CMD(n)     == <<Ctrl(n)>>
READREG(n) == <<[Ctrl(n) EXCEPT !.reg = TRUE]>>
FIFO_OP(n, id) == <<[Ctrl(n) EXCEPT !.clr = TRUE, !.fifo = TRUE, !.id = id]>>
WRITEOP(n) == <<[Ctrl(n) EXCEPT !.clr = TRUE, !.fifo = TRUE, !.wr = TRUE]>>
CLEARERR(c) == <<[c[1] EXCEPT !.clr = TRUE]>>
WAIT       == <<[op |-> "wait"]>>
Fifo(id)   == [i \in 1..BLKWORDS |-> [op |-> "get", id |-> id]]
Fill(id)   == [i \in 1..BLKWORDS |-> [op |-> "put", id |-> id]]
READ_SECTOR(s, id) == Set(s) \o FIFO_OP(17, id)

\* Mutant: ACMD41 is written while CMD55 still runs.
Idle41_NoWait == Set(0) \o CMD(55) \o Set(HCS) \o CMD(41) \o WAIT

\* ACMD41 until the card is no longer idle.
Idle41 == Set(0) \o CMD(55) \o WAIT \o Set(HCS) \o CMD(41) \o WAIT
Startup ==
    Set(0) \o CLEARERR(READAUX) \o Set(0) \o CMD(0) \o WAIT
    \o Set(769) \o Set(867) \o SETAUX \o READAUX \o Set(1793) \o SETAUX \o READAUX
    \o Set(HCS) \o CMD(1) \o WAIT \o Set(421) \o READREG(8) \o WAIT
    \o Idle41 \o <<[op |-> "while1", back |-> Len(Idle41)]>>
    \o Set(0) \o READREG(58) \o WAIT

\* The registers of the card; the content of a FIFO is read while the next command runs.
CsdCidAndStatus ==
    Set(513) \o SETAUX \o READAUX \o Set(0) \o FIFO_OP(9, 0) \o WAIT
    \o Set(513) \o SETAUX \o READAUX \o Set(0) \o FIFO_OP(10, 1) \o Fifo(0) \o WAIT
    \o Set(0) \o CLEARERR(READREG(13)) \o Fifo(1) \o WAIT
CidAgainAndScr ==
    Set(512) \o SETAUX \o Set(0) \o FIFO_OP(10, 1) \o WAIT \o Fifo(1)
    \o Set(256) \o SETAUX \o Set(0) \o CLEARERR(CMD(55)) \o WAIT \o Set(0) \o FIFO_OP(51, 0) \o WAIT \o Fifo(0)

ReadBack(s) == READ_SECTOR(s, 0) \o WAIT \o Fifo(0)
ReadSectors ==
    Set(1793) \o SETAUX \o ReadBack(0) \o ReadBack(1) \o ReadBack(2) \o ReadBack(3) \o ReadBack(4)

Again3 == READ_SECTOR(3, 0) \o WAIT
WriteSector ==
    Set(1793) \o SETAUX \o Fill(0) \o SETAUX \o Fill(1) \o Set(2) \o WRITEOP(24) \o WAIT
    \o READ_SECTOR(3, 0) \o WAIT \o <<[op |-> "iferr", skip |-> Len(Again3)]>> \o Again3
    \o READ_SECTOR(2, 1) \o Fifo(0) \o WAIT \o Set(0) \o READAUX \o Fifo(1)

main == Startup \o CsdCidAndStatus \o CidAgainAndScr \o ReadSectors \o WriteSector

-----------------------------------------------------------------------------
(* The registers. data is what r_data_reg holds, and where it comes from. *)

Controller ==
    [phase |-> "off", busy |-> FALSE, err |-> FALSE, r1 |-> 0, data |-> [from |-> "bus", v |-> 0],
     lgblklen |-> 9, id |-> 0, usefifo |-> FALSE, wr |-> FALSE, n |-> 0, arg |-> 0, left |-> 0, rsp |-> <<>>,
     ptr |-> 0, addr |-> 0, fifo |-> [f \in FIFOs |-> [i \in 1..BLKWORDS |-> Junk]]]

BlkLen(c) == IF c.lgblklen = 9 THEN BLKWORDS ELSE 1

WriteData(c, v) == IF c.busy THEN c ELSE [c EXCEPT !.data = [from |-> "bus", v |-> v]]

StartCommand(c, w) ==
    [c EXCEPT !.busy = TRUE, !.phase = "send", !.usefifo = w.fifo, !.wr = w.wr, !.n = w.n, !.arg = c.data.v,
              !.left = IF w.reg THEN 5 ELSE 1, !.rsp = <<>>]

\* Any write of this register takes the bus back to the start of the FIFOs.
WriteCtrl(c, w) ==
    LET start == [c EXCEPT !.ptr = 0]
        new   == [start EXCEPT !.id = w.id, !.err = @ /\ ~w.clr]
        aux   == [from |-> "aux", v |-> 0]
        lg    == (c.data.v \div 2^16) % 16
    IN CASE c.busy -> start
         [] ~c.busy /\ w.n = 191 -> [new EXCEPT !.data = aux]
         [] ~c.busy /\ w.n = 255  -> [new EXCEPT !.data = aux, !.lgblklen = IF lg \in 3..9 THEN lg ELSE @]
         [] OTHER -> StartCommand(new, w)

\* Both FIFOs share the pointer of the bus; the one a transfer fills is not the bus's to write.
WriteFifo(c, id, w) ==
    [c EXCEPT !.ptr = (@ + 1) % BLKWORDS,
              !.fifo[id] = IF c.busy /\ c.usefifo /\ ~c.wr /\ c.id = id THEN @ ELSE [@ EXCEPT ![c.ptr + 1] = w]]
ReadFifo(c) == [c EXCEPT !.ptr = (@ + 1) % BLKWORDS]

-----------------------------------------------------------------------------
(* The wires *)

Sent(c) ==
    CASE c.phase = "send"    -> Command(c.n, c.arg)
      [] c.phase = "txtoken" -> StartToken
      [] c.phase = "txdata"  -> Word(c.fifo[c.id][c.addr + 1])
      [] c.phase = "txcrc"   -> CRC(SubSeq(c.fifo[c.id], 1, BlkLen(c)))
      [] OTHER -> Ones

\* The byte, where the controller looks for one.
Byt(u)   == IF u.k = "byte" THEN u.v[1] ELSE 255
WordOf(u) == IF u.k = "word" THEN u.v[1] ELSE Junk
Bit(b, i) == (b \div 2^i) % 2 = 1

\* spicmd: the first byte with its top bit clear, and four more for some commands.
ReceiveR(c, u) ==
    IF c.rsp = <<>> /\ Bit(Byt(u), 7) THEN c
    ELSE LET rsp == Append(c.rsp, Byt(u))
             err == c.err \/ (rsp[1] % 128) \div 2 # 0
         IN IF Len(rsp) < c.left THEN [c EXCEPT !.rsp = rsp]
            ELSE [c EXCEPT !.rsp = rsp, !.r1 = rsp[1], !.err = err, !.addr = 0,
                           !.data = [from |-> "cmd", v |-> IF c.left = 1 THEN 255 ELSE rsp[5]],
                           !.phase = IF ~c.usefifo \/ err THEN "off" ELSE IF c.wr THEN "txtoken" ELSE "rxtoken"]

\* spirxdata
RxToken(c, u) ==
    CASE Byt(u) < 16 -> [c EXCEPT !.phase = "off", !.data = [from |-> "rx", v |-> Byt(u)], !.err = @ \/ Bit(Byt(u), 3)]
      [] Byt(u) >= 16 /\ ~Bit(Byt(u), 0) -> [c EXCEPT !.phase = "rxdata"]
      [] OTHER -> c
RxData(c, u) ==
    [c EXCEPT !.fifo[c.id][c.addr + 1] = WordOf(u), !.addr = @ + 1,
              !.phase = IF c.addr + 1 = BlkLen(c) THEN "rxcrc" ELSE @]
\* Mutant: the CRC of a block is not looked at.
RxCrc_Unchecked(c, u) == [c EXCEPT !.phase = "off", !.data = [from |-> "rx", v |-> 0]]

RxCrc(c, u) ==
    LET ok == u = CRC(SubSeq(c.fifo[c.id], 1, BlkLen(c)))
    IN [c EXCEPT !.phase = "off", !.data = [from |-> "rx", v |-> IF ok THEN 0 ELSE 16]]

\* spitxdata
\* Mutant: bit 4 of the token is not looked at.
IsResponse_Bit0(b) == Bit(b, 0)

IsResponse(b) == Bit(b, 0) /\ ~Bit(b, 4)
TxResponse(c, u) ==
    IF IsResponse(Byt(u)) THEN [c EXCEPT !.phase = "txbusy", !.data = [from |-> "tx", v |-> Byt(u)]] ELSE c
TxIdle(c, u, next) == IF u = Ones THEN [c EXCEPT !.phase = next] ELSE c
TxData(c) == [c EXCEPT !.addr = @ + 1, !.phase = IF c.addr + 1 = BlkLen(c) THEN "txcrc" ELSE @]

Took(c, u) ==
    CASE c.phase = "send"    -> [c EXCEPT !.phase = "answer"]
      [] c.phase = "answer"  -> ReceiveR(c, u)
      [] c.phase = "rxtoken" -> RxToken(c, u)
      [] c.phase = "rxdata"  -> RxData(c, u)
      [] c.phase = "rxcrc"   -> RxCrc(c, u)
      [] c.phase = "txtoken" -> [c EXCEPT !.phase = "txdata"]
      [] c.phase = "txdata"  -> TxData(c)
      [] c.phase = "txcrc"   -> [c EXCEPT !.phase = "txanswer"]
      [] c.phase = "txanswer" -> TxResponse(c, u)
      [] c.phase = "txbusy"  -> TxIdle(c, u, "txidle")
      [] c.phase = "txidle"  -> TxIdle(c, u, "off")

\* With all of its parts idle the controller deselects the card.
Settle(c) == IF c.phase = "off" THEN [c EXCEPT !.busy = FALSE, !.usefifo = FALSE] ELSE c

Expired(c) == Settle([c EXCEPT !.phase = "off", !.err = TRUE])

-----------------------------------------------------------------------------
Init ==
    /\ card \in {PowerUp(f) : f \in BOOLEAN}
    /\ ctl = Controller
    /\ pc = 1
    /\ pulled = FALSE

Access(o) ==
    \/ o.op = "data" /\ ctl' = WriteData(ctl, o.v) /\ pc' = pc + 1
    \/ o.op = "ctrl" /\ ctl' = WriteCtrl(ctl, o) /\ pc' = pc + 1
    \/ o.op = "get"  /\ ctl' = ReadFifo(ctl) /\ pc' = pc + 1
    \/ o.op = "put"  /\ ctl' = WriteFifo(ctl, o.id, 0) /\ pc' = pc + 1
    \/ o.op = "wait" /\ ~ctl.busy /\ pc' = pc + 1 /\ UNCHANGED ctl
    \/ o.op = "while1" /\ pc' = (IF Bit(ctl.r1, 0) THEN pc - o.back ELSE pc + 1) /\ UNCHANGED ctl
    \/ o.op = "iferr" /\ pc' = (IF ctl.err THEN pc + 1 ELSE pc + 1 + o.skip) /\ UNCHANGED ctl

Running == ~card.failed

\* The CPU's next access.
Cpu == Running /\ pc \in DOMAIN main /\ Access(main[pc]) /\ UNCHANGED <<card, pulled>>

\* One unit each way.
Transfer ==
    /\ Running /\ ctl.busy
    /\ ctl' = Settle(Took(ctl, IF pulled THEN Ones ELSE card.out))
    /\ card' = IF pulled THEN card
               ELSE IF ctl'.busy THEN Receive(card, Sent(ctl)) ELSE Deselect(Receive(card, Sent(ctl)))
    /\ UNCHANGED <<pc, pulled>>

\* The card answers long before r_watchdog runs out, unless it has nothing to answer.
Watchdog ==
    /\ Running /\ ctl.busy
    /\ Took(ctl, Ones) = ctl
    /\ pulled \/ Silent(card)
    /\ ctl' = Expired(ctl)
    /\ card' = IF pulled \/ ctl'.busy THEN card ELSE Deselect(card)
    /\ UNCHANGED <<pc, pulled>>

CardReady == Running /\ card.powerup = "busy" /\ card' = Ready(card) /\ UNCHANGED <<ctl, pc, pulled>>

Pull == Running /\ ~pulled /\ pulled' = TRUE /\ UNCHANGED <<card, ctl, pc>>

Next == Cpu \/ Transfer \/ Watchdog \/ CardReady \/ Pull

\* The CPU, the wires, the watchdog and the card's power up are all driven by the clock.
Spec == Init /\ [][Next]_vars /\ WF_vars(Cpu) /\ WF_vars(Transfer) /\ WF_vars(Watchdog) /\ WF_vars(CardReady)

-----------------------------------------------------------------------------
(* The command whose result the registers show: it is over and its answer has
   not been overwritten. *)
Shows(n, from) == ~ctl.busy /\ ctl.n = n /\ ctl.data.from = from /\ ~ctl.err

(* No assertion of the simulated card fails: the commands come in the order the card
   wants, its line is quiet while it answers and no sector is out of its range. (If the
   flag that nothing initialises starts set, the very first command fails.) *)
CardAssertionsHold == card.failed => card.unset

(* A read that ends without an error and with a good CRC has left the sector asked
   for in the FIFO asked for, wherever the card was pulled. *)
ReadIsSector ==
    Shows(17, "rx") /\ ctl.data.v = 0 => ctl.fifo[ctl.id] = Sector(ctl.arg)

(* A write that ends without an error was taken by the card, as the bus left it in the FIFO. *)
WriteIsAccepted == Shows(24, "tx") => card.accepted = [i \in 1..BLKWORDS |-> 0]

(* The test gets to its end, unless the card is pulled: the wait for the end of
   the card's idle state reads a status that no watchdog changes. *)
TestEnds == <>(pc \notin DOMAIN main \/ pulled \/ card.failed)
=============================================================================
