------------------------------ MODULE FlashSim ------------------------------
(* The serial flash of the board as sim/verilated/flashsim.cpp has it. A chip
   is a record of the simulator's members and an operator is what one event
   does to it: eight clocks of its interface (Receive), the rise of chip select
   (Deselect), the end of an erase or program cycle (Complete).

   A byte on the wires is a pair: a command, one of the three digits of an
   address (sector, page, offset in the page), or data. A data byte is the set of
   its bits that are one, so that an erased byte is Bits and programming, which
   only clears bits, is intersection. Dual mode, which the controller of this board
   never enters, and the status bits that nothing here reads are left out. *)
EXTENDS Naturals, Sequences

CONSTANTS Bits,      \* the bits of a byte
          PGLENB,    \* bytes of a page
          NPAGES,    \* pages of a sector
          NSECTORS   \* sectors of the chip

ASSUME FlashAssumption == PGLENB \in Nat \ {0} /\ NPAGES \in Nat \ {0} /\ NSECTORS \in Nat \ {0}

SECTORSZB == NPAGES * PGLENB
FLASHLEN  == NSECTORS * SECTORSZB
Offsets   == 0..(FLASHLEN - 1)
Byte      == SUBSET Bits
Erased    == Bits
PAGEOF(a)   == a - (a % PGLENB)
SECTOROF(a) == a - (a % SECTORSZB)

Cmd(c)  == <<"cmd", c>>
Adr(d)  == <<"adr", d>>
Dat(b)  == <<"dat", b>>
Junk    == <<"junk">>
ModeByte == <<"cmd", "A0">>

AddressBytes(a) == <<Adr(a \div SECTORSZB), Adr((a \div PGLENB) % NPAGES), Adr(a % PGLENB)>>
AddressIn(ireg) == IF \A i \in DOMAIN ireg : ireg[i][1] = "adr"
                   THEN ireg[1][2] * SECTORSZB + ireg[2][2] * PGLENB + ireg[3][2]
                   ELSE FLASHLEN - 1

(* FLASHSIM::FLASHSIM, with a mem of choice: after power up the controller has
   put the chip into quad reads, with a mode byte that keeps it there. *)
PowerUp(mem) ==
    [state |-> "QUAD_READ_IDLE", mode |-> "QSPI", wel |-> FALSE, wip |-> FALSE, asleep |-> FALSE,
     n |-> 0, ireg |-> <<>>, addr |-> 0, pmem |-> [i \in 0..(PGLENB - 1) |-> Erased],
     keep |-> TRUE, out |-> Junk, mem |-> mem]

(* FLASHSIM::load: what is not loaded is erased. *)
Loaded(addr, data) ==
    [i \in Offsets |-> IF i >= addr /\ i < addr + Len(data) THEN data[i - addr + 1] ELSE Erased]

At(mem, a) == IF a \in DOMAIN mem THEN Dat(mem[a]) ELSE Junk

Busy(c) == [c EXCEPT !.state = "IDLE", !.wel = FALSE, !.wip = TRUE]

(* The timer m_write_count runs out. *)
Complete(c) == [c EXCEPT !.wip = FALSE, !.wel = FALSE, !.asleep = FALSE]

ProgramPage(c) ==
    [Busy(c) EXCEPT !.mode = "SPI",
        !.mem = [i \in Offsets |-> IF PAGEOF(i) = PAGEOF(c.addr)
                                   THEN c.mem[i] \cap c.pmem[i % PGLENB] ELSE c.mem[i]]]

EraseSector(c) ==
    [Busy(c) EXCEPT !.addr = SECTOROF(c.addr),
        !.mem = [i \in Offsets |-> IF SECTOROF(i) = SECTOROF(c.addr) THEN Erased ELSE c.mem[i]]]

EndRead(c) == IF c.keep THEN [c EXCEPT !.state = "QUAD_READ_IDLE"] ELSE [c EXCEPT !.mode = "SPI"]

(* Chip select rises: what was asked for starts, whatever of it has arrived. *)
Deselect(c0) ==
    LET c == [c0 EXCEPT !.n = 0, !.ireg = <<>>, !.out = Junk] IN
    CASE c.state \in {"PP", "QPP"} -> ProgramPage(c)
      [] c.state = "SECTOR_ERASE"  -> EraseSector(c)
      [] c.state = "WRSR"          -> Busy(c)
      [] c.state = "BULK_ERASE"    -> [Busy(c) EXCEPT !.mem = [i \in Offsets |-> Erased]]
      [] c.state \in {"CLSR", "RELEASE"} -> [c EXCEPT !.state = "IDLE"]
      [] c.state \in {"QUAD_READ_CMD", "QUAD_READ"} -> EndRead(c)
      [] OTHER -> c

Writable(c) == c.wel /\ ~c.wip /\ ~c.asleep

(* The first byte after chip select falls. *)
Command(c, cmd) ==
    IF c.asleep /\ cmd # "RES" THEN c ELSE
    CASE cmd \in {"WRSR", "PP", "QPP", "BULK_ERASE", "SECTOR_ERASE"} ->
            [c EXCEPT !.state = IF Writable(c) THEN cmd ELSE "INVALID"]
      [] cmd = "WRDI" -> [c EXCEPT !.state = "IDLE", !.wel = FALSE]
      [] cmd = "WREN" -> [c EXCEPT !.state = "IDLE", !.wel = TRUE]
      [] cmd = "RDSR" -> [c EXCEPT !.state = "RDSR", !.out = <<"wip", c.wip>>]
      [] cmd \in {"RDID", "RDCR", "CLSR", "SLOW_READ", "FAST_READ"} -> [c EXCEPT !.state = cmd]
      [] cmd = "RES"  -> [c EXCEPT !.state = "RELEASE", !.asleep = FALSE]
      [] cmd = "DP"   -> IF c.wip THEN [c EXCEPT !.state = "INVALID"]
                         ELSE [c EXCEPT !.state = "IDLE", !.asleep = TRUE]
      [] cmd = "QUAD_IO_READ" -> [c EXCEPT !.state = "QUAD_READ_CMD", !.mode = "QSPI"]
      [] cmd \in {"RESET", "EMPTY"} -> [c EXCEPT !.state = "IDLE", !.mode = "SPI"]
      [] OTHER -> [c EXCEPT !.state = "INVALID"]

ReadNext(c) == IF c.wip THEN c ELSE [c EXCEPT !.out = At(c.mem, c.addr), !.addr = @ + 1]

(* The first n of a quad read at which data leaves: six clocks of dummy cycles
   (FLASH_NDUMMY), counted differently with and without a command byte. *)
FirstData == [QUAD_READ |-> 6, QUAD_READ_CMD |-> 8]

(* A byte of a quad read behind its address: the mode byte, dummies, data. *)
ReadByte(c, b, modeAt) ==
    CASE c.n = modeAt -> [c EXCEPT !.keep = (b = ModeByte)]
      [] c.n >= FirstData[c.state] -> ReadNext(c)
      [] OTHER -> c

ProgramByte(c, b) ==
    CASE c.n = 4 -> [c EXCEPT !.addr = AddressIn(c.ireg), !.pmem = [i \in DOMAIN c.pmem |-> Erased]]
      [] c.n > 4 -> [c EXCEPT !.pmem[c.addr % PGLENB] = IF b[1] = "dat" THEN b[2] ELSE Erased,
                              !.addr = PAGEOF(@) + ((@ + 1) % PGLENB)]
      [] OTHER -> c

(* Any later byte. *)
FollowingByte(c, b) ==
    CASE c.state = "RDSR" -> [c EXCEPT !.out = <<"wip", c.wip>>]
      [] c.state = "SLOW_READ" /\ c.n = 4 ->
            [c EXCEPT !.addr = AddressIn(c.ireg) + 1, !.out = At(c.mem, AddressIn(c.ireg))]
      [] c.state \in {"FAST_READ", "QUAD_READ_CMD", "SECTOR_ERASE"} /\ c.n = 4 ->
            [c EXCEPT !.addr = AddressIn(c.ireg)]
      [] c.state \in {"SLOW_READ", "FAST_READ"} /\ c.n > 4 -> ReadNext(c)
      [] c.state = "QUAD_READ_CMD" /\ c.n # 4 -> ReadByte(c, b, 5)
      [] c.state = "QUAD_READ" -> ReadByte(c, b, 4)
      [] c.state = "PP" -> ProgramByte(c, b)
      [] c.state = "QPP" -> [ProgramByte(c, b) EXCEPT !.mode = IF c.n = 4 THEN "QSPI" ELSE @]
      [] OTHER -> c

(* Eight bits arrive. The count saturates: nothing tells larger ones apart. *)
Receive(c0, b) ==
    LET ireg == Append(c0.ireg, b)
        c == [c0 EXCEPT !.n = IF @ < 8 THEN @ + 1 ELSE @, !.out = Junk,
                        !.ireg = SubSeq(ireg, Len(ireg) - (IF Len(ireg) < 3 THEN Len(ireg) - 1 ELSE 2), Len(ireg))]
    IN IF c.state = "QUAD_READ_IDLE"
       THEN IF c.n = 3 THEN [c EXCEPT !.addr = AddressIn(c.ireg), !.state = "QUAD_READ"] ELSE c
       ELSE IF c.n = 1 THEN Command(c, IF b[1] = "cmd" THEN b[2] ELSE "unknown")
       ELSE FollowingByte(c, b)

(* A byte sent on one wire: a chip in quad mode takes four from the eight clocks. *)
ReceiveSlow(c, b) ==
    IF c.mode = "SPI" THEN Receive(c, b)
    ELSE CHOOSE r \in {Receive(c3, Junk) : c3 \in {Receive(c2, Junk) : c2 \in
                        {Receive(c1, Junk) : c1 \in {Receive(c, Junk)}}}} : TRUE
=============================================================================
