----------------------------- MODULE ZipLoadProofs -----------------------------
(* Proofs about zipload, for every geometry of the flash, every file, every number of runs, and a
   tool killed between any two writes to the configuration port: the CPU only runs while
   its flash is on line (ZipLoad!RunsFromFlash), and what a run that ends well had to load is
   there (ZipLoad!LoadedUnlessShort).

   The first part follows the chip through the driver's plans (IInv). Whatever it was left in, the
   first eight writes of a plan bring it off line (LeavesQuad); a plan that waits leaves it
   answering with its status (WaitOK); one that returns ends with place_online, whose last
   write is the one that leaves user mode (ReturnOK). What is hard is a run that finds the
   port in user mode, where all reads return the controller's stale word and
   nothing is known of the chip: FreshOK says that such a run never goes on to
   a decision that takes the chip to be idle, because the stale word is not the program's first.

   The second follows the contents (Data, which is inductive together with IInv). Up to where the
   driver has come the flash holds fbuf (DoneOK). Further on, a byte that is to be erased is erased,
   which is why a page of such bytes may be left out; or, if the sector was compared with stale
   words, no word is to be erased as a whole, so that no page is left out (AheadOK: Clean, Dense).
   A plan that burns changes the sector or the rest of the page that was decided on, because of
   what the chip took in of command and address (PendOK); at its first write it may
   burn what a killed run left in the chip, wherever that is, but then the run is at its
   start, and nothing is done yet. *)
EXTENDS ZipLoad, TLAPS, SequenceTheorems, FiniteSetTheorems, WellFoundedInduction

(* A chip has the simulator's members, whatever is in them. *)
IsChip(c) ==
    c \in [state : {c.state}, mode : {c.mode}, wel : {c.wel}, wip : {c.wip}, asleep : {c.asleep},
           n : {c.n}, ireg : {c.ireg}, addr : {c.addr}, pmem : {c.pmem}, keep : {c.keep},
           out : {c.out}, mem : {c.mem}]

(* What every write leaves of the chip: never asleep and never in an unfinished quad program, on
   one wire or in a quad read. *)
Sane(c) ==
    /\ IsChip(c) /\ c.wip \in BOOLEAN /\ c.asleep = FALSE /\ c.n \in 0..8 /\ c.keep \in BOOLEAN
    /\ \/ /\ c.mode = "SPI" /\ c.state \notin {"QUAD_READ_IDLE", "QPP"}
          /\ c.state \in {"QUAD_READ", "QUAD_READ_CMD"} => c.n = 0 /\ ~c.keep
       \/ /\ c.mode = "QSPI"
          /\ \/ c.state = "QUAD_READ_IDLE" /\ c.n <= 2
             \/ c.state \in {"QUAD_READ", "QUAD_READ_CMD"} /\ c.n > 0

(* The commands that change the array at the end of the selection. *)
Burning == {"PP", "QPP", "SECTOR_ERASE", "WRSR", "BULK_ERASE"}

(* The bytes of the driver: no quad programming, no deep power down. *)
Plain(b) == b[1] = "cmd" => b[2] \notin {"QPP", "DP"}

(* Chip select rises: in quad mode the chip is back at the start of a read or on one wire. *)
LEMMA DeselectSane ==
    ASSUME NEW c, Sane(c)
    PROVE  /\ Sane(Deselect(c)) /\ Deselect(c).n = 0
           /\ Deselect(c).mode = "SPI" \/ Deselect(c).state = "QUAD_READ_IDLE"
           /\ c.mode = "SPI" => Deselect(c).mode = "SPI"
           /\ c.state \notin Burning => Deselect(c).wip = c.wip /\ Deselect(c).state \notin Burning
<1> DEFINE d == [c EXCEPT !.n = 0, !.ireg = <<>>, !.out = Junk]
<1>1. /\ IsChip(d) /\ d.n = 0 /\ d.state = c.state /\ d.mode = c.mode /\ d.wip = c.wip
      /\ d.asleep = FALSE /\ d.keep = c.keep
  BY DEF Sane, IsChip
<1>d. d = [c EXCEPT !.n = 0, !.ireg = <<>>, !.out = Junk]
  OBVIOUS
<1> DEFINE e == Deselect(c)
           f == Busy(d)
<1> HIDE DEF d
<1>f. /\ IsChip(f) /\ f.n = 0 /\ f.state = "IDLE" /\ f.mode = c.mode
      /\ f.asleep = FALSE /\ f.keep = c.keep /\ f.wip = TRUE
  BY <1>1 DEF Busy, IsChip
<1> HIDE DEF f
<1>e. e = Deselect(c)
  OBVIOUS
<1>3. CASE c.state = "PP"
  <2>1. e = [f EXCEPT !.mode = "SPI", !.mem = [i \in Offsets |-> IF PAGEOF(i) = PAGEOF(d.addr)
                                   THEN d.mem[i] \cap d.pmem[i % PGLENB] ELSE d.mem[i]]]
    BY <1>3, <1>d DEF Deselect, f, ProgramPage
  <2> HIDE DEF e
  <2>2. IsChip(e)
    BY <1>1, <1>f, <1>3, <2>1 DEF IsChip
  <2>3. e.state = f.state /\ e.n = f.n /\ e.wip = f.wip /\ e.asleep = f.asleep /\ e.keep = f.keep /\ e.mode = "SPI"
    BY <1>1, <1>f, <1>3, <2>1 DEF IsChip
  <2> QED
    <3>1. e.state = "IDLE" /\ e.mode = "SPI" /\ e.n = 0 /\ e.asleep = FALSE /\ e.keep \in BOOLEAN /\ e.wip \in BOOLEAN
      BY <1>1, <1>f, <1>3, <2>3 DEF Sane
    <3>2. c.state \in Burning
      BY <1>3 DEF Burning
    <3> QED
      BY <2>2, <3>1, <3>2, <1>e DEF Sane
<1>4. CASE c.state = "SECTOR_ERASE"
  <2>1. e = [f EXCEPT !.addr = SECTOROF(d.addr),
        !.mem = [i \in Offsets |-> IF SECTOROF(i) = SECTOROF(d.addr) THEN Erased ELSE d.mem[i]]]
    BY <1>4, <1>d DEF Deselect, f, EraseSector
  <2> HIDE DEF e
  <2>2. IsChip(e)
    BY <1>1, <1>f, <1>4, <2>1 DEF IsChip
  <2>3. e.state = f.state /\ e.mode = f.mode /\ e.n = f.n /\ e.wip = f.wip /\ e.asleep = f.asleep /\ e.keep = f.keep
    BY <1>1, <1>f, <1>4, <2>1 DEF IsChip
  <2> QED
    <3>1. e.state = "IDLE" /\ e.mode = "SPI" /\ e.n = 0 /\ e.asleep = FALSE /\ e.keep \in BOOLEAN /\ e.wip \in BOOLEAN
      BY <1>1, <1>f, <1>4, <2>3 DEF Sane
    <3>2. c.state \in Burning
      BY <1>4 DEF Burning
    <3> QED
      BY <2>2, <3>1, <3>2, <1>e DEF Sane
<1>5. CASE c.state = "WRSR"
  <2>1. e = f
    BY <1>5, <1>d DEF Deselect, f
  <2> HIDE DEF e
  <2>2. IsChip(e)
    BY <1>1, <1>f, <1>5, <2>1 DEF IsChip
  <2>3. e.state = f.state /\ e.mode = f.mode /\ e.n = f.n /\ e.wip = f.wip /\ e.asleep = f.asleep /\ e.keep = f.keep
    BY <1>1, <1>f, <1>5, <2>1 DEF IsChip
  <2> QED
    <3>1. e.state = "IDLE" /\ e.mode = "SPI" /\ e.n = 0 /\ e.asleep = FALSE /\ e.keep \in BOOLEAN /\ e.wip \in BOOLEAN
      BY <1>1, <1>f, <1>5, <2>3 DEF Sane
    <3>2. c.state \in Burning
      BY <1>5 DEF Burning
    <3> QED
      BY <2>2, <3>1, <3>2, <1>e DEF Sane
<1>6. CASE c.state = "BULK_ERASE"
  <2>1. e = [f EXCEPT !.mem = [i \in Offsets |-> Erased]]
    BY <1>6, <1>d DEF Deselect, f
  <2> HIDE DEF e
  <2>2. IsChip(e)
    BY <1>1, <1>f, <1>6, <2>1 DEF IsChip
  <2>3. e.state = f.state /\ e.mode = f.mode /\ e.n = f.n /\ e.wip = f.wip /\ e.asleep = f.asleep /\ e.keep = f.keep
    BY <1>1, <1>f, <1>6, <2>1 DEF IsChip
  <2> QED
    <3>1. e.state = "IDLE" /\ e.mode = "SPI" /\ e.n = 0 /\ e.asleep = FALSE /\ e.keep \in BOOLEAN /\ e.wip \in BOOLEAN
      BY <1>1, <1>f, <1>6, <2>3 DEF Sane
    <3>2. c.state \in Burning
      BY <1>6 DEF Burning
    <3> QED
      BY <2>2, <3>1, <3>2, <1>e DEF Sane
<1>7. CASE c.state \in {"CLSR", "RELEASE"}
  <2>1. e = [d EXCEPT !.state = "IDLE"]
    BY <1>7, <1>d DEF Deselect, f
  <2> HIDE DEF e
  <2>2. IsChip(e)
    BY <1>1, <1>f, <1>7, <2>1 DEF IsChip
  <2>3. e.mode = d.mode /\ e.n = d.n /\ e.wip = d.wip /\ e.asleep = d.asleep /\ e.keep = d.keep /\ e.state = "IDLE"
    BY <1>1, <1>f, <1>7, <2>1 DEF IsChip
  <2> QED
    BY <1>1, <1>f, <1>7, <2>2, <2>3, <1>e DEF Sane, Burning
<1>8. CASE c.state \in {"QUAD_READ_CMD", "QUAD_READ"}
  <2>1. e = IF d.keep THEN [d EXCEPT !.state = "QUAD_READ_IDLE"] ELSE [d EXCEPT !.mode = "SPI"]
    BY <1>8, <1>d DEF Deselect, f, EndRead
  <2> HIDE DEF e
  <2>2. IsChip(e)
    BY <1>1, <1>f, <1>8, <2>1 DEF IsChip
  <2>3. e.n = d.n /\ e.wip = d.wip /\ e.asleep = d.asleep /\ e.keep = d.keep /\ IF d.keep THEN e.state = "QUAD_READ_IDLE" /\ e.mode = d.mode ELSE e.state = d.state /\ e.mode = "SPI"
    BY <1>1, <1>f, <1>8, <2>1 DEF IsChip
  <2> QED
    BY <1>1, <1>f, <1>8, <2>2, <2>3, <1>e DEF Sane, Burning
<1>9. CASE c.state \notin {"PP", "QPP", "SECTOR_ERASE", "WRSR", "BULK_ERASE", "CLSR", "RELEASE", "QUAD_READ_CMD", "QUAD_READ"}
  <2>1. e = d
    BY <1>9, <1>d DEF Deselect, f
  <2> HIDE DEF e
  <2>2. IsChip(e)
    BY <1>1, <1>f, <1>9, <2>1 DEF IsChip
  <2>3. e.state = d.state /\ e.mode = d.mode /\ e.n = d.n /\ e.wip = d.wip /\ e.asleep = d.asleep /\ e.keep = d.keep
    BY <1>1, <1>f, <1>9, <2>1 DEF IsChip
  <2> QED
    BY <1>1, <1>f, <1>9, <2>2, <2>3, <1>e DEF Sane, Burning
<1>10. c.state # "QPP"
  BY DEF Sane
<1> QED
  BY <1>3, <1>4, <1>5, <1>6, <1>7, <1>8, <1>9, <1>10

(* A quad read ends: its mode byte decides. *)
LEMMA DeselectOther ==
    ASSUME NEW c, Sane(c), c.mode = "QSPI", c.state \in {"QUAD_READ", "QUAD_READ_CMD"}
    PROVE  IF c.keep THEN Deselect(c).state = "QUAD_READ_IDLE" /\ Deselect(c).mode = "QSPI" ELSE Deselect(c).mode = "SPI"
BY DEF Sane, IsChip, Deselect, EndRead

(* The first half of Receive: the byte is counted and kept. *)
Counted(c0, b) ==
    LET ireg == Append(c0.ireg, b) IN
    [c0 EXCEPT !.n = IF @ < 8 THEN @ + 1 ELSE @, !.out = Junk,
               !.ireg = SubSeq(ireg, Len(ireg) - (IF Len(ireg) < 3 THEN Len(ireg) - 1 ELSE 2), Len(ireg))]

(* Counting a byte changes nothing else. *)
LEMMA CountedIs ==
    ASSUME NEW c, Sane(c), NEW b
    PROVE  /\ IsChip(Counted(c, b))
           /\ Counted(c, b).n = IF c.n < 8 THEN c.n + 1 ELSE c.n
           /\ Counted(c, b).state = c.state /\ Counted(c, b).mode = c.mode
           /\ Counted(c, b).wip = c.wip /\ Counted(c, b).asleep = c.asleep
           /\ Counted(c, b).keep = c.keep
BY DEF Sane, IsChip, Counted

(* Receive, in its two halves. *)
LEMMA ReceiveIs ==
    ASSUME NEW c, NEW b
    PROVE  Receive(c, b) =
              LET d == Counted(c, b) IN
              IF d.state = "QUAD_READ_IDLE"
              THEN IF d.n = 3 THEN [d EXCEPT !.addr = AddressIn(d.ireg), !.state = "QUAD_READ"] ELSE d
              ELSE IF d.n = 1 THEN Command(d, IF b[1] = "cmd" THEN b[2] ELSE "unknown")
              ELSE FollowingByte(d, b)
BY Zenon DEF Receive, Counted

(* The first byte of a selection, on one wire. *)
LEMMA CommandSane ==
    ASSUME NEW d, IsChip(d), d.wip \in BOOLEAN, d.asleep = FALSE, d.n = 1, d.keep \in BOOLEAN, NEW cmd, cmd \notin {"QPP", "DP"},
           d.mode = "SPI"
    PROVE  /\ Sane(Command(d, cmd)) /\ Command(d, cmd).n = 1 /\ Command(d, cmd).wip = d.wip
           /\ cmd # "QUAD_IO_READ" => Command(d, cmd).mode = "SPI"
           /\ cmd = "QUAD_IO_READ" => Command(d, cmd).mode = "QSPI" /\ Command(d, cmd).state = "QUAD_READ_CMD"
           /\ cmd \notin Burning => Command(d, cmd).state \notin Burning
           /\ cmd = "RESET" => Command(d, cmd).state = "IDLE"
           /\ cmd = "RDSR" => Command(d, cmd).state = "RDSR" /\ Command(d, cmd).out = <<"wip", d.wip>>
<1> DEFINE e == Command(d, cmd)
<1>e. e = Command(d, cmd)
  OBVIOUS
<1>1. CASE cmd \in {"WRSR", "BULK_ERASE", "PP", "SECTOR_ERASE"}
  <2>1. e = [d EXCEPT !.state = IF Writable(d) THEN cmd ELSE "INVALID"]
    BY <1>1 DEF Command
  <2> HIDE DEF e
  <2>2. IsChip(e)
    BY <1>1, <2>1 DEF IsChip
  <2>3. e.mode = d.mode /\ e.n = d.n /\ e.wip = d.wip /\ e.asleep = d.asleep /\ e.keep = d.keep /\ e.state \in {cmd, "INVALID"}
    BY <1>1, <2>1 DEF IsChip
  <2> QED
    BY <1>1, <2>2, <2>3, <1>e DEF Sane, Burning
<1>2. CASE cmd = "WRDI"
  <2>1. e = [d EXCEPT !.state = "IDLE", !.wel = FALSE]
    BY <1>2 DEF Command
  <2> HIDE DEF e
  <2>2. IsChip(e)
    BY <1>2, <2>1 DEF IsChip
  <2>3. e.mode = d.mode /\ e.n = d.n /\ e.wip = d.wip /\ e.asleep = d.asleep /\ e.keep = d.keep /\ e.state = "IDLE"
    BY <1>2, <2>1 DEF IsChip
  <2> QED
    BY <1>2, <2>2, <2>3, <1>e DEF Sane, Burning
<1>3. CASE cmd = "WREN"
  <2>1. e = [d EXCEPT !.state = "IDLE", !.wel = TRUE]
    BY <1>3 DEF Command
  <2> HIDE DEF e
  <2>2. IsChip(e)
    BY <1>3, <2>1 DEF IsChip
  <2>3. e.mode = d.mode /\ e.n = d.n /\ e.wip = d.wip /\ e.asleep = d.asleep /\ e.keep = d.keep /\ e.state = "IDLE"
    BY <1>3, <2>1 DEF IsChip
  <2> QED
    BY <1>3, <2>2, <2>3, <1>e DEF Sane, Burning
<1>4. CASE cmd = "RDSR"
  <2>1. e = [d EXCEPT !.state = "RDSR", !.out = <<"wip", d.wip>>]
    BY <1>4 DEF Command
  <2> HIDE DEF e
  <2>2. IsChip(e)
    BY <1>4, <2>1 DEF IsChip
  <2>3. e.mode = d.mode /\ e.n = d.n /\ e.wip = d.wip /\ e.asleep = d.asleep /\ e.keep = d.keep /\ e.state = "RDSR" /\ e.out = <<"wip", d.wip>>
    BY <1>4, <2>1 DEF IsChip
  <2> QED
    BY <1>4, <2>2, <2>3, <1>e DEF Sane, Burning
<1>5. CASE cmd \in {"RDID", "RDCR", "CLSR", "SLOW_READ", "FAST_READ"}
  <2>1. e = [d EXCEPT !.state = cmd]
    BY <1>5 DEF Command
  <2> HIDE DEF e
  <2>2. IsChip(e)
    BY <1>5, <2>1 DEF IsChip
  <2>3. e.mode = d.mode /\ e.n = d.n /\ e.wip = d.wip /\ e.asleep = d.asleep /\ e.keep = d.keep /\ e.state = cmd
    BY <1>5, <2>1 DEF IsChip
  <2> QED
    BY <1>5, <2>2, <2>3, <1>e DEF Sane, Burning
<1>6. CASE cmd = "RES"
  <2>1. e = [d EXCEPT !.state = "RELEASE", !.asleep = FALSE]
    BY <1>6 DEF Command
  <2> HIDE DEF e
  <2>2. IsChip(e)
    BY <1>6, <2>1 DEF IsChip
  <2>3. e.mode = d.mode /\ e.n = d.n /\ e.wip = d.wip /\ e.keep = d.keep /\ e.state = "RELEASE" /\ e.asleep = FALSE
    BY <1>6, <2>1 DEF IsChip
  <2> QED
    BY <1>6, <2>2, <2>3, <1>e DEF Sane, Burning
<1>7. CASE cmd = "QUAD_IO_READ"
  <2>1. e = [d EXCEPT !.state = "QUAD_READ_CMD", !.mode = "QSPI"]
    BY <1>7 DEF Command
  <2> HIDE DEF e
  <2>2. IsChip(e)
    BY <1>7, <2>1 DEF IsChip
  <2>3. e.n = d.n /\ e.wip = d.wip /\ e.asleep = d.asleep /\ e.keep = d.keep /\ e.state = "QUAD_READ_CMD" /\ e.mode = "QSPI"
    BY <1>7, <2>1 DEF IsChip
  <2> QED
    BY <1>7, <2>2, <2>3, <1>e DEF Sane, Burning
<1>8. CASE cmd \in {"RESET", "EMPTY"}
  <2>1. e = [d EXCEPT !.state = "IDLE", !.mode = "SPI"]
    BY <1>8 DEF Command
  <2> HIDE DEF e
  <2>2. IsChip(e)
    BY <1>8, <2>1 DEF IsChip
  <2>3. e.n = d.n /\ e.wip = d.wip /\ e.asleep = d.asleep /\ e.keep = d.keep /\ e.state = "IDLE" /\ e.mode = "SPI"
    BY <1>8, <2>1 DEF IsChip
  <2> QED
    BY <1>8, <2>2, <2>3, <1>e DEF Sane, Burning
<1>9. CASE cmd \notin {"WRSR", "BULK_ERASE", "PP", "SECTOR_ERASE", "WRDI", "WREN", "RDSR", "RDID", "RDCR", "CLSR",
                      "SLOW_READ", "FAST_READ", "RES", "QUAD_IO_READ", "RESET", "EMPTY"}
  <2>1. e = [d EXCEPT !.state = "INVALID"]
    BY <1>9 DEF Command
  <2> HIDE DEF e
  <2>2. IsChip(e)
    BY <1>9, <2>1 DEF IsChip
  <2>3. e.mode = d.mode /\ e.n = d.n /\ e.wip = d.wip /\ e.asleep = d.asleep /\ e.keep = d.keep /\ e.state = "INVALID"
    BY <1>9, <2>1 DEF IsChip
  <2> QED
    BY <1>9, <2>2, <2>3, <1>e DEF Sane, Burning
<1> QED
  BY <1>1, <1>2, <1>3, <1>4, <1>5, <1>6, <1>7, <1>8, <1>9

(* A later byte keeps mode and state; only a mode byte changes keep. *)
LEMMA FollowingSane ==
    ASSUME NEW d, IsChip(d), d.wip \in BOOLEAN, d.asleep = FALSE, d.n \in 2..8, d.keep \in BOOLEAN, NEW b,
           \/ d.mode = "SPI" /\ d.state \notin {"QUAD_READ_IDLE", "QPP", "QUAD_READ", "QUAD_READ_CMD"}
           \/ d.mode = "QSPI" /\ d.state \in {"QUAD_READ", "QUAD_READ_CMD"}
    PROVE  LET e == FollowingByte(d, b) IN
           /\ Sane(e) /\ e.n = d.n /\ e.wip = d.wip /\ e.mode = d.mode /\ e.state = d.state
           /\ d.state = "RDSR" => e.out = <<"wip", d.wip>>
           /\ d.state = "QUAD_READ" => e.keep = IF d.n = 4 THEN b = ModeByte ELSE d.keep
           /\ d.state = "QUAD_READ_CMD" => e.keep = IF d.n = 5 THEN b = ModeByte ELSE d.keep
<1> DEFINE e == FollowingByte(d, b)
<1>e. e = FollowingByte(d, b)
  OBVIOUS
<1>1. CASE d.state = "RDSR"
  <2>1. e = [d EXCEPT !.out = <<"wip", d.wip>>]
    BY <1>1 DEF FollowingByte
  <2> HIDE DEF e
  <2>2. IsChip(e)
    BY <1>1, <2>1 DEF IsChip
  <2>3. e.state = d.state /\ e.mode = d.mode /\ e.n = d.n /\ e.wip = d.wip /\ e.asleep = d.asleep /\ e.keep = d.keep /\ e.out = <<"wip", d.wip>>
    BY <1>1, <2>1 DEF IsChip
  <2> QED
    BY <1>1, <2>2, <2>3, <1>e DEF Sane
<1>2. CASE d.state = "SLOW_READ"
  <2>1. e = IF d.n = 4 THEN [d EXCEPT !.addr = AddressIn(d.ireg) + 1, !.out = At(d.mem, AddressIn(d.ireg))]
            ELSE IF d.n > 4 THEN (IF d.wip THEN d ELSE [d EXCEPT !.out = At(d.mem, d.addr), !.addr = @ + 1]) ELSE d
    BY <1>2 DEF FollowingByte, ReadNext
  <2> HIDE DEF e
  <2>2. IsChip(e)
    BY <1>2, <2>1 DEF IsChip
  <2>3. e.state = d.state /\ e.mode = d.mode /\ e.n = d.n /\ e.wip = d.wip /\ e.asleep = d.asleep /\ e.keep = d.keep
    BY <1>2, <2>1 DEF IsChip
  <2> QED
    BY <1>2, <2>2, <2>3, <1>e DEF Sane
<1>3. CASE d.state = "FAST_READ"
  <2>1. e = IF d.n = 4 THEN [d EXCEPT !.addr = AddressIn(d.ireg)]
            ELSE IF d.n > 4 THEN (IF d.wip THEN d ELSE [d EXCEPT !.out = At(d.mem, d.addr), !.addr = @ + 1]) ELSE d
    BY <1>3 DEF FollowingByte, ReadNext
  <2> HIDE DEF e
  <2>2. IsChip(e)
    BY <1>3, <2>1 DEF IsChip
  <2>3. e.state = d.state /\ e.mode = d.mode /\ e.n = d.n /\ e.wip = d.wip /\ e.asleep = d.asleep /\ e.keep = d.keep
    BY <1>3, <2>1 DEF IsChip
  <2> QED
    BY <1>3, <2>2, <2>3, <1>e DEF Sane
<1>4. CASE d.state = "SECTOR_ERASE"
  <2>1. e = IF d.n = 4 THEN [d EXCEPT !.addr = AddressIn(d.ireg)] ELSE d
    BY <1>4 DEF FollowingByte
  <2> HIDE DEF e
  <2>2. IsChip(e)
    BY <1>4, <2>1 DEF IsChip
  <2>3. e.state = d.state /\ e.mode = d.mode /\ e.n = d.n /\ e.wip = d.wip /\ e.asleep = d.asleep /\ e.keep = d.keep
    BY <1>4, <2>1 DEF IsChip
  <2> QED
    BY <1>4, <2>2, <2>3, <1>e DEF Sane
<1>5. CASE d.state = "QUAD_READ_CMD" /\ d.n = 4
  <2>1. e = [d EXCEPT !.addr = AddressIn(d.ireg)]
    BY <1>5 DEF FollowingByte
  <2> HIDE DEF e
  <2>2. IsChip(e)
    BY <1>5, <2>1 DEF IsChip
  <2>3. e.state = d.state /\ e.mode = d.mode /\ e.n = d.n /\ e.wip = d.wip /\ e.asleep = d.asleep /\ e.keep = d.keep
    BY <1>5, <2>1 DEF IsChip
  <2> QED
    BY <1>5, <2>2, <2>3, <1>e DEF Sane
<1>9. CASE d.state = "QUAD_READ_CMD" /\ d.n # 4
  <2>1. e = IF d.n = 5 THEN [d EXCEPT !.keep = (b = ModeByte)]
            ELSE IF d.n >= 8 THEN (IF d.wip THEN d ELSE [d EXCEPT !.out = At(d.mem, d.addr), !.addr = @ + 1]) ELSE d
    BY <1>9 DEF FollowingByte, ReadByte, FirstData, ReadNext
  <2> HIDE DEF e
  <2>2. IsChip(e)
    BY <1>9, <2>1 DEF IsChip
  <2>3. e.state = d.state /\ e.mode = d.mode /\ e.n = d.n /\ e.wip = d.wip /\ e.asleep = d.asleep
        /\ e.keep = IF d.n = 5 THEN b = ModeByte ELSE d.keep
    BY <1>9, <2>1 DEF IsChip
  <2>4. e.keep \in BOOLEAN
    BY <2>3
  <2> QED
    BY <1>9, <2>2, <2>3, <2>4, <1>e DEF Sane
<1>6. CASE d.state = "QUAD_READ"
  <2>1. e = IF d.n = 4 THEN [d EXCEPT !.keep = (b = ModeByte)]
            ELSE IF d.n >= 6 THEN (IF d.wip THEN d ELSE [d EXCEPT !.out = At(d.mem, d.addr), !.addr = @ + 1]) ELSE d
    BY <1>6 DEF FollowingByte, ReadByte, FirstData, ReadNext
  <2> HIDE DEF e
  <2>2. IsChip(e)
    BY <1>6, <2>1 DEF IsChip
  <2>3. e.state = d.state /\ e.mode = d.mode /\ e.n = d.n /\ e.wip = d.wip /\ e.asleep = d.asleep /\ e.keep = IF d.n = 4 THEN b = ModeByte ELSE d.keep
    BY <1>6, <2>1 DEF IsChip
  <2> QED
    <3>1. e.keep \in BOOLEAN
      BY <2>3
    <3> QED
      BY <1>6, <2>2, <2>3, <3>1, <1>e DEF Sane
<1>7. CASE d.state = "PP"
  <2>1. e = IF d.n = 4 THEN [d EXCEPT !.addr = AddressIn(d.ireg), !.pmem = [i \in DOMAIN d.pmem |-> Erased]]
            ELSE IF d.n > 4 THEN [d EXCEPT !.pmem[d.addr % PGLENB] = IF b[1] = "dat" THEN b[2] ELSE Erased,
                              !.addr = PAGEOF(@) + ((@ + 1) % PGLENB)]
            ELSE d
    BY <1>7 DEF FollowingByte, ProgramByte
  <2> HIDE DEF e
  <2>2. IsChip(e)
    BY <1>7, <2>1 DEF IsChip
  <2>3. e.state = d.state /\ e.mode = d.mode /\ e.n = d.n /\ e.wip = d.wip /\ e.asleep = d.asleep /\ e.keep = d.keep
    BY <1>7, <2>1 DEF IsChip
  <2> QED
    BY <1>7, <2>2, <2>3, <1>e DEF Sane
<1>8. CASE d.state \notin {"RDSR", "SLOW_READ", "FAST_READ", "SECTOR_ERASE", "QUAD_READ_CMD", "QUAD_READ", "PP", "QPP"}
  <2>1. e = d
    BY <1>8 DEF FollowingByte
  <2> HIDE DEF e
  <2>2. IsChip(e)
    BY <1>8, <2>1 DEF IsChip
  <2>3. e.state = d.state /\ e.mode = d.mode /\ e.n = d.n /\ e.wip = d.wip /\ e.asleep = d.asleep /\ e.keep = d.keep
    BY <1>8, <2>1 DEF IsChip
  <2> QED
    BY <1>8, <2>2, <2>3, <1>e DEF Sane
<1> QED
  BY <1>1, <1>2, <1>3, <1>4, <1>5, <1>6, <1>7, <1>8, <1>9

(* Eight bits arrive at a chip on one wire. *)
LEMMA ReceiveSpi ==
    ASSUME NEW c, Sane(c), c.mode = "SPI", NEW b, Plain(b)
    PROVE  LET e == Receive(c, b)
               cmd == IF b[1] = "cmd" THEN b[2] ELSE "unknown"
           IN
           /\ Sane(e) /\ e.wip = c.wip /\ e.n = IF c.n < 8 THEN c.n + 1 ELSE 8
           /\ cmd # "QUAD_IO_READ" \/ c.n > 0 => e.mode = "SPI"
           /\ c.n = 0 =>
                /\ cmd = "QUAD_IO_READ" => e.mode = "QSPI" /\ e.state = "QUAD_READ_CMD"
                /\ cmd \notin Burning => e.state \notin Burning
                /\ cmd = "RESET" => e.state = "IDLE"
                /\ cmd = "RDSR" => e.state = "RDSR" /\ e.out = <<"wip", c.wip>>
           /\ c.n > 0 =>
                /\ e.state = c.state
                /\ c.state = "RDSR" => e.out = <<"wip", c.wip>>
<1> DEFINE d == Counted(c, b)
           cmd == IF b[1] = "cmd" THEN b[2] ELSE "unknown"
           e == Receive(c, b)
<1>1. /\ IsChip(d) /\ d.n = IF c.n < 8 THEN c.n + 1 ELSE c.n
      /\ d.state = c.state /\ d.mode = "SPI" /\ d.wip = c.wip /\ d.asleep = c.asleep /\ d.keep = c.keep
  BY CountedIs
<1>2. cmd \notin {"QPP", "DP"}
  BY DEF Plain
<1>3. c.state \notin {"QUAD_READ_IDLE", "QPP"} /\ c.n \in 0..8 /\ c.wip \in BOOLEAN /\ c.asleep = FALSE
      /\ c.keep \in BOOLEAN /\ (c.state \in {"QUAD_READ", "QUAD_READ_CMD"} => c.n = 0)
  BY DEF Sane
<1>4. e = IF d.n = 1 THEN Command(d, cmd) ELSE FollowingByte(d, b)
  BY ReceiveIs, <1>1, <1>3
<1> HIDE DEF d, cmd, e
<1>5. CASE c.n = 0
  <2>1. d.n = 1 /\ e = Command(d, cmd)
    BY <1>1, <1>3, <1>4, <1>5
  <2>2. /\ Sane(e) /\ e.n = 1 /\ e.wip = d.wip
        /\ cmd # "QUAD_IO_READ" => e.mode = "SPI"
        /\ cmd = "QUAD_IO_READ" => e.mode = "QSPI" /\ e.state = "QUAD_READ_CMD"
        /\ cmd \notin Burning => e.state \notin Burning
        /\ cmd = "RESET" => e.state = "IDLE"
        /\ cmd = "RDSR" => e.state = "RDSR" /\ e.out = <<"wip", d.wip>>
    <3>1. IsChip(d) /\ d.wip \in BOOLEAN /\ d.asleep = FALSE /\ d.n = 1 /\ d.keep \in BOOLEAN /\ d.mode = "SPI"
      BY <2>1, <1>1, <1>3
    <3> QED
      BY <3>1, <2>1, <1>2, CommandSane, ZenonT(60)
  <2> QED
    BY <2>2, <1>1, <1>5 DEF e, cmd
<1>6. CASE c.n > 0
  <2>1. d.n \in 2..8 /\ d.n # 1 /\ e = FollowingByte(d, b)
    BY <1>1, <1>3, <1>4, <1>6
  <2>2. d.wip \in BOOLEAN /\ d.asleep = FALSE /\ d.keep \in BOOLEAN
        /\ d.state \notin {"QUAD_READ_IDLE", "QPP", "QUAD_READ", "QUAD_READ_CMD"}
    BY <1>1, <1>3, <1>6
  <2>3. /\ Sane(e) /\ e.n = d.n /\ e.wip = d.wip /\ e.mode = d.mode /\ e.state = d.state
        /\ d.state = "RDSR" => e.out = <<"wip", d.wip>>
    BY <2>1, <2>2, <1>1, FollowingSane
  <2> QED
    BY <2>3, <1>1, <1>3, <1>6 DEF e
<1> QED
  BY <1>3, <1>5, <1>6

(* Eight bits arrive at a chip in a quad read. *)
LEMMA ReceiveQuad ==
    ASSUME NEW c, Sane(c), c.mode = "QSPI", NEW b
    PROVE  LET e == Receive(c, b) IN
           /\ Sane(e) /\ e.wip = c.wip /\ e.mode = "QSPI" /\ e.n = IF c.n < 8 THEN c.n + 1 ELSE 8
           /\ c.state = "QUAD_READ_CMD" =>
                e.state = "QUAD_READ_CMD" /\ e.keep = IF c.n = 4 THEN b = ModeByte ELSE c.keep
           /\ c.state = "QUAD_READ" =>
                e.state = "QUAD_READ" /\ e.keep = IF c.n = 3 THEN b = ModeByte ELSE c.keep
           /\ c.state = "QUAD_READ_IDLE" => e.state = IF c.n = 2 THEN "QUAD_READ" ELSE "QUAD_READ_IDLE"
<1> DEFINE d == Counted(c, b)
           e == Receive(c, b)
<1>1. /\ IsChip(d) /\ d.n = IF c.n < 8 THEN c.n + 1 ELSE c.n
      /\ d.state = c.state /\ d.mode = "QSPI" /\ d.wip = c.wip /\ d.asleep = c.asleep /\ d.keep = c.keep
  BY CountedIs
<1>2. c.n \in 0..8 /\ c.wip \in BOOLEAN /\ c.asleep = FALSE /\ c.keep \in BOOLEAN
      /\ \/ c.state = "QUAD_READ_IDLE" /\ c.n <= 2
         \/ c.state \in {"QUAD_READ", "QUAD_READ_CMD"} /\ c.n > 0
  <2>1. c.mode # "SPI"
    OBVIOUS
  <2> QED
    BY <2>1 DEF Sane
<1>3. CASE c.state = "QUAD_READ_IDLE"
  <2>1. e = IF d.n = 3 THEN [d EXCEPT !.addr = AddressIn(d.ireg), !.state = "QUAD_READ"] ELSE d
    BY ReceiveIs, <1>1, <1>3
  <2> HIDE DEF d, e
  <2>2. IsChip(e)
    BY <2>1, <1>1 DEF IsChip
  <2>3. /\ e.mode = d.mode /\ e.n = d.n /\ e.wip = d.wip /\ e.asleep = d.asleep /\ e.keep = d.keep
        /\ e.state = IF d.n = 3 THEN "QUAD_READ" ELSE d.state
    BY <2>1, <1>1 DEF IsChip
  <2> QED
    BY <2>2, <2>3, <1>1, <1>2, <1>3 DEF Sane, e
<1>4. CASE c.state \in {"QUAD_READ", "QUAD_READ_CMD"}
  <2>0. d.n \in 2..8 /\ d.n # 1
    BY <1>1, <1>2, <1>4
  <2>1. e = FollowingByte(d, b)
    BY ReceiveIs, <1>1, <1>4, <2>0
  <2> HIDE DEF d, e
  <2>2. d.wip \in BOOLEAN /\ d.asleep = FALSE /\ d.keep \in BOOLEAN
    BY <1>1, <1>2
  <2>3. /\ Sane(e) /\ e.n = d.n /\ e.wip = d.wip /\ e.mode = d.mode /\ e.state = d.state
        /\ d.state = "QUAD_READ" => e.keep = IF d.n = 4 THEN b = ModeByte ELSE d.keep
        /\ d.state = "QUAD_READ_CMD" => e.keep = IF d.n = 5 THEN b = ModeByte ELSE d.keep
    BY <2>0, <2>1, <2>2, <1>1, <1>4, FollowingSane
  <2> QED
    BY <2>3, <1>1, <1>2, <1>4 DEF e
<1> QED
  BY <1>2, <1>3, <1>4

(* A byte on one wire is four bytes for a chip in quad mode. *)
LEMMA SlowQuad ==
    ASSUME NEW c, c.mode # "SPI", NEW b
    PROVE  ReceiveSlow(c, b) = Receive(Receive(Receive(Receive(c, Junk), Junk), Junk), Junk)
BY DEF ReceiveSlow

(* The chip answers quad reads without a command (what the CPU needs). *)
Online(c)     == Sane(c) /\ c.mode = "QSPI" /\ c.state = "QUAD_READ_IDLE" /\ c.n = 0 /\ c.wip = FALSE
(* Chip select has just risen. *)
Deselected(c) == Sane(c) /\ c.n = 0 /\ (c.mode = "SPI" \/ c.state = "QUAD_READ_IDLE")
(* RESET bytes are on their way: the mode byte of a quad read, if there was one, is lost. *)
Quitting(c)   ==
    /\ Sane(c)
    /\ \/ c.mode = "SPI" /\ c.state = "IDLE" /\ c.n > 0
       \/ c.mode = "QSPI" /\ c.state = "QUAD_READ" /\ c.n >= 4 /\ c.keep = FALSE
(* The chip takes commands on one wire. *)
Offline(c)    == Sane(c) /\ c.mode = "SPI"
(* The chip when l writes of place_online are left. *)
Restoring(l, c) ==
    IF l = 10 THEN Offline(c) /\ c.n = 0
    ELSE IF l = 0 THEN Online(c)
    ELSE /\ Sane(c) /\ c.mode = "QSPI" /\ c.state = "QUAD_READ_CMD"
         /\ c.n = IF l = 1 THEN 8 ELSE 10 - l
         /\ l <= 5 => c.keep

(* A RESET byte of take_offline ends the quad read that the chip may be in. *)
LEMMA ResetByte ==
    ASSUME NEW c, Deselected(c) \/ Quitting(c)
    PROVE  LET e == ReceiveSlow(c, Cmd("RESET")) IN
           Quitting(e) /\ e.wip = c.wip /\ e.state \notin Burning
<1> DEFINE e == ReceiveSlow(c, Cmd("RESET"))
<1>1. CASE c.mode = "SPI"
  <2>1. e = Receive(c, Cmd("RESET"))
    BY <1>1 DEF ReceiveSlow
  <2>2. Plain(Cmd("RESET")) /\ Cmd("RESET")[1] = "cmd" /\ Cmd("RESET")[2] = "RESET"
    BY DEF Plain, Cmd
  <2>3. Sane(c) /\ c.n \in 0..8
    BY DEF Deselected, Quitting, Sane
  <2> HIDE DEF e
  <2>4. /\ Sane(e) /\ e.wip = c.wip /\ e.n = IF c.n < 8 THEN c.n + 1 ELSE 8
        /\ e.mode = "SPI"
        /\ c.n = 0 => e.state = "IDLE"
        /\ c.n > 0 => e.state = c.state
    BY <1>1, <2>1, <2>2, <2>3, ReceiveSpi
  <2>5. e.state = "IDLE" /\ e.n > 0
    BY <1>1, <2>3, <2>4 DEF Deselected, Quitting
  <2> QED
    BY <2>4, <2>5 DEF Quitting, Burning, e
<1>2. CASE c.mode # "SPI"
  <2> DEFINE c1 == Receive(c, Junk)
             c2 == Receive(c1, Junk)
             c3 == Receive(c2, Junk)
  <2>1. e = Receive(c3, Junk)
    BY <1>2, SlowQuad
  <2>2. Junk # ModeByte
    BY DEF Junk, ModeByte
  <2>3. Sane(c) /\ c.mode = "QSPI" /\ c.n \in 0..8
    BY <1>2 DEF Deselected, Quitting, Sane
  <2>4. Sane(c1) /\ c1.wip = c.wip /\ c1.mode = "QSPI" /\ c1.n = (IF c.n < 8 THEN c.n + 1 ELSE 8)
        /\ (c.state = "QUAD_READ" => c1.state = "QUAD_READ" /\ c1.keep = IF c.n = 3 THEN Junk = ModeByte ELSE c.keep)
        /\ (c.state = "QUAD_READ_IDLE" => c1.state = IF c.n = 2 THEN "QUAD_READ" ELSE "QUAD_READ_IDLE")
    BY <2>3, ReceiveQuad
  <2> HIDE DEF c1
  <2>5. Sane(c2) /\ c2.wip = c1.wip /\ c2.mode = "QSPI" /\ c2.n = (IF c1.n < 8 THEN c1.n + 1 ELSE 8)
        /\ (c1.state = "QUAD_READ" => c2.state = "QUAD_READ" /\ c2.keep = IF c1.n = 3 THEN Junk = ModeByte ELSE c1.keep)
        /\ (c1.state = "QUAD_READ_IDLE" => c2.state = IF c1.n = 2 THEN "QUAD_READ" ELSE "QUAD_READ_IDLE")
    BY <2>4, ReceiveQuad
  <2> HIDE DEF c2
  <2>6. Sane(c3) /\ c3.wip = c2.wip /\ c3.mode = "QSPI" /\ c3.n = (IF c2.n < 8 THEN c2.n + 1 ELSE 8)
        /\ (c2.state = "QUAD_READ" => c3.state = "QUAD_READ" /\ c3.keep = IF c2.n = 3 THEN Junk = ModeByte ELSE c2.keep)
        /\ (c2.state = "QUAD_READ_IDLE" => c3.state = IF c2.n = 2 THEN "QUAD_READ" ELSE "QUAD_READ_IDLE")
    BY <2>5, ReceiveQuad
  <2> HIDE DEF c3
  <2>7. Sane(e) /\ e.wip = c3.wip /\ e.mode = "QSPI" /\ e.n = (IF c3.n < 8 THEN c3.n + 1 ELSE 8)
        /\ (c3.state = "QUAD_READ" => e.state = "QUAD_READ" /\ e.keep = IF c3.n = 3 THEN Junk = ModeByte ELSE c3.keep)
        /\ (c3.state = "QUAD_READ_IDLE" => e.state = IF c3.n = 2 THEN "QUAD_READ" ELSE "QUAD_READ_IDLE")
    BY <2>1, <2>6, ReceiveQuad
  <2> HIDE DEF e
  <2>8. \/ c.state = "QUAD_READ_IDLE" /\ c.n = 0
        \/ c.state = "QUAD_READ" /\ c.n >= 4 /\ c.keep = FALSE
    BY <1>2 DEF Deselected, Quitting
  <2>9. e.state = "QUAD_READ" /\ e.n >= 4 /\ e.keep = FALSE
    <3>1. CASE c.state = "QUAD_READ_IDLE" /\ c.n = 0
      <4>1. c1.state = "QUAD_READ_IDLE" /\ c1.n = 1
        BY <3>1, <2>4
      <4>2. c2.state = "QUAD_READ_IDLE" /\ c2.n = 2
        BY <4>1, <2>5
      <4>3. c3.state = "QUAD_READ" /\ c3.n = 3
        BY <4>2, <2>6
      <4>4. (Junk = ModeByte) = FALSE
        BY <2>2
      <4>5. e.state = "QUAD_READ" /\ e.n = 4
        BY <4>3, <2>7
      <4>6. e.keep = (Junk = ModeByte)
        BY <4>3, <2>7
      <4>7. e.keep = FALSE
        BY <4>4, <4>6, Zenon
      <4> QED
        BY <4>5, <4>7
    <3>2. CASE c.state = "QUAD_READ" /\ c.n >= 4 /\ c.keep = FALSE
      <4>1. c1.state = "QUAD_READ" /\ c1.n \in 4..8 /\ c1.keep = FALSE
        BY <3>2, <2>3, <2>4
      <4>2. c2.state = "QUAD_READ" /\ c2.n \in 4..8 /\ c2.keep = FALSE
        BY <4>1, <2>5
      <4>3. c3.state = "QUAD_READ" /\ c3.n \in 4..8 /\ c3.keep = FALSE
        BY <4>2, <2>6
      <4> QED
        BY <4>3, <2>7
    <3> QED
      BY <2>8, <3>1, <3>2
  <2> QED
    BY <2>4, <2>5, <2>6, <2>7, <2>9 DEF Quitting, Burning, e
<1> QED
  BY <1>1, <1>2

(* The rise of chip select after the RESET bytes: off line. *)
LEMMA QuitEnd ==
    ASSUME NEW c, Quitting(c)
    PROVE  Offline(Deselect(c)) /\ Deselect(c).n = 0 /\ Deselect(c).wip = c.wip /\ Deselect(c).state \notin Burning
<1>1. Sane(c) /\ c.state \notin Burning
  BY DEF Quitting, Burning
<1>2. Sane(Deselect(c)) /\ Deselect(c).n = 0 /\ Deselect(c).wip = c.wip /\ Deselect(c).state \notin Burning
      /\ (c.mode = "SPI" => Deselect(c).mode = "SPI")
  BY <1>1, DeselectSane
<1>3. CASE c.mode = "QSPI"
  <2>1. c.state = "QUAD_READ" /\ c.keep = FALSE
    BY <1>3 DEF Quitting
  <2>2. Deselect(c).mode = "SPI"
    BY <1>1, <1>3, <2>1, DeselectOther
  <2> QED
    BY <1>2, <2>2 DEF Offline
<1>4. CASE c.mode = "SPI"
  BY <1>2, <1>4 DEF Offline
<1> QED
  BY <1>3, <1>4 DEF Quitting

(* A chip that is off line stays there when chip select rises, and starts what was asked for. *)
LEMMA OfflineEnd ==
    ASSUME NEW c, Offline(c)
    PROVE  /\ Offline(Deselect(c)) /\ Deselect(c).n = 0
           /\ c.state \notin Burning => Deselect(c).wip = c.wip /\ Deselect(c).state \notin Burning
BY DeselectSane DEF Offline

(* A byte that leaves a chip that is off line there. *)
OfflineByte(b) == b[1] = "cmd" => b[2] \notin {"QPP", "DP", "QUAD_IO_READ"}

(* A chip that is off line stays there for any byte but a quad read. *)
LEMMA OfflineSlow ==
    ASSUME NEW c, Offline(c), NEW b, OfflineByte(b)
    PROVE  LET e == ReceiveSlow(c, b) IN
           /\ Offline(e) /\ e.wip = c.wip
           /\ c.state \notin Burning /\ (b[1] = "cmd" => b[2] \notin Burning) => e.state \notin Burning
<1>1. ReceiveSlow(c, b) = Receive(c, b)
  BY DEF Offline, ReceiveSlow
<1>2. c.n \in 0..8 /\ "unknown" \notin Burning /\ Plain(b)
  BY DEF Offline, Sane, Burning, OfflineByte, Plain
<1> QED
  BY <1>1, <1>2, ReceiveSpi DEF Offline, OfflineByte

(* RDSR: the chip says whether it is busy. *)
LEMMA StatusByte ==
    ASSUME NEW c, Offline(c), c.n = 0
    PROVE  LET e == ReceiveSlow(c, Cmd("RDSR")) IN
           e.state = "RDSR" /\ e.n = 1 /\ e.out = <<"wip", c.wip>> /\ e.wip = c.wip
<1>1. ReceiveSlow(c, Cmd("RDSR")) = Receive(c, Cmd("RDSR"))
  BY DEF Offline, ReceiveSlow
<1>2. Plain(Cmd("RDSR")) /\ Cmd("RDSR")[1] = "cmd" /\ Cmd("RDSR")[2] = "RDSR"
  BY DEF Plain, Cmd
<1> QED
  BY <1>1, <1>2, ReceiveSpi DEF Offline

(* And says it again with every byte of flwait. *)
LEMMA StatusAgain ==
    ASSUME NEW c, Offline(c), c.n > 0, c.state = "RDSR"
    PROVE  LET e == ReceiveSlow(c, Cmd("EMPTY")) IN
           Offline(e) /\ e.state = "RDSR" /\ e.n > 0 /\ e.out = <<"wip", c.wip>> /\ e.wip = c.wip
<1>1. ReceiveSlow(c, Cmd("EMPTY")) = Receive(c, Cmd("EMPTY"))
  BY DEF Offline, ReceiveSlow
<1>2. Plain(Cmd("EMPTY")) /\ Cmd("EMPTY")[1] = "cmd" /\ Cmd("EMPTY")[2] = "EMPTY" /\ c.n \in 0..8
  BY DEF Plain, Cmd, Offline, Sane
<1> DEFINE e == Receive(c, Cmd("EMPTY"))
<1>3. /\ Sane(e) /\ e.wip = c.wip /\ e.n = IF c.n < 8 THEN c.n + 1 ELSE 8
      /\ e.mode = "SPI" /\ e.state = "RDSR" /\ e.out = <<"wip", c.wip>>
  BY <1>2, ReceiveSpi DEF Offline
<1> QED
  BY <1>1, <1>2, <1>3 DEF Offline

(* One write to the port, as the chip sees it. *)
Sent(w, c) == IF w.op \in {"end", "leave"} THEN Deselect(c)
              ELSE IF w.op = "slow" THEN ReceiveSlow(c, w.b) ELSE Receive(c, w.b)

(* One write of place_online, by how many are left. *)
LEMMA RestoreStep ==
    ASSUME NEW l \in 1..10, NEW c, Restoring(l, c), c.wip = FALSE
    PROVE  Restoring(l - 1, Sent(place_online[12 - l], c)) /\ Sent(place_online[12 - l], c).wip = FALSE
<1> DEFINE w == place_online[12 - l]
           e == Sent(w, c)
<1>0. Sane(c)
  BY DEF Restoring, Offline
<1>1. CASE l = 10
  <2>1. w = Slow(Cmd("QUAD_IO_READ"))
    BY <1>1 DEF place_online, restore_quadio, F
  <2>2. e = Receive(c, Cmd("QUAD_IO_READ"))
    BY <1>1, <2>1 DEF Sent, Slow, ReceiveSlow, Restoring, Offline
  <2>3. Plain(Cmd("QUAD_IO_READ")) /\ Cmd("QUAD_IO_READ")[1] = "cmd" /\ Cmd("QUAD_IO_READ")[2] = "QUAD_IO_READ"
    BY DEF Plain, Cmd
  <2> HIDE DEF e, w
  <2>4. Sane(e) /\ e.wip = c.wip /\ e.n = 1 /\ e.mode = "QSPI" /\ e.state = "QUAD_READ_CMD"
    BY <1>0, <1>1, <2>2, <2>3, ReceiveSpi DEF Restoring, Offline
  <2>5. Restoring(9, e)
    BY <2>4 DEF Restoring
  <2> QED
    BY <1>1, <2>4, <2>5 DEF e, w
<1>2. CASE l \in 3..9
  <2>1. \E b : w = Fast(b) /\ (l = 6 => b = ModeByte)
    <3>1. CASE l \in 7..9
      BY <3>1 DEF place_online, restore_quadio
    <3>2. CASE l \in 3..6
      BY <3>2 DEF place_online, restore_quadio
    <3> QED
      BY <1>2, <3>1, <3>2
  <2>2. PICK b : w = Fast(b) /\ (l = 6 => b = ModeByte)
    BY <2>1
  <2>3. e = Receive(c, b)
    BY <2>2 DEF Sent, Fast
  <2>4. /\ Sane(c) /\ c.mode = "QSPI" /\ c.state = "QUAD_READ_CMD" /\ c.n = 10 - l
        /\ l <= 5 => c.keep
    BY <1>2 DEF Restoring
  <2> HIDE DEF e, w
  <2>5. Sane(e) /\ e.wip = FALSE /\ e.mode = "QSPI" /\ e.n = (IF c.n < 8 THEN c.n + 1 ELSE 8)
        /\ e.state = "QUAD_READ_CMD" /\ e.keep = IF c.n = 4 THEN b = ModeByte ELSE c.keep
    BY <2>3, <2>4, ReceiveQuad
  <2>6. e.n = 10 - (l - 1) /\ (l - 1 <= 5 => e.keep)
    <3>1. e.n = 10 - (l - 1)
      BY <1>2, <2>4, <2>5
    <3>2. CASE l = 6
      <4>1. e.keep = (b = ModeByte)
        BY <3>2, <2>4, <2>5
      <4> QED
        BY <3>1, <3>2, <4>1, <2>2
    <3>3. CASE l # 6 /\ l - 1 <= 5
      <4>1. e.keep = c.keep /\ l <= 5
        BY <1>2, <3>3, <2>4, <2>5
      <4> QED
        BY <3>1, <4>1, <2>4
    <3> QED
      BY <1>2, <3>1, <3>2, <3>3
  <2> QED
    BY <1>2, <2>5, <2>6 DEF Restoring, e, w
<1>3. CASE l = 2
  <2>1. w = Slow(Junk)
    BY <1>3 DEF place_online, restore_quadio
  <2> DEFINE c1 == Receive(c, Junk)
             c2 == Receive(c1, Junk)
             c3 == Receive(c2, Junk)
  <2>2. /\ Sane(c) /\ c.mode = "QSPI" /\ c.state = "QUAD_READ_CMD" /\ c.n = 8 /\ c.keep
    BY <1>3 DEF Restoring
  <2>3. e = Receive(c3, Junk)
    BY <2>1, <2>2, SlowQuad DEF Sent, Slow
  <2>4. Sane(c1) /\ c1.wip = FALSE /\ c1.mode = "QSPI" /\ c1.n = 8 /\ c1.state = "QUAD_READ_CMD" /\ c1.keep
    BY <2>2, ReceiveQuad
  <2> HIDE DEF c1
  <2>5. Sane(c2) /\ c2.wip = FALSE /\ c2.mode = "QSPI" /\ c2.n = 8 /\ c2.state = "QUAD_READ_CMD" /\ c2.keep
    BY <2>4, ReceiveQuad
  <2> HIDE DEF c2
  <2>6. Sane(c3) /\ c3.wip = FALSE /\ c3.mode = "QSPI" /\ c3.n = 8 /\ c3.state = "QUAD_READ_CMD" /\ c3.keep
    BY <2>5, ReceiveQuad
  <2> HIDE DEF c3, e
  <2>7. Sane(e) /\ e.wip = FALSE /\ e.mode = "QSPI" /\ e.n = 8 /\ e.state = "QUAD_READ_CMD" /\ e.keep
    BY <2>3, <2>6, ReceiveQuad
  <2>8. Restoring(1, e)
    BY <2>7 DEF Restoring
  <2> QED
    BY <1>3, <2>7, <2>8 DEF e
<1>4. CASE l = 1
  <2>1. w = Leave
    BY <1>4 DEF place_online, restore_quadio
  <2>2. e = Deselect(c)
    BY <2>1 DEF Sent, Leave
  <2>3. c.mode = "QSPI" /\ c.state = "QUAD_READ_CMD" /\ c.keep
    BY <1>4 DEF Restoring
  <2>4. c.state \notin Burning
    BY <2>3 DEF Burning
  <2> HIDE DEF e, w
  <2>5. Sane(e) /\ e.n = 0 /\ e.wip = FALSE
    BY <1>0, <2>2, <2>4, DeselectSane
  <2>6. e.state = "QUAD_READ_IDLE" /\ e.mode = "QSPI"
    BY <1>0, <2>2, <2>3, DeselectOther
  <2>7. Restoring(0, e)
    BY <2>5, <2>6 DEF Restoring, Online
  <2> QED
    BY <1>4, <2>5, <2>7 DEF e, w
<1>5. l = 1 \/ l = 2 \/ l \in 3..9 \/ l = 10
  OBVIOUS
<1> QED
  BY <1>1, <1>2, <1>3, <1>4, <1>5

(* A set of integers with a lower bound has a least element. *)
LEMMA LeastExists ==
    ASSUME NEW b \in Int, NEW S \in SUBSET {x \in Int : x >= b}, S # {}
    PROVE  \E x \in S : \A y \in S : x <= y
<1> DEFINE T == {x - b : x \in S}
<1>1. T \subseteq Nat /\ T # {}
  OBVIOUS
<1>2. PICK t \in T : \A u \in T : ~(<<u, t>> \in OpToRel(<, Nat))
  BY <1>1, NatLessThanWellFounded, WFMin
<1>3. ASSUME NEW u \in T PROVE t <= u
  <2>1. t \in Nat /\ u \in Nat
    BY <1>1
  <2>2. ~(u < t)
    BY <1>2, <2>1 DEF OpToRel
  <2> QED
    BY <2>1, <2>2
<1>4. PICK x \in S : t = x - b
  OBVIOUS
<1>5. ASSUME NEW y \in S PROVE x <= y
  <2>1. y - b \in T
    OBVIOUS
  <2>2. x - b <= y - b
    BY <1>3, <1>4, <2>1
  <2> HIDE DEF T
  <2> QED
    BY <2>2
<1> QED
  BY <1>5

(* Least finds it. *)
LEMMA LeastIsLeast ==
    ASSUME NEW b \in Int, NEW S \in SUBSET {x \in Int : x >= b}, S # {}
    PROVE  Least(S) \in S /\ \A y \in S : Least(S) <= y
BY LeastExists DEF Least

(* A program header of a file. *)
Header == [dev : {"bkram", "flash"}, start : Nat, data : Seq(Byte)]

(* elfread's sections are headers of the file. *)
LEMMA SectionsAreHeaders ==
    ASSUME NEW f \in Seq(Header)
    PROVE  /\ SectionCount(f) \in Nat
           /\ DOMAIN elfread(f) = 1..SectionCount(f)
           /\ \A i \in DOMAIN elfread(f) : elfread(f)[i] \in Header
<1>1. SectionCount(f) \in 0..Len(f) /\ \A i \in 1..SectionCount(f) : ~IsEnd(f, i)
  <2> DEFINE S == {n \in 0..Len(f) : IsEnd(f, n + 1)}
  <2>1. Len(f) \in S
    BY DEF IsEnd
  <2>2. PICK n \in S : \A m \in S : n <= m
    <3>1. S \in SUBSET {x \in Int : x >= 0} /\ S # {}
      BY <2>1
    <3> HIDE DEF S
    <3> QED
      BY <3>1, LeastExists, 0 \in Int, Zenon
  <2>3. ASSUME NEW i \in 1..n PROVE ~IsEnd(f, i)
    <3>1. i - 1 \in 0..Len(f) /\ (i - 1) + 1 = i /\ ~(n <= i - 1)
      OBVIOUS
    <3>2. i - 1 \notin S
      BY <2>2, <3>1
    <3> QED
      BY <3>1, <3>2
  <2>4. \E k \in 0..Len(f) : IsEnd(f, k + 1) /\ \A i \in 1..k : ~IsEnd(f, i)
    BY <2>3
  <2> QED
    BY <2>4 DEF SectionCount
<1>2. DOMAIN elfread(f) = 1..SectionCount(f)
  BY DEF elfread
<1>3. ASSUME NEW i \in 1..SectionCount(f) PROVE elfread(f)[i] \in Header
  <2> DEFINE N == NonEmpty(f)
             B == {j \in N : j < i}
  <2>1. N \subseteq 1..Len(f) /\ IsFiniteSet(N)
    <3>1. N \subseteq 1..Len(f)
      BY DEF NonEmpty
    <3>2. IsFiniteSet(1..Len(f))
      BY FS_Interval
    <3> QED
      BY <3>1, <3>2, FS_Subset
  <2>2. BlockOf(f, i) # Cardinality(N)
    BY <1>1 DEF IsEnd
  <2>3. BlockOf(f, i) = Cardinality(B)
    BY DEF BlockOf
  <2>4. B # N
    BY <2>2, <2>3
  <2> DEFINE L == {j \in N : j >= i}
  <2>5. L \in SUBSET {x \in Int : x >= 0} /\ L # {}
    BY <2>1, <2>4, <1>1
  <2>i. i \in Nat
    BY <1>1
  <2>6. PICK j \in L : \A k \in L : j <= k
    <3> HIDE DEF L
    <3> QED
      BY <2>5, LeastExists, 0 \in Int, Zenon
  <2> HIDE DEF N
  <2>7. j \in N /\ {k \in N : k < j} = B
    <3>1. j \in N /\ j >= i /\ \A k \in N : k >= i => j <= k
      BY <2>6
    <3>2. \A k \in N : k \in Nat
      BY <2>1
    <3>3. \A k \in N : k < j <=> k < i
      BY <3>1, <3>2, <2>i
    <3> QED
      BY <3>1, <3>3
  <2>8. BlockOf(f, j) = BlockOf(f, i)
    BY <2>3, <2>7 DEF BlockOf, N
  <2>9. HeaderIn(f, BlockOf(f, i)) \in N
    BY <2>7, <2>8 DEF HeaderIn, N
  <2>10. f[HeaderIn(f, BlockOf(f, i))] \in Header
    <3>1. HeaderIn(f, BlockOf(f, i)) \in 1..Len(f)
      BY <2>1, <2>9
    <3> HIDE DEF Header
    <3> QED
      BY <3>1
  <2> QED
    BY <2>10 DEF elfread
<1> QED
  BY <1>1, <1>2, <1>3

(* Writes to the port that put their byte on the wire of a chip that is off line and
   leave it there. *)
OfflineOp(w) == w = F_END \/ \E b : w = Slow(b) /\ OfflineByte(b)

(* A plan that begins with take_offline. *)
Starts(p) == Len(p) >= 8 /\ p[1] = F_END /\ (\A i \in 2..7 : p[i] = F("RESET")) /\ p[8] = F_END
(* A plan whose last write reads the status register. *)
Waits(p) ==
    /\ Starts(p) /\ Len(p) >= 10
    /\ \A i \in 9..Len(p) : OfflineOp(p[i])
    /\ p[Len(p) - 1] = F_END /\ p[Len(p)] = F("RDSR")
(* A plan that ends with place_online. *)
EndsOnline(p) == Len(p) >= 12 /\ \A i \in 1..11 : p[Len(p) - 11 + i] = place_online[i]
(* A plan that takes the chip off line and back. *)
Returns(p) ==
    /\ Starts(p) /\ EndsOnline(p) /\ Len(p) >= 19
    /\ \A i \in 9..(Len(p) - 11) : p[i] = F_END \/ p[i] = F("WRDI")

(* What a decision of the driver had it write. *)
Plan ==
    CASE drv.at = "erasing" -> EraseCommands(drv.s)
      [] drv.at = "programming" -> ProgramCommands(drv.p, drv.len)
      [] drv.at \in {"erased", "programmed"} -> <<F_END>> \o place_online
      [] drv.at = "nextpage" -> take_offline \o place_online
      [] drv.at = "written" -> take_offline \o <<F("WRDI"), F_END>> \o place_online
      [] drv.at = "aborted" -> take_offline
      [] OTHER -> <<>>

(* The writes the driver can make. *)
Ops == {F_END, Leave, Fast(Adr(0)), Fast(Junk), Fast(ModeByte), Slow(Junk)}
       \union {F(c) : c \in {"RESET", "WREN", "WRDI", "SECTOR_ERASE", "PP", "RDSR", "QUAD_IO_READ"}}
       \union {Slow(Adr(a)) : a \in Int} \union {Slow(Dat(fbuf[a])) : a \in Int}

(* What is left of a plan is its end. *)
Remaining(q, p) == Len(q) <= Len(p) /\ \A i \in 1..Len(q) : q[i] = p[Len(p) - Len(q) + i]

(* The chip after the first k writes of a plan that begins with take_offline. *)
LeavesQuad(k, c) ==
    IF k = 0 THEN Sane(c) ELSE IF k = 1 THEN Deselected(c) ELSE IF k <= 7 THEN Quitting(c) ELSE Offline(c)

(* The writes made since the last decision. *)
Made == Len(Plan) - Len(todo)

(* Plans of an erase or a program: off line after eight writes, and at the end the status
   register is on the wires, so that a chip that is busy says so. *)
WaitOK ==
    drv.at \in {"erasing", "programming"} =>
       /\ LeavesQuad(Made, chip)
       /\ Len(todo) = 1 => chip.n = 0
       /\ Len(todo) = 0 => /\ Offline(chip) /\ chip.state = "RDSR" /\ chip.n > 0
                           /\ chip.wip => chip.out = <<"wip", TRUE>>
(* Plans that return: nothing is being written, and the last write leaves user mode. *)
ReturnOK ==
    drv.at \in {"erased", "programmed", "nextpage", "written"} =>
       /\ chip.wip = FALSE
       /\ Len(todo) > 10 =>
             /\ chip.state \notin Burning
             /\ IF drv.at \in {"nextpage", "written"} THEN LeavesQuad(Made, chip) ELSE Offline(chip)
       /\ Len(todo) <= 10 => Restoring(Len(todo), chip)
       /\ Len(todo) = 0 => ctl.user = FALSE

IsDrv(d) == d \in [at : {d.at}, addr : {d.addr}, end : {d.end}, s : {d.s}, p : {d.p}, len : {d.len}, short : {d.short}]
(* Types of the driver, and that todo is the end of the plan of the last decision. *)
DrvOK ==
    /\ IsDrv(drv) /\ drv.addr \in Int /\ drv.end \in Int /\ drv.s \in Int /\ drv.p \in Int /\ drv.len \in Int
    /\ drv.at \in {"idle", "halt", "load", "sector", "erasing", "erased", "page", "programming", "programmed",
                   "nextpage", "written", "failed", "aborted"}
    /\ drv.at = "programming" => drv.len \in Nat
    /\ todo \in Seq(Ops) /\ Remaining(todo, Plan)

(* The bus only reads the chip when it is on line. *)
ChipOK == Sane(chip) /\ ctl.user \in BOOLEAN /\ (ctl.user = FALSE => Online(chip))

(* A write has just begun: it starts at the reset address, and no stale word is the program's
   first. *)
Fresh ==
    /\ drv.addr = RESET_ADDRESS /\ drv.end >= RESET_ADDRESS + WORD /\ drv.s = SECTOROF(RESET_ADDRESS)
    /\ \A a \in FirstWord : fbuf[a] \in Byte
    /\ \A stale \in StaleWords : \E a \in FirstWord : fbuf[a] # stale[a % WORD]
(* A port in user mode at a comparison or at a page: an earlier run was killed and
   this one has decided nothing yet, but for the page at the reset address, which is not erased bytes. *)
FreshOK ==
    ctl.user =>
      /\ drv.at = "sector" => Fresh
      /\ drv.at = "page" => Fresh /\ drv.p = RESET_ADDRESS /\ \E a \in FirstWord : fbuf[a] # Erased

(* The sections before nsec are in fbuf and within the extent. *)
LoadOK ==
    drv.at = "load" =>
      /\ file \in Files /\ Bootable(file) /\ nsec \in Nat \ {0}
      /\ \A i \in DOMAIN elfread(file) : ValidSection(elfread(file)[i])
      /\ extent = [start |-> RESET_ADDRESS, len |-> extent.len] /\ extent.len \in Nat
      /\ DOMAIN fbuf = Offsets
      /\ \A i \in DOMAIN elfread(file) :
            i < nsec /\ elfread(file)[i].dev = "flash" => EndOf(elfread(file)[i]) <= RESET_ADDRESS + extent.len
      /\ \A a \in FirstWord \cap Offsets :
            \/ fbuf[a] = Erased /\ \A i \in InFlash(file, a) : i >= nsec
            \/ \E i \in InFlash(file, a) :
                  fbuf[a] = elfread(file)[i].data[a - elfread(file)[i].start + 1]
(* A run that has only read its file. *)
HaltOK == drv.at = "halt" => file \in Files /\ nsec = 1 /\ extent = [start |-> RESET_ADDRESS, len |-> 0]
                              /\ fbuf = [a \in Offsets |-> Erased]
(* The CPU runs only outside of a run's writes. *)
CpuOK == cpu = "running" => drv.at \in {"idle", "halt"} /\ ctl.user = FALSE

(* The inductive invariant. *)
IInv == DrvOK /\ ChipOK /\ WaitOK /\ ReturnOK /\ FreshOK /\ HaltOK /\ LoadOK /\ CpuOK

(* Concatenation, by length and by elements. *)
LEMMA Joined ==
    ASSUME NEW S, NEW s \in Seq(S), NEW t \in Seq(S)
    PROVE  /\ s \o t \in Seq(S) /\ Len(s \o t) = Len(s) + Len(t)
           /\ \A i \in 1..Len(s) : (s \o t)[i] = s[i]
           /\ \A i \in Int : i > Len(s) /\ i <= Len(s) + Len(t) => (s \o t)[i] = t[i - Len(s)]
BY ConcatProperties

(* take_offline is a plan of eight writes. *)
LEMMA OfflinePlan ==
    /\ take_offline \in Seq(Ops) /\ Starts(take_offline) /\ Len(take_offline) = 8
<1> DEFINE six == [i \in 1..6 |-> F("RESET")]
<1>1. F_END \in Ops /\ F("RESET") \in Ops
  BY DEF Ops
<1>2. six \in Seq(Ops) /\ Len(six) = 6 /\ \A i \in 1..6 : six[i] = F("RESET")
  BY <1>1
<1> HIDE DEF six
<1> DEFINE a == <<F_END>> \o six
<1>3. <<F_END>> \in Seq(Ops) /\ Len(<<F_END>>) = 1 /\ <<F_END>>[1] = F_END
  BY <1>1
<1>4. a \in Seq(Ops) /\ Len(a) = 7 /\ a[1] = F_END /\ \A i \in 2..7 : a[i] = F("RESET")
  <2> DEFINE e == <<F_END>>
  <2>e. e \in Seq(Ops) /\ Len(e) = 1 /\ e[1] = F_END
    BY <1>3
  <2> HIDE DEF e
  <2>j. /\ e \o six \in Seq(Ops) /\ Len(e \o six) = Len(e) + Len(six)
        /\ \A i \in 1..Len(e) : (e \o six)[i] = e[i]
        /\ \A i \in Int : i > Len(e) /\ i <= Len(e) + Len(six) => (e \o six)[i] = six[i - Len(e)]
    BY <1>2, <2>e, Joined
  <2>a. a = e \o six
    BY DEF e
  <2> HIDE DEF a
  <2>1. a \in Seq(Ops) /\ Len(a) = 7
    BY <1>2, <2>e, <2>j, <2>a
  <2>2. a[1] = F_END
    BY <2>e, <2>j, <2>a
  <2>3. ASSUME NEW i \in 2..7 PROVE a[i] = F("RESET")
    <3>1. i \in Int /\ i > 1 /\ i <= 1 + 6 /\ i - 1 \in 1..6
      OBVIOUS
    <3>2. a[i] = six[i - 1]
      BY <1>2, <2>e, <3>1, <2>j, <2>a
    <3> QED
      BY <1>2, <3>1, <3>2
  <2> QED
    BY <2>1, <2>2, <2>3
<1> DEFINE e == <<F_END>>
<1>5. take_offline = a \o e
  BY DEF take_offline, six
<1> HIDE DEF a
<1>e. e \in Seq(Ops) /\ Len(e) = 1 /\ e[1] = F_END
  BY <1>3
<1> HIDE DEF e
<1>6. /\ a \o e \in Seq(Ops) /\ Len(a \o e) = Len(a) + Len(e)
      /\ \A i \in 1..Len(a) : (a \o e)[i] = a[i]
      /\ \A i \in Int : i > Len(a) /\ i <= Len(a) + Len(e) => (a \o e)[i] = e[i - Len(a)]
  BY <1>4, <1>e, Joined
<1>7. take_offline \in Seq(Ops) /\ Len(take_offline) = 8
  BY <1>4, <1>5, <1>6, <1>e
<1>8. take_offline[8] = F_END
  <2>1. (a \o e)[8] = e[8 - 7]
    BY <1>4, <1>6, <1>e
  <2> QED
    BY <1>5, <1>e, <2>1
<1>9. \A i \in 1..7 : take_offline[i] = a[i]
  BY <1>4, <1>5, <1>6
<1> QED
  BY <1>4, <1>7, <1>8, <1>9 DEF Starts

(* A plan that begins with take_offline. *)
LEMMA StartsWith ==
    ASSUME NEW q \in Seq(Ops)
    PROVE  /\ take_offline \o q \in Seq(Ops) /\ Len(take_offline \o q) = 8 + Len(q)
           /\ Starts(take_offline \o q)
           /\ \A i \in Int : i > 8 /\ i <= 8 + Len(q) => (take_offline \o q)[i] = q[i - 8]
<1>0. /\ take_offline \o q \in Seq(Ops) /\ Len(take_offline \o q) = Len(take_offline) + Len(q)
      /\ \A i \in 1..Len(take_offline) : (take_offline \o q)[i] = take_offline[i]
      /\ \A i \in Int : i > Len(take_offline) /\ i <= Len(take_offline) + Len(q) => (take_offline \o q)[i] = q[i - Len(take_offline)]
  BY OfflinePlan, Joined
<1> DEFINE p == take_offline \o q
<1>1. p \in Seq(Ops) /\ Len(p) = 8 + Len(q) /\ (\A i \in 1..8 : p[i] = take_offline[i])
      /\ \A i \in Int : i > 8 /\ i <= 8 + Len(q) => p[i] = q[i - 8]
  BY OfflinePlan, <1>0
<1> HIDE DEF p
<1>2. Starts(p)
  BY <1>1, OfflinePlan DEF Starts
<1> QED
  BY <1>1, <1>2 DEF p

(* place_online is eleven writes. *)
LEMMA OnlinePlan ==
    place_online \in Seq(Ops) /\ Len(place_online) = 11
<1>1. /\ F_END \in Ops /\ F("QUAD_IO_READ") \in Ops /\ Fast(Adr(0)) \in Ops /\ Fast(ModeByte) \in Ops
      /\ Fast(Junk) \in Ops /\ Slow(Junk) \in Ops /\ Leave \in Ops
  BY DEF Ops
<1> QED
  BY <1>1 DEF place_online, restore_quadio

(* A plan that ends with place_online. *)
LEMMA EndsWith ==
    ASSUME NEW q \in Seq(Ops), Len(q) > 0
    PROVE  /\ q \o place_online \in Seq(Ops) /\ Len(q \o place_online) = Len(q) + 11
           /\ EndsOnline(q \o place_online)
           /\ \A i \in 1..Len(q) : (q \o place_online)[i] = q[i]
<1>0. /\ q \o place_online \in Seq(Ops) /\ Len(q \o place_online) = Len(q) + Len(place_online)
      /\ \A i \in 1..Len(q) : (q \o place_online)[i] = q[i]
      /\ \A i \in Int : i > Len(q) /\ i <= Len(q) + Len(place_online) => (q \o place_online)[i] = place_online[i - Len(q)]
  BY OnlinePlan, Joined
<1> DEFINE p == q \o place_online
<1>1. /\ p \in Seq(Ops) /\ Len(p) = Len(q) + 11
      /\ \A i \in 1..Len(q) : p[i] = q[i]
      /\ \A i \in Int : i > Len(q) /\ i <= Len(q) + 11 => p[i] = place_online[i - Len(q)]
  BY OnlinePlan, <1>0
<1> HIDE DEF p
<1>2. ASSUME NEW i \in 1..11 PROVE p[Len(p) - 11 + i] = place_online[i]
  <2>1. Len(p) - 11 + i \in Int /\ Len(p) - 11 + i > Len(q) /\ Len(p) - 11 + i <= Len(q) + 11
        /\ (Len(p) - 11 + i) - Len(q) = i
    BY <1>1
  <2> QED
    BY <1>1, <2>1
<1>3. Len(p) >= 12
  BY <1>1
<1> QED
  BY <1>1, <1>2, <1>3 DEF EndsOnline, p

(* A plan that begins with take_offline and then keeps the chip off line. *)
Body(p) == p \in Seq(Ops) /\ Starts(p) /\ \A i \in 9..Len(p) : OfflineOp(p[i])

(* More bytes for a chip that is off line. *)
LEMMA Extended ==
    ASSUME NEW p, Body(p), NEW q \in Seq(Ops), \A i \in 1..Len(q) : OfflineOp(q[i])
    PROVE  Body(p \o q) /\ Len(p \o q) = Len(p) + Len(q)
<1>1. p \in Seq(Ops) /\ Len(p) \in Nat /\ Len(p) >= 8 /\ Len(q) \in Nat
  BY DEF Body, Starts
<1>2. /\ p \o q \in Seq(Ops) /\ Len(p \o q) = Len(p) + Len(q)
      /\ \A i \in 1..Len(p) : (p \o q)[i] = p[i]
      /\ \A i \in Int : i > Len(p) /\ i <= Len(p) + Len(q) => (p \o q)[i] = q[i - Len(p)]
  BY <1>1, Joined
<1> DEFINE r == p \o q
<1> HIDE DEF r
<1>3. \A i \in 1..8 : r[i] = p[i]
  BY <1>1, <1>2 DEF r
<1>4. Starts(r)
  BY <1>1, <1>2, <1>3 DEF Starts, Body, r
<1>5. ASSUME NEW i \in 9..Len(r) PROVE OfflineOp(r[i])
  <2>1. CASE i <= Len(p)
    <3>1. r[i] = p[i] /\ i \in 9..Len(p)
      BY <1>1, <1>2, <2>1 DEF r
    <3> QED
      BY <3>1 DEF Body
  <2>2. CASE i > Len(p)
    <3>1. i - Len(p) \in 1..Len(q) /\ r[i] = q[i - Len(p)]
      BY <1>1, <1>2, <2>2 DEF r
    <3> QED
      BY <3>1
  <2> QED
    BY <1>1, <2>1, <2>2
<1> QED
  BY <1>2, <1>4, <1>5 DEF Body, r

(* The commands that keep the chip off line. *)
LEMMA PlainCommands ==
    /\ F_END \in Ops /\ OfflineOp(F_END)
    /\ \A c \in {"RESET", "WREN", "WRDI", "SECTOR_ERASE", "PP", "RDSR"} : F(c) \in Ops /\ OfflineOp(F(c))
<1>1. F_END \in Ops /\ OfflineOp(F_END)
  BY DEF Ops, OfflineOp
<1>2. ASSUME NEW c \in {"RESET", "WREN", "WRDI", "SECTOR_ERASE", "PP", "RDSR"} PROVE F(c) \in Ops /\ OfflineOp(F(c))
  <2>1. F(c) \in Ops
    BY DEF Ops
  <2>2. F(c) = Slow(Cmd(c)) /\ OfflineByte(Cmd(c))
    BY DEF F, OfflineByte, Cmd
  <2> QED
    BY <2>1, <2>2 DEF OfflineOp
<1> QED
  BY <1>1, <1>2

(* The three bytes of an address do. *)
LEMMA Address ==
    ASSUME NEW a \in Int
    PROVE  /\ Slowly(AddressBytes(a)) \in Seq(Ops) /\ Len(Slowly(AddressBytes(a))) = 3
           /\ \A i \in 1..3 : OfflineOp(Slowly(AddressBytes(a))[i])
<1>1. ASSUME NEW d PROVE OfflineOp(Slow(Adr(d)))
  <2>1. OfflineByte(Adr(d))
    BY DEF OfflineByte, Adr
  <2> QED
    BY <2>1 DEF OfflineOp
<1>2. ASSUME NEW d \in Int PROVE Slow(Adr(d)) \in Ops
  BY DEF Ops
<1>3. PGLENB \in Nat \ {0} /\ NPAGES \in Nat \ {0} /\ SECTORSZB \in Nat \ {0}
  <2>1. PGLENB \in Nat \ {0} /\ NPAGES \in Nat \ {0}
    BY FlashAssumption
  <2>2. \A x, y \in Nat \ {0} : x * y \in Nat \ {0}
    OBVIOUS
  <2> QED
    BY <2>1, <2>2 DEF SECTORSZB
<1>4. a \div SECTORSZB \in Int /\ (a \div PGLENB) % NPAGES \in Int /\ a % PGLENB \in Int
  <2>1. \A x \in Int, y \in Nat \ {0} : x \div y \in Int /\ x % y \in Int
    OBVIOUS
  <2> QED
    BY <1>3, <2>1
<1> DEFINE b1 == Adr(a \div SECTORSZB)
           b2 == Adr((a \div PGLENB) % NPAGES)
           b3 == Adr(a % PGLENB)
           q == Slowly(AddressBytes(a))
<1>5. Slow(b1) \in Ops /\ Slow(b2) \in Ops /\ Slow(b3) \in Ops
      /\ OfflineOp(Slow(b1)) /\ OfflineOp(Slow(b2)) /\ OfflineOp(Slow(b3))
  BY <1>1, <1>2, <1>4
<1>6. AddressBytes(a) = <<b1, b2, b3>>
  BY DEF AddressBytes
<1> HIDE DEF b1, b2, b3
<1>7. q = [i \in 1..3 |-> Slow(<<b1, b2, b3>>[i])]
  BY <1>6 DEF Slowly
<1> HIDE DEF q
<1>8. q[1] = Slow(b1) /\ q[2] = Slow(b2) /\ q[3] = Slow(b3)
  BY <1>7
<1>9. \A i \in 1..3 : q[i] \in Ops /\ OfflineOp(q[i])
  BY <1>5, <1>8
<1>10. q \in Seq(Ops) /\ Len(q) = 3
  BY <1>7, <1>9
<1> QED
  BY <1>9, <1>10 DEF q

(* The common start of EraseCommands and ProgramCommands. *)
LEMMA Prefix ==
    ASSUME NEW c \in {"SECTOR_ERASE", "PP"}, NEW a \in Int
    PROVE  LET p == take_offline \o WriteEnable \o <<F(c)>> \o Slowly(AddressBytes(a))
           IN Body(p) /\ Len(p) = 15
<1>1. Body(take_offline) /\ Len(take_offline) = 8
  BY OfflinePlan DEF Body
<1>2. WriteEnable \in Seq(Ops) /\ Len(WriteEnable) = 3 /\ \A i \in 1..3 : OfflineOp(WriteEnable[i])
  BY PlainCommands DEF WriteEnable
<1> DEFINE p1 == take_offline \o WriteEnable
<1>3. Body(p1) /\ Len(p1) = 11
  <2>1. \A i \in 1..Len(WriteEnable) : OfflineOp(WriteEnable[i])
    BY <1>1, <1>2
  <2>2. Body(take_offline \o WriteEnable) /\ Len(take_offline \o WriteEnable) = Len(take_offline) + Len(WriteEnable)
    BY <2>1, <1>1, <1>2, Extended
  <2> QED
    BY <2>2, <1>1, <1>2
<1>4. <<F(c)>> \in Seq(Ops) /\ Len(<<F(c)>>) = 1 /\ \A i \in 1..1 : OfflineOp(<<F(c)>>[i])
  BY PlainCommands
<1> DEFINE p2 == p1 \o <<F(c)>>
<1> HIDE DEF p1
<1>5. Body(p2) /\ Len(p2) = 12
  <2>1. \A i \in 1..Len(<<F(c)>>) : OfflineOp(<<F(c)>>[i])
    BY <1>3, <1>4
  <2>2. Body(p1 \o <<F(c)>>) /\ Len(p1 \o <<F(c)>>) = Len(p1) + Len(<<F(c)>>)
    BY <2>1, <1>3, <1>4, Extended
  <2> QED
    BY <2>2, <1>3, <1>4
<1> HIDE DEF p2
<1>6. Body(p2 \o Slowly(AddressBytes(a))) /\ Len(p2 \o Slowly(AddressBytes(a))) = 15
  <2>1. \A i \in 1..Len(Slowly(AddressBytes(a))) : OfflineOp(Slowly(AddressBytes(a))[i])
    BY <1>5, Address
  <2>2. Body(p2 \o Slowly(AddressBytes(a))) /\ Len(p2 \o Slowly(AddressBytes(a))) = Len(p2) + Len(Slowly(AddressBytes(a)))
    BY <2>1, <1>5, Address, Extended
  <2>3. Len(Slowly(AddressBytes(a))) = 3
    BY Address
  <2> QED
    BY <2>2, <2>3, <1>5
<1> QED
  BY <1>6 DEF p1, p2

(* And their common end. *)
LEMMA WaitPlan ==
    ASSUME NEW p, Body(p)
    PROVE  LET q == p \o <<F_END>> \o StartWait IN q \in Seq(Ops) /\ Waits(q)
<1> DEFINE r == p \o <<F_END>>
           q == r \o StartWait
<1>1. <<F_END>> \in Seq(Ops) /\ Len(<<F_END>>) = 1 /\ \A i \in 1..1 : OfflineOp(<<F_END>>[i])
  BY PlainCommands
<1>2. Body(r)
  BY <1>1, Extended
<1> HIDE DEF r
<1>3. StartWait \in Seq(Ops) /\ Len(StartWait) = 2 /\ StartWait[1] = F_END /\ StartWait[2] = F("RDSR")
      /\ \A i \in 1..2 : OfflineOp(StartWait[i])
  BY PlainCommands DEF StartWait
<1>4. Body(q) /\ Len(q) = Len(r) + 2
  BY <1>2, <1>3, Extended
<1>5. r \in Seq(Ops) /\ Len(r) \in Nat /\ Len(r) >= 8
  BY <1>2 DEF Body, Starts
<1>6. \A i \in Int : i > Len(r) /\ i <= Len(r) + Len(StartWait) => q[i] = StartWait[i - Len(r)]
  BY <1>3, <1>5, Joined
<1> HIDE DEF q
<1>7. q[Len(r) + 1] = StartWait[1] /\ q[Len(r) + 2] = StartWait[2]
  BY <1>3, <1>5, <1>6
<1>8. Len(q) - 1 = Len(r) + 1 /\ Len(q) >= 10
  BY <1>4, <1>5
<1> QED
  BY <1>3, <1>4, <1>7, <1>8 DEF Waits, Body, q, r

(* erase_sector up to flwait. *)
LEMMA ErasePlan ==
    ASSUME NEW s \in Int PROVE EraseCommands(s) \in Seq(Ops) /\ Waits(EraseCommands(s))
BY Prefix, WaitPlan DEF EraseCommands

(* page_program up to flwait. *)
LEMMA ProgramPlan ==
    ASSUME NEW a \in Int, NEW len \in Nat
    PROVE  ProgramCommands(a, len) \in Seq(Ops) /\ Waits(ProgramCommands(a, len))
<1> DEFINE p == take_offline \o WriteEnable \o <<F("PP")>> \o Slowly(AddressBytes(a))
           q == [i \in 1..len |-> Slow(Dat(fbuf[a + i - 1]))]
<1>1. Body(p)
  BY Prefix
<1> HIDE DEF p
<1>2. ASSUME NEW i \in 1..len PROVE q[i] \in Ops /\ OfflineOp(q[i])
  <2>1. a + i - 1 \in Int
    OBVIOUS
  <2>2. q[i] \in Ops
    BY <2>1 DEF Ops
  <2>3. OfflineByte(Dat(fbuf[a + i - 1]))
    BY DEF OfflineByte, Dat
  <2> QED
    BY <2>2, <2>3 DEF OfflineOp
<1>3. q \in Seq(Ops) /\ Len(q) = len
  <2>1. \A i \in 1..len : Slow(Dat(fbuf[a + i - 1])) \in Ops
    BY <1>2
  <2> QED
    BY <2>1
<1> HIDE DEF q
<1>4. Body(p \o q)
  BY <1>1, <1>2, <1>3, Extended
<1>5. ProgramCommands(a, len) = (p \o q) \o <<F_END>> \o StartWait
  BY DEF ProgramCommands, p, q
<1> QED
  BY <1>4, <1>5, WaitPlan

(* The plans that end on line. *)
LEMMA ReturnPlans ==
    /\ take_offline \o place_online \in Seq(Ops) /\ Returns(take_offline \o place_online)
    /\ take_offline \o <<F("WRDI"), F_END>> \o place_online \in Seq(Ops)
    /\ Returns(take_offline \o <<F("WRDI"), F_END>> \o place_online)
    /\ <<F_END>> \o place_online \in Seq(Ops) /\ EndsOnline(<<F_END>> \o place_online)
    /\ Len(<<F_END>> \o place_online) = 12 /\ (<<F_END>> \o place_online)[1] = F_END
<1>1. ASSUME NEW q \in Seq(Ops), Starts(q), \A i \in 9..Len(q) : q[i] = F_END \/ q[i] = F("WRDI")
      PROVE  q \o place_online \in Seq(Ops) /\ Returns(q \o place_online)
  <2>1. Len(q) \in Nat /\ Len(q) >= 8
    BY <1>1 DEF Starts
  <2> DEFINE p == q \o place_online
  <2>2. /\ p \in Seq(Ops) /\ Len(p) = Len(q) + 11 /\ EndsOnline(p)
        /\ \A i \in 1..Len(q) : p[i] = q[i]
    BY <2>1, EndsWith
  <2> HIDE DEF p
  <2>3. Starts(p)
    BY <1>1, <2>1, <2>2, SMTT(60) DEF Starts
  <2>4. \A i \in 9..(Len(p) - 11) : p[i] = F_END \/ p[i] = F("WRDI")
    BY <1>1, <2>1, <2>2
  <2> QED
    BY <2>1, <2>2, <2>3, <2>4 DEF Returns, p
<1>2. take_offline \o place_online \in Seq(Ops) /\ Returns(take_offline \o place_online)
  BY <1>1, OfflinePlan
<1> DEFINE w == <<F("WRDI"), F_END>>
           q == take_offline \o w
<1>3. w \in Seq(Ops) /\ Len(w) = 2 /\ w[1] = F("WRDI") /\ w[2] = F_END
  BY PlainCommands
<1>w. w = <<F("WRDI"), F_END>>
  OBVIOUS
<1> HIDE DEF w
<1>4. /\ q \in Seq(Ops) /\ Len(q) = 10 /\ Starts(q)
      /\ \A i \in Int : i > 8 /\ i <= 8 + Len(w) => q[i] = w[i - 8]
  <2>1. /\ q \in Seq(Ops) /\ Len(q) = 8 + Len(w) /\ Starts(q)
        /\ \A i \in Int : i > 8 /\ i <= 8 + Len(w) => q[i] = w[i - 8]
    BY <1>3, StartsWith
  <2> HIDE DEF q
  <2> QED
    BY <1>3, <2>1
<1> HIDE DEF q
<1>5. q[9] = w[1] /\ q[10] = w[2]
  BY <1>3, <1>4
<1>6. \A i \in 9..Len(q) : q[i] = F_END \/ q[i] = F("WRDI")
  BY <1>3, <1>4, <1>5
<1>7. q \o place_online \in Seq(Ops) /\ Returns(q \o place_online)
  BY <1>1, <1>4, <1>6
<1> DEFINE e == <<F_END>>
<1>8. e \in Seq(Ops) /\ Len(e) = 1 /\ e[1] = F_END
  BY PlainCommands
<1>e. e = <<F_END>>
  OBVIOUS
<1> HIDE DEF e
<1>9. /\ e \o place_online \in Seq(Ops) /\ EndsOnline(e \o place_online)
      /\ Len(e \o place_online) = 12 /\ (e \o place_online)[1] = F_END
  <2>1. /\ e \o place_online \in Seq(Ops) /\ EndsOnline(e \o place_online)
        /\ Len(e \o place_online) = Len(e) + 11
        /\ \A i \in 1..Len(e) : (e \o place_online)[i] = e[i]
    <3>1. e \in Seq(Ops) /\ Len(e) > 0
      BY <1>8
    <3> QED
      BY <3>1, EndsWith
  <2> QED
    BY <1>8, <2>1
<1> QED
  BY <1>2, <1>7, <1>9, <1>w, <1>e DEF q

(* One write made: the next one is the next of the plan. *)
LEMMA RestStep ==
    ASSUME NEW S, NEW p \in Seq(S), NEW q \in Seq(S), Remaining(q, p), q # <<>>
    PROVE  /\ Tail(q) \in Seq(S) /\ Len(Tail(q)) = Len(q) - 1 /\ Remaining(Tail(q), p)
           /\ Head(q) = p[Len(p) - Len(q) + 1] /\ Head(q) \in S /\ Len(q) > 0
<1>1. /\ Tail(q) \in Seq(S) /\ Len(Tail(q)) = Len(q) - 1 /\ Len(q) \in Nat /\ Len(q) > 0 /\ Head(q) = q[1]
      /\ \A i \in 1..Len(Tail(q)) : Tail(q)[i] = q[i + 1]
  BY HeadTailProperties
<1>2. Len(p) \in Nat /\ Len(q) <= Len(p) /\ \A i \in 1..Len(q) : q[i] = p[Len(p) - Len(q) + i]
  BY DEF Remaining
<1>3. ASSUME NEW i \in 1..Len(Tail(q)) PROVE Tail(q)[i] = p[Len(p) - Len(Tail(q)) + i]
  <2>1. i + 1 \in 1..Len(q) /\ Len(p) - Len(q) + (i + 1) = Len(p) - Len(Tail(q)) + i
    BY <1>1, <1>2
  <2> QED
    BY <1>1, <1>2, <2>1
<1> QED
  BY <1>1, <1>2, <1>3 DEF Remaining

(* Any write leaves a sane chip: the tool can be killed anywhere. *)
LEMMA OpSane ==
    ASSUME NEW w \in Ops, NEW c, Sane(c)
    PROVE  Sane(Sent(w, c))
<1>1. w \in {F_END, Leave} \/ (\E b : w = Fast(b) /\ Plain(b)) \/ (\E b : w = Slow(b) /\ Plain(b))
  <2>1. Plain(Adr(0)) /\ Plain(Junk) /\ Plain(ModeByte)
    BY DEF Plain, Adr, Junk, ModeByte
  <2>2. \A k \in {"RESET", "WREN", "WRDI", "SECTOR_ERASE", "PP", "RDSR", "QUAD_IO_READ"} : Plain(Cmd(k))
    BY DEF Plain, Cmd
  <2>3. \A x : Plain(Adr(x)) /\ Plain(Dat(x))
    BY DEF Plain, Adr, Dat
  <2>4. CASE w \in {F_END, Leave, Fast(Adr(0)), Fast(Junk), Fast(ModeByte), Slow(Junk)}
    BY <2>1, <2>4
  <2>5. CASE w \in {F(k) : k \in {"RESET", "WREN", "WRDI", "SECTOR_ERASE", "PP", "RDSR", "QUAD_IO_READ"}}
    BY <2>2, <2>5 DEF F
  <2>6. CASE w \in {Slow(Adr(a)) : a \in Int}
    BY <2>3, <2>6
  <2>7. CASE w \in {Slow(Dat(fbuf[a])) : a \in Int}
    BY <2>3, <2>7
  <2> QED
    BY <2>4, <2>5, <2>6, <2>7 DEF Ops
<1>2. CASE w \in {F_END, Leave}
  <2>1. Sent(w, c) = Deselect(c)
    BY <1>2 DEF Sent, F_END, Leave
  <2> QED
    BY <2>1, DeselectSane
<1>3. ASSUME NEW b, Plain(b) PROVE Sane(Receive(c, b))
  <2>1. c.mode \in {"SPI", "QSPI"}
    BY DEF Sane
  <2>2. CASE c.mode = "SPI"
    BY <1>3, <2>2, ReceiveSpi
  <2>3. CASE c.mode = "QSPI"
    BY <2>3, ReceiveQuad
  <2> QED
    BY <2>1, <2>2, <2>3
<1>4. ASSUME NEW b, w = Fast(b), Plain(b) PROVE Sane(Sent(w, c))
  <2>1. Sent(w, c) = Receive(c, b)
    BY <1>4 DEF Sent, Fast
  <2> QED
    BY <1>3, <1>4, <2>1
<1>5. ASSUME NEW b, w = Slow(b), Plain(b) PROVE Sane(Sent(w, c))
  <2>1. Sent(w, c) = ReceiveSlow(c, b)
    BY <1>5 DEF Sent, Slow
  <2>2. CASE c.mode = "SPI"
    <3>1. ReceiveSlow(c, b) = Receive(c, b)
      BY <2>2 DEF ReceiveSlow
    <3> QED
      BY <1>3, <1>5, <2>1, <3>1
  <2>3. CASE c.mode # "SPI"
    <3> DEFINE c1 == Receive(c, Junk)
               c2 == Receive(c1, Junk)
               c3 == Receive(c2, Junk)
    <3>0. c.mode = "QSPI"
      BY <2>3 DEF Sane
    <3>1. Sane(c1) /\ c1.mode = "QSPI"
      BY <3>0, ReceiveQuad
    <3>2. Sane(c2) /\ c2.mode = "QSPI"
      BY <3>1, ReceiveQuad
    <3>3. Sane(c3) /\ c3.mode = "QSPI"
      BY <3>2, ReceiveQuad
    <3>4. Sane(Receive(c3, Junk))
      BY <3>3, ReceiveQuad
    <3> QED
      BY <2>1, <2>3, <3>4, SlowQuad
  <2> QED
    BY <2>2, <2>3
<1> QED
  BY <1>1, <1>2, <1>4, <1>5

(* A write to the port, and the mode it leaves the controller in. *)
LEMMA PortSends ==
    ASSUME NEW w \in Ops, PortWrite(w)
    PROVE  chip' = Sent(w, chip) /\ ctl'.user = (w.op # "leave")
<1>1. w.op \in {"end", "leave", "slow", "fast"}
  BY DEF Ops, F_END, Leave, Fast, Slow, F
<1>2. ctl'.user = (w.op # "leave")
  BY DEF PortWrite
<1>3. chip' = CASE w.op \in {"end", "leave"} -> Deselect(chip)
                [] w.op = "slow" -> ReceiveSlow(chip, w.b)
                [] w.op = "fast" -> Receive(chip, w.b)
  BY DEF PortWrite
<1>4. chip' = Sent(w, chip)
  BY <1>1, <1>3 DEF Sent
<1> QED
  BY <1>2, <1>4

(* A plan that takes the chip off line, write by write. *)
LEMMA OfflineStep ==
    ASSUME NEW p \in Seq(Ops), Starts(p), NEW k \in 0..(Len(p) - 1), NEW c, LeavesQuad(k, c),
           k > 7 => OfflineOp(p[k + 1])
    PROVE  LET e == Sent(p[k + 1], c) IN
           /\ LeavesQuad(k + 1, e)
           /\ p[k + 1] = F_END => e.n = 0
           /\ c.state \notin Burning /\ (k > 7 => p[k + 1] \in {F_END, F("WRDI")}) => e.state \notin Burning /\ e.wip = c.wip
<1> DEFINE w == p[k + 1]
           e == Sent(w, c)
<1>1. CASE k = 0
  <2>1. w = F_END /\ Sane(c)
    BY <1>1 DEF Starts, LeavesQuad
  <2>2. e = Deselect(c)
    BY <2>1 DEF Sent, F_END
  <2> HIDE DEF e
  <2>3. Deselected(e) /\ e.n = 0 /\ (c.state \notin Burning => e.state \notin Burning /\ e.wip = c.wip)
    BY <2>1, <2>2, DeselectSane DEF Deselected
  <2> QED
    BY <1>1, <2>3 DEF LeavesQuad, e
<1>2. CASE k \in 1..6
  <2>1. w = F("RESET") /\ (Deselected(c) \/ Quitting(c))
    <3>1. k + 1 \in 2..7
      BY <1>2
    <3>2. w = F("RESET")
      BY <3>1 DEF Starts
    <3>3. k = 1 \/ k \in 2..7
      BY <1>2
    <3> QED
      BY <1>2, <3>2, <3>3 DEF LeavesQuad
  <2>2. e = ReceiveSlow(c, Cmd("RESET"))
    BY <2>1 DEF Sent, F, Slow
  <2>3. w # F_END
    BY <2>1 DEF F, F_END, Slow
  <2> HIDE DEF e, w
  <2>4. Quitting(e) /\ e.wip = c.wip /\ e.state \notin Burning
    BY <2>1, <2>2, ResetByte
  <2>5. k + 1 \in 2..7 /\ k + 1 # 0 /\ k + 1 # 1 /\ ~(k + 1 > 7)
    BY <1>2
  <2>6. LeavesQuad(k + 1, e)
    BY <2>4, <2>5 DEF LeavesQuad
  <2> QED
    BY <2>3, <2>4, <2>6 DEF e, w
<1>3. CASE k = 7
  <2>1. w = F_END /\ Quitting(c)
    BY <1>3 DEF Starts, LeavesQuad
  <2>2. e = Deselect(c)
    BY <2>1 DEF Sent, F_END
  <2> HIDE DEF e
  <2>3. Offline(e) /\ e.n = 0 /\ e.wip = c.wip /\ e.state \notin Burning
    BY <2>1, <2>2, QuitEnd
  <2> QED
    BY <1>3, <2>3 DEF LeavesQuad, e
<1>4. CASE k > 7
  <2>1. Offline(c)
    BY <1>4 DEF LeavesQuad
  <2>2. CASE w = F_END
    <3>1. e = Deselect(c)
      BY <2>2 DEF Sent, F_END
    <3> HIDE DEF e
    <3>2. Offline(e) /\ e.n = 0 /\ (c.state \notin Burning => e.wip = c.wip /\ e.state \notin Burning)
      BY <2>1, <3>1, OfflineEnd
    <3> QED
      BY <1>4, <3>2 DEF LeavesQuad, e
  <2>3. CASE w # F_END
    <3>1. PICK b : w = Slow(b) /\ OfflineByte(b)
      BY <1>4, <2>3 DEF OfflineOp
    <3>2. e = ReceiveSlow(c, b)
      BY <3>1 DEF Sent, Slow
    <3>3. w = F("WRDI") => b = Cmd("WRDI")
      BY <3>1 DEF F, Slow
    <3>4. w = F("WRDI") => b[2] \notin Burning
      BY <3>3 DEF Cmd, Burning
    <3> HIDE DEF e
    <3>5. /\ Offline(e) /\ e.wip = c.wip
          /\ c.state \notin Burning /\ (b[1] = "cmd" => b[2] \notin Burning) => e.state \notin Burning
      BY <2>1, <3>1, <3>2, OfflineSlow
    <3> HIDE DEF w
    <3> QED
      BY <1>4, <2>3, <3>4, <3>5 DEF LeavesQuad, e, w
  <2> QED
    BY <2>2, <2>3
<1> QED
  BY <1>1, <1>2, <1>3, <1>4

(* What the driver still has to write, by the decision it made last. *)
LEMMA PlanKinds ==
    ASSUME DrvOK
    PROVE  /\ Plan \in Seq(Ops)
           /\ drv.at \in {"erasing", "programming"} => Waits(Plan)
           /\ drv.at \in {"nextpage", "written"} => Returns(Plan)
           /\ drv.at \in {"erased", "programmed"} => EndsOnline(Plan) /\ Len(Plan) = 12 /\ Plan[1] = F_END
           /\ drv.at = "aborted" => Starts(Plan) /\ Len(Plan) = 8
           /\ drv.at \in {"idle", "halt", "load", "sector", "page", "failed"} => Plan = <<>>
<1>1. drv.s \in Int /\ drv.p \in Int
  BY DEF DrvOK
<1>2. CASE drv.at = "erasing"
  <2>1. Plan = EraseCommands(drv.s)
    BY <1>2 DEF Plan
  <2> QED
    BY <1>1, <1>2, <2>1, ErasePlan
<1>3. CASE drv.at = "programming"
  <2>1. Plan = ProgramCommands(drv.p, drv.len) /\ drv.len \in Nat
    BY <1>3 DEF Plan, DrvOK
  <2> QED
    BY <1>1, <1>3, <2>1, ProgramPlan
<1>4. CASE drv.at \in {"erased", "programmed"}
  <2>1. Plan = <<F_END>> \o place_online
    BY <1>4 DEF Plan
  <2> QED
    BY <1>4, <2>1, ReturnPlans
<1>5. CASE drv.at = "nextpage"
  <2>1. Plan = take_offline \o place_online
    BY <1>5 DEF Plan
  <2> QED
    BY <1>5, <2>1, ReturnPlans
<1>6. CASE drv.at = "written"
  <2>1. Plan = take_offline \o <<F("WRDI"), F_END>> \o place_online
    BY <1>6 DEF Plan
  <2> QED
    BY <1>6, <2>1, ReturnPlans
<1>7. CASE drv.at = "aborted"
  <2>1. Plan = take_offline
    BY <1>7 DEF Plan
  <2> QED
    BY <1>7, <2>1, OfflinePlan
<1>8. CASE drv.at \in {"idle", "halt", "load", "sector", "page", "failed"}
  <2>1. Plan = <<>>
    BY <1>8 DEF Plan
  <2> QED
    BY <1>8, <2>1
<1>9. drv.at \in {"idle", "halt", "load", "sector", "erasing", "erased", "page", "programming", "programmed",
                  "nextpage", "written", "failed", "aborted"}
  BY DEF DrvOK
<1> QED
  BY <1>2, <1>3, <1>4, <1>5, <1>6, <1>7, <1>8, <1>9

(* A driver with nothing to write and one that writes are at different places. *)
LEMMA NothingToSend ==
    ASSUME DrvOK, drv.at \in {"idle", "halt", "load", "sector", "page", "failed"}
    PROVE  todo = <<>>
<1>1. Plan = <<>> /\ todo \in Seq(Ops) /\ Remaining(todo, Plan)
  BY PlanKinds DEF DrvOK
<1>2. Len(todo) <= 0
  BY <1>1 DEF Remaining
<1> QED
  BY <1>1, <1>2, EmptySeq

(* One write of the driver, seen from its plan. *)
LEMMA BusFacts ==
    ASSUME DrvOK, ChipOK, BusOp
    PROVE  LET k == Made
               w == Plan[k + 1]
           IN /\ k \in 0..(Len(Plan) - 1) /\ Len(Plan) - k = Len(todo) /\ Len(todo) \in Nat \ {0} /\ Len(Plan) \in Nat
              /\ w \in Ops
              /\ todo' \in Seq(Ops) /\ Len(todo') = Len(todo) - 1 /\ Remaining(todo', Plan)
              /\ chip' = Sent(w, chip) /\ Sane(chip')
              /\ ctl'.user = (w.op # "leave")
<1>1. Plan \in Seq(Ops) /\ todo \in Seq(Ops) /\ Remaining(todo, Plan) /\ todo # <<>>
  BY PlanKinds DEF DrvOK, BusOp
<1>2. /\ Tail(todo) \in Seq(Ops) /\ Len(Tail(todo)) = Len(todo) - 1 /\ Remaining(Tail(todo), Plan)
      /\ Head(todo) = Plan[Len(Plan) - Len(todo) + 1] /\ Head(todo) \in Ops /\ Len(todo) > 0
  BY <1>1, RestStep
<1>3. Len(Plan) \in Nat /\ Len(todo) \in Nat /\ Len(todo) <= Len(Plan)
  BY <1>1 DEF Remaining
<1>4. Head(todo) = Plan[Made + 1]
  BY <1>2 DEF Made
<1>5. Made \in 0..(Len(Plan) - 1) /\ Len(Plan) - Made = Len(todo)
  BY <1>2, <1>3 DEF Made
<1>6. todo' = Tail(todo) /\ PortWrite(Head(todo))
  BY DEF BusOp
<1>7. chip' = Sent(Head(todo), chip) /\ ctl'.user = (Head(todo).op # "leave")
  BY <1>2, <1>6, PortSends
<1>8. Sane(chip')
  BY <1>2, <1>7, OpSane DEF ChipOK
<1> QED
  BY <1>2, <1>3, <1>4, <1>5, <1>6, <1>7, <1>8

(* Only Leave leaves user mode. *)
LEMMA NotLeaving == /\ F_END.op # "leave" /\ \A c : F(c).op # "leave" /\ \A b : Slow(b).op # "leave" /\ Fast(b).op # "leave"
BY DEF F_END, F, Slow, Fast

(* A byte for a chip that is off line does not. *)
LEMMA OfflineStays ==
    ASSUME NEW w, OfflineOp(w) PROVE w.op # "leave"
BY NotLeaving DEF OfflineOp

(* One write of an erase or a program. *)
LEMMA BusWait ==
    ASSUME DrvOK, ChipOK, WaitOK, BusOp, drv.at \in {"erasing", "programming"}
    PROVE  ctl'.user = TRUE /\ WaitOK'
<1> DEFINE k == Made
           w == Plan[k + 1]
<1>1. /\ k \in 0..(Len(Plan) - 1) /\ Len(Plan) - k = Len(todo) /\ Len(todo) \in Nat \ {0} /\ Len(Plan) \in Nat
      /\ todo' \in Seq(Ops) /\ Len(todo') = Len(todo) - 1
      /\ chip' = Sent(w, chip)
      /\ ctl'.user = (w.op # "leave")
  BY BusFacts
<1>2. Plan \in Seq(Ops) /\ Waits(Plan) /\ Starts(Plan) /\ Len(Plan) >= 10
  BY PlanKinds DEF Waits
<1>3. Plan' = Plan /\ drv' = drv
  BY DEF BusOp, Plan, EraseCommands, ProgramCommands, WriteEnable, StartWait
<1>4. Made' = k + 1
  BY <1>1, <1>3 DEF Made
<1>5. LeavesQuad(k, chip)
  BY DEF WaitOK
<1>a. k \in Nat /\ Len(Plan) \in Nat /\ k + Len(todo) = Len(Plan) /\ Len(todo') = Len(todo) - 1
      /\ Len(todo) \in Nat /\ Len(todo) > 0
  BY <1>1
<1> HIDE DEF k
<1>6. k > 7 => OfflineOp(w)
  BY <1>1, <1>2 DEF Waits
<1>7. /\ LeavesQuad(k + 1, chip')
      /\ w = F_END => chip'.n = 0
  BY <1>1, <1>2, <1>5, <1>6, OfflineStep
<1>8. w.op # "leave"
  <2>1. CASE k > 7
    BY <1>6, <2>1, OfflineStays
  <2>2. CASE k <= 7
    <3>1. k + 1 \in 1..8
      BY <1>a, <2>2
    <3>2. w = F_END \/ w = F("RESET")
      BY <1>2, <3>1 DEF Starts
    <3> QED
      BY <3>2, NotLeaving
  <2> QED
    BY <1>a, <2>1, <2>2
<1>9. Len(todo') = 1 => chip'.n = 0
  <2>1. SUFFICES ASSUME Len(todo') = 1 PROVE w = F_END
    BY <1>7
  <2>2. k + 1 = Len(Plan) - 1
    <3>1. Len(todo) = 2
      <4>1. Len(todo) \in Nat /\ Len(todo) = Len(todo') + 1
        BY <1>a
      <4> QED
        BY <2>1, <4>1
    <3>2. k \in Nat /\ Len(Plan) \in Nat /\ k + 2 = Len(Plan)
      BY <1>a, <3>1
    <3> QED
      BY <3>2
  <2> QED
    BY <1>2, <2>2 DEF Waits
<1>10. Len(todo') = 0 => /\ Offline(chip') /\ chip'.state = "RDSR" /\ chip'.n > 0
                         /\ chip'.wip => chip'.out = <<"wip", TRUE>>
  <2>1. SUFFICES ASSUME Len(todo') = 0
                 PROVE  /\ Offline(chip') /\ chip'.state = "RDSR" /\ chip'.n > 0
                        /\ chip'.wip => chip'.out = <<"wip", TRUE>>
    OBVIOUS
  <2>2. k + 1 = Len(Plan) /\ Len(todo) = 1 /\ k > 7 /\ k + 1 > 7
    <3>1. Len(todo) = 1
      BY <1>a, <2>1
    <3>2. k \in Nat /\ Len(Plan) \in Nat /\ k + 1 = Len(Plan)
      BY <1>a, <3>1
    <3> QED
      BY <1>2, <3>1, <3>2
  <2>3. w = Slow(Cmd("RDSR"))
    BY <1>2, <2>2 DEF Waits, F
  <2>4. Offline(chip) /\ chip.n = 0 /\ Offline(chip')
    <3>1. Offline(chip)
      BY <1>1, <1>5, <2>2 DEF LeavesQuad
    <3>2. Offline(chip')
      BY <1>1, <1>7, <2>2 DEF LeavesQuad
    <3> QED
      BY <2>2, <3>1, <3>2 DEF WaitOK
  <2>5. chip' = ReceiveSlow(chip, Cmd("RDSR"))
    BY <1>1, <2>3 DEF Sent, Slow
  <2> DEFINE e == ReceiveSlow(chip, Cmd("RDSR"))
  <2>6. e.state = "RDSR" /\ e.n = 1 /\ e.out = <<"wip", chip.wip>> /\ e.wip = chip.wip
    BY <2>4, StatusByte
  <2>7. e.wip \in BOOLEAN
    BY <2>4, <2>5 DEF Offline, Sane
  <2>9. chip' = e
    BY <2>5
  <2> HIDE DEF e
  <2>8. e.wip => e.out = <<"wip", TRUE>>
    <3>1. SUFFICES ASSUME e.wip PROVE e.out = <<"wip", TRUE>>
      OBVIOUS
    <3>2. e.wip = TRUE
      BY <2>7, <3>1, Zenon
    <3> QED
      BY <2>6, <3>2, Zenon
  <2> QED
    <3>1. e.n > 0
      BY <2>6
    <3> QED
      BY <2>4, <2>6, <2>8, <2>9, <3>1, Zenon
<1>11. ctl'.user = TRUE
  BY <1>1, <1>8, Zenon
<1> QED
  BY <1>3, <1>4, <1>7, <1>9, <1>10, <1>11 DEF WaitOK

(* Only the last write of place_online leaves user mode. *)
LEMMA PlaceOnline ==
    /\ place_online[1] = F_END /\ place_online[11] = Leave
    /\ \A i \in 2..10 : place_online[i].op # "leave"
<1>1. place_online[1] = F_END /\ place_online[11] = Leave
  BY DEF place_online, restore_quadio
<1>2. ASSUME NEW i \in 2..10 PROVE place_online[i].op # "leave"
  <2>1. place_online[i] = F("QUAD_IO_READ") \/ (\E b : place_online[i] = Fast(b)) \/ (\E b : place_online[i] = Slow(b))
    <3>1. CASE i \in 2..5
      BY <3>1 DEF place_online, restore_quadio
    <3>2. CASE i \in 6..10
      BY <3>2 DEF place_online, restore_quadio
    <3> QED
      BY <3>1, <3>2
  <2> QED
    BY <2>1, NotLeaving
<1> QED
  BY <1>1, <1>2

(* One write of a plan that returns: user mode is left with the chip on line. *)
LEMMA BusReturn ==
    ASSUME DrvOK, ChipOK, ReturnOK, BusOp, drv.at \in {"erased", "programmed", "nextpage", "written"}
    PROVE  ctl'.user \in BOOLEAN /\ (ctl'.user = FALSE => Online(chip')) /\ ReturnOK'
<1> DEFINE k == Made
           w == Plan[k + 1]
           l == Len(todo)
<1>1. /\ k \in 0..(Len(Plan) - 1) /\ Len(Plan) - k = l /\ l \in Nat \ {0} /\ Len(Plan) \in Nat
      /\ todo' \in Seq(Ops) /\ Len(todo') = l - 1
      /\ chip' = Sent(w, chip)
      /\ ctl'.user = (w.op # "leave")
  BY BusFacts
<1>2. /\ Plan \in Seq(Ops) /\ EndsOnline(Plan)
      /\ drv.at \in {"nextpage", "written"} => Returns(Plan)
      /\ drv.at \in {"erased", "programmed"} => Len(Plan) = 12 /\ Plan[1] = F_END
  BY PlanKinds DEF Returns
<1>3. Plan' = Plan /\ drv' = drv
  BY DEF BusOp, Plan, EraseCommands, ProgramCommands, WriteEnable, StartWait
<1>4. Made' = k + 1
  BY <1>1, <1>3 DEF Made
<1>5. chip.wip = FALSE
  BY DEF ReturnOK
<1>6. l > 10 =>
             /\ chip.state \notin Burning
             /\ IF drv.at \in {"nextpage", "written"} THEN LeavesQuad(k, chip) ELSE Offline(chip)
  BY DEF ReturnOK
<1>7. l <= 10 => Restoring(l, chip)
  BY DEF ReturnOK
<1>8. Len(todo') = l - 1 /\ Len(todo') \in Nat
  BY <1>1
<1>a. k \in Nat /\ Len(Plan) \in Nat /\ k + l = Len(Plan) /\ Len(todo') = l - 1 /\ l \in Nat /\ l > 0
  BY <1>1
<1> HIDE DEF k, l
<1>9. CASE l <= 10
  <2>1. l \in 1..10 /\ k + 1 = Len(Plan) - 11 + (12 - l) /\ 12 - l \in 1..11
    BY <1>a, <1>9
  <2>2. w = place_online[12 - l]
    BY <1>2, <2>1 DEF EndsOnline
  <2>3. Restoring(l - 1, chip') /\ chip'.wip = FALSE
    <3>1. Restoring(l, chip)
      BY <1>7, <1>9
    <3>2. Restoring(l - 1, Sent(place_online[12 - l], chip)) /\ Sent(place_online[12 - l], chip).wip = FALSE
      BY <1>5, <2>1, <3>1, RestoreStep
    <3>3. chip' = Sent(place_online[12 - l], chip)
      BY <1>1, <2>2, Zenon
    <3> QED
      BY <3>2, <3>3, Zenon
  <2>4. ctl'.user = FALSE => Online(chip')
    <3>1. CASE l = 1
      BY <2>3, <3>1 DEF Restoring
    <3>2. CASE l # 1
      <4>1. 12 - l \in 2..10
        BY <2>1, <3>2
      <4>2. w.op # "leave"
        BY <2>2, <4>1, PlaceOnline
      <4> QED
        BY <1>1, <4>2, Zenon
    <3> QED
      BY <3>1, <3>2
  <2>5. ctl'.user \in BOOLEAN
    BY <1>1, Zenon
  <2>6. Len(todo') <= 10 /\ ~(Len(todo') > 10)
    BY <1>1, <1>9
  <2>7. Len(todo') = 0 => ctl'.user = FALSE
    <3>1. SUFFICES ASSUME Len(todo') = 0 PROVE ctl'.user = FALSE
      OBVIOUS
    <3>2. l = 1
      <4>1. l \in Nat /\ l = Len(todo') + 1
        BY <1>a
      <4> QED
        BY <3>1, <4>1
    <3>3. w = Leave
      BY <2>2, <3>2, PlaceOnline
    <3>4. w.op = "leave"
      BY <3>3 DEF Leave
    <3> QED
      BY <1>1, <3>4
  <2> QED
    BY <1>8, <2>3, <2>4, <2>5, <2>6, <2>7 DEF ReturnOK
<1>10. CASE l = 11
  <2>1. k + 1 = Len(Plan) - 11 + 1
    BY <1>a, <1>10
  <2>2. w = F_END
    <3>1. Plan[Len(Plan) - 11 + 1] = place_online[1]
      <4>1. 1 \in 1..11
        OBVIOUS
      <4> QED
        BY <1>2, <4>1, Zenon DEF EndsOnline
    <3> QED
      BY <2>1, <3>1, PlaceOnline
  <2>3. Offline(chip) /\ chip.state \notin Burning
    <3>1. CASE drv.at \in {"nextpage", "written"}
      <4>1. k > 7
        BY <1>1, <1>2, <1>10, <3>1 DEF Returns
      <4> QED
        BY <1>1, <1>6, <1>10, <3>1, <4>1 DEF LeavesQuad
    <3>2. CASE drv.at \in {"erased", "programmed"}
      BY <1>6, <1>10, <3>2
    <3> QED
      BY <3>1, <3>2
  <2>4. chip' = Deselect(chip)
    BY <1>1, <2>2 DEF Sent, F_END
  <2>5. Offline(chip') /\ chip'.n = 0 /\ chip'.wip = FALSE
    BY <1>5, <2>3, <2>4, OfflineEnd
  <2>6. Len(todo') = 10 /\ ~(Len(todo') > 10) /\ Len(todo') # 0
    BY <1>8, <1>10
  <2>7. Restoring(Len(todo'), chip')
    BY <2>5, <2>6 DEF Restoring
  <2>8. ctl'.user = TRUE
    BY <1>1, <2>2, NotLeaving, Zenon
  <2> QED
    BY <2>5, <2>6, <2>7, <2>8 DEF ReturnOK
<1>11. CASE l > 11
  <2>0. Len(todo') > 10 /\ ~(Len(todo') <= 10) /\ Len(todo') # 0
    BY <1>1, <1>11
  <2>1. CASE drv.at \in {"erased", "programmed"}
    <3>1. w = F_END
      <4>1. Len(Plan) = 12
        BY <1>2, <2>1
      <4>2. k + 1 = 1
        BY <1>a, <1>11, <4>1
      <4>3. Plan[1] = F_END
        BY <1>2, <2>1
      <4> QED
        BY <4>2, <4>3
    <3>2. Offline(chip) /\ chip.state \notin Burning
      BY <1>1, <1>6, <1>11, <2>1
    <3>3. chip' = Deselect(chip)
      BY <1>1, <3>1 DEF Sent, F_END
    <3>4. Offline(chip') /\ chip'.wip = FALSE /\ chip'.state \notin Burning
      BY <1>5, <3>2, <3>3, OfflineEnd
    <3>5. ctl'.user = TRUE
      BY <1>1, <3>1, NotLeaving, Zenon
    <3> QED
      BY <1>3, <2>0, <2>1, <3>4, <3>5 DEF ReturnOK
  <2>2. CASE drv.at \in {"nextpage", "written"}
    <3>1. Returns(Plan) /\ Starts(Plan)
      BY <1>2, <2>2 DEF Returns
    <3>2. k > 7 => w \in {F_END, F("WRDI")}
      <4>1. k > 7 => k + 1 \in 9..(Len(Plan) - 11)
        BY <1>1, <1>11
      <4> QED
        BY <3>1, <4>1 DEF Returns
    <3>3. k > 7 => OfflineOp(w)
      BY <3>2, PlainCommands
    <3>4. LeavesQuad(k, chip) /\ chip.state \notin Burning
      BY <1>1, <1>6, <1>11, <2>2
    <3>5. LeavesQuad(k + 1, chip') /\ chip'.state \notin Burning /\ chip'.wip = FALSE
      BY <1>1, <1>2, <1>5, <3>1, <3>2, <3>3, <3>4, OfflineStep
    <3>6. w.op # "leave"
      <4>1. CASE k > 7
        BY <3>3, <4>1, OfflineStays
      <4>2. CASE k <= 7
        <5>1. k + 1 \in 1..8
          BY <1>1, <4>2
        <5>2. w = F_END \/ w = F("RESET")
          BY <3>1, <5>1 DEF Starts
        <5> QED
          BY <5>2, NotLeaving
      <4> QED
        BY <1>1, <4>1, <4>2
    <3>7. ctl'.user = TRUE
      BY <1>1, <3>6, Zenon
    <3> QED
      BY <1>3, <1>4, <2>0, <2>2, <3>5, <3>7 DEF ReturnOK
  <2> QED
    BY <2>1, <2>2
<1> QED
  <2>1. l <= 10 \/ l = 11 \/ l > 11
    <3>1. l \in Nat
      BY <1>a
    <3> QED
      BY <3>1
  <2> QED
    BY <2>1, <1>9, <1>10, <1>11

(* A plan of which nothing is made, and one of which everything is. *)
LEMMA RestSelf ==
    /\ \A S, q : q \in Seq(S) => Remaining(q, q) /\ Len(q) - Len(q) = 0 /\ Len(q) \in Nat
    /\ \A S, q : q \in Seq(S) => Remaining(<<>>, q)
    /\ <<>> \in Seq(Ops) /\ Len(<<>>) = 0
<1>1. ASSUME NEW S, NEW q \in Seq(S) PROVE Remaining(q, q) /\ Len(q) - Len(q) = 0 /\ Len(q) \in Nat /\ Remaining(<<>>, q)
  <2>1. Len(q) \in Nat
    OBVIOUS
  <2>2. \A i \in 1..Len(q) : Len(q) - Len(q) + i = i
    BY <2>1
  <2> QED
    BY <2>1, <2>2 DEF Remaining
<1> QED
  BY <1>1

(* Goto changes the place only. *)
LEMMA GotoIs ==
    ASSUME IsDrv(drv), NEW at, Goto(at)
    PROVE  /\ IsDrv(drv') /\ drv'.at = at /\ drv'.addr = drv.addr /\ drv'.end = drv.end /\ drv'.s = drv.s
           /\ drv'.p = drv.p /\ drv'.len = drv.len
<1>1. drv' = [drv EXCEPT !.at = at]
  BY DEF Goto
<1> QED
  BY <1>1 DEF IsDrv

(* The CPU stays halted from the first write to the flash on. *)
LEMMA CpuStays ==
    ASSUME CpuOK, drv.at \notin {"idle", "halt"}, cpu' = cpu
    PROVE  CpuOK'
BY DEF CpuOK

(* The end of a write cycle changes none of what the invariant says of the interface. *)
LEMMA CompleteKeeps ==
    ASSUME NEW c, Sane(c)
    PROVE  LET e == Complete(c) IN
           /\ Sane(e) /\ e.wip = FALSE /\ e.state = c.state /\ e.mode = c.mode /\ e.n = c.n /\ e.keep = c.keep
<1> DEFINE e == Complete(c)
<1>1. e = [c EXCEPT !.wip = FALSE, !.wel = FALSE, !.asleep = FALSE]
  BY DEF Complete
<1> HIDE DEF e
<1>2. IsChip(e)
  BY <1>1 DEF Sane, IsChip
<1>3. /\ e.wip = FALSE /\ e.state = c.state /\ e.mode = c.mode /\ e.n = c.n /\ e.keep = c.keep /\ e.asleep = FALSE
  BY <1>1 DEF Sane, IsChip
<1>4. Sane(e)
  BY <1>2, <1>3 DEF Sane
<1> QED
  BY <1>3, <1>4 DEF e

(* So it may come between any two writes. *)
LEMMA CompleteLeaves ==
    ASSUME NEW c, NEW k, LeavesQuad(k, c)
    PROVE  LeavesQuad(k, Complete(c))
<1>1. Sane(c)
  BY DEF LeavesQuad, Deselected, Quitting, Offline
<1> DEFINE e == Complete(c)
<1>2. /\ Sane(e) /\ e.wip = FALSE /\ e.state = c.state /\ e.mode = c.mode /\ e.n = c.n /\ e.keep = c.keep
  BY <1>1, CompleteKeeps
<1> HIDE DEF e
<1>3. LeavesQuad(k, e)
  BY <1>2 DEF LeavesQuad, Deselected, Quitting, Offline
<1> QED
  BY <1>3 DEF e

(* Reading through the bus leaves the chip where bus reads can go on. *)
LEMMA ReadKeeps ==
    ASSUME ChipOK, NEW a, NEW n, chip' = AfterRead(a, n), ctl' = ctl
    PROVE  ChipOK' /\ (ctl.user = FALSE => Online(chip'))
<1>1. CASE ctl.user
  BY <1>1 DEF ChipOK, AfterRead
<1>2. CASE ~ctl.user
  <2> DEFINE x == IF chip.wip THEN a ELSE a + n * WORD + 1
             e == [chip EXCEPT !.keep = TRUE, !.addr = x]
  <2>1. chip' = e
    BY <1>2 DEF AfterRead
  <2>e. e = [chip EXCEPT !.keep = TRUE, !.addr = x]
    OBVIOUS
  <2> HIDE DEF x, e
  <2>2. Online(chip)
    BY <1>2 DEF ChipOK
  <2>3. IsChip(e)
    BY <2>2, <2>e DEF Online, Sane, IsChip
  <2>4. /\ e.state = chip.state /\ e.mode = chip.mode /\ e.wip = chip.wip /\ e.n = chip.n
        /\ e.asleep = chip.asleep /\ e.keep = TRUE
    BY <2>2, <2>e DEF Online, Sane, IsChip
  <2>5. Online(e)
    BY <2>2, <2>3, <2>4 DEF Online, Sane
  <2> QED
    BY <2>1, <2>5 DEF ChipOK, Online
<1> QED
  BY <1>1, <1>2

(* BusOp preserves the invariant. *)
LEMMA BusOpKeeps ==
    ASSUME IInv, BusOp, UNCHANGED toolVars
    PROVE  IInv'
<1>1. DrvOK /\ ChipOK /\ WaitOK /\ ReturnOK /\ CpuOK
  BY DEF IInv
<1>2. /\ todo' \in Seq(Ops) /\ Remaining(todo', Plan) /\ Sane(chip') /\ ctl'.user = (Plan[Made + 1].op # "leave")
  BY <1>1, BusFacts
<1>3. Plan' = Plan /\ drv' = drv /\ fbuf' = fbuf /\ todo # <<>> /\ cpu' = cpu
  BY DEF BusOp, Plan, EraseCommands, ProgramCommands, WriteEnable, StartWait, toolVars
<1>4. DrvOK'
  <2>1. Ops' = Ops
    BY <1>3 DEF Ops
  <2> QED
    BY <1>1, <1>2, <1>3, <2>1 DEF DrvOK, IsDrv
<1>5. drv.at \in {"erasing", "programming", "erased", "programmed", "nextpage", "written", "aborted"}
  BY <1>1, <1>3, NothingToSend DEF DrvOK
<1>6. ctl'.user \in BOOLEAN /\ (ctl'.user = FALSE => Online(chip')) /\ WaitOK' /\ ReturnOK'
  <2>1. CASE drv.at \in {"erasing", "programming"}
    BY <1>1, <1>3, <2>1, BusWait DEF ReturnOK
  <2>2. CASE drv.at \in {"erased", "programmed", "nextpage", "written"}
    BY <1>1, <1>3, <2>2, BusReturn DEF WaitOK
  <2>3. CASE drv.at = "aborted"
    <3>1. Starts(Plan) /\ Len(Plan) = 8 /\ Made \in 0..(Len(Plan) - 1)
      BY <1>1, <2>3, PlanKinds, BusFacts
    <3>2. Made + 1 \in 1..8
      BY <3>1
    <3>3. Plan[Made + 1] = F_END \/ Plan[Made + 1] = F("RESET")
      BY <3>1, <3>2 DEF Starts
    <3>4. Plan[Made + 1].op # "leave"
      BY <3>3, NotLeaving
    <3>5. ctl'.user = TRUE
      BY <1>2, <3>4, Zenon
    <3> QED
      BY <1>3, <2>3, <3>5 DEF WaitOK, ReturnOK
  <2> QED
    BY <1>5, <2>1, <2>2, <2>3
<1>7. ChipOK'
  BY <1>2, <1>6 DEF ChipOK
<1>8. FreshOK' /\ HaltOK' /\ LoadOK'
  BY <1>3, <1>5 DEF FreshOK, HaltOK, LoadOK
<1>9. CpuOK'
  BY <1>1, <1>3, <1>5, CpuStays
<1> QED
  BY <1>4, <1>6, <1>7, <1>8, <1>9 DEF IInv

(* FlashReady preserves the invariant. *)
LEMMA ReadyKeeps ==
    ASSUME IInv, FlashReady, UNCHANGED toolVars
    PROVE  IInv'
<1>1. DrvOK /\ ChipOK /\ WaitOK /\ ReturnOK /\ FreshOK /\ HaltOK /\ LoadOK /\ CpuOK
  BY DEF IInv
<1>2. /\ chip.wip /\ chip' = Complete(chip) /\ ctl' = ctl /\ todo' = todo /\ drv' = drv /\ fbuf' = fbuf
      /\ UNCHANGED <<file, nsec, extent, ram, cpu, result, runs>>
  BY DEF FlashReady, toolVars
<1>3. chip.wip # FALSE
  BY <1>2
<1>4. /\ Sane(chip') /\ chip'.wip = FALSE /\ chip'.state = chip.state /\ chip'.mode = chip.mode
      /\ chip'.n = chip.n /\ chip'.keep = chip.keep
  BY <1>1, <1>2, CompleteKeeps DEF ChipOK
<1>5. drv.at \notin {"erased", "programmed", "nextpage", "written"}
  BY <1>1, <1>3 DEF ReturnOK
<1>6. ctl.user = TRUE
  BY <1>1, <1>3 DEF ChipOK, Online
<1>7. Plan' = Plan /\ Ops' = Ops /\ Made' = Made
  BY <1>2 DEF Plan, EraseCommands, ProgramCommands, WriteEnable, StartWait, Ops, Made
<1>8. DrvOK'
  BY <1>1, <1>2, <1>7 DEF DrvOK, IsDrv
<1>9. ChipOK'
  BY <1>2, <1>4, <1>6 DEF ChipOK
<1>10. WaitOK'
  <2>1. SUFFICES ASSUME drv.at \in {"erasing", "programming"}
                 PROVE  /\ LeavesQuad(Made, chip')
                        /\ Len(todo) = 1 => chip'.n = 0
                        /\ Len(todo) = 0 => Offline(chip') /\ chip'.state = "RDSR" /\ chip'.n > 0
    BY <1>2, <1>4, <1>7 DEF WaitOK
  <2>2. LeavesQuad(Made, chip')
    BY <1>1, <1>2, <2>1, CompleteLeaves DEF WaitOK
  <2> QED
    BY <1>1, <1>4, <2>1, <2>2 DEF WaitOK, Offline
<1>11. ReturnOK'
  BY <1>2, <1>5 DEF ReturnOK
<1>12. FreshOK' /\ HaltOK' /\ LoadOK' /\ CpuOK'
  BY <1>1, <1>2 DEF FreshOK, Fresh, HaltOK, LoadOK, CpuOK
<1> QED
  BY <1>8, <1>9, <1>10, <1>11, <1>12 DEF IInv

(* Wait preserves the invariant: it only ends when the chip is idle. *)
LEMMA WaitKeeps ==
    ASSUME IInv, Wait, UNCHANGED toolVars
    PROVE  IInv'
<1>1. DrvOK /\ ChipOK /\ WaitOK /\ ReturnOK /\ FreshOK /\ HaltOK /\ LoadOK /\ CpuOK
  BY DEF IInv
<1>2. /\ drv.at \in {"erasing", "programming"} /\ todo = <<>> /\ Len(todo) = 0
      /\ chip' = ReceiveSlow(chip, Cmd("EMPTY")) /\ ctl'.user = TRUE
      /\ fbuf' = fbuf /\ cpu' = cpu
  BY DEF Wait, PortWrite, F, Slow, toolVars
<1>3. Offline(chip) /\ chip.state = "RDSR" /\ chip.n > 0 /\ (chip.wip => chip.out = <<"wip", TRUE>>)
  BY <1>1, <1>2 DEF WaitOK
<1>4. Offline(chip') /\ chip'.state = "RDSR" /\ chip'.n > 0 /\ chip'.out = <<"wip", chip.wip>> /\ chip'.wip = chip.wip
  BY <1>2, <1>3, StatusAgain
<1>5. chip.wip \in BOOLEAN /\ Sane(chip')
  BY <1>3, <1>4 DEF Offline, Sane
<1>6. ChipOK'
  BY <1>2, <1>5 DEF ChipOK
<1>7. CpuOK'
  BY <1>1, <1>2, CpuStays
<1>8. Plan \in Seq(Ops) /\ Waits(Plan) /\ Len(Plan) \in Nat /\ Len(Plan) >= 10
  BY <1>1, <1>2, PlanKinds DEF Waits
<1>9. CASE chip.out = <<"wip", TRUE>>
  <2>1. todo' = todo /\ drv' = drv
    BY <1>9 DEF Wait
  <2>2. Plan' = Plan /\ Ops' = Ops /\ Made' = Made
    BY <1>2, <2>1 DEF Plan, EraseCommands, ProgramCommands, WriteEnable, StartWait, Ops, Made
  <2>3. DrvOK'
    BY <1>1, <2>1, <2>2 DEF DrvOK, IsDrv
  <2>4. chip'.wip => chip'.out = <<"wip", TRUE>>
    <3>1. SUFFICES ASSUME chip'.wip PROVE chip'.out = <<"wip", TRUE>>
      OBVIOUS
    <3>2. chip.wip = TRUE
      BY <1>4, <1>5, <3>1, Zenon
    <3> QED
      BY <1>4, <3>2, Zenon
  <2>5. LeavesQuad(Made, chip')
    <3>1. ~(Made <= 7) /\ Made # 0 /\ Made # 1
      <4>1. Made = Len(Plan) - 0
        BY <1>2 DEF Made
      <4> HIDE DEF Made
      <4> QED
        BY <1>8, <4>1
    <3> QED
      BY <1>4, <3>1 DEF LeavesQuad
  <2>6. WaitOK'
    <3>1. Len(todo') = 0 /\ Len(todo') # 1
      BY <1>2, <2>1
    <3>2. LeavesQuad(Made', chip')
      BY <2>2, <2>5, Zenon
    <3> QED
      BY <1>4, <2>4, <3>1, <3>2, Zenon DEF WaitOK
  <2>7. ReturnOK' /\ FreshOK' /\ HaltOK' /\ LoadOK'
    BY <1>2, <2>1 DEF ReturnOK, FreshOK, HaltOK, LoadOK
  <2> QED
    BY <1>6, <1>7, <2>3, <2>6, <2>7 DEF IInv
<1>10. CASE chip.out # <<"wip", TRUE>>
  <2>1. PICK at \in {"erased", "programmed"} : Goto(at)
    BY <1>2, <1>10 DEF Wait
  <2>2. todo' = <<F_END>> \o place_online
    BY <1>10 DEF Wait, Commands
  <2>3. /\ IsDrv(drv') /\ drv'.at = at /\ drv'.addr = drv.addr /\ drv'.end = drv.end /\ drv'.s = drv.s
        /\ drv'.p = drv.p /\ drv'.len = drv.len
    BY <1>1, <2>1, GotoIs DEF DrvOK
  <2>4. Plan' = todo' /\ Ops' = Ops
    BY <1>2, <2>1, <2>2, <2>3 DEF Plan, Ops
  <2>5. todo' \in Seq(Ops) /\ Len(todo') = 12 /\ Remaining(todo', todo')
    BY <2>2, ReturnPlans, RestSelf
  <2>6. DrvOK'
    BY <1>1, <2>1, <2>3, <2>4, <2>5 DEF DrvOK
  <2>7. chip'.wip = FALSE /\ chip'.state \notin Burning
    BY <1>3, <1>4, <1>5, <1>10 DEF Burning
  <2>8. ReturnOK'
    BY <1>4, <2>1, <2>3, <2>5, <2>7 DEF ReturnOK
  <2>9. WaitOK' /\ FreshOK' /\ HaltOK' /\ LoadOK'
    BY <2>1, <2>3 DEF WaitOK, FreshOK, HaltOK, LoadOK
  <2> QED
    BY <1>6, <1>7, <2>6, <2>8, <2>9 DEF IInv
<1> QED
  BY <1>9, <1>10

(* A chip that is back on line, and its driver with nothing left to write. *)
LEMMA Returned ==
    ASSUME IInv, todo = <<>>, drv.at \in {"erased", "programmed", "nextpage", "written"}
    PROVE  ctl.user = FALSE /\ Online(chip)
<1>1. Len(todo) = 0
  BY RestSelf
<1>2. ctl.user = FALSE
  BY <1>1 DEF IInv, ReturnOK
<1> QED
  BY <1>2 DEF IInv, ChipOK

(* VerifyErase preserves the invariant. *)
LEMMA VerifyEraseKeeps ==
    ASSUME IInv, VerifyErase, UNCHANGED toolVars
    PROVE  IInv'
<1>1. DrvOK /\ ChipOK /\ CpuOK /\ drv.at = "erased" /\ todo = <<>> /\ ctl.user = FALSE
  BY Returned DEF IInv, VerifyErase, Deciding
<1>2. todo' = todo /\ ctl' = ctl /\ fbuf' = fbuf /\ cpu' = cpu
  BY DEF VerifyErase, toolVars
<1>3. ChipOK'
  <2>1. chip' = chip \/ chip' = AfterRead(drv.s, SECTORSZB \div WORD)
    BY DEF VerifyErase
  <2>2. CASE chip' = chip
    BY <1>1, <1>2, <2>2 DEF ChipOK
  <2> QED
    BY <1>1, <1>2, <2>1, <2>2, ReadKeeps
<1>4. PICK at \in {"failed", "page"} : Goto(at)
  BY DEF VerifyErase
<1>5. /\ IsDrv(drv') /\ drv'.at = at /\ drv'.addr = drv.addr /\ drv'.end = drv.end /\ drv'.s = drv.s
      /\ drv'.p = drv.p /\ drv'.len = drv.len
  BY <1>1, <1>4, GotoIs DEF DrvOK
<1>6. DrvOK'
  <2>1. Plan' = <<>> /\ Ops' = Ops
    BY <1>2, <1>4, <1>5 DEF Plan, Ops
  <2>2. todo' \in Seq(Ops) /\ Remaining(todo', <<>>)
    BY <1>1, <1>2, RestSelf
  <2> QED
    BY <1>1, <1>4, <1>5, <2>1, <2>2 DEF DrvOK
<1>7. CpuOK'
  BY <1>1, <1>2, CpuStays
<1>8. WaitOK' /\ ReturnOK' /\ FreshOK' /\ HaltOK' /\ LoadOK'
  BY <1>1, <1>2, <1>4, <1>5 DEF WaitOK, ReturnOK, FreshOK, HaltOK, LoadOK
<1> QED
  BY <1>3, <1>6, <1>7, <1>8 DEF IInv

(* VerifyPage preserves the invariant. *)
LEMMA VerifyPageKeeps ==
    ASSUME IInv, VerifyPage, UNCHANGED toolVars
    PROVE  IInv'
<1>1. DrvOK /\ ChipOK /\ CpuOK /\ drv.at = "programmed" /\ todo = <<>> /\ ctl.user = FALSE /\ Online(chip)
  BY Returned DEF IInv, VerifyPage, Deciding
<1>2. todo' = todo /\ ctl' = ctl /\ fbuf' = fbuf /\ cpu' = cpu
  BY DEF VerifyPage, toolVars
<1>3. ChipOK' /\ Online(chip')
  <2>1. chip' = chip \/ chip' = AfterRead(drv.p, drv.len \div WORD)
    BY DEF VerifyPage
  <2>2. CASE chip' = chip
    BY <1>1, <1>2, <2>2 DEF ChipOK
  <2> QED
    BY <1>1, <1>2, <2>1, <2>2, ReadKeeps
<1>4. PICK at \in {"failed", "nextpage"} : Goto(at)
  BY DEF VerifyPage
<1>5. /\ IsDrv(drv') /\ drv'.at = at /\ drv'.addr = drv.addr /\ drv'.end = drv.end /\ drv'.s = drv.s
      /\ drv'.p = drv.p /\ drv'.len = drv.len
  BY <1>1, <1>4, GotoIs DEF DrvOK
<1>6. DrvOK'
  <2>1. Plan' \in {<<>>, take_offline \o place_online} /\ Ops' = Ops
    BY <1>2, <1>4, <1>5 DEF Plan, Ops
  <2>2. todo' \in Seq(Ops) /\ Remaining(todo', Plan')
    BY <1>1, <1>2, <2>1, RestSelf, ReturnPlans
  <2> QED
    BY <1>1, <1>4, <1>5, <2>1, <2>2 DEF DrvOK
<1>7. CpuOK'
  BY <1>1, <1>2, CpuStays
<1>8. ReturnOK'
  <2>1. Len(todo') = 0
    BY <1>1, <1>2, RestSelf
  <2>2. Restoring(0, chip') /\ chip'.wip = FALSE
    BY <1>3 DEF Restoring, Online
  <2> QED
    BY <1>1, <1>2, <2>1, <2>2 DEF ReturnOK
<1>9. WaitOK' /\ FreshOK' /\ HaltOK' /\ LoadOK'
  BY <1>1, <1>2, <1>4, <1>5 DEF WaitOK, FreshOK, HaltOK, LoadOK
<1> QED
  BY <1>3, <1>6, <1>7, <1>8, <1>9 DEF IInv

(* Quotient and remainder, of numbers of any size. *)
LEMMA Divides ==
    ASSUME NEW P \in Nat, P > 0, NEW a \in Int
    PROVE  a % P \in 0..(P - 1) /\ a \div P \in Int /\ a = P * (a \div P) + (a % P)
OBVIOUS

(* There is only one of each. *)
LEMMA Divided ==
    ASSUME NEW P \in Nat, P > 0, NEW q \in Int, NEW r \in Int, 0 <= r, r < P
    PROVE  (P * q + r) % P = r /\ (P * q + r) \div P = q
OBVIOUS

(* A multiple is a product. *)
LEMMA Multiple ==
    ASSUME NEW P \in Nat, P > 0, NEW a \in Int, a % P = 0
    PROVE  \E q \in Int : a = P * q
<1>1. a \div P \in Int /\ a = P * (a \div P) + 0
  BY Divides
<1>2. P * (a \div P) \in Int
  BY <1>1
<1>3. a = P * (a \div P)
  BY <1>1, <1>2
<1> QED
  BY <1>1, <1>3

(* A product is a multiple. *)
LEMMA IsMultiple ==
    ASSUME NEW P \in Nat, P > 0, NEW q \in Int
    PROVE  (P * q) % P = 0 /\ P * q \in Int
<1>1. (P * q + 0) % P = 0
  BY Divided
<1>2. P * q \in Int
  OBVIOUS
<1> QED
  BY <1>1, <1>2

(* What follows a multiple, up to the next. *)
LEMMA Beyond ==
    ASSUME NEW P \in Nat, P > 0, NEW m \in Int, m % P = 0, NEW r \in Int, 0 <= r, r < P
    PROVE  (m + r) % P = r /\ (m + P) % P = 0
<1>1. PICK q \in Int : m = P * q
  BY Multiple
<1>2. (P * q + r) % P = r
  BY Divided
<1>3. q + 1 \in Int /\ P * (q + 1) = P * q + P
  OBVIOUS
<1>4. (P * (q + 1)) % P = 0
  BY <1>3, IsMultiple
<1> QED
  BY <1>1, <1>2, <1>3, <1>4

(* Multiples are that far apart. *)
LEMMA Apart ==
    ASSUME NEW P \in Nat, P > 0, NEW a \in Int, a % P = 0, NEW b \in Int, b % P = 0, a < b
    PROVE  a + P <= b
<1>1. PICK q \in Int : a = P * q
  BY Multiple
<1>2. PICK t \in Int : b = P * t
  BY Multiple
<1>3. q < t
  <2>1. SUFFICES ASSUME t <= q PROVE FALSE
    OBVIOUS
  <2>2. P * t <= P * q
    BY <2>1
  <2> QED
    BY <1>1, <1>2, <2>2
<1>4. q + 1 <= t
  BY <1>3
<1>5. P * (q + 1) <= P * t
  BY <1>4
<1>6. P * (q + 1) = P * q + P
  OBVIOUS
<1> QED
  BY <1>1, <1>2, <1>5, <1>6

(* A multiple of a multiple. *)
LEMMA Nested ==
    ASSUME NEW P \in Nat, P > 0, NEW W \in Nat, W > 0, P % W = 0, NEW a \in Int, a % P = 0
    PROVE  a % W = 0
<1>1. PICK q \in Int : a = P * q
  BY Multiple
<1>2. PICK t \in Int : P = W * t
  BY Multiple
<1>3. a = W * (t * q) /\ t * q \in Int
  BY <1>1, <1>2
<1> QED
  BY <1>3, IsMultiple

(* The three digits of an address. *)
LEMMA Digits ==
    ASSUME NEW N \in Nat, N > 0, NEW P \in Nat, P > 0, NEW a \in Int
    PROVE  (a \div (N * P)) * (N * P) + ((a \div P) % N) * P + (a % P) = a
<1> DEFINE q == a \div P
           s == q \div N
           g == q % N
           r == a % P
<1>1. q \in Int /\ r \in 0..(P - 1) /\ a = P * q + r
  BY Divides
<1> HIDE DEF q, r
<1>2. s \in Int /\ g \in 0..(N - 1) /\ q = N * s + g
  BY <1>1, Divides
<1> HIDE DEF s, g
<1>3. N * P \in Nat /\ N * P > 0
  OBVIOUS
<1>4. g * P + r \in Int /\ 0 <= g * P + r /\ g * P + r < N * P
  <2>1. g \in Int /\ 0 <= g /\ g <= N - 1 /\ r \in Int /\ 0 <= r /\ r < P
    BY <1>1, <1>2
  <2>2. g * P \in Int /\ 0 <= g * P /\ g * P <= (N - 1) * P
    BY <2>1
  <2>3. (N - 1) * P = N * P - P /\ N * P \in Int
    OBVIOUS
  <2> QED
    BY <2>1, <2>2, <2>3
<1>5. a = (N * P) * s + (g * P + r)
  <2>1. P * (N * s + g) = (N * P) * s + g * P
    BY <1>2
  <2>2. a = P * (N * s + g) + r
    BY <1>1, <1>2
  <2>3. (N * P) * s \in Int /\ g * P \in Int /\ r \in Int
    BY <1>1, <1>2, <1>3
  <2> QED
    BY <2>1, <2>2, <2>3
<1>6. a \div (N * P) = s
  <2> DEFINE M == N * P
             t == g * P + r
  <2>1. M \in Nat /\ M > 0 /\ t \in Int /\ 0 <= t /\ t < M /\ a = M * s + t
    BY <1>3, <1>4, <1>5
  <2> HIDE DEF M, t
  <2>2. (M * s + t) \div M = s
    BY <1>2, <2>1, Divided
  <2>3. a \div M = s
    BY <2>1, <2>2
  <2> QED
    BY <2>3 DEF M
<1>7. s * (N * P) = (N * P) * s
  BY <1>2, <1>3
<1>8. s * (N * P) \in Int /\ g * P \in Int /\ r \in Int /\ a \in Int
  BY <1>1, <1>2, <1>3
<1>9. s * (N * P) + g * P + r = a
  BY <1>5, <1>7, <1>8
<1> QED
  BY <1>6, <1>9 DEF q, s, g, r

(* Pages and sectors have sizes, and hold their addresses. *)
LEMMA FlashSizes ==
    /\ PGLENB \in Nat \ {0} /\ SECTORSZB \in Nat \ {0}
    /\ \A a \in Int : PAGEOF(a) \in Int /\ PAGEOF(a) <= a /\ a < PAGEOF(a) + PGLENB
    /\ \A a \in Int : SECTOROF(a) \in Int /\ SECTOROF(a) <= a /\ a < SECTOROF(a) + SECTORSZB
<1>1. PGLENB \in Nat \ {0} /\ NPAGES \in Nat \ {0}
  BY FlashAssumption
<1>2. SECTORSZB \in Nat \ {0}
  <2>1. \A x, y \in Nat \ {0} : x * y \in Nat \ {0}
    OBVIOUS
  <2> QED
    BY <1>1, <2>1 DEF SECTORSZB
<1>3. ASSUME NEW a \in Int, NEW z \in Nat \ {0}
      PROVE  a - (a % z) \in Int /\ a - (a % z) <= a /\ a < a - (a % z) + z
  BY <1>3
<1> QED
  BY <1>1, <1>2, <1>3 DEF PAGEOF, SECTOROF

(* SectorDone preserves the invariant. *)
LEMMA SectorDoneKeeps ==
    ASSUME IInv, SectorDone, UNCHANGED toolVars
    PROVE  IInv'
<1>1. DrvOK /\ ChipOK /\ CpuOK /\ FreshOK /\ drv.at = "page" /\ todo = <<>>
  BY DEF IInv, SectorDone, Deciding
<1>2. todo' = todo /\ ctl' = ctl /\ fbuf' = fbuf /\ cpu' = cpu /\ chip' = chip
      /\ drv' = [drv EXCEPT !.at = "sector", !.s = @ + SECTORSZB]
  BY DEF SectorDone, toolVars
<1>3. ChipOK'
  BY <1>1, <1>2 DEF ChipOK
<1>4. ctl.user = FALSE
  <2>1. SUFFICES ASSUME ctl.user PROVE FALSE
    BY <1>1 DEF ChipOK
  <2>2. Fresh /\ drv.p = RESET_ADDRESS
    BY <1>1, <2>1 DEF FreshOK
  <2>3. drv.p < drv.end /\ drv.p < drv.s + SECTORSZB
    <3>1. RESET_ADDRESS \in Int /\ WORD \in Int /\ WORD > 0
      BY LoadAssumption
    <3>2. RESET_ADDRESS < SECTOROF(RESET_ADDRESS) + SECTORSZB
      BY <3>1, FlashSizes
    <3>3. RESET_ADDRESS < drv.end
      BY <1>1, <2>2, <3>1 DEF Fresh, DrvOK
    <3> QED
      BY <2>2, <3>2, <3>3 DEF Fresh
  <2> QED
    BY <1>1, <2>3, FlashSizes DEF SectorDone, EndOfPages, DrvOK
<1>5. /\ IsDrv(drv') /\ drv'.at = "sector" /\ drv'.addr = drv.addr /\ drv'.end = drv.end /\ drv'.s = drv.s + SECTORSZB
      /\ drv'.p = drv.p /\ drv'.len = drv.len
  BY <1>1, <1>2 DEF DrvOK, IsDrv
<1>6. DrvOK'
  <2>1. Plan' = <<>> /\ Ops' = Ops
    BY <1>2, <1>5 DEF Plan, Ops
  <2>2. todo' \in Seq(Ops) /\ Remaining(todo', <<>>)
    BY <1>1, <1>2, RestSelf
  <2>3. drv'.s \in Int
    <3>1. drv.s \in Int /\ SECTORSZB \in Int
      BY <1>1, FlashSizes DEF DrvOK
    <3> QED
      BY <1>5, <3>1
  <2> QED
    BY <1>1, <1>5, <2>1, <2>2, <2>3 DEF DrvOK
<1>7. CpuOK'
  BY <1>1, <1>2, CpuStays
<1>8. WaitOK' /\ ReturnOK' /\ FreshOK' /\ HaltOK' /\ LoadOK'
  BY <1>2, <1>4, <1>5 DEF WaitOK, ReturnOK, FreshOK, HaltOK, LoadOK
<1> QED
  BY <1>3, <1>6, <1>7, <1>8 DEF IInv

(* PageDone preserves the invariant. *)
LEMMA PageDoneKeeps ==
    ASSUME IInv, PageDone, UNCHANGED toolVars
    PROVE  IInv'
<1>1. DrvOK /\ ChipOK /\ CpuOK /\ drv.at = "nextpage" /\ todo = <<>> /\ ctl.user = FALSE
  BY Returned DEF IInv, PageDone, Deciding
<1>2. todo' = todo /\ ctl' = ctl /\ fbuf' = fbuf /\ cpu' = cpu /\ chip' = chip
      /\ drv' = [drv EXCEPT !.at = "page", !.p = PAGEOF(@ + PGLENB)]
  BY DEF PageDone, toolVars
<1>3. ChipOK'
  BY <1>1, <1>2 DEF ChipOK
<1>4. /\ IsDrv(drv') /\ drv'.at = "page" /\ drv'.addr = drv.addr /\ drv'.end = drv.end /\ drv'.s = drv.s
      /\ drv'.p = PAGEOF(drv.p + PGLENB) /\ drv'.len = drv.len
  BY <1>1, <1>2 DEF DrvOK, IsDrv
<1>5. DrvOK'
  <2>1. Plan' = <<>> /\ Ops' = Ops
    BY <1>2, <1>4 DEF Plan, Ops
  <2>2. todo' \in Seq(Ops) /\ Remaining(todo', <<>>)
    BY <1>1, <1>2, RestSelf
  <2>3. drv'.p \in Int
    <3>1. drv.p + PGLENB \in Int
      <4>1. drv.p \in Int /\ PGLENB \in Int
        BY <1>1, FlashSizes DEF DrvOK
      <4> QED
        BY <4>1
    <3> QED
      BY <1>4, <3>1, FlashSizes
  <2> QED
    BY <1>1, <1>4, <2>1, <2>2, <2>3 DEF DrvOK
<1>6. CpuOK'
  BY <1>1, <1>2, CpuStays
<1>7. WaitOK' /\ ReturnOK' /\ FreshOK' /\ HaltOK' /\ LoadOK'
  BY <1>1, <1>2, <1>4 DEF WaitOK, ReturnOK, FreshOK, HaltOK, LoadOK
<1> QED
  BY <1>3, <1>5, <1>6, <1>7 DEF IInv

(* Finish preserves the invariant: a run does not end before its first sector. *)
LEMMA FinishKeeps ==
    ASSUME IInv, Finish, UNCHANGED toolVars
    PROVE  IInv'
<1>1. DrvOK /\ ChipOK /\ CpuOK /\ FreshOK /\ drv.at = "sector" /\ todo = <<>>
  BY DEF IInv, Finish, Deciding
<1>2. ctl' = ctl /\ fbuf' = fbuf /\ cpu' = cpu /\ chip' = chip /\ Goto("written")
      /\ todo' = take_offline \o <<F("WRDI"), F_END>> \o place_online
  BY DEF Finish, Stay, Commands, toolVars
<1>3. ChipOK'
  BY <1>1, <1>2 DEF ChipOK
<1>4. ctl.user = FALSE
  <2>1. SUFFICES ASSUME ctl.user PROVE FALSE
    BY <1>1 DEF ChipOK
  <2>2. Fresh
    BY <1>1, <2>1 DEF FreshOK
  <2>3. RESET_ADDRESS \in Int /\ WORD \in Int /\ WORD > 0
    BY LoadAssumption
  <2>4. drv.end \in Int /\ drv.s \in Int /\ SECTORSZB \in Int
    BY <1>1, FlashSizes DEF DrvOK
  <2>5. drv.s <= RESET_ADDRESS
    BY <2>2, <2>3, FlashSizes DEF Fresh
  <2>6. drv.end + SECTORSZB - 1 \in Int
    BY <2>4
  <2> DEFINE t == SECTOROF(drv.end + SECTORSZB - 1)
  <2>7. t \in Int /\ drv.end + SECTORSZB - 1 < t + SECTORSZB
    BY <2>6, FlashSizes
  <2>8. drv.s >= t
    BY DEF Finish
  <2>9. drv.end > RESET_ADDRESS
    BY <2>2, <2>3, <2>4 DEF Fresh
  <2> HIDE DEF t
  <2> QED
    BY <2>3, <2>4, <2>5, <2>7, <2>8, <2>9
<1>5. Online(chip)
  BY <1>1, <1>4 DEF ChipOK
<1>6. /\ IsDrv(drv') /\ drv'.at = "written" /\ drv'.addr = drv.addr /\ drv'.end = drv.end /\ drv'.s = drv.s
      /\ drv'.p = drv.p /\ drv'.len = drv.len
  BY <1>1, <1>2, GotoIs DEF DrvOK
<1>7. Plan' = todo' /\ Ops' = Ops
  BY <1>2, <1>6 DEF Plan, Ops
<1>8. todo' \in Seq(Ops) /\ Remaining(todo', todo') /\ Returns(todo') /\ Len(todo') - Len(todo') = 0 /\ Len(todo') \in Nat
  BY <1>2, ReturnPlans, RestSelf
<1>9. DrvOK'
  BY <1>1, <1>6, <1>7, <1>8 DEF DrvOK
<1>10. ReturnOK'
  <2>1. chip'.wip = FALSE /\ chip'.state \notin Burning /\ Sane(chip')
    BY <1>2, <1>5 DEF Online, Burning
  <2>2. Len(todo') > 10 /\ ~(Len(todo') <= 10) /\ Len(todo') # 0
    BY <1>8 DEF Returns
  <2>3. Made' = 0
    BY <1>7, <1>8 DEF Made
  <2> QED
    BY <1>6, <2>1, <2>2, <2>3 DEF ReturnOK, LeavesQuad
<1>11. CpuOK'
  BY <1>1, <1>2, CpuStays
<1>12. WaitOK' /\ FreshOK' /\ HaltOK' /\ LoadOK'
  BY <1>6 DEF WaitOK, FreshOK, HaltOK, LoadOK
<1> QED
  BY <1>3, <1>9, <1>10, <1>11, <1>12 DEF IInv

(* At least one word is looked at of a part of a page that is not empty. *)
LEMMA WholeWord ==
    ASSUME NEW len \in Int, len > 0
    PROVE  WORD * ((len + WORD - 1) \div WORD) >= WORD
<1>1. WORD \in Nat /\ WORD > 0
  BY LoadAssumption
<1> DEFINE q == (len + WORD - 1) \div WORD
<1>2. q \in Int /\ q >= 1
  <2>1. \A w \in Nat : w > 0 => (len + w - 1) \div w \in Int /\ (len + w - 1) \div w >= 1
    OBVIOUS
  <2> QED
    BY <1>1, <2>1
<1>3. \A w \in Nat, x \in Int : x >= 1 => w * x >= w
  OBVIOUS
<1> HIDE DEF q
<1>4. WORD * q >= WORD
  BY <1>1, <1>2, <1>3
<1> QED
  BY <1>4 DEF q

(* The length of a page is an integer, whatever the uninitialised len held. *)
LEMMA ClippedInt ==
    ASSUME DrvOK, NEW junk \in UninitLen
    PROVE  ClippedLen(drv.p, junk) \in Int
<1>1. drv.addr \in Int /\ drv.p \in Int /\ junk \in Int /\ PGLENB \in Int
  BY LoadAssumption, FlashSizes DEF DrvOK
<1>2. LastByte(junk) \in Int /\ drv.p + PGLENB \in Int
  BY <1>1 DEF LastByte
<1>3. PAGEOF(drv.p + PGLENB) \in Int
  BY <1>2, FlashSizes
<1>4. PAGEOF(drv.p + PGLENB) - drv.p \in Int /\ LastByte(junk) + 1 - drv.p \in Int
  BY <1>1, <1>2, <1>3
<1> QED
  BY <1>4 DEF ClippedLen

(* NextPage preserves the invariant. *)
LEMMA NextPageKeeps ==
    ASSUME IInv, NextPage, UNCHANGED toolVars
    PROVE  IInv'
<1>1. DrvOK /\ ChipOK /\ CpuOK /\ FreshOK /\ drv.at = "page" /\ todo = <<>>
  BY DEF IInv, NextPage, Deciding
<1>2. ctl' = ctl /\ fbuf' = fbuf /\ cpu' = cpu /\ chip' = chip
  BY DEF NextPage, Stay, toolVars
<1>3. ChipOK'
  BY <1>1, <1>2 DEF ChipOK
<1>4. CpuOK'
  BY <1>1, <1>2, CpuStays
<1>o. Ops' = Ops
  BY <1>2 DEF Ops
<1>5. PICK junk \in UninitLen :
         LET len == ClippedLen(drv.p, junk)
             bytes == drv.p..(drv.p + len - 1)
             read == drv.p..(drv.p + WORD * ((len + WORD - 1) \div WORD) - 1)
             page == drv.p..(PAGEOF(drv.p + PGLENB) - 1)
         IN CASE len <= 0 -> Goto("aborted") /\ Commands(take_offline)
              [] len > 0 /\ (\A a \in read : fbuf[a] = Erased) ->
                    /\ drv' = [drv EXCEPT !.at = "nextpage", !.short = @ \union (page \ bytes)]
                    /\ Commands(take_offline \o place_online)
              [] OTHER ->
                    /\ drv' = [drv EXCEPT !.at = "programming", !.len = len,
                                 !.short = (@ \ page) \union {a \in page : a >= drv.p + WORD * (len \div WORD)}]
                    /\ Commands(ProgramCommands(drv.p, len))
  BY DEF NextPage
<1> DEFINE len == ClippedLen(drv.p, junk)
           bytes == drv.p..(drv.p + len - 1)
           read == drv.p..(drv.p + WORD * ((len + WORD - 1) \div WORD) - 1)
           page == drv.p..(PAGEOF(drv.p + PGLENB) - 1)
<1>6. len \in Int
  BY <1>1, ClippedInt
<1>7. CASE len <= 0
  <2>0. ~(len > 0)
    BY <1>6, <1>7
  <2>1. Goto("aborted") /\ todo' = take_offline
    BY <1>5, <1>7, <2>0 DEF Commands
  <2>2. /\ IsDrv(drv') /\ drv'.at = "aborted" /\ drv'.addr = drv.addr /\ drv'.end = drv.end /\ drv'.s = drv.s
        /\ drv'.p = drv.p /\ drv'.len = drv.len
    BY <1>1, <2>1, GotoIs DEF DrvOK
  <2>3. Plan' = todo'
    BY <2>1, <2>2 DEF Plan
  <2>4. todo' \in Seq(Ops) /\ Remaining(todo', todo')
    BY <2>1, OfflinePlan, RestSelf
  <2>5. DrvOK'
    BY <1>1, <1>o, <2>2, <2>3, <2>4 DEF DrvOK
  <2>6. WaitOK' /\ ReturnOK' /\ FreshOK' /\ HaltOK' /\ LoadOK'
    BY <2>2 DEF WaitOK, ReturnOK, FreshOK, HaltOK, LoadOK
  <2> QED
    BY <1>3, <1>4, <2>5, <2>6 DEF IInv
<1>8. CASE len > 0 /\ (\A a \in read : fbuf[a] = Erased)
  <2>0. ~(len <= 0)
    BY <1>6, <1>8
  <2>1. /\ drv' = [drv EXCEPT !.at = "nextpage", !.short = @ \union (page \ bytes)]
        /\ todo' = take_offline \o place_online
    BY <1>5, <1>8, <2>0 DEF Commands
  <2> HIDE DEF bytes, page
  <2>2. /\ IsDrv(drv') /\ drv'.at = "nextpage" /\ drv'.addr = drv.addr /\ drv'.end = drv.end /\ drv'.s = drv.s
        /\ drv'.p = drv.p /\ drv'.len = drv.len
    BY <1>1, <2>1 DEF DrvOK, IsDrv
  <2>3. Plan' = todo'
    BY <2>1, <2>2 DEF Plan
  <2>4. todo' \in Seq(Ops) /\ Remaining(todo', todo') /\ Returns(todo') /\ Len(todo') - Len(todo') = 0 /\ Len(todo') \in Nat
    BY <2>1, ReturnPlans, RestSelf
  <2>5. DrvOK'
    BY <1>1, <1>o, <2>2, <2>3, <2>4 DEF DrvOK
  <2>6. ctl.user = FALSE
    <3>1. SUFFICES ASSUME ctl.user PROVE FALSE
      BY <1>1 DEF ChipOK
    <3>2. drv.p = RESET_ADDRESS
      BY <1>1, <3>1 DEF FreshOK
    <3>3. PICK a \in FirstWord : fbuf[a] # Erased
      BY <1>1, <3>1 DEF FreshOK
    <3> DEFINE n == WORD * ((len + WORD - 1) \div WORD)
    <3> HIDE DEF len
    <3>4. n >= WORD
      BY <1>6, <1>8, WholeWord
    <3>5. n \in Int /\ WORD \in Int /\ RESET_ADDRESS \in Int
      <4>1. \A w \in Nat \ {0}, x \in Int : w * ((x + w - 1) \div w) \in Int
        OBVIOUS
      <4> QED
        BY <1>6, <4>1, LoadAssumption
    <3>6. a \in RESET_ADDRESS..(RESET_ADDRESS + WORD - 1)
      BY <3>3 DEF FirstWord
    <3>7. read = RESET_ADDRESS..(RESET_ADDRESS + n - 1)
      BY <3>2
    <3> HIDE DEF n
    <3>8. a \in RESET_ADDRESS..(RESET_ADDRESS + n - 1)
      BY <3>4, <3>5, <3>6
    <3> QED
      BY <1>8, <3>3, <3>7, <3>8
  <2>7. Online(chip)
    BY <1>1, <2>6 DEF ChipOK
  <2>8. ReturnOK'
    <3>1. chip'.wip = FALSE /\ chip'.state \notin Burning /\ Sane(chip')
      BY <1>2, <2>7 DEF Online, Burning
    <3>2. Len(todo') > 10 /\ ~(Len(todo') <= 10) /\ Len(todo') # 0
      BY <2>4 DEF Returns
    <3>3. Made' = 0
      BY <2>3, <2>4 DEF Made
    <3> QED
      BY <2>2, <3>1, <3>2, <3>3 DEF ReturnOK, LeavesQuad
  <2>9. WaitOK' /\ FreshOK' /\ HaltOK' /\ LoadOK'
    BY <2>2 DEF WaitOK, FreshOK, HaltOK, LoadOK
  <2> QED
    BY <1>3, <1>4, <2>5, <2>8, <2>9 DEF IInv
<1>9. CASE len > 0 /\ ~(\A a \in read : fbuf[a] = Erased)
  <2>0. ~(len <= 0)
    BY <1>6, <1>9
  <2> DEFINE sh == (drv.short \ page) \union {a \in page : a >= drv.p + WORD * (len \div WORD)}
  <2>1. /\ drv' = [drv EXCEPT !.at = "programming", !.len = len, !.short = sh]
        /\ todo' = ProgramCommands(drv.p, len)
    <3>1. drv.short = drv.short
      OBVIOUS
    <3> QED
      BY <1>5, <1>9, <2>0 DEF Commands
  <2> HIDE DEF bytes, page, sh
  <2>2. /\ IsDrv(drv') /\ drv'.at = "programming" /\ drv'.addr = drv.addr /\ drv'.end = drv.end /\ drv'.s = drv.s
        /\ drv'.p = drv.p /\ drv'.len = len
    BY <1>1, <2>1 DEF DrvOK, IsDrv
  <2>3. Plan' = todo'
    <3> HIDE DEF len
    <3>1. Plan' = ProgramCommands(drv.p, drv.len)'
      BY <2>2 DEF Plan
    <3>2. ProgramCommands(drv.p, drv.len)' = ProgramCommands(drv.p, len)
      BY <1>2, <2>2 DEF ProgramCommands, WriteEnable, StartWait
    <3> QED
      BY <2>1, <3>1, <3>2
  <2>l. len \in Nat /\ drv.p \in Int
    BY <1>1, <1>6, <1>9 DEF DrvOK
  <2>4. todo' \in Seq(Ops) /\ Remaining(todo', todo') /\ Waits(todo') /\ Len(todo') - Len(todo') = 0 /\ Len(todo') \in Nat
    <3>1. todo' \in Seq(Ops) /\ Waits(todo')
      BY <2>1, <2>l, ProgramPlan
    <3> QED
      BY <3>1, RestSelf
  <2>5. DrvOK'
    BY <1>1, <1>o, <2>2, <2>3, <2>4, <2>l DEF DrvOK
  <2>6. WaitOK'
    <3>1. Len(todo') # 1 /\ Len(todo') # 0
      BY <2>4 DEF Waits
    <3>2. Made' = 0
      BY <2>3, <2>4 DEF Made
    <3> QED
      BY <1>1, <1>2, <3>1, <3>2 DEF WaitOK, LeavesQuad, ChipOK
  <2>7. ReturnOK' /\ FreshOK' /\ HaltOK' /\ LoadOK'
    BY <2>2 DEF ReturnOK, FreshOK, HaltOK, LoadOK
  <2> QED
    BY <1>3, <1>4, <2>5, <2>6, <2>7 DEF IInv
<1>10. len <= 0 \/ len > 0
  BY <1>6
<1> QED
  BY <1>7, <1>8, <1>9, <1>10

(* The words of a sector that are read include the one at the reset address. *)
LEMMA FirstWordRead ==
    ASSUME NEW base \in Int, NEW top \in Int, top >= base + WORD
    PROVE  LET words == (top - base) \div WORD IN words \in Int /\ base + words * WORD >= base + WORD /\ base + words * WORD \in Int
<1>1. WORD \in Nat /\ WORD > 0
  BY LoadAssumption
<1>2. \A w \in Nat, d \in Int : w > 0 /\ d >= w => d \div w \in Int /\ d \div w >= 1
  OBVIOUS
<1>3. \A w \in Nat, x \in Int : x >= 1 => x * w >= w /\ x * w \in Int
  OBVIOUS
<1> DEFINE q == (top - base) \div WORD
<1>4. q \in Int /\ q >= 1
  BY <1>1, <1>2
<1> HIDE DEF q
<1>5. q * WORD >= WORD /\ q * WORD \in Int
  BY <1>1, <1>3, <1>4
<1> QED
  BY <1>1, <1>4, <1>5 DEF q

(* Back to the start of a word. *)
LEMMA StepBack ==
    ASSUME NEW base \in Int, NEW x \in Int, x >= base
    PROVE  /\ x - ((x - base) % WORD) \in Int
           /\ x < base + WORD => x - ((x - base) % WORD) = base
<1>1. WORD \in Nat /\ WORD > 0
  BY LoadAssumption
<1>2. \A w \in Nat, d \in Int : w > 0 => d % w \in Int /\ (d >= 0 /\ d < w => d % w = d)
  OBVIOUS
<1>3. (x - base) % WORD \in Int /\ (x < base + WORD => (x - base) % WORD = x - base)
  BY <1>1, <1>2
<1> QED
  BY <1>3

(* ... which is not before where the words began. *)
LEMMA StepDown ==
    ASSUME NEW base \in Int, NEW x \in Int, x >= base
    PROVE  x - ((x - base) % WORD) \in Int /\ x - ((x - base) % WORD) >= base /\ x - ((x - base) % WORD) <= x
<1> DEFINE d == x - base
           r == d % WORD
           q == d \div WORD
<1>1. WORD \in Nat /\ WORD > 0 /\ d \in Int /\ d >= 0
  BY LoadAssumption
<1> HIDE DEF d
<1>2. r \in 0..(WORD - 1) /\ q \in Int /\ d = WORD * q + r
  BY <1>1, Divides
<1> HIDE DEF r, q
<1>3. q >= 0
  <2>1. SUFFICES ASSUME q <= -1 PROVE FALSE
    BY <1>2
  <2>2. WORD * q <= WORD * (-1)
    BY <1>1, <1>2, <2>1
  <2>3. WORD * (-1) = -WORD /\ WORD * q \in Int
    BY <1>1, <1>2
  <2> QED
    BY <1>1, <1>2, <2>2, <2>3
<1>4. WORD * q >= 0
  BY <1>1, <1>2, <1>3
<1>5. r >= 0 /\ r <= d
  BY <1>1, <1>2, <1>4
<1>6. x - r >= base /\ x - r <= x /\ x - r \in Int
  BY <1>1, <1>2, <1>5 DEF d
<1> QED
  BY <1>6 DEF r, d

(* What a sector's buffer holds when every word read was stale. *)
StaleRead(stale, top, sbuf) ==
    LET tail == (RESET_ADDRESS + ((top - RESET_ADDRESS) \div WORD) * WORD)..(top - 1)
    IN \A a \in RESET_ADDRESS..(top - 1) : a \notin tail => sbuf[a] = stale[a % WORD]

(* With the port in user mode the stale words the driver compares with are not the
   program's first one, so that it starts to write there. *)
LEMMA FreshSector ==
    ASSUME Fresh, NEW stale \in StaleWords, NEW top \in Int, top >= RESET_ADDRESS + WORD,
           NEW sbuf, StaleRead(stale, top, sbuf)
    PROVE  LET clear == {a \in RESET_ADDRESS..(top - 1) : ~(fbuf[a] \subseteq sbuf[a])}
               differ == {a \in RESET_ADDRESS..(top - 1) : sbuf[a] # fbuf[a]}
           IN /\ differ # {}
              /\ Least(differ) - ((Least(differ) - RESET_ADDRESS) % WORD) = RESET_ADDRESS
              /\ clear = {} => \E a \in FirstWord : fbuf[a] # Erased
<1> DEFINE tail == (RESET_ADDRESS + ((top - RESET_ADDRESS) \div WORD) * WORD)..(top - 1)
           clear == {a \in RESET_ADDRESS..(top - 1) : ~(fbuf[a] \subseteq sbuf[a])}
           differ == {a \in RESET_ADDRESS..(top - 1) : sbuf[a] # fbuf[a]}
<1>1. RESET_ADDRESS \in Int /\ WORD \in Nat /\ WORD > 0
  BY LoadAssumption
<1>2. RESET_ADDRESS + ((top - RESET_ADDRESS) \div WORD) * WORD >= RESET_ADDRESS + WORD
      /\ RESET_ADDRESS + ((top - RESET_ADDRESS) \div WORD) * WORD \in Int
  BY <1>1, FirstWordRead
<1>3. ASSUME NEW a \in FirstWord
      PROVE  /\ a \in RESET_ADDRESS..(top - 1) /\ a \notin tail /\ a < RESET_ADDRESS + WORD /\ a \in Int
             /\ a % WORD \in 0..(WORD - 1)
  <2>1. a \in RESET_ADDRESS..(RESET_ADDRESS + WORD - 1)
    BY DEF FirstWord
  <2>2. a % WORD \in 0..(WORD - 1)
    <3>1. \A w \in Nat, d \in Int : w > 0 => d % w \in 0..(w - 1)
      OBVIOUS
    <3> QED
      BY <1>1, <2>1, <3>1
  <2> DEFINE y == RESET_ADDRESS + ((top - RESET_ADDRESS) \div WORD) * WORD
  <2>3. tail = y..(top - 1) /\ y \in Int /\ y >= RESET_ADDRESS + WORD
    BY <1>2
  <2> HIDE DEF y
  <2> QED
    BY <1>1, <2>1, <2>2, <2>3
<1>4. PICK a \in FirstWord : fbuf[a] # stale[a % WORD]
  BY DEF Fresh
<1>5. sbuf[a] = stale[a % WORD]
  BY <1>3, <1>4 DEF StaleRead
<1>6. a \in differ
  BY <1>3, <1>4, <1>5
<1>7. differ \in SUBSET {x \in Int : x >= RESET_ADDRESS} /\ differ # {}
  BY <1>1, <1>6
<1>8. Least(differ) \in differ /\ Least(differ) <= a
  BY <1>1, <1>6, <1>7, LeastIsLeast
<1>9. Least(differ) \in Int /\ Least(differ) >= RESET_ADDRESS /\ Least(differ) < RESET_ADDRESS + WORD
  <2>1. Least(differ) \in Int /\ Least(differ) >= RESET_ADDRESS
    BY <1>7, <1>8
  <2>2. a \in Int /\ a < RESET_ADDRESS + WORD
    BY <1>3
  <2> QED
    BY <1>1, <1>8, <2>1, <2>2
<1>10. Least(differ) - ((Least(differ) - RESET_ADDRESS) % WORD) = RESET_ADDRESS
  BY <1>1, <1>9, StepBack
<1>11. ASSUME clear = {} PROVE fbuf[a] # Erased
  <2>1. fbuf[a] \subseteq sbuf[a]
    BY <1>3, <1>11
  <2>2. stale[a % WORD] \in Byte
    BY <1>3, LoadAssumption
  <2> QED
    BY <1>4, <1>5, <2>1, <2>2 DEF Erased, Byte
<1> QED
  BY <1>6, <1>10, <1>11

(* What a sector holds has been compared with what it should: base to top was looked at,
   and up to cut it was read. *)
Compared(stale, base, top, cut, sbuf, newv) ==
    LET clear  == {a \in base..(top - 1) : ~(fbuf[a] \subseteq sbuf[a])}
        differ == {a \in base..(top - 1) : sbuf[a] # fbuf[a]}
        tail   == cut..(top - 1)
    IN /\ base = IF drv.addr > drv.s THEN drv.addr ELSE drv.s
       /\ top = IF drv.end > drv.s + SECTORSZB THEN drv.s + SECTORSZB ELSE drv.end
       /\ cut = base + ((top - base) \div WORD) * WORD
       /\ \A a \in base..(top - 1) : a < cut => sbuf[a] = ReadWith(stale, a)
       /\ chip' = AfterRead(base, (top - base) \div WORD)
       /\ \/ differ = {} /\ drv' = [drv EXCEPT !.s = @ + SECTORSZB, !.short = @ \union tail] /\ todo' = todo
          \/ differ # {} /\ clear # {} /\ drv' = [drv EXCEPT !.at = "erasing", !.p = base] /\ todo' = EraseCommands(drv.s)
          \/ differ # {} /\ clear = {} /\ drv' = [drv EXCEPT !.at = "page", !.p = newv, !.short = @ \union tail] /\ todo' = todo
       /\ differ # {} => newv \in Int /\ newv >= base /\ \A a \in base..(top - 1) : a < newv => sbuf[a] = fbuf[a]
       /\ ctl.user => /\ Fresh /\ base = RESET_ADDRESS /\ top >= RESET_ADDRESS + WORD
                      /\ differ # {} /\ newv = RESET_ADDRESS
                      /\ clear = {} => \E a \in FirstWord : fbuf[a] # Erased

(* NextSector compares. *)
LEMMA NextSectorIs ==
    ASSUME IInv, NextSector
    PROVE  \E stale \in StaleWords, base \in Int, top \in Int, cut \in Int : \E sbuf, newv :
              Compared(stale, base, top, cut, sbuf, newv)
<1>1. DrvOK /\ ChipOK /\ CpuOK /\ FreshOK /\ drv.at = "sector" /\ todo = <<>>
  BY DEF IInv, NextSector, Deciding
<1> DEFINE base  == IF drv.addr > drv.s THEN drv.addr ELSE drv.s
           top   == IF drv.end > drv.s + SECTORSZB THEN drv.s + SECTORSZB ELSE drv.end
           words == (top - base) \div WORD
           tail  == (base + words * WORD)..(top - 1)
<1>5. PICK stale \in StaleWords, rest \in [tail -> Byte] :
            LET sbuf   == [a \in base..(top - 1) |-> IF a \in tail THEN rest[a] ELSE ReadWith(stale, a)]
                clear  == {a \in base..(top - 1) : ~(fbuf[a] \subseteq sbuf[a])}
                differ == {a \in base..(top - 1) : sbuf[a] # fbuf[a]}
                first  == Least(differ)
                newv   == first - ((first - base) % WORD)
            IN /\ chip' = AfterRead(base, words)
               /\ CASE differ = {} ->
                         drv' = [drv EXCEPT !.s = @ + SECTORSZB, !.short = @ \union tail] /\ UNCHANGED todo
                    [] clear # {} ->
                         drv' = [drv EXCEPT !.at = "erasing", !.p = AfterErase(base, newv)] /\ Commands(EraseCommands(drv.s))
                    [] OTHER ->
                         drv' = [drv EXCEPT !.at = "page", !.p = newv, !.short = @ \union tail] /\ UNCHANGED todo
  BY DEF NextSector
<1> DEFINE sbuf   == [a \in base..(top - 1) |-> IF a \in tail THEN rest[a] ELSE ReadWith(stale, a)]
           clear  == {a \in base..(top - 1) : ~(fbuf[a] \subseteq sbuf[a])}
           differ == {a \in base..(top - 1) : sbuf[a] # fbuf[a]}
           newv   == Least(differ) - ((Least(differ) - base) % WORD)
<1>6. chip' = AfterRead(base, words)
  BY <1>5
<1>7. /\ \/ differ = {} /\ drv' = [drv EXCEPT !.s = @ + SECTORSZB, !.short = @ \union tail] /\ todo' = todo
         \/ differ # {} /\ clear # {} /\ drv' = [drv EXCEPT !.at = "erasing", !.p = base] /\ todo' = EraseCommands(drv.s)
         \/ differ # {} /\ clear = {} /\ drv' = [drv EXCEPT !.at = "page", !.p = newv, !.short = @ \union tail] /\ todo' = todo
  <2>1. (CASE differ = {} -> drv' = [drv EXCEPT !.s = @ + SECTORSZB, !.short = @ \union tail] /\ UNCHANGED todo
           [] clear # {} -> drv' = [drv EXCEPT !.at = "erasing", !.p = AfterErase(base, newv)] /\ Commands(EraseCommands(drv.s))
           [] OTHER -> drv' = [drv EXCEPT !.at = "page", !.p = newv, !.short = @ \union tail] /\ UNCHANGED todo)
    BY <1>5
  <2>2. differ = {} => clear = {}
    OBVIOUS
  <2> HIDE DEF sbuf, clear, differ, newv, base, top, words, tail
  <2> QED
    BY <2>1, <2>2 DEF AfterErase, Commands
<1>9. base \in Int /\ top \in Int
  <2>1. drv.addr \in Int /\ drv.s \in Int /\ drv.end \in Int /\ SECTORSZB \in Int
    BY <1>1, FlashSizes DEF DrvOK
  <2> QED
    BY <2>1
<1>10. ctl.user => /\ Fresh /\ base = RESET_ADDRESS /\ top >= RESET_ADDRESS + WORD
                   /\ \A a \in RESET_ADDRESS..(top - 1) : a \notin tail => sbuf[a] = stale[a % WORD]
  <2>1. SUFFICES ASSUME ctl.user
                 PROVE  /\ Fresh /\ base = RESET_ADDRESS /\ top >= RESET_ADDRESS + WORD
                        /\ \A a \in RESET_ADDRESS..(top - 1) : a \notin tail => sbuf[a] = stale[a % WORD]
    OBVIOUS
  <2>2. Fresh
    BY <1>1, <2>1 DEF FreshOK
  <2>3. RESET_ADDRESS \in Int /\ WORD \in Int /\ RESET_ADDRESS + WORD <= SECTOROF(RESET_ADDRESS) + SECTORSZB
    BY LoadAssumption
  <2>4. SECTOROF(RESET_ADDRESS) \in Int /\ SECTOROF(RESET_ADDRESS) <= RESET_ADDRESS /\ SECTORSZB \in Int /\ drv.end \in Int
    BY <1>1, <2>3, FlashSizes DEF DrvOK
  <2>5. drv.addr = RESET_ADDRESS /\ drv.s = SECTOROF(RESET_ADDRESS) /\ drv.end >= RESET_ADDRESS + WORD
    BY <2>2 DEF Fresh
  <2>6. base = RESET_ADDRESS
    BY <2>3, <2>4, <2>5
  <2>7. top >= RESET_ADDRESS + WORD
    BY <2>3, <2>4, <2>5
  <2>8. ASSUME NEW a \in base..(top - 1), a \notin tail PROVE sbuf[a] = stale[a % WORD]
    <3> HIDE DEF base, top, tail
    <3>1. sbuf[a] = ReadWith(stale, a)
      BY <2>8
    <3> QED
      BY <2>1, <3>1 DEF ReadWith
  <2> QED
    BY <2>2, <2>6, <2>7, <2>8
<1>11. ctl.user =>
         /\ differ # {}
         /\ newv = RESET_ADDRESS
         /\ clear = {} => \E a \in FirstWord : fbuf[a] # Erased
  <2>1. SUFFICES ASSUME ctl.user
                 PROVE  /\ differ # {} /\ newv = RESET_ADDRESS
                        /\ clear = {} => \E a \in FirstWord : fbuf[a] # Erased
    OBVIOUS
  <2>2. Fresh /\ base = RESET_ADDRESS /\ top >= RESET_ADDRESS + WORD /\ top \in Int
        /\ \A a \in RESET_ADDRESS..(top - 1) : a \notin tail => sbuf[a] = stale[a % WORD]
    BY <1>9, <1>10, <2>1
  <2>3. /\ tail = (RESET_ADDRESS + ((top - RESET_ADDRESS) \div WORD) * WORD)..(top - 1)
        /\ clear = {a \in RESET_ADDRESS..(top - 1) : ~(fbuf[a] \subseteq sbuf[a])}
        /\ differ = {a \in RESET_ADDRESS..(top - 1) : sbuf[a] # fbuf[a]}
        /\ newv = Least(differ) - ((Least(differ) - RESET_ADDRESS) % WORD)
    <3>1. base = RESET_ADDRESS
      BY <2>2
    <3> HIDE DEF base, top, sbuf
    <3> QED
      BY <3>1, Zenon
  <2> HIDE DEF base, top, words, tail, sbuf, clear, differ, newv
  <2>4. /\ differ # {}
        /\ Least(differ) - ((Least(differ) - RESET_ADDRESS) % WORD) = RESET_ADDRESS
        /\ clear = {} => \E a \in FirstWord : fbuf[a] # Erased
    <3>1. stale \in StaleWords
      OBVIOUS
    <3>2. PICK tp, tl, sb, cl, df : tp = top /\ tl = tail /\ sb = sbuf /\ cl = clear /\ df = differ
      OBVIOUS
    <3>3. /\ Fresh /\ tp \in Int /\ tp >= RESET_ADDRESS + WORD
          /\ \A a \in RESET_ADDRESS..(tp - 1) : a \notin tl => sb[a] = stale[a % WORD]
          /\ tl = (RESET_ADDRESS + ((tp - RESET_ADDRESS) \div WORD) * WORD)..(tp - 1)
          /\ cl = {a \in RESET_ADDRESS..(tp - 1) : ~(fbuf[a] \subseteq sb[a])}
          /\ df = {a \in RESET_ADDRESS..(tp - 1) : sb[a] # fbuf[a]}
      BY <2>2, <2>3, <3>2, Zenon
    <3>4. /\ df # {}
          /\ Least(df) - ((Least(df) - RESET_ADDRESS) % WORD) = RESET_ADDRESS
          /\ cl = {} => \E a \in FirstWord : fbuf[a] # Erased
      <4>1. LET low == {a \in RESET_ADDRESS..(tp - 1) : ~(fbuf[a] \subseteq sb[a])}
                off == {a \in RESET_ADDRESS..(tp - 1) : sb[a] # fbuf[a]}
            IN /\ off # {}
               /\ Least(off) - ((Least(off) - RESET_ADDRESS) % WORD) = RESET_ADDRESS
               /\ low = {} => \E a \in FirstWord : fbuf[a] # Erased
        <5>1. StaleRead(stale, tp, sb)
          BY <3>3, Zenon DEF StaleRead
        <5> QED
          BY <3>1, <3>3, <5>1, FreshSector
      <4> QED
        BY <3>3, <4>1, Zenon
    <3> QED
      BY <3>2, <3>4, Zenon
  <2> QED
    BY <2>3, <2>4, Zenon
<1>12. differ # {} => newv \in Int
  <2> HIDE DEF base, top, tail, sbuf
  <2>1. SUFFICES ASSUME differ # {} PROVE newv \in Int
    OBVIOUS
  <2>2. differ \in SUBSET {x \in Int : x >= base}
    BY <1>9
  <2> HIDE DEF differ
  <2>3. Least(differ) \in differ
    BY <1>9, <2>1, <2>2, LeastIsLeast
  <2>4. Least(differ) \in Int /\ Least(differ) >= base
    BY <2>2, <2>3
  <2> QED
    BY <1>9, <2>4, StepBack
<1>13. words \in Int /\ base + words * WORD \in Int
  <2>1. WORD \in Nat \ {0}
    BY LoadAssumption
  <2>2. top - base \in Int
    BY <1>9
  <2>3. (top - base) \div WORD \in Int
    BY <2>1, <2>2
  <2>4. \A x, y, w \in Int : x + y * w \in Int
    OBVIOUS
  <2> HIDE DEF base, top
  <2> QED
    BY <1>9, <2>1, <2>3, <2>4
<1>14. differ # {} => newv >= base /\ \A a \in base..(top - 1) : a < newv => sbuf[a] = fbuf[a]
  <2> HIDE DEF base, top, tail, sbuf
  <2>1. SUFFICES ASSUME differ # {} PROVE newv >= base /\ \A a \in base..(top - 1) : a < newv => sbuf[a] = fbuf[a]
    OBVIOUS
  <2>2. differ \in SUBSET {x \in Int : x >= base}
    BY <1>9
  <2>3. \A a \in base..(top - 1) : sbuf[a] # fbuf[a] => a \in differ
    OBVIOUS
  <2> HIDE DEF differ
  <2>4. Least(differ) \in differ /\ \A y \in differ : Least(differ) <= y
    BY <1>9, <2>1, <2>2, LeastIsLeast
  <2>5. Least(differ) \in Int /\ Least(differ) >= base
    BY <2>2, <2>4
  <2>6. newv \in Int /\ newv <= Least(differ) /\ newv >= base
    BY <1>9, <2>5, StepDown
  <2> HIDE DEF newv
  <2>7. ASSUME NEW a \in base..(top - 1), a < newv PROVE sbuf[a] = fbuf[a]
    <3>1. a \in Int /\ a < Least(differ)
      BY <1>9, <2>5, <2>6, <2>7
    <3>2. a \notin differ
      BY <2>4, <2>5, <3>1
    <3> QED
      BY <2>3, <3>2
  <2> QED
    BY <2>6, <2>7
<1>15. \A a \in base..(top - 1) : a < base + words * WORD => sbuf[a] = ReadWith(stale, a)
  <2> SUFFICES ASSUME NEW a \in base..(top - 1), a < base + words * WORD PROVE sbuf[a] = ReadWith(stale, a)
    OBVIOUS
  <2> HIDE DEF base, top, words
  <2>1. a \notin tail
    BY <1>9, <1>13
  <2> HIDE DEF tail
  <2> QED
    BY <2>1
<1> DEFINE cut == base + words * WORD
<1>16. tail = cut..(top - 1) /\ cut = base + ((top - base) \div WORD) * WORD /\ words = (top - base) \div WORD
  OBVIOUS
<1>17. /\ base = IF drv.addr > drv.s THEN drv.addr ELSE drv.s
       /\ top = IF drv.end > drv.s + SECTORSZB THEN drv.s + SECTORSZB ELSE drv.end
       /\ clear = {a \in base..(top - 1) : ~(fbuf[a] \subseteq sbuf[a])}
       /\ differ = {a \in base..(top - 1) : sbuf[a] # fbuf[a]}
  OBVIOUS
<1> HIDE DEF base, top, words, tail, sbuf, clear, differ, newv, cut
<1>18. Compared(stale, base, top, cut, sbuf, newv)
  <2>1. PICK s1, b1, t1, c1, u1, n1, tl, cl, df :
           s1 = stale /\ b1 = base /\ t1 = top /\ c1 = cut /\ u1 = sbuf /\ n1 = newv /\ tl = tail /\ cl = clear /\ df = differ
    OBVIOUS
  <2>2. /\ b1 = IF drv.addr > drv.s THEN drv.addr ELSE drv.s
        /\ t1 = IF drv.end > drv.s + SECTORSZB THEN drv.s + SECTORSZB ELSE drv.end
        /\ c1 = b1 + ((t1 - b1) \div WORD) * WORD
        /\ \A a \in b1..(t1 - 1) : a < c1 => u1[a] = ReadWith(s1, a)
        /\ chip' = AfterRead(b1, (t1 - b1) \div WORD)
    BY <1>6, <1>15, <1>16, <1>17, <2>1, Zenon DEF cut
  <2>3. \/ df = {} /\ drv' = [drv EXCEPT !.s = @ + SECTORSZB, !.short = @ \union tl] /\ todo' = todo
        \/ df # {} /\ cl # {} /\ drv' = [drv EXCEPT !.at = "erasing", !.p = b1] /\ todo' = EraseCommands(drv.s)
        \/ df # {} /\ cl = {} /\ drv' = [drv EXCEPT !.at = "page", !.p = n1, !.short = @ \union tl] /\ todo' = todo
    BY <1>7, <2>1, Zenon
  <2>4. /\ df # {} => n1 \in Int /\ n1 >= b1 /\ \A a \in b1..(t1 - 1) : a < n1 => u1[a] = fbuf[a]
        /\ ctl.user => /\ Fresh /\ b1 = RESET_ADDRESS /\ t1 >= RESET_ADDRESS + WORD
                       /\ df # {} /\ n1 = RESET_ADDRESS
                       /\ cl = {} => \E a \in FirstWord : fbuf[a] # Erased
    BY <1>10, <1>11, <1>12, <1>14, <2>1, Zenon
  <2>5. /\ tl = c1..(t1 - 1)
        /\ cl = {a \in b1..(t1 - 1) : ~(fbuf[a] \subseteq u1[a])}
        /\ df = {a \in b1..(t1 - 1) : u1[a] # fbuf[a]}
    BY <1>16, <1>17, <2>1, Zenon
  <2>6. Compared(s1, b1, t1, c1, u1, n1)
    BY <2>2, <2>3, <2>4, <2>5, Zenon DEF Compared
  <2> QED
    BY <2>1, <2>6, Zenon
<1> QED
  BY <1>9, <1>13, <1>16, <1>18, Zenon DEF cut

(* NextSector preserves the invariant. *)
LEMMA NextSectorKeeps ==
    ASSUME IInv, NextSector, UNCHANGED toolVars
    PROVE  IInv'
<1>1. DrvOK /\ ChipOK /\ CpuOK /\ FreshOK /\ drv.at = "sector" /\ todo = <<>>
  BY DEF IInv, NextSector, Deciding
<1>2. ctl' = ctl /\ fbuf' = fbuf /\ cpu' = cpu
  BY DEF NextSector, toolVars
<1>4. CpuOK'
  BY <1>1, <1>2, CpuStays
<1>o. Ops' = Ops
  BY <1>2 DEF Ops
<1>5. PICK stale \in StaleWords, base \in Int, top \in Int, cut \in Int : \E sbuf, newv :
        Compared(stale, base, top, cut, sbuf, newv)
  BY NextSectorIs
<1>6. PICK sbuf, newv : Compared(stale, base, top, cut, sbuf, newv)
  BY <1>5
<1> DEFINE clear  == {a \in base..(top - 1) : ~(fbuf[a] \subseteq sbuf[a])}
           differ == {a \in base..(top - 1) : sbuf[a] # fbuf[a]}
           tail   == cut..(top - 1)
<1>7. /\ \/ differ = {} /\ drv' = [drv EXCEPT !.s = @ + SECTORSZB, !.short = @ \union tail] /\ todo' = todo
         \/ differ # {} /\ clear # {} /\ drv' = [drv EXCEPT !.at = "erasing", !.p = base] /\ todo' = EraseCommands(drv.s)
         \/ differ # {} /\ clear = {} /\ drv' = [drv EXCEPT !.at = "page", !.p = newv, !.short = @ \union tail] /\ todo' = todo
      /\ differ # {} => newv \in Int
      /\ ctl.user => /\ Fresh /\ newv = RESET_ADDRESS /\ differ # {}
                     /\ clear = {} => \E a \in FirstWord : fbuf[a] # Erased
      /\ chip' = AfterRead(base, (top - base) \div WORD)
  BY <1>6, Zenon DEF Compared
<1> HIDE DEF clear, differ, tail
<1>8. ChipOK'
  BY <1>1, <1>2, <1>7, ReadKeeps
<1>13. CASE differ = {}
  <2>1. drv' = [drv EXCEPT !.s = @ + SECTORSZB, !.short = @ \union tail] /\ todo' = todo
    BY <1>7, <1>13
  <2>2. /\ IsDrv(drv') /\ drv'.at = "sector" /\ drv'.addr = drv.addr /\ drv'.end = drv.end /\ drv'.s = drv.s + SECTORSZB
        /\ drv'.p = drv.p /\ drv'.len = drv.len
    BY <1>1, <2>1 DEF DrvOK, IsDrv
  <2>3. Plan' = <<>>
    BY <2>2 DEF Plan
  <2>4. drv'.s \in Int
    <3>1. drv.s \in Int /\ SECTORSZB \in Int
      BY <1>1, FlashSizes DEF DrvOK
    <3> QED
      BY <2>2, <3>1
  <2>5. DrvOK'
    BY <1>1, <1>o, <2>1, <2>2, <2>3, <2>4, RestSelf DEF DrvOK
  <2>6. ctl.user = FALSE
    BY <1>1, <1>7, <1>13 DEF ChipOK
  <2>7. WaitOK' /\ ReturnOK' /\ FreshOK' /\ HaltOK' /\ LoadOK'
    BY <1>2, <2>2, <2>6 DEF WaitOK, ReturnOK, FreshOK, HaltOK, LoadOK
  <2> QED
    BY <1>4, <1>8, <2>5, <2>7 DEF IInv
<1>14. CASE differ # {} /\ clear # {}
  <2>1. drv' = [drv EXCEPT !.at = "erasing", !.p = base] /\ todo' = EraseCommands(drv.s)
    BY <1>7, <1>14
  <2>2. /\ IsDrv(drv') /\ drv'.at = "erasing" /\ drv'.addr = drv.addr /\ drv'.end = drv.end /\ drv'.s = drv.s
        /\ drv'.p = base /\ drv'.len = drv.len
    BY <1>1, <2>1 DEF DrvOK, IsDrv
  <2>3. Plan' = todo'
    BY <2>1, <2>2 DEF Plan, EraseCommands, WriteEnable, StartWait
  <2>4. todo' \in Seq(Ops) /\ Remaining(todo', todo') /\ Waits(todo') /\ Len(todo') - Len(todo') = 0 /\ Len(todo') \in Nat
    <3>1. todo' \in Seq(Ops) /\ Waits(todo')
      BY <1>1, <2>1, ErasePlan DEF DrvOK
    <3> QED
      BY <3>1, RestSelf
  <2>5. DrvOK'
    BY <1>1, <1>o, <2>2, <2>3, <2>4 DEF DrvOK
  <2>6. WaitOK'
    <3>1. Len(todo') # 1 /\ Len(todo') # 0
      BY <2>4 DEF Waits
    <3>2. Made' = 0
      BY <2>3, <2>4 DEF Made
    <3> QED
      BY <1>8, <3>1, <3>2 DEF WaitOK, LeavesQuad, ChipOK
  <2>7. ReturnOK' /\ FreshOK' /\ HaltOK' /\ LoadOK'
    BY <2>2 DEF ReturnOK, FreshOK, HaltOK, LoadOK
  <2> QED
    BY <1>4, <1>8, <2>5, <2>6, <2>7 DEF IInv
<1>15. CASE differ # {} /\ clear = {}
  <2>1. drv' = [drv EXCEPT !.at = "page", !.p = newv, !.short = @ \union tail] /\ todo' = todo
    BY <1>7, <1>15
  <2>2. /\ IsDrv(drv') /\ drv'.at = "page" /\ drv'.addr = drv.addr /\ drv'.end = drv.end /\ drv'.s = drv.s
        /\ drv'.p = newv /\ drv'.len = drv.len
    BY <1>1, <2>1 DEF DrvOK, IsDrv
  <2>3. Plan' = <<>>
    BY <2>2 DEF Plan
  <2>5. DrvOK'
    BY <1>1, <1>o, <1>7, <1>15, <2>1, <2>2, <2>3, RestSelf DEF DrvOK
  <2>6. FreshOK'
    <3>1. CASE ctl.user
      <4>1. newv = RESET_ADDRESS /\ (\E a \in FirstWord : fbuf[a] # Erased) /\ Fresh
        BY <1>7, <1>15, <3>1
      <4>2. Fresh'
        BY <1>2, <2>2, <4>1 DEF Fresh
      <4> QED
        BY <1>2, <2>2, <4>1, <4>2 DEF FreshOK
    <3>2. CASE ~ctl.user
      BY <1>2, <3>2 DEF FreshOK
    <3> QED
      BY <3>1, <3>2
  <2>7. WaitOK' /\ ReturnOK' /\ HaltOK' /\ LoadOK'
    BY <2>2 DEF WaitOK, ReturnOK, HaltOK, LoadOK
  <2> QED
    BY <1>4, <1>8, <2>5, <2>6, <2>7 DEF IInv
<1> QED
  BY <1>13, <1>14, <1>15

(* The sections of the files zipload is given. *)
LEMMA FileSections ==
    ASSUME NEW f \in Files
    PROVE  /\ f \in Seq(Header) /\ SectionCount(f) \in Nat /\ DOMAIN elfread(f) = 1..SectionCount(f)
           /\ \A i \in DOMAIN elfread(f) : elfread(f)[i] \in Header
           /\ (\A i \in DOMAIN elfread(f) : ValidSection(elfread(f)[i])) => Bootable(f)
<1>1. f \in Seq(Header) /\ ((\A i \in DOMAIN elfread(f) : ValidSection(elfread(f)[i])) => Bootable(f))
  BY LoadAssumption DEF Header
<1> QED
  BY <1>1, SectionsAreHeaders

(* The end of a run, however it comes. *)
LEMMA ExitKeeps ==
    ASSUME DrvOK, ChipOK, CpuOK, drv'= IdleDriver, todo' = <<>>, chip' = chip, ctl' = ctl, fbuf' = fbuf,
           cpu' \in {cpu, "halted"}
    PROVE  IInv'
<1>1. /\ IsDrv(drv') /\ drv'.at = "idle" /\ drv'.addr = 0 /\ drv'.end = 0 /\ drv'.s = 0 /\ drv'.p = -1 /\ drv'.len = 0
  BY DEF IdleDriver, IsDrv, None
<1>2. DrvOK'
  <2>1. Plan' = <<>> /\ Ops' = Ops
    BY <1>1 DEF Plan, Ops
  <2>2. todo' \in Seq(Ops) /\ Remaining(todo', <<>>)
    BY RestSelf
  <2> QED
    BY <1>1, <2>1, <2>2 DEF DrvOK
<1>3. ChipOK'
  BY DEF ChipOK
<1>4. CpuOK'
  BY <1>1 DEF CpuOK
<1>5. WaitOK' /\ ReturnOK' /\ FreshOK' /\ HaltOK' /\ LoadOK'
  BY <1>1 DEF WaitOK, ReturnOK, FreshOK, HaltOK, LoadOK
<1> QED
  BY <1>2, <1>3, <1>4, <1>5 DEF IInv

(* Kill preserves the invariant. *)
LEMMA KillKeeps == ASSUME IInv, Kill PROVE IInv'
<1>1. DrvOK /\ ChipOK /\ CpuOK
  BY DEF IInv
<1>2. drv' = IdleDriver /\ todo' = <<>> /\ chip' = chip /\ ctl' = ctl /\ fbuf' = fbuf /\ cpu' = cpu
  BY DEF Kill, Exit
<1> QED
  BY <1>1, <1>2, ExitKeeps

(* Failed preserves the invariant. *)
LEMMA FailedKeeps == ASSUME IInv, Failed PROVE IInv'
<1>1. DrvOK /\ ChipOK /\ CpuOK
  BY DEF IInv
<1>2. drv' = IdleDriver /\ todo' = <<>> /\ chip' = chip /\ ctl' = ctl /\ fbuf' = fbuf /\ cpu' = cpu
  BY DEF Failed, Exit
<1> QED
  BY <1>1, <1>2, ExitKeeps

(* So does Misaligned. *)
LEMMA MisalignedKeeps == ASSUME IInv, Misaligned PROVE IInv'
<1>1. DrvOK /\ ChipOK /\ CpuOK
  BY DEF IInv
<1>2. drv' = IdleDriver /\ todo' = <<>> /\ chip' = chip /\ ctl' = ctl /\ fbuf' = fbuf /\ cpu' = cpu
  BY DEF Misaligned, Exit
<1> QED
  BY <1>1, <1>2, ExitKeeps

(* Done preserves the invariant: the CPU is started with the flash on line. *)
LEMMA DoneKeeps == ASSUME IInv, Done PROVE IInv'
<1>1. DrvOK /\ ChipOK /\ drv.at = "written" /\ todo = <<>> /\ ctl.user = FALSE
  BY Returned DEF IInv, Done, Deciding
<1>2. todo' = todo /\ chip' = chip /\ ctl' = ctl /\ fbuf' = fbuf /\ Goto("idle")
  BY DEF Done
<1>3. /\ IsDrv(drv') /\ drv'.at = "idle" /\ drv'.addr = drv.addr /\ drv'.end = drv.end /\ drv'.s = drv.s
      /\ drv'.p = drv.p /\ drv'.len = drv.len
  BY <1>1, <1>2, GotoIs DEF DrvOK
<1>4. DrvOK'
  <2>1. Plan' = <<>> /\ Ops' = Ops
    BY <1>2, <1>3 DEF Plan, Ops
  <2>2. todo' \in Seq(Ops) /\ Remaining(todo', <<>>)
    BY <1>1, <1>2, RestSelf
  <2> QED
    BY <1>1, <1>3, <2>1, <2>2 DEF DrvOK
<1>5. ChipOK'
  BY <1>1, <1>2 DEF ChipOK
<1>6. CpuOK' /\ WaitOK' /\ ReturnOK' /\ FreshOK' /\ HaltOK' /\ LoadOK'
  BY <1>1, <1>2, <1>3 DEF CpuOK, WaitOK, ReturnOK, FreshOK, HaltOK, LoadOK
<1> QED
  BY <1>4, <1>5, <1>6 DEF IInv

(* Start preserves the invariant. *)
LEMMA StartKeeps == ASSUME IInv, Start PROVE IInv'
<1>1. DrvOK /\ ChipOK /\ CpuOK /\ drv.at = "idle"
  BY DEF IInv, Start
<1>2. /\ todo' = todo /\ chip' = chip /\ ctl' = ctl /\ cpu' = cpu /\ Goto("halt")
      /\ file' \in Files /\ nsec' = 1 /\ extent' = [start |-> RESET_ADDRESS, len |-> 0]
      /\ fbuf' = [a \in Offsets |-> Erased]
  BY DEF Start
<1>3. /\ IsDrv(drv') /\ drv'.at = "halt" /\ drv'.addr = drv.addr /\ drv'.end = drv.end /\ drv'.s = drv.s
      /\ drv'.p = drv.p /\ drv'.len = drv.len
  BY <1>1, <1>2, GotoIs DEF DrvOK
<1>4. DrvOK'
  <2>1. Plan' = <<>>
    BY <1>3 DEF Plan
  <2>2. todo' = <<>>
    BY <1>1, <1>2, NothingToSend
  <2>3. \A S : <<>> \in Seq(S)
    OBVIOUS
  <2>4. todo' \in Seq(Ops') /\ Remaining(todo', <<>>)
    BY <2>2, <2>3, RestSelf
  <2> QED
    BY <1>1, <1>3, <2>1, <2>4 DEF DrvOK
<1>5. ChipOK'
  BY <1>1, <1>2 DEF ChipOK
<1>6. HaltOK'
  BY <1>2 DEF HaltOK
<1>7. CpuOK' /\ WaitOK' /\ ReturnOK' /\ FreshOK' /\ LoadOK'
  BY <1>1, <1>2, <1>3 DEF CpuOK, WaitOK, ReturnOK, FreshOK, LoadOK
<1> QED
  BY <1>4, <1>5, <1>6, <1>7 DEF IInv

(* Halt preserves the invariant. *)
LEMMA HaltKeeps == ASSUME IInv, Halt PROVE IInv'
<1>1. DrvOK /\ ChipOK /\ CpuOK /\ HaltOK /\ drv.at = "halt"
  BY DEF IInv, Halt
<1>2. cpu' = "halted" /\ chip' = chip /\ ctl' = ctl /\ fbuf' = fbuf /\ extent' = extent
  BY DEF Halt
<1>3. CASE ~(\A i \in DOMAIN elfread(file) : ValidSection(elfread(file)[i]))
  <2>1. drv' = IdleDriver /\ todo' = <<>>
    BY <1>3 DEF Halt, Exit
  <2> QED
    BY <1>1, <1>2, <2>1, ExitKeeps
<1>4. CASE \A i \in DOMAIN elfread(file) : ValidSection(elfread(file)[i])
  <2>1. Goto("load") /\ todo' = todo /\ file' = file /\ nsec' = nsec
    BY <1>4 DEF Halt
  <2>2. /\ IsDrv(drv') /\ drv'.at = "load" /\ drv'.addr = drv.addr /\ drv'.end = drv.end /\ drv'.s = drv.s
        /\ drv'.p = drv.p /\ drv'.len = drv.len
    BY <1>1, <2>1, GotoIs DEF DrvOK
  <2>3. DrvOK'
    <3>1. Plan' = <<>> /\ Ops' = Ops
      BY <1>2, <2>2 DEF Plan, Ops
    <3>2. todo' \in Seq(Ops) /\ Remaining(todo', <<>>)
      BY <1>1, <2>1, NothingToSend, RestSelf
    <3> QED
      BY <1>1, <2>2, <3>1, <3>2 DEF DrvOK
  <2>4. ChipOK'
    BY <1>1, <1>2 DEF ChipOK
  <2>5. LoadOK'
    <3>1. file \in Files /\ nsec = 1 /\ extent = [start |-> RESET_ADDRESS, len |-> 0] /\ fbuf = [a \in Offsets |-> Erased]
      BY <1>1 DEF HaltOK
    <3>2. Bootable(file) /\ DOMAIN elfread(file) = 1..SectionCount(file) /\ SectionCount(file) \in Nat
      BY <1>4, <3>1, FileSections
    <3>3. \A i \in DOMAIN elfread(file) : i >= 1 /\ ~(i < 1)
      BY <3>2
    <3>4. \A a \in FirstWord \cap Offsets : fbuf[a] = Erased /\ \A i \in InFlash(file, a) : i >= nsec
      BY <3>1, <3>3 DEF InFlash
    <3>5. extent.len = 0 /\ DOMAIN fbuf = Offsets
      BY <3>1
    <3> QED
      BY <1>2, <1>4, <2>1, <3>1, <3>2, <3>3, <3>4, <3>5 DEF LoadOK, FirstWord, InFlash, Bootable, Differs
  <2>6. CpuOK' /\ WaitOK' /\ ReturnOK' /\ FreshOK' /\ HaltOK'
    BY <1>2, <2>2 DEF CpuOK, WaitOK, ReturnOK, FreshOK, HaltOK
  <2> QED
    BY <2>3, <2>4, <2>5, <2>6 DEF IInv
<1> QED
  BY <1>3, <1>4

(* A valid section extends what will be written at its end only. *)
LEMMA ExtendIs ==
    ASSUME NEW e, NEW n \in Nat, e = [start |-> RESET_ADDRESS, len |-> n], NEW sec, sec.start \in Nat, EndOf(sec) \in Nat,
           sec.start >= RESET_ADDRESS
    PROVE  LET x == Extend(e, sec) IN
           /\ x.len \in Nat /\ x = [start |-> RESET_ADDRESS, len |-> x.len]
           /\ x.len >= n /\ EndOf(sec) <= RESET_ADDRESS + x.len
<1>1. RESET_ADDRESS \in Nat
  BY LoadAssumption
<1>2. ~(sec.start < e.start) /\ e.start = RESET_ADDRESS /\ e.len = n
  BY <1>1
<1>3. Extend(e, sec) = IF EndOf(sec) > RESET_ADDRESS + n THEN [e EXCEPT !.len = EndOf(sec) - RESET_ADDRESS] ELSE e
  BY <1>2 DEF Extend
<1>4. CASE EndOf(sec) > RESET_ADDRESS + n
  <2>1. Extend(e, sec) = [start |-> RESET_ADDRESS, len |-> EndOf(sec) - RESET_ADDRESS]
    BY <1>2, <1>3, <1>4
  <2>2. EndOf(sec) - RESET_ADDRESS \in Nat /\ EndOf(sec) - RESET_ADDRESS >= n
        /\ EndOf(sec) <= RESET_ADDRESS + (EndOf(sec) - RESET_ADDRESS)
    BY <1>1, <1>4
  <2> QED
    BY <2>1, <2>2
<1>5. CASE ~(EndOf(sec) > RESET_ADDRESS + n)
  BY <1>1, <1>2, <1>3, <1>5
<1> QED
  BY <1>4, <1>5

(* LoadSection preserves the invariant. *)
LEMMA LoadSectionKeeps == ASSUME IInv, LoadSection PROVE IInv'
<1>1. DrvOK /\ ChipOK /\ CpuOK /\ LoadOK /\ drv.at = "load" /\ nsec <= SectionCount(file)
  BY DEF IInv, LoadSection
<1>2. /\ nsec' = nsec + 1 /\ chip' = chip /\ ctl' = ctl /\ todo' = todo /\ drv' = drv /\ file' = file /\ cpu' = cpu
  BY DEF LoadSection
<1>3. /\ file \in Files /\ Bootable(file) /\ nsec \in Nat \ {0}
      /\ \A i \in DOMAIN elfread(file) : ValidSection(elfread(file)[i])
      /\ extent = [start |-> RESET_ADDRESS, len |-> extent.len] /\ extent.len \in Nat
      /\ DOMAIN fbuf = Offsets
  BY <1>1 DEF LoadOK
<1>4. \A i \in DOMAIN elfread(file) :
            i < nsec /\ elfread(file)[i].dev = "flash" => EndOf(elfread(file)[i]) <= RESET_ADDRESS + extent.len
  BY <1>1 DEF LoadOK
<1>5. \A a \in FirstWord \cap Offsets :
            \/ fbuf[a] = Erased /\ \A i \in InFlash(file, a) : i >= nsec
            \/ \E i \in InFlash(file, a) :
                  fbuf[a] = elfread(file)[i].data[a - elfread(file)[i].start + 1]
  BY <1>1 DEF LoadOK
<1>6. /\ SectionCount(file) \in Nat /\ DOMAIN elfread(file) = 1..SectionCount(file)
      /\ \A i \in DOMAIN elfread(file) : elfread(file)[i] \in Header
  BY <1>3, FileSections
<1> DEFINE sec == elfread(file)[nsec]
<1>7. nsec \in DOMAIN elfread(file) /\ \A i \in DOMAIN elfread(file) : i \in Nat
  BY <1>1, <1>3, <1>6
<1>8. sec \in Header /\ ValidSection(sec)
  BY <1>3, <1>6, <1>7
<1>9. sec.start \in Nat /\ EndOf(sec) \in Nat /\ sec.dev \in {"bkram", "flash"}
  <2>1. sec.start \in Nat /\ sec.data \in Seq(Byte) /\ sec.dev \in {"bkram", "flash"}
    BY <1>8 DEF Header
  <2>2. Len(sec.data) \in Nat
    BY <2>1
  <2> HIDE DEF sec
  <2> QED
    BY <2>1, <2>2 DEF EndOf
<1>10. /\ sec.dev = "bkram" => extent' = extent /\ fbuf' = fbuf
       /\ sec.dev # "bkram" => extent' = Extend(extent, sec) /\ fbuf' = Put(fbuf, sec)
  BY DEF LoadSection
<1>11. /\ extent'.len \in Nat /\ extent' = [start |-> RESET_ADDRESS, len |-> extent'.len]
       /\ extent'.len >= extent.len
       /\ sec.dev = "flash" => EndOf(sec) <= RESET_ADDRESS + extent'.len
  <2>1. CASE sec.dev = "bkram"
    BY <1>3, <1>10, <2>1
  <2>2. CASE sec.dev = "flash"
    <3>1. sec.start >= RESET_ADDRESS /\ extent' = Extend(extent, sec)
      BY <1>8, <1>10, <2>2 DEF ValidSection
    <3> HIDE DEF sec
    <3> QED
      BY <1>3, <1>9, <3>1, ExtendIs
  <2> QED
    BY <1>9, <2>1, <2>2
<1>12. DOMAIN fbuf' = Offsets
  BY <1>3, <1>9, <1>10 DEF Put
<1>13. ASSUME NEW i \in DOMAIN elfread(file), i < nsec + 1, elfread(file)[i].dev = "flash"
       PROVE  EndOf(elfread(file)[i]) <= RESET_ADDRESS + extent'.len
  <2>1. CASE i = nsec
    BY <1>11, <1>13, <2>1
  <2>2. CASE i # nsec
    <3>1. i < nsec
      BY <1>3, <1>7, <1>13, <2>2
    <3>2. EndOf(elfread(file)[i]) <= RESET_ADDRESS + extent.len
      BY <1>4, <1>13, <3>1
    <3>3. EndOf(elfread(file)[i]) \in Int
      <4>1. elfread(file)[i].start \in Nat /\ elfread(file)[i].data \in Seq(Byte)
        BY <1>6 DEF Header
      <4>2. Len(elfread(file)[i].data) \in Nat
        BY <4>1
      <4> QED
        BY <4>1, <4>2 DEF EndOf
    <3>4. RESET_ADDRESS \in Int /\ extent.len \in Int /\ extent'.len \in Int /\ extent'.len >= extent.len
      BY <1>3, <1>11, LoadAssumption
    <3> QED
      BY <3>2, <3>3, <3>4
  <2> QED
    BY <2>1, <2>2
<1>14. ASSUME NEW a \in FirstWord \cap Offsets
       PROVE  \/ fbuf'[a] = Erased /\ \A i \in InFlash(file, a) : i >= nsec + 1
              \/ \E i \in InFlash(file, a) :
                    fbuf'[a] = elfread(file)[i].data[a - elfread(file)[i].start + 1]
  <2>0. a \in Int
    BY FlashSizes, LoadAssumption DEF FirstWord
  <2>1. CASE nsec \in InFlash(file, a)
    <3>1. sec.dev = "flash" /\ a \in sec.start..(EndOf(sec) - 1)
      BY <2>1 DEF InFlash, Bytes
    <3>2. a >= sec.start /\ a < EndOf(sec)
      BY <1>9, <3>1
    <3>3. fbuf'[a] = sec.data[a - sec.start + 1]
      BY <1>3, <1>10, <3>1, <3>2 DEF Put
    <3> QED
      BY <2>1, <3>3
  <2>2. CASE nsec \notin InFlash(file, a)
    <3>1. fbuf'[a] = fbuf[a]
      <4>1. CASE sec.dev = "bkram"
        BY <1>10, <4>1
      <4>2. CASE sec.dev = "flash"
        <5>1. a \notin sec.start..(EndOf(sec) - 1)
          BY <1>7, <2>2, <4>2 DEF InFlash, Bytes
        <5>2. ~(a >= sec.start /\ a < EndOf(sec))
          BY <1>9, <2>0, <5>1
        <5> QED
          BY <1>3, <1>10, <4>2, <5>2 DEF Put
      <4> QED
        BY <1>9, <4>1, <4>2
    <3>2. (\A i \in InFlash(file, a) : i >= nsec) => \A i \in InFlash(file, a) : i >= nsec + 1
      <4>1. \A i \in InFlash(file, a) : i \in Nat /\ i # nsec
        BY <1>7, <2>2 DEF InFlash
      <4> QED
        BY <1>3, <4>1
    <3> QED
      BY <1>5, <3>1, <3>2
  <2> QED
    BY <2>1, <2>2
<1>15. LoadOK'
  <2>1. nsec' \in Nat \ {0} /\ file' = file
    BY <1>2, <1>3
  <2>2. \A a \in FirstWord \cap Offsets :
            \/ fbuf'[a] = Erased /\ \A i \in InFlash(file, a) : i >= nsec'
            \/ \E i \in InFlash(file, a) : fbuf'[a] = elfread(file)[i].data[a - elfread(file)[i].start + 1]
    BY <1>2, <1>14
  <2>3. \A i \in DOMAIN elfread(file) :
            i < nsec' /\ elfread(file)[i].dev = "flash" => EndOf(elfread(file)[i]) <= RESET_ADDRESS + extent'.len
    BY <1>2, <1>13
  <2> QED
    BY <1>3, <1>11, <1>12, <2>1, <2>2, <2>3 DEF LoadOK, FirstWord, InFlash, Bootable, Differs
<1>16. DrvOK'
  <2>1. Plan' = <<>>
    BY <1>1, <1>2 DEF Plan
  <2>2. todo' = <<>>
    BY <1>1, <1>2, NothingToSend
  <2>3. \A S : <<>> \in Seq(S)
    OBVIOUS
  <2>4. todo' \in Seq(Ops') /\ Remaining(todo', <<>>)
    BY <2>2, <2>3, RestSelf
  <2> QED
    BY <1>1, <1>2, <2>1, <2>4 DEF DrvOK, IsDrv
<1>17. ChipOK' /\ CpuOK' /\ WaitOK' /\ ReturnOK' /\ FreshOK' /\ HaltOK'
  BY <1>1, <1>2 DEF ChipOK, CpuOK, WaitOK, ReturnOK, FreshOK, HaltOK
<1> QED
  BY <1>15, <1>16, <1>17 DEF IInv

(* All sections are in fbuf: a write of the flash follows, and its first word is the program's. *)
LEMMA Gathered ==
    ASSUME LoadOK, drv.at = "load", nsec > SectionCount(file)
    PROVE  /\ extent.start = RESET_ADDRESS /\ extent.len \in Nat /\ extent.len >= WORD /\ extent.len > 0
           /\ \A a \in FirstWord : fbuf[a] \in Byte
           /\ \A stale \in StaleWords : \E a \in FirstWord : fbuf[a] # stale[a % WORD]
<1>1. /\ file \in Files /\ Bootable(file) /\ nsec \in Nat \ {0}
      /\ \A i \in DOMAIN elfread(file) : ValidSection(elfread(file)[i])
      /\ extent = [start |-> RESET_ADDRESS, len |-> extent.len] /\ extent.len \in Nat
  BY DEF LoadOK
<1>2. \A i \in DOMAIN elfread(file) :
            i < nsec /\ elfread(file)[i].dev = "flash" => EndOf(elfread(file)[i]) <= RESET_ADDRESS + extent.len
  BY DEF LoadOK
<1>3. \A a \in FirstWord \cap Offsets :
            \/ fbuf[a] = Erased /\ \A i \in InFlash(file, a) : i >= nsec
            \/ \E i \in InFlash(file, a) :
                  fbuf[a] = elfread(file)[i].data[a - elfread(file)[i].start + 1]
  BY DEF LoadOK
<1>4. /\ SectionCount(file) \in Nat /\ DOMAIN elfread(file) = 1..SectionCount(file)
      /\ \A i \in DOMAIN elfread(file) : elfread(file)[i] \in Header
  BY <1>1, FileSections
<1>5. \A i \in DOMAIN elfread(file) : i < nsec /\ ~(i >= nsec)
  BY <1>1, <1>4
<1>6. PICK k \in DOMAIN elfread(file) :
          elfread(file)[k].dev = "flash" /\ EndOf(elfread(file)[k]) >= RESET_ADDRESS + WORD
  BY <1>1 DEF Bootable
<1>7. ASSUME NEW i \in DOMAIN elfread(file)
      PROVE  elfread(file)[i].start \in Nat /\ elfread(file)[i].data \in Seq(Byte) /\ EndOf(elfread(file)[i]) \in Nat
             /\ Len(elfread(file)[i].data) \in Nat
             /\ EndOf(elfread(file)[i]) = elfread(file)[i].start + Len(elfread(file)[i].data)
  <2>1. elfread(file)[i].start \in Nat /\ elfread(file)[i].data \in Seq(Byte)
    BY <1>4 DEF Header
  <2>2. Len(elfread(file)[i].data) \in Nat
    BY <2>1
  <2> QED
    BY <2>1, <2>2 DEF EndOf
<1>8. RESET_ADDRESS \in Nat /\ WORD \in Nat /\ WORD > 0
  BY LoadAssumption
<1>9. extent.start = RESET_ADDRESS /\ extent.len >= WORD /\ extent.len > 0
  <2>1. EndOf(elfread(file)[k]) <= RESET_ADDRESS + extent.len
    BY <1>2, <1>5, <1>6
  <2>2. EndOf(elfread(file)[k]) \in Nat /\ EndOf(elfread(file)[k]) >= RESET_ADDRESS + WORD
    BY <1>6, <1>7
  <2>3. extent.start = RESET_ADDRESS
    BY <1>1
  <2> QED
    BY <1>1, <1>8, <2>1, <2>2, <2>3
<1>10. ASSUME NEW a \in FirstWord PROVE a \in Offsets
  <2>1. EndOf(elfread(file)[k]) <= FLASHLEN
    BY <1>1, <1>6 DEF ValidSection
  <2>2. FLASHLEN \in Int
    <3>1. NSECTORS \in Int /\ SECTORSZB \in Int
      BY FlashAssumption, FlashSizes
    <3>2. \A x, y \in Int : x * y \in Int
      OBVIOUS
    <3> QED
      BY <3>1, <3>2 DEF FLASHLEN
  <2>3. a \in Int /\ a >= 0 /\ a < RESET_ADDRESS + WORD
    BY <1>8 DEF FirstWord
  <2>4. EndOf(elfread(file)[k]) \in Nat /\ EndOf(elfread(file)[k]) >= RESET_ADDRESS + WORD
    BY <1>6, <1>7
  <2> QED
    BY <1>8, <2>1, <2>2, <2>3, <2>4 DEF Offsets
<1>11. ASSUME NEW a \in FirstWord
       PROVE  \/ fbuf[a] = Erased /\ InFlash(file, a) = {}
              \/ \E i \in InFlash(file, a) :
                    fbuf[a] = elfread(file)[i].data[a - elfread(file)[i].start + 1]
  <2>1. (\A i \in InFlash(file, a) : i >= nsec) => InFlash(file, a) = {}
    BY <1>5 DEF InFlash
  <2> QED
    BY <1>3, <1>10, <2>1
<1>12. ASSUME NEW a \in FirstWord PROVE fbuf[a] \in Byte
  <2>1. Erased \in Byte
    BY DEF Erased, Byte
  <2>2. ASSUME NEW i \in InFlash(file, a) PROVE elfread(file)[i].data[a - elfread(file)[i].start + 1] \in Byte
    <3> DEFINE sec == elfread(file)[i]
    <3>1. i \in DOMAIN elfread(file) /\ a \in sec.start..(EndOf(sec) - 1)
      BY DEF InFlash, Bytes
    <3>2. sec.start \in Nat /\ sec.data \in Seq(Byte) /\ Len(sec.data) \in Nat /\ EndOf(sec) = sec.start + Len(sec.data)
      BY <1>7, <3>1
    <3> HIDE DEF sec
    <3>3. a - sec.start + 1 \in 1..Len(sec.data)
      BY <3>1, <3>2
    <3>4. sec.data[a - sec.start + 1] \in Byte
      BY <3>2, <3>3
    <3> QED
      BY <3>4 DEF sec
  <2> QED
    BY <1>11, <2>1, <2>2
<1>13. ASSUME NEW stale \in StaleWords PROVE \E a \in FirstWord : fbuf[a] # stale[a % WORD]
  <2>1. Differs(file, stale)
    BY <1>1 DEF Bootable
  <2>2. PICK a \in FirstWord :
        /\ InFlash(file, a) = {} => stale[a % WORD] # Erased
        /\ \A i \in InFlash(file, a) : elfread(file)[i].data[a - elfread(file)[i].start + 1] # stale[a % WORD]
    BY <2>1 DEF Differs
  <2> QED
    BY <1>11, <2>2
<1> QED
  BY <1>1, <1>9, <1>12, <1>13

(* WriteFlash preserves the invariant. *)
LEMMA WriteFlashKeeps == ASSUME IInv, WriteFlash PROVE IInv'
<1>1. DrvOK /\ ChipOK /\ CpuOK /\ LoadOK /\ drv.at = "load" /\ nsec > SectionCount(file)
  BY DEF IInv, WriteFlash
<1>2. /\ extent.start = RESET_ADDRESS /\ extent.len \in Nat /\ extent.len >= WORD /\ extent.len > 0
      /\ \A a \in FirstWord : fbuf[a] \in Byte
      /\ \A stale \in StaleWords : \E a \in FirstWord : fbuf[a] # stale[a % WORD]
  BY <1>1, Gathered
<1>3. chip' = chip /\ ctl' = ctl /\ todo' = todo /\ fbuf' = fbuf /\ cpu' = cpu
  BY DEF WriteFlash, toolVars
<1>4. drv' = [at |-> "sector", addr |-> RESET_ADDRESS, end |-> RESET_ADDRESS + extent.len,
              s |-> SECTOROF(RESET_ADDRESS), p |-> None, len |-> 0, short |-> {}]
  BY <1>2 DEF WriteFlash, StartWrite
<1>5. /\ IsDrv(drv') /\ drv'.at = "sector" /\ drv'.addr = RESET_ADDRESS /\ drv'.end = RESET_ADDRESS + extent.len
      /\ drv'.s = SECTOROF(RESET_ADDRESS) /\ drv'.p = -1 /\ drv'.len = 0
  BY <1>4 DEF IsDrv, None
<1>6. RESET_ADDRESS \in Nat /\ WORD \in Nat /\ SECTOROF(RESET_ADDRESS) \in Int
  BY LoadAssumption, FlashSizes
<1>7. DrvOK'
  <2>1. Plan' = <<>> /\ Ops' = Ops
    BY <1>3, <1>5 DEF Plan, Ops
  <2>2. todo' \in Seq(Ops) /\ Remaining(todo', <<>>)
    BY <1>1, <1>3, NothingToSend, RestSelf
  <2>3. drv'.addr \in Int /\ drv'.end \in Int /\ drv'.s \in Int
    BY <1>2, <1>5, <1>6
  <2> QED
    BY <1>5, <2>1, <2>2, <2>3 DEF DrvOK
<1>8. Fresh'
  <2>1. drv'.end >= RESET_ADDRESS + WORD
    BY <1>2, <1>5, <1>6
  <2> QED
    BY <1>2, <1>3, <1>5, <2>1 DEF Fresh
<1>9. ChipOK' /\ FreshOK'
  BY <1>1, <1>3, <1>5, <1>8 DEF ChipOK, FreshOK
<1>10. CpuOK'
  BY <1>1, <1>3, CpuStays
<1>11. WaitOK' /\ ReturnOK' /\ HaltOK' /\ LoadOK'
  BY <1>5 DEF WaitOK, ReturnOK, HaltOK, LoadOK
<1> QED
  BY <1>7, <1>9, <1>10, <1>11 DEF IInv

(* After power up the chip is on line. *)
LEMMA InitIInv == ASSUME Init PROVE IInv
<1>1. PICK image \in Images : chip = PowerUp(Loaded(0, image))
  BY DEF Init
<1>2. ctl = [user |-> FALSE, last |-> Junk] /\ todo = <<>> /\ drv = IdleDriver
  BY DEF Init
<1> DEFINE mem == Loaded(0, image)
           pmem == [i \in 0..(PGLENB - 1) |-> Erased]
<1>3. chip = [state |-> "QUAD_READ_IDLE", mode |-> "QSPI", wel |-> FALSE, wip |-> FALSE, asleep |-> FALSE,
     n |-> 0, ireg |-> <<>>, addr |-> 0, pmem |-> pmem,
     keep |-> TRUE, out |-> Junk, mem |-> mem]
  BY <1>1 DEF PowerUp
<1> HIDE DEF mem, pmem
<1>4. /\ IsChip(chip) /\ chip.state = "QUAD_READ_IDLE" /\ chip.mode = "QSPI" /\ chip.wip = FALSE /\ chip.asleep = FALSE
      /\ chip.n = 0 /\ chip.keep = TRUE
  BY <1>3 DEF IsChip
<1>5. Online(chip)
  <2>1. chip.n \in 0..8 /\ chip.n <= 2 /\ chip.wip \in BOOLEAN /\ chip.keep \in BOOLEAN
    <3>1. chip.n = 0 /\ 0 \in 0..8 /\ 0 <= 2
      BY <1>4
    <3>2. chip.n \in 0..8 /\ chip.n <= 2
      BY <3>1, Zenon
    <3>3. chip.wip \in BOOLEAN /\ chip.keep \in BOOLEAN
      BY <1>4, Zenon
    <3> QED
      BY <3>2, <3>3
  <2>2. Sane(chip)
    BY <1>4, <2>1 DEF Sane
  <2> QED
    BY <1>4, <2>2 DEF Online
<1>6. ChipOK /\ ctl.user = FALSE
  BY <1>2, <1>5 DEF ChipOK, Online
<1>7. /\ IsDrv(drv) /\ drv.at = "idle" /\ drv.addr = 0 /\ drv.end = 0 /\ drv.s = 0 /\ drv.p = -1 /\ drv.len = 0
  BY <1>2 DEF IdleDriver, IsDrv, None
<1>8. DrvOK
  <2>1. Plan = <<>>
    BY <1>7 DEF Plan
  <2>2. drv.addr \in Int /\ drv.end \in Int /\ drv.s \in Int /\ drv.p \in Int /\ drv.len \in Int
    BY <1>7
  <2>3. todo \in Seq(Ops) /\ Remaining(todo, <<>>)
    BY <1>2, RestSelf
  <2> QED
    BY <1>7, <2>1, <2>2, <2>3 DEF DrvOK
<1>9. CpuOK /\ WaitOK /\ ReturnOK /\ FreshOK /\ HaltOK /\ LoadOK
  BY <1>6, <1>7 DEF CpuOK, WaitOK, ReturnOK, FreshOK, HaltOK, LoadOK
<1> QED
  BY <1>6, <1>8, <1>9 DEF IInv

(* Nothing changes. *)
LEMMA StutterKeeps == ASSUME IInv, UNCHANGED vars PROVE IInv'
<1>1. /\ chip' = chip /\ ctl' = ctl /\ todo' = todo /\ drv' = drv /\ fbuf' = fbuf
      /\ file' = file /\ nsec' = nsec /\ extent' = extent /\ cpu' = cpu
  BY DEF vars, drvVars, toolVars
<1>2. Plan' = Plan /\ Ops' = Ops /\ Made' = Made
  BY <1>1 DEF Plan, EraseCommands, ProgramCommands, WriteEnable, StartWait, Ops, Made
<1>3. DrvOK /\ ChipOK /\ WaitOK /\ ReturnOK /\ FreshOK /\ HaltOK /\ LoadOK /\ CpuOK
  BY DEF IInv
<1>4. DrvOK' /\ ChipOK' /\ CpuOK' /\ HaltOK'
  BY <1>1, <1>2, <1>3 DEF DrvOK, IsDrv, ChipOK, CpuOK, HaltOK
<1>5. WaitOK' /\ ReturnOK' /\ FreshOK'
  BY <1>1, <1>2, <1>3 DEF WaitOK, ReturnOK, FreshOK, Fresh
<1>6. LoadOK'
  BY <1>1, <1>3 DEF LoadOK, FirstWord, InFlash, Bootable, Differs
<1> QED
  BY <1>4, <1>5, <1>6 DEF IInv

(* Every step preserves the invariant. *)
LEMMA StepKeeps == ASSUME IInv, [Next]_vars PROVE IInv'
<1>1. CASE DriverStep /\ UNCHANGED toolVars
  <2>1. CASE BusOp
    BY <1>1, <2>1, BusOpKeeps
  <2>2. CASE NextSector
    BY <1>1, <2>2, NextSectorKeeps
  <2>3. CASE Wait
    BY <1>1, <2>3, WaitKeeps
  <2>4. CASE VerifyErase
    BY <1>1, <2>4, VerifyEraseKeeps
  <2>5. CASE NextPage
    BY <1>1, <2>5, NextPageKeeps
  <2>6. CASE SectorDone
    BY <1>1, <2>6, SectorDoneKeeps
  <2>7. CASE VerifyPage
    BY <1>1, <2>7, VerifyPageKeeps
  <2>8. CASE PageDone
    BY <1>1, <2>8, PageDoneKeeps
  <2>9. CASE Finish
    BY <1>1, <2>9, FinishKeeps
  <2> QED
    BY <1>1, <2>1, <2>2, <2>3, <2>4, <2>5, <2>6, <2>7, <2>8, <2>9 DEF DriverStep
<1>2. CASE Ready
  BY <1>2, ReadyKeeps DEF Ready
<1>3. CASE Halt
  BY <1>3, HaltKeeps
<1>4. CASE LoadSection
  BY <1>4, LoadSectionKeeps
<1>5. CASE WriteFlash
  BY <1>5, WriteFlashKeeps
<1>6. CASE Failed
  BY <1>6, FailedKeeps
<1>11. CASE Misaligned
  BY <1>11, MisalignedKeeps
<1>7. CASE Done
  BY <1>7, DoneKeeps
<1>8. CASE Start
  BY <1>8, StartKeeps
<1>9. CASE Kill
  BY <1>9, KillKeeps
<1>10. CASE Rest \/ UNCHANGED vars
  BY <1>10, StutterKeeps DEF Rest
<1> QED
  BY <1>1, <1>2, <1>3, <1>4, <1>5, <1>6, <1>7, <1>8, <1>9, <1>10, <1>11 DEF Next, Working

(* The CPU, whose program is in the flash, only runs while its bus can read it (zipload.cpp
   main, flashdrvr.cpp write, flashsim.cpp): over any number of runs, each of which may be killed or
   fail between any two writes to the port. *)
THEOREM AlwaysRunsFromFlash == Spec => []RunsFromFlash
<1>1. Init => IInv
  BY InitIInv
<1>2. IInv /\ [Next]_vars => IInv'
  BY StepKeeps
<1>3. IInv => RunsFromFlash
  <2> SUFFICES ASSUME IInv, cpu = "running"
               PROVE  chip.state = "QUAD_READ_IDLE" /\ chip.mode = "QSPI" /\ ~chip.wip /\ ~ctl.user
    BY DEF RunsFromFlash
  <2>1. ctl.user = FALSE
    BY DEF IInv, CpuOK
  <2>2. Online(chip)
    BY <2>1 DEF IInv, ChipOK
  <2> QED
    BY <2>1, <2>2 DEF Online
<1> QED
  BY <1>1, <1>2, <1>3, PTL DEF Spec

-------------------------------------------------------------------------------
(* The places at which a run writes the flash, and those at which it is among the pages. *)
Writing == {"sector", "erasing", "erased", "page", "programming", "programmed", "nextpage", "written"}
Paging  == {"page", "programming", "programmed", "nextpage"}

(* The sections before n are in block memory and in fbuf. *)
Placed(n) ==
    \A i \in DOMAIN elfread(file) : i < n =>
        \A a \in Bytes(elfread(file)[i]) :
            \/ \E j \in DOMAIN elfread(file) :
                  i < j /\ j < n /\ elfread(file)[j].dev = elfread(file)[i].dev /\ a \in Taken(elfread(file)[j])
            \/ (IF elfread(file)[i].dev = "bkram" THEN ram[a] ELSE fbuf[a])
               = elfread(file)[i].data[a - elfread(file)[i].start + 1]

MemOK ==
    /\ chip.mem \in [Offsets -> Byte] /\ DOMAIN chip.pmem = 0..(PGLENB - 1)
    /\ DOMAIN ram = 0..(RAMLEN - 1) /\ DOMAIN fbuf = Offsets

FileOK ==
    /\ drv.at = "load" => Placed(nsec)
    /\ drv.at \in Writing =>
         /\ Placed(nsec) /\ nsec \in Nat /\ file \in Files /\ nsec > SectionCount(file)
         /\ drv.addr = RESET_ADDRESS /\ SECTOROF(drv.s) = drv.s
         /\ \A i \in DOMAIN elfread(file) :
               /\ ValidSection(elfread(file)[i])
               /\ elfread(file)[i].dev = "flash" => EndOf(elfread(file)[i]) <= drv.end

(* A byte of the current sector or of an earlier one that is to be written. *)
Wanted(a) == a >= RESET_ADDRESS /\ a < drv.s + SECTORSZB /\ a < drv.end
Same(a) == chip.mem[a] = fbuf[a] \/ a \in drv.short

(* How far the flash holds what it should. *)
Reached ==
    CASE drv.at \in {"sector", "written"} -> drv.s
      [] drv.at = "nextpage" -> PAGEOF(drv.p + PGLENB)
      [] OTHER -> drv.p
DoneOK ==
    /\ drv.at \in Writing => \A a \in Offsets : Wanted(a) /\ a < Reached => Same(a)
    /\ drv.at = "written" => drv.s >= drv.end
    /\ drv.at \in {"erasing", "erased"} => drv.p >= drv.s /\ drv.p \in {drv.s, RESET_ADDRESS}
    /\ drv.at \in Paging \union {"erasing", "erased"} => drv.p >= RESET_ADDRESS

(* From x on, what is to be erased bytes is. *)
Clean(x) ==
    \A a \in Offsets : Wanted(a) /\ a >= x /\ fbuf[a] = Erased => chip.mem[a] = Erased \/ a \in drv.short
(* From x on, every word has a byte that is not to be erased. *)
Full(lim, r) ==
    \A a \in RESET_ADDRESS..(lim - 1) : a % WORD = r => fbuf[a] # Erased
Dense(x) ==
    \E lim \in Int, r \in 0..(WORD - 1) :
        /\ lim % WORD = 0 /\ Full(lim, r)
        /\ \A a \in Offsets : Wanted(a) /\ a >= lim /\ a >= x => a \in drv.short
Ahead == IF drv.at = "page" THEN drv.p ELSE PAGEOF(drv.p + PGLENB)
AheadOK ==
    drv.at \in Paging =>
        /\ Clean(Ahead) \/ (Dense(Ahead) /\ Ahead % WORD = 0)
        /\ drv.at = "page" /\ ctl.user => Dense(Ahead)

(* What page_program does not read back is known to be short. *)
LenOK ==
    drv.at \in {"programming", "programmed"} =>
        /\ drv.len > 0 /\ drv.p + drv.len <= PAGEOF(drv.p + PGLENB)
        /\ \A a \in (drv.p + WORD * (drv.len \div WORD))..(PAGEOF(drv.p + PGLENB) - 1) : a \in drv.short

(* The chip n writes after the decision to erase, or to program len bytes at a. *)
Pending(n, c, cmd, a, len) ==
    /\ n \in 1..11 \/ n > 15 + len => c.state \notin Burning
    /\ n = 11 => c.ireg = <<>> /\ c.n = 0
    /\ n \in 12..(15 + len) => c.state \in {cmd, "INVALID"}
    /\ n \in 12..14 => c.n = n - 11
    /\ n = 12 => c.ireg = <<Cmd(cmd)>>
    /\ n = 13 => c.ireg = <<Cmd(cmd), AddressBytes(a)[1]>>
    /\ n = 14 => c.ireg = <<Cmd(cmd), AddressBytes(a)[1], AddressBytes(a)[2]>>
    /\ n = 15 /\ c.state = cmd => c.addr = a
    /\ n \in 15..(15 + len) => c.n > 3
    /\ n \in 15..(15 + len) /\ c.state = "PP" =>
         /\ PAGEOF(c.addr) = PAGEOF(a) /\ (n - 15 < len => c.addr = a + (n - 15))
         /\ \A x \in 0..((a % PGLENB) - 1) : c.pmem[x] = Erased
PendOK ==
    /\ drv.at = "erasing" => Pending(Made, chip, "SECTOR_ERASE", drv.s, 0)
    /\ drv.at = "programming" => Pending(Made, chip, "PP", drv.p, drv.len)
    /\ drv.at \in {"erasing", "programming"} /\ Made = 0 /\ chip.state \in Burning =>
         drv.p = RESET_ADDRESS /\ (drv.at = "programming" => Dense(Ahead))

ResultOK == result = "ok" => drv.at = "idle" /\ todo = <<>> /\ chip.wip = FALSE /\ LoadedUnlessShort

Data == MemOK /\ FileOK /\ DoneOK /\ AheadOK /\ LenOK /\ PendOK /\ ResultOK

(* A byte of a selection changes neither the array nor the size of the page buffer. *)
LEMMA CommandMem ==
    ASSUME NEW c, IsChip(c), NEW cmd
    PROVE  Command(c, cmd).mem = c.mem /\ Command(c, cmd).pmem = c.pmem /\ Command(c, cmd).ireg = c.ireg
<1> DEFINE e == Command(c, cmd)
<1>1. CASE c.asleep /\ cmd # "RES"
  BY <1>1 DEF Command
<1>2. CASE ~(c.asleep /\ cmd # "RES")
  <2>1. CASE cmd \in {"WRSR", "PP", "QPP", "BULK_ERASE", "SECTOR_ERASE"}
    BY <1>2, <2>1 DEF Command, IsChip
  <2>2. CASE cmd = "WRDI"
    BY <1>2, <2>2 DEF Command, IsChip
  <2>3. CASE cmd = "WREN"
    BY <1>2, <2>3 DEF Command, IsChip
  <2>4. CASE cmd = "RDSR"
    BY <1>2, <2>4 DEF Command, IsChip
  <2>5. CASE cmd \in {"RDID", "RDCR", "CLSR", "SLOW_READ", "FAST_READ"}
    BY <1>2, <2>5 DEF Command, IsChip
  <2>6. CASE cmd = "RES"
    BY <1>2, <2>6 DEF Command, IsChip
  <2>7. CASE cmd = "DP"
    BY <1>2, <2>7 DEF Command, IsChip
  <2>8. CASE cmd = "QUAD_IO_READ"
    BY <1>2, <2>8 DEF Command, IsChip
  <2>9. CASE cmd \in {"RESET", "EMPTY"}
    BY <1>2, <2>9 DEF Command, IsChip
  <2>10. CASE cmd \notin {"WRSR", "PP", "QPP", "BULK_ERASE", "SECTOR_ERASE", "WRDI", "WREN", "RDSR", "RDID", "RDCR", "CLSR",
                          "SLOW_READ", "FAST_READ", "RES", "DP", "QUAD_IO_READ", "RESET", "EMPTY"}
    BY <1>2, <2>10 DEF Command, IsChip
  <2> QED
    BY <2>1, <2>2, <2>3, <2>4, <2>5, <2>6, <2>7, <2>8, <2>9, <2>10
<1> QED
  BY <1>1, <1>2

(* A byte of a program command is put into the page buffer, which keeps its size. *)
LEMMA ProgramByteMem ==
    ASSUME NEW c, IsChip(c), NEW b
    PROVE  ProgramByte(c, b).mem = c.mem /\ DOMAIN ProgramByte(c, b).pmem = DOMAIN c.pmem /\ IsChip(ProgramByte(c, b))
<1>1. CASE c.n = 4
  BY <1>1 DEF ProgramByte, IsChip
<1>2. CASE c.n > 4
  BY <1>2 DEF ProgramByte, IsChip
<1>3. CASE ~(c.n = 4) /\ ~(c.n > 4)
  BY <1>3 DEF ProgramByte, IsChip
<1> QED
  BY <1>1, <1>2, <1>3

(* What follows a command leaves the array alone. *)
LEMMA FollowingMem ==
    ASSUME NEW c, IsChip(c), NEW b
    PROVE  FollowingByte(c, b).mem = c.mem /\ DOMAIN FollowingByte(c, b).pmem = DOMAIN c.pmem
<1>1. CASE c.state = "RDSR"
  BY <1>1 DEF FollowingByte, IsChip
<1>2. CASE c.state = "SLOW_READ"
  BY <1>2 DEF FollowingByte, ReadNext, IsChip
<1>3. CASE c.state = "FAST_READ"
  BY <1>3 DEF FollowingByte, ReadNext, IsChip
<1>4. CASE c.state = "SECTOR_ERASE"
  BY <1>4 DEF FollowingByte, IsChip
<1>5. CASE c.state = "QUAD_READ_CMD"
  <2>1. FollowingByte(c, b) = IF c.n = 4 THEN [c EXCEPT !.addr = AddressIn(c.ireg)]
                              ELSE IF c.n = 5 THEN [c EXCEPT !.keep = (b = ModeByte)]
                              ELSE IF c.n >= 8 THEN ReadNext(c) ELSE c
    BY <1>5 DEF FollowingByte, ReadByte, FirstData
  <2> QED
    BY <2>1 DEF ReadNext, IsChip
<1>6. CASE c.state = "QUAD_READ"
  <2>1. FollowingByte(c, b) = IF c.n = 4 THEN [c EXCEPT !.keep = (b = ModeByte)]
                              ELSE IF c.n >= 6 THEN ReadNext(c) ELSE c
    BY <1>6 DEF FollowingByte, ReadByte, FirstData
  <2> QED
    BY <2>1 DEF ReadNext, IsChip
<1>7. CASE c.state = "PP"
  BY <1>7, ProgramByteMem DEF FollowingByte
<1>8. CASE c.state = "QPP"
  <2>1. FollowingByte(c, b) = [ProgramByte(c, b) EXCEPT !.mode = IF c.n = 4 THEN "QSPI" ELSE @]
    BY <1>8 DEF FollowingByte
  <2> QED
    BY <2>1, ProgramByteMem DEF IsChip
<1>9. CASE c.state \notin {"RDSR", "SLOW_READ", "FAST_READ", "SECTOR_ERASE", "QUAD_READ_CMD", "QUAD_READ", "PP", "QPP"}
  BY <1>9 DEF FollowingByte
<1> QED
  BY <1>1, <1>2, <1>3, <1>4, <1>5, <1>6, <1>7, <1>8, <1>9

(* The contents of a chip: the array, and the size of its page buffer. *)
SameMem(e, c) == e.mem = c.mem /\ DOMAIN e.pmem = DOMAIN c.pmem

(* A byte received leaves the array alone. *)
LEMMA ReceiveMem ==
    ASSUME NEW c, IsChip(c), NEW b
    PROVE  SameMem(Receive(c, b), c)
<1> DEFINE d == Counted(c, b)
<1>1. IsChip(d) /\ SameMem(d, c)
  BY DEF Counted, IsChip, SameMem
<1>2. Receive(c, b) = IF d.state = "QUAD_READ_IDLE"
              THEN IF d.n = 3 THEN [d EXCEPT !.addr = AddressIn(d.ireg), !.state = "QUAD_READ"] ELSE d
              ELSE IF d.n = 1 THEN Command(d, IF b[1] = "cmd" THEN b[2] ELSE "unknown")
              ELSE FollowingByte(d, b)
  BY ReceiveIs
<1> HIDE DEF d
<1>3. SameMem([d EXCEPT !.addr = AddressIn(d.ireg), !.state = "QUAD_READ"], d) /\ SameMem(d, d)
  BY <1>1 DEF IsChip, SameMem
<1>4. SameMem(Command(d, IF b[1] = "cmd" THEN b[2] ELSE "unknown"), d) /\ SameMem(FollowingByte(d, b), d)
  BY <1>1, CommandMem, FollowingMem DEF SameMem
<1>5. SameMem(Receive(c, b), d)
  BY <1>2, <1>3, <1>4
<1> QED
  BY <1>1, <1>5 DEF SameMem

(* So does one sent on one wire. *)
LEMMA SlowMem ==
    ASSUME NEW c, Sane(c), NEW b
    PROVE  SameMem(ReceiveSlow(c, b), c)
<1>1. CASE c.mode = "SPI"
  <2>1. ReceiveSlow(c, b) = Receive(c, b) /\ IsChip(c)
    BY <1>1 DEF ReceiveSlow, Sane
  <2> QED
    BY <2>1, ReceiveMem
<1>2. CASE c.mode = "QSPI"
  <2>1. PICK c1, c2, c3, c4 : c1 = Receive(c, Junk) /\ c2 = Receive(c1, Junk) /\ c3 = Receive(c2, Junk) /\ c4 = Receive(c3, Junk)
    OBVIOUS
  <2>2. ReceiveSlow(c, b) = c4
    BY <1>2, <2>1, SlowQuad
  <2>3. Sane(c1) /\ c1.mode = "QSPI"
    BY <1>2, <2>1, ReceiveQuad
  <2>4. Sane(c2) /\ c2.mode = "QSPI"
    BY <2>1, <2>3, ReceiveQuad
  <2>5. Sane(c3)
    BY <2>1, <2>4, ReceiveQuad
  <2>6. SameMem(c1, c) /\ SameMem(c2, c1) /\ SameMem(c3, c2) /\ SameMem(c4, c3)
    BY <2>1, <2>3, <2>4, <2>5, ReceiveMem DEF Sane
  <2> QED
    BY <2>2, <2>6 DEF SameMem
<1> QED
  BY <1>1, <1>2 DEF Sane

(* Chip select rises: what is burnt, and where. *)
LEMMA DeselectMem ==
    ASSUME NEW c, Sane(c)
    PROVE  /\ IsChip(Deselect(c)) /\ DOMAIN Deselect(c).pmem = DOMAIN c.pmem
           /\ Deselect(c).state \notin Burning /\ Deselect(c).n = 0 /\ Deselect(c).ireg = <<>>
           /\ c.state \notin Burning => Deselect(c).mem = c.mem
           /\ c.mem \in [Offsets -> Byte] =>
                /\ Deselect(c).mem \in [Offsets -> Byte]
                /\ c.state = "SECTOR_ERASE" => \A i \in Offsets :
                     Deselect(c).mem[i] = IF SECTOROF(i) = SECTOROF(c.addr) THEN Erased ELSE c.mem[i]
                /\ c.state = "PP" => \A i \in Offsets :
                     Deselect(c).mem[i] = IF PAGEOF(i) = PAGEOF(c.addr) THEN c.mem[i] \cap c.pmem[i % PGLENB] ELSE c.mem[i]
<1> DEFINE d == [c EXCEPT !.n = 0, !.ireg = <<>>, !.out = Junk]
<1>1. /\ IsChip(d) /\ d.n = 0 /\ d.ireg = <<>> /\ d.state = c.state /\ d.mode = c.mode /\ d.mem = c.mem
      /\ d.pmem = c.pmem /\ d.addr = c.addr /\ d.keep = c.keep
  BY DEF Sane, IsChip
<1>d. d = [c EXCEPT !.n = 0, !.ireg = <<>>, !.out = Junk]
  OBVIOUS
<1> DEFINE e == Deselect(c)
           f == Busy(d)
<1> HIDE DEF d
<1>f. /\ IsChip(f) /\ f.n = 0 /\ f.ireg = <<>> /\ f.state = "IDLE" /\ f.mem = c.mem /\ f.pmem = c.pmem
  BY <1>1 DEF Busy, IsChip
<1> HIDE DEF f
<1>e. e = Deselect(c)
  OBVIOUS
<1>3. CASE c.state = "PP"
  <2> DEFINE m == [i \in Offsets |-> IF PAGEOF(i) = PAGEOF(d.addr) THEN d.mem[i] \cap d.pmem[i % PGLENB] ELSE d.mem[i]]
  <2>1. e = [f EXCEPT !.mode = "SPI", !.mem = m]
    BY <1>3, <1>d DEF Deselect, f, ProgramPage
  <2>m. /\ DOMAIN m = Offsets /\ m = [i \in Offsets |-> m[i]]
        /\ \A i \in Offsets : m[i] = IF PAGEOF(i) = PAGEOF(c.addr) THEN c.mem[i] \cap c.pmem[i % PGLENB] ELSE c.mem[i]
    BY <1>1
  <2> HIDE DEF e, m
  <2>2. IsChip(e) /\ e.state = "IDLE" /\ e.n = 0 /\ e.ireg = <<>> /\ e.pmem = c.pmem /\ e.mem = m
    BY <1>f, <2>1 DEF IsChip
  <2>3. c.mem \in [Offsets -> Byte] => m \in [Offsets -> Byte]
    <3>1. SUFFICES ASSUME c.mem \in [Offsets -> Byte], NEW i \in Offsets PROVE m[i] \in Byte
      BY <2>m
    <3>2. c.mem[i] \in SUBSET Bits
      BY <3>1 DEF Byte
    <3>3. m[i] \in SUBSET Bits
      BY <2>m, <3>2
    <3> QED
      BY <3>3 DEF Byte
  <2> QED
    BY <1>3, <1>e, <2>m, <2>2, <2>3 DEF Burning
<1>4. CASE c.state = "SECTOR_ERASE"
  <2> DEFINE m == [i \in Offsets |-> IF SECTOROF(i) = SECTOROF(d.addr) THEN Erased ELSE d.mem[i]]
  <2>1. e = [f EXCEPT !.addr = SECTOROF(d.addr), !.mem = m]
    BY <1>4, <1>d DEF Deselect, f, EraseSector
  <2>m. /\ DOMAIN m = Offsets /\ m = [i \in Offsets |-> m[i]]
        /\ \A i \in Offsets : m[i] = IF SECTOROF(i) = SECTOROF(c.addr) THEN Erased ELSE c.mem[i]
    BY <1>1
  <2> HIDE DEF e, m
  <2>2. IsChip(e) /\ e.state = "IDLE" /\ e.n = 0 /\ e.ireg = <<>> /\ e.pmem = c.pmem /\ e.mem = m
    BY <1>f, <2>1 DEF IsChip
  <2>3. c.mem \in [Offsets -> Byte] => m \in [Offsets -> Byte]
    BY <2>m DEF Byte, Erased
  <2> QED
    BY <1>4, <1>e, <2>m, <2>2, <2>3 DEF Burning
<1>5. CASE c.state = "WRSR"
  <2>1. e = f
    BY <1>5, <1>d DEF Deselect, f
  <2> QED
    BY <1>5, <1>e, <1>f, <2>1 DEF Burning
<1>6. CASE c.state = "BULK_ERASE"
  <2> DEFINE m == [i \in Offsets |-> Erased]
  <2>1. e = [f EXCEPT !.mem = m]
    BY <1>6, <1>d DEF Deselect, f
  <2>3. m \in [Offsets -> Byte]
    BY DEF Byte, Erased
  <2> HIDE DEF e, m
  <2>2. IsChip(e) /\ e.state = "IDLE" /\ e.n = 0 /\ e.ireg = <<>> /\ e.pmem = c.pmem /\ e.mem = m
    BY <1>f, <2>1 DEF IsChip
  <2> QED
    BY <1>6, <1>e, <2>2, <2>3 DEF Burning
<1>7. CASE c.state \in {"CLSR", "RELEASE"}
  <2>1. e = [d EXCEPT !.state = "IDLE"]
    BY <1>7, <1>d DEF Deselect, f
  <2> HIDE DEF e
  <2>2. IsChip(e) /\ e.state = "IDLE" /\ e.n = 0 /\ e.ireg = <<>> /\ e.pmem = c.pmem /\ e.mem = c.mem
    BY <1>1, <2>1 DEF IsChip
  <2> QED
    BY <1>7, <1>e, <2>2 DEF Burning
<1>8. CASE c.state \in {"QUAD_READ_CMD", "QUAD_READ"}
  <2>1. e = IF d.keep THEN [d EXCEPT !.state = "QUAD_READ_IDLE"] ELSE [d EXCEPT !.mode = "SPI"]
    BY <1>8, <1>d DEF Deselect, f, EndRead
  <2> HIDE DEF e
  <2>2. IsChip(e) /\ e.state \in {"QUAD_READ_IDLE", c.state} /\ e.n = 0 /\ e.ireg = <<>> /\ e.pmem = c.pmem /\ e.mem = c.mem
    BY <1>1, <2>1 DEF IsChip
  <2> QED
    BY <1>8, <1>e, <2>2 DEF Burning
<1>9. CASE c.state \notin {"PP", "QPP", "SECTOR_ERASE", "WRSR", "BULK_ERASE", "CLSR", "RELEASE", "QUAD_READ_CMD", "QUAD_READ"}
  <2>1. e = d
    BY <1>9, <1>d DEF Deselect, f
  <2>2. c.state \notin Burning
    BY <1>9 DEF Burning
  <2> QED
    BY <1>1, <1>9, <1>e, <2>1, <2>2
<1>10. c.state # "QPP"
  BY DEF Sane
<1> QED
  BY <1>3, <1>4, <1>5, <1>6, <1>7, <1>8, <1>9, <1>10

(* A write to the port that burns nothing. *)
LEMMA SentMem ==
    ASSUME NEW w \in Ops, NEW c, Sane(c), w.op \in {"end", "leave"} => c.state \notin Burning
    PROVE  SameMem(Sent(w, c), c)
<1>1. CASE w.op \in {"end", "leave"}
  <2>1. Sent(w, c) = Deselect(c)
    BY <1>1 DEF Sent
  <2> QED
    BY <1>1, <2>1, DeselectMem DEF SameMem
<1>2. CASE w.op = "slow"
  <2>1. Sent(w, c) = ReceiveSlow(c, w.b)
    BY <1>2 DEF Sent
  <2> QED
    BY <2>1, SlowMem
<1>3. CASE w.op \notin {"end", "leave", "slow"}
  <2>1. Sent(w, c) = Receive(c, w.b)
    BY <1>3 DEF Sent
  <2> QED
    BY <2>1, ReceiveMem DEF Sane
<1> QED
  BY <1>1, <1>2, <1>3

(* Whatever is written, the array stays one of bytes. *)
LEMMA SentArray ==
    ASSUME NEW w \in Ops, NEW c, Sane(c), c.mem \in [Offsets -> Byte]
    PROVE  Sent(w, c).mem \in [Offsets -> Byte] /\ DOMAIN Sent(w, c).pmem = DOMAIN c.pmem
<1>1. CASE w.op \in {"end", "leave"}
  <2>1. Sent(w, c) = Deselect(c)
    BY <1>1 DEF Sent
  <2> QED
    BY <2>1, DeselectMem
<1>2. CASE w.op \notin {"end", "leave"}
  <2>1. SameMem(Sent(w, c), c)
    BY <1>2, SentMem
  <2> QED
    BY <2>1 DEF SameMem
<1> QED
  BY <1>1, <1>2

(* Short sequences, from their elements. *)
LEMMA Tuples ==
    ASSUME NEW S, NEW s \in Seq(S)
    PROVE  /\ \A x \in S : Len(s) = 1 /\ s[1] = x => s = <<x>>
           /\ \A x, y \in S : Len(s) = 2 /\ s[1] = x /\ s[2] = y => s = <<x, y>>
           /\ \A x, y, z \in S : Len(s) = 3 /\ s[1] = x /\ s[2] = y /\ s[3] = z => s = <<x, y, z>>
<1>1. ASSUME NEW x \in S, Len(s) = 1, s[1] = x PROVE s = <<x>>
  BY <1>1, SeqEqual
<1>2. ASSUME NEW x \in S, NEW y \in S, Len(s) = 2, s[1] = x, s[2] = y PROVE s = <<x, y>>
  <2>1. <<x, y>> \in Seq(S) /\ Len(<<x, y>>) = 2 /\ <<x, y>>[1] = x /\ <<x, y>>[2] = y
    OBVIOUS
  <2>2. \A i \in 1..2 : s[i] = <<x, y>>[i]
    BY <1>2, <2>1
  <2> QED
    BY <1>2, <2>1, <2>2, SeqEqual
<1>3. ASSUME NEW x \in S, NEW y \in S, NEW z \in S, Len(s) = 3, s[1] = x, s[2] = y, s[3] = z PROVE s = <<x, y, z>>
  <2> DEFINE t == <<x, y, z>>
  <2>1. t \in Seq(S) /\ Len(t) = 3 /\ t[1] = x /\ t[2] = y /\ t[3] = z
    OBVIOUS
  <2> HIDE DEF t
  <2>2. \A i \in 1..3 : s[i] = t[i]
    BY <1>3, <2>1
  <2>3. s = t
    BY <1>3, <2>1, <2>2, SeqEqual
  <2> QED
    BY <2>3 DEF t
<1> QED
  BY <1>1, <1>2, <1>3

(* The last three bytes of a sequence with one more. *)
LastThree(s) == SubSeq(s, Len(s) - (IF Len(s) < 3 THEN Len(s) - 1 ELSE 2), Len(s))
Slides(S, s, b) ==
    LET t == LastThree(Append(s, b)) IN
    /\ t \in Seq(S)
    /\ Len(s) < 3 => Len(t) = Len(s) + 1 /\ (\A i \in 1..Len(s) : t[i] = s[i]) /\ t[Len(s) + 1] = b
    /\ Len(s) = 3 => Len(t) = 3 /\ t[1] = s[2] /\ t[2] = s[3] /\ t[3] = b
(* The three bytes kept of a command slide on. *)
LEMMA Lasts == ASSUME NEW S, NEW s \in Seq(S), NEW b \in S PROVE Slides(S, s, b)
<1> DEFINE r == Append(s, b)
           n == Len(r)
           m == n - (IF n < 3 THEN n - 1 ELSE 2)
           t == SubSeq(r, m, n)
<1>1. r \in Seq(S) /\ Len(s) \in Nat /\ n = Len(s) + 1 /\ (\A i \in 1..Len(s) : r[i] = s[i]) /\ r[Len(s) + 1] = b
  BY AppendProperties
<1>2. n \in Nat \ {0}
  BY <1>1
<1>3. LastThree(r) = t
  BY DEF LastThree
<1> HIDE DEF r, n
<1>4. m \in 1..n
  BY <1>2
<1>5. \A i \in m..n : r[i] \in S
  BY <1>1, <1>2, <1>4 DEF n
<1> HIDE DEF m
<1>6. t \in Seq(S) /\ Len(t) = n - m + 1 /\ \A i \in 1..(n - m + 1) : t[i] = r[m + i - 1]
  BY <1>2, <1>4, <1>5, SubSeqProperties
<1> HIDE DEF t
<1>7. Len(s) < 3 => Len(t) = Len(s) + 1 /\ (\A i \in 1..Len(s) : t[i] = s[i]) /\ t[Len(s) + 1] = b
  <2> SUFFICES ASSUME Len(s) < 3 PROVE Len(t) = Len(s) + 1 /\ (\A i \in 1..Len(s) : t[i] = s[i]) /\ t[Len(s) + 1] = b
    OBVIOUS
  <2>1. m = 1
    BY <1>1, <1>2 DEF m
  <2>2. Len(t) = n /\ \A i \in 1..n : t[i] = r[i]
    BY <1>2, <1>6, <2>1
  <2> QED
    BY <1>1, <2>2
<1>8. Len(s) = 3 => Len(t) = 3 /\ t[1] = s[2] /\ t[2] = s[3] /\ t[3] = b
  <2> SUFFICES ASSUME Len(s) = 3 PROVE Len(t) = 3 /\ t[1] = s[2] /\ t[2] = s[3] /\ t[3] = b
    OBVIOUS
  <2>1. m = 2 /\ n = 4
    BY <1>1, <1>2 DEF m
  <2>2. Len(t) = 3 /\ t[1] = r[2] /\ t[2] = r[3] /\ t[3] = r[4]
    BY <1>6, <2>1
  <2> QED
    BY <1>1, <2>2
<1> QED
  BY <1>3, <1>6, <1>7, <1>8 DEF r, Slides

(* The last bytes of a selection. *)
LEMMA Sliding ==
    ASSUME NEW c, IsChip(c), NEW b
    PROVE  /\ c.ireg = <<>> => Counted(c, b).ireg = <<b>>
           /\ \A x : c.ireg = <<x>> => Counted(c, b).ireg = <<x, b>>
           /\ \A x, y : c.ireg = <<x, y>> => Counted(c, b).ireg = <<x, y, b>>
           /\ \A x, y, z : c.ireg = <<x, y, z>> => Counted(c, b).ireg = <<y, z, b>>
<1> DEFINE t == Counted(c, b).ireg
<1>1. t = LastThree(Append(c.ireg, b))
  BY DEF Counted, IsChip, LastThree
<1> HIDE DEF t
<1>2. ASSUME c.ireg = <<>> PROVE t = <<b>>
  <2> DEFINE s == <<>>
             S == {b}
  <2>1. s \in Seq(S) /\ Len(s) = 0 /\ b \in S
    OBVIOUS
  <2> HIDE DEF s
  <2>2. t = LastThree(Append(s, b))
    BY <1>1, <1>2 DEF s
  <2> HIDE DEF S
  <2>u. Slides(S, s, b)
    BY <2>1, Lasts, Zenon
  <2>3. t \in Seq(S) /\ Len(t) = 1 /\ t[1] = b
    BY <2>1, <2>2, <2>u DEF Slides
  <2> QED
    BY <2>1, <2>3, Tuples
<1>3. ASSUME NEW x, c.ireg = <<x>> PROVE t = <<x, b>>
  <2> DEFINE s == <<x>>
             S == {x, b}
  <2>1. s \in Seq(S) /\ Len(s) = 1 /\ s[1] = x /\ b \in S /\ x \in S
    OBVIOUS
  <2> HIDE DEF s
  <2>2. t = LastThree(Append(s, b))
    BY <1>1, <1>3 DEF s
  <2> HIDE DEF S
  <2>u. Slides(S, s, b)
    BY <2>1, Lasts, Zenon
  <2>t. t \in Seq(S) /\ Len(t) = 2 /\ (\A i \in 1..1 : t[i] = s[i]) /\ t[2] = b
    BY <2>1, <2>2, <2>u DEF Slides
  <2>3. t \in Seq(S) /\ Len(t) = 2 /\ t[1] = x /\ t[2] = b
    BY <2>1, <2>t
  <2> QED
    BY <2>1, <2>3, Tuples
<1>4. ASSUME NEW x, NEW y, c.ireg = <<x, y>> PROVE t = <<x, y, b>>
  <2> DEFINE s == <<x, y>>
             S == {x, y, b}
  <2>1. s \in Seq(S) /\ Len(s) = 2 /\ s[1] = x /\ s[2] = y /\ b \in S /\ x \in S /\ y \in S
    OBVIOUS
  <2> HIDE DEF s
  <2>2. t = LastThree(Append(s, b))
    BY <1>1, <1>4 DEF s
  <2> HIDE DEF S
  <2>u. Slides(S, s, b)
    BY <2>1, Lasts, Zenon
  <2>t. t \in Seq(S) /\ Len(t) = 3 /\ (\A i \in 1..2 : t[i] = s[i]) /\ t[3] = b
    BY <2>1, <2>2, <2>u DEF Slides
  <2>3. t \in Seq(S) /\ Len(t) = 3 /\ t[1] = x /\ t[2] = y /\ t[3] = b
    BY <2>1, <2>t
  <2> QED
    BY <2>1, <2>3, Tuples
<1>5. ASSUME NEW x, NEW y, NEW z, c.ireg = <<x, y, z>> PROVE t = <<y, z, b>>
  <2> DEFINE s == <<x, y, z>>
             S == {x, y, z, b}
  <2>1. s \in Seq(S) /\ Len(s) = 3 /\ s[2] = y /\ s[3] = z /\ b \in S /\ y \in S /\ z \in S
    OBVIOUS
  <2> HIDE DEF s
  <2>2. t = LastThree(Append(s, b))
    BY <1>1, <1>5 DEF s
  <2> HIDE DEF S
  <2>t. Slides(S, s, b)
    BY <2>1, Lasts, Zenon
  <2>3. t \in Seq(S) /\ Len(t) = 3 /\ t[1] = y /\ t[2] = z /\ t[3] = b
    BY <2>1, <2>2, <2>t DEF Slides
  <2> QED
    BY <2>1, <2>3, Tuples
<1> QED
  BY <1>2, <1>3, <1>4, <1>5 DEF t

(* A later byte of a command that burns, on one wire. *)
BurnsByte(c, b, cmd) ==
    LET e == ReceiveSlow(c, b)
        d == Counted(c, b)
        x == PAGEOF(c.addr) + ((c.addr + 1) % PGLENB)
    IN
    /\ IsChip(d) /\ e.state = c.state /\ e.n = (IF c.n < 8 THEN c.n + 1 ELSE 8) /\ e.ireg = d.ireg
    /\ c.n = 3 /\ c.state = cmd => e.addr = AddressIn(d.ireg)
    /\ c.n = 3 /\ c.state = "PP" => e.pmem = [i \in DOMAIN c.pmem |-> Erased]
    /\ c.n > 3 /\ c.state = "PP" =>
         e.addr = x /\ e.pmem = [c.pmem EXCEPT ![c.addr % PGLENB] = IF b[1] = "dat" THEN b[2] ELSE Erased]
(* A byte of data, after the address, goes to the page buffer at the address, which goes up by one in its page. *)
LEMMA BurnByte ==
    ASSUME NEW c, Offline(c), c.n \in 1..8, NEW b, NEW cmd \in {"SECTOR_ERASE", "PP"}, c.state \in {cmd, "INVALID"}
    PROVE  BurnsByte(c, b, cmd)
<1> DEFINE d == Counted(c, b)
           e == ReceiveSlow(c, b)
<1>1. Sane(c) /\ c.mode = "SPI" /\ IsChip(c)
  BY DEF Offline, Sane
<1>2. /\ IsChip(d) /\ d.n = (IF c.n < 8 THEN c.n + 1 ELSE 8) /\ d.state = c.state /\ d.addr = c.addr /\ d.pmem = c.pmem
  <2>1. d.addr = c.addr /\ d.pmem = c.pmem
    BY <1>1 DEF Counted, IsChip
  <2> QED
    BY <1>1, <2>1, CountedIs
<1>3. e = Receive(c, b)
  BY <1>1 DEF ReceiveSlow
<1>4. d.n \in 2..8 /\ (c.n = 3 <=> d.n = 4) /\ (c.n > 3 <=> d.n > 4)
  BY <1>2
<1>5. e = FollowingByte(d, b)
  <2>1. d.state # "QUAD_READ_IDLE" /\ d.n # 1
    BY <1>2, <1>4
  <2> HIDE DEF BurnsByte, d, e
  <2>2. Receive(c, b) = LET y == d IN
              IF y.state = "QUAD_READ_IDLE"
              THEN IF y.n = 3 THEN [y EXCEPT !.addr = AddressIn(y.ireg), !.state = "QUAD_READ"] ELSE y
              ELSE IF y.n = 1 THEN Command(y, IF b[1] = "cmd" THEN b[2] ELSE "unknown")
              ELSE FollowingByte(y, b)
    BY ReceiveIs, Zenon DEF d
  <2> QED
    BY <1>3, <2>1, <2>2
<1> HIDE DEF BurnsByte, d, e
<1>6. CASE c.state = "INVALID"
  <2>1. e = d
    BY <1>2, <1>5, <1>6 DEF FollowingByte
  <2> QED
    BY <1>2, <1>6, <2>1 DEF BurnsByte, d, e
<1>7. CASE c.state = "SECTOR_ERASE"
  <2>1. e = IF d.n = 4 THEN [d EXCEPT !.addr = AddressIn(d.ireg)] ELSE d
    BY <1>2, <1>5, <1>7 DEF FollowingByte
  <2>2. e.state = d.state /\ e.n = d.n /\ e.ireg = d.ireg /\ (d.n = 4 => e.addr = AddressIn(d.ireg))
    BY <1>2, <2>1 DEF IsChip
  <2> QED
    BY <1>2, <1>4, <1>7, <2>2 DEF BurnsByte, d, e
<1>8. CASE c.state = "PP"
  <2>1. e = ProgramByte(d, b)
    BY <1>2, <1>5, <1>8 DEF FollowingByte
  <2>2. CASE d.n = 4
    <3>1. e = [d EXCEPT !.addr = AddressIn(d.ireg), !.pmem = [i \in DOMAIN d.pmem |-> Erased]]
      BY <2>1, <2>2 DEF ProgramByte
    <3>2. e.state = d.state /\ e.n = d.n /\ e.ireg = d.ireg /\ e.addr = AddressIn(d.ireg) /\ e.pmem = [i \in DOMAIN d.pmem |-> Erased]
      BY <1>2, <3>1 DEF IsChip
    <3> QED
      BY <1>2, <1>4, <1>8, <2>2, <3>2 DEF BurnsByte, d, e
  <2>3. CASE d.n > 4
    <3> DEFINE v == IF b[1] = "dat" THEN b[2] ELSE Erased
               q == [d.pmem EXCEPT ![d.addr % PGLENB] = v]
    <3>1. e = [d EXCEPT !.pmem = q, !.addr = PAGEOF(d.addr) + ((d.addr + 1) % PGLENB)]
      BY <1>2, <2>1, <2>3 DEF ProgramByte, IsChip
    <3>2. q = [c.pmem EXCEPT ![c.addr % PGLENB] = v]
      BY <1>2
    <3> HIDE DEF q
    <3>3. e.state = d.state /\ e.n = d.n /\ e.ireg = d.ireg /\ e.addr = PAGEOF(d.addr) + ((d.addr + 1) % PGLENB) /\ e.pmem = q
      BY <1>2, <3>1 DEF IsChip
    <3> QED
      BY <1>2, <1>4, <1>8, <2>3, <3>2, <3>3 DEF BurnsByte, d, e
  <2>4. CASE d.n \in 2..3
    <3>1. e = d
      BY <1>4, <2>1, <2>4 DEF ProgramByte
    <3> QED
      BY <1>2, <1>4, <1>8, <2>4, <3>1 DEF BurnsByte, d, e
  <2> QED
    BY <1>4, <2>2, <2>3, <2>4
<1> QED
  BY <1>6, <1>7, <1>8

(* The three digits make the address. *)
LEMMA AddressBack ==
    ASSUME NEW a \in Int
    PROVE  LET b == AddressBytes(a) IN AddressIn(<<b[1], b[2], b[3]>>) = a
<1> DEFINE x == a \div SECTORSZB
           y == (a \div PGLENB) % NPAGES
           z == a % PGLENB
           s == <<Adr(x), Adr(y), Adr(z)>>
<1>1. AddressBytes(a)[1] = Adr(x) /\ AddressBytes(a)[2] = Adr(y) /\ AddressBytes(a)[3] = Adr(z)
  BY DEF AddressBytes
<1>2. x * SECTORSZB + y * PGLENB + z = a
  <2>1. NPAGES \in Nat /\ NPAGES > 0 /\ PGLENB \in Nat /\ PGLENB > 0
    BY FlashAssumption
  <2> QED
    BY <2>1, Digits DEF SECTORSZB
<1> HIDE DEF x, y, z
<1>3. DOMAIN s = 1..3 /\ s[1] = Adr(x) /\ s[2] = Adr(y) /\ s[3] = Adr(z)
  OBVIOUS
<1>4. \A i \in DOMAIN s : s[i][1] = "adr"
  BY DEF Adr
<1>5. AddressIn(s) = s[1][2] * SECTORSZB + s[2][2] * PGLENB + s[3][2]
  <2> HIDE DEF s
  <2> QED
    BY <1>4 DEF AddressIn
<1>6. s[1][2] = x /\ s[2][2] = y /\ s[3][2] = z
  BY DEF Adr
<1>7. AddressIn(s) = a
  BY <1>2, <1>5, <1>6
<1> QED
  BY <1>1, <1>7

(* A multiple of P and what follows it, up to the next. *)
LEMMA Block ==
    ASSUME NEW P \in Nat, P > 0, NEW m \in Int, m % P = 0, NEW x \in Int, m <= x, x < m + P
    PROVE  x % P = x - m /\ x - (x % P) = m
<1>1. x - m \in Int /\ 0 <= x - m /\ x - m < P
  OBVIOUS
<1>2. (m + (x - m)) % P = x - m
  BY <1>1, Beyond
<1>3. m + (x - m) = x
  OBVIOUS
<1>4. x % P = x - m
  BY <1>2, <1>3
<1> QED
  BY <1>4

(* The multiple below a number. *)
LEMMA BlockOfNumber ==
    ASSUME NEW P \in Nat, P > 0, NEW x \in Int
    PROVE  /\ x - (x % P) \in Int /\ (x - (x % P)) % P = 0 /\ x - (x % P) <= x /\ x < x - (x % P) + P
           /\ (x + P) - ((x + P) % P) = x - (x % P) + P
<1> DEFINE m == x - (x % P)
<1>1. x % P \in 0..(P - 1) /\ x \div P \in Int /\ x = P * (x \div P) + (x % P)
  BY Divides
<1>2. P * (x \div P) \in Int /\ (P * (x \div P)) % P = 0
  BY <1>1, IsMultiple
<1>3. m \in Int /\ m = P * (x \div P) /\ m <= x /\ x < m + P
  BY <1>1, <1>2
<1> HIDE DEF m
<1>4. m % P = 0
  BY <1>2, <1>3
<1>5. 0 \in Int /\ 0 <= 0 /\ 0 < P
  OBVIOUS
<1>6. (m + P) % P = 0
  BY <1>3, <1>4, <1>5, Beyond
<1>7. m + P \in Int /\ x + P \in Int /\ m + P <= x + P /\ x + P < (m + P) + P
  BY <1>3
<1>8. (x + P) - ((x + P) % P) = m + P
  BY <1>6, <1>7, Block
<1> QED
  BY <1>3, <1>4, <1>8 DEF m

(* Pages and sectors. *)
PageOf(x) == /\ PAGEOF(x) \in Int /\ PAGEOF(x) % PGLENB = 0 /\ PAGEOF(x) <= x /\ x < PAGEOF(x) + PGLENB
             /\ PAGEOF(x + PGLENB) = PAGEOF(x) + PGLENB /\ x % PGLENB = x - PAGEOF(x)
(* Of any address that holds. *)
LEMMA Pages == ASSUME NEW x \in Int PROVE PageOf(x)
<1>1. PGLENB \in Nat /\ PGLENB > 0
  BY FlashSizes
<1>2. x % PGLENB \in Int
  BY <1>1, Divides
<1>3. x % PGLENB = x - (x - (x % PGLENB))
  BY <1>2
<1> QED
  BY <1>1, <1>3, BlockOfNumber DEF PageOf, PAGEOF

InPage(m, x) == PAGEOF(x) = m /\ x % PGLENB = x - m
(* The bytes from the start of a page up to the next are in it. *)
LEMMA PageBytes == ASSUME NEW m \in Int, NEW x \in Int, m % PGLENB = 0, m <= x, x < m + PGLENB PROVE InPage(m, x)
<1>1. PGLENB \in Nat /\ PGLENB > 0
  BY FlashSizes
<1> QED
  BY <1>1, Block DEF InPage, PAGEOF

SectorOf(x) == /\ SECTOROF(x) \in Int /\ SECTOROF(x) % SECTORSZB = 0 /\ SECTOROF(x) <= x /\ x < SECTOROF(x) + SECTORSZB
               /\ SECTOROF(x + SECTORSZB) = SECTOROF(x) + SECTORSZB
(* Of any address that holds. *)
LEMMA Sectors == ASSUME NEW x \in Int PROVE SectorOf(x)
<1>1. SECTORSZB \in Nat /\ SECTORSZB > 0
  BY FlashSizes
<1> QED
  BY <1>1, BlockOfNumber DEF SectorOf, SECTOROF

(* The bytes from the start of a sector up to the next are in it. *)
LEMMA SectorBytes ==
    ASSUME NEW m \in Int, NEW x \in Int, m % SECTORSZB = 0, m <= x, x < m + SECTORSZB PROVE SECTOROF(x) = m
<1>1. SECTORSZB \in Nat /\ SECTORSZB > 0
  BY FlashSizes
<1> QED
  BY <1>1, Block DEF SECTOROF

(* The k-th write of an erase, or of a program of len bytes at a. *)
PlanOp(k, cmd, a, len) ==
    IF k \in 2..7 THEN F("RESET") ELSE IF k = 10 THEN F("WREN") ELSE IF k = 12 THEN F(cmd)
    ELSE IF k \in 13..15 THEN Slow(AddressBytes(a)[k - 12])
    ELSE IF k \in 16..(15 + len) THEN Slow(Dat(fbuf[a + (k - 16)]))
    ELSE IF k = 18 + len THEN F("RDSR") ELSE F_END

(* The first m writes of it. *)
Commanded(p, m, cmd, a, len) ==
    p \in Seq(Ops) /\ Len(p) = m /\ \A k \in 1..m : p[k] = PlanOp(k, cmd, a, len)

(* One list of writes behind another. *)
Follows(s, t, r) ==
    /\ r \in Seq(Ops) /\ Len(r) = Len(s) + Len(t)
    /\ \A i \in 1..Len(s) : r[i] = s[i]
    /\ \A i \in Int : i > Len(s) /\ i <= Len(s) + Len(t) => r[i] = t[i - Len(s)]
(* Concatenation does that. *)
LEMMA FollowsIs == ASSUME NEW s \in Seq(Ops), NEW t \in Seq(Ops) PROVE Follows(s, t, s \o t)
BY Joined DEF Follows

(* A plan is what its writes are. *)
LEMMA PrefixIs ==
    ASSUME NEW c \in {"SECTOR_ERASE", "PP"}, NEW a \in Int, NEW len \in Nat
    PROVE  Commanded(take_offline \o WriteEnable \o <<F(c)>> \o Slowly(AddressBytes(a)), 15, c, a, len)
<1> DEFINE o == take_offline
           e == WriteEnable
           f == <<F(c)>>
           g == Slowly(AddressBytes(a))
           p1 == o \o e
           p2 == p1 \o f
           p == p2 \o g
<1>1. o \in Seq(Ops) /\ Len(o) = 8 /\ o[1] = F_END /\ (\A i \in 2..7 : o[i] = F("RESET")) /\ o[8] = F_END
  BY OfflinePlan DEF Starts
<1>2. e \in Seq(Ops) /\ Len(e) = 3 /\ e[1] = F_END /\ e[2] = F("WREN") /\ e[3] = F_END
  BY PlainCommands DEF WriteEnable
<1>3. f \in Seq(Ops) /\ Len(f) = 1 /\ f[1] = F(c)
  BY PlainCommands
<1>4. g \in Seq(Ops) /\ Len(g) = 3 /\ \A i \in 1..3 : g[i] = Slow(AddressBytes(a)[i])
  <2>1. g = [i \in 1..3 |-> Slow(AddressBytes(a)[i])]
    BY DEF Slowly, AddressBytes
  <2> QED
    BY <2>1, Address
<1> HIDE DEF o, e, f, g
<1>5. /\ p1 \in Seq(Ops) /\ Len(p1) = 11 /\ \A i \in 1..8 : p1[i] = o[i]
      /\ \A i \in Int : i > 8 /\ i <= 11 => p1[i] = e[i - 8]
  <2>1. Follows(o, e, p1)
    BY <1>1, <1>2, FollowsIs, Zenon
  <2> HIDE DEF p1
  <2> QED
    BY <1>1, <1>2, <2>1 DEF Follows
<1> HIDE DEF p1
<1>6. p2 \in Seq(Ops) /\ Len(p2) = 12 /\ (\A i \in 1..11 : p2[i] = p1[i]) /\ (\A i \in Int : i > 11 /\ i <= 12 => p2[i] = f[i - 11])
  <2>1. Follows(p1, f, p2)
    BY <1>5, <1>3, FollowsIs, Zenon
  <2> HIDE DEF p2
  <2> QED
    BY <1>5, <1>3, <2>1 DEF Follows
<1> HIDE DEF p2
<1>7. p \in Seq(Ops) /\ Len(p) = 15 /\ (\A i \in 1..12 : p[i] = p2[i]) /\ (\A i \in Int : i > 12 /\ i <= 15 => p[i] = g[i - 12])
  <2>1. Follows(p2, g, p)
    BY <1>6, <1>4, FollowsIs, Zenon
  <2> HIDE DEF p
  <2> QED
    BY <1>6, <1>4, <2>1 DEF Follows
<1> HIDE DEF p
<1>8. /\ p[1] = F_END /\ (\A i \in 2..7 : p[i] = F("RESET")) /\ p[8] = F_END /\ p[9] = F_END /\ p[10] = F("WREN") /\ p[11] = F_END
      /\ p[12] = F(c) /\ p[13] = Slow(AddressBytes(a)[1]) /\ p[14] = Slow(AddressBytes(a)[2]) /\ p[15] = Slow(AddressBytes(a)[3])
  <2>1. /\ p1[1] = F_END /\ (\A i \in 2..7 : p1[i] = F("RESET")) /\ p1[8] = F_END
        /\ p1[9] = F_END /\ p1[10] = F("WREN") /\ p1[11] = F_END
    BY <1>1, <1>2, <1>5
  <2>2. /\ p2[1] = F_END /\ (\A i \in 2..7 : p2[i] = F("RESET")) /\ p2[8] = F_END
        /\ p2[9] = F_END /\ p2[10] = F("WREN") /\ p2[11] = F_END /\ p2[12] = F(c)
    BY <2>1, <1>3, <1>6
  <2> QED
    BY <2>2, <1>4, <1>7, SMTT(60)
<1>9. ASSUME NEW k \in 1..15 PROVE p[k] = PlanOp(k, c, a, len)
  <2>1. k \in {1, 8, 9, 11} \/ k \in 2..7 \/ k = 10 \/ k = 12 \/ k = 13 \/ k = 14 \/ k = 15
    OBVIOUS
  <2>2. CASE k \in 2..7 \/ k = 10 \/ k = 12
    BY <1>8, <2>2 DEF PlanOp
  <2>3. CASE k \in {1, 8, 9, 11}
    BY <1>8, <2>3 DEF PlanOp
  <2>4. CASE k = 13 \/ k = 14 \/ k = 15
    BY <1>8, <2>4 DEF PlanOp
  <2> QED
    BY <2>1, <2>2, <2>3, <2>4
<1> QED
  BY <1>7, <1>9 DEF Commanded, p, p2, p1, o, e, f, g

(* How a plan that burns goes on after its last byte of data. *)
LEMMA SuffixIs ==
    ASSUME NEW c, NEW a \in Int, NEW len \in Nat, NEW p, Commanded(p, 15 + len, c, a, len)
    PROVE  Commanded(p \o <<F_END>> \o StartWait, 18 + len, c, a, len)
<1> DEFINE h == <<F_END>>
           w == StartWait
           r == p \o h
           q == r \o w
<1>1. h \in Seq(Ops) /\ Len(h) = 1 /\ h[1] = F_END
  BY PlainCommands
<1>2. w \in Seq(Ops) /\ Len(w) = 2 /\ w[1] = F_END /\ w[2] = F("RDSR")
  BY PlainCommands DEF StartWait
<1>p. p \in Seq(Ops) /\ Len(p) = 15 + len /\ \A k \in 1..(15 + len) : p[k] = PlanOp(k, c, a, len)
  BY DEF Commanded
<1> HIDE DEF h, w
<1>3. /\ r \in Seq(Ops) /\ Len(r) = 16 + len /\ \A i \in 1..(15 + len) : r[i] = p[i]
      /\ \A i \in Int : i > 15 + len /\ i <= 16 + len => r[i] = h[i - (15 + len)]
  <2>1. Follows(p, h, r)
    BY <1>1, <1>p, FollowsIs, Zenon
  <2> HIDE DEF r
  <2> QED
    BY <1>1, <1>p, <2>1 DEF Follows
<1> HIDE DEF r
<1>4. /\ q \in Seq(Ops) /\ Len(q) = 18 + len /\ \A i \in 1..(16 + len) : q[i] = r[i]
      /\ \A i \in Int : i > 16 + len /\ i <= 18 + len => q[i] = w[i - (16 + len)]
  <2>1. Follows(r, w, q)
    BY <1>2, <1>3, FollowsIs, Zenon
  <2> HIDE DEF q
  <2> QED
    BY <1>2, <1>3, <2>1 DEF Follows
<1> HIDE DEF q
<1>5. q[16 + len] = F_END /\ q[17 + len] = F_END /\ q[18 + len] = F("RDSR")
  <2>1. r[16 + len] = h[1]
    BY <1>3
  <2>2. q[17 + len] = w[1] /\ q[18 + len] = w[2] /\ q[16 + len] = r[16 + len]
    BY <1>4
  <2> QED
    BY <1>1, <1>2, <2>1, <2>2
<1>6. \A k \in 1..(15 + len) : q[k] = PlanOp(k, c, a, len)
  BY <1>p, <1>3, <1>4
<1>7. PlanOp(16 + len, c, a, len) = F_END /\ PlanOp(17 + len, c, a, len) = F_END /\ PlanOp(18 + len, c, a, len) = F("RDSR")
  BY DEF PlanOp
<1>8. \A k \in 1..(18 + len) : k \in 1..(15 + len) \/ k = 16 + len \/ k = 17 + len \/ k = 18 + len
  OBVIOUS
<1>9. \A k \in 1..(18 + len) : q[k] = PlanOp(k, c, a, len)
  BY <1>5, <1>6, <1>7, <1>8
<1> QED
  BY <1>4, <1>9 DEF Commanded, q, r, h, w

(* The writes of erase_sector. *)
LEMMA EraseIs == ASSUME NEW s \in Int PROVE Commanded(EraseCommands(s), 18 + 0, "SECTOR_ERASE", s, 0)
<1> DEFINE p == take_offline \o WriteEnable \o <<F("SECTOR_ERASE")>> \o Slowly(AddressBytes(s))
<1>1. Commanded(p, 15, "SECTOR_ERASE", s, 0)
  BY PrefixIs
<1>2. EraseCommands(s) = p \o <<F_END>> \o StartWait
  BY DEF EraseCommands
<1> HIDE DEF p
<1>3. Commanded(p, 15 + 0, "SECTOR_ERASE", s, 0) /\ 0 \in Nat
  BY <1>1
<1>4. Commanded(p \o <<F_END>> \o StartWait, 18 + 0, "SECTOR_ERASE", s, 0)
  BY <1>3, SuffixIs
<1> QED
  BY <1>2, <1>4

(* The writes of page_program. *)
LEMMA ProgramIs == ASSUME NEW a \in Int, NEW len \in Nat PROVE Commanded(ProgramCommands(a, len), 18 + len, "PP", a, len)
<1> DEFINE p == take_offline \o WriteEnable \o <<F("PP")>> \o Slowly(AddressBytes(a))
           d == [i \in 1..len |-> Slow(Dat(fbuf[a + i - 1]))]
           q == p \o d
<1>1. Commanded(p, 15, "PP", a, len)
  BY PrefixIs
<1>2. ProgramCommands(a, len) = q \o <<F_END>> \o StartWait
  BY DEF ProgramCommands
<1> HIDE DEF p
<1>p. p \in Seq(Ops) /\ Len(p) = 15 /\ \A k \in 1..15 : p[k] = PlanOp(k, "PP", a, len)
  BY <1>1 DEF Commanded
<1>3. d \in Seq(Ops) /\ Len(d) = len /\ \A i \in 1..len : d[i] = Slow(Dat(fbuf[a + i - 1]))
  <2>1. \A i \in 1..len : a + i - 1 \in Int
    OBVIOUS
  <2>2. \A i \in 1..len : Slow(Dat(fbuf[a + i - 1])) \in Ops
    BY <2>1 DEF Ops
  <2> QED
    BY <2>2
<1> HIDE DEF d
<1>4. /\ q \in Seq(Ops) /\ Len(q) = 15 + len /\ \A i \in 1..15 : q[i] = p[i]
      /\ \A i \in Int : i > 15 /\ i <= 15 + len => q[i] = d[i - 15]
  <2>1. Follows(p, d, q)
    BY <1>p, <1>3, FollowsIs, Zenon
  <2> HIDE DEF q
  <2> QED
    BY <1>p, <1>3, <2>1 DEF Follows
<1> HIDE DEF q
<1>5. ASSUME NEW k \in 1..(15 + len) PROVE q[k] = PlanOp(k, "PP", a, len)
  <2>1. CASE k <= 15
    BY <1>p, <1>4, <2>1, SMTT(60)
  <2>2. CASE k > 15
    <3>1. q[k] = d[k - 15] /\ k - 15 \in 1..len /\ a + (k - 15) - 1 = a + (k - 16)
      BY <1>4, <2>2
    <3>2. PlanOp(k, "PP", a, len) = Slow(Dat(fbuf[a + (k - 16)]))
      BY <2>2 DEF PlanOp
    <3> QED
      BY <1>3, <3>1, <3>2
  <2> QED
    BY <2>1, <2>2
<1>6. Commanded(q, 15 + len, "PP", a, len)
  BY <1>4, <1>5 DEF Commanded
<1>7. Commanded(q \o <<F_END>> \o StartWait, 18 + len, "PP", a, len)
  BY <1>6, SuffixIs
<1> QED
  BY <1>2, <1>7

(* The command of a plan, on a chip that is off line with nothing asked of it. *)
LEMMA CommandByte ==
    ASSUME NEW c, Offline(c), c.n = 0, c.ireg = <<>>, c.state \notin Burning, NEW cmd \in {"SECTOR_ERASE", "PP"}
    PROVE  LET e == ReceiveSlow(c, Cmd(cmd)) IN e.state \in {cmd, "INVALID"} /\ e.n = 1 /\ e.ireg = <<Cmd(cmd)>>
<1> DEFINE d == Counted(c, Cmd(cmd))
           e == ReceiveSlow(c, Cmd(cmd))
<1>1. Sane(c) /\ c.mode = "SPI" /\ IsChip(c) /\ c.state # "QUAD_READ_IDLE" /\ c.asleep = FALSE
  BY DEF Offline, Sane
<1>2. IsChip(d) /\ d.n = 1 /\ d.state = c.state /\ d.asleep = FALSE
  BY <1>1, CountedIs
<1>3. d.ireg = <<Cmd(cmd)>>
  BY <1>1, Sliding
<1>4. e = Receive(c, Cmd(cmd))
  BY <1>1 DEF ReceiveSlow
<1>5. Cmd(cmd)[1] = "cmd" /\ Cmd(cmd)[2] = cmd
  BY DEF Cmd
<1> HIDE DEF e
<1>6. e = Command(d, cmd)
  <2>1. e = IF d.state = "QUAD_READ_IDLE"
            THEN IF d.n = 3 THEN [d EXCEPT !.addr = AddressIn(d.ireg), !.state = "QUAD_READ"] ELSE d
            ELSE IF d.n = 1 THEN Command(d, IF Cmd(cmd)[1] = "cmd" THEN Cmd(cmd)[2] ELSE "unknown")
            ELSE FollowingByte(d, Cmd(cmd))
    BY <1>4, ReceiveIs
  <2> HIDE DEF d
  <2> QED
    BY <1>1, <1>2, <1>5, <2>1
<1> HIDE DEF d
<1>7. e = [d EXCEPT !.state = IF Writable(d) THEN cmd ELSE "INVALID"]
  <2>1. ~(d.asleep /\ cmd # "RES")
    BY <1>2
  <2> QED
    BY <1>6, <2>1 DEF Command
<1>8. e.state \in {cmd, "INVALID"} /\ e.n = d.n /\ e.ireg = d.ireg
  BY <1>2, <1>7 DEF IsChip
<1> QED
  BY <1>2, <1>3, <1>8 DEF e

(* A chip that will burn nothing is as it should be before the command and after its end. *)
LEMMA PendQuiet ==
    ASSUME NEW n \in Nat, NEW len \in Nat, n \in 1..10 \/ n > 15 + len, NEW e, e.state \notin Burning, NEW cmd, NEW a
    PROVE  Pending(n, e, cmd, a, len)
BY DEF Pending

(* The bytes of the address. *)
LEMMA PendAddress ==
    ASSUME NEW cmd \in {"SECTOR_ERASE", "PP"}, NEW a \in Int, NEW len \in Nat, NEW n \in 12..14, NEW c, Offline(c),
           DOMAIN c.pmem = 0..(PGLENB - 1), Pending(n, c, cmd, a, len)
    PROVE  Pending(n + 1, ReceiveSlow(c, AddressBytes(a)[n - 11]), cmd, a, len)
<1> DEFINE b == AddressBytes(a)[n - 11]
           e == ReceiveSlow(c, b)
           d == Counted(c, b)
           A == AddressBytes(a)
<1>1. c.n = n - 11 /\ c.state \in {cmd, "INVALID"}
  BY DEF Pending
<1>2. IsChip(c)
  BY DEF Offline, Sane
<1>3. /\ e.state = c.state /\ e.n = c.n + 1 /\ e.ireg = d.ireg
      /\ c.n = 3 /\ c.state = cmd => e.addr = AddressIn(d.ireg)
      /\ c.n = 3 /\ c.state = "PP" => e.pmem = [i \in DOMAIN c.pmem |-> Erased]
  <2>1. c.n \in 1..8
    BY <1>1
  <2>2. BurnsByte(c, b, cmd)
    BY <1>1, <2>1, BurnByte, Zenon
  <2> HIDE DEF b
  <2> QED
    BY <1>1, <2>2 DEF BurnsByte
<1>a. AddressIn(<<A[1], A[2], A[3]>>) = a
  BY AddressBack
<1>4. n = 12 => d.ireg = <<Cmd(cmd), A[1]>>
  BY <1>2, Sliding DEF Pending
<1>5. n = 13 => d.ireg = <<Cmd(cmd), A[1], A[2]>>
  BY <1>2, Sliding DEF Pending
<1>6. n = 14 => d.ireg = <<A[1], A[2], A[3]>>
  BY <1>2, Sliding DEF Pending
<1> HIDE DEF b, e, d, A
<1>7. n = 14 /\ c.state = cmd => e.addr = a
  BY <1>1, <1>3, <1>6, <1>a
<1>8. n = 14 /\ c.state = "PP" => \A x \in 0..((a % PGLENB) - 1) : e.pmem[x] = Erased
  <2>1. a % PGLENB \in Int /\ a % PGLENB < PGLENB /\ PGLENB \in Nat
    BY FlashSizes DEF PAGEOF
  <2> QED
    BY <1>1, <1>3, <2>1
<1>9. CASE n = 12
  <2>1. e.n = 2 /\ e.ireg = <<Cmd(cmd), A[1]>>
    BY <1>1, <1>3, <1>4, <1>9
  <2> QED
    BY <1>1, <1>3, <1>9, <2>1 DEF Pending, e, b, A
<1>10. CASE n = 13
  <2>1. e.n = 3 /\ e.ireg = <<Cmd(cmd), A[1], A[2]>>
    BY <1>1, <1>3, <1>5, <1>10
  <2> QED
    BY <1>1, <1>3, <1>10, <2>1 DEF Pending, e, b, A
<1>11. CASE n = 14
  <2>1. e.n = 4
    BY <1>1, <1>3, <1>11
  <2>2. e.state = "PP" => c.state = cmd
    BY <1>1, <1>3
  <2>3. n + 1 = 15 /\ (n + 1) - 15 = 0 /\ a + ((n + 1) - 15) = a
    BY <1>11
  <2> QED
    BY <1>1, <1>3, <1>7, <1>8, <1>11, <2>1, <2>2, <2>3 DEF Pending, e, b
<1> QED
  BY <1>9, <1>10, <1>11

(* A byte of data. *)
LEMMA PendData ==
    ASSUME NEW a \in Int, NEW len \in Nat, NEW n \in 15..(14 + len), a + len <= PAGEOF(a + PGLENB), NEW c, Offline(c),
           DOMAIN c.pmem = 0..(PGLENB - 1), Pending(n, c, "PP", a, len), NEW b
    PROVE  Pending(n + 1, ReceiveSlow(c, b), "PP", a, len)
<1> DEFINE e == ReceiveSlow(c, b)
           m == PAGEOF(a)
<1>1. c.n > 3 /\ c.state \in {"PP", "INVALID"}
  BY DEF Pending
<1>2. c.n \in 1..8
  BY <1>1 DEF Offline, Sane
<1>3. /\ e.state = c.state /\ e.n = (IF c.n < 8 THEN c.n + 1 ELSE 8)
      /\ c.n > 3 /\ c.state = "PP" =>
           /\ e.addr = PAGEOF(c.addr) + ((c.addr + 1) % PGLENB)
           /\ e.pmem = [c.pmem EXCEPT ![c.addr % PGLENB] = IF b[1] = "dat" THEN b[2] ELSE Erased]
  <2>1. BurnsByte(c, b, "PP")
    BY <1>1, <1>2, BurnByte
  <2> QED
    BY <2>1 DEF BurnsByte
<1>4. e.n > 3
  BY <1>1, <1>2, <1>3
<1>5. PGLENB \in Nat /\ PGLENB > 0 /\ m \in Int /\ m % PGLENB = 0 /\ m <= a /\ a < m + PGLENB /\ PAGEOF(a + PGLENB) = m + PGLENB
      /\ a % PGLENB = a - m
  <2>1. PageOf(a)
    BY Pages
  <2>2. PGLENB \in Nat /\ PGLENB > 0
    BY FlashSizes
  <2> QED
    BY <2>1, <2>2 DEF PageOf
<1> HIDE DEF e, m
<1>6. ASSUME c.state = "PP"
      PROVE  /\ PAGEOF(e.addr) = m /\ (n + 1 - 15 < len => e.addr = a + (n + 1 - 15))
             /\ \A x \in 0..((a % PGLENB) - 1) : e.pmem[x] = Erased
  <2>1. n \in 15..(15 + len) /\ n - 15 < len
    OBVIOUS
  <2>2. /\ c.addr = a + (n - 15) /\ PAGEOF(c.addr) = m
        /\ \A x \in 0..((a % PGLENB) - 1) : c.pmem[x] = Erased
    BY <1>6, <2>1 DEF Pending, m
  <2>3. c.addr \in Int /\ c.addr >= a /\ c.addr < m + PGLENB
    BY <1>5, <2>1, <2>2, SMTT(60)
  <2>4. c.addr % PGLENB = c.addr - m
    <3>1. m <= c.addr
      BY <1>5, <2>3
    <3>2. InPage(m, c.addr)
      BY <1>5, <2>3, <3>1, PageBytes
    <3> QED
      BY <3>2 DEF InPage
  <2>5. \A x \in 0..((a % PGLENB) - 1) : x \in DOMAIN c.pmem /\ x # c.addr % PGLENB
    BY <1>5, <2>3, <2>4
  <2>6. \A x \in 0..((a % PGLENB) - 1) : e.pmem[x] = Erased
    BY <1>1, <1>3, <1>6, <2>2, <2>5
  <2>7. e.addr = m + ((c.addr + 1) % PGLENB)
    BY <1>1, <1>3, <1>6, <2>2
  <2>8. CASE c.addr + 1 < m + PGLENB
    <3> DEFINE y == c.addr + 1
    <3>1. y % PGLENB = y - m
      <4>1. y \in Int /\ m <= y /\ y < m + PGLENB
        BY <1>5, <2>3, <2>8
      <4> HIDE DEF y
      <4>2. InPage(m, y)
        BY <1>5, <4>1, PageBytes
      <4> QED
        BY <4>2 DEF InPage
    <3>2. e.addr = c.addr + 1
      BY <1>5, <2>3, <2>7, <3>1
    <3>3. PAGEOF(e.addr) = m
      <4>1. e.addr \in Int /\ m <= e.addr /\ e.addr < m + PGLENB
        BY <1>5, <2>3, <2>8, <3>2
      <4>2. InPage(m, e.addr)
        BY <1>5, <4>1, PageBytes
      <4> QED
        BY <4>2 DEF InPage
    <3> QED
      BY <2>2, <2>6, <3>2, <3>3
  <2>9. CASE c.addr + 1 = m + PGLENB
    <3>1. (c.addr + 1) % PGLENB \in 0..(PGLENB - 1)
      <4>1. c.addr + 1 \in Int
        BY <2>3
      <4> QED
        BY <1>5, <4>1, Divides
    <3>2. e.addr \in Int /\ m <= e.addr /\ e.addr < m + PGLENB
      BY <1>5, <2>7, <3>1
    <3>3. PAGEOF(e.addr) = m
      <4>2. InPage(m, e.addr)
        BY <1>5, <3>2, PageBytes
      <4> QED
        BY <4>2 DEF InPage
    <3>4. ~(n + 1 - 15 < len)
      BY <1>5, <2>2, <2>9
    <3> QED
      BY <2>6, <3>3, <3>4
  <2> QED
    BY <1>5, <2>3, <2>8, <2>9, SMTT(60)
<1>7. e.state = "PP" => c.state = "PP"
  BY <1>3
<1>8. n + 1 \in 16..(15 + len) /\ e.state \in {"PP", "INVALID"}
  BY <1>1, <1>3
<1> HIDE DEF e
<1>9. Pending(n + 1, e, "PP", a, len)
  <2>1. ~(n + 1 \in 1..11 \/ n + 1 > 15 + len) /\ n + 1 # 11 /\ n + 1 # 12 /\ n + 1 # 13 /\ n + 1 # 14 /\ n + 1 # 15
        /\ n + 1 \in 12..(15 + len) /\ n + 1 \in 15..(15 + len) /\ n + 1 \notin 12..14
    BY <1>8
  <2> QED
    BY <1>4, <1>6, <1>7, <1>8, <2>1 DEF Pending, m
<1> QED
  BY <1>9 DEF e

(* One write of a plan that burns. *)
LEMMA Pended ==
    ASSUME NEW cmd \in {"SECTOR_ERASE", "PP"}, NEW a \in Int, NEW len \in Nat, cmd = "SECTOR_ERASE" => len = 0,
           cmd = "PP" => a + len <= PAGEOF(a + PGLENB), NEW n \in 0..(17 + len), NEW c, Sane(c), LeavesQuad(n, c),
           DOMAIN c.pmem = 0..(PGLENB - 1), Pending(n, c, cmd, a, len)
    PROVE  Pending(n + 1, Sent(PlanOp(n + 1, cmd, a, len), c), cmd, a, len)
<1> DEFINE w == PlanOp(n + 1, cmd, a, len)
           e == Sent(w, c)
<1>1. CASE n \in {0, 7, 8, 10} \/ n \in {15 + len, 16 + len}
  <2>1. w = F_END
    BY <1>1 DEF PlanOp
  <2>2. e = Deselect(c)
    BY <2>1 DEF Sent, F_END
  <2>3. e.state \notin Burning /\ e.n = 0 /\ e.ireg = <<>>
    BY <2>2, DeselectMem
  <2> HIDE DEF e
  <2>4. CASE n = 10
    BY <2>3, <2>4 DEF Pending, e, w
  <2>5. CASE n # 10
    <3>1. n + 1 \in Nat /\ (n + 1 \in 1..10 \/ n + 1 > 15 + len)
      BY <1>1, <2>5
    <3>2. Pending(n + 1, e, cmd, a, len)
      BY <2>3, <3>1, PendQuiet
    <3> QED
      BY <3>2 DEF e, w
  <2> QED
    BY <2>4, <2>5
<1>2. CASE n \in 1..6
  <2>1. w = Slow(Cmd("RESET"))
    BY <1>2 DEF PlanOp, F
  <2>2. e = ReceiveSlow(c, Cmd("RESET"))
    BY <2>1 DEF Sent, Slow
  <2>3. Deselected(c) \/ Quitting(c)
    BY <1>2 DEF LeavesQuad
  <2>4. e.state \notin Burning
    BY <2>2, <2>3, ResetByte
  <2> HIDE DEF e
  <2>5. n + 1 \in Nat /\ n + 1 \in 1..10
    BY <1>2
  <2>6. Pending(n + 1, e, cmd, a, len)
    BY <2>4, <2>5, PendQuiet
  <2> QED
    BY <2>6 DEF e, w
<1>3. CASE n = 9 \/ n = 17 + len
  <2> DEFINE x == IF n = 9 THEN "WREN" ELSE "RDSR"
  <2>1. w = Slow(Cmd(x))
    BY <1>3 DEF PlanOp, F
  <2>2. e = ReceiveSlow(c, Cmd(x))
    BY <2>1 DEF Sent, Slow
  <2>3. Offline(c) /\ c.state \notin Burning
    BY <1>3 DEF LeavesQuad, Pending
  <2>4. OfflineByte(Cmd(x)) /\ Cmd(x)[2] \notin Burning
    BY DEF OfflineByte, Cmd, Burning
  <2> HIDE DEF x
  <2>5. e.state \notin Burning
    BY <2>2, <2>3, <2>4, OfflineSlow
  <2> HIDE DEF e
  <2>6. n + 1 \in Nat /\ (n + 1 \in 1..10 \/ n + 1 > 15 + len)
    BY <1>3
  <2>7. Pending(n + 1, e, cmd, a, len)
    BY <2>5, <2>6, PendQuiet
  <2> QED
    BY <2>7 DEF e, w
<1>4. CASE n = 11
  <2>1. w = Slow(Cmd(cmd))
    BY <1>4 DEF PlanOp, F
  <2>2. e = ReceiveSlow(c, Cmd(cmd))
    BY <2>1 DEF Sent, Slow
  <2>3. Offline(c) /\ c.state \notin Burning /\ c.n = 0 /\ c.ireg = <<>>
    BY <1>4 DEF LeavesQuad, Pending
  <2>4. e.state \in {cmd, "INVALID"} /\ e.n = 1 /\ e.ireg = <<Cmd(cmd)>>
    BY <2>2, <2>3, CommandByte
  <2> HIDE DEF e
  <2>5. Pending(12, e, cmd, a, len)
    BY <2>4 DEF Pending
  <2> QED
    BY <1>4, <2>5 DEF e, w
<1>5. CASE n \in 12..14
  <2>1. w = Slow(AddressBytes(a)[n - 11])
    <3>1. n + 1 \in 13..15 /\ n + 1 \notin 2..7 /\ n + 1 # 10 /\ n + 1 # 12 /\ (n + 1) - 12 = n - 11
      BY <1>5
    <3> QED
      BY <3>1 DEF PlanOp
  <2>2. e = ReceiveSlow(c, AddressBytes(a)[n - 11])
    BY <2>1 DEF Sent, Slow
  <2>3. Offline(c)
    BY <1>5 DEF LeavesQuad
  <2>4. Pending(n + 1, ReceiveSlow(c, AddressBytes(a)[n - 11]), cmd, a, len)
    BY <1>5, <2>3, PendAddress
  <2> QED
    BY <2>2, <2>4
<1>6. CASE n \in 15..(14 + len)
  <2> DEFINE b == Dat(fbuf[a + ((n + 1) - 16)])
  <2>1. w = Slow(b)
    <3>1. n + 1 \in 16..(15 + len) /\ n + 1 \notin 2..7 /\ n + 1 # 10 /\ n + 1 # 12 /\ n + 1 \notin 13..15
      BY <1>6
    <3> QED
      BY <3>1 DEF PlanOp
  <2> HIDE DEF b
  <2>2. e = ReceiveSlow(c, b)
    BY <2>1 DEF Sent, Slow
  <2>3. Offline(c)
    BY <1>6 DEF LeavesQuad
  <2>4. cmd = "PP"
    BY <1>6
  <2>5. Pending(n + 1, ReceiveSlow(c, b), "PP", a, len)
    BY <1>6, <2>3, <2>4, PendData
  <2> QED
    BY <2>2, <2>4, <2>5
<1>7. n \in {0, 7, 8, 10} \/ n \in {15 + len, 16 + len} \/ n \in 1..6 \/ n = 9 \/ n = 17 + len \/ n = 11 \/ n \in 12..14
      \/ n \in 15..(14 + len)
  <2>1. n \in Nat /\ (n <= 14 \/ (n >= 15 /\ n <= 14 + len) \/ n = 15 + len \/ n = 16 + len \/ n = 17 + len)
    OBVIOUS
  <2>2. n <= 14 => n \in {0, 7, 8, 10} \/ n \in 1..6 \/ n = 9 \/ n = 11 \/ n \in 12..14
    BY <2>1
  <2> QED
    BY <2>1, <2>2
<1> QED
  BY <1>1, <1>2, <1>3, <1>4, <1>5, <1>6, <1>7

(* The conjuncts of the invariant that the end of a run, or a run not yet at the flash, has to keep. *)
LEMMA Outside ==
    ASSUME MemOK', drv'.at \notin Writing \union {"load"}, result' # "ok"
    PROVE  Data'
<1>1. drv'.at \notin Writing /\ drv'.at # "load"
  OBVIOUS
<1>2. FileOK'
  BY <1>1 DEF FileOK
<1>3. DoneOK'
  BY <1>1 DEF DoneOK, Writing, Paging
<1>4. AheadOK'
  BY <1>1 DEF AheadOK, Writing, Paging
<1>5. LenOK'
  BY <1>1 DEF LenOK, Writing
<1>6. PendOK'
  BY <1>1 DEF PendOK, Writing
<1>7. ResultOK'
  BY DEF ResultOK
<1> QED
  BY <1>2, <1>3, <1>4, <1>5, <1>6, <1>7 DEF Data

(* Only an idle tool has ended well. *)
LEMMA NotYet == ASSUME Data, drv.at # "idle" PROVE result # "ok" /\ (result' = result => ResultOK')
BY DEF Data, ResultOK

(* A step that leaves the driver, the buffers and the array alone. *)
SameData ==
    /\ drv' = drv /\ fbuf' = fbuf /\ UNCHANGED <<file, nsec, ram>>
    /\ chip'.mem = chip.mem /\ DOMAIN chip'.pmem = DOMAIN chip.pmem
(* Such a step keeps what is known of the contents, but for the chip's command. *)
LEMMA Framed ==
    ASSUME Data, SameData, drv.at = "page" => ctl'.user = ctl.user
    PROVE  MemOK' /\ FileOK' /\ DoneOK' /\ AheadOK' /\ LenOK'
<1>1. /\ drv' = drv /\ fbuf' = fbuf /\ file' = file /\ nsec' = nsec /\ ram' = ram
      /\ chip'.mem = chip.mem /\ DOMAIN chip'.pmem = DOMAIN chip.pmem
  BY DEF SameData
<1>2. MemOK'
  BY <1>1 DEF Data, MemOK
<1>3. FileOK'
  <2>1. Placed(nsec)' <=> Placed(nsec)
    BY <1>1, ZenonT(60) DEF Placed, Bytes, EndOf
  <2> QED
    BY <1>1, <2>1, Zenon DEF Data, FileOK, EndOf, ValidSection, SECTOROF
<1>4. \A a : (Wanted(a)' <=> Wanted(a)) /\ (Same(a)' <=> Same(a))
  BY <1>1, Zenon DEF Wanted, Same
<1>5. Reached' = Reached /\ Ahead' = Ahead
  BY <1>1, Zenon DEF Reached, Ahead
<1>6. DoneOK'
  BY <1>1, <1>4, <1>5, Zenon DEF Data, DoneOK
<1>7. Clean(Ahead)' <=> Clean(Ahead)
  BY <1>1, <1>4, <1>5, Zenon DEF Clean
<1>8. Dense(Ahead)' <=> Dense(Ahead)
  BY <1>1, <1>4, <1>5, Zenon DEF Dense, Full
<1>9. AheadOK'
  BY <1>1, <1>5, <1>7, <1>8, Zenon DEF Data, AheadOK
<1>10. LenOK'
  BY <1>1, Zenon DEF Data, LenOK, PAGEOF
<1> QED
  BY <1>2, <1>3, <1>6, <1>9, <1>10

(* What is known of the chip while a plan runs is known of these members. *)
LEMMA PendSame ==
    ASSUME NEW c, NEW e, e.pmem = c.pmem, e.n = c.n, e.ireg = c.ireg, e.state = c.state, e.addr = c.addr,
           NEW n, NEW cmd, NEW a, NEW len, Pending(n, c, cmd, a, len)
    PROVE  Pending(n, e, cmd, a, len)
BY DEF Pending

(* FlashReady preserves what is known of the contents. *)
LEMMA ReadyData == ASSUME IInv, Data, FlashReady, UNCHANGED toolVars PROVE Data'
<1>1. /\ chip.wip /\ chip' = [chip EXCEPT !.wip = FALSE, !.wel = FALSE, !.asleep = FALSE]
      /\ ctl' = ctl /\ todo' = todo /\ drv' = drv /\ fbuf' = fbuf
      /\ file' = file /\ nsec' = nsec /\ ram' = ram /\ result' = result
  BY DEF FlashReady, Complete, toolVars
<1>2. IsChip(chip)
  BY DEF IInv, ChipOK, Sane
<1>3. /\ chip'.mem = chip.mem /\ chip'.pmem = chip.pmem /\ chip'.n = chip.n /\ chip'.ireg = chip.ireg
      /\ chip'.state = chip.state /\ chip'.addr = chip.addr
  BY <1>1, <1>2 DEF IsChip
<1>4. MemOK' /\ FileOK' /\ DoneOK' /\ AheadOK' /\ LenOK'
  BY <1>1, <1>3, Framed DEF SameData
<1>5. ResultOK'
  <2>1. result # "ok"
    BY <1>1 DEF Data, ResultOK
  <2> QED
    BY <1>1, <2>1 DEF ResultOK
<1>6. PendOK'
  <2>1. Made' = Made
    BY <1>1, Zenon DEF Made, Plan, EraseCommands, ProgramCommands, WriteEnable, StartWait
  <2>2. \A n, cmd, a, len : Pending(n, chip, cmd, a, len) => Pending(n, chip', cmd, a, len)
    BY <1>3, PendSame
  <2>3. Dense(Ahead)' <=> Dense(Ahead)
    BY <1>1, Zenon DEF Dense, Full, Ahead, Wanted
  <2> QED
    BY <1>1, <1>3, <2>1, <2>2, <2>3, Zenon DEF Data, PendOK
<1> QED
  BY <1>4, <1>5, <1>6 DEF Data

(* A plan that returns burns nothing. *)
LEMMA ReturningMem ==
    ASSUME IInv, BusOp, drv.at \in {"erased", "programmed", "nextpage", "written"}
    PROVE  SameMem(chip', chip)
<1> DEFINE k == Made
           w == Plan[k + 1]
           l == Len(todo)
<1>1. DrvOK /\ ChipOK /\ ReturnOK /\ Sane(chip)
  BY DEF IInv, ChipOK
<1>2. /\ k \in 0..(Len(Plan) - 1) /\ Len(Plan) - k = l /\ l \in Nat \ {0} /\ Len(Plan) \in Nat
      /\ w \in Ops /\ chip' = Sent(w, chip)
  BY <1>1, BusFacts
<1>3. EndsOnline(Plan)
  BY <1>1, PlanKinds DEF Returns
<1>4. /\ l > 10 => chip.state \notin Burning
      /\ l <= 10 => Restoring(l, chip)
  BY <1>1 DEF ReturnOK
<1> HIDE DEF k, l
<1>5. w.op \in {"end", "leave"} => chip.state \notin Burning
  <2>1. CASE l > 10
    BY <1>4, <2>1
  <2>2. CASE l = 10
    <3>1. k + 1 = Len(Plan) - 11 + 2
      BY <1>2, <2>2
    <3>2. w = place_online[2]
      <4>1. 2 \in 1..11
        OBVIOUS
      <4>2. Plan[Len(Plan) - 11 + 2] = place_online[2]
        BY <1>3, <4>1, Zenon DEF EndsOnline
      <4> QED
        BY <3>1, <4>2
    <3>3. place_online[2] = F("QUAD_IO_READ")
      BY DEF place_online, restore_quadio
    <3>4. w.op = "slow"
      BY <3>2, <3>3 DEF F, Slow
    <3> QED
      BY <3>4
  <2>3. CASE l < 10
    <3>1. l # 10 /\ l # 0 /\ l <= 10
      BY <1>2, <2>3
    <3>2. chip.state = "QUAD_READ_CMD"
      BY <1>4, <3>1 DEF Restoring
    <3> QED
      BY <3>2 DEF Burning
  <2> QED
    BY <1>2, <2>1, <2>2, <2>3
<1>6. SameMem(Sent(w, chip), chip)
  BY <1>1, <1>2, <1>5, SentMem
<1> QED
  BY <1>2, <1>6, Zenon

(* The page of an address goes up by whole words. *)
LEMMA AheadWord == ASSUME NEW x \in Int PROVE PAGEOF(x + PGLENB) \in Int /\ PAGEOF(x + PGLENB) % WORD = 0
<1>1. PGLENB \in Nat /\ PGLENB > 0 /\ WORD \in Nat /\ WORD > 0 /\ PGLENB % WORD = 0
  BY FlashSizes, LoadAssumption
<1>2. x + PGLENB \in Int
  BY <1>1
<1> DEFINE y == x + PGLENB
<1> HIDE DEF y
<1>3. PageOf(y)
  BY <1>2, Pages DEF y
<1>4. PAGEOF(y) \in Int /\ PAGEOF(y) % PGLENB = 0
  BY <1>3 DEF PageOf
<1>5. PAGEOF(y) % WORD = 0
  BY <1>1, <1>4, Nested
<1> QED
  BY <1>4, <1>5 DEF y

(* The plans that burn, by their writes. *)
LEMMA BurnPlan ==
    ASSUME DrvOK, drv.at \in {"erasing", "programming"}
    PROVE  \E cmd \in {"SECTOR_ERASE", "PP"}, a \in Int, len \in Nat :
              /\ cmd = (IF drv.at = "erasing" THEN "SECTOR_ERASE" ELSE "PP")
              /\ a = (IF drv.at = "erasing" THEN drv.s ELSE drv.p)
              /\ len = (IF drv.at = "erasing" THEN 0 ELSE drv.len)
              /\ Commanded(Plan, 18 + len, cmd, a, len)
<1>1. drv.s \in Int /\ drv.p \in Int /\ (drv.at = "programming" => drv.len \in Nat)
  BY DEF DrvOK
<1>2. CASE drv.at = "erasing"
  <2>1. Plan = EraseCommands(drv.s)
    BY <1>2 DEF Plan
  <2>2. Commanded(Plan, 18 + 0, "SECTOR_ERASE", drv.s, 0)
    BY <1>1, <2>1, EraseIs
  <2> QED
    BY <1>1, <1>2, <2>2
<1>3. CASE drv.at = "programming"
  <2>1. Plan = ProgramCommands(drv.p, drv.len) /\ drv.at # "erasing"
    BY <1>3 DEF Plan
  <2>2. Commanded(Plan, 18 + drv.len, "PP", drv.p, drv.len)
    BY <1>1, <1>3, <2>1, ProgramIs
  <2> QED
    BY <1>1, <1>3, <2>1, <2>2
<1> QED
  BY <1>2, <1>3

(* What the array may become when chip select rises at the end of a burning plan's data, or at
   its start, if an earlier run left the chip that way. *)
Burnt(mem) ==
    \/ mem = chip.mem
    \/ drv.p = RESET_ADDRESS /\ (drv.at = "programming" => Dense(Ahead))
    \/ /\ drv.at = "erasing"
       /\ \A i \in Offsets : mem[i] = IF SECTOROF(i) = SECTOROF(drv.s) THEN Erased ELSE chip.mem[i]
    \/ /\ drv.at = "programming"
       /\ \A i \in Offsets : (PAGEOF(i) = PAGEOF(drv.p) /\ i >= drv.p) \/ mem[i] = chip.mem[i]

(* What may be burnt is not among what is done, and leaves what is ahead ready to be programmed. *)
LEMMA BurnKeeps ==
    ASSUME IInv, Data, drv.at \in {"erasing", "programming"}, Burnt(chip'.mem), drv' = drv, fbuf' = fbuf
    PROVE  DoneOK' /\ AheadOK'
<1>1. /\ drv.s \in Int /\ drv.p \in Int /\ drv.p >= RESET_ADDRESS /\ RESET_ADDRESS \in Int
      /\ drv.at = "erasing" => drv.p >= drv.s /\ drv.p \in {drv.s, RESET_ADDRESS} /\ SECTOROF(drv.s) = drv.s
      /\ DoneOK /\ AheadOK /\ drv.at # "page"
  BY LoadAssumption DEF IInv, DrvOK, Data, DoneOK, FileOK, Paging, Writing
<1>2. \A a : (Wanted(a)' <=> Wanted(a))
  BY Zenon DEF Wanted
<1>3. Reached' = drv.p /\ Reached = drv.p /\ Ahead' = PAGEOF(drv.p + PGLENB) /\ Ahead = PAGEOF(drv.p + PGLENB)
  BY DEF Reached, Ahead
<1>4. ASSUME NEW a \in Offsets, Wanted(a), a < drv.p
      PROVE  chip'.mem[a] = chip.mem[a]
  <2>1. a \in Int /\ a >= RESET_ADDRESS
    BY <1>4 DEF Offsets, Wanted
  <2>2. CASE drv.p = RESET_ADDRESS
    BY <1>1, <1>4, <2>1, <2>2
  <2>3. CASE drv.at = "erasing" /\ drv.p # RESET_ADDRESS
                /\ \A i \in Offsets : chip'.mem[i] = IF SECTOROF(i) = SECTOROF(drv.s) THEN Erased ELSE chip.mem[i]
    <3>1. SectorOf(a)
      BY <2>1, Sectors
    <3>2. SECTOROF(a) \in Int /\ SECTOROF(a) <= a
      BY <3>1 DEF SectorOf
    <3>3. drv.p = drv.s
      BY <1>1, <2>3
    <3>4. SECTOROF(a) # SECTOROF(drv.s)
      BY <1>1, <1>4, <2>1, <2>3, <3>2, <3>3
    <3> QED
      BY <1>4, <2>3, <3>4
  <2>4. CASE drv.at = "programming" /\ \A i \in Offsets : (PAGEOF(i) = PAGEOF(drv.p) /\ i >= drv.p) \/ chip'.mem[i] = chip.mem[i]
    <3>1. ~(a >= drv.p)
      BY <1>1, <1>4, <2>1
    <3> QED
      BY <1>4, <2>4, <3>1
  <2> QED
    BY <1>4, <2>2, <2>3, <2>4 DEF Burnt
<1>5. DoneOK'
  <2>1. ASSUME NEW a \in Offsets, Wanted(a), a < drv.p PROVE Same(a)'
    <3>1. Same(a)
      BY <1>1, <1>3, <2>1 DEF DoneOK, Writing
    <3> QED
      BY <1>4, <2>1, <3>1 DEF Same
  <2>2. \A a \in Offsets : Wanted(a)' /\ a < Reached' => Same(a)'
    BY <1>2, <1>3, <2>1
  <2> QED
    BY <1>1, <2>2 DEF DoneOK
<1>6. AheadOK'
  <2>1. SUFFICES ASSUME drv.at = "programming" PROVE Clean(Ahead)' \/ (Dense(Ahead)' /\ Ahead' % WORD = 0)
    <3>1. drv'.at = "page" => FALSE
      BY <1>1
    <3>2. drv'.at \in Paging => drv.at = "programming"
      BY DEF Paging
    <3> QED
      BY <3>1, <3>2 DEF AheadOK
  <2>2. Dense(Ahead)' <=> Dense(Ahead)
    BY <1>2, <1>3, Zenon DEF Dense, Full
  <2>3. CASE Dense(Ahead)
    BY <1>1, <1>3, <2>2, <2>3, AheadWord
  <2>4. CASE ~Dense(Ahead)
    <3>1. Clean(Ahead)
      BY <1>1, <2>1, <2>4 DEF AheadOK, Paging
    <3>2. ASSUME NEW a \in Offsets, a >= Ahead PROVE chip'.mem[a] = chip.mem[a]
      <4>1. a \in Int /\ PageOf(drv.p) /\ PageOf(a)
        <5>1. a \in Int
          BY DEF Offsets
        <5> QED
          BY <1>1, <5>1, Pages
      <4>2. PAGEOF(a) # PAGEOF(drv.p)
        <5>1. /\ PAGEOF(a) \in Int /\ a < PAGEOF(a) + PGLENB /\ PAGEOF(drv.p) \in Int /\ PGLENB \in Nat
              /\ Ahead = PAGEOF(drv.p) + PGLENB
          BY <1>3, <4>1, FlashSizes DEF PageOf
        <5> QED
          BY <3>2, <4>1, <5>1
      <4> QED
        BY <2>1, <2>4, <3>2, <4>2 DEF Burnt
    <3>3. Clean(Ahead)'
      BY <1>2, <1>3, <3>1, <3>2 DEF Clean
    <3> QED
      BY <3>3
  <2> QED
    BY <2>3, <2>4
<1> QED
  BY <1>5, <1>6

(* One write of a plan that burns. *)
LEMMA BurningData ==
    ASSUME IInv, Data, BusOp, UNCHANGED toolVars, drv.at \in {"erasing", "programming"}
    PROVE  Burnt(chip'.mem) /\ PendOK'
<1>1. DrvOK /\ ChipOK /\ WaitOK /\ Sane(chip) /\ MemOK /\ PendOK /\ LenOK
  BY DEF IInv, ChipOK, Data
<1>2. PICK cmd \in {"SECTOR_ERASE", "PP"}, a \in Int, len \in Nat :
              /\ cmd = (IF drv.at = "erasing" THEN "SECTOR_ERASE" ELSE "PP")
              /\ a = (IF drv.at = "erasing" THEN drv.s ELSE drv.p)
              /\ len = (IF drv.at = "erasing" THEN 0 ELSE drv.len)
              /\ Commanded(Plan, 18 + len, cmd, a, len)
  BY <1>1, BurnPlan
<1>3. drv' = drv /\ fbuf' = fbuf /\ Plan' = Plan
  BY DEF BusOp, Plan, EraseCommands, ProgramCommands, WriteEnable, StartWait
<1> DEFINE n == Made
           w == Plan[n + 1]
<1>4. Len(Plan) = 18 + len /\ \A k \in 1..(18 + len) : Plan[k] = PlanOp(k, cmd, a, len)
  BY <1>2 DEF Commanded
<1>5. /\ n \in 0..(Len(Plan) - 1) /\ Len(Plan) - n = Len(todo) /\ w \in Ops /\ chip' = Sent(w, chip)
      /\ Len(todo') = Len(todo) - 1
  BY <1>1, BusFacts
<1>6. Made' = n + 1
  BY <1>3, <1>4, <1>5 DEF Made
<1>7. LeavesQuad(n, chip)
  BY <1>1 DEF WaitOK
<1>8. Pending(n, chip, cmd, a, len)
  BY <1>1, <1>2 DEF PendOK
<1>f. (drv.at = "erasing" /\ n = 0 /\ chip.state \in Burning => drv.p = RESET_ADDRESS)
      /\ (drv.at = "programming" /\ n = 0 /\ chip.state \in Burning => drv.p = RESET_ADDRESS /\ Dense(Ahead))
  BY <1>1 DEF PendOK
<1> HIDE DEF n
<1>9. n \in 0..(17 + len) /\ n + 1 \in 1..(18 + len)
  BY <1>4, <1>5
<1>10. w = PlanOp(n + 1, cmd, a, len)
  BY <1>4, <1>9
<1>11. /\ cmd = "SECTOR_ERASE" => len = 0
       /\ cmd = "PP" => a + len <= PAGEOF(a + PGLENB)
       /\ DOMAIN chip.pmem = 0..(PGLENB - 1)
  BY <1>1, <1>2 DEF LenOK, MemOK
<1>12. Pending(n + 1, chip', cmd, a, len)
  <2>1. Pending(n + 1, Sent(PlanOp(n + 1, cmd, a, len), chip), cmd, a, len)
    BY <1>1, <1>7, <1>8, <1>9, <1>11, Pended
  <2> QED
    BY <1>5, <1>10, <2>1
<1>13. PendOK'
  <2>1. Made' # 0
    BY <1>6, <1>9
  <2>2. Pending(Made, chip, cmd, a, len)'
    BY <1>6, <1>12 DEF Pending
  <2>3. drv.at = "erasing" => Pending(Made, chip, "SECTOR_ERASE", drv.s, 0)'
    <3>1. SUFFICES ASSUME drv.at = "erasing" PROVE Pending(Made, chip, "SECTOR_ERASE", drv.s, 0)'
      OBVIOUS
    <3>2. cmd = "SECTOR_ERASE" /\ a = drv.s /\ len = 0
      BY <1>2, <3>1
    <3> QED
      BY <1>3, <2>2, <3>2
  <2>4. drv.at = "programming" => Pending(Made, chip, "PP", drv.p, drv.len)'
    <3>1. SUFFICES ASSUME drv.at = "programming" PROVE Pending(Made, chip, "PP", drv.p, drv.len)'
      OBVIOUS
    <3>2. cmd = "PP" /\ a = drv.p /\ len = drv.len
      BY <1>2, <3>1
    <3> QED
      BY <1>3, <2>2, <3>2
  <2> QED
    BY <1>3, <2>1, <2>3, <2>4 DEF PendOK
<1>14. ASSUME w.op \in {"end", "leave"} /\ chip.state \in Burning PROVE Burnt(chip'.mem)
  <2>1. n \notin 1..11 /\ ~(n > 15 + len)
    BY <1>8, <1>14 DEF Pending
  <2>2. n = 0 \/ n = 15 + len
    <3>1. n \in 12..(14 + len) => w.op = "slow"
      <4>1. ASSUME n \in 12..(14 + len) PROVE w.op = "slow"
        <5>1. /\ n + 1 \notin 2..7 /\ n + 1 # 10 /\ n + 1 # 12
              /\ n + 1 \in 13..15 \/ n + 1 \in 16..(15 + len)
          BY <1>9, <4>1
        <5>2. \E b : w = Slow(b)
          BY <1>10, <5>1 DEF PlanOp
        <5> QED
          BY <5>2 DEF Slow
      <4> QED
        BY <4>1
    <3> QED
      BY <1>9, <1>14, <2>1, <3>1
  <2>3. CASE n = 0
    BY <1>f, <1>14, <2>3 DEF Burnt
  <2>4. CASE n = 15 + len
    <3>1. chip' = Deselect(chip)
      BY <1>5, <1>14 DEF Sent
    <3>2. chip.state \in {cmd, "INVALID"} /\ (n = 15 /\ chip.state = cmd => chip.addr = a)
          /\ (chip.state = "PP" => PAGEOF(chip.addr) = PAGEOF(a) /\ \A x \in 0..((a % PGLENB) - 1) : chip.pmem[x] = Erased)
      <4>1. n \in 12..(15 + len) /\ n \in 15..(15 + len)
        BY <2>4
      <4> QED
        BY <1>8, <4>1 DEF Pending
    <3>3. chip.state = cmd
      BY <1>14, <3>2 DEF Burning
    <3>4. chip.mem \in [Offsets -> Byte]
      BY <1>1 DEF MemOK
    <3>5. CASE drv.at = "erasing"
      <4>1. cmd = "SECTOR_ERASE" /\ a = drv.s /\ len = 0
        BY <1>2, <3>5
      <4>2. chip.addr = drv.s
        BY <2>4, <3>2, <3>3, <4>1
      <4>3. \A i \in Offsets : Deselect(chip).mem[i] = IF SECTOROF(i) = SECTOROF(chip.addr) THEN Erased ELSE chip.mem[i]
        BY <1>1, <3>3, <3>4, <4>1, DeselectMem
      <4> QED
        BY <3>1, <3>5, <4>2, <4>3 DEF Burnt
    <3>6. CASE drv.at = "programming"
      <4>1. cmd = "PP" /\ a = drv.p
        BY <1>2, <3>6
      <4>2. PAGEOF(chip.addr) = PAGEOF(drv.p) /\ \A x \in 0..((drv.p % PGLENB) - 1) : chip.pmem[x] = Erased
        BY <3>2, <3>3, <4>1
      <4>3. \A i \in Offsets :
              Deselect(chip).mem[i] = IF PAGEOF(i) = PAGEOF(chip.addr) THEN chip.mem[i] \cap chip.pmem[i % PGLENB] ELSE chip.mem[i]
        BY <1>1, <3>3, <3>4, <4>1, DeselectMem
      <4>4. ASSUME NEW i \in Offsets, ~(PAGEOF(i) = PAGEOF(drv.p) /\ i >= drv.p) PROVE chip'.mem[i] = chip.mem[i]
        <5>1. CASE PAGEOF(i) # PAGEOF(drv.p)
          BY <3>1, <4>2, <4>3, <4>4, <5>1
        <5>2. CASE PAGEOF(i) = PAGEOF(drv.p)
          <6>1. i \in Int /\ drv.p \in Int
            BY <1>1 DEF Offsets, DrvOK
          <6>2. PageOf(i) /\ PageOf(drv.p)
            BY <6>1, Pages
          <6>3. i % PGLENB \in 0..((drv.p % PGLENB) - 1)
            <7>1. i % PGLENB = i - PAGEOF(i) /\ drv.p % PGLENB = drv.p - PAGEOF(i) /\ PAGEOF(i) \in Int /\ PAGEOF(i) <= i /\ i < drv.p
              BY <4>4, <5>2, <6>1, <6>2 DEF PageOf
            <7> QED
              BY <6>1, <7>1
          <6>4. chip.pmem[i % PGLENB] = Bits /\ chip.mem[i] \in SUBSET Bits
            BY <3>4, <4>2, <6>3 DEF Erased, Byte
          <6>5. chip'.mem[i] = chip.mem[i] \cap chip.pmem[i % PGLENB]
            BY <3>1, <4>2, <4>3, <5>2
          <6>6. \A x : x \in SUBSET Bits => x \cap Bits = x
            OBVIOUS
          <6> QED
            BY <6>4, <6>5, <6>6
        <5> QED
          BY <5>1, <5>2
      <4> QED
        BY <3>6, <4>4 DEF Burnt
    <3> QED
      BY <3>5, <3>6
  <2> QED
    BY <2>2, <2>3, <2>4
<1>15. ASSUME ~(w.op \in {"end", "leave"} /\ chip.state \in Burning) PROVE Burnt(chip'.mem)
  <2>1. SameMem(Sent(w, chip), chip)
    BY <1>1, <1>5, <1>15, SentMem
  <2> QED
    BY <1>5, <2>1 DEF Burnt, SameMem
<1> QED
  BY <1>13, <1>14, <1>15

(* BusOp preserves what is known of the contents. *)
LEMMA BusData == ASSUME IInv, Data, BusOp, UNCHANGED toolVars PROVE Data'
<1>1. DrvOK /\ ChipOK /\ Sane(chip) /\ MemOK
  BY DEF IInv, ChipOK, Data
<1>2. drv' = drv /\ fbuf' = fbuf /\ todo # <<>> /\ file' = file /\ nsec' = nsec /\ ram' = ram /\ result' = result
  BY DEF BusOp, toolVars
<1>3. drv.at \in {"erasing", "programming", "erased", "programmed", "nextpage", "written", "aborted"}
  BY <1>1, <1>2, NothingToSend DEF DrvOK
<1>4. result' # "ok" /\ ResultOK'
  BY <1>2, <1>3, NotYet
<1>5. MemOK'
  <2>1. Plan[Made + 1] \in Ops /\ chip' = Sent(Plan[Made + 1], chip)
    BY <1>1, BusFacts
  <2>2. chip.mem \in [Offsets -> Byte]
    BY <1>1 DEF MemOK
  <2>3. chip'.mem \in [Offsets -> Byte] /\ DOMAIN chip'.pmem = DOMAIN chip.pmem
    BY <1>1, <2>1, <2>2, SentArray
  <2> QED
    BY <1>1, <1>2, <2>3 DEF MemOK
<1>6. CASE drv.at = "aborted"
  <2>1. drv'.at \notin Writing \union {"load"}
    BY <1>2, <1>6 DEF Writing
  <2> QED
    BY <1>4, <1>5, <2>1, Outside
<1>7. CASE drv.at \in {"erased", "programmed", "nextpage", "written"}
  <2>1. SameMem(chip', chip)
    BY <1>7, ReturningMem
  <2>2. SameData
    BY <1>2, <2>1 DEF SameData, SameMem
  <2>3. MemOK' /\ FileOK' /\ DoneOK' /\ AheadOK' /\ LenOK'
    BY <1>7, <2>2, Framed
  <2>4. PendOK'
    BY <1>2, <1>7 DEF PendOK
  <2> QED
    BY <1>4, <2>3, <2>4 DEF Data
<1>8. CASE drv.at \in {"erasing", "programming"}
  <2>1. Burnt(chip'.mem) /\ PendOK'
    BY <1>8, BurningData
  <2>2. DoneOK' /\ AheadOK'
    BY <1>2, <1>8, <2>1, BurnKeeps
  <2>3. FileOK'
    <3>1. Placed(nsec)' <=> Placed(nsec)
      BY <1>2, ZenonT(60) DEF Placed, Bytes, EndOf
    <3> QED
      BY <1>2, <3>1, Zenon DEF Data, FileOK, EndOf, ValidSection, SECTOROF
  <2>4. LenOK'
    BY <1>2, Zenon DEF Data, LenOK, PAGEOF
  <2> QED
    BY <1>4, <1>5, <2>1, <2>2, <2>3, <2>4 DEF Data
<1> QED
  BY <1>3, <1>6, <1>7, <1>8

(* What is wanted and what is there depend on little. *)
LEMMA Level ==
    ASSUME chip'.mem = chip.mem, fbuf' = fbuf, drv'.s = drv.s, drv'.end = drv.end, drv'.short = drv.short
    PROVE  \A a : (Wanted(a)' <=> Wanted(a)) /\ (Same(a)' <=> Same(a))
<1>1. \A a : Wanted(a)' <=> Wanted(a)
  BY Zenon DEF Wanted
<1>2. \A a : Same(a)' <=> Same(a)
  BY DEF Same
<1> QED
  BY <1>1, <1>2

(* Goto keeps what is short. *)
LEMMA GotoShort == ASSUME IsDrv(drv), NEW at, Goto(at) PROVE drv'.short = drv.short
<1>1. drv' = [drv EXCEPT !.at = at]
  BY DEF Goto
<1> QED
  BY <1>1 DEF IsDrv

(* A step of write that leaves the buffers and the array alone. *)
Steady ==
    /\ fbuf' = fbuf /\ UNCHANGED <<file, nsec, ram>>
    /\ chip'.mem = chip.mem /\ DOMAIN chip'.pmem = DOMAIN chip.pmem
    /\ drv'.addr = drv.addr /\ drv'.end = drv.end
(* Such a step keeps what is known of file and memories. *)
LEMMA SteadyFile ==
    ASSUME Data, Steady, drv.at \in Writing, SECTOROF(drv'.s) = drv'.s
    PROVE  MemOK' /\ FileOK'
<1>1. /\ fbuf' = fbuf /\ file' = file /\ nsec' = nsec /\ ram' = ram
      /\ chip'.mem = chip.mem /\ DOMAIN chip'.pmem = DOMAIN chip.pmem
      /\ drv'.addr = drv.addr /\ drv'.end = drv.end
  BY DEF Steady
<1>2. MemOK'
  BY <1>1 DEF Data, MemOK
<1>3. Placed(nsec)' <=> Placed(nsec)
  BY <1>1, ZenonT(60) DEF Placed, Bytes, EndOf
<1>4. /\ Placed(nsec) /\ nsec \in Nat /\ file \in Files /\ nsec > SectionCount(file) /\ drv.addr = RESET_ADDRESS
      /\ \A i \in DOMAIN elfread(file) :
               /\ ValidSection(elfread(file)[i])
               /\ elfread(file)[i].dev = "flash" => EndOf(elfread(file)[i]) <= drv.end
  BY DEF Data, FileOK
<1>5. FileOK'
  <2>1. /\ Placed(nsec)' /\ nsec' \in Nat /\ file' \in Files /\ nsec' > SectionCount(file') /\ drv'.addr = RESET_ADDRESS
        /\ SECTOROF(drv'.s) = drv'.s
    BY <1>1, <1>3, <1>4
  <2>2. \A i \in DOMAIN elfread(file') :
               /\ ValidSection(elfread(file')[i])
               /\ elfread(file')[i].dev = "flash" => EndOf(elfread(file')[i]) <= drv'.end
    BY <1>1, <1>4, Zenon
  <2> HIDE DEF Steady
  <2> QED
    BY <2>1, <2>2, Zenon DEF FileOK, ValidSection, EndOf, SECTOROF
<1> QED
  BY <1>2, <1>5

(* Wait preserves what is known of the contents. *)
LEMMA WaitData == ASSUME IInv, Data, Wait, UNCHANGED toolVars PROVE Data'
<1>1. DrvOK /\ Sane(chip) /\ MemOK /\ PendOK /\ FileOK /\ DoneOK /\ AheadOK /\ LenOK /\ WaitOK
  BY DEF IInv, ChipOK, Data
<1>2. /\ drv.at \in {"erasing", "programming"} /\ todo = <<>> /\ Len(todo) = 0
      /\ chip' = ReceiveSlow(chip, Cmd("EMPTY"))
      /\ fbuf' = fbuf /\ file' = file /\ nsec' = nsec /\ ram' = ram /\ result' = result
  BY DEF Wait, PortWrite, F, Slow, toolVars
<1>3. SameMem(chip', chip)
  BY <1>1, <1>2, SlowMem
<1>4. ResultOK'
  BY <1>2, NotYet
<1>5. CASE chip.out = <<"wip", TRUE>>
  <2>1. todo' = todo /\ drv' = drv
    BY <1>5 DEF Wait
  <2>2. MemOK' /\ FileOK' /\ DoneOK' /\ AheadOK' /\ LenOK'
    BY <1>2, <1>3, <2>1, Framed DEF SameData, SameMem
  <2>3. PICK cmd \in {"SECTOR_ERASE", "PP"}, a \in Int, len \in Nat :
              /\ cmd = (IF drv.at = "erasing" THEN "SECTOR_ERASE" ELSE "PP")
              /\ a = (IF drv.at = "erasing" THEN drv.s ELSE drv.p)
              /\ len = (IF drv.at = "erasing" THEN 0 ELSE drv.len)
              /\ Commanded(Plan, 18 + len, cmd, a, len)
    BY <1>1, <1>2, BurnPlan
  <2>4. Made' = Made
    BY <1>2, <2>1 DEF Made, Plan, EraseCommands, ProgramCommands, WriteEnable, StartWait, Ops
  <2>5. Made = 18 + len
    BY <1>2, <2>3 DEF Made, Commanded
  <2>6. chip'.state \notin Burning
    <3>1. Offline(chip) /\ chip.n > 0 /\ chip.state = "RDSR"
      BY <1>1, <1>2 DEF WaitOK
    <3>2. chip'.state = "RDSR"
      BY <1>2, <3>1, StatusAgain
    <3> QED
      BY <3>2 DEF Burning
  <2>7. Pending(18 + len, chip', cmd, a, len)
    BY <2>6, PendQuiet
  <2>8. Made' = 18 + len /\ Made' # 0
    BY <2>4, <2>5
  <2>9. /\ drv.at = "erasing" => Pending(18 + len, chip', "SECTOR_ERASE", drv.s, 0)
        /\ drv.at = "programming" => Pending(18 + len, chip', "PP", drv.p, drv.len)
    BY <2>3, <2>7
  <2>10. PendOK'
    BY <2>1, <2>8, <2>9 DEF PendOK
  <2> QED
    BY <1>4, <2>2, <2>10 DEF Data
<1>6. CASE chip.out # <<"wip", TRUE>>
  <2> DEFINE at == IF drv.at = "erasing" THEN "erased" ELSE "programmed"
  <2>1. Goto(at)
    BY <1>6 DEF Wait
  <2>2. drv' = [drv EXCEPT !.at = at]
    BY <2>1 DEF Goto
  <2>3. /\ drv'.at = at /\ drv'.addr = drv.addr /\ drv'.end = drv.end /\ drv'.s = drv.s
        /\ drv'.p = drv.p /\ drv'.len = drv.len /\ drv'.short = drv.short
    BY <1>1, <2>2 DEF DrvOK, IsDrv
  <2>4. MemOK' /\ FileOK'
    <3>1. Steady
      BY <1>2, <1>3, <2>3 DEF Steady, SameMem
    <3>2. drv.at \in Writing
      BY <1>2 DEF Writing
    <3>3. SECTOROF(drv'.s) = drv'.s
      BY <1>1, <2>3, <3>2 DEF FileOK
    <3> QED
      BY <3>1, <3>2, <3>3, SteadyFile
  <2>5. \A a : (Wanted(a)' <=> Wanted(a)) /\ (Same(a)' <=> Same(a))
    <3>1. chip'.mem = chip.mem
      BY <1>3 DEF SameMem
    <3> QED
      BY <1>2, <2>3, <3>1, Level
  <2>6. Reached' = drv.p /\ Reached = drv.p /\ Ahead' = Ahead
    BY <1>2, <2>3 DEF Reached, Ahead
  <2>7. DoneOK'
    <3>1. \A a \in Offsets : Wanted(a)' /\ a < Reached' => Same(a)'
      BY <1>1, <1>2, <2>5, <2>6 DEF DoneOK, Writing
    <3>2. /\ drv'.at \in {"erasing", "erased"} => drv.at = "erasing"
          /\ drv'.at \in Paging => drv.at = "programming"
          /\ drv'.at # "written"
      BY <1>2, <2>3 DEF Paging
    <3> QED
      BY <1>1, <2>3, <3>1, <3>2 DEF DoneOK, Paging
  <2>8. Dense(Ahead)' <=> Dense(Ahead)
    BY <1>2, <2>5, <2>3, <2>6, Zenon DEF Dense, Full
  <2>9. Clean(Ahead)' <=> Clean(Ahead)
    BY <1>2, <1>3, <2>3, <2>5, <2>6, Zenon DEF Clean, SameMem
  <2>10. AheadOK'
    <3>1. drv'.at \in Paging => drv.at \in Paging /\ drv'.at # "page"
      BY <1>2, <2>3 DEF Paging
    <3> QED
      BY <1>1, <2>6, <2>8, <2>9, <3>1 DEF AheadOK
  <2>11. LenOK'
    <3>1. drv'.at \in {"programming", "programmed"} => drv.at = "programming"
      BY <1>2, <2>3
    <3> QED
      BY <1>1, <2>3, <3>1 DEF LenOK
  <2>12. PendOK'
    BY <2>3 DEF PendOK
  <2> QED
    BY <1>4, <2>4, <2>7, <2>10, <2>11, <2>12 DEF Data
<1> QED
  BY <1>5, <1>6

(* A read through the bus is of what is there, and leaves it there. *)
LEMMA ReadData ==
    ASSUME ChipOK, NEW a, NEW n, chip' = AfterRead(a, n)
    PROVE  SameMem(chip', chip)
<1>1. IsChip(chip)
  BY DEF ChipOK, Sane
<1>2. CASE ctl.user
  BY <1>2 DEF AfterRead, SameMem
<1>3. CASE ~ctl.user
  <2>1. chip' = [chip EXCEPT !.keep = TRUE, !.addr = IF chip.wip THEN a ELSE a + n * WORD + 1]
    BY <1>3 DEF AfterRead
  <2> QED
    BY <1>1, <2>1 DEF IsChip, SameMem
<1> QED
  BY <1>2, <1>3

(* VerifyErase preserves what is known of the contents. *)
LEMMA VerifyEraseData == ASSUME IInv, Data, VerifyErase, UNCHANGED toolVars PROVE Data'
<1>1. DrvOK /\ ChipOK /\ MemOK /\ FileOK /\ DoneOK /\ drv.at = "erased" /\ todo = <<>> /\ ctl.user = FALSE /\ Online(chip)
  BY Returned DEF IInv, VerifyErase, Deciding, Data
<1>2. /\ todo' = todo /\ ctl' = ctl /\ fbuf' = fbuf /\ file' = file /\ nsec' = nsec /\ ram' = ram /\ result' = result
  BY DEF VerifyErase, toolVars
<1>3. ResultOK' /\ result' # "ok"
  BY <1>1, <1>2, NotYet
<1>4. SameMem(chip', chip)
  <2>1. chip' = AfterRead(drv.s, SECTORSZB \div WORD)
    BY LoadAssumption DEF VerifyErase
  <2> QED
    BY <1>1, <2>1, ReadData
<1>5. PICK stale \in StaleWords : Goto(IF Verify /\ \E a \in drv.s..(drv.s + SECTORSZB - 1) : ReadWith(stale, a) # Erased
                                      THEN "failed" ELSE "page")
  BY DEF VerifyErase
<1>6. CASE \E a \in drv.s..(drv.s + SECTORSZB - 1) : ReadWith(stale, a) # Erased
  <2>1. Goto("failed")
    BY <1>5, <1>6, LoadAssumption
  <2>2. drv'.at = "failed"
    BY <1>1, <2>1, GotoIs DEF DrvOK
  <2>3. MemOK'
    BY <1>1, <1>2, <1>4 DEF MemOK, SameMem
  <2>4. drv'.at \notin Writing \union {"load"}
    BY <2>2 DEF Writing
  <2> QED
    BY <1>3, <2>3, <2>4, Outside
<1>7. CASE ~\E a \in drv.s..(drv.s + SECTORSZB - 1) : ReadWith(stale, a) # Erased
  <2>1. Goto("page")
    BY <1>5, <1>7
  <2>2. /\ drv'.at = "page" /\ drv'.addr = drv.addr /\ drv'.end = drv.end /\ drv'.s = drv.s
        /\ drv'.p = drv.p /\ drv'.len = drv.len /\ drv'.short = drv.short
    BY <1>1, <2>1, GotoIs, GotoShort DEF DrvOK
  <2>3. MemOK' /\ FileOK'
    <3>1. Steady
      BY <1>2, <1>4, <2>2 DEF Steady, SameMem
    <3>2. drv.at \in Writing
      BY <1>1 DEF Writing
    <3>3. SECTOROF(drv'.s) = drv'.s
      BY <1>1, <2>2, <3>2 DEF FileOK
    <3> QED
      BY <3>1, <3>2, <3>3, SteadyFile
  <2>4. \A a : (Wanted(a)' <=> Wanted(a)) /\ (Same(a)' <=> Same(a))
    <3>1. chip'.mem = chip.mem
      BY <1>4 DEF SameMem
    <3> QED
      BY <1>2, <2>2, <3>1, Level
  <2>5. Reached' = drv.p /\ Reached = drv.p /\ Ahead' = drv.p
    BY <1>1, <2>2 DEF Reached, Ahead
  <2>6. DoneOK'
    <3>1. \A a \in Offsets : Wanted(a)' /\ a < Reached' => Same(a)'
      BY <1>1, <2>4, <2>5 DEF DoneOK, Writing
    <3>2. drv.p >= RESET_ADDRESS
      BY <1>1 DEF DoneOK
    <3> QED
      BY <2>2, <3>1, <3>2 DEF DoneOK
  <2>7. Clean(Ahead)'
    <3>1. ASSUME NEW a \in Offsets, Wanted(a), a >= drv.p PROVE chip.mem[a] = Erased
      <4>1. a \in Int /\ drv.s \in Int /\ drv.p \in Int /\ drv.p >= drv.s /\ SECTORSZB \in Nat /\ a < drv.s + SECTORSZB
        BY <1>1, <3>1, FlashSizes DEF Offsets, DrvOK, DoneOK, Wanted
      <4>2. a \in drv.s..(drv.s + SECTORSZB - 1)
        BY <3>1, <4>1
      <4>3. ReadWith(stale, a) = Erased
        BY <1>7, <4>2
      <4>4. ReadWith(stale, a) = chip.mem[a]
        BY <1>1 DEF ReadWith, Online
      <4> QED
        BY <4>3, <4>4
    <3> QED
      BY <1>4, <2>4, <2>5, <3>1, Zenon DEF Clean, SameMem
  <2>8. AheadOK'
    <3>1. ctl'.user = FALSE
      BY <1>1, <1>2
    <3> QED
      BY <2>7, <3>1 DEF AheadOK
  <2>9. LenOK' /\ PendOK'
    BY <2>2 DEF LenOK, PendOK
  <2> QED
    BY <1>3, <2>3, <2>6, <2>8, <2>9 DEF Data
<1> QED
  BY <1>6, <1>7

(* VerifyPage preserves what is known of the contents. *)
LEMMA VerifyPageData == ASSUME IInv, Data, VerifyPage, UNCHANGED toolVars PROVE Data'
<1>1. /\ DrvOK /\ ChipOK /\ MemOK /\ FileOK /\ DoneOK /\ AheadOK /\ LenOK
      /\ drv.at = "programmed" /\ todo = <<>> /\ ctl.user = FALSE /\ Online(chip)
  BY Returned DEF IInv, VerifyPage, Deciding, Data
<1>2. /\ todo' = todo /\ ctl' = ctl /\ fbuf' = fbuf /\ file' = file /\ nsec' = nsec /\ ram' = ram /\ result' = result
  BY DEF VerifyPage, toolVars
<1>3. ResultOK' /\ result' # "ok"
  BY <1>1, <1>2, NotYet
<1> DEFINE words == drv.len \div WORD
<1>4. SameMem(chip', chip)
  <2>1. chip' = AfterRead(drv.p, words)
    BY LoadAssumption DEF VerifyPage
  <2> QED
    BY <1>1, <2>1, ReadData
<1>5. PICK stale \in StaleWords : Goto(IF Verify /\ \E a \in drv.p..(drv.p + words * WORD - 1) : ReadWith(stale, a) # fbuf[a]
                                      THEN "failed" ELSE "nextpage")
  BY DEF VerifyPage
<1>6. CASE \E a \in drv.p..(drv.p + words * WORD - 1) : ReadWith(stale, a) # fbuf[a]
  <2>1. Goto("failed")
    BY <1>5, <1>6, LoadAssumption
  <2>2. drv'.at = "failed"
    BY <1>1, <2>1, GotoIs DEF DrvOK
  <2>3. MemOK'
    BY <1>1, <1>2, <1>4 DEF MemOK, SameMem
  <2>4. drv'.at \notin Writing \union {"load"}
    BY <2>2 DEF Writing
  <2> QED
    BY <1>3, <2>3, <2>4, Outside
<1>7. CASE ~\E a \in drv.p..(drv.p + words * WORD - 1) : ReadWith(stale, a) # fbuf[a]
  <2>1. Goto("nextpage")
    BY <1>5, <1>7
  <2>2. /\ drv'.at = "nextpage" /\ drv'.addr = drv.addr /\ drv'.end = drv.end /\ drv'.s = drv.s
        /\ drv'.p = drv.p /\ drv'.len = drv.len /\ drv'.short = drv.short
    BY <1>1, <2>1, GotoIs, GotoShort DEF DrvOK
  <2>3. MemOK' /\ FileOK'
    <3>1. Steady
      BY <1>2, <1>4, <2>2 DEF Steady, SameMem
    <3>2. drv.at \in Writing
      BY <1>1 DEF Writing
    <3>3. SECTOROF(drv'.s) = drv'.s
      BY <1>1, <2>2, <3>2 DEF FileOK
    <3> QED
      BY <3>1, <3>2, <3>3, SteadyFile
  <2>m. chip'.mem = chip.mem
    BY <1>4 DEF SameMem
  <2>4. \A a : (Wanted(a)' <=> Wanted(a)) /\ (Same(a)' <=> Same(a))
    BY <1>2, <2>2, <2>m, Level
  <2>5. Reached = drv.p /\ Reached' = PAGEOF(drv.p + PGLENB) /\ Ahead' = Ahead
    BY <1>1, <2>2 DEF Reached, Ahead
  <2>6. DoneOK'
    <3>1. ASSUME NEW a \in Offsets, Wanted(a), a < PAGEOF(drv.p + PGLENB) PROVE Same(a)
      <4>1. CASE a < drv.p
        BY <1>1, <2>5, <3>1, <4>1 DEF DoneOK, Writing
      <4>2. CASE ~(a < drv.p)
        <5>1. a \in Int /\ drv.p \in Int /\ drv.len \in Int /\ WORD \in Nat /\ WORD > 0
          BY <1>1, LoadAssumption DEF Offsets, DrvOK
        <5>2. words \in Int
          BY <5>1, Divides
        <5> HIDE DEF words
        <5> DEFINE m == drv.p + words * WORD
        <5>3. m \in Int /\ m = drv.p + WORD * words
          BY <5>1, <5>2
        <5>4. PAGEOF(drv.p + PGLENB) \in Int
          BY <5>1, AheadWord
        <5>5. CASE a < m
          <6>0. a <= m - 1
            <7> HIDE DEF m
            <7> QED
              BY <5>1, <5>3, <5>5
          <6>1. a \in drv.p..(drv.p + words * WORD - 1)
            BY <4>2, <5>1, <5>2, <6>0
          <6>2. ReadWith(stale, a) = fbuf[a]
            BY <1>7, <6>1, Zenon
          <6>3. ReadWith(stale, a) = chip.mem[a]
            BY <1>1 DEF ReadWith, Online
          <6> QED
            BY <6>2, <6>3 DEF Same
        <5>6. CASE ~(a < m)
          <6>1. a \in m..(PAGEOF(drv.p + PGLENB) - 1)
            <7> HIDE DEF m
            <7> QED
              BY <3>1, <5>1, <5>3, <5>4, <5>6
          <6>2. \A x \in m..(PAGEOF(drv.p + PGLENB) - 1) : x \in drv.short
            BY <1>1, <5>3 DEF LenOK, words
          <6> QED
            BY <6>1, <6>2 DEF Same
        <5> QED
          BY <5>5, <5>6
      <4> QED
        BY <4>1, <4>2
    <3>2. \A a \in Offsets : Wanted(a)' /\ a < Reached' => Same(a)'
      BY <2>4, <2>5, <3>1
    <3>3. drv'.p >= RESET_ADDRESS
      BY <1>1, <2>2 DEF DoneOK, Paging
    <3> QED
      BY <2>2, <3>2, <3>3 DEF DoneOK
  <2>7. Dense(Ahead)' <=> Dense(Ahead)
    BY <1>2, <2>2, <2>4, <2>5, Zenon DEF Dense, Full
  <2>8. Clean(Ahead)' <=> Clean(Ahead)
    BY <1>2, <2>2, <2>4, <2>5, <2>m, Zenon DEF Clean
  <2>9. AheadOK'
    <3>1. drv.at \in Paging
      BY <1>1 DEF Paging
    <3> QED
      BY <1>1, <2>2, <2>5, <2>7, <2>8, <3>1 DEF AheadOK
  <2>10. LenOK' /\ PendOK'
    BY <2>2 DEF LenOK, PendOK
  <2> QED
    BY <1>3, <2>3, <2>6, <2>9, <2>10 DEF Data
<1> QED
  BY <1>6, <1>7

(* PageDone preserves what is known of the contents. *)
LEMMA PageDoneData == ASSUME IInv, Data, PageDone, UNCHANGED toolVars PROVE Data'
<1>1. /\ DrvOK /\ ChipOK /\ MemOK /\ FileOK /\ DoneOK /\ AheadOK
      /\ drv.at = "nextpage" /\ todo = <<>> /\ ctl.user = FALSE
  BY Returned DEF IInv, PageDone, Deciding, Data
<1>2. /\ chip' = chip /\ ctl' = ctl /\ fbuf' = fbuf /\ file' = file /\ nsec' = nsec /\ ram' = ram /\ result' = result
      /\ drv' = [drv EXCEPT !.at = "page", !.p = PAGEOF(@ + PGLENB)]
  BY DEF PageDone, toolVars
<1>3. ResultOK'
  BY <1>1, <1>2, NotYet
<1>4. /\ drv'.at = "page" /\ drv'.addr = drv.addr /\ drv'.end = drv.end /\ drv'.s = drv.s
      /\ drv'.p = PAGEOF(drv.p + PGLENB) /\ drv'.short = drv.short
  BY <1>1, <1>2 DEF DrvOK, IsDrv
<1>5. MemOK' /\ FileOK'
  <2>1. Steady
    BY <1>2, <1>4 DEF Steady
  <2>2. drv.at \in Writing
    BY <1>1 DEF Writing
  <2>3. SECTOROF(drv'.s) = drv'.s
    BY <1>1, <1>4, <2>2 DEF FileOK
  <2> QED
    BY <2>1, <2>2, <2>3, SteadyFile
<1>6. \A a : (Wanted(a)' <=> Wanted(a)) /\ (Same(a)' <=> Same(a))
  BY <1>2, <1>4, Level
<1>7. Reached = PAGEOF(drv.p + PGLENB) /\ Reached' = Reached /\ Ahead' = Ahead
  BY <1>1, <1>4 DEF Reached, Ahead
<1>8. DoneOK'
  <2>1. \A a \in Offsets : Wanted(a)' /\ a < Reached' => Same(a)'
    BY <1>1, <1>6, <1>7 DEF DoneOK, Writing
  <2>2. drv'.p >= RESET_ADDRESS
    <3>0. drv.p >= RESET_ADDRESS
      BY <1>1 DEF DoneOK, Paging
    <3>a. PGLENB \in Nat /\ PGLENB > 0
      BY FlashSizes
    <3>b. RESET_ADDRESS \in Int
      BY LoadAssumption
    <3>1. drv.p \in Int
      BY <1>1 DEF DrvOK
    <3>2. PageOf(drv.p)
      BY <3>1, Pages
    <3>3. PAGEOF(drv.p + PGLENB) > drv.p /\ PAGEOF(drv.p + PGLENB) \in Int
      BY <3>a, <3>1, <3>2 DEF PageOf
    <3> QED
      BY <1>4, <3>0, <3>b, <3>1, <3>3
  <2> QED
    BY <1>4, <2>1, <2>2 DEF DoneOK
<1>9. Dense(Ahead)' <=> Dense(Ahead)
  BY <1>2, <1>4, <1>6, <1>7, Zenon DEF Dense, Full
<1>10. Clean(Ahead)' <=> Clean(Ahead)
  BY <1>2, <1>4, <1>6, <1>7, Zenon DEF Clean
<1>11. AheadOK'
  <2>1. drv.at \in Paging
    BY <1>1 DEF Paging
  <2> QED
    BY <1>1, <1>2, <1>7, <1>9, <1>10, <2>1 DEF AheadOK
<1>12. LenOK' /\ PendOK'
  BY <1>4 DEF LenOK, PendOK
<1> QED
  BY <1>3, <1>5, <1>8, <1>11, <1>12 DEF Data

(* SectorDone preserves what is known of the contents. *)
LEMMA SectorDoneData == ASSUME IInv, Data, SectorDone, UNCHANGED toolVars PROVE Data'
<1>1. DrvOK /\ ChipOK /\ MemOK /\ FileOK /\ DoneOK /\ drv.at = "page" /\ todo = <<>>
  BY DEF IInv, SectorDone, Deciding, Data
<1>2. /\ chip' = chip /\ ctl' = ctl /\ fbuf' = fbuf /\ file' = file /\ nsec' = nsec /\ ram' = ram /\ result' = result
      /\ drv' = [drv EXCEPT !.at = "sector", !.s = @ + SECTORSZB]
  BY DEF SectorDone, toolVars
<1>3. ResultOK'
  BY <1>1, <1>2, NotYet
<1>4. /\ drv'.at = "sector" /\ drv'.addr = drv.addr /\ drv'.end = drv.end /\ drv'.s = drv.s + SECTORSZB
      /\ drv'.p = drv.p /\ drv'.short = drv.short
  BY <1>1, <1>2 DEF DrvOK, IsDrv
<1>t. drv.s \in Int /\ drv.p \in Int /\ drv.end \in Int /\ SECTORSZB \in Nat /\ drv.at \in Writing
  BY <1>1, FlashSizes DEF DrvOK, Writing
<1>5. MemOK' /\ FileOK'
  <2>1. Steady
    BY <1>2, <1>4 DEF Steady
  <2>2. SectorOf(drv.s)
    BY <1>t, Sectors
  <2>3. SECTOROF(drv'.s) = drv'.s
    BY <1>1, <1>4, <1>t, <2>2 DEF FileOK, SectorOf
  <2> QED
    BY <1>t, <2>1, <2>3, SteadyFile
<1>6. DoneOK'
  <2>1. Reached = drv.p /\ Reached' = drv.s + SECTORSZB
    BY <1>1, <1>4 DEF Reached
  <2>2. ASSUME NEW a \in Offsets, Wanted(a)', a < Reached' PROVE Same(a)'
    <3>1. a \in Int /\ a >= RESET_ADDRESS /\ a < drv.end /\ a < drv.s + SECTORSZB
      BY <1>4, <2>1, <2>2 DEF Offsets, Wanted
    <3>2. Wanted(a)
      BY <3>1 DEF Wanted
    <3>3. a < drv.p
      BY <1>t, <3>1 DEF SectorDone, EndOfPages
    <3>4. Same(a)
      BY <1>1, <1>t, <2>1, <3>2, <3>3 DEF DoneOK
    <3> QED
      BY <1>2, <1>4, <3>4 DEF Same
  <2> QED
    BY <1>4, <2>2 DEF DoneOK, Paging
<1>7. AheadOK' /\ LenOK' /\ PendOK'
  BY <1>4 DEF AheadOK, Paging, LenOK, PendOK
<1> QED
  BY <1>3, <1>5, <1>6, <1>7 DEF Data

(* Finish preserves what is known of the contents. *)
LEMMA FinishData == ASSUME IInv, Data, Finish, UNCHANGED toolVars PROVE Data'
<1>1. DrvOK /\ ChipOK /\ MemOK /\ FileOK /\ DoneOK /\ drv.at = "sector" /\ todo = <<>>
  BY DEF IInv, Finish, Deciding, Data
<1>2. /\ chip' = chip /\ ctl' = ctl /\ fbuf' = fbuf /\ file' = file /\ nsec' = nsec /\ ram' = ram /\ result' = result
      /\ Goto("written") /\ drv.s >= SECTOROF(drv.end + SECTORSZB - 1)
  BY DEF Finish, Stay, toolVars
<1>3. ResultOK'
  BY <1>1, <1>2, NotYet
<1>4. /\ drv'.at = "written" /\ drv'.addr = drv.addr /\ drv'.end = drv.end /\ drv'.s = drv.s /\ drv'.short = drv.short
  BY <1>1, <1>2, GotoIs, GotoShort DEF DrvOK
<1>5. MemOK' /\ FileOK'
  <2>1. Steady
    BY <1>2, <1>4 DEF Steady
  <2>2. drv.at \in Writing
    BY <1>1 DEF Writing
  <2>3. SECTOROF(drv'.s) = drv'.s
    BY <1>1, <1>4, <2>2 DEF FileOK
  <2> QED
    BY <2>1, <2>2, <2>3, SteadyFile
<1>6. \A a : (Wanted(a)' <=> Wanted(a)) /\ (Same(a)' <=> Same(a))
  BY <1>2, <1>4, Level
<1>7. DoneOK'
  <2>1. Reached = drv.s /\ Reached' = drv.s
    BY <1>1, <1>4 DEF Reached
  <2>2. \A a \in Offsets : Wanted(a)' /\ a < Reached' => Same(a)'
    BY <1>1, <1>6, <2>1 DEF DoneOK, Writing
  <2>3. drv.s >= drv.end
    <3>1. drv.end \in Int /\ SECTORSZB \in Nat /\ SECTORSZB > 0 /\ drv.s \in Int
      BY <1>1, FlashSizes DEF DrvOK
    <3> DEFINE x == drv.end + SECTORSZB - 1
    <3>2. x \in Int
      BY <3>1
    <3>3. SectorOf(x)
      BY <3>2, Sectors
    <3>4. SECTOROF(x) \in Int /\ x < SECTOROF(x) + SECTORSZB
      BY <3>3 DEF SectorOf
    <3>5. drv.s >= SECTOROF(x)
      BY <1>2
    <3> QED
      BY <3>1, <3>4, <3>5
  <2> QED
    BY <1>4, <2>2, <2>3 DEF DoneOK, Paging
<1>8. AheadOK' /\ LenOK' /\ PendOK'
  BY <1>4 DEF AheadOK, Paging, LenOK, PendOK
<1> QED
  BY <1>3, <1>5, <1>7, <1>8 DEF Data

(* At first nothing has been loaded. *)
LEMMA InitData == ASSUME Init PROVE Data
<1>1. PICK image \in Images : chip = PowerUp(Loaded(0, image))
  BY DEF Init
<1>2. /\ drv.at = "idle" /\ result = "none" /\ fbuf = [a \in Offsets |-> Erased] /\ ram = [a \in 0..(RAMLEN - 1) |-> Erased]
  BY DEF Init, IdleDriver
<1>3. chip.mem = Loaded(0, image) /\ chip.pmem = [i \in 0..(PGLENB - 1) |-> Erased]
  BY <1>1 DEF PowerUp
<1>4. Loaded(0, image) \in [Offsets -> Byte]
  <2>1. image \in Seq(Byte)
    BY LoadAssumption
  <2>2. ASSUME NEW i \in Offsets, i >= 0 /\ i < 0 + Len(image) PROVE image[i - 0 + 1] \in Byte
    <3>1. i \in Int /\ Len(image) \in Nat
      BY <2>1 DEF Offsets
    <3>2. i - 0 + 1 \in 1..Len(image)
      BY <2>2, <3>1
    <3> QED
      BY <2>1, <3>2
  <2>3. Erased \in Byte
    BY DEF Erased, Byte
  <2> QED
    BY <2>2, <2>3 DEF Loaded
<1>5. MemOK
  BY <1>2, <1>3, <1>4 DEF MemOK
<1>6. FileOK /\ DoneOK /\ AheadOK /\ LenOK /\ PendOK /\ ResultOK
  BY <1>2 DEF FileOK, DoneOK, AheadOK, LenOK, PendOK, ResultOK, Writing, Paging
<1> QED
  BY <1>5, <1>6 DEF Data

(* Nothing changes. *)
LEMMA StutterData == ASSUME Data, UNCHANGED vars PROVE Data'
<1>1. /\ chip' = chip /\ ctl' = ctl /\ todo' = todo /\ drv' = drv /\ fbuf' = fbuf
      /\ file' = file /\ nsec' = nsec /\ extent' = extent /\ ram' = ram /\ result' = result
  BY DEF vars, drvVars, toolVars
<1>2. MemOK' /\ FileOK' /\ DoneOK' /\ AheadOK' /\ LenOK'
  <2>1. SameData
    BY <1>1 DEF SameData
  <2> QED
    BY <1>1, <2>1, Framed
<1>3. PendOK'
  <2>1. Made' = Made
    BY <1>1 DEF Made, Plan, EraseCommands, ProgramCommands, WriteEnable, StartWait, Ops
  <2>2. Dense(Ahead)' <=> Dense(Ahead)
    BY <1>1, Zenon DEF Dense, Full, Ahead, Wanted
  <2> QED
    BY <1>1, <2>1, <2>2, Zenon DEF Data, PendOK
<1>4. ResultOK'
  <2>1. LoadedUnlessShort' <=> LoadedUnlessShort
    <3>1. \A i, a : Overwritten(i, a)' <=> Overwritten(i, a)
      BY <1>1, Zenon DEF Overwritten, Taken, Past, EndOfWords, Bytes, EndOf
    <3>2. \A sec, a : Holds(sec, a)' <=> Holds(sec, a)
      BY <1>1 DEF Holds
    <3> QED
      BY <1>1, <3>1, <3>2, Zenon DEF LoadedUnlessShort, Bytes, EndOf
  <2> QED
    BY <1>1, <2>1, Zenon DEF Data, ResultOK
<1> QED
  BY <1>2, <1>3, <1>4 DEF Data

(* A run that starts or ends otherwise than well. *)
LEMMA EndData ==
    ASSUME Data, drv'.at \in {"idle", "halt"}, result' # "ok", chip' = chip, ram' = ram, DOMAIN fbuf' = DOMAIN fbuf
    PROVE  Data'
<1>1. MemOK'
  BY DEF Data, MemOK
<1>2. drv'.at \notin Writing \union {"load"}
  BY DEF Writing
<1> QED
  BY <1>1, <1>2, Outside
(* Start preserves what is known of the contents. *)
LEMMA StartData == ASSUME IInv, Data, Start PROVE Data'
<1>1. /\ Goto("halt") /\ result' = "none" /\ chip' = chip /\ ram' = ram /\ fbuf' = [a \in Offsets |-> Erased]
  BY DEF Start
<1>2. drv'.at = "halt"
  BY <1>1, GotoIs DEF IInv, DrvOK
<1>3. DOMAIN fbuf' = DOMAIN fbuf
  BY <1>1 DEF Data, MemOK
<1> QED
  BY <1>1, <1>2, <1>3, EndData
(* Kill preserves what is known of the contents. *)
LEMMA KillData == ASSUME IInv, Data, Kill PROVE Data'
<1>1. /\ drv' = IdleDriver /\ result' = "killed" /\ chip' = chip /\ ram' = ram /\ fbuf' = fbuf
  BY DEF Kill, Exit
<1>2. drv'.at = "idle"
  BY <1>1 DEF IdleDriver
<1> QED
  BY <1>1, <1>2, EndData
(* Failed preserves what is known of the contents. *)
LEMMA FailedData == ASSUME IInv, Data, Failed PROVE Data'
<1>1. /\ drv' = IdleDriver /\ result' = "fail" /\ chip' = chip /\ ram' = ram /\ fbuf' = fbuf
  BY DEF Failed, Exit
<1>2. drv'.at = "idle"
  BY <1>1 DEF IdleDriver
<1> QED
  BY <1>1, <1>2, EndData

(* So does Misaligned. *)
LEMMA MisalignedData == ASSUME IInv, Data, Misaligned PROVE Data'
<1>1. /\ drv' = IdleDriver /\ result' = "fail" /\ chip' = chip /\ ram' = ram /\ fbuf' = fbuf
  BY DEF Misaligned, Exit
<1>2. drv'.at = "idle"
  BY <1>1 DEF IdleDriver
<1> QED
  BY <1>1, <1>2, EndData

(* Halt preserves what is known of the contents: no section is before the first. *)
LEMMA HaltData == ASSUME IInv, Data, Halt PROVE Data'
<1>1. DrvOK /\ HaltOK /\ drv.at = "halt"
  BY DEF IInv, Halt
<1>2. chip' = chip /\ fbuf' = fbuf /\ ram' = ram
  BY DEF Halt
<1>3. CASE ~(\A i \in DOMAIN elfread(file) : ValidSection(elfread(file)[i]))
  <2>1. drv' = IdleDriver /\ result' = "fail"
    BY <1>3 DEF Halt, Exit
  <2>2. drv'.at = "idle"
    BY <2>1 DEF IdleDriver
  <2> QED
    BY <1>2, <2>1, <2>2, EndData
<1>4. CASE \A i \in DOMAIN elfread(file) : ValidSection(elfread(file)[i])
  <2>1. Goto("load") /\ file' = file /\ nsec' = nsec /\ result' = result
    BY <1>4 DEF Halt
  <2>2. drv'.at = "load"
    BY <1>1, <2>1, GotoIs DEF DrvOK
  <2>3. ResultOK'
    BY <1>1, <2>1, NotYet
  <2>4. MemOK'
    BY <1>2 DEF Data, MemOK
  <2>5. Placed(nsec)'
    <3>1. file \in Files /\ nsec = 1
      BY <1>1 DEF HaltOK
    <3>2. DOMAIN elfread(file) = 1..SectionCount(file) /\ SectionCount(file) \in Nat
      BY <3>1, FileSections
    <3>3. \A i \in DOMAIN elfread(file') : ~(i < nsec')
      BY <2>1, <3>1, <3>2
    <3> QED
      BY <3>3 DEF Placed
  <2>6. FileOK' /\ DoneOK' /\ AheadOK' /\ LenOK' /\ PendOK'
    BY <2>2, <2>5 DEF FileOK, DoneOK, AheadOK, LenOK, PendOK, Writing, Paging
  <2> QED
    BY <2>3, <2>4, <2>6 DEF Data
<1> QED
  BY <1>3, <1>4

(* What putting a section leaves in a memory. *)
LEMMA PutIs ==
    ASSUME NEW mem, NEW sec
    PROVE  /\ DOMAIN Put(mem, sec) = DOMAIN mem
           /\ \A a \in DOMAIN mem :
                 Put(mem, sec)[a] = IF a >= sec.start /\ a < EndOf(sec) THEN sec.data[a - sec.start + 1] ELSE mem[a]
BY DEF Put

(* A section has the addresses of its bytes, and in block memory those up to the end of a word. *)
LEMMA TakenIs ==
    ASSUME NEW sec \in Header
    PROVE  /\ Bytes(sec) \subseteq Taken(sec)
           /\ \A a \in Past(sec) : a \in Int /\ ~(a < EndOf(sec))
           /\ sec.dev = "bkram" => Taken(sec) = Bytes(sec) \union Past(sec)
           /\ sec.dev = "flash" => Taken(sec) = Bytes(sec)
<1>1. sec.start \in Nat /\ sec.data \in Seq(Byte)
  BY DEF Header
<1>2. Len(sec.data) \in Nat
  BY <1>1
<1>3. EndOf(sec) \in Nat
  BY <1>1, <1>2 DEF EndOf
<1>4. EndOfWords(sec) \in Int
  <2>1. WORD \in Nat /\ WORD > 0
    BY LoadAssumption
  <2>2. (Len(sec.data) + WORD - 1) \div WORD \in Int
    BY <1>2, <2>1
  <2>3. ASSUME NEW words \in Int PROVE sec.start + WORD * words \in Int
    <3>1. sec.start \in Int /\ WORD \in Int
      BY <1>1, <2>1
    <3>2. WORD * words \in Int
      BY <3>1
    <3> QED
      BY <3>1, <3>2
  <2> QED
    BY <2>2, <2>3 DEF EndOfWords
<1>5. \A a \in Past(sec) : a \in Int /\ ~(a < EndOf(sec))
  BY <1>3, <1>4 DEF Past
<1> QED
  BY <1>5 DEF Taken

(* What writing a section in words leaves in block memory. *)
LEMMA PutWordsIs ==
    ASSUME NEW mem, NEW sec \in Header, NEW past
    PROVE  /\ DOMAIN PutWords(mem, sec, past) = DOMAIN mem
           /\ \A a \in DOMAIN mem :
                 /\ a >= sec.start /\ a < EndOf(sec) => PutWords(mem, sec, past)[a] = sec.data[a - sec.start + 1]
                 /\ ~(a >= sec.start /\ a < EndOf(sec)) /\ a \notin Past(sec) => PutWords(mem, sec, past)[a] = mem[a]
<1>1. \A a \in DOMAIN mem :
         PutWords(mem, sec, past)[a] = IF a \in Past(sec) THEN past[a] ELSE Put(mem, sec)[a]
  BY DEF PutWords
<1>2. \A a \in Past(sec) : ~(a < EndOf(sec))
  BY TakenIs
<1>3. DOMAIN PutWords(mem, sec, past) = DOMAIN mem
  BY DEF PutWords
<1> QED
  BY <1>1, <1>2, <1>3, PutIs

(* The bytes of a header. *)
LEMMA BytesOf ==
    ASSUME NEW sec \in Header, NEW a
    PROVE  /\ sec.start \in Nat /\ EndOf(sec) \in Nat /\ sec.dev \in {"bkram", "flash"}
           /\ a \in Bytes(sec) <=> a \in Int /\ a >= sec.start /\ a < EndOf(sec)
<1>1. sec.start \in Nat /\ sec.data \in Seq(Byte) /\ sec.dev \in {"bkram", "flash"}
  BY DEF Header
<1>2. Len(sec.data) \in Nat
  BY <1>1
<1>3. EndOf(sec) \in Nat
  BY <1>1, <1>2 DEF EndOf
<1> QED
  BY <1>1, <1>3 DEF Bytes

(* A valid section has its bytes in its memory. *)
LEMMA InMemory ==
    ASSUME NEW sec \in Header, ValidSection(sec), NEW a \in Bytes(sec)
    PROVE  /\ sec.dev = "bkram" => a \in 0..(RAMLEN - 1)
           /\ sec.dev = "flash" => a \in Offsets /\ a >= RESET_ADDRESS
<1>1. /\ sec.start \in Nat /\ EndOf(sec) \in Nat /\ sec.dev \in {"bkram", "flash"}
      /\ a \in Int /\ a >= sec.start /\ a < EndOf(sec)
  BY BytesOf
<1>2. RAMLEN \in Nat /\ RESET_ADDRESS \in Nat
  BY LoadAssumption
<1>3. FLASHLEN \in Int
  <2>1. SECTORSZB \in Int /\ NSECTORS \in Int
    BY FlashSizes, FlashAssumption
  <2> QED
    BY <2>1 DEF FLASHLEN
<1>4. CASE sec.dev = "bkram"
  BY <1>1, <1>2, <1>4 DEF ValidSection
<1>5. CASE sec.dev = "flash"
  <2>1. sec.start >= RESET_ADDRESS /\ EndOf(sec) <= FLASHLEN
    BY <1>5 DEF ValidSection
  <2> QED
    BY <1>1, <1>2, <1>3, <1>5, <2>1 DEF Offsets
<1> QED
  BY <1>1, <1>4, <1>5

(* LoadSection preserves what is known of the contents. *)
LEMMA LoadSectionData == ASSUME IInv, Data, LoadSection PROVE Data'
<1>1. DrvOK /\ LoadOK /\ MemOK /\ FileOK /\ drv.at = "load" /\ nsec <= SectionCount(file)
  BY DEF IInv, Data, LoadSection
<1>2. nsec' = nsec + 1 /\ chip' = chip /\ drv' = drv /\ file' = file /\ result' = result
  BY DEF LoadSection
<1>3. file \in Files /\ nsec \in Nat \ {0} /\ (\A i \in DOMAIN elfread(file) : ValidSection(elfread(file)[i])) /\ Placed(nsec)
  BY <1>1 DEF LoadOK, FileOK
<1>4. /\ SectionCount(file) \in Nat /\ DOMAIN elfread(file) = 1..SectionCount(file)
      /\ \A i \in DOMAIN elfread(file) : elfread(file)[i] \in Header
  BY <1>3, FileSections
<1> DEFINE sec == elfread(file)[nsec]
           secs == elfread(file)
<1>5. nsec \in DOMAIN secs /\ sec \in Header /\ ValidSection(sec)
  BY <1>1, <1>3, <1>4
<1>6. sec.dev \in {"bkram", "flash"}
  BY <1>5, BytesOf
<1>7. /\ sec.dev = "bkram" => (\E past : ram' = PutWords(ram, sec, past)) /\ fbuf' = fbuf
      /\ sec.dev = "flash" => ram' = ram /\ fbuf' = Put(fbuf, sec)
  BY DEF LoadSection
<1>14. sec.dev = "bkram" =>
         /\ DOMAIN ram' = DOMAIN ram
         /\ \A a \in DOMAIN ram :
              /\ a >= sec.start /\ a < EndOf(sec) => ram'[a] = sec.data[a - sec.start + 1]
              /\ ~(a >= sec.start /\ a < EndOf(sec)) /\ a \notin Past(sec) => ram'[a] = ram[a]
  <2> HIDE DEF sec
  <2> QED
    BY <1>5, <1>7, PutWordsIs
<1>8. MemOK'
  BY <1>1, <1>2, <1>6, <1>7, <1>14, PutIs DEF MemOK
<1>9. DOMAIN ram = 0..(RAMLEN - 1) /\ DOMAIN fbuf = Offsets
  BY <1>1 DEF MemOK
<1>10. ASSUME NEW i \in DOMAIN secs, i < nsec + 1, NEW a \in Bytes(secs[i])
       PROVE  \/ \E j \in DOMAIN secs : i < j /\ j < nsec + 1 /\ secs[j].dev = secs[i].dev /\ a \in Taken(secs[j])
              \/ (IF secs[i].dev = "bkram" THEN ram'[a] ELSE fbuf'[a]) = secs[i].data[a - secs[i].start + 1]
  <2>1. i \in Int /\ nsec \in Int /\ secs[i] \in Header /\ ValidSection(secs[i])
    BY <1>3, <1>4
  <2>2. /\ secs[i].dev = "bkram" => a \in DOMAIN ram
        /\ secs[i].dev = "flash" => a \in DOMAIN fbuf
        /\ secs[i].dev \in {"bkram", "flash"}
    BY <1>9, <2>1, InMemory, BytesOf
  <2>3. CASE i = nsec
    <3>1. a >= sec.start /\ a < EndOf(sec)
      BY <1>5, <1>10, <2>3, BytesOf
    <3>2. CASE sec.dev = "bkram"
      <4>1. ram'[a] = sec.data[a - sec.start + 1]
        BY <1>14, <2>2, <2>3, <3>1, <3>2
      <4> QED
        BY <2>3, <3>2, <4>1
    <3>3. CASE sec.dev = "flash"
      <4>1. fbuf'[a] = sec.data[a - sec.start + 1]
        BY <1>7, <2>2, <2>3, <3>1, <3>3, PutIs
      <4>2. sec.dev # "bkram"
        BY <3>3
      <4> QED
        BY <2>3, <4>1, <4>2
    <3> QED
      BY <1>6, <3>2, <3>3
  <2>4. CASE i # nsec
    <3>1. i < nsec
      BY <1>10, <2>1, <2>4
    <3>2. \/ \E j \in DOMAIN secs : i < j /\ j < nsec /\ secs[j].dev = secs[i].dev /\ a \in Taken(secs[j])
          \/ (IF secs[i].dev = "bkram" THEN ram[a] ELSE fbuf[a]) = secs[i].data[a - secs[i].start + 1]
      BY <1>3, <1>10, <3>1 DEF Placed
    <3>3. CASE \E j \in DOMAIN secs : i < j /\ j < nsec /\ secs[j].dev = secs[i].dev /\ a \in Taken(secs[j])
      <4>1. \A j \in DOMAIN secs : j < nsec => j < nsec + 1
        BY <1>4, <2>1
      <4> QED
        BY <3>3, <4>1
    <3>4. CASE sec.dev = secs[i].dev /\ a \in Taken(sec)
      <4>1. nsec < nsec + 1
        BY <2>1
      <4> QED
        BY <1>5, <3>1, <3>4, <4>1
    <3>5. CASE ~(sec.dev = secs[i].dev /\ a \in Taken(sec))
      <4>0. a \in Int
        BY <1>10, <2>1, BytesOf
      <4>1. sec.dev = secs[i].dev => ~(a >= sec.start /\ a < EndOf(sec))
        <5>1. Bytes(sec) \subseteq Taken(sec)
          BY <1>5, TakenIs
        <5> QED
          BY <1>5, <3>5, <4>0, <5>1, BytesOf
      <4>4. sec.dev = secs[i].dev /\ sec.dev = "bkram" => a \notin Past(sec)
        BY <1>5, <3>5, TakenIs
      <4>2. CASE secs[i].dev = "bkram"
        <5>1. ram'[a] = ram[a]
          <6>1. CASE sec.dev = "bkram"
            BY <1>14, <2>2, <4>1, <4>2, <4>4, <6>1
          <6>2. CASE sec.dev = "flash"
            BY <1>7, <6>2
          <6> QED
            BY <1>6, <6>1, <6>2
        <5> QED
          BY <3>2, <3>3, <4>2, <5>1
      <4>3. CASE secs[i].dev = "flash"
        <5>1. fbuf'[a] = fbuf[a]
          <6>1. CASE sec.dev = "flash"
            BY <1>7, <2>2, <4>1, <4>3, <6>1, PutIs
          <6>2. CASE sec.dev = "bkram"
            BY <1>7, <6>2
          <6> QED
            BY <1>6, <6>1, <6>2
        <5>2. secs[i].dev # "bkram"
          BY <4>3
        <5> QED
          BY <3>2, <3>3, <5>1, <5>2
      <4> QED
        BY <2>2, <4>2, <4>3
    <3> QED
      BY <3>4, <3>5
  <2> QED
    BY <2>3, <2>4
<1>11. Placed(nsec)'
  BY <1>2, <1>10 DEF Placed, Taken, Past, EndOfWords, Bytes, EndOf
<1>12. ResultOK'
  BY <1>1, <1>2, NotYet
<1>13. FileOK' /\ DoneOK' /\ AheadOK' /\ LenOK' /\ PendOK'
  BY <1>1, <1>2, <1>11 DEF FileOK, DoneOK, AheadOK, LenOK, PendOK, Writing, Paging
<1> QED
  BY <1>8, <1>12, <1>13 DEF Data

(* WriteFlash preserves what is known of the contents: nothing is done yet. *)
LEMMA WriteFlashData == ASSUME IInv, Data, WriteFlash PROVE Data'
<1>1. DrvOK /\ LoadOK /\ MemOK /\ FileOK /\ drv.at = "load" /\ nsec > SectionCount(file)
  BY DEF IInv, Data, WriteFlash
<1>2. extent.start = RESET_ADDRESS /\ extent.len \in Nat /\ extent.len > 0
  BY <1>1, Gathered
<1>3. chip' = chip /\ fbuf' = fbuf /\ file' = file /\ nsec' = nsec /\ ram' = ram /\ result' = result
  BY DEF WriteFlash, toolVars
<1>4. drv' = [at |-> "sector", addr |-> RESET_ADDRESS, end |-> RESET_ADDRESS + extent.len,
              s |-> SECTOROF(RESET_ADDRESS), p |-> None, len |-> 0, short |-> {}]
  BY <1>2 DEF WriteFlash, StartWrite
<1>5. drv'.at = "sector" /\ drv'.addr = RESET_ADDRESS /\ drv'.end = RESET_ADDRESS + extent.len /\ drv'.s = SECTOROF(RESET_ADDRESS)
  BY <1>4
<1>6. /\ file \in Files /\ nsec \in Nat \ {0} /\ Placed(nsec)
      /\ \A i \in DOMAIN elfread(file) : ValidSection(elfread(file)[i])
      /\ \A i \in DOMAIN elfread(file) :
            i < nsec /\ elfread(file)[i].dev = "flash" => EndOf(elfread(file)[i]) <= RESET_ADDRESS + extent.len
  BY <1>1 DEF LoadOK, FileOK
<1>7. SectionCount(file) \in Nat /\ DOMAIN elfread(file) = 1..SectionCount(file)
  BY <1>6, FileSections
<1>8. RESET_ADDRESS \in Int /\ SECTOROF(RESET_ADDRESS) \in Int /\ SECTOROF(RESET_ADDRESS) <= RESET_ADDRESS
      /\ SECTOROF(SECTOROF(RESET_ADDRESS)) = SECTOROF(RESET_ADDRESS)
  <2>1. RESET_ADDRESS \in Int /\ SECTORSZB \in Nat /\ SECTORSZB > 0
    BY LoadAssumption, FlashSizes
  <2>2. SectorOf(RESET_ADDRESS)
    BY <2>1, Sectors
  <2> DEFINE m == SECTOROF(RESET_ADDRESS)
  <2>3. m \in Int /\ m % SECTORSZB = 0 /\ m <= RESET_ADDRESS
    BY <2>2 DEF SectorOf
  <2> HIDE DEF m
  <2>4. m <= m /\ m < m + SECTORSZB
    BY <2>1, <2>3
  <2>5. SECTOROF(m) = m
    BY <2>3, <2>4, SectorBytes
  <2> QED
    BY <2>1, <2>3, <2>5 DEF m
<1>9. MemOK'
  BY <1>1, <1>3 DEF MemOK
<1>10. ResultOK'
  BY <1>1, <1>3, NotYet
<1>11. FileOK'
  <2>1. Placed(nsec)'
    <3>1. Placed(nsec)' <=> Placed(nsec)
      BY <1>3, ZenonT(60) DEF Placed, Bytes, EndOf
    <3> QED
      BY <1>6, <3>1
  <2>2. \A i \in DOMAIN elfread(file) : i < nsec
    BY <1>1, <1>6, <1>7
  <2>3. \A i \in DOMAIN elfread(file) :
               /\ ValidSection(elfread(file)[i])
               /\ elfread(file)[i].dev = "flash" => EndOf(elfread(file)[i]) <= drv'.end
    BY <1>5, <1>6, <2>2
  <2>4. drv'.addr = RESET_ADDRESS /\ SECTOROF(drv'.s) = drv'.s /\ nsec \in Nat
    BY <1>5, <1>6, <1>8
  <2>5. drv'.at # "load"
    BY <1>5
  <2> QED
    BY <1>1, <1>3, <1>6, <2>1, <2>3, <2>4, <2>5, Zenon DEF FileOK, ValidSection, EndOf, SECTOROF
<1>12. DoneOK'
  <2>1. Reached' = SECTOROF(RESET_ADDRESS)
    BY <1>5 DEF Reached
  <2>2. ASSUME NEW a \in Offsets, Wanted(a)', a < Reached' PROVE FALSE
    <3>1. a \in Int /\ a >= RESET_ADDRESS /\ a < SECTOROF(RESET_ADDRESS)
      BY <2>1, <2>2 DEF Offsets, Wanted
    <3> QED
      BY <1>8, <3>1
  <2> QED
    BY <1>5, <2>2 DEF DoneOK, Paging
<1>13. AheadOK' /\ LenOK' /\ PendOK'
  BY <1>5 DEF AheadOK, LenOK, PendOK, Paging
<1> QED
  BY <1>9, <1>10, <1>11, <1>12, <1>13 DEF Data

(* Done: what is in fbuf is in the flash. *)
LEMMA DoneData == ASSUME IInv, Data, Done PROVE Data'
<1>1. DrvOK /\ MemOK /\ FileOK /\ DoneOK /\ drv.at = "written" /\ todo = <<>> /\ Online(chip)
  BY Returned DEF IInv, Data, Done, Deciding
<1>2. todo' = todo /\ chip' = chip /\ fbuf' = fbuf /\ ram' = ram /\ file' = file /\ Goto("idle")
  BY DEF Done
<1>3. drv'.at = "idle" /\ drv'.short = drv.short
  BY <1>1, <1>2, GotoIs, GotoShort DEF DrvOK
<1>4. MemOK'
  BY <1>1, <1>2 DEF MemOK
<1> DEFINE secs == elfread(file)
<1>5. /\ Placed(nsec) /\ nsec \in Nat /\ file \in Files /\ nsec > SectionCount(file)
      /\ \A i \in DOMAIN secs : ValidSection(secs[i]) /\ (secs[i].dev = "flash" => EndOf(secs[i]) <= drv.end)
  BY <1>1 DEF FileOK, Writing
<1>6. /\ SectionCount(file) \in Nat /\ DOMAIN secs = 1..SectionCount(file)
      /\ \A i \in DOMAIN secs : secs[i] \in Header
  BY <1>5, FileSections
<1>7. ASSUME NEW i \in DOMAIN secs, NEW a \in Bytes(secs[i])
      PROVE  Overwritten(i, a) \/ Holds(secs[i], a) \/ (secs[i].dev = "flash" /\ a \in drv.short)
  <2>1. i \in Int /\ i < nsec /\ secs[i] \in Header /\ ValidSection(secs[i])
    BY <1>5, <1>6
  <2>2. \/ \E j \in DOMAIN secs : i < j /\ j < nsec /\ secs[j].dev = secs[i].dev /\ a \in Taken(secs[j])
        \/ (IF secs[i].dev = "bkram" THEN ram[a] ELSE fbuf[a]) = secs[i].data[a - secs[i].start + 1]
    BY <1>5, <1>7, <2>1 DEF Placed
  <2>3. CASE \E j \in DOMAIN secs : i < j /\ j < nsec /\ secs[j].dev = secs[i].dev /\ a \in Taken(secs[j])
    <3>1. \A j \in DOMAIN secs : i < j => j > i
      BY <1>6, <2>1
    <3> QED
      BY <2>3, <3>1 DEF Overwritten
  <2>4. CASE secs[i].dev = "bkram" /\ ~Overwritten(i, a)
    <3>1. CASE ram[a] = secs[i].data[a - secs[i].start + 1]
      BY <2>4, <3>1 DEF Holds
    <3> QED
      BY <2>2, <2>3, <2>4, <3>1
  <2>5. CASE secs[i].dev = "flash"
    <3>0. secs[i].dev # "bkram"
      BY <2>5
    <3>1. CASE fbuf[a] = secs[i].data[a - secs[i].start + 1]
      <4>1. a \in Offsets /\ a >= RESET_ADDRESS
        BY <2>1, <2>5, InMemory
      <4>2. a \in Int /\ a < EndOf(secs[i]) /\ EndOf(secs[i]) \in Int /\ EndOf(secs[i]) <= drv.end
        BY <1>5, <2>1, <2>5, BytesOf
      <4>3. drv.s \in Int /\ drv.end \in Int /\ drv.s >= drv.end /\ SECTORSZB \in Nat
        BY <1>1, FlashSizes DEF DrvOK, DoneOK
      <4>4. Wanted(a) /\ a < drv.s
        BY <4>1, <4>2, <4>3 DEF Wanted
      <4>5. Reached = drv.s /\ drv.at \in Writing
        BY <1>1 DEF Reached, Writing
      <4>6. Same(a)
        BY <1>1, <4>1, <4>4, <4>5 DEF DoneOK
      <4> QED
        BY <2>5, <3>0, <3>1, <4>6 DEF Same, Holds
    <3> QED
      BY <2>2, <2>3, <3>0, <3>1
  <2>6. secs[i].dev \in {"bkram", "flash"}
    BY <2>1, BytesOf
  <2> QED
    BY <2>4, <2>5, <2>6
<1>8. LoadedUnlessShort'
  <2>1. \A i, a : Overwritten(i, a)' <=> Overwritten(i, a)
    BY <1>2, Zenon DEF Overwritten, Taken, Past, EndOfWords, Bytes, EndOf
  <2>2. \A sec, a : Holds(sec, a)' <=> Holds(sec, a)
    BY <1>2 DEF Holds
  <2> QED
    BY <1>2, <1>3, <1>7, <2>1, <2>2, Zenon DEF LoadedUnlessShort, Bytes, EndOf
<1>9. ResultOK'
  <2>1. chip.wip = FALSE
    BY <1>1 DEF Online
  <2> QED
    BY <1>1, <1>2, <1>3, <1>8, <2>1 DEF ResultOK
<1>10. FileOK' /\ DoneOK' /\ AheadOK' /\ LenOK' /\ PendOK'
  BY <1>3 DEF FileOK, DoneOK, AheadOK, LenOK, PendOK, Writing, Paging
<1> QED
  BY <1>4, <1>9, <1>10 DEF Data

(* What is clean, or dense, from x on is so from m on, as long as what is short there stays so. *)
LEMMA CleanOn ==
    ASSUME NEW x \in Int, NEW m \in Int, x <= m, Clean(x), fbuf' = fbuf, chip'.mem = chip.mem, drv'.s = drv.s, drv'.end = drv.end,
           \A a \in Offsets : a >= m /\ a \in drv.short => a \in drv'.short
    PROVE  Clean(m)'
<1>1. ASSUME NEW a \in Offsets, Wanted(a)', a >= m, fbuf'[a] = Erased PROVE chip'.mem[a] = Erased \/ a \in drv'.short
  <2>1. a \in Int /\ Wanted(a) /\ fbuf[a] = Erased
    BY <1>1 DEF Offsets, Wanted
  <2>2. a >= x
    BY <1>1, <2>1
  <2>3. chip.mem[a] = Erased \/ a \in drv.short
    BY <1>1, <2>1, <2>2 DEF Clean
  <2> QED
    BY <1>1, <2>3
<1> QED
  BY <1>1 DEF Clean

(* The same of what is dense. *)
LEMMA DenseOn ==
    ASSUME NEW x \in Int, NEW m \in Int, x <= m, Dense(x), fbuf' = fbuf, drv'.s = drv.s, drv'.end = drv.end,
           \A a \in Offsets : a >= m /\ a \in drv.short => a \in drv'.short
    PROVE  Dense(m)'
<1>1. PICK lim \in Int, r \in 0..(WORD - 1) :
        /\ lim % WORD = 0 /\ Full(lim, r)
        /\ \A a \in Offsets : Wanted(a) /\ a >= lim /\ a >= x => a \in drv.short
  BY DEF Dense
<1>2. Full(lim, r)'
  BY <1>1 DEF Full
<1>3. ASSUME NEW a \in Offsets, Wanted(a)', a >= lim, a >= m PROVE a \in drv'.short
  <2>1. a \in Int /\ Wanted(a)
    BY <1>3 DEF Offsets, Wanted
  <2>2. a >= x
    BY <1>3, <2>1
  <2>3. a \in drv.short
    BY <1>1, <1>3, <2>1, <2>2
  <2> QED
    BY <1>3, <2>3
<1> QED
  BY <1>1, <1>2, <1>3 DEF Dense

(* page_program is told of no more than the rest of the page. *)
LEMMA ClippedFits ==
    ASSUME DrvOK, NEW junk \in UninitLen
    PROVE  drv.p + ClippedLen(drv.p, junk) <= PAGEOF(drv.p + PGLENB)
<1>1. drv.addr \in Int /\ drv.p \in Int /\ junk \in Int /\ PGLENB \in Nat
  BY LoadAssumption, FlashSizes DEF DrvOK
<1> DEFINE last == LastByte(junk)
           m == PAGEOF(drv.p + PGLENB)
<1>2. last \in Int
  BY <1>1 DEF LastByte
<1>3. PageOf(drv.p) /\ PageOf(last)
  <2> HIDE DEF last
  <2> QED
    BY <1>1, <1>2, Pages
<1>4. m \in Int /\ m = PAGEOF(drv.p) + PGLENB /\ PAGEOF(drv.p) \in Int
  BY <1>1, <1>3 DEF PageOf
<1>5. last < PAGEOF(last) + PGLENB /\ PAGEOF(last) \in Int
  BY <1>3 DEF PageOf
<1>6. ClippedLen(drv.p, junk) = IF PAGEOF(last) # PAGEOF(drv.p) THEN m - drv.p ELSE last + 1 - drv.p
  BY DEF ClippedLen
<1> HIDE DEF last, m
<1>7. CASE PAGEOF(last) # PAGEOF(drv.p)
  BY <1>1, <1>4, <1>6, <1>7 DEF m
<1>8. CASE PAGEOF(last) = PAGEOF(drv.p)
  <2>1. last + 1 <= m
    BY <1>1, <1>2, <1>4, <1>5, <1>8
  <2>2. drv.p + (last + 1 - drv.p) = last + 1
    BY <1>1, <1>2
  <2> QED
    BY <1>6, <1>8, <2>1, <2>2 DEF m
<1> QED
  BY <1>7, <1>8

(* A length in words, rounded up. *)
LEMMA RoundUp ==
    ASSUME NEW len \in Int, len > 0
    PROVE  WORD * ((len + WORD - 1) \div WORD) \in Int /\ WORD * ((len + WORD - 1) \div WORD) >= len
<1> DEFINE x == len + WORD - 1
           q == x \div WORD
           r == x % WORD
<1>1. WORD \in Nat /\ WORD > 0 /\ x \in Int
  BY LoadAssumption
<1> HIDE DEF x
<1>2. r \in 0..(WORD - 1) /\ q \in Int /\ x = WORD * q + r
  BY <1>1, Divides
<1> HIDE DEF q, r
<1>3. WORD * q \in Int
  BY <1>1, <1>2
<1> DEFINE t == WORD * q
<1> HIDE DEF t
<1>4. t >= len
  BY <1>1, <1>2, <1>3 DEF t, x
<1> QED
  BY <1>3, <1>4 DEF t, q, x

(* A page of which the words read are to be erased bytes is so, or is short. *)
LEMMA EmptyPage ==
    ASSUME AheadOK, DoneOK, DrvOK, drv.at = "page", NEW n \in Int, n >= WORD,
           \A a \in drv.p..(drv.p + n - 1) : fbuf[a] = Erased,
           NEW a \in Offsets, Wanted(a), a >= drv.p, a < drv.p + n
    PROVE  Same(a)
<1>1. /\ a \in Int /\ drv.p \in Int /\ drv.p >= RESET_ADDRESS /\ RESET_ADDRESS \in Int
  BY LoadAssumption DEF Offsets, DrvOK, DoneOK, Paging
<1>2. WORD \in Nat /\ WORD > 0
  BY LoadAssumption
<1>3. fbuf[a] = Erased
  <2>1. a \in drv.p..(drv.p + n - 1)
    BY <1>1
  <2> QED
    BY <2>1
<1>4. Ahead = drv.p /\ (Clean(drv.p) \/ (Dense(drv.p) /\ drv.p % WORD = 0))
  BY DEF AheadOK, Ahead, Paging
<1>5. CASE Clean(drv.p)
  BY <1>3, <1>5 DEF Clean, Same
<1>6. CASE Dense(drv.p) /\ drv.p % WORD = 0
  <2>1. PICK lim \in Int, r \in 0..(WORD - 1) :
        /\ lim % WORD = 0 /\ Full(lim, r)
        /\ \A b \in Offsets : Wanted(b) /\ b >= lim /\ b >= drv.p => b \in drv.short
    BY <1>6 DEF Dense
  <2>2. CASE a >= lim
    BY <2>1, <2>2 DEF Same
  <2>3. CASE ~(a >= lim)
    <3>1. drv.p < lim
      BY <1>1, <2>1, <2>3
    <3>2. drv.p + WORD <= lim
      BY <1>1, <1>2, <1>6, <2>1, <3>1, Apart
    <3> DEFINE b == drv.p + r
    <3>3. b % WORD = r
      BY <1>1, <1>2, <1>6, <2>1, Beyond, SMTT(60)
    <3>4. b \in Int /\ b >= drv.p /\ b >= RESET_ADDRESS /\ b <= lim - 1 /\ b <= drv.p + n - 1
      BY <1>1, <1>2, <2>1, <3>2
    <3> HIDE DEF b
    <3>5. fbuf[b] = Erased
      <4>1. b \in drv.p..(drv.p + n - 1)
        BY <1>1, <3>4
      <4> QED
        BY <4>1
    <3>6. fbuf[b] # Erased
      <4>1. b \in RESET_ADDRESS..(lim - 1)
        BY <1>1, <2>1, <3>4
      <4> QED
        BY <2>1, <3>3, <4>1 DEF Full
    <3> QED
      BY <3>5, <3>6
  <2> QED
    BY <2>2, <2>3
<1> QED
  BY <1>4, <1>5, <1>6

(* Nothing is known of the chip before a plan's first write. *)
LEMMA PendNone == ASSUME NEW c, NEW cmd, NEW a, NEW len \in Nat PROVE Pending(0, c, cmd, a, len)
<1>1. ~(0 \in 1..11) /\ ~(0 > 15 + len) /\ 0 # 11 /\ 0 \notin 12..(15 + len) /\ 0 \notin 12..14 /\ 0 \notin 15..(15 + len)
      /\ 0 # 12 /\ 0 # 13 /\ 0 # 14 /\ 0 # 15
  OBVIOUS
<1> QED
  BY <1>1 DEF Pending

(* A chip that is to burn something was left off line. *)
LEMMA BurningUser == ASSUME ChipOK, chip.state \in Burning PROVE ctl.user
<1>1. ctl.user = FALSE => chip.state = "QUAD_READ_IDLE"
  BY DEF ChipOK, Online
<1>2. "QUAD_READ_IDLE" \notin Burning
  BY DEF Burning
<1> QED
  BY <1>1, <1>2 DEF ChipOK

(* NextPage preserves what is known of the contents. *)
LEMMA NextPageData == ASSUME IInv, Data, NextPage, UNCHANGED toolVars PROVE Data'
<1>1. /\ DrvOK /\ ChipOK /\ FreshOK /\ MemOK /\ FileOK /\ DoneOK /\ AheadOK /\ drv.at = "page" /\ todo = <<>>
      /\ drv.at \in Writing /\ drv.at \in Paging
  BY DEF IInv, NextPage, Deciding, Data, Writing, Paging
<1>2. /\ ctl' = ctl /\ fbuf' = fbuf /\ chip' = chip /\ file' = file /\ nsec' = nsec /\ ram' = ram /\ result' = result
  BY DEF NextPage, Stay, toolVars
<1>3. ResultOK' /\ result' # "ok"
  BY <1>1, <1>2, NotYet
<1>4. MemOK'
  BY <1>1, <1>2 DEF MemOK
<1>o. Ops' = Ops
  BY <1>2 DEF Ops
<1>5. PICK junk \in UninitLen :
         LET len == ClippedLen(drv.p, junk)
             bytes == drv.p..(drv.p + len - 1)
             read == drv.p..(drv.p + WORD * ((len + WORD - 1) \div WORD) - 1)
             page == drv.p..(PAGEOF(drv.p + PGLENB) - 1)
         IN CASE len <= 0 -> Goto("aborted") /\ Commands(take_offline)
              [] len > 0 /\ (\A a \in read : fbuf[a] = Erased) ->
                    /\ drv' = [drv EXCEPT !.at = "nextpage", !.short = @ \union (page \ bytes)]
                    /\ Commands(take_offline \o place_online)
              [] OTHER ->
                    /\ drv' = [drv EXCEPT !.at = "programming", !.len = len,
                                 !.short = (@ \ page) \union {a \in page : a >= drv.p + WORD * (len \div WORD)}]
                    /\ Commands(ProgramCommands(drv.p, len))
  BY DEF NextPage
<1> DEFINE len == ClippedLen(drv.p, junk)
           bytes == drv.p..(drv.p + len - 1)
           read == drv.p..(drv.p + WORD * ((len + WORD - 1) \div WORD) - 1)
           page == drv.p..(PAGEOF(drv.p + PGLENB) - 1)
<1>6. len \in Int /\ drv.p + len <= PAGEOF(drv.p + PGLENB)
  BY <1>1, ClippedInt, ClippedFits
<1>7. PICK m \in Int : m = PAGEOF(drv.p + PGLENB) /\ m % WORD = 0 /\ drv.p <= m
  <2>1. drv.p \in Int /\ PGLENB \in Nat /\ PGLENB > 0
    BY <1>1, FlashSizes DEF DrvOK
  <2>2. PageOf(drv.p) /\ PAGEOF(drv.p + PGLENB) \in Int /\ PAGEOF(drv.p + PGLENB) % WORD = 0
    BY <2>1, Pages, AheadWord
  <2>3. drv.p <= PAGEOF(drv.p + PGLENB)
    BY <2>1, <2>2 DEF PageOf
  <2> QED
    BY <2>2, <2>3
<1>8. PICK p \in Int : p = drv.p /\ p >= RESET_ADDRESS
  BY <1>1 DEF DrvOK, DoneOK
<1>9. Reached = p /\ Ahead = p /\ (Clean(p) \/ (Dense(p) /\ p % WORD = 0)) /\ (ctl.user => Dense(p))
  <2>1. Reached = drv.p /\ Ahead = drv.p
    BY <1>1 DEF Reached, Ahead
  <2> QED
    BY <1>1, <1>8, <2>1 DEF AheadOK
<1>10. ASSUME len <= 0 PROVE Data'
  <2>0. ~(len > 0)
    BY <1>6, <1>10
  <2>1. Goto("aborted")
    BY <1>5, <1>10, <2>0
  <2>2. drv'.at = "aborted"
    BY <1>1, <2>1, GotoIs DEF DrvOK
  <2>3. drv'.at \notin Writing \union {"load"}
    BY <2>2 DEF Writing
  <2> QED
    BY <1>3, <1>4, <2>3, Outside
<1>11. ASSUME len > 0, \A a \in read : fbuf[a] = Erased PROVE Data'
  <2>0. ~(len <= 0)
    BY <1>6, <1>11
  <2>1. drv' = [drv EXCEPT !.at = "nextpage", !.short = @ \union (page \ bytes)]
    BY <1>5, <1>11, <2>0
  <2> HIDE DEF bytes, page
  <2>2. /\ drv'.at = "nextpage" /\ drv'.addr = drv.addr /\ drv'.end = drv.end /\ drv'.s = drv.s
        /\ drv'.p = drv.p /\ drv'.len = drv.len /\ drv'.short = drv.short \union (page \ bytes)
    BY <1>1, <2>1 DEF DrvOK, IsDrv
  <2>3. FileOK'
    <3>1. Steady
      BY <1>2, <2>2 DEF Steady
    <3>2. SECTOROF(drv'.s) = drv'.s
      BY <1>1, <2>2 DEF FileOK
    <3> QED
      BY <1>1, <3>1, <3>2, SteadyFile DEF Data
  <2>4. \A a : a \in drv.short => a \in drv'.short
    BY <2>2
  <2>5. Reached' = m /\ Ahead' = m
    BY <1>7, <2>2 DEF Reached, Ahead
  <2>6. DoneOK'
    <3>1. ASSUME NEW a \in Offsets, Wanted(a)', a < m PROVE Same(a)'
      <4>1. a \in Int /\ Wanted(a)
        BY <2>2, <3>1 DEF Offsets, Wanted
      <4>2. CASE a < p
        <5>1. Same(a)
          BY <1>1, <1>9, <4>1, <4>2 DEF DoneOK
        <5> QED
          BY <1>2, <2>4, <5>1 DEF Same
      <4>3. CASE ~(a < p) /\ a < p + len
        <5> DEFINE n == WORD * ((len + WORD - 1) \div WORD)
        <5> HIDE DEF len
        <5>1. n \in Int /\ n >= len /\ n >= WORD
          BY <1>6, <1>11, RoundUp, WholeWord
        <5>2. \A b \in drv.p..(drv.p + n - 1) : fbuf[b] = Erased
          BY <1>11
        <5>3. a >= drv.p /\ a < drv.p + n
          <6> HIDE DEF n
          <6> QED
            BY <1>6, <1>8, <4>1, <4>3, <5>1
        <5> HIDE DEF n
        <5>4. Same(a)
          BY <1>1, <4>1, <5>1, <5>2, <5>3, EmptyPage
        <5> QED
          BY <1>2, <2>4, <5>4 DEF Same
      <4>4. CASE ~(a < p) /\ ~(a < p + len)
        <5>1. a \in page
          BY <1>7, <1>8, <3>1, <4>1, <4>4 DEF page
        <5>2. a \notin bytes
          <6> HIDE DEF len
          <6> QED
            BY <1>6, <1>8, <4>1, <4>4 DEF bytes
        <5> QED
          BY <2>2, <5>1, <5>2 DEF Same
      <4> QED
        BY <4>2, <4>3, <4>4
    <3>2. \A a \in Offsets : Wanted(a)' /\ a < Reached' => Same(a)'
      BY <2>5, <3>1
    <3>3. drv'.p >= RESET_ADDRESS
      BY <1>8, <2>2
    <3> QED
      BY <2>2, <3>2, <3>3 DEF DoneOK
  <2>7. AheadOK'
    <3>1. Clean(p) => Clean(m)'
      BY <1>2, <1>7, <1>8, <2>2, <2>4, CleanOn
    <3>2. Dense(p) => Dense(m)'
      BY <1>2, <1>7, <1>8, <2>2, <2>4, DenseOn
    <3>3. Clean(Ahead)' \/ (Dense(Ahead)' /\ Ahead' % WORD = 0)
      BY <1>7, <1>9, <2>5, <3>1, <3>2 DEF Clean, Dense
    <3> QED
      BY <2>2, <3>3 DEF AheadOK
  <2>8. LenOK' /\ PendOK'
    BY <2>2 DEF LenOK, PendOK
  <2> QED
    BY <1>3, <1>4, <2>3, <2>6, <2>7, <2>8 DEF Data
<1>12. ASSUME len > 0, ~(\A a \in read : fbuf[a] = Erased) PROVE Data'
  <2>0. ~(len <= 0)
    BY <1>6, <1>12
  <2> DEFINE sh == (drv.short \ page) \union {a \in page : a >= drv.p + WORD * (len \div WORD)}
  <2>1. /\ drv' = [drv EXCEPT !.at = "programming", !.len = len, !.short = sh]
        /\ todo' = ProgramCommands(drv.p, len)
    <3>1. drv.short = drv.short
      OBVIOUS
    <3> QED
      BY <1>5, <1>12, <2>0 DEF Commands
  <2> HIDE DEF bytes, page, sh
  <2>2. /\ drv'.at = "programming" /\ drv'.addr = drv.addr /\ drv'.end = drv.end /\ drv'.s = drv.s
        /\ drv'.p = drv.p /\ drv'.len = len /\ drv'.short = sh
    BY <1>1, <2>1 DEF DrvOK, IsDrv
  <2>3. FileOK'
    <3>1. Steady
      BY <1>2, <2>2 DEF Steady
    <3>2. SECTOROF(drv'.s) = drv'.s
      BY <1>1, <2>2 DEF FileOK
    <3> QED
      BY <1>1, <3>1, <3>2, SteadyFile DEF Data
  <2>4. \A a \in Int : (a < p \/ a >= m) /\ a \in drv.short => a \in drv'.short
    <3>1. \A a \in Int : a < p \/ a >= m => a \notin page
      BY <1>7, <1>8 DEF page
    <3> QED
      BY <2>2, <3>1 DEF sh
  <2>o. \A a \in Offsets : a \in Int
    BY DEF Offsets
  <2>5. Reached' = p /\ Ahead' = m
    BY <1>7, <1>8, <2>2 DEF Reached, Ahead
  <2>6. DoneOK'
    <3>1. ASSUME NEW a \in Offsets, Wanted(a)', a < p PROVE Same(a)'
      <4>1. a \in Int /\ Wanted(a)
        BY <2>2, <2>o, <3>1 DEF Wanted
      <4>2. Same(a)
        BY <1>1, <1>9, <3>1, <4>1 DEF DoneOK
      <4>3. a \in drv.short => a \in drv'.short
        BY <2>4, <3>1, <4>1
      <4> QED
        BY <1>2, <4>2, <4>3 DEF Same
    <3>2. \A a \in Offsets : Wanted(a)' /\ a < Reached' => Same(a)'
      BY <2>5, <3>1
    <3>3. drv'.p >= RESET_ADDRESS
      BY <1>8, <2>2
    <3> QED
      BY <2>2, <3>2, <3>3 DEF DoneOK
  <2>7. \A a \in Offsets : a >= m /\ a \in drv.short => a \in drv'.short
    BY <2>4, <2>o
  <2>8. Dense(p) => Dense(Ahead)'
    <3>1. Dense(p) => Dense(m)'
      BY <1>2, <1>7, <1>8, <2>2, <2>7, DenseOn
    <3> QED
      BY <2>5, <3>1 DEF Dense
  <2>9. AheadOK'
    <3>1. Clean(p) => Clean(m)'
      BY <1>2, <1>7, <1>8, <2>2, <2>7, CleanOn
    <3>2. Clean(p) => Clean(Ahead)'
      BY <2>5, <3>1 DEF Clean
    <3>3. Clean(Ahead)' \/ (Dense(Ahead)' /\ Ahead' % WORD = 0)
      BY <1>7, <1>9, <2>5, <2>8, <3>2
    <3> QED
      BY <2>2, <3>3 DEF AheadOK
  <2>10. LenOK'
    <3>1. drv'.len > 0 /\ drv'.p + drv'.len <= PAGEOF(drv'.p + PGLENB)
      BY <1>6, <1>12, <2>2
    <3>2. \A a \in (drv'.p + WORD * (drv'.len \div WORD))..(PAGEOF(drv'.p + PGLENB) - 1) : a \in drv'.short
      <4> DEFINE k == WORD * (len \div WORD)
      <4>1. k \in Int /\ k >= 0
        <5> HIDE DEF len
        <5>1. WORD \in Nat /\ WORD > 0
          BY LoadAssumption
        <5>2. len \div WORD \in Int /\ len % WORD \in 0..(WORD - 1) /\ len = WORD * (len \div WORD) + (len % WORD)
          BY <1>6, <5>1, Divides
        <5>3. len \div WORD >= 0
          BY <1>6, <1>12, <5>1
        <5> DEFINE q == len \div WORD
        <5> HIDE DEF q
        <5>4. WORD * q \in Int /\ WORD * q >= 0
          <6>1. q \in Nat
            BY <5>2, <5>3 DEF q
          <6> QED
            BY <5>1, <6>1
        <5> QED
          BY <5>4 DEF q
      <4>2. drv'.p + WORD * (drv'.len \div WORD) = p + k
        BY <1>8, <2>2
      <4>3. PAGEOF(drv'.p + PGLENB) = m
        BY <1>7, <2>2
      <4>4. sh = (drv.short \ page) \union {a \in page : a >= p + k}
        BY <1>8 DEF sh
      <4> HIDE DEF k
      <4>5. \A a \in (p + k)..(m - 1) : a \in page /\ a >= p + k
        BY <1>7, <1>8, <4>1 DEF page
      <4>6. \A a \in (p + k)..(m - 1) : a \in sh
        BY <4>4, <4>5
      <4> QED
        BY <2>2, <4>2, <4>3, <4>6
    <3> QED
      BY <3>1, <3>2 DEF LenOK
  <2>11. PendOK'
    <3>1. Made' = 0
      <4> HIDE DEF len
      <4>1. Plan' = ProgramCommands(drv.p, drv.len)'
        BY <2>2 DEF Plan
      <4>2. ProgramCommands(drv.p, drv.len)' = ProgramCommands(drv.p, len)
        BY <1>2, <2>2 DEF ProgramCommands, WriteEnable, StartWait
      <4>3. len \in Nat /\ drv.p \in Int
        BY <1>1, <1>6, <1>12 DEF DrvOK
      <4>4. todo' \in Seq(Ops)
        BY <2>1, <4>3, ProgramPlan
      <4>5. Len(todo') \in Nat
        BY <4>4
      <4> QED
        BY <2>1, <4>1, <4>2, <4>5 DEF Made
    <3>2. Pending(0, chip', "PP", drv'.p, drv'.len)
      <4>1. drv'.len \in Nat
        BY <1>6, <1>12, <2>2
      <4> QED
        BY <4>1, PendNone
    <3>3. chip'.state \in Burning => drv'.p = RESET_ADDRESS /\ Dense(Ahead)'
      <4>1. SUFFICES ASSUME chip.state \in Burning PROVE drv.p = RESET_ADDRESS /\ Dense(Ahead)'
        BY <1>2, <2>2
      <4>2. ctl.user
        BY <1>1, <4>1, BurningUser
      <4> QED
        BY <1>1, <1>9, <2>8, <4>2 DEF FreshOK
    <3> QED
      BY <2>2, <3>1, <3>2, <3>3 DEF PendOK
  <2> QED
    BY <1>3, <1>4, <2>3, <2>6, <2>9, <2>10, <2>11 DEF Data
<1>13. len <= 0 \/ len > 0
  BY <1>6
<1> QED
  BY <1>10, <1>11, <1>12, <1>13

(* Where the words that were read end. *)
LEMMA CutIs ==
    ASSUME NEW base \in Int, NEW top \in Int, NEW cut \in Int, cut = base + ((top - base) \div WORD) * WORD
    PROVE  cut <= top /\ (base % WORD = 0 => cut % WORD = 0)
<1> DEFINE d == top - base
           q == d \div WORD
           r == d % WORD
<1>1. WORD \in Nat /\ WORD > 0 /\ d \in Int
  BY LoadAssumption
<1> HIDE DEF d
<1>2. r \in 0..(WORD - 1) /\ q \in Int /\ d = WORD * q + r
  BY <1>1, Divides
<1>3. cut = base + q * WORD
  BY DEF q, d
<1> HIDE DEF q, r
<1>4. q * WORD = WORD * q /\ WORD * q \in Int
  BY <1>1, <1>2
<1> DEFINE t == WORD * q
<1> HIDE DEF t
<1>5. t \in Int /\ cut = base + t /\ d = t + r /\ top = base + d
  BY <1>1, <1>2, <1>3, <1>4 DEF t, d
<1>6. cut <= top
  BY <1>1, <1>2, <1>5
<1>7. ASSUME base % WORD = 0 PROVE cut % WORD = 0
  <2>1. PICK e \in Int : base = WORD * e
    BY <1>1, <1>7, Multiple
  <2>2. cut = WORD * (e + q) /\ e + q \in Int
    BY <1>1, <1>2, <1>5, <2>1 DEF t
  <2> QED
    BY <1>1, <2>2, IsMultiple
<1> QED
  BY <1>6, <1>7

(* A byte that needs no bit set, of a byte to be erased, is erased. *)
LEMMA AllSet == ASSUME NEW x \in Byte, NEW b, b = Erased, b \subseteq x PROVE x = Erased
BY DEF Erased, Byte

(* What is wanted of the current sector, and what was compared. *)
Looked(base, top) ==
    /\ base >= RESET_ADDRESS /\ base >= drv.s /\ base \in {drv.s, RESET_ADDRESS}
    /\ \A a \in Offsets : Wanted(a) => a \in Int /\ ((a < base /\ a < drv.s) \/ a \in base..(top - 1))
(* NextSector looks at all that is wanted of the sector. *)
LEMMA LookedAt ==
    ASSUME DrvOK, drv.addr = RESET_ADDRESS, NEW base \in Int, NEW top \in Int,
           base = IF drv.addr > drv.s THEN drv.addr ELSE drv.s,
           top = IF drv.end > drv.s + SECTORSZB THEN drv.s + SECTORSZB ELSE drv.end
    PROVE  Looked(base, top)
<1>1. drv.s \in Int /\ drv.end \in Int /\ SECTORSZB \in Nat /\ RESET_ADDRESS \in Int
  BY FlashSizes, LoadAssumption DEF DrvOK
<1>2. base >= RESET_ADDRESS /\ base >= drv.s /\ base \in {drv.s, RESET_ADDRESS}
  BY <1>1
<1>3. ASSUME NEW a \in Offsets, Wanted(a) PROVE a \in Int /\ a < top /\ a >= RESET_ADDRESS
  BY <1>1, <1>3 DEF Wanted, Offsets
<1>4. ASSUME NEW a \in Offsets, Wanted(a) PROVE a \in Int /\ ((a < base /\ a < drv.s) \/ a \in base..(top - 1))
  BY <1>1, <1>2, <1>3, <1>4
<1> QED
  BY <1>2, <1>3, <1>4 DEF Looked

(* NextSector preserves what is known of the contents. *)
LEMMA NextSectorData == ASSUME IInv, Data, NextSector, UNCHANGED toolVars PROVE Data'
<1>1. /\ DrvOK /\ ChipOK /\ MemOK /\ FileOK /\ DoneOK /\ drv.at = "sector" /\ todo = <<>>
      /\ drv.at \in Writing
  BY DEF IInv, NextSector, Deciding, Data, Writing
<1>2. /\ ctl' = ctl /\ fbuf' = fbuf /\ file' = file /\ nsec' = nsec /\ ram' = ram /\ result' = result
  BY DEF NextSector, toolVars
<1>3. ResultOK'
  BY <1>1, <1>2, NotYet
<1>4. drv.addr = RESET_ADDRESS /\ SECTOROF(drv.s) = drv.s /\ chip.mem \in [Offsets -> Byte] /\ Reached = drv.s
  BY <1>1 DEF FileOK, MemOK, Reached
<1>5. PICK stale \in StaleWords, base \in Int, top \in Int, cut \in Int : \E sbuf, newv :
        Compared(stale, base, top, cut, sbuf, newv)
  BY NextSectorIs
<1>6. PICK sbuf, newv : Compared(stale, base, top, cut, sbuf, newv)
  BY <1>5
<1> DEFINE clear  == {a \in base..(top - 1) : ~(fbuf[a] \subseteq sbuf[a])}
           differ == {a \in base..(top - 1) : sbuf[a] # fbuf[a]}
           tail   == cut..(top - 1)
<1>7. /\ base = IF drv.addr > drv.s THEN drv.addr ELSE drv.s
      /\ top = IF drv.end > drv.s + SECTORSZB THEN drv.s + SECTORSZB ELSE drv.end
      /\ cut = base + ((top - base) \div WORD) * WORD
      /\ \A a \in base..(top - 1) : a < cut => sbuf[a] = ReadWith(stale, a)
      /\ chip' = AfterRead(base, (top - base) \div WORD)
      /\ \/ differ = {} /\ drv' = [drv EXCEPT !.s = @ + SECTORSZB, !.short = @ \union tail] /\ todo' = todo
         \/ differ # {} /\ clear # {} /\ drv' = [drv EXCEPT !.at = "erasing", !.p = base] /\ todo' = EraseCommands(drv.s)
         \/ differ # {} /\ clear = {} /\ drv' = [drv EXCEPT !.at = "page", !.p = newv, !.short = @ \union tail] /\ todo' = todo
      /\ differ # {} => newv \in Int /\ newv >= base /\ \A a \in base..(top - 1) : a < newv => sbuf[a] = fbuf[a]
      /\ ctl.user => Fresh /\ base = RESET_ADDRESS /\ differ # {} /\ newv = RESET_ADDRESS
  BY <1>6, Zenon DEF Compared
<1>8. Looked(base, top)
  BY <1>1, <1>4, <1>7, LookedAt
<1>9. /\ base >= RESET_ADDRESS /\ base >= drv.s /\ base \in {drv.s, RESET_ADDRESS}
      /\ \A a \in Offsets : Wanted(a) => a \in Int /\ ((a < base /\ a < drv.s) \/ a \in base..(top - 1))
  BY <1>8 DEF Looked
<1>10. cut <= top /\ (base % WORD = 0 => cut % WORD = 0)
  BY <1>7, CutIs
<1>11. SameMem(chip', chip) /\ chip'.mem = chip.mem
  BY <1>1, <1>7, ReadData DEF SameMem
<1>12. MemOK'
  BY <1>1, <1>2, <1>11 DEF MemOK, SameMem
<1>13. ASSUME ~ctl.user, NEW a \in base..(top - 1), a < cut PROVE sbuf[a] = chip.mem[a]
  <2>1. sbuf[a] = ReadWith(stale, a)
    BY <1>7, <1>13
  <2>2. chip.wip = FALSE
    BY <1>1, <1>13 DEF ChipOK, Online
  <2> QED
    BY <1>13, <2>1, <2>2 DEF ReadWith
<1>14. \A a \in base..(top - 1) : a \in Int /\ (a < cut \/ a \in tail)
  OBVIOUS
<1>15. \A a \in Offsets : Wanted(a) /\ a < drv.s => Same(a)
  BY <1>1, <1>4 DEF DoneOK
<1>16. \A a \in base..(top - 1) : a \notin clear => fbuf[a] \subseteq sbuf[a]
  OBVIOUS
<1>17. \A a \in base..(top - 1) : a \notin differ => sbuf[a] = fbuf[a]
  OBVIOUS
<1> HIDE DEF clear, differ, tail
<1>t. RESET_ADDRESS \in Int /\ SECTORSZB \in Nat /\ drv.s \in Int /\ RESET_ADDRESS % WORD = 0 /\ WORD \in Nat /\ WORD > 0
  BY <1>1, LoadAssumption, FlashSizes DEF DrvOK
<1>18. ASSUME differ = {} PROVE Data'
  <2>1. drv' = [drv EXCEPT !.s = @ + SECTORSZB, !.short = @ \union tail]
    BY <1>7, <1>18
  <2>2. /\ drv'.at = "sector" /\ drv'.addr = drv.addr /\ drv'.end = drv.end /\ drv'.s = drv.s + SECTORSZB
        /\ drv'.short = drv.short \union tail
    BY <1>1, <2>1 DEF DrvOK, IsDrv
  <2>3. ~ctl.user
    BY <1>7, <1>18
  <2>4. FileOK'
    <3>1. Steady
      BY <1>2, <1>11, <2>2 DEF Steady, SameMem
    <3>2. SectorOf(drv.s)
      BY <1>t, Sectors
    <3>3. SECTOROF(drv'.s) = drv'.s
      BY <1>4, <1>t, <2>2, <3>2 DEF SectorOf
    <3> QED
      BY <1>1, <3>1, <3>3, SteadyFile
  <2>5. DoneOK'
    <3>1. Reached' = drv.s + SECTORSZB
      BY <2>2 DEF Reached
    <3>2. ASSUME NEW a \in Offsets, Wanted(a)', a < Reached' PROVE Same(a)'
      <4>1. Wanted(a)
        BY <2>2, <3>1, <3>2 DEF Wanted
      <4>2. CASE a < base /\ a < drv.s
        <5>1. Same(a)
          BY <1>15, <4>1, <4>2
        <5> QED
          BY <1>2, <1>11, <2>2, <5>1 DEF Same
      <4>3. CASE a \in base..(top - 1)
        <5>1. sbuf[a] = fbuf[a]
          BY <1>17, <1>18, <4>3
        <5>2. a < cut => chip.mem[a] = fbuf[a]
          BY <1>13, <2>3, <4>3, <5>1
        <5>3. a < cut \/ a \in tail
          BY <1>14, <4>3
        <5> QED
          BY <1>2, <1>11, <2>2, <5>2, <5>3 DEF Same
      <4> QED
        BY <1>9, <4>1, <4>2, <4>3
    <3> QED
      BY <2>2, <3>2 DEF DoneOK, Paging
  <2>6. AheadOK' /\ LenOK' /\ PendOK'
    BY <2>2 DEF AheadOK, Paging, LenOK, PendOK
  <2> QED
    BY <1>3, <1>12, <2>4, <2>5, <2>6 DEF Data
<1>19. ASSUME differ # {}, clear # {} PROVE Data'
  <2>1. drv' = [drv EXCEPT !.at = "erasing", !.p = base] /\ todo' = EraseCommands(drv.s)
    BY <1>7, <1>19
  <2>2. /\ drv'.at = "erasing" /\ drv'.addr = drv.addr /\ drv'.end = drv.end /\ drv'.s = drv.s
        /\ drv'.p = base /\ drv'.short = drv.short
    BY <1>1, <2>1 DEF DrvOK, IsDrv
  <2>3. FileOK'
    <3>1. Steady
      BY <1>2, <1>11, <2>2 DEF Steady, SameMem
    <3>2. SECTOROF(drv'.s) = drv'.s
      BY <1>4, <2>2
    <3> QED
      BY <1>1, <3>1, <3>2, SteadyFile
  <2>4. \A a : (Wanted(a)' <=> Wanted(a)) /\ (Same(a)' <=> Same(a))
    BY <1>2, <1>11, <2>2, Level
  <2>5. DoneOK'
    <3>1. Reached' = base
      BY <2>2 DEF Reached
    <3>2. ASSUME NEW a \in Offsets, Wanted(a)', a < Reached' PROVE Same(a)'
      <4>1. Wanted(a) /\ a < base
        BY <2>4, <3>1, <3>2
      <4>2. a < drv.s
        BY <1>9, <4>1
      <4> QED
        BY <1>15, <2>4, <4>1, <4>2
    <3> QED
      BY <1>9, <2>2, <3>2 DEF DoneOK
  <2>6. AheadOK' /\ LenOK'
    BY <2>2 DEF AheadOK, Paging, LenOK
  <2>7. PendOK'
    <3>1. Made' = 0
      <4>1. Plan' = todo'
        BY <2>1, <2>2 DEF Plan, EraseCommands, WriteEnable, StartWait
      <4>2. Len(todo') \in Nat
        <5>1. todo' \in Seq(Ops)
          BY <1>t, <2>1, ErasePlan
        <5> QED
          BY <5>1
      <4> QED
        BY <4>1, <4>2 DEF Made
    <3>2. Pending(0, chip', "SECTOR_ERASE", drv'.s, 0)
      BY PendNone
    <3>3. chip'.state \in Burning => base = RESET_ADDRESS
      <4>1. CASE ctl.user
        BY <1>7, <4>1
      <4>2. CASE ~ctl.user
        <5>1. Online(chip) /\ IsChip(chip)
          BY <1>1, <4>2 DEF ChipOK, Sane
        <5>2. chip' = [chip EXCEPT !.keep = TRUE, !.addr = IF chip.wip THEN base ELSE base + ((top - base) \div WORD) * WORD + 1]
          BY <1>7, <4>2 DEF AfterRead
        <5>3. chip'.state = "QUAD_READ_IDLE"
          BY <5>1, <5>2 DEF Online, IsChip
        <5> QED
          BY <5>3 DEF Burning
      <4> QED
        BY <4>1, <4>2
    <3> QED
      BY <2>2, <3>1, <3>2, <3>3 DEF PendOK
  <2> QED
    BY <1>3, <1>12, <2>3, <2>5, <2>6, <2>7 DEF Data
<1>20. ASSUME differ # {}, clear = {} PROVE Data'
  <2>1. drv' = [drv EXCEPT !.at = "page", !.p = newv, !.short = @ \union tail]
    BY <1>7, <1>20
  <2>2. /\ drv'.at = "page" /\ drv'.addr = drv.addr /\ drv'.end = drv.end /\ drv'.s = drv.s
        /\ drv'.p = newv /\ drv'.short = drv.short \union tail
    BY <1>1, <2>1 DEF DrvOK, IsDrv
  <2>3. newv \in Int /\ newv >= base /\ newv >= RESET_ADDRESS /\ \A a \in base..(top - 1) : a < newv => sbuf[a] = fbuf[a]
    BY <1>7, <1>9, <1>20, <1>t
  <2>4. FileOK'
    <3>1. Steady
      BY <1>2, <1>11, <2>2 DEF Steady, SameMem
    <3>2. SECTOROF(drv'.s) = drv'.s
      BY <1>4, <2>2
    <3> QED
      BY <1>1, <3>1, <3>2, SteadyFile
  <2>5. \A a : Wanted(a)' <=> Wanted(a)
    BY <2>2, Zenon DEF Wanted
  <2>6. DoneOK'
    <3>1. Reached' = newv
      BY <2>2 DEF Reached
    <3>2. ASSUME NEW a \in Offsets, Wanted(a)', a < Reached' PROVE Same(a)'
      <4>1. Wanted(a) /\ a < newv
        BY <2>5, <3>1, <3>2
      <4>2. CASE a < base /\ a < drv.s
        <5>1. Same(a)
          BY <1>15, <4>1, <4>2
        <5> QED
          BY <1>2, <1>11, <2>2, <5>1 DEF Same
      <4>3. CASE a \in base..(top - 1)
        <5>1. sbuf[a] = fbuf[a]
          BY <2>3, <4>1, <4>3
        <5>2. ~ctl.user
          <6>1. SUFFICES ASSUME ctl.user PROVE FALSE
            OBVIOUS
          <6>2. newv = base
            BY <1>7, <6>1
          <6> QED
            BY <4>1, <4>3, <6>2
        <5>3. a < cut => chip.mem[a] = fbuf[a]
          BY <1>13, <4>3, <5>1, <5>2
        <5>4. a < cut \/ a \in tail
          BY <1>14, <4>3
        <5> QED
          BY <1>2, <1>11, <2>2, <5>3, <5>4 DEF Same
      <4> QED
        BY <1>9, <4>1, <4>2, <4>3
    <3> QED
      BY <2>2, <2>3, <3>2 DEF DoneOK
  <2>7. ASSUME ~ctl.user PROVE Clean(newv)'
    <3>1. ASSUME NEW a \in Offsets, Wanted(a)', a >= newv, fbuf'[a] = Erased PROVE chip'.mem[a] = Erased \/ a \in drv'.short
      <4>1. Wanted(a) /\ fbuf[a] = Erased
        BY <1>2, <2>5, <3>1
      <4>2. a \in base..(top - 1)
        BY <1>9, <2>3, <3>1, <4>1
      <4>3. CASE a \in tail
        BY <2>2, <4>3
      <4>4. CASE a < cut
        <5>1. fbuf[a] \subseteq chip.mem[a]
          <6>1. fbuf[a] \subseteq sbuf[a]
            BY <1>16, <1>20, <4>2
          <6>2. sbuf[a] = chip.mem[a]
            BY <1>13, <2>7, <4>2, <4>4
          <6> QED
            BY <6>1, <6>2
        <5>2. chip.mem[a] \in Byte
          BY <1>4, <3>1
        <5>3. chip.mem[a] = Erased
          BY <4>1, <5>1, <5>2, AllSet
        <5> QED
          BY <1>11, <5>3
      <4> QED
        BY <1>14, <4>2, <4>3, <4>4
    <3> QED
      BY <3>1 DEF Clean
  <2>8. ASSUME ctl.user PROVE Dense(newv)' /\ newv % WORD = 0
    <3>1. newv = RESET_ADDRESS /\ base = RESET_ADDRESS /\ cut % WORD = 0
      BY <1>7, <1>10, <1>t, <2>8
    <3>2. PICK r \in 0..(WORD - 1) : stale[r] # Erased
      BY LoadAssumption
    <3>3. stale[r] \in Byte
      BY <3>2, LoadAssumption
    <3>4. ASSUME NEW a \in RESET_ADDRESS..(cut - 1), a % WORD = r PROVE fbuf[a] # Erased
      <4>1. a \in base..(top - 1) /\ a < cut
        BY <1>10, <1>t, <3>1, <3>4
      <4>2. sbuf[a] = stale[r]
        <5>1. sbuf[a] = ReadWith(stale, a)
          BY <1>7, <4>1
        <5> QED
          BY <2>8, <3>4, <5>1 DEF ReadWith
      <4>3. fbuf[a] \subseteq stale[r]
        <5>1. fbuf[a] \subseteq sbuf[a]
          BY <1>16, <1>20, <4>1
        <5> QED
          BY <4>2, <5>1
      <4> QED
        BY <3>2, <3>3, <4>3, AllSet
    <3>5. Full(cut, r)'
      BY <1>2, <3>4 DEF Full
    <3>6. ASSUME NEW a \in Offsets, Wanted(a)', a >= cut, a >= newv PROVE a \in drv'.short
      <4>1. a \in base..(top - 1)
        BY <1>9, <2>3, <2>5, <3>6
      <4>2. a \in tail
        BY <1>14, <3>6, <4>1
      <4> QED
        BY <2>2, <4>2
    <3> QED
      BY <1>t, <3>1, <3>5, <3>6 DEF Dense
  <2>9. AheadOK'
    <3>1. Ahead' = newv
      BY <2>2 DEF Ahead
    <3>2. ~ctl.user => Clean(Ahead)'
      BY <2>7, <3>1 DEF Clean
    <3>3. ctl.user => Dense(Ahead)' /\ Ahead' % WORD = 0
      BY <2>8, <3>1 DEF Dense
    <3> QED
      BY <1>2, <3>2, <3>3 DEF AheadOK
  <2>10. LenOK' /\ PendOK'
    BY <2>2 DEF LenOK, PendOK
  <2> QED
    BY <1>3, <1>12, <2>4, <2>6, <2>9, <2>10 DEF Data
<1> QED
  BY <1>18, <1>19, <1>20

(* Every step preserves what is known of the contents. *)
LEMMA StepData == ASSUME IInv, Data, [Next]_vars PROVE Data'
<1>1. CASE DriverStep /\ UNCHANGED toolVars
  <2>1. CASE BusOp
    BY <1>1, <2>1, BusData
  <2>2. CASE NextSector
    BY <1>1, <2>2, NextSectorData
  <2>3. CASE Wait
    BY <1>1, <2>3, WaitData
  <2>4. CASE VerifyErase
    BY <1>1, <2>4, VerifyEraseData
  <2>5. CASE NextPage
    BY <1>1, <2>5, NextPageData
  <2>6. CASE SectorDone
    BY <1>1, <2>6, SectorDoneData
  <2>7. CASE VerifyPage
    BY <1>1, <2>7, VerifyPageData
  <2>8. CASE PageDone
    BY <1>1, <2>8, PageDoneData
  <2>9. CASE Finish
    BY <1>1, <2>9, FinishData
  <2> QED
    BY <1>1, <2>1, <2>2, <2>3, <2>4, <2>5, <2>6, <2>7, <2>8, <2>9 DEF DriverStep
<1>2. CASE Ready
  BY <1>2, ReadyData DEF Ready
<1>3. CASE Halt
  BY <1>3, HaltData
<1>4. CASE LoadSection
  BY <1>4, LoadSectionData
<1>5. CASE WriteFlash
  BY <1>5, WriteFlashData
<1>6. CASE Failed
  BY <1>6, FailedData
<1>11. CASE Misaligned
  BY <1>11, MisalignedData
<1>7. CASE Done
  BY <1>7, DoneData
<1>8. CASE Start
  BY <1>8, StartData
<1>9. CASE Kill
  BY <1>9, KillData
<1>10. CASE Rest \/ UNCHANGED vars
  BY <1>10, StutterData DEF Rest
<1> QED
  BY <1>1, <1>2, <1>3, <1>4, <1>5, <1>6, <1>7, <1>8, <1>9, <1>10, <1>11 DEF Next, Working

(* A run that ends well leaves each byte of each section where it belongs, if no later section
   is written over it, the words of block memory counted whole, but for those that page_program was told were not in its page or that
   were not read (flashdrvr.cpp write, erase_sector, page_program, zipload.cpp main): whatever
   the flash held at first, and in whatever state runs that were killed or failed left the chip, its
   page buffer and its controller. *)
THEOREM LoadsUnlessShort == Spec => []LoadedUnlessShort
<1>1. Init => IInv /\ Data
  BY InitIInv, InitData
<1>2. (IInv /\ Data) /\ [Next]_vars => (IInv /\ Data)'
  BY StepKeeps, StepData
<1>3. IInv /\ Data => LoadedUnlessShort
  BY DEF Data, ResultOK, LoadedUnlessShort
<1> QED
  BY <1>1, <1>2, <1>3, PTL DEF Spec
===============================================================================
