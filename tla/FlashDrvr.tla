----------------------------- MODULE FlashDrvr -----------------------------
(* FLASHDRVR of sw/host/flashdrvr.cpp: what is wanted of the flash is compared
   with what is there, a sector is erased if a bit has to become one, and the
   pages are programmed one by one. The driver works through writes to the
   configuration port of qflexpress.v, each of which puts eight bits on the
   flash's wires: todo holds those it has still to make before its next
   decision, at, and the chip is FlashSim's.

   An address is an offset into the flash, FLASHBASE being zero; the code's newv, zero
   for "nothing differs", is None. *)
EXTENDS FlashSim, Integers, FiniteSets

CONSTANTS WORD,        \* bytes of a bus word
          UninitLen,   \* values the uninitialised len of write may hold
          StaleWords,  \* what a bus read returns while the port is in user mode
          Verify       \* the verify argument of write

VARIABLES chip,  \* the flash
          ctl,   \* its controller: in user mode or not, the last byte it received
          todo,  \* writes to the configuration port still to be made
          drv,   \* locals of write, erase_sector and page_program
          fbuf   \* what the flash is to hold: the caller's buffer

drvVars == <<chip, ctl, todo, drv, fbuf>>

None == -1
Least(S) == CHOOSE x \in S : \A y \in S : x <= y

F_END  == [op |-> "end", b |-> Junk]
Leave  == [op |-> "leave", b |-> Junk]
Slow(b) == [op |-> "slow", b |-> b]
Fast(b) == [op |-> "fast", b |-> b]
F(c) == Slow(Cmd(c))

take_offline == <<F_END>> \o [i \in 1..6 |-> F("RESET")] \o <<F_END>>

(* A mode byte that ends quad reads. *)
restore_quadio_LastRead ==
    <<F_END, F("QUAD_IO_READ"), Fast(Adr(0)), Fast(Adr(0)), Fast(Adr(0)), Fast(Junk),
      Fast(Junk), Fast(Junk), Fast(Junk), Slow(Junk), Leave>>
restore_quadio ==
    <<F_END, F("QUAD_IO_READ"), Fast(Adr(0)), Fast(Adr(0)), Fast(Adr(0)), Fast(ModeByte),
      Fast(Junk), Fast(Junk), Fast(Junk), Slow(Junk), Leave>>

place_online == restore_quadio

Slowly(bs) == [i \in DOMAIN bs |-> Slow(bs[i])]

WriteEnable == <<F_END, F("WREN"), F_END>>
StartWait   == <<F_END, F("RDSR")>>

EraseCommands(s) ==
    take_offline \o WriteEnable \o <<F("SECTOR_ERASE")>>
        \o Slowly(AddressBytes(s)) \o <<F_END>> \o StartWait

ProgramCommands(a, len) ==
    take_offline \o WriteEnable \o <<F("PP")>> \o Slowly(AddressBytes(a))
        \o [i \in 1..len |-> Slow(Dat(fbuf[a + i - 1]))] \o <<F_END>> \o StartWait

(* One write to R_FLASHCFG: chip select up, a byte at either speed, or back to bus reads. *)
PortWrite(w) ==
    /\ chip' = CASE w.op \in {"end", "leave"} -> Deselect(chip)
                 [] w.op = "slow" -> ReceiveSlow(chip, w.b)
                 [] w.op = "fast" -> Receive(chip, w.b)
    /\ ctl' = [user |-> w.op # "leave",
               last |-> IF w.op \in {"slow", "fast"} THEN chip.out ELSE ctl.last]

BusOp ==
    /\ todo # <<>>
    /\ PortWrite(Head(todo))
    /\ todo' = Tail(todo)
    /\ UNCHANGED <<drv, fbuf>>

FlashReady ==
    /\ chip.wip
    /\ chip' = Complete(chip)
    /\ UNCHANGED <<ctl, todo, drv, fbuf>>

(* readi of n words from a. In user mode no cycle reaches the chip and every
   word is the controller's stale one. *)
ReadWith(stale, a) ==
    IF ctl.user THEN stale[a % WORD]
    ELSE IF chip.wip THEN {} ELSE chip.mem[a]

AfterRead(a, n) ==
    IF ctl.user THEN chip
    ELSE [chip EXCEPT !.keep = TRUE, !.addr = IF chip.wip THEN a ELSE a + n * WORD + 1]

Goto(at) == drv' = [drv EXCEPT !.at = at]
Commands(ops) == todo' = ops
Stay == UNCHANGED <<chip, ctl, fbuf>>
Deciding(at) == drv.at = at /\ todo = <<>>

(* Where programming starts in a sector that was erased: at what was wanted of it first,
   not at what differed first. *)
AfterErase_FirstDifference(base, newv) == newv
AfterErase(base, newv) == base

(* write: compare what a sector holds with what it should. sbuf is not
   initialised: a last part of a word that is not read is anything. *)
NextSector ==
    /\ Deciding("sector")
    /\ drv.s < SECTOROF(drv.end + SECTORSZB - 1)
    /\ LET base  == IF drv.addr > drv.s THEN drv.addr ELSE drv.s
           top   == IF drv.end > drv.s + SECTORSZB THEN drv.s + SECTORSZB ELSE drv.end
           words == (top - base) \div WORD
           tail  == (base + words * WORD)..(top - 1)
       IN \E stale \in StaleWords, rest \in [tail -> Byte] :
            LET sbuf   == [a \in base..(top - 1) |-> IF a \in tail THEN rest[a] ELSE ReadWith(stale, a)]
                clear  == {a \in base..(top - 1) : ~(fbuf[a] \subseteq sbuf[a])}
                differ == {a \in base..(top - 1) : sbuf[a] # fbuf[a]}
                first  == Least(differ)
                newv   == first - ((first - base) % WORD)
            IN /\ chip' = AfterRead(base, words)
               /\ CASE differ = {} ->
                         drv' = [drv EXCEPT !.s = @ + SECTORSZB, !.short = @ \union tail] /\ UNCHANGED todo
                    [] clear # {} ->
                         drv' = [drv EXCEPT !.at = "erasing", !.p = AfterErase(base, newv)] /\ Commands(EraseCommands(drv.s))
                    [] OTHER ->
                         drv' = [drv EXCEPT !.at = "page", !.p = newv, !.short = @ \union tail] /\ UNCHANGED todo
    /\ UNCHANGED <<ctl, fbuf>>

(* flwait: the status register is read until the write in progress bit falls. *)
Wait ==
    /\ drv.at \in {"erasing", "programming"} /\ todo = <<>>
    /\ PortWrite(F("EMPTY"))
    /\ IF chip.out = <<"wip", TRUE>> THEN UNCHANGED <<todo, drv>>
       ELSE /\ Commands(<<F_END>> \o place_online)
            /\ Goto(IF drv.at = "erasing" THEN "erased" ELSE "programmed")
    /\ UNCHANGED fbuf

(* erase_sector reads the whole sector back. *)
VerifyErase ==
    /\ Deciding("erased")
    /\ \E stale \in StaleWords :
         Goto(IF Verify /\ \E a \in drv.s..(drv.s + SECTORSZB - 1) : ReadWith(stale, a) # Erased
              THEN "failed" ELSE "page")
    /\ chip' = IF Verify THEN AfterRead(drv.s, SECTORSZB \div WORD) ELSE chip
    /\ UNCHANGED <<ctl, todo, fbuf>>

(* The page loop of write. Its len is declared by an expression that uses it:
   whatever it held, the part up to the end of the page is cut off. page_program
   then asserts that something is left. *)
LastByte(junk) == drv.addr + junk - 1
ClippedLen(start, junk) ==
    IF PAGEOF(LastByte(junk)) # PAGEOF(start) THEN PAGEOF(start + PGLENB) - start
    ELSE LastByte(junk) + 1 - start

EndOfPages == drv.p >= drv.s + SECTORSZB \/ drv.p >= drv.end

NextPage ==
    /\ Deciding("page") /\ ~EndOfPages
    /\ \E junk \in UninitLen :
         LET len == ClippedLen(drv.p, junk)
             bytes == drv.p..(drv.p + len - 1)
             read == drv.p..(drv.p + WORD * ((len + WORD - 1) \div WORD) - 1)
             page == drv.p..(PAGEOF(drv.p + PGLENB) - 1)
         IN CASE len <= 0 -> Goto("aborted") /\ Commands(take_offline)
              [] len > 0 /\ (\A a \in read : fbuf[a] = Erased) ->
                    /\ drv' = [drv EXCEPT !.at = "nextpage", !.short = @ \union (page \ bytes)]
                    /\ Commands(take_offline \o place_online)
              [] OTHER ->
                    /\ drv' = [drv EXCEPT !.at = "programming", !.len = len,
                                 !.short = (@ \ page) \union {a \in page : a >= drv.p + WORD * (len \div WORD)}]
                    /\ Commands(ProgramCommands(drv.p, len))
    /\ Stay

SectorDone ==
    /\ Deciding("page") /\ EndOfPages
    /\ drv' = [drv EXCEPT !.at = "sector", !.s = @ + SECTORSZB]
    /\ UNCHANGED <<chip, ctl, todo, fbuf>>

(* page_program reads back the whole words of what it programmed. *)
VerifyPage ==
    /\ Deciding("programmed")
    /\ LET words == drv.len \div WORD IN
         /\ \E stale \in StaleWords :
              Goto(IF Verify /\ \E a \in drv.p..(drv.p + words * WORD - 1) : ReadWith(stale, a) # fbuf[a]
                   THEN "failed" ELSE "nextpage")
         /\ chip' = IF Verify THEN AfterRead(drv.p, words) ELSE chip
    /\ UNCHANGED <<ctl, todo, fbuf>>

PageDone_Same ==
    /\ Deciding("nextpage")
    /\ drv' = [drv EXCEPT !.at = "page"]
    /\ UNCHANGED <<chip, ctl, todo, fbuf>>
PageDone ==
    /\ Deciding("nextpage")
    /\ drv' = [drv EXCEPT !.at = "page", !.p = PAGEOF(@ + PGLENB)]
    /\ UNCHANGED <<chip, ctl, todo, fbuf>>

(* After the last sector: write protect, and back to bus reads. *)
Finish ==
    /\ Deciding("sector") /\ drv.s >= SECTOROF(drv.end + SECTORSZB - 1)
    /\ Goto("written")
    /\ Commands(take_offline \o <<F("WRDI"), F_END>> \o place_online)
    /\ Stay

(* A call of write. *)
StartWrite(addr, len) ==
    drv' = [at |-> "sector", addr |-> addr, end |-> addr + len, s |-> SECTOROF(addr),
            p |-> None, len |-> 0, short |-> {}]

IdleDriver == [at |-> "idle", addr |-> 0, end |-> 0, s |-> 0, p |-> None, len |-> 0, short |-> {}]

DriverStep ==
    \/ BusOp \/ NextSector \/ Wait \/ VerifyErase \/ NextPage \/ SectorDone
    \/ VerifyPage \/ PageDone \/ Finish
=============================================================================
