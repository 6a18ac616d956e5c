------------------------------ MODULE ZipLoad ------------------------------
(* sw/host/zipload.cpp: a program file is read (zipelf.cpp), the CPU is halted,
   sections of block memory are written, those of the flash are gathered in fbuf
   and handed to FlashDrvr, and the CPU is set up. The tool may be killed, or end
   on a bus error, between any two bus operations, and be run again: board and flash
   stay as they were left.

   A file is its sequence of program headers. One header is the
   device it belongs to, an offset in it, and its bytes; one without bytes is empty. *)
EXTENDS FlashDrvr, Elf

CONSTANTS Files,      \* the files zipload is given
          RAMLEN,     \* bytes of block memory
          RESET_ADDRESS,
          Images,     \* what the flash may hold at first, as data to load
          MaxRuns     \* bound: how often the tool is started

VARIABLES file,     \* the file being loaded
          nsec,     \* the section to handle next
          extent,   \* startaddr and codelen
          ram,      \* block memory
          cpu,      \* "running" or "halted"
          result,   \* how the last run ended
          runs

toolVars == <<file, nsec, extent, ram, cpu, result, runs>>
vars == <<drvVars, toolVars>>

NoFile == <<>>

EndOf(sec) == sec.start + Len(sec.data)
Bytes(sec) == sec.start..(EndOf(sec) - 1)
ValidSection(sec) ==
    \/ sec.dev = "bkram" /\ EndOf(sec) <= RAMLEN
    \/ sec.dev = "flash" /\ sec.start >= RESET_ADDRESS /\ EndOf(sec) <= FLASHLEN

(* A program is to run from the flash: it has bytes past the first word at the
   reset address, and that word is none that the controller returns in user mode, whose
   bits 16 to 8 are the controller's state (qflexpress.v:1010). *)
FirstWord == RESET_ADDRESS..(RESET_ADDRESS + WORD - 1)
InFlash(f, a) == {i \in DOMAIN elfread(f) : elfread(f)[i].dev = "flash" /\ a \in Bytes(elfread(f)[i])}
Differs(f, stale) ==
    \E a \in FirstWord :
        /\ InFlash(f, a) = {} => stale[a % WORD] # Erased
        /\ \A i \in InFlash(f, a) : elfread(f)[i].data[a - elfread(f)[i].start + 1] # stale[a % WORD]
Bootable(f) ==
    /\ \E i \in DOMAIN elfread(f) :
          elfread(f)[i].dev = "flash" /\ EndOf(elfread(f)[i]) >= RESET_ADDRESS + WORD
    /\ \A stale \in StaleWords : Differs(f, stale)

ASSUME LoadAssumption ==
    /\ WORD \in Nat \ {0} /\ RESET_ADDRESS \in Nat /\ RAMLEN \in Nat /\ UninitLen \subseteq Int /\ Verify = TRUE
    /\ RESET_ADDRESS % WORD = 0 /\ PGLENB % WORD = 0 /\ RAMLEN % WORD = 0
    /\ Images \subseteq Seq(Byte)
    /\ RESET_ADDRESS + WORD <= SECTOROF(RESET_ADDRESS) + SECTORSZB
    /\ StaleWords \subseteq [0..(WORD - 1) -> Byte] /\ \A stale \in StaleWords : \E r \in 0..(WORD - 1) : stale[r] # Erased
    /\ \A f \in Files :
          /\ f \in Seq([dev : {"bkram", "flash"}, start : Nat, data : Seq(Byte)])
          /\ (\A i \in DOMAIN elfread(f) : ValidSection(elfread(f)[i])) => Bootable(f)

\* memcpy of m_len bytes, into fbuf.
Put(mem, sec) ==
    [a \in DOMAIN mem |-> IF a >= sec.start /\ a < EndOf(sec) THEN sec.data[a - sec.start + 1] ELSE mem[a]]

(* Block memory is written in whole words, whose last bytes are what follows the section in
   the buffer of the file. Taken are the addresses that a section is written to. *)
EndOfWords(sec) == sec.start + WORD * ((Len(sec.data) + WORD - 1) \div WORD)
Past(sec) == EndOf(sec)..(EndOfWords(sec) - 1)
Taken(sec) == IF sec.dev = "bkram" THEN Bytes(sec) \union Past(sec) ELSE Bytes(sec)
PutWords(mem, sec, past) ==
    [a \in DOMAIN mem |-> IF a \in Past(sec) THEN past[a] ELSE Put(mem, sec)[a]]

Init ==
    /\ \E image \in Images : chip = PowerUp(Loaded(0, image))
    /\ ctl = [user |-> FALSE, last |-> Junk]
    /\ todo = <<>>
    /\ drv = IdleDriver
    /\ fbuf = [a \in Offsets |-> Erased]
    /\ file = NoFile /\ nsec = 0 /\ extent = [start |-> RESET_ADDRESS, len |-> 0]
    /\ ram = [a \in 0..(RAMLEN - 1) |-> Erased]
    /\ cpu = "running" /\ result = "none" /\ runs = 0

Exit(r) ==
    /\ result' = r
    /\ drv' = IdleDriver
    /\ todo' = <<>>
    /\ file' = NoFile
    /\ nsec' = 0

(* main up to the first bus access, and the halt of the CPU. *)
Start ==
    /\ drv.at = "idle" /\ runs < MaxRuns
    /\ runs' = runs + 1
    /\ file' \in Files
    /\ nsec' = 1
    /\ extent' = [start |-> RESET_ADDRESS, len |-> 0]
    /\ fbuf' = [a \in Offsets |-> Erased]
    /\ result' = "none"
    /\ Goto("halt")
    /\ UNCHANGED <<chip, ctl, todo, ram, cpu>>

Halt ==
    /\ drv.at = "halt"
    /\ cpu' = "halted"
    /\ LET secs == elfread(file) IN
         IF \A i \in DOMAIN secs : ValidSection(secs[i])
         THEN Goto("load") /\ UNCHANGED <<todo, file, nsec, result>>
         ELSE Exit("fail")
    /\ UNCHANGED <<chip, ctl, fbuf, extent, ram, runs>>

(* The extent of the flash that will be written: first and last byte of its sections. *)
Extend(e, sec) ==
    LET low == IF sec.start < e.start THEN [start |-> sec.start, len |-> e.len + (e.start - sec.start)] ELSE e
    IN IF EndOf(sec) > low.start + low.len THEN [low EXCEPT !.len = EndOf(sec) - low.start] ELSE low

LoadSection ==
    /\ drv.at = "load" /\ nsec <= SectionCount(file)
    /\ LET sec == elfread(file)[nsec] IN
         IF sec.dev = "bkram"
         THEN /\ sec.start % WORD = 0
              /\ \E past \in [Past(sec) -> Byte] : ram' = PutWords(ram, sec, past)
              /\ UNCHANGED <<extent, fbuf>>
         ELSE extent' = Extend(extent, sec) /\ fbuf' = Put(fbuf, sec) /\ UNCHANGED ram
    /\ nsec' = nsec + 1
    /\ UNCHANGED <<chip, ctl, todo, drv, file, cpu, result, runs>>

\* The library takes no address inside a word: a bus error, which ends the tool.
Misaligned ==
    /\ drv.at = "load" /\ nsec <= SectionCount(file)
    /\ LET sec == elfread(file)[nsec] IN sec.dev = "bkram" /\ sec.start % WORD # 0
    /\ Exit("fail")
    /\ UNCHANGED <<chip, ctl, fbuf, extent, ram, cpu, runs>>

WriteFlash ==
    /\ drv.at = "load" /\ nsec > SectionCount(file)
    /\ IF extent.len > 0 THEN StartWrite(extent.start, extent.len) ELSE Goto("written")
    /\ UNCHANGED <<chip, ctl, todo, fbuf, toolVars>>

Failed ==
    /\ drv.at \in {"failed", "aborted"} /\ todo = <<>>
    /\ Exit("fail")
    /\ UNCHANGED <<chip, ctl, fbuf, extent, ram, cpu, runs>>

(* The registers are cleared, the cache too, the PC is set, and the CPU started if so
   asked. *)
Done ==
    /\ Deciding("written")
    /\ \E start_when_finished \in BOOLEAN :
         cpu' = IF start_when_finished THEN "running" ELSE cpu
    /\ result' = "ok" /\ Goto("idle")
    /\ UNCHANGED <<chip, ctl, todo, fbuf, file, nsec, extent, ram, runs>>

(* The tool is killed, or a bus error ends it. *)
Kill ==
    /\ drv.at # "idle"
    /\ Exit("killed")
    /\ UNCHANGED <<chip, ctl, fbuf, extent, ram, cpu, runs>>

Rest == drv.at = "idle" /\ runs = MaxRuns /\ UNCHANGED vars

Working == (DriverStep /\ UNCHANGED toolVars) \/ Halt \/ LoadSection \/ Misaligned \/ WriteFlash \/ Failed \/ Done
Ready   == FlashReady /\ UNCHANGED toolVars
Next == Working \/ Ready \/ Start \/ Kill \/ Rest

Spec == Init /\ [][Next]_vars /\ WF_vars(Working) /\ WF_vars(Ready)

Holds(sec, a) ==
    (IF sec.dev = "bkram" THEN ram[a] ELSE chip.mem[a]) = sec.data[a - sec.start + 1]
(* A later section is written there too. *)
Overwritten(i, a) ==
    \E j \in DOMAIN elfread(file) :
        j > i /\ elfread(file)[j].dev = elfread(file)[i].dev /\ a \in Taken(elfread(file)[j])

(* A run that ends well leaves each byte of each section elfread gave it where it belongs, if
   no later section is written over it, the words of block memory counted whole, but for those whose page_program was told of too short
   a page or which were not read: whatever state an earlier run was killed in (flashdrvr.cpp
   write, page_program, zipload.cpp main). *)
LoadedUnlessShort ==
    result = "ok" =>
        \A i \in DOMAIN elfread(file) : LET sec == elfread(file)[i] IN
            \A a \in Bytes(sec) :
                Overwritten(i, a) \/ Holds(sec, a) \/ (sec.dev = "flash" /\ a \in drv.short)

(* The CPU, whose program is in the flash, only runs while its bus can read it:
   it is halted before the flash is taken off line, and started after it is back,
   over kills and restarts. *)
RunsFromFlash ==
    cpu = "running" => chip.state = "QUAD_READ_IDLE" /\ chip.mode = "QSPI" /\ ~chip.wip /\ ~ctl.user

(* A run ends: the wait for the chip does, and so do the loops over sectors and pages. *)
LoadEnds == (drv.at # "idle") ~> (drv.at = "idle")
=============================================================================
