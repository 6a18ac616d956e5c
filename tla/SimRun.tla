------------------------------ MODULE SimRun ------------------------------
(* sim/verilated/automaster_tb.cpp and main_tb.cpp: a program file is loaded into the
   simulated board, its CPU is started, and the simulator ends with the program: with
   the code of its exit instruction, or soon after the CPU has stopped on an error.

   main, its division and _exit are words of the image too (board.ld). Where the boot copy
   was cut short by a bus error the CPU executes whatever is in their place, which may do anything:
   exit with any code, stop or go on for ever. Such a run is not followed from there.

   A file is its program headers, each with an address and the bytes there, where
   the linker put things, and the entry. Block memory starts at 0, the flash after it; a word has
   two bytes. *)
EXTENDS Crt0, Elf

CONSTANTS Files,            \* the programs
          RESET_ADDRESS,    \* word of the flash where the CPU starts
          RESET_DURATION,   \* clocks the CPU is held in reset
          CodeByte,         \* what the bytes of _start look like
          RCBITS,           \* bits of an exit code
          BombClocks,       \* clocks from a break to the end
          MaxResets, MaxErrors   \* bounds: resets over the debug port, bus errors

(* Block memory and flash by words, of what was loaded by bytes. block_ram is an array
   of words in the byte order of the host. Its index is the offset in bytes. *)
Byte(buf, i) == IF i < Len(buf) THEN buf[i + 1] ELSE Junk[1]
Word(buf, k) == <<Byte(buf, 2 * k), Byte(buf, 2 * k + 1)>>
byteswapbuf(buf, k) == IF k < Len(buf) \div 2 THEN Word(buf, k) ELSE <<Word(buf, k)[2], Word(buf, k)[1]>>
Words(sec) == (Len(sec.data) + 1) \div 2
Target(sec) ==
    LET w == sec.start \div 2 IN
    CASE w \in RAM -> 2 * w..(2 * w + Words(sec) - 1)
      [] w \in Memory \ RAM -> w..(w + Words(sec) - 1)
      [] OTHER -> {}   \* "no such address"
load(sec, a) ==
    LET w == sec.start \div 2
    IN IF w \in RAM THEN byteswapbuf(sec.data, a - 2 * w) ELSE Word(sec.data, a - w)
(* sim/verilated/zipelf.cpp is the host's file over again. Of sections over one another the
   last is what is left. *)
Sections(f) == elfread(f.sections)
Covering(f, a, i) == {j \in DOMAIN Sections(f) : j >= i /\ a \in Target(Sections(f)[j])}
loadelf(f) ==
    [a \in Memory |-> IF Covering(f, a, 1) = {} THEN Junk
                      ELSE load(Sections(f)[CHOOSE i \in Covering(f, a, 1) : Covering(f, a, i + 1) = {}], a)]

(* The bytes of a program are in the first section of its file: after _start, where the bootloader
   looks for them, or at the start of block memory. Nothing else goes there. *)
Image(f, a) == Word(f.sections[1].data, IF f.rom THEN a + 1 ELSE a)
ImageAt(f, a) == IF f.rom THEN RomImage + a ELSE a
ASSUME SimAssumption ==
    /\ RESET_ADDRESS \in Nat /\ RomImage \in Nat /\ StackWord \in Memory
    /\ \A f \in Files :
          /\ f.rom \in BOOLEAN /\ f.image \in Nat /\ f.bss \in Nat
          /\ 0..(f.image + f.bss - 1) \subseteq Memory \ {StackWord}
          /\ \A a \in 0..(f.image - 1) :
                /\ ImageAt(f, a) \in Memory \ {StackWord}
                /\ f.rom => RomImage + a >= f.image + f.bss
                /\ \A i \in DOMAIN Sections(f) : ImageAt(f, a) \in Target(Sections(f)[i]) <=> i = 1
          /\ f.image > 0 =>
                /\ 1 \in DOMAIN Sections(f) /\ DOMAIN Sections(f) \subseteq Nat /\ Sections(f)[1] = f.sections[1]
                /\ f.sections[1].start \in Nat /\ Len(f.sections[1].data) \in Nat
                /\ f.rom => f.sections[1].start \div 2 \in Memory \ RAM /\ f.sections[1].start \div 2 + 1 = RomImage
                /\ ~f.rom => 0 \in RAM /\ f.sections[1].start \div 2 = 0 /\ 2 * f.image <= Len(f.sections[1].data)

VARIABLES sim,    \* where the simulator is, its count since a break, how it ended
          zs,     \* the control registers of zipsystem.v
          file,
          count   \* resets and bus errors so far

vars == <<dmaVars, progVars, sim, zs, file, count>>

Running == [at |-> "run", bombed |-> 0, status |-> Trap]
Control(hold, n, reset, halt) == [hold |-> hold, counter |-> n, cmd_reset |-> reset, cmd_halt |-> halt, cpu_halt |-> TRUE, pc |-> RESET_ADDRESS]

(* tb->reset(), one clock, and the load, which takes none. *)
Init ==
    /\ file \in Files
    /\ mem = loadelf(file)
    /\ dma = PowerOn /\ s = None /\ bus = NoCycle
    /\ CpuInit
    /\ zs = Control(TRUE, RESET_DURATION, TRUE, TRUE)
    /\ sim = [Running EXCEPT !.at = "poke"]
    /\ count = [resets |-> 0, errors |-> 0]

(* The control registers on a clock. In reset the CPU goes to the reset address. *)
ZsClock(z) ==
    [hold |-> z.counter # 0, counter |-> IF z.counter > 0 THEN z.counter - 1 ELSE 0,
     cmd_reset |-> z.hold, cmd_halt |-> z.cmd_halt,
     cpu_halt |-> IF z.cmd_reset THEN z.cmd_halt ELSE z.cpu_halt,
     pc |-> IF z.cmd_reset THEN RESET_ADDRESS ELSE z.pc]

(* main gives the CPU its entry, twice, and a clock each time, and lets it go. *)
Poke(z) == [z EXCEPT !.cmd_halt = FALSE, !.cmd_reset = FALSE, !.pc = file.entry]
start_cpu ==
    /\ sim.at = "poke"
    /\ LET once == ZsClock(Poke(zs))
           twice == ZsClock([Poke(once) EXCEPT !.cmd_halt = TRUE])
       IN zs' = [twice EXCEPT !.cmd_halt = FALSE, !.cmd_reset = FALSE]
    /\ sim' = Running
    /\ UNCHANGED <<dmaVars, progVars, file, count>>

(* execsim, for the instructions that end the simulation: NEXIT takes R1 of the mode
   the CPU is in, or what is being written to it. *)
RCode(v) == v % 2^RCBITS
ExitCode_OldRegister == RCode(cpu.regs[cpu.user])
ExitCode == RCode(IF cpu.wr # Trap THEN cpu.wr ELSE cpu.regs[cpu.user])
execsim ==
    /\ Instr.op = "nexit"
    /\ sim' = [sim EXCEPT !.at = "exited", !.status = ExitCode]
    /\ cpu' = Retired /\ s' = None
    /\ UNCHANGED <<pic, work>>

(* sim_clk_tick otherwise: from a break on it counts clocks, whatever the CPU does. *)
sim_clk_tick ==
    sim' = CASE sim.bombed > BombClocks -> [sim EXCEPT !.at = "bombed", !.status = 0]
             [] sim.bombed <= BombClocks /\ (sim.bombed > 0 \/ cpu.broken) -> [sim EXCEPT !.bombed = @ + 1]
             [] OTHER -> sim

(* Block memory is what the linker laid out, or the CPU that is to run main runs something else. *)
Whole ==
    /\ \A a \in 0..(file.image - 1) : mem[a] = Image(file, a)
    /\ \A a \in file.image..(file.image + file.bss - 1) : mem[a] = Zero
Astray ==
    /\ Instr.op = "main" /\ ~Whole
    /\ sim' = [sim EXCEPT !.at = "astray"]
    /\ cpu' = [Retired EXCEPT !.todo = <<>>] /\ s' = None
    /\ pic' = (pic \/ dma.interrupt)
    /\ UNCHANGED work

Program == (Main /\ Whole) \/ Execute
CpuClock == cpu.todo # <<>> /\ ((Program /\ sim_clk_tick) \/ Astray \/ execsim)

(* The CPU begins where it was told, and finds the program there or not. *)
Fetches == sim.at = "run" /\ ~zs.cmd_reset /\ ~zs.cpu_halt /\ zs.pc # Trap
Fetch ==
    /\ Fetches
    /\ cpu' = [cpu EXCEPT !.todo = IF mem[zs.pc] = <<CodeByte, CodeByte>> THEN _start(file) ELSE <<>>,
                          !.user = FALSE, !.wr = Trap, !.broken = mem[zs.pc] # <<CodeByte, CodeByte>>]
    /\ zs' = [ZsClock(zs) EXCEPT !.pc = Trap]
    /\ sim_clk_tick
    /\ UNCHANGED <<dmaVars, pic, work, file, count>>

(* A clock in reset, which the DMA engine and the interrupt controller share. *)
InReset ==
    /\ sim.at = "run" /\ zs.cmd_reset
    /\ zs' = ZsClock(zs)
    /\ dma' = DmaReset(dma) /\ s' = None /\ bus' = NoCycle
    /\ mem' \in Aborted
    /\ cpu' = [cpu EXCEPT !.todo = <<>>, !.user = FALSE, !.wr = Trap, !.broken = FALSE]
    /\ pic' = FALSE
    /\ sim_clk_tick
    /\ UNCHANGED <<work, file, count>>

Clock(grant, stall, answer, executes) ==
    /\ sim.at = "run" /\ ~zs.cmd_reset /\ ~Fetches
    /\ Transfer(grant, stall, answer)
    /\ IF executes THEN CpuClock ELSE Idle /\ sim_clk_tick
    /\ \E m \in Written(answer) : mem' = IF Stores THEN [m EXCEPT ![StackWord] = Zero] ELSE m
    /\ zs' = ZsClock(zs)
    /\ answer = "err" => count.errors < MaxErrors
    /\ count' = IF answer = "err" THEN [count EXCEPT !.errors = @ + 1] ELSE count
    /\ UNCHANGED file

(* The debug port resets the CPU and lets it run. *)
Reset ==
    /\ sim.at = "run" /\ ~zs.cmd_reset /\ zs.counter = 0 /\ count.resets < MaxResets
    /\ zs' = [zs EXCEPT !.cmd_reset = TRUE, !.cmd_halt = FALSE]
    /\ count' = [count EXCEPT !.resets = @ + 1]
    /\ UNCHANGED <<dmaVars, progVars, sim, file>>

Executes == \E grant \in Grants, stall \in Stalls, answer \in Answers : Clock(grant, stall, answer, TRUE)
Waits    == \E grant \in Grants, stall \in Stalls, answer \in Answers : Clock(grant, stall, answer, FALSE)
tick == start_cpu \/ Fetch \/ InReset \/ Executes \/ Waits
Over == sim.at \in {"exited", "bombed", "astray"} /\ UNCHANGED vars
Next == tick \/ Reset \/ Over

(* The CPU goes on, and the bus takes each request in the end, and answers it. *)
Granted  == bus.requests # <<>> /\ ~bus.granted
            /\ \E stall \in Stalls, e \in BOOLEAN : Clock(TRUE, stall, "none", e)
Taken    == Stb(dma) /\ FALSE \in Stalls
            /\ \E grant \in Grants, answer \in Answers, e \in BOOLEAN : Clock(grant, FALSE, answer, e)
Answered == \E grant \in Grants, stall \in Stalls, answer \in Answers \ {"none"}, e \in BOOLEAN :
                Clock(grant, stall, answer, e)
Spec ==
    /\ Init /\ [][Next]_vars
    /\ WF_vars(tick) /\ WF_vars(Executes) /\ WF_vars(Granted) /\ WF_vars(Taken) /\ WF_vars(Answered)

InMain == cpu.todo # <<>> /\ Instr.op = "main"

(* When main starts, block memory holds the program's image and its BSS is zero, whatever
   was there and whichever clock of an earlier start a reset ended, if no bus error ended
   a transfer (crt0.c:80-85 "we might be starting from a reset instead of power up"). *)
MainSeesImage == InMain /\ count.errors = 0 => Whole

(* Starting up writes to nothing but the image, the BSS and the bootloader's variable: no
   transfer goes a word too far (wbdmac.v). *)
LeavesTheRest ==
    [][sim.at = "run" => \A a \in Memory : mem'[a] # mem[a] => a < file.image + file.bss \/ a = StackWord]_vars

(* The simulator ends with what main returned, or after an instruction that traps and for no
   other reason, as long as it is the program that the CPU executes: also after a bus error and a
   reset, when the second boot has put the program back (execsim, sim_clk_tick, udiv.c, umod.c). *)
Expected(w) ==
    CASE w.f = "udiv" -> w.a \div w.b
      [] w.f = "div"  -> Quotient(w.a, w.b)
      [] w.f = "umod" -> w.a % w.b
EndsWithMain ==
    /\ sim.at = "exited" /\ work.b # 0 => sim.status = RCode(Expected(work))
    /\ sim.at = "bombed" /\ file.rom =>
          work.f # "none" /\ work.b = 0 /\ High(IF work.f = "div" THEN Magnitude(work.a) ELSE work.a) = 0

(* A program that is started ends, and a bootloader reaches main even if there is no main any
   more: no wait for the DMA engine is for ever, also when a bus error ends its transfer (crt0.c,
   wbdmac.v). *)
SimEnds == <>(sim.at \in {"exited", "bombed", "astray"})
=============================================================================
