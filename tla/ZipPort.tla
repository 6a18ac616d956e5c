------------------------------ MODULE ZipPort ------------------------------
(* The debug port of the ZipSystem (rtl/cpu/zipsystem.v) and the CPU behind it, as far
   as the port shows it (rtl/cpu/zipcpu.v). The port has a control register, which
   halts, steps and resets the CPU and holds an address, and a data register, which
   reads or writes what is at that address: registers of both modes, then peripherals.
   Of each kind there is one: a general register, the condition codes and the program
   counter; an interrupt controller, of which the enables are kept, for devices set and
   programs clear the rest of it at any time; the watchdog, and a counter of each of the
   two pages.

   An access of the host takes many clocks; the CPU does what it likes in between. The
   one clock of a step is kept (cmd_step), and the host comes after it. *)
EXTENDS Integers, Sequences

VARIABLES cmd_halt, cmd_step, cpu_halt,
          regs,        \* what is at each address, but for the condition codes
          gie,         \* user mode
          busy,        \* what keeps a halted CPU from being quiet: a load, the pipeline
          alu_phase    \* the first half of a compressed pair has been issued, not the second

port == <<cmd_halt, cmd_step, cpu_halt>>
cpu  == <<regs, gie, busy, alu_phase>>

sR   == 0
sCC  == 1
sPC  == 2
uCC  == 3
uPC  == 4
PIC  == 5
WDT  == 6
MTSK == 7
UTSK == 8

CpuRegs   == sR..uPC
Addresses == sR..UTSK
Quiet     == "quiet"

(* A word has a bit of each of the kinds that registers tell apart. HIGH is a bit of an
   instruction's address, the mode in the condition codes, an enable of the interrupt
   controller. MID is bit 1: of a program counter, the half of a compressed word. LOW is
   what a program counter and the watchdog have no bit for, and the order to the
   interrupt controller to set enables, not to clear them. *)
HIGH == 4
Values == 0..7
High(v) == HIGH * (v \div HIGH)
Mid(v)  == 2 * ((v \div 2) % 2)
Low(v)  == v % 2

Words == {0, 7}                              \* bound: what programs compute and load
Targets == {0, HIGH}                         \* bound: where instructions are
TICK == 8                                    \* bound: a step of time is longer than any that is set

\* Mutant: a pair may be halted between its halves.
r_halted_Phase == cpu_halt /\ ~cmd_step /\ busy = Quiet
\* o_dbg_stall: a CPU told to halt has not come to rest yet.
r_halted == cpu_halt /\ ~cmd_step /\ ~alu_phase /\ busy = Quiet

Mode(b) == IF b THEN HIGH ELSE 0
\* dbg_odata: both condition codes tell the mode the CPU is in.
dbg_odata(a) == IF a \in {sCC, uCC} THEN Mode(gie) ELSE regs[a]

PortInit ==
    /\ cmd_halt \in BOOLEAN /\ cmd_step = FALSE
    /\ cpu_halt \in {cmd_halt, TRUE}
    /\ regs = [a \in Addresses |-> 0] /\ gie \in BOOLEAN /\ busy = Quiet
    /\ alu_phase = FALSE
-----------------------------------------------------------------------------
(* The CPU *)

PC == IF gie THEN uPC ELSE sPC
flip(v) == 7 - v

\* The counters count the clocks of a CPU that is not halted, the user's those of user mode.
Counted == IF cpu_halt THEN regs
           ELSE [regs EXCEPT ![MTSK] = flip(@), ![UTSK] = IF gie THEN flip(@) ELSE @]

\* A return to user mode takes the half of the word that was asked for: r_uhalt_phase.
Released(rs, user) == IF user /\ ~gie THEN [rs EXCEPT ![uPC] = High(@)] ELSE rs

(* One instruction is issued: it goes on or jumps, has its result now or after a while,
   or changes the mode; the program may set the watchdog and the enables. One that is
   the first half of a pair, and neither jumps nor changes the mode, has the second half
   after it. *)
Issue ==
    /\ busy = Quiet
    /\ \E rs \in {Counted} \union {[Counted EXCEPT ![WDT] = w] : w \in {0, 6}}
                 \union {[Counted EXCEPT ![sR] = IF gie THEN @ ELSE v] : v \in Words} :
       \E pc \in Targets :
          LET to == [rs EXCEPT ![PC] = pc]
          IN  \/ busy' \in {Quiet, "load"} /\ regs' = to /\ UNCHANGED gie
              \/ busy' = "fill" /\ gie' = ~gie /\ regs' = Released(to, ~gie)
    /\ alu_phase' \in IF alu_phase \/ busy' = "fill" THEN {FALSE} ELSE BOOLEAN

\* master_ce: a halt waits for the second half of a pair.
Execute == (~cpu_halt \/ alu_phase) /\ ~cmd_step /\ Issue /\ UNCHANGED port

\* A break instruction, or an error in supervisor mode, halts the CPU where it is.
Break == ~cpu_halt /\ ~cmd_step /\ busy = Quiet /\ cpu_halt' = TRUE /\ UNCHANGED <<cmd_halt, cmd_step, cpu>>

\* The answer of the memory: a value loaded, or the instructions that refill the pipeline.
Finish ==
    /\ busy # Quiet /\ busy' = Quiet
    /\ \E v \in Words : regs' = IF busy = "load" /\ ~gie THEN [regs EXCEPT ![sR] = v] ELSE regs
    /\ UNCHANGED <<port, gie, alu_phase>>

\* An interrupt takes the CPU out of user mode even while it is halted; between the
\* halves of a pair only an error does.
Interrupt ==
    /\ gie /\ busy # "load" /\ gie' = FALSE /\ busy' = "fill" /\ alu_phase' = FALSE
    /\ UNCHANGED <<port, regs>>

\* cpu_reset: the general registers, the user's address and the counters are kept.
Reset ==
    /\ regs' = [regs EXCEPT ![sPC] = 0, ![uPC] = High(@), ![PIC] = 0, ![WDT] = 0]
    /\ gie' = FALSE /\ busy' = "fill" /\ alu_phase' = FALSE

(* The watchdog runs while the port does not command a halt, also in a step and after it.
   At its end it resets the CPU (wdt_reset), which goes on from there. *)
Tick ==
    /\ ~cmd_halt /\ regs[WDT] \notin 1..TICK
    /\ regs' = [Counted EXCEPT ![WDT] = IF @ = 0 THEN 0 ELSE @ - TICK]
    /\ UNCHANGED <<port, gie, busy, alu_phase>>
Watchdog ==
    /\ ~cmd_halt /\ regs[WDT] \in 1..TICK
    /\ Reset /\ cmd_step' = FALSE /\ cpu_halt' = cmd_halt /\ UNCHANGED cmd_halt

\* Mutant: what was commanded is what stays.
StepClock_Commanded(issues) ==
    /\ cmd_step /\ cmd_step' = FALSE /\ cpu_halt' = cmd_halt /\ UNCHANGED cmd_halt
    /\ IF issues THEN Issue ELSE regs' = Counted /\ UNCHANGED <<gie, busy, alu_phase>>

\* The clock after a step was asked for: one instruction may leave, and the CPU is halted.
StepClock(issues) ==
    /\ cmd_step /\ cmd_step' = FALSE /\ cpu_halt' = TRUE /\ UNCHANGED cmd_halt
    /\ IF issues THEN Issue ELSE regs' = Counted /\ UNCHANGED <<gie, busy, alu_phase>>
-----------------------------------------------------------------------------
(* The port *)

\* dbg_cmd_write
Command(halt, step, reset) ==
    /\ ~cmd_step
    /\ cmd_halt' = (halt /\ ~step) /\ cpu_halt' = (halt /\ ~step) /\ cmd_step' = step
    /\ IF reset THEN Reset ELSE UNCHANGED cpu

\* The data register answers when the CPU is at rest; the peripherals always do.
DataReady(a) == ~cmd_step /\ (a \in CpuRegs => r_halted)

(* What an address holds of a word v that is written there in a mode, and held was there.
   A program counter keeps the bits of an instruction's address; the user's also takes
   the half of the word, unless it is the one that runs. The interrupt controller sets or
   clears the enables that are named. *)
Kept(a, v, held, user) ==
    CASE a = sPC -> High(v)
      [] a = uPC -> High(v) + (IF user THEN Mid(held) ELSE Mid(v))
      [] a = PIC -> IF High(v) = 0 THEN held ELSE IF Low(v) = 1 THEN HIGH ELSE 0
      [] a = WDT -> v - Low(v)
      [] OTHER   -> v

(* A write to a register of a CPU at rest; one to a program counter or to condition codes
   empties the pipeline, any other may have to. The condition codes of the supervisor
   start user mode, unless an interrupt waits, and those of the user end it. *)
DataWrite(a, v) ==
    /\ DataReady(a)
    /\ gie' \in IF a = sCC /\ High(v) # 0 THEN {gie, TRUE} ELSE IF a = uCC /\ High(v) = 0 THEN {FALSE} ELSE {gie}
    /\ regs' = IF a \in {sCC, uCC} THEN Released(regs, gie') ELSE [regs EXCEPT ![a] = Kept(a, v, @, gie)]
    /\ busy' \in IF a \in {sCC, uCC, sPC, uPC} THEN {"fill"}
                 ELSE IF a \in CpuRegs THEN {Quiet, "fill"} ELSE {busy}
    /\ UNCHANGED <<port, alu_phase>>
=============================================================================
