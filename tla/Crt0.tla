------------------------------- MODULE Crt0 -------------------------------
(* The program a ZipCPU of this board runs: sw/zlib/crt0.c from _start to NEXIT, with
   main in the middle, _exit from syscalls.c, and what each instruction
   that matters does to the DMA engine, the interrupt controller, memory and registers.
   A program is the sequence of those instructions.

   Where the linker put things is the layout of a program: whether it is booted from a
   ROM, the words of its image, those of its BSS. Block memory starts at word 0. *)
EXTENDS WbDmac, ZDivide

CONSTANTS RAM,         \* the words of block memory
          StackWord,   \* where the bootloader has its variable "zero"
          RomImage,    \* _ram_image_start, when there is a ROM
          Zero,        \* a word of zeros
          Dividends, Divisors,   \* what main divides
          Space        \* what _exit sends last

VARIABLES cpu,    \* the instructions left, the registers R1 of both modes, and a write on its way
          pic,    \* the DMA engine's bit of the interrupt controller
          work    \* what main was asked to do

progVars == <<cpu, pic, work>>

I(op) == [op |-> op, val |-> 0]
Set(reg, val) == [op |-> reg, val |-> val]
DMACLEAR == I("DMACLEAR")
DMACCOPY == I("DMACCOPY")
CONSTSRC == I("DMA_CONSTSRC")

(* _bootloader, with _kram = 0, as the linker scripts have it. *)
ClearBss_FromRam(L, wr) ==
    IF L.bss = 0 THEN <<>>
    ELSE <<I("zero"), I("pic"), Set("len", L.image + L.bss), Set("rd", StackWord)>> \o wr
         \o <<CONSTSRC, I("wait")>>
ClearBss_Counting(L, wr) ==
    IF L.bss = 0 THEN <<>>
    ELSE <<I("zero"), I("pic"), Set("len", L.bss), Set("rd", StackWord)>> \o wr \o <<DMACCOPY, I("wait")>>
ClearBss(L, wr) ==
    IF L.bss = 0 THEN <<>>
    ELSE <<I("zero"), I("pic"), Set("len", L.bss), Set("rd", StackWord)>> \o wr
         \o <<CONSTSRC, I("wait")>>
(* A bootloader that copies whatever the length is. *)
_bootloader_AnyLength(L) ==
    <<I("pic"), DMACLEAR, Set("len", L.image), Set("rd", RomImage), Set("wr", 0),
      I("pic"), DMACCOPY, I("wait")>> \o ClearBss(L, <<>>) \o <<I("pic")>>

_bootloader(L) ==
    IF ~L.rom
    THEN <<DMACLEAR>> \o ClearBss(L, <<Set("wr", L.image)>>)
    ELSE <<I("pic"), DMACLEAR, Set("len", L.image), Set("rd", RomImage), Set("wr", 0), I("iflen")>>
         \o <<I("pic"), DMACCOPY, I("wait")>> \o ClearBss(L, <<>>) \o <<I("pic")>>

(* _start, after which R1 is what main returned, through exit and _exit. *)
_start(L) == _bootloader(L) \o <<I("main")>>
_exit == <<I("outbyte"), I("outbyte"), I("flush"), I("rcode"), I("nexit")>>

CpuInit ==
    /\ cpu = [todo |-> <<>>, user |-> FALSE, regs |-> [u \in BOOLEAN |-> 0], wr |-> Trap, broken |-> FALSE]
    /\ pic = FALSE
    /\ work = [f |-> "none", a |-> 0, b |-> 0]

Instr == Head(cpu.todo)
Rest(n) == SubSeq(cpu.todo, n + 1, Len(cpu.todo))
(* A result is in the register one clock after its instruction. *)
Retired == [cpu EXCEPT !.regs[cpu.user] = IF cpu.wr = Trap THEN @ ELSE cpu.wr, !.wr = Trap]

(* What main does is divide, in either mode of the CPU, and return what it got. A
   division by zero in the CPU's own 32 bits traps, and stops the CPU. *)
Result(w) ==
    CASE w.f = "udiv" -> udivdi3(w.a, w.b)
      [] w.f = "div"  -> divdi3(w.a, w.b)
      [] w.f = "umod" -> umoddi3(w.a, w.b)
Main ==
    /\ Instr.op = "main"
    /\ \E w \in [f : {"udiv", "div", "umod"}, a : Dividends, b : Divisors], user \in BOOLEAN :
         /\ work' = w
         /\ cpu' = IF Result(w) = Trap
                   THEN [Retired EXCEPT !.todo = <<>>, !.broken = TRUE]
                   ELSE [Retired EXCEPT !.todo = _exit, !.user = user, !.wr = Low(Result(w))]
    /\ s' = None /\ pic' = (pic \/ dma.interrupt)

(* The other instructions. z_pic is read until the engine's interrupt is there. Waits for
   room in the console, and for it to be empty, are time the CPU takes. *)
Writes ==
    CASE Instr.op = "outbyte" -> Space
      [] Instr.op = "rcode" -> Low(Result(work))
      [] OTHER -> Trap
Execute ==
    /\ Instr.op \notin {"main", "nexit"} /\ (Instr.op = "wait" => pic)
    /\ cpu' = [Retired EXCEPT !.todo = Rest(IF Instr.op = "iflen" /\ dma.len = 0 THEN 4 ELSE 1),
                              !.wr = Writes]
    /\ s' = IF Instr.op \in {"len", "rd", "wr"} \cup Controls THEN [reg |-> Instr.op, val |-> Instr.val] ELSE None
    /\ pic' = ((pic /\ Instr.op # "pic") \/ dma.interrupt)
    /\ UNCHANGED work
Stores == cpu.todo # <<>> /\ Instr.op = "zero" /\ cpu'.todo # cpu.todo

Idle ==
    /\ cpu' = Retired
    /\ s' = None
    /\ pic' = (pic \/ dma.interrupt)
    /\ UNCHANGED work
=============================================================================
