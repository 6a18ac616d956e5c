---------------------------- MODULE SimRunProofs ----------------------------
(* For every set of programs, memory, block size of the engine and latency of the bus, and whatever
   stalls, fails or resets the run: what the run of SimRun checks of the program in memory, on small
   ones. The invariant follows the bootloader by its instructions (Booting, with a label for each), what
   the engine is doing and has written (Moving), and what nothing may have changed (RomOK). *)
EXTENDS SimRun, TLAPS, SequenceTheorems, WellFoundedInduction

B == 2^LGMEMLEN
reqs == bus.requests
out == Len(bus.requests)

(* A record has the members that the code gives it, whatever is in them. *)
IsCpu(x) == x \in [todo : {x.todo}, user : {x.user}, regs : {x.regs}, wr : {x.wr}, broken : {x.broken}]
(* What the bus has not answered yet. *)
IsRequest(r) == r = [we |-> r.we, addr |-> r.addr, data |-> r.data, age |-> r.age] /\ r.age \in Nat
BusOK == reqs = [i \in 1..out |-> reqs[i]] /\ out \in Nat /\ \A i \in 1..out : IsRequest(reqs[i])
RecordsOK ==
    /\ IsCpu(cpu)
    /\ zs = [hold |-> zs.hold, counter |-> zs.counter, cmd_reset |-> zs.cmd_reset,
             cmd_halt |-> zs.cmd_halt, cpu_halt |-> zs.cpu_halt, pc |-> zs.pc]
    /\ sim = [at |-> sim.at, bombed |-> sim.bombed, status |-> sim.status]
    /\ count = [resets |-> count.resets, errors |-> count.errors] /\ count.errors \in Nat
    /\ file \in Files /\ DOMAIN mem = Memory /\ DOMAIN dma.dma_mem = Block
    /\ dma.len \in Int /\ dma.raddr \in Int /\ dma.waddr \in Int /\ s.val \in Int
    /\ dma.incs \in BOOLEAN
    /\ pic \in BOOLEAN /\ bus.granted \in BOOLEAN /\ BusOK

(* What a transfer writes to x, and where it reads it: a copy of the image, or zeros. *)
Val(x) == IF dma.incs THEN Image(file, x) ELSE Zero
Src(x) == IF dma.incs THEN RomImage + x ELSE StackWord
Smaller(x, y) == IF x <= y THEN x ELSE y

(* Reading a block: as many requests as answers and those on their way; the engine has the flags of the
   last request and of the last answer on the clock at which they count. *)
Reads ==
    LET size == Smaller(dma.len, B) IN
    /\ dma.nread \in Nat /\ dma.nracks \in Nat /\ dma.nracks = dma.nread + out
    /\ dma.addr = Src(dma.waddr + dma.nracks) /\ dma.rdaddr = 0
    /\ dma.raddr = Src(dma.waddr + dma.nread)
    /\ \A i \in 1..out : ~reqs[i].we /\ reqs[i].addr = Src(dma.waddr + dma.nread + i - 1)
    /\ \A j \in 0..(dma.nread - 1) : dma.dma_mem[j] = Val(dma.waddr + j)
    /\ \/ /\ dma.state = "READ_REQ" /\ dma.nracks < size
          /\ dma.last_read_request <=> dma.nracks = size - 1
          /\ dma.last_read_ack => dma.nread = B - 1
       \/ /\ dma.state = "READ_ACK" /\ dma.nracks = size /\ dma.nread < size
          /\ dma.last_read_ack => out = 1
          /\ ~dma.last_read_ack /\ out = 1 => reqs[1].age = 0

(* The block is in dma_mem. *)
HasBlock(start) ==
    /\ dma.nread \in 1..B /\ dma.raddr = Src(start + dma.nread)
    /\ \A j \in 0..(dma.nread - 1) : dma.dma_mem[j] = Val(start + j)

(* Writing it. An answer takes two clocks, so that while requests go out on every clock
   there are three of which none is answered when the first is. *)
WritesBlock ==
    /\ dma.nwacks \in Nat /\ dma.nwritten = dma.nwacks + out
    /\ dma.waddr - dma.nwritten \in Nat /\ HasBlock(dma.waddr - dma.nwritten)
    /\ dma.nread = Smaller(dma.len + dma.nwacks, B)
    /\ \A i \in 1..out : reqs[i].we /\ reqs[i].addr = dma.waddr - out + i - 1 /\ reqs[i].data = Val(reqs[i].addr)
    /\ \/ /\ dma.state = "WRITE_REQ" /\ dma.nwritten < dma.nread
          /\ dma.addr = dma.waddr /\ dma.data = Val(dma.waddr) /\ dma.rdaddr = (dma.nwritten + 1) % B
          /\ dma.last_write_request <=> dma.nwritten = dma.nread - 1
          /\ dma.last_write_ack => out <= 2
          /\ \A i \in 1..out : reqs[i].age <= out - i
          /\ ~bus.granted => out <= 1
       \/ /\ dma.state = "WRITE_ACK" /\ dma.nwritten = dma.nread /\ out > 0
          /\ (dma.last_write_ack <=> out = 1) \/ reqs[1].age < LATENCY

(* How far memory has been written, and what is there. *)
Reached == IF We(dma) THEN dma.waddr - out ELSE dma.waddr
Imaged(lim) == \A a \in 0..(lim - 1) : mem[a] = Image(file, a)
Cleared(lim) == \A a \in file.image..(lim - 1) : mem[a] = Zero
FarOK ==
    /\ Reached \in Nat
    /\ dma.incs => file.rom /\ Reached + dma.len = file.image /\ Imaged(Reached)
    /\ ~dma.incs => Reached + dma.len <= file.image + file.bss /\ mem[StackWord] = Zero
    /\ ~dma.incs /\ count.errors = 0 =>
         /\ Reached + dma.len = file.image + file.bss /\ Reached >= file.image
         /\ Imaged(file.image) /\ Cleared(Reached)

(* The engine is in a transfer. *)
Moving ==
    /\ dma.len \in Nat \ {0} /\ dma.waddr \in Nat /\ FarOK /\ ~dma.interrupt
    /\ \/ /\ dma.state = "WAIT" /\ out = 0
          /\ dma.raddr = Src(dma.waddr)
          /\ dma.trigger => dma.nracks = 0
       \/ Reads
       \/ /\ dma.state = "PRE_WRITE" /\ out = 0 /\ dma.rdaddr = 0
          /\ HasBlock(dma.waddr) /\ dma.nread = Smaller(dma.len, B)
       \/ WritesBlock
Still == dma.state = "IDLE" /\ out = 0
Quiet == Still /\ ~dma.interrupt

(* What a register holds when the access under way is done. *)
LenIs(v) == IF s.reg = "len" THEN s.val = v ELSE dma.len = v
RdIs(v)  == IF s.reg = "rd" THEN s.val = v ELSE dma.raddr = v
WrIs(v)  == IF s.reg = "wr" THEN s.val = v ELSE dma.waddr = v

(* Where the bootloader is, by instructions. *)
Labels(f) ==
    IF f.rom
    THEN IF f.bss = 0
         THEN <<"boot", "boot", "len", "rd", "wr", "if", "arm", "copy", "copying", "ready", "ready">>
         ELSE <<"boot", "boot", "len", "rd", "wr", "if", "arm", "copy", "copying",
                "zero", "arm2", "len2", "rd2", "clear", "clearing", "ready", "ready">>
    ELSE IF f.bss = 0 THEN <<"boot", "ready">>
         ELSE <<"boot", "zero", "arm2", "len2", "rd2", "wr2", "clear", "clearing", "ready">>

(* The image is where it belongs, and the engine writes on after it. *)
ImageOK ==
    /\ count.errors = 0 => Imaged(file.image)
    /\ file.rom => dma.waddr \in Nat /\ dma.waddr <= file.image /\ (count.errors = 0 => dma.waddr = file.image)
Finished == Still /\ s = None /\ (dma.interrupt <=> ~pic)
At(l) ==
    CASE l = "boot" -> Quiet /\ s.reg \in {"none", "DMACLEAR"}
      [] l = "len"  -> Quiet /\ s.reg \in {"none", "DMACLEAR"}
      [] l = "rd"   -> Quiet /\ s.reg \in {"none", "len"} /\ LenIs(file.image)
      [] l = "wr"   -> Quiet /\ s.reg \in {"none", "rd"} /\ LenIs(file.image) /\ RdIs(RomImage)
      [] l = "if"   -> Quiet /\ s.reg \in {"none", "wr"} /\ LenIs(file.image) /\ RdIs(RomImage) /\ WrIs(0)
      [] l = "arm"  -> Quiet /\ s = None /\ LenIs(file.image) /\ RdIs(RomImage) /\ WrIs(0) /\ file.image > 0
      [] l = "copy" -> Quiet /\ s = None /\ LenIs(file.image) /\ RdIs(RomImage) /\ WrIs(0) /\ file.image > 0 /\ ~pic
      [] l = "copying" ->
            \/ Quiet /\ s.reg = "DMACCOPY" /\ LenIs(file.image) /\ RdIs(RomImage) /\ WrIs(0) /\ file.image > 0 /\ ~pic
            \/ s = None /\ ~pic /\ Moving /\ dma.incs
            \/ Finished /\ ImageOK
      [] l = "zero" -> Quiet /\ s.reg \in {"none", "DMACLEAR"} /\ ImageOK
      [] l = "arm2" -> Quiet /\ s = None /\ ImageOK /\ mem[StackWord] = Zero
      [] l = "len2" -> Quiet /\ s = None /\ ImageOK /\ mem[StackWord] = Zero /\ ~pic
      [] l = "rd2"  -> Quiet /\ s.reg \in {"none", "len"} /\ ImageOK /\ mem[StackWord] = Zero /\ ~pic /\ LenIs(file.bss)
      [] l = "wr2"  -> Quiet /\ s.reg \in {"none", "rd"} /\ ImageOK /\ mem[StackWord] = Zero /\ ~pic
                       /\ LenIs(file.bss) /\ RdIs(StackWord)
      [] l = "clear" -> /\ Quiet /\ s.reg \in {"none", IF file.rom THEN "rd" ELSE "wr"} /\ ImageOK /\ mem[StackWord] = Zero /\ ~pic
                        /\ LenIs(file.bss) /\ RdIs(StackWord) /\ (~file.rom => WrIs(file.image))
      [] l = "clearing" ->
            \/ /\ Quiet /\ s.reg = "DMA_CONSTSRC" /\ ImageOK /\ mem[StackWord] = Zero /\ ~pic
               /\ LenIs(file.bss) /\ RdIs(StackWord) /\ (~file.rom => WrIs(file.image))
            \/ s = None /\ ~pic /\ Moving /\ ~dma.incs
            \/ Finished /\ (count.errors = 0 => Imaged(file.image) /\ Cleared(file.image + file.bss))
      [] l = "ready" -> /\ Quiet /\ s.reg \in {"none", "DMACLEAR"}
                        /\ count.errors = 0 => Imaged(file.image) /\ Cleared(file.image + file.bss)
Done == Quiet /\ s = None
Place == Len(_start(file)) + 1 - Len(cpu.todo)
Booting ==
    /\ Place \in 1..Len(_start(file)) /\ cpu.todo = SubSeq(_start(file), Place, Len(_start(file)))
    /\ At(Labels(file)[Place]) /\ zs.pc = Trap /\ sim.at # "poke"
Leaving ==
    /\ \A i \in 1..Len(cpu.todo) : cpu.todo[i].op \in {"outbyte", "flush", "rcode", "nexit"}
    /\ Len(cpu.todo) \in Nat /\ cpu.todo = [i \in 1..Len(cpu.todo) |-> cpu.todo[i]]
    /\ Done
    /\ (sim.at = "poke" \/ zs.pc # Trap) => cpu.todo = <<>>
ProgramOK == Booting \/ Leaving

(* What nothing ever writes to. *)
RomOK ==
    /\ file.rom => \A a \in 0..(file.image - 1) : mem[RomImage + a] = Image(file, a)
    /\ ~file.rom /\ count.errors = 0 => Imaged(file.image)

(* A clock of engine, bus and memory, in which the bootloader sets its variable or does not. *)
Turned(grant, stall, answer, stores) ==
    /\ stall \in Stalls /\ answer \in Answers /\ Transfer(grant, stall, answer)
    /\ \E m \in Written(answer) : mem' = IF stores THEN [m EXCEPT ![StackWord] = Zero] ELSE m
    /\ grant \in BOOLEAN /\ (bus.granted => grant)
    /\ file' = file /\ count'.errors = (IF answer = "err" THEN count.errors + 1 ELSE count.errors)
Clocked(grant, stall, answer) ==
    /\ stall \in Stalls /\ answer \in Answers
    /\ Transfer(grant, stall, answer) /\ mem' \in Written(answer)
    /\ grant \in BOOLEAN /\ (bus.granted => grant)
    /\ file' = file /\ count'.errors = (IF answer = "err" THEN count.errors + 1 ELSE count.errors)

(* The requests answered and those made on a clock. *)
Acked(answer) == IF answer = "ack" THEN 1 ELSE 0
Issued(stall) == IF Stb(dma) /\ ~stall THEN 1 ELSE 0

(* The bounds. *)
LEMMA Sizes ==
    /\ B \in Nat /\ B >= 2 /\ Block = 0..(B - 1) /\ sub_one = B - 1
    /\ LATENCY \in Nat /\ LATENCY >= 2
  BY DmacAssumption DEF B, Block, sub_one

(* What is assumed of a file. *)
LEMMA FileFacts ==
    ASSUME NEW f \in Files
    PROVE  /\ f.rom \in BOOLEAN /\ f.image \in Nat /\ f.bss \in Nat
           /\ \A a \in Int : a >= 0 /\ a < f.image + f.bss => a \in Memory /\ a # StackWord
           /\ \A a \in Int : a >= 0 /\ a < f.image =>
                /\ f.rom => RomImage + a \in Memory /\ RomImage + a # StackWord /\ RomImage + a >= f.image + f.bss
           /\ StackWord \in Memory /\ StackWord \in Nat /\ RomImage \in Nat
           /\ StackWord >= f.image + f.bss
<1> USE SimAssumption
<1>1. f.rom \in BOOLEAN /\ f.image \in Nat /\ f.bss \in Nat /\ 0..(f.image + f.bss - 1) \subseteq Memory \ {StackWord}
  OBVIOUS
<1>2. StackWord \in Memory /\ StackWord \in Nat /\ RomImage \in Nat
  BY DmacAssumption
<1>3. ASSUME NEW a \in Int, a >= 0, a < f.image, f.rom
      PROVE  RomImage + a \in Memory /\ RomImage + a # StackWord /\ RomImage + a >= f.image + f.bss
  <2>1. a \in 0..(f.image - 1)
    BY <1>3, <1>1
  <2>2. ImageAt(f, a) \in Memory \ {StackWord} /\ RomImage + a >= f.image + f.bss
    BY <2>1, <1>3
  <2> QED
    BY <2>2, <1>3 DEF ImageAt
<1>4. \A a \in Int : a >= 0 /\ a < f.image + f.bss => a \in Memory /\ a # StackWord
  <2> SUFFICES ASSUME NEW a \in Int, a >= 0, a < f.image + f.bss PROVE a \in 0..(f.image + f.bss - 1)
    BY <1>1
  <2> QED
    BY <1>1
<1>5. StackWord >= f.image + f.bss
  BY <1>4, <1>1, <1>2
<1> HIDE SimAssumption
<1> QED
  BY <1>1, <1>2, <1>3, <1>4, <1>5

(* A sequence is what its members are. *)
LEMMA IsSeq ==
    ASSUME NEW x, Len(x) \in Nat, x = [i \in 1..Len(x) |-> x[i]]
    PROVE  x \in Seq({x[i] : i \in 1..Len(x)})
<1> DEFINE S == {x[i] : i \in 1..Len(x)}
<1>1. x \in [1..Len(x) -> S]
  OBVIOUS
<1> QED
  BY <1>1, SeqDef

(* The requests after a clock: the first may be gone, those left may have aged, and one may have come. *)
LEMMA BusStep ==
    ASSUME BusOK, NEW grant, NEW stall, NEW answer, bus' = BusAfter(grant, stall, answer),
           Cyc(dma), answer # "err", answer = "ack" => out > 0
    PROVE  /\ BusOK' /\ out' = out - Acked(answer) + Issued(stall) /\ bus'.granted = grant
           /\ \A i \in 1..(out - Acked(answer)) :
                /\ reqs'[i].we = reqs[i + Acked(answer)].we /\ reqs'[i].addr = reqs[i + Acked(answer)].addr
                /\ reqs'[i].data = reqs[i + Acked(answer)].data
                /\ bus.granted => reqs'[i].age <= reqs[i + Acked(answer)].age + 1
                /\ ~bus.granted => reqs'[i].age = reqs[i + Acked(answer)].age
           /\ Issued(stall) = 1 => reqs'[out'] = Request(dma)
<1> DEFINE d == Acked(answer)
           t == Issued(stall)
<1>d. d = (IF answer = "ack" THEN 1 ELSE 0) /\ t = (IF Stb(dma) /\ ~stall THEN 1 ELSE 0)
  BY DEF Acked, Issued
<1> HIDE DEF d, t
<1> DEFINE left == IF answer = "ack" THEN Tail(bus.requests) ELSE bus.requests
           old  == IF bus.granted THEN Aged(left) ELSE left
           new  == IF Stb(dma) /\ ~stall THEN <<Request(dma)>> ELSE <<>>
           S == {reqs[i] : i \in 1..out}
<1>1. reqs \in Seq(S) /\ out \in Nat /\ \A i \in 1..out : IsRequest(reqs[i])
  BY IsSeq DEF BusOK, reqs, out
<1>2. left \in Seq(S) /\ Len(left) = out - d /\ \A i \in 1..(out - d) : left[i] = reqs[i + d]
  <2>1. CASE answer = "ack"
    <3>1. reqs # <<>>
      BY <2>1, <1>1 DEF reqs, out
    <3> QED
      BY <2>1, <3>1, <1>1, <1>d, HeadTailProperties DEF reqs, out
  <2>2. CASE answer # "ack"
    BY <2>2, <1>1, <1>d DEF reqs, out
  <2> QED
    BY <2>1, <2>2
<1> HIDE DEF left
<1>o. old = IF bus.granted THEN Aged(left) ELSE left
  OBVIOUS
<1> HIDE DEF old
<1>3. ASSUME NEW i \in 1..(out - d)
      PROVE  LET r == left[i] IN
             /\ IsRequest(r)
             /\ IsRequest([r EXCEPT !.age = @ + 1])
             /\ [r EXCEPT !.age = @ + 1] = [we |-> r.we, addr |-> r.addr, data |-> r.data, age |-> r.age + 1]
  <2>1. i + d \in 1..out /\ d \in {0, 1}
    BY <1>1, <1>d
  <2>2. IsRequest(left[i])
    BY <2>1, <1>1, <1>2
  <2> QED
    BY <2>2 DEF IsRequest
<1>4. /\ Len(old) = out - d
      /\ \A i \in 1..(out - d) :
           /\ IsRequest(old[i]) /\ old[i].we = left[i].we /\ old[i].addr = left[i].addr /\ old[i].data = left[i].data
           /\ bus.granted => old[i].age <= left[i].age + 1
           /\ ~bus.granted => old[i].age = left[i].age
      /\ old \in Seq({old[i] : i \in 1..(out - d)})
  <2>1. CASE bus.granted
    <3>1. Aged(left) = [i \in 1..(out - d) |-> IF left[i].age < LATENCY THEN [left[i] EXCEPT !.age = @ + 1] ELSE left[i]]
      BY <1>2, LenProperties DEF Aged
    <3>2. old = Aged(left)
      BY <2>1, <1>o
    <3>3. out - d \in Nat
      BY <1>1, <1>d
    <3> DEFINE T == {old[i] : i \in 1..(out - d)}
    <3>4. old \in [1..(out - d) -> T]
      BY <3>1, <3>2
    <3> HIDE DEF T
    <3>5. old \in Seq(T)
      BY <3>3, <3>4, SeqDef
    <3>t. T = {old[i] : i \in 1..(out - d)}
      BY DEF T
    <3>6. Len(old) = out - d
      BY <3>3, <3>4, <3>5, LenProperties
    <3>7. ASSUME NEW i \in 1..(out - d)
          PROVE  /\ IsRequest(old[i]) /\ old[i].we = left[i].we /\ old[i].addr = left[i].addr /\ old[i].data = left[i].data
                 /\ old[i].age <= left[i].age + 1
      <4>1. old[i] = IF left[i].age < LATENCY THEN [left[i] EXCEPT !.age = @ + 1] ELSE left[i]
        BY <3>1, <3>2
      <4>2. left[i].age \in Nat
        BY <1>3 DEF IsRequest
      <4> QED
        <5> DEFINE r == left[i]
        <5>1. /\ IsRequest(r) /\ IsRequest([r EXCEPT !.age = @ + 1])
              /\ [r EXCEPT !.age = @ + 1] = [we |-> r.we, addr |-> r.addr, data |-> r.data, age |-> r.age + 1]
          BY <1>3
        <5>2. old[i] = r \/ old[i] = [r EXCEPT !.age = @ + 1]
          BY <4>1
        <5>3. r.age \in Nat
          BY <4>2
        <5> HIDE DEF r
        <5>4. CASE old[i] = r
          BY <5>1, <5>3, <5>4 DEF r
        <5>5. CASE old[i] = [we |-> r.we, addr |-> r.addr, data |-> r.data, age |-> r.age + 1]
          BY <5>1, <5>3, <5>5 DEF r
        <5> QED
          BY <5>1, <5>2, <5>4, <5>5
    <3> QED
      BY <3>t, <3>5, <3>6, <3>7, <2>1
  <2>2. CASE ~bus.granted
    <3>1. old = left
      BY <2>2, <1>o
    <3>2. left \in Seq({left[i] : i \in 1..(out - d)})
      <4>1. left = [i \in 1..Len(left) |-> left[i]] /\ Len(left) \in Nat
        BY <1>2, LenProperties
      <4> QED
        BY <4>1, IsSeq, <1>2
    <3> QED
      BY <3>1, <3>2, <1>2, <1>3, <2>2
  <2> QED
    BY <2>1, <2>2
<1>5. bus' = [granted |-> grant, requests |-> old \o new]
  BY <1>o DEF BusAfter, left
<1>6. new = (IF t = 1 THEN <<Request(dma)>> ELSE <<>>) /\ t \in {0, 1} /\ d \in {0, 1}
  BY <1>d
<1> HIDE DEF new
<1>7. /\ reqs' = old \o new /\ Len(reqs') = out - d + t
      /\ \A i \in 1..(out - d) : reqs'[i] = old[i]
      /\ t = 1 => reqs'[out - d + t] = Request(dma)
      /\ reqs' = [i \in 1..(out - d + t) |-> reqs'[i]]
  <2>1. reqs' = old \o new
    BY <1>5 DEF reqs
  <2> DEFINE U == {old[i] : i \in 1..(out - d)} \union {Request(dma)}
  <2>2. old \in Seq(U)
    <3>1. {old[i] : i \in 1..(out - d)} \subseteq U
      OBVIOUS
    <3> QED
      BY <3>1, <1>4, SeqMonotonic
  <2>3. new \in Seq(U) /\ Len(new) = t /\ (t = 1 => new[1] = Request(dma))
    <3> DEFINE r == Request(dma)
    <3>1. r \in U
      OBVIOUS
    <3> HIDE DEF r, U
    <3>2. new = (IF t = 1 THEN <<r>> ELSE <<>>)
      BY <1>6 DEF r
    <3>3. t \in {0, 1}
      BY <1>6
    <3> QED
      BY <3>1, <3>2, <3>3 DEF r
  <2> HIDE DEF U
  <2>4. reqs' \in Seq(U) /\ Len(reqs') = Len(old) + Len(new)
    BY <2>1, <2>2, <2>3, ConcatProperties
  <2>5. \A i \in 1..(Len(old) + Len(new)) : reqs'[i] = IF i <= Len(old) THEN old[i] ELSE new[i - Len(old)]
    BY <2>1, <2>2, <2>3, ConcatProperties
  <2>6. out - d \in Nat
    BY <1>1, <1>d
  <2>7. t = 1 => reqs'[out - d + t] = new[1]
    BY <2>5, <2>6, <1>4, <2>3
  <2>8. Len(reqs') = out - d + t
    BY <2>3, <2>4, <1>4
  <2>9. \A i \in 1..(out - d) : reqs'[i] = old[i]
    BY <2>5, <2>6, <1>4, <2>3, <1>6
  <2>10. reqs' = [i \in 1..(out - d + t) |-> reqs'[i]]
    BY <2>4, <2>8, LenProperties
  <2> QED
    BY <2>1, <2>3, <2>7, <2>8, <2>9, <2>10
<1>8. IsRequest(Request(dma))
  BY DEF IsRequest, Request
<1>9. out' = out - d + t
  BY <1>7 DEF out, reqs
<1>10. BusOK'
  <2>1. ASSUME NEW i \in 1..(out - d + t) PROVE IsRequest(reqs'[i])
    <3>1. i \in 1..(out - d) \/ (i = out - d + t /\ t = 1)
      BY <1>6, <1>1
    <3> QED
      BY <3>1, <1>7, <1>4, <1>8
  <2>2. out' \in Nat
    BY <1>9, <1>6, <1>1, <1>d
  <2>3. reqs' = [i \in 1..out' |-> reqs'[i]]
    BY <1>7, <1>9
  <2> QED
    BY <2>1, <2>2, <2>3, <1>9 DEF BusOK
<1>11. \A i \in 1..(out - d) : reqs[i + d].age \in Nat
  <2> SUFFICES ASSUME NEW i \in 1..(out - d) PROVE reqs[i + d].age \in Nat
    OBVIOUS
  <2>1. i + d \in 1..out
    BY <1>6, <1>1
  <2> QED
    BY <2>1, <1>1 DEF IsRequest
<1>12. ASSUME NEW i \in 1..(out - d)
       PROVE  /\ reqs'[i].we = reqs[i + d].we /\ reqs'[i].addr = reqs[i + d].addr
              /\ reqs'[i].data = reqs[i + d].data
              /\ bus.granted => reqs'[i].age <= reqs[i + d].age + 1
              /\ ~bus.granted => reqs'[i].age = reqs[i + d].age
  <2>1. reqs'[i] = old[i] /\ left[i] = reqs[i + d]
    BY <1>7, <1>2
  <2> QED
    BY <2>1, <1>4
<1>13. t = 1 => reqs'[out'] = Request(dma)
  BY <1>7, <1>9
<1>14. bus'.granted = grant
  BY <1>5
<1> QED
  BY <1>9, <1>10, <1>12, <1>13, <1>14 DEF d, t

(* A set of numbers with an upper bound has a greatest. *)
LEMMA Greatest ==
    ASSUME NEW S, NEW k \in Nat, S \subseteq 1..k, S # {}
    PROVE  \E m \in S : \A j \in S : j <= m
<1> DEFINE T == {x \in Nat : k - x \in S}
<1>1. T # {} /\ T \subseteq Nat
  <2>1. PICK j \in S : TRUE
    OBVIOUS
  <2>2. k - j \in Nat /\ k - (k - j) = j
    OBVIOUS
  <2> QED
    BY <2>1, <2>2
<1> HIDE DEF T
<1>2. PICK m \in T : \A x \in T : ~(<<x, m>> \in OpToRel(<, Nat))
  BY <1>1, NatLessThanWellFounded, WFMin
<1>3. \A x \in T : ~(x < m)
  BY <1>1, <1>2 DEF OpToRel
<1>4. k - m \in S
  BY DEF T
<1>5. ASSUME NEW j \in S PROVE j <= k - m
  <2>1. k - j \in Nat /\ k - (k - j) = j
    OBVIOUS
  <2>2. k - j \in T
    BY <2>1 DEF T
  <2>3. ~(k - j < m)
    BY <1>3, <2>2
  <2> QED
    BY <2>1, <2>3, <1>1, <1>4
<1> QED
  BY <1>4, <1>5

(* When a cycle is dropped, memory holds what it held, or what a request on its way writes. *)
LEMMA AbortedIs ==
    ASSUME BusOK, DOMAIN mem = Memory, NEW m \in Aborted
    PROVE  /\ DOMAIN m = Memory
           /\ \A a \in Memory :
                \/ m[a] = mem[a]
                \/ \E i \in 1..out : reqs[i].we /\ reqs[i].addr = a /\ m[a] = reqs[i].data
<1>1. PICK k \in 0..out : m = After(k)
  BY DEF Aborted, out
<1>2. out \in Nat
  BY DEF BusOK
<1>3. ASSUME NEW a \in Memory, m[a] # mem[a]
      PROVE  \E i \in 1..out : reqs[i].we /\ reqs[i].addr = a /\ m[a] = reqs[i].data
  <2> DEFINE S == WritesTo(a, 1, k)
  <2>1. S # {} /\ m[a] = bus.requests[CHOOSE i \in S : WritesTo(a, i + 1, k) = {}].data
    BY <1>1, <1>3 DEF After
  <2>2. S \subseteq 1..k /\ k \in Nat /\ \A i \in S : bus.requests[i].we /\ bus.requests[i].addr = a
    BY <1>2 DEF WritesTo
  <2>3. PICK g \in S : \A j \in S : j <= g
    BY <2>1, <2>2, Greatest
  <2>4. WritesTo(a, g + 1, k) = {}
    <3> SUFFICES ASSUME NEW j \in WritesTo(a, g + 1, k) PROVE FALSE
      OBVIOUS
    <3>1. j \in (g + 1)..k /\ g \in 1..k
      BY <2>2 DEF WritesTo
    <3>2. j \in S
      BY <3>1 DEF WritesTo
    <3> QED
      BY <3>1, <3>2, <2>3
  <2> HIDE DEF S
  <2>5. PICK i \in S : m[a] = bus.requests[i].data
    BY <2>1, <2>4
  <2> QED
    BY <2>5, <2>2, <1>2 DEF reqs
<1>4. DOMAIN m = Memory
  BY <1>1 DEF After
<1> QED
  BY <1>3, <1>4

(* What a clock does to memory. *)
LEMMA WrittenIs ==
    ASSUME BusOK, DOMAIN mem = Memory, NEW answer, answer = "ack" => out > 0, NEW m \in Written(answer)
    PROVE  /\ DOMAIN m = Memory
           /\ \A a \in Memory :
                \/ m[a] = mem[a]
                \/ \E i \in 1..out : reqs[i].we /\ reqs[i].addr = a /\ m[a] = reqs[i].data
           /\ Cyc(dma) /\ answer # "err" =>
                \A a \in Memory :
                   m[a] = IF answer = "ack" /\ reqs[1].we /\ reqs[1].addr = a THEN reqs[1].data ELSE mem[a]
<1>1. CASE answer = "err" \/ ~Cyc(dma)
  <2>1. m \in Aborted
    BY <1>1 DEF Written
  <2> QED
    BY <2>1, <1>1, AbortedIs
<1>2. CASE ~(answer = "err" \/ ~Cyc(dma)) /\ answer = "ack"
  <2>1. m = Performed(mem, reqs[1])
    BY <1>2 DEF Written, Oldest, reqs
  <2>2. 1 \in 1..out
    BY <1>2 DEF BusOK
  <2> QED
    BY <2>1, <2>2, <1>2 DEF Performed
<1>3. CASE ~(answer = "err" \/ ~Cyc(dma)) /\ answer # "ack"
  <2>1. m = mem
    BY <1>3 DEF Written
  <2> QED
    BY <2>1, <1>3
<1> QED
  BY <1>1, <1>2, <1>3

(* An answer is to the oldest request, when its time has come. *)
LEMMA AnswerIs ==
    ASSUME BusOK, NEW answer \in Answers
    PROVE  answer = "none" \/ (answer \in {"ack", "err"} /\ out > 0 /\ reqs[1].age = LATENCY /\ Oldest = reqs[1])
<1>1. answer # "none" => bus.requests # <<>> /\ Oldest.age = LATENCY /\ answer \in {"ack", "err"}
  BY DEF Answers
<1>2. bus.requests # <<>> => out > 0
  BY IsSeq DEF BusOK, reqs, out
<1>3. Oldest = reqs[1]
  BY DEF Oldest, reqs
<1> QED
  BY <1>1, <1>2, <1>3

(* The engine does nothing but take what is written to its registers. *)
LEMMA StillStep ==
    ASSUME RecordsOK, Still,
           NEW grant, NEW stall, NEW answer \in Answers, Transfer(grant, stall, answer),
           NEW m \in Written(answer)
    PROVE  /\ answer = "none" /\ BusOK' /\ out' = 0 /\ ~dma'.interrupt /\ ~dma'.trigger /\ dma'.dma_mem = dma.dma_mem
           /\ dma'.len \in Int /\ dma'.raddr \in Int /\ dma'.waddr \in Int /\ dma'.incs \in BOOLEAN
           /\ LenIs(dma'.len) /\ RdIs(dma'.raddr) /\ WrIs(dma'.waddr)
           /\ s.reg \notin {"DMACCOPY", "DMA_CONSTSRC"} => dma'.state = "IDLE"
           /\ s.reg \in {"DMACCOPY", "DMA_CONSTSRC"} =>
                /\ dma'.state = IF dma.len > 0 THEN "WAIT" ELSE "IDLE"
                /\ dma'.incs = (s.reg = "DMACCOPY")
           /\ DOMAIN m = Memory /\ \A a \in Memory : m[a] = mem[a]
<1> USE DEF RecordsOK
<1>1. answer = "none"
  BY AnswerIs DEF Still
<1>2. ~Cyc(dma) /\ ~We(dma) /\ ~Stb(dma)
  BY DEF Still, Cyc, We, Stb
<1>3. bus' = NoCycle
  BY <1>2 DEF Transfer, BusAfter
<1>4. out' = 0 /\ BusOK'
  BY <1>3 DEF NoCycle, BusOK, out, reqs
<1>5. DOMAIN m = Memory /\ \A a \in Memory : m[a] = mem[a]
  <2>1. m \in Aborted
    BY <1>2 DEF Written
  <2>2. \A a \in Memory : \/ m[a] = mem[a]
                          \/ \E i \in 1..out : reqs[i].we /\ reqs[i].addr = a /\ m[a] = reqs[i].data
    BY <2>1, AbortedIs
  <2>3. DOMAIN m = Memory
    BY <2>1, AbortedIs
  <2> QED
    BY <2>2, <2>3 DEF Still
<1>6. dma.state = "IDLE" /\ dma' = DmaClock(dma, stall, FALSE, FALSE, Junk)
  BY <1>1 DEF Still, Transfer
<1>7. /\ dma'.state = NextState(dma, stall, FALSE, FALSE) /\ ~dma'.interrupt /\ ~dma'.trigger
      /\ dma'.dma_mem = dma.dma_mem
      /\ dma'.incs = IF s.reg \in Controls THEN s.reg = "DMACCOPY" ELSE dma.incs
  BY <1>6 DEF DmaClock
<1>8. /\ dma'.len = IF s.reg = "len" THEN s.val ELSE dma.len - 0
      /\ dma'.raddr = IF s.reg = "rd" THEN s.val ELSE dma.raddr + 0
      /\ dma'.waddr = IF s.reg = "wr" THEN s.val ELSE dma.waddr + 0
      /\ dma'.incs = IF s.reg \in Controls THEN s.reg = "DMACCOPY" ELSE dma.incs
  BY <1>6, <1>2 DEF DmaClock, One, Step
<1>9. /\ dma'.len = (IF s.reg = "len" THEN s.val ELSE dma.len)
      /\ dma'.raddr = (IF s.reg = "rd" THEN s.val ELSE dma.raddr)
      /\ dma'.waddr = (IF s.reg = "wr" THEN s.val ELSE dma.waddr)
  BY <1>8
<1>10. /\ s.reg \notin {"DMACCOPY", "DMA_CONSTSRC"} => dma'.state = "IDLE"
       /\ s.reg \in {"DMACCOPY", "DMA_CONSTSRC"} =>
            /\ dma'.state = IF dma.len > 0 THEN "WAIT" ELSE "IDLE"
            /\ dma'.incs = (s.reg = "DMACCOPY")
  BY <1>6, <1>7 DEF NextState, Controls
<1>11. LenIs(dma'.len) /\ RdIs(dma'.raddr) /\ WrIs(dma'.waddr)
  BY <1>9 DEF LenIs, RdIs, WrIs
<1> QED
  BY <1>1, <1>4, <1>5, <1>7, <1>9, <1>10, <1>11

(* The engine's registers on a clock in which it reads. *)
LEMMA ReadClock ==
    ASSUME NEW grant, NEW stall \in BOOLEAN, NEW answer \in {"none", "ack"}, Transfer(grant, stall, answer),
           dma.state \in {"READ_REQ", "READ_ACK"}
    PROVE  /\ dma'.state = NextState(dma, stall, answer = "ack", FALSE)
           /\ dma'.raddr = dma.raddr + (IF dma.incs THEN Acked(answer) ELSE 0)
           /\ dma'.waddr = dma.waddr + 0 /\ dma'.len = dma.len - 0 /\ dma'.incs = dma.incs
           /\ dma'.addr = dma.addr + (IF dma.incs THEN Issued(stall) ELSE 0)
           /\ dma'.nracks = dma.nracks + Issued(stall) /\ dma'.nread = dma.nread + Acked(answer)
           /\ dma'.last_read_request = LastReadRequest(dma, stall)
           /\ dma'.last_read_ack = LastReadAck(dma, stall, answer = "ack")
           /\ ~dma'.interrupt /\ dma'.rdaddr = dma.rdaddr
           /\ dma'.dma_mem = [dma.dma_mem EXCEPT ![dma.nread % B] =
                                 IF answer = "ack" /\ ~Oldest.we THEN mem[Oldest.addr] ELSE Junk]
<1> DEFINE w == IF answer = "ack" /\ ~Oldest.we THEN mem[Oldest.addr] ELSE Junk
<1>1. dma' = DmaClock(dma, stall, answer = "ack", FALSE, w)
  BY DEF Transfer
<1>2. /\ Cyc(dma) /\ ~We(dma) /\ dma.state \notin {"IDLE", "WAIT", "PRE_WRITE", "WRITE_REQ", "WRITE_ACK"}
      /\ Stb(dma) <=> dma.state = "READ_REQ"
  BY DEF Cyc, We, Stb
<1> HIDE DEF w
<1>3. /\ dma'.state = NextState(dma, stall, answer = "ack", FALSE)
      /\ dma'.last_read_request = LastReadRequest(dma, stall)
      /\ dma'.last_read_ack = LastReadAck(dma, stall, answer = "ack")
      /\ ~dma'.interrupt
  BY <1>1, <1>2 DEF DmaClock
<1>4. /\ dma'.raddr = dma.raddr + (IF dma.incs THEN Acked(answer) ELSE 0)
      /\ dma'.waddr = dma.waddr + 0 /\ dma'.len = dma.len - 0 /\ dma'.incs = dma.incs
  BY <1>1, <1>2 DEF DmaClock, One, Step, Acked, Issued
<1>5. /\ dma'.addr = dma.addr + (IF dma.incs THEN Issued(stall) ELSE 0)
      /\ dma'.nracks = dma.nracks + Issued(stall)
  BY <1>1, <1>2 DEF DmaClock, One, Step, Acked, Issued
<1>6. dma'.nread = dma.nread + Acked(answer)
  BY <1>1, <1>2 DEF DmaClock, One, Acked
<1>7. dma'.rdaddr = dma.rdaddr /\ dma'.dma_mem = [dma.dma_mem EXCEPT ![dma.nread % B] = w]
  BY <1>1, <1>2 DEF DmaClock, B
<1> QED
  BY <1>3, <1>4, <1>5, <1>6, <1>7 DEF w

(* Nothing comes to memory, and nothing changes of what is to come. *)
LEMMA FarSame ==
    ASSUME FarOK, file \in Files, dma.len \in Nat, \A a \in Memory : mem'[a] = mem[a],
           Reached' = Reached, dma'.len = dma.len, dma'.incs = dma.incs, dma.incs \in BOOLEAN,
           file' = file, count'.errors = count.errors
    PROVE  FarOK'
<1>4. file.image \in Nat /\ file.bss \in Nat /\ StackWord \in Memory
      /\ \A a \in Int : a >= 0 /\ a < file.image + file.bss => a \in Memory
  BY FileFacts
<1>6. Reached <= file.image + file.bss /\ Reached \in Int
  BY <1>4 DEF FarOK
<1>7. mem'[StackWord] = mem[StackWord]
  BY <1>4
<1>8. dma.incs => Imaged(Reached)'
  <2>1. dma.incs => Imaged(Reached)
    BY DEF FarOK
  <2>2. \A a \in Int : a >= 0 /\ a < Reached => mem'[a] = mem[a]
    BY <1>4, <1>6
  <2> QED
    BY <2>1, <2>2, <1>6 DEF Imaged
<1>9. ~dma.incs /\ count.errors = 0 => Imaged(file.image)' /\ Cleared(Reached)'
  <2>1. ~dma.incs /\ count.errors = 0 => Imaged(file.image) /\ Cleared(Reached)
    BY DEF FarOK
  <2>2. \A a \in Int : a >= 0 /\ (a < Reached \/ a < file.image) => mem'[a] = mem[a]
    BY <1>4, <1>6
  <2> QED
    BY <2>1, <2>2, <1>4, <1>6 DEF Imaged, Cleared
<1> QED
  BY <1>7, <1>8, <1>9 DEF FarOK

(* A clock in which it reads, without an error. *)
LEMMA ReadStep ==
    ASSUME RecordsOK, RomOK, Moving, Reads, NEW grant, NEW stall, NEW answer, answer # "err",
           Clocked(grant, stall, answer)
    PROVE  Moving' /\ dma'.incs = dma.incs /\ BusOK' /\ DOMAIN dma'.dma_mem = Block /\ DOMAIN mem' = Memory
           /\ \A a \in Memory : mem'[a] = mem[a]
<1> DEFINE d == Acked(answer)
           t == Issued(stall)
           size == Smaller(dma.len, B)
<1>1. /\ out \in Nat /\ BusOK /\ B \in Nat /\ B >= 2 /\ LATENCY \in Nat /\ LATENCY >= 2 /\ Block = 0..(B - 1)
      /\ dma.incs \in BOOLEAN
  BY Sizes DEF RecordsOK, BusOK
<1>2. /\ answer \in {"none", "ack"} /\ (answer = "ack" => out > 0 /\ reqs[1].age = LATENCY /\ Oldest = reqs[1])
      /\ stall \in BOOLEAN
  BY <1>1, AnswerIs DEF Clocked, Stalls
<1>3. /\ dma.state \in {"READ_REQ", "READ_ACK"} /\ Cyc(dma) /\ ~We(dma) /\ (Stb(dma) <=> dma.state = "READ_REQ")
  BY DEF Reads, Cyc, We, Stb
<1>4. /\ dma.len \in Nat \ {0} /\ dma.waddr \in Nat /\ size \in Nat \ {0} /\ size <= B /\ size <= dma.len
  BY <1>1 DEF Moving, Smaller
<1>d. d \in {0, 1} /\ t \in {0, 1} /\ (d = 1 <=> answer = "ack") /\ (t = 1 <=> dma.state = "READ_REQ" /\ ~stall)
  BY <1>2, <1>3 DEF Acked, Issued
<1> HIDE DEF d, t
<1>5. /\ BusOK' /\ out' = out - d + t
      /\ \A i \in 1..(out - d) : /\ reqs'[i].we = reqs[i + d].we /\ reqs'[i].addr = reqs[i + d].addr
      /\ t = 1 => reqs'[out'] = Request(dma)
  <2>1. bus' = BusAfter(grant, stall, answer)
    BY DEF Clocked, Transfer
  <2> QED
    BY <2>1, <1>1, <1>2, <1>3, BusStep DEF d, t
<1>6. /\ dma'.state = NextState(dma, stall, answer = "ack", FALSE)
      /\ dma'.raddr = dma.raddr + (IF dma.incs THEN d ELSE 0)
      /\ dma'.waddr = dma.waddr + 0 /\ dma'.len = dma.len - 0 /\ dma'.incs = dma.incs
      /\ dma'.addr = dma.addr + (IF dma.incs THEN t ELSE 0)
      /\ dma'.nracks = dma.nracks + t /\ dma'.nread = dma.nread + d
      /\ dma'.last_read_request = LastReadRequest(dma, stall)
      /\ dma'.last_read_ack = LastReadAck(dma, stall, answer = "ack")
      /\ ~dma'.interrupt /\ dma'.rdaddr = dma.rdaddr
      /\ dma'.dma_mem = [dma.dma_mem EXCEPT ![dma.nread % B] =
                            IF answer = "ack" /\ ~Oldest.we THEN mem[Oldest.addr] ELSE Junk]
  <2>1. Transfer(grant, stall, answer)
    BY DEF Clocked
  <2> QED
    BY <2>1, <1>2, <1>3, ReadClock DEF d, t
<1>7. dma'.waddr = dma.waddr /\ dma'.len = dma.len
  BY <1>4, <1>6
<1>8. /\ dma.nread \in Nat /\ dma.nracks \in Nat /\ dma.nracks = dma.nread + out
      /\ dma.addr = Src(dma.waddr + dma.nracks) /\ dma.rdaddr = 0
      /\ dma.raddr = Src(dma.waddr + dma.nread)
      /\ \A i \in 1..out : ~reqs[i].we /\ reqs[i].addr = Src(dma.waddr + dma.nread + i - 1)
      /\ \A j \in 0..(dma.nread - 1) : dma.dma_mem[j] = Val(dma.waddr + j)
  BY DEF Reads
<1>9. dma.nread < B /\ dma.nread < size /\ dma.nracks <= size
  BY <1>1, <1>4, <1>8, SMTT(60) DEF Reads
<1>n. /\ out \in Nat /\ d \in {0, 1} /\ t \in {0, 1} /\ dma.waddr \in Nat /\ dma.nread \in Nat
      /\ dma.nracks = dma.nread + out /\ (d = 1 => out > 0) /\ out' = out - d + t
  BY <1>1, <1>2, <1>4, <1>5, <1>8, <1>d
(* Memory stays. *)
<1>10. DOMAIN mem' = Memory /\ \A a \in Memory : mem'[a] = mem[a]
  <2>1. mem' \in Written(answer)
    BY DEF Clocked
  <2>2. answer = "ack" => ~reqs[1].we
    BY <1>2, <1>8, <1>1
  <2>3. DOMAIN mem = Memory
    BY DEF RecordsOK
  <2> QED
    BY <2>1, <2>2, <2>3, <1>1, <1>2, <1>3, WrittenIs
(* The word that comes is the one asked for. *)
<1>11. answer = "ack" => ~Oldest.we /\ mem[Oldest.addr] = Val(dma.waddr + dma.nread)
  <2> SUFFICES ASSUME answer = "ack" PROVE ~Oldest.we /\ mem[Oldest.addr] = Val(dma.waddr + dma.nread)
    OBVIOUS
  <2>1. ~Oldest.we /\ Oldest.addr = Src(dma.waddr + dma.nread)
    <3>1. 1 \in 1..out /\ dma.waddr + dma.nread + 1 - 1 = dma.waddr + dma.nread
      BY <1>1, <1>2, <1>4, <1>8
    <3> QED
      BY <3>1, <1>2, <1>8
  <2>2. CASE dma.incs
    <3>1. file.rom /\ Reached + dma.len = file.image /\ Reached = dma.waddr
      BY <2>2, <1>3 DEF Moving, FarOK, Reached
    <3>2. dma.waddr + dma.nread \in 0..(file.image - 1)
      BY <3>1, <1>4, <1>8, <1>9
    <3>3. mem[RomImage + (dma.waddr + dma.nread)] = Image(file, dma.waddr + dma.nread)
      BY <3>1, <3>2 DEF RomOK
    <3> QED
      BY <2>1, <2>2, <3>3 DEF Src, Val
  <2>3. CASE ~dma.incs
    BY <2>1, <2>3 DEF Src, Val, Moving, FarOK
  <2> QED
    BY <2>2, <2>3
<1>12. dma'.incs = dma.incs /\ file' = file
  BY <1>6 DEF Clocked
<1>13. ASSUME NEW x \in Int, NEW y \in {0, 1} PROVE Src(x + y) = Src(x) + (IF dma.incs THEN y ELSE 0)
  <2>1. RomImage \in Int /\ StackWord \in Int
    BY FileFacts DEF RecordsOK
  <2> QED
    BY <2>1 DEF Src
<1>14. dma'.raddr = Src(dma.waddr + dma'.nread)
  <2>1. dma.waddr + dma.nread \in Int /\ dma.waddr + (dma.nread + d) = (dma.waddr + dma.nread) + d
    BY <1>4, <1>8, <1>d
  <2> QED
    BY <2>1, <1>6, <1>8, <1>d, <1>13
<1>15. dma'.addr = Src(dma.waddr + dma'.nracks)
  <2>1. dma.waddr + dma.nracks \in Int /\ dma.waddr + (dma.nracks + t) = (dma.waddr + dma.nracks) + t
    BY <1>4, <1>8, <1>d
  <2> QED
    BY <2>1, <1>6, <1>8, <1>d, <1>13
<1>16. ASSUME NEW i \in 1..out' PROVE ~reqs'[i].we /\ reqs'[i].addr = Src(dma.waddr + dma'.nread + i - 1)
  <2>1. CASE i \in 1..(out - d)
    <3>1. i + d \in 1..out /\ dma.waddr + dma.nread + (i + d) - 1 = dma.waddr + (dma.nread + d) + i - 1
      BY <2>1, <1>n
    <3> QED
      BY <2>1, <3>1, <1>5, <1>6, <1>8
  <2>2. CASE i \notin 1..(out - d)
    <3>1. t = 1 /\ i = out'
      BY <2>2, <1>n
    <3>2. ~reqs'[i].we /\ reqs'[i].addr = dma.addr
      BY <3>1, <1>5, <1>3 DEF Request
    <3>3. dma.waddr + (dma.nread + d) + (out - d + 1) - 1 = dma.waddr + dma.nracks
      BY <1>n
    <3> QED
      BY <3>1, <3>2, <3>3, <1>5, <1>6, <1>8
  <2> QED
    BY <2>1, <2>2
<1>17. /\ DOMAIN dma'.dma_mem = Block
       /\ \A j \in 0..(dma'.nread - 1) : dma'.dma_mem[j] = Val(dma.waddr + j)
  <2>1. dma.nread % B = dma.nread /\ dma.nread \in Block
    <3>1. B \in Nat /\ B > 0 /\ dma.nread \in Nat /\ dma.nread < B /\ Block = 0..(B - 1)
      BY <1>1, <1>n, <1>9
    <3> HIDE DEF B
    <3> QED
      BY <3>1
  <2>2. DOMAIN dma.dma_mem = Block
    BY DEF RecordsOK
  <2>3. dma'.dma_mem = [dma.dma_mem EXCEPT ![dma.nread] =
                            IF answer = "ack" THEN Val(dma.waddr + dma.nread) ELSE Junk]
    BY <2>1, <1>6, <1>11
  <2>4. ASSUME NEW j \in 0..(dma'.nread - 1) PROVE dma'.dma_mem[j] = Val(dma.waddr + j)
    <3>1. j \in 0..(dma.nread - 1) \/ (j = dma.nread /\ answer = "ack")
      BY <1>6, <1>8, <1>d
    <3>2. j \in Block
      BY <3>1, <1>1, <1>8, <1>9
    <3> QED
      BY <3>1, <3>2, <2>2, <2>3, <1>8
  <2> QED
    BY <2>2, <2>3, <2>4
<1>18. dma'.nread \in Nat /\ dma'.nracks \in Nat /\ dma'.nracks = dma'.nread + out' /\ dma'.rdaddr = 0
  BY <1>n, <1>6, <1>8
(* What memory holds. *)
<1>19. dma'.state \in {"READ_REQ", "READ_ACK", "PRE_WRITE"} /\ (dma'.state = "PRE_WRITE" => out' = 0) => FarOK'
  <2> SUFFICES ASSUME dma'.state \in {"READ_REQ", "READ_ACK", "PRE_WRITE"}, dma'.state = "PRE_WRITE" => out' = 0
               PROVE  FarOK'
    OBVIOUS
  <2>1. Reached' = Reached
    BY <1>3, <1>4, <1>7 DEF Reached, We
  <2>2. file' = file /\ count'.errors = count.errors
    BY DEF Clocked
  <2> QED
    BY <2>1, <2>2, <1>4, <1>6, <1>7, <1>10, FarSame DEF Moving, RecordsOK
(* The flags. *)
<1>20. /\ dma'.state = "READ_REQ" \/ dma'.state = "READ_ACK" => Reads'
       /\ dma'.state = "PRE_WRITE" => out' = 0 /\ dma'.nread = size
       /\ dma'.state \in {"READ_REQ", "READ_ACK", "PRE_WRITE"}
  <2> DEFINE Rest1 == dma'.nracks < size /\ (dma'.last_read_request <=> dma'.nracks = size - 1)
                      /\ (dma'.last_read_ack => dma'.nread = B - 1)
             Rest2 == /\ dma'.nracks = size /\ dma'.nread < size
                      /\ dma'.last_read_ack => out' = 1
                      /\ ~dma'.last_read_ack /\ out' = 1 => reqs'[1].age = 0
  <2> HIDE DEF Rest1, Rest2
  <2>0. /\ Rest1 /\ dma'.state = "READ_REQ" => Reads'
        /\ Rest2 /\ dma'.state = "READ_ACK" => Reads'
    <3>1. Smaller(dma.len, B)' = size
      BY <1>7 DEF Smaller, B
    <3>2. \A j \in 0..(dma'.nread - 1) : dma'.dma_mem[j] = Val(dma.waddr + j)'
      <4> SUFFICES ASSUME NEW j \in 0..(dma'.nread - 1) PROVE dma'.dma_mem[j] = Val(dma.waddr + j)'
        OBVIOUS
      <4>1. dma.waddr + j \in Int
        BY <1>n, <1>18
      <4> QED
        BY <4>1, <1>7, <1>12, <1>17 DEF Src, Val
    <3>3. \A i \in 1..out' : ~reqs'[i].we /\ reqs'[i].addr = Src(dma.waddr + dma.nread + i - 1)'
      <4> SUFFICES ASSUME NEW i \in 1..out' PROVE ~reqs'[i].we /\ reqs'[i].addr = Src(dma.waddr + dma.nread + i - 1)'
        OBVIOUS
      <4>1. dma.waddr + dma'.nread + i - 1 \in Int
        BY <1>n, <1>18
      <4> QED
        BY <4>1, <1>7, <1>12, <1>16 DEF Src, Val
    <3>4. dma'.addr = Src(dma.waddr + dma.nracks)' /\ dma'.raddr = Src(dma.waddr + dma.nread)'
      <4>1. dma.waddr + dma'.nracks \in Int /\ dma.waddr + dma'.nread \in Int
        BY <1>n, <1>18
      <4> QED
        BY <4>1, <1>7, <1>12, <1>14, <1>15 DEF Src, Val
    <3> QED
      BY <3>1, <3>2, <3>3, <3>4, <1>18 DEF Reads, Rest1, Rest2
  <2>1. CASE dma.state = "READ_REQ"
    <3>1. /\ dma.nracks < size /\ (dma.last_read_request <=> dma.nracks = size - 1)
          /\ dma.last_read_ack => dma.nread = B - 1
      BY <2>1 DEF Reads
    <3>2. ~(answer = "ack" /\ dma.last_read_ack)
      BY <3>1, <1>2, <1>n, <1>4, <1>1
    <3>3. dma'.state = IF t = 1 /\ dma.nracks = size - 1 THEN "READ_ACK" ELSE "READ_REQ"
      BY <2>1, <3>1, <3>2, <1>6, <1>d DEF NextState
    <3>4. LastReadRequest(dma, stall) <=> (IF t = 1 THEN dma.nracks + 1 = B - 1 \/ dma.nracks = dma.len - 2
                                           ELSE dma.nracks = B - 1 \/ dma.nracks = dma.len - 1)
      BY <2>1, <1>d, Sizes DEF LastReadRequest
    <3>5. LastReadAck(dma, stall, answer = "ack") <=> (IF d = 1 /\ t = 0 THEN dma.nread + 1 ELSE dma.nread) = B - 1
      BY <2>1, <1>d, <1>3, Sizes DEF LastReadAck
    <3>6. CASE dma'.state = "READ_REQ"
      <4>1. Rest1
        <5>1. dma'.nracks < size
          BY <3>6, <3>3, <3>1, <1>6, <1>n, <1>4, <1>d
        <5>2. dma'.last_read_request <=> dma'.nracks = size - 1
          <6>1. /\ dma'.last_read_request <=> (IF t = 1 THEN dma.nracks + 1 = B - 1 \/ dma.nracks = dma.len - 2
                                               ELSE dma.nracks = B - 1 \/ dma.nracks = dma.len - 1)
                /\ dma'.nracks = dma.nracks + t /\ dma.nracks \in Nat /\ t \in {0, 1} /\ B \in Nat /\ dma.len \in Nat
            BY <3>4, <1>6, <1>n, <1>4, <1>d, <1>1
          <6>2. (size = dma.len /\ dma.len <= B) \/ (size = B /\ B < dma.len)
            BY <1>4, <1>1 DEF Smaller
          <6> HIDE DEF size, B
          <6>3. CASE t = 1
            BY <6>1, <6>2, <6>3, <5>1
          <6>4. CASE t = 0
            BY <6>1, <6>2, <6>4, <5>1
          <6> QED
            BY <6>1, <6>3, <6>4
        <5>3. dma'.last_read_ack => dma'.nread = B - 1
          BY <3>1, <3>5, <1>6, <1>n, <1>4, <1>d, <1>1
        <5> QED
          BY <5>1, <5>2, <5>3 DEF Rest1
      <4> QED
        BY <4>1, <3>6, <2>0
    <3>7. CASE dma'.state = "READ_ACK"
      <4>1. t = 1 /\ dma.nracks = size - 1
        BY <3>7, <3>3
      <4>2. dma'.nracks = size /\ dma'.nread < size
        BY <4>1, <1>6, <1>n, <1>4
      <4>3. dma'.last_read_ack => out' = 1
        BY <4>1, <3>5, <1>6, <1>n, <1>4, <1>1
      <4>4. out' = 1 => reqs'[1].age = 0
        BY <4>1, <1>5 DEF Request
      <4>5. Rest2
        BY <4>2, <4>3, <4>4 DEF Rest2
      <4> QED
        BY <4>5, <3>7, <2>0
    <3> QED
      BY <3>3, <3>6, <3>7
  <2>2. CASE dma.state = "READ_ACK"
    <3>1. /\ dma.nracks = size /\ dma.nread < size
          /\ dma.last_read_ack => out = 1
          /\ ~dma.last_read_ack /\ out = 1 => reqs[1].age = 0
      BY <2>2 DEF Reads
    <3>2. t = 0 /\ dma'.nracks = size /\ dma'.nread = dma.nread + d /\ out' = out - d /\ size = dma.nread + out
      BY <2>2, <3>1, <1>d, <1>n, <1>6, <1>4
    <3>3. dma'.state = IF answer = "ack" /\ dma.last_read_ack THEN "PRE_WRITE" ELSE "READ_ACK"
      BY <2>2, <1>6, <1>3 DEF NextState
    <3>4. LastReadAck(dma, stall, answer = "ack") <=> dma.nracks = (IF d = 1 THEN dma.nread + 2 ELSE dma.nread + 1)
      BY <2>2, <1>d, <1>3 DEF LastReadAck
    <3>5. CASE dma'.state = "PRE_WRITE"
      <4>1. d = 1 /\ out = 1
        BY <3>5, <3>3, <3>1, <1>d
      <4> QED
        BY <4>1, <3>2, <3>5, <1>n
    <3>6. CASE dma'.state = "READ_ACK"
      <4>1. d = 1 => out > 1
        <5> SUFFICES ASSUME d = 1, out = 1 PROVE FALSE
          BY <1>n
        <5>1. ~dma.last_read_ack
          BY <3>6, <3>3, <1>d
        <5> QED
          BY <5>1, <3>1, <1>1, <1>2, <1>d
      <4>2. dma'.nread < size
        BY <4>1, <3>1, <3>2, <1>n
      <4>3. dma'.last_read_ack <=> out' = 1
        BY <3>1, <3>2, <3>4, <1>n, <1>6
      <4>4. Rest2
        BY <4>2, <4>3, <3>2 DEF Rest2
      <4> QED
        BY <4>4, <3>6, <2>0
    <3> QED
      BY <3>3, <3>5, <3>6
  <2> QED
    BY <2>1, <2>2, <1>3
<1>21. FarOK'
  BY <1>19, <1>20, <1>n
<1>22. dma'.state = "PRE_WRITE" => HasBlock(dma.waddr)' /\ dma'.nread = Smaller(dma.len, B)'
  <2> SUFFICES ASSUME dma'.state = "PRE_WRITE" PROVE HasBlock(dma.waddr)' /\ dma'.nread = Smaller(dma.len, B)'
    OBVIOUS
  <2>1. dma'.nread = size /\ Smaller(dma.len, B)' = size
    BY <1>7, <1>20 DEF Smaller, B
  <2>2. dma'.nread \in 1..B
    BY <2>1, <1>4, <1>1
  <2>3. dma'.raddr = Src(dma.waddr + dma.nread)'
    <3>1. dma.waddr + dma'.nread \in Int
      BY <1>n, <1>18
    <3> QED
      BY <3>1, <1>7, <1>12, <1>14 DEF Src, Val
  <2>4. \A j \in 0..(dma'.nread - 1) : dma'.dma_mem[j] = Val(dma.waddr + j)'
    <3> SUFFICES ASSUME NEW j \in 0..(dma'.nread - 1) PROVE dma'.dma_mem[j] = Val(dma.waddr + j)'
      OBVIOUS
    <3>1. dma.waddr + j \in Int
      BY <1>n, <1>18
    <3> QED
      BY <3>1, <1>7, <1>12, <1>17 DEF Src, Val
  <2> QED
    BY <2>1, <2>2, <2>3, <2>4 DEF HasBlock, B
<1>23. Moving'
  BY <1>4, <1>6, <1>7, <1>18, <1>20, <1>21, <1>22 DEF Moving
<1> QED
  BY <1>5, <1>6, <1>10, <1>17, <1>23

(* Without requests and out of a bus cycle there is no answer, and nothing to do for the bus. *)
LEMMA NoRequests ==
    ASSUME RecordsOK, out = 0, ~Cyc(dma), NEW grant, NEW stall, NEW answer, Clocked(grant, stall, answer)
    PROVE  /\ answer = "none" /\ BusOK' /\ out' = 0
           /\ DOMAIN mem' = Memory /\ \A a \in Memory : mem'[a] = mem[a]
<1>1. BusOK /\ DOMAIN mem = Memory
  BY DEF RecordsOK
<1>2. answer = "none"
  BY <1>1, AnswerIs DEF Clocked
<1>3. bus' = NoCycle
  BY DEF Clocked, Transfer, BusAfter
<1>4. out' = 0 /\ BusOK'
  BY <1>3 DEF NoCycle, BusOK, out, reqs
<1>5. mem' \in Written(answer)
  BY DEF Clocked
<1>6. /\ DOMAIN mem' = Memory
      /\ \A a \in Memory :
           \/ mem'[a] = mem[a]
           \/ \E i \in 1..out : reqs[i].we /\ reqs[i].addr = a /\ mem'[a] = reqs[i].data
  BY <1>1, <1>2, <1>5, WrittenIs
<1> QED
  BY <1>2, <1>4, <1>6

(* A clock in which it waits to start a block. *)
LEMMA WaitStep ==
    ASSUME RecordsOK, Moving, dma.state = "WAIT", out = 0, dma.raddr = Src(dma.waddr), dma.trigger => dma.nracks = 0,
           NEW grant, NEW stall, NEW answer, Clocked(grant, stall, answer)
    PROVE  Moving' /\ dma'.incs = dma.incs /\ BusOK' /\ DOMAIN dma'.dma_mem = Block /\ DOMAIN mem' = Memory
           /\ \A a \in Memory : mem'[a] = mem[a]
<1>1. /\ ~Cyc(dma) /\ ~We(dma) /\ ~Stb(dma)
  BY DEF Cyc, We, Stb
<1>2. /\ answer = "none" /\ BusOK' /\ out' = 0
      /\ DOMAIN mem' = Memory /\ \A a \in Memory : mem'[a] = mem[a]
  BY <1>1, NoRequests
<1>3. /\ B \in Nat /\ B >= 2 /\ sub_one = B - 1 /\ dma.len \in Nat \ {0} /\ dma.waddr \in Nat
      /\ dma.incs \in BOOLEAN /\ dma.raddr \in Int /\ file \in Files /\ DOMAIN dma.dma_mem = Block
  BY Sizes DEF Moving, RecordsOK
<1>4. dma' = DmaClock(dma, stall, FALSE, FALSE, Junk)
  BY <1>2 DEF Clocked, Transfer
<1>5. /\ dma'.state = (IF dma.trigger THEN "READ_REQ" ELSE "WAIT")
      /\ dma'.nracks = 0 /\ dma'.nread = 0 /\ dma'.rdaddr = 0 /\ dma'.addr = dma.raddr
      /\ ~dma'.interrupt /\ dma'.dma_mem = dma.dma_mem /\ dma'.incs = dma.incs
  BY <1>4 DEF DmaClock, NextState
<1>6. dma'.raddr = dma.raddr + 0 /\ dma'.waddr = dma.waddr + 0 /\ dma'.len = dma.len - 0
  BY <1>1, <1>4 DEF DmaClock, One, Step
<1>7. dma'.raddr = dma.raddr /\ dma'.waddr = dma.waddr /\ dma'.len = dma.len
  BY <1>3, <1>6
<1>8. /\ dma'.last_read_request = LastReadRequest(dma, stall) /\ ~dma'.last_read_ack
  BY <1>4 DEF DmaClock, LastReadAck
<1>9. dma.trigger => (dma'.last_read_request <=> dma.len = 1)
  <2>1. LastReadRequest(dma, stall) <=> (dma.nracks = sub_one \/ dma.nracks = dma.len - 1)
    BY DEF LastReadRequest
  <2> QED
    BY <2>1, <1>3, <1>8
<1>10. file' = file /\ count'.errors = count.errors
  BY <1>2 DEF Clocked
<1>11. FarOK'
  <2>1. Reached' = Reached
    BY <1>1, <1>3, <1>5, <1>7 DEF Reached, We
  <2> QED
    BY <2>1, <1>2, <1>3, <1>5, <1>7, <1>10, FarSame DEF Moving
<1>12. CASE ~dma.trigger
  BY <1>12, <1>2, <1>3, <1>5, <1>7, <1>10, <1>11 DEF Moving, Src
<1>13. CASE dma.trigger
  <2>1. Smaller(dma.len, B)' = Smaller(dma.len, B) /\ Smaller(dma.len, B) \in Nat \ {0}
        /\ (Smaller(dma.len, B) = 1 <=> dma.len = 1)
    BY <1>3, <1>7 DEF Smaller, B
  <2>2. dma'.waddr + 0 = dma.waddr
    BY <1>3, <1>7
  <2>3. dma'.addr = Src(dma.waddr + dma.nracks)' /\ dma'.raddr = Src(dma.waddr + dma.nread)'
    BY <2>2, <1>5, <1>7, <1>10 DEF Src
  <2>4. Reads'
    BY <1>13, <2>1, <2>3, <1>2, <1>3, <1>5, <1>8, <1>9 DEF Reads
  <2>5. dma'.len \in Nat \ {0} /\ dma'.waddr \in Nat /\ ~dma'.interrupt
    BY <1>3, <1>5, <1>7
  <2>6. Moving'
    BY <2>4, <2>5, <1>11 DEF Moving
  <2> QED
    BY <2>6, <1>2, <1>3, <1>5
<1> QED
  BY <1>2, <1>3, <1>5, <1>12, <1>13

(* The clock between reading and writing. *)
LEMMA PreWriteStep ==
    ASSUME RecordsOK, Moving, dma.state = "PRE_WRITE", out = 0, dma.rdaddr = 0,
           HasBlock(dma.waddr), dma.nread = Smaller(dma.len, B), dma.incs \/ ~dma.incs,
           NEW grant, NEW stall, NEW answer, Clocked(grant, stall, answer)
    PROVE  Moving' /\ dma'.incs = dma.incs /\ BusOK' /\ DOMAIN dma'.dma_mem = Block /\ DOMAIN mem' = Memory
           /\ \A a \in Memory : mem'[a] = mem[a]
<1>1. /\ ~Cyc(dma) /\ ~Stb(dma)
  BY DEF Cyc, Stb
<1>2. /\ answer = "none" /\ BusOK' /\ out' = 0
      /\ DOMAIN mem' = Memory /\ \A a \in Memory : mem'[a] = mem[a]
  BY <1>1, NoRequests
<1>3. /\ B \in Nat /\ B >= 2 /\ dma.len \in Nat \ {0} /\ dma.waddr \in Nat /\ dma.nread \in 1..B
      /\ dma.incs \in BOOLEAN /\ dma.raddr \in Int /\ file \in Files /\ DOMAIN dma.dma_mem = Block
  BY Sizes DEF Moving, RecordsOK, HasBlock
<1>4. dma' = DmaClock(dma, stall, FALSE, FALSE, Junk)
  BY <1>2 DEF Clocked, Transfer
<1>5. /\ dma'.state = "WRITE_REQ" /\ dma'.addr = dma.waddr /\ dma'.rdaddr = (dma.rdaddr + 1) % B
      /\ ~dma'.interrupt /\ dma'.dma_mem = dma.dma_mem /\ dma'.incs = dma.incs
      /\ dma'.nwritten = 0 /\ dma'.nwacks = 0 /\ dma'.data = dma.dma_mem[0]
      /\ dma'.last_write_request = LastWriteRequest(dma, stall) /\ ~dma'.last_write_ack
  BY <1>1, <1>4 DEF DmaClock, NextState, B, LastWriteAck
<1>6. dma'.raddr = dma.raddr + 0 /\ dma'.waddr = dma.waddr + 0 /\ dma'.len = dma.len - 0 /\ dma'.nread = dma.nread + 0
  BY <1>1, <1>4 DEF DmaClock, One, Step
<1>7. dma'.raddr = dma.raddr /\ dma'.waddr = dma.waddr /\ dma'.len = dma.len /\ dma'.nread = dma.nread
  BY <1>3, <1>6
<1>8. dma'.last_write_request <=> dma.nread = 1
  <2>1. LastWriteRequest(dma, stall) <=> dma.nread <= 1
    BY DEF LastWriteRequest
  <2> QED
    BY <2>1, <1>3, <1>5
<1>9. dma'.rdaddr = (dma'.nwritten + 1) % B
  BY <1>5
<1>10. file' = file /\ count'.errors = count.errors
  BY <1>2 DEF Clocked
<1>11. FarOK'
  <2>1. Reached' = Reached
    BY <1>2, <1>3, <1>5, <1>7 DEF Reached, We
  <2> QED
    BY <2>1, <1>2, <1>3, <1>5, <1>7, <1>10, FarSame DEF Moving
<1>12. HasBlock(dma.waddr - dma.nwritten)' /\ dma'.waddr - dma'.nwritten \in Nat
  <2>1. dma'.waddr - dma'.nwritten = dma.waddr
    BY <1>3, <1>5, <1>7
  <2>2. dma'.raddr = Src(dma.waddr + dma.nread) /\ \A j \in 0..(dma.nread - 1) : dma.dma_mem[j] = Val(dma.waddr + j)
    BY <1>7 DEF HasBlock
  <2> QED
    BY <2>1, <2>2, <1>3, <1>5, <1>7, <1>10 DEF HasBlock, Src, Val, B
<1>13. dma'.data = Val(dma.waddr)'
  <2>1. 0 \in 0..(dma.nread - 1) /\ dma.waddr + 0 = dma.waddr
    BY <1>3
  <2>2. dma.dma_mem[0] = Val(dma.waddr)
    BY <2>1 DEF HasBlock
  <2> QED
    BY <2>2, <1>5, <1>7, <1>10 DEF Val
<1>14. dma'.nread = Smaller(dma.len + dma.nwacks, B)'
  BY <1>3, <1>5, <1>7 DEF Smaller, B
<1>15. WritesBlock'
  BY <1>2, <1>3, <1>5, <1>7, <1>8, <1>9, <1>12, <1>13, <1>14 DEF WritesBlock
<1> QED
  BY <1>2, <1>3, <1>5, <1>7, <1>11, <1>15 DEF Moving

(* The engine's registers on a clock in which it writes. *)
LEMMA WriteClock ==
    ASSUME NEW grant, NEW stall \in BOOLEAN, NEW answer \in {"none", "ack"}, Transfer(grant, stall, answer),
           dma.state \in {"WRITE_REQ", "WRITE_ACK"}
    PROVE  /\ dma'.state = NextState(dma, stall, answer = "ack", FALSE)
           /\ dma'.raddr = dma.raddr + 0 /\ dma'.waddr = dma.waddr + Issued(stall)
           /\ dma'.len = dma.len - Acked(answer) /\ dma'.incs = dma.incs
           /\ dma'.addr = dma.addr + Issued(stall) /\ dma'.nread = dma.nread + 0
           /\ dma'.nwritten = dma.nwritten + Issued(stall) /\ dma'.nwacks = dma.nwacks + Acked(answer)
           /\ dma'.last_write_request = LastWriteRequest(dma, stall)
           /\ dma'.last_write_ack = LastWriteAck(dma, stall, answer = "ack")
           /\ dma'.interrupt <=> dma.state = "WRITE_ACK" /\ answer = "ack" /\ dma.last_write_ack /\ dma.len = 1
           /\ ~dma'.trigger /\ dma'.dma_mem = dma.dma_mem
           /\ dma.state = "WRITE_REQ" /\ ~stall => dma'.rdaddr = (dma.rdaddr + 1) % B /\ dma'.data = dma.dma_mem[dma.rdaddr]
           /\ dma.state = "WRITE_REQ" /\ stall => dma'.rdaddr = dma.rdaddr /\ dma'.data = dma.data
<1> DEFINE w == IF answer = "ack" /\ ~Oldest.we THEN mem[Oldest.addr] ELSE Junk
<1>1. dma' = DmaClock(dma, stall, answer = "ack", FALSE, w)
  BY DEF Transfer
<1>2. /\ Cyc(dma) /\ We(dma) /\ dma.state \notin {"IDLE", "WAIT", "PRE_WRITE", "READ_REQ", "READ_ACK"}
      /\ Stb(dma) <=> dma.state = "WRITE_REQ"
  BY DEF Cyc, We, Stb
<1> HIDE DEF w
<1>3. /\ dma'.state = NextState(dma, stall, answer = "ack", FALSE)
      /\ dma'.last_write_request = LastWriteRequest(dma, stall)
      /\ dma'.last_write_ack = LastWriteAck(dma, stall, answer = "ack")
  BY <1>1, <1>2 DEF DmaClock
<1>4. /\ dma'.interrupt <=> dma.state = "WRITE_ACK" /\ answer = "ack" /\ dma.last_write_ack /\ dma.len = 1
      /\ ~dma'.trigger /\ dma'.dma_mem = dma.dma_mem /\ dma'.incs = dma.incs
  BY <1>1, <1>2 DEF DmaClock
<1>5. dma'.raddr = dma.raddr + 0 /\ dma'.nread = dma.nread + 0 /\ dma'.len = dma.len - Acked(answer)
  BY <1>1, <1>2 DEF DmaClock, One, Step, Acked
<1>6. dma'.waddr = dma.waddr + Issued(stall) /\ dma'.addr = dma.addr + Issued(stall)
  BY <1>1, <1>2 DEF DmaClock, One, Step, Issued
<1>7. dma'.nwritten = dma.nwritten + Issued(stall) /\ dma'.nwacks = dma.nwacks + Acked(answer)
  BY <1>1, <1>2 DEF DmaClock, One, Issued, Acked
<1>8. /\ dma.state = "WRITE_REQ" /\ ~stall => dma'.rdaddr = (dma.rdaddr + 1) % B /\ dma'.data = dma.dma_mem[dma.rdaddr]
      /\ dma.state = "WRITE_REQ" /\ stall => dma'.rdaddr = dma.rdaddr /\ dma'.data = dma.data
  BY <1>1, <1>2 DEF DmaClock, B
<1> QED
  BY <1>3, <1>4, <1>5, <1>6, <1>7, <1>8

(* The next word comes to memory, or none does. *)
LEMMA FarStep ==
    ASSUME FarOK, file \in Files, NEW d \in {0, 1}, dma.len \in Nat \ {0}, dma.incs \in BOOLEAN,
           \A a \in Memory : mem'[a] = IF d = 1 /\ a = Reached THEN Val(Reached) ELSE mem[a],
           Reached' = Reached + d, dma'.len = dma.len - d, dma'.incs = dma.incs,
           file' = file, count'.errors = count.errors
    PROVE  FarOK' /\ Reached \in Nat /\ Reached < file.image + file.bss
<1>1. file.image \in Nat /\ file.bss \in Nat /\ StackWord \in Memory /\ Reached \in Nat
      /\ \A a \in Int : a >= 0 /\ a < file.image + file.bss => a \in Memory /\ a # StackWord
  BY FileFacts DEF FarOK
<1>2. Reached < file.image + file.bss
  BY <1>1 DEF FarOK
<1>3. Reached' \in Nat
  BY <1>1
<1>4. mem'[StackWord] = mem[StackWord]
  BY <1>1, <1>2
<1>5. ASSUME dma.incs PROVE file.rom /\ Reached' + dma'.len = file.image /\ Imaged(Reached)'
  <2>1. file.rom /\ Reached + dma.len = file.image /\ Imaged(Reached)
    BY <1>5 DEF FarOK
  <2>2. ASSUME NEW a \in 0..(Reached' - 1) PROVE mem'[a] = Image(file, a)
    <3>1. a \in Memory
      BY <1>1, <2>1
    <3>2. CASE a = Reached /\ d = 1
      BY <1>5, <3>1, <3>2 DEF Val
    <3>3. CASE ~(a = Reached /\ d = 1)
      BY <1>1, <2>1, <3>1, <3>3 DEF Imaged
    <3> QED
      BY <3>2, <3>3
  <2> QED
    BY <2>1, <2>2, <1>1 DEF Imaged
<1>6. ASSUME ~dma.incs, count.errors = 0
      PROVE  /\ Reached' + dma'.len = file.image + file.bss /\ Reached' >= file.image
             /\ Imaged(file.image)' /\ Cleared(Reached)'
  <2>1. /\ Reached + dma.len = file.image + file.bss /\ Reached >= file.image
        /\ Imaged(file.image) /\ Cleared(Reached)
    BY <1>6 DEF FarOK
  <2>2. ASSUME NEW a \in 0..(file.image - 1) PROVE mem'[a] = Image(file, a)
    BY <1>1, <2>1 DEF Imaged
  <2>3. ASSUME NEW a \in file.image..(Reached' - 1) PROVE mem'[a] = Zero
    <3>1. a \in Memory
      BY <1>1, <2>1
    <3>2. CASE a = Reached /\ d = 1
      BY <1>6, <3>1, <3>2 DEF Val
    <3>3. CASE ~(a = Reached /\ d = 1)
      BY <1>1, <2>1, <3>1, <3>3 DEF Cleared
    <3> QED
      BY <3>2, <3>3
  <2> QED
    BY <2>1, <2>2, <2>3, <1>1 DEF Imaged, Cleared
<1>7. ~dma.incs => Reached' + dma'.len <= file.image + file.bss /\ mem'[StackWord] = Zero
  BY <1>1, <1>4 DEF FarOK
<1> QED
  BY <1>1, <1>2, <1>3, <1>5, <1>6, <1>7 DEF FarOK

(* A clock in which it writes, without an error. *)
LEMMA WriteStep ==
    ASSUME RecordsOK, Moving, WritesBlock, NEW grant, NEW stall, NEW answer, answer # "err",
           Clocked(grant, stall, answer)
    PROVE  /\ \/ Moving'
              \/ dma'.state = "IDLE" /\ out' = 0 /\ dma'.interrupt /\ dma'.len = 0 /\ FarOK' /\ dma'.waddr \in Nat
           /\ dma'.incs = dma.incs /\ BusOK' /\ DOMAIN dma'.dma_mem = Block /\ DOMAIN mem' = Memory
           /\ dma'.raddr \in Int /\ Reached \in Nat /\ Reached < file.image + file.bss
           /\ \A a \in Memory : mem'[a] # mem[a] => a = Reached
<1> DEFINE d == Acked(answer)
           t == Issued(stall)
           start == dma.waddr - dma.nwritten
<1>1. /\ out \in Nat /\ BusOK /\ B \in Nat /\ B >= 2 /\ LATENCY \in Nat /\ LATENCY >= 2
      /\ dma.incs \in BOOLEAN /\ dma.raddr \in Int /\ file \in Files /\ DOMAIN mem = Memory /\ DOMAIN dma.dma_mem = Block
  BY Sizes DEF RecordsOK, BusOK
<1>2. /\ answer \in {"none", "ack"} /\ (answer = "ack" => out > 0 /\ reqs[1].age = LATENCY)
      /\ stall \in BOOLEAN
  BY <1>1, AnswerIs DEF Clocked, Stalls
<1>3. dma.state \in {"WRITE_REQ", "WRITE_ACK"} /\ Cyc(dma) /\ We(dma) /\ (Stb(dma) <=> dma.state = "WRITE_REQ")
  BY DEF WritesBlock, Cyc, We, Stb
<1>d. d \in {0, 1} /\ t \in {0, 1} /\ (d = 1 <=> answer = "ack") /\ (t = 1 <=> dma.state = "WRITE_REQ" /\ ~stall)
  BY <1>2, <1>3 DEF Acked, Issued
<1> HIDE DEF d, t
<1>4. /\ dma.len \in Nat \ {0} /\ dma.waddr \in Nat /\ FarOK
      /\ dma.nwacks \in Nat /\ dma.nwritten = dma.nwacks + out /\ start \in Nat /\ HasBlock(start)
      /\ dma.nread = Smaller(dma.len + dma.nwacks, B)
      /\ \A i \in 1..out : reqs[i].we /\ reqs[i].addr = dma.waddr - out + i - 1 /\ reqs[i].data = Val(reqs[i].addr)
  BY DEF Moving, WritesBlock
<1>5. dma.nread \in 1..B /\ dma.nread <= dma.len + dma.nwacks
  BY <1>1, <1>4 DEF HasBlock, Smaller
<1>6. /\ BusOK' /\ out' = out - d + t /\ bus'.granted = grant
      /\ \A i \in 1..(out - d) :
           /\ reqs'[i].we = reqs[i + d].we /\ reqs'[i].addr = reqs[i + d].addr /\ reqs'[i].data = reqs[i + d].data
           /\ bus.granted => reqs'[i].age <= reqs[i + d].age + 1
           /\ ~bus.granted => reqs'[i].age = reqs[i + d].age
      /\ t = 1 => reqs'[out'] = Request(dma)
  <2>1. bus' = BusAfter(grant, stall, answer)
    BY DEF Clocked, Transfer
  <2> QED
    BY <2>1, <1>1, <1>2, <1>3, BusStep DEF d, t
<1>7. /\ dma'.state = NextState(dma, stall, answer = "ack", FALSE)
      /\ dma'.raddr = dma.raddr + 0 /\ dma'.waddr = dma.waddr + t
      /\ dma'.len = dma.len - d /\ dma'.incs = dma.incs
      /\ dma'.addr = dma.addr + t /\ dma'.nread = dma.nread + 0
      /\ dma'.nwritten = dma.nwritten + t /\ dma'.nwacks = dma.nwacks + d
      /\ dma'.last_write_request = LastWriteRequest(dma, stall)
      /\ dma'.last_write_ack = LastWriteAck(dma, stall, answer = "ack")
      /\ dma'.interrupt <=> dma.state = "WRITE_ACK" /\ answer = "ack" /\ dma.last_write_ack /\ dma.len = 1
      /\ ~dma'.trigger /\ dma'.dma_mem = dma.dma_mem
      /\ t = 1 => dma'.rdaddr = (dma.rdaddr + 1) % B /\ dma'.data = dma.dma_mem[dma.rdaddr]
      /\ t = 0 /\ dma.state = "WRITE_REQ" => dma'.rdaddr = dma.rdaddr /\ dma'.data = dma.data
  <2>1. Transfer(grant, stall, answer)
    BY DEF Clocked
  <2>2. stall \in BOOLEAN /\ answer \in {"none", "ack"} /\ Acked(answer) = d /\ Issued(stall) = t
    BY <1>2 DEF d, t
  <2>3. (t = 1 => dma.state = "WRITE_REQ" /\ ~stall) /\ (t = 0 /\ dma.state = "WRITE_REQ" => stall)
    BY <1>d, <2>2
  <2> QED
    BY <2>1, <2>2, <2>3, <1>3, WriteClock
<1>8. dma'.raddr = dma.raddr /\ dma'.nread = dma.nread /\ file' = file /\ count'.errors = count.errors
  BY <1>1, <1>2, <1>5, <1>7 DEF Clocked
<1>9. Reached = dma.waddr - out
  BY <1>3 DEF Reached
(* Memory. *)
<1>10. /\ DOMAIN mem' = Memory
       /\ \A a \in Memory : mem'[a] = IF d = 1 /\ a = Reached THEN Val(Reached) ELSE mem[a]
  <2>1. mem' \in Written(answer)
    BY DEF Clocked
  <2>2. d = 1 => reqs[1].we /\ reqs[1].addr = Reached /\ reqs[1].data = Val(Reached)
    <3> SUFFICES ASSUME d = 1 PROVE reqs[1].we /\ reqs[1].addr = Reached /\ reqs[1].data = Val(Reached)
      OBVIOUS
    <3>1. 1 \in 1..out /\ dma.waddr - out + 1 - 1 = dma.waddr - out
      BY <1>1, <1>2, <1>4, <1>d
    <3> QED
      BY <3>1, <1>4, <1>9
  <2>3. \A a \in Memory :
           mem'[a] = IF answer = "ack" /\ reqs[1].we /\ reqs[1].addr = a THEN reqs[1].data ELSE mem[a]
    BY <2>1, <1>1, <1>2, <1>3, WrittenIs
  <2>4. DOMAIN mem' = Memory
    BY <2>1, <1>1, <1>2, WrittenIs
  <2> QED
    BY <2>2, <2>3, <2>4, <1>d
<1>11. Reached' = Reached + d => FarOK'
  BY <1>1, <1>4, <1>7, <1>8, <1>10, <1>d, FarStep
<1>12. Reached \in Nat /\ Reached < file.image + file.bss
  <2>1. Reached \in Nat /\ file.image \in Nat /\ file.bss \in Nat
    BY <1>1, <1>4, FileFacts DEF FarOK
  <2> QED
    BY <2>1, <1>1, <1>4 DEF FarOK
<1>13. ASSUME NEW x \in Int PROVE Src(x)' = Src(x) /\ Val(x)' = Val(x)
  BY <1>7, <1>8 DEF Src, Val
<1>n. /\ out \in Nat /\ d \in {0, 1} /\ t \in {0, 1} /\ (d = 1 => out > 0) /\ out' = out - d + t
      /\ dma.waddr \in Nat /\ dma'.waddr = dma.waddr + t /\ start \in Nat
      /\ dma.nwacks \in Nat /\ dma.nwritten = dma.nwacks + out
      /\ dma'.nwritten = dma.nwritten + t /\ dma'.nwacks = dma.nwacks + d
  BY <1>1, <1>2, <1>4, <1>6, <1>7, <1>d
(* What is on its way. *)
<1>14. ASSUME NEW i \in 1..out'
       PROVE  /\ reqs'[i].we /\ reqs'[i].addr = dma'.waddr - out' + i - 1 /\ reqs'[i].data = Val(reqs[i].addr)'
  <2>1. CASE i \in 1..(out - d)
    <3>1. i + d \in 1..out /\ dma.waddr - out + (i + d) - 1 = dma.waddr + t - (out - d + t) + i - 1
      BY <2>1, <1>1, <1>d, <1>4
    <3>2. reqs'[i].we = reqs[i + d].we /\ reqs'[i].addr = reqs[i + d].addr /\ reqs'[i].data = reqs[i + d].data
      BY <2>1, <1>6
    <3>3. reqs[i + d].we /\ reqs[i + d].addr = dma.waddr - out + (i + d) - 1 /\ reqs[i + d].data = Val(reqs[i + d].addr)
      BY <3>1, <1>4
    <3>4. reqs'[i].addr = dma'.waddr - out' + i - 1
      <4>1. reqs'[i].addr = dma.waddr - out + (i + d) - 1
        BY <3>2, <3>3
      <4>2. dma'.waddr - out' + i - 1 = dma.waddr + t - (out - d + t) + i - 1
        BY <1>n
      <4> QED
        BY <3>1, <4>1, <4>2
    <3>5. reqs'[i].data = Val(reqs[i].addr)'
      BY <3>2, <3>3, <1>7, <1>8 DEF Val
    <3> QED
      BY <3>2, <3>3, <3>4, <3>5
  <2>2. CASE i \notin 1..(out - d)
    <3>1. t = 1 /\ i = out' /\ dma.state = "WRITE_REQ"
      BY <2>2, <1>1, <1>6, <1>d, <1>2
    <3>2. reqs'[i].we /\ reqs'[i].addr = dma.waddr /\ reqs'[i].data = Val(dma.waddr)
      BY <3>1, <1>6, <1>3 DEF Request, WritesBlock
    <3>3. dma'.waddr - out' + i - 1 = dma.waddr
      BY <3>1, <1>n
    <3>4. reqs'[i].data = Val(reqs[i].addr)'
      BY <3>2, <1>7, <1>8 DEF Val
    <3> QED
      BY <3>2, <3>3, <3>4
  <2> QED
    BY <2>1, <2>2
<1>15. /\ dma'.waddr \in Nat /\ dma'.nwacks \in Nat /\ dma'.nwritten = dma'.nwacks + out'
       /\ dma'.waddr - dma'.nwritten = start /\ out' \in Nat
  BY <1>n
<1>16. HasBlock(dma.waddr - dma.nwritten)'
  <2>1. HasBlock(start)
    BY <1>4
  <2>2. dma'.raddr = Src(start + dma.nread)'
    <3>1. start + dma'.nread \in Int
      BY <1>4, <1>5, <1>8
    <3> QED
      BY <2>1, <3>1, <1>8, <1>13, <1>15 DEF HasBlock, Src
  <2>3. ASSUME NEW j \in 0..(dma'.nread - 1) PROVE dma'.dma_mem[j] = Val((dma.waddr - dma.nwritten) + j)'
    <3>1. start + j \in Int /\ j \in 0..(dma.nread - 1)
      BY <1>4, <1>5, <1>8
    <3>2. dma'.dma_mem[j] = Val(start + j)
      BY <2>1, <3>1, <1>7 DEF HasBlock
    <3> QED
      BY <3>1, <3>2, <1>15, <1>7, <1>8 DEF Val
  <2>4. dma'.raddr = Src((dma.waddr - dma.nwritten) + dma.nread)'
    BY <2>2, <1>15, <1>8, <1>7 DEF Src
  <2> QED
    BY <2>3, <2>4, <1>5, <1>8 DEF HasBlock, B
<1>17. dma'.nread = Smaller(dma.len + dma.nwacks, B)'
  <2>1. dma'.len + dma'.nwacks = dma.len + dma.nwacks
    BY <1>4, <1>7, <1>d
  <2> QED
    BY <2>1, <1>4, <1>8 DEF Smaller, B
<1> DEFINE InReq == /\ dma'.nwritten < dma'.nread
                    /\ dma'.addr = dma'.waddr /\ dma'.data = Val(dma.waddr)' /\ dma'.rdaddr = (dma'.nwritten + 1) % B
                    /\ dma'.last_write_request <=> dma'.nwritten = dma'.nread - 1
                    /\ dma'.last_write_ack => out' <= 2
                    /\ \A i \in 1..out' : reqs'[i].age <= out' - i
                    /\ ~bus'.granted => out' <= 1
           InAck == /\ dma'.nwritten = dma'.nread /\ out' > 0
                    /\ (dma'.last_write_ack <=> out' = 1) \/ reqs'[1].age < LATENCY
<1> HIDE DEF InReq, InAck
<1>18. (dma'.state = "WRITE_REQ" /\ InReq) \/ (dma'.state = "WRITE_ACK" /\ InAck) => WritesBlock'
  BY <1>14, <1>15, <1>16, <1>17, <1>4 DEF WritesBlock, InReq, InAck, B
<1>19. dma'.state \in {"WRITE_REQ", "WRITE_ACK"} => Reached' = Reached + d
  <2> SUFFICES ASSUME dma'.state \in {"WRITE_REQ", "WRITE_ACK"} PROVE Reached' = Reached + d
    OBVIOUS
  <2>1. Reached' = dma'.waddr - out'
    BY DEF Reached, We
  <2> QED
    BY <2>1, <1>n, <1>9
<1>20. WritesBlock' /\ dma'.state \in {"WRITE_REQ", "WRITE_ACK"} /\ dma'.len > 0 /\ ~dma'.interrupt => Moving'
  <2> SUFFICES ASSUME WritesBlock', dma'.state \in {"WRITE_REQ", "WRITE_ACK"}, dma'.len > 0, ~dma'.interrupt
               PROVE  Moving'
    OBVIOUS
  <2>1. FarOK'
    BY <1>11, <1>19
  <2>2. dma'.len \in Nat \ {0} /\ dma'.waddr \in Nat
    BY <1>4, <1>7, <1>15, <1>d
  <2> QED
    BY <2>1, <2>2 DEF Moving
<1>21. CASE dma.state = "WRITE_REQ"
  <2>1. /\ dma.nwritten < dma.nread /\ dma.addr = dma.waddr /\ dma.data = Val(dma.waddr)
        /\ dma.rdaddr = (dma.nwritten + 1) % B
        /\ dma.last_write_request <=> dma.nwritten = dma.nread - 1
        /\ dma.last_write_ack => out <= 2
        /\ \A i \in 1..out : reqs[i].age <= out - i
        /\ ~bus.granted => out <= 1
    BY <1>21 DEF WritesBlock
  <2>2. d = 1 => out >= 3 /\ ~dma.last_write_ack /\ bus.granted
    <3> SUFFICES ASSUME d = 1 PROVE out >= 3
      BY <2>1, <1>1
    <3>1. 1 \in 1..out /\ reqs[1].age = LATENCY
      BY <1>1, <1>2, <1>d
    <3> QED
      BY <2>1, <3>1, <1>1
  <2>3. (bus.granted => t = 1) /\ (~bus.granted => (t = 1 <=> out = 0))
    <3>1. stall \in Stalls /\ (reqs # <<>> <=> out # 0)
      BY <1>1, IsSeq DEF Clocked, BusOK, out, reqs
    <3> QED
      BY <3>1, <1>21, <1>3, <1>d DEF Stalls, reqs
  <2>4. dma'.state = IF t = 1 /\ dma.last_write_request THEN "WRITE_ACK" ELSE "WRITE_REQ"
    BY <2>2, <1>21, <1>4, <1>7, <1>d DEF NextState
  <2>5. dma'.len > 0 /\ ~dma'.interrupt
    BY <2>1, <2>2, <1>1, <1>4, <1>5, <1>7, <1>21, <1>d
  <2>6. dma'.last_write_ack <=> out = (IF d = 1 /\ t = 0 THEN 2 ELSE 1)
    <3>1. LastWriteAck(dma, stall, answer = "ack") <=>
             dma.nwritten = dma.nwacks + (IF d = 1 /\ t = 0 THEN 2 ELSE 1)
      BY <1>21, <1>3, <1>d DEF LastWriteAck
    <3> QED
      BY <3>1, <1>1, <1>4, <1>7, <1>d
  <2>7. ASSUME dma'.state = "WRITE_REQ" PROVE Moving'
    <3>1. dma.nwritten + t < dma.nread
      BY <2>1, <2>4, <2>7, <1>1, <1>4, <1>5, <1>d, SMTT(60)
    <3>2. dma'.addr = dma'.waddr
      BY <2>1, <1>7
    <3>3. dma'.data = Val(dma.waddr)' /\ dma'.rdaddr = (dma'.nwritten + 1) % B
      <4>1. CASE t = 0
        <5>1. dma'.waddr = dma.waddr /\ dma'.nwritten = dma.nwritten /\ dma.waddr \in Int
          BY <4>1, <1>1, <1>4, <1>7
        <5>2. Val(dma.waddr)' = Val(dma.waddr)
          BY <5>1, <1>7, <1>8 DEF Val
        <5> QED
          BY <5>1, <5>2, <4>1, <2>1, <1>7, <1>21
      <4>2. CASE t = 1
        <5>1. dma.nwritten + 1 < dma.nread /\ dma.nwritten + 1 \in Nat /\ dma.nwritten + 1 < B
          BY <4>2, <3>1, <1>1, <1>4, <1>5
        <5>2. dma.rdaddr = dma.nwritten + 1
          <6>1. \A n \in Nat : n < B => n % B = n
            <7>1. B \in Nat /\ B >= 2
              BY <1>1
            <7> HIDE DEF B
            <7> QED
              BY <7>1
          <6> QED
            BY <5>1, <6>1, <2>1
        <5>3. dma'.data = Val(start + (dma.nwritten + 1))
          <6>1. dma.nwritten + 1 \in 0..(dma.nread - 1)
            BY <5>1, <1>5
          <6> QED
            BY <6>1, <5>2, <4>2, <1>7, <1>4 DEF HasBlock
        <5>4. start + (dma.nwritten + 1) = dma.waddr + 1 /\ dma'.waddr = dma.waddr + 1 /\ dma'.nwritten = dma.nwritten + 1
          BY <4>2, <1>1, <1>4, <1>7
        <5>5. Val(dma.waddr)' = Val(dma.waddr + 1)
          BY <5>4, <1>7, <1>8 DEF Val
        <5> QED
          BY <5>2, <5>3, <5>4, <5>5, <4>2, <1>7
      <4> QED
        BY <4>1, <4>2, <1>d
    <3>4. dma'.last_write_request <=> dma'.nwritten = dma'.nread - 1
      <4>1. LastWriteRequest(dma, stall) <=>
               dma.nread >= (IF t = 0 THEN 1 ELSE 2) /\ dma.nwritten >= dma.nread - (IF t = 0 THEN 1 ELSE 2)
        BY <1>21, <1>d, <1>2 DEF LastWriteRequest
      <4> QED
        BY <4>1, <3>1, <1>1, <1>4, <1>5, <1>7, <1>8, <1>d
    <3>5. dma'.last_write_ack => out' <= 2
      BY <2>2, <2>6, <1>1, <1>6, <1>d
    <3>6. ASSUME NEW i \in 1..out' PROVE reqs'[i].age <= out' - i
      <4>1. CASE i \in 1..(out - d)
        <5>1. i + d \in 1..out
          BY <4>1, <1>1, <1>d
        <5>2. reqs[i + d].age <= out - (i + d) /\ reqs[i + d].age \in Nat
          BY <5>1, <2>1, <1>1 DEF BusOK, IsRequest
        <5>3. reqs'[i].age \in Nat
          BY <1>6 DEF BusOK, IsRequest
        <5>4. CASE bus.granted
          <6>1. reqs'[i].age <= reqs[i + d].age + 1 /\ t = 1
            BY <5>4, <4>1, <1>6, <2>3
          <6> QED
            BY <6>1, <5>2, <5>3, <4>1, <1>1, <1>6, <1>d
        <5>5. CASE ~bus.granted
          <6>1. reqs'[i].age = reqs[i + d].age /\ d = 0
            BY <5>5, <4>1, <1>6, <2>2, <1>d
          <6> QED
            BY <6>1, <5>2, <4>1, <1>1, <1>6, <1>d
        <5> QED
          BY <5>4, <5>5
      <4>2. CASE i \notin 1..(out - d)
        <5>1. t = 1 /\ i = out'
          BY <4>2, <1>1, <1>6, <1>d, <1>2
        <5>2. reqs'[i].age = 0
          BY <5>1, <1>6 DEF Request
        <5> QED
          BY <5>1, <5>2, <1>n
      <4> QED
        BY <4>1, <4>2
    <3>7. ~bus'.granted => out' <= 1
      <4>1. ~bus'.granted => ~bus.granted
        BY <1>6 DEF Clocked
      <4> QED
        BY <4>1, <2>1, <2>2, <2>3, <1>1, <1>6, <1>d
    <3>8. dma'.nwritten < dma'.nread
      BY <3>1, <1>7, <1>8
    <3>9. InReq
      BY <3>2, <3>3, <3>4, <3>5, <3>6, <3>7, <3>8 DEF InReq
    <3> QED
      BY <3>9, <2>7, <1>18, <1>20, <2>5
  <2>8. ASSUME dma'.state = "WRITE_ACK" PROVE Moving'
    <3>1. t = 1 /\ dma.nwritten = dma.nread - 1
      BY <2>8, <2>4, <2>1
    <3>2. dma'.nwritten = dma'.nread /\ out' > 0
      BY <3>1, <1>1, <1>2, <1>4, <1>5, <1>6, <1>7, <1>8, <1>d
    <3>3. (dma'.last_write_ack <=> out' = 1) \/ reqs'[1].age < LATENCY
      <4>1. CASE out - d = 0
        <5>1. reqs'[1].age = 0
          BY <4>1, <3>1, <1>1, <1>6 DEF Request
        <5> QED
          BY <5>1, <1>1
      <4>2. CASE out - d = 1
        <5>1. d = 0 /\ out = 1
          BY <4>2, <2>2, <1>1, <1>d
        <5>2. reqs[1].age <= 0 /\ reqs[1].age \in Nat
          BY <5>1, <2>1, <1>1 DEF BusOK, IsRequest
        <5>3. 1 \in 1..out' /\ 1 \in 1..(out - d) /\ 1 + d = 1
          BY <5>1, <3>1, <1>6
        <5>4. reqs'[1].age \in Nat
          BY <5>3, <1>6 DEF BusOK, IsRequest
        <5>5. reqs'[1].age <= reqs[1].age + 1
          BY <5>3, <1>6, <5>2
        <5> QED
          BY <5>2, <5>4, <5>5, <1>1
      <4>3. CASE out - d > 1
        BY <4>3, <2>6, <3>1, <1>1, <1>6, <1>d
      <4> QED
        BY <4>1, <4>2, <4>3, <1>1, <1>2, <1>d
    <3>4. InAck
      BY <3>2, <3>3 DEF InAck
    <3> QED
      BY <3>4, <2>8, <1>18, <1>20, <2>5
  <2>9. Moving'
    BY <2>4, <2>7, <2>8
  <2> QED
    BY <2>9, <1>1, <1>6, <1>7, <1>8, <1>10, <1>12
<1>22. CASE dma.state = "WRITE_ACK"
  <2>1. /\ dma.nwritten = dma.nread /\ out > 0 /\ t = 0
        /\ (dma.last_write_ack <=> out = 1) \/ reqs[1].age < LATENCY
    BY <1>22, <1>d DEF WritesBlock
  <2>2. d = 1 => (dma.last_write_ack <=> out = 1)
    BY <2>1, <1>1, <1>2, <1>d
  <2>3. dma'.state = IF d = 1 /\ dma.last_write_ack THEN AfterWrite(dma) ELSE "WRITE_ACK"
    BY <1>22, <1>4, <1>7, <1>d DEF NextState
  <2>4. dma'.last_write_ack <=> out = (IF d = 1 THEN 2 ELSE 1)
    <3>1. LastWriteAck(dma, stall, answer = "ack") <=> dma.nwritten = dma.nwacks + (IF d = 1 THEN 2 ELSE 1)
      BY <1>22, <1>3, <1>d DEF LastWriteAck
    <3> QED
      BY <3>1, <1>1, <1>4, <1>7, <1>d
  <2>5. dma'.waddr = dma.waddr /\ dma'.nwritten = dma.nwritten /\ out' = out - d
    BY <2>1, <1>1, <1>4, <1>6, <1>7, <1>d
  <2>6. CASE d = 1 /\ out = 1
    <3>1. dma'.state = AfterWrite(dma) /\ out' = 0 /\ dma.last_write_ack
      BY <2>2, <2>3, <2>5, <2>6
    <3>2. Reached' = Reached + d
      BY <3>1, <2>5, <2>6, <1>4, <1>9 DEF Reached, We, AfterWrite
    <3>3. FarOK'
      BY <3>2, <1>11
    <3>4. CASE dma.len = 1
      <4>1. dma'.state = "IDLE" /\ dma'.interrupt /\ dma'.len = 0 /\ dma'.waddr \in Nat
        BY <3>1, <3>4, <2>6, <1>22, <1>7, <1>15, <1>d DEF AfterWrite
      <4> QED
        BY <4>1, <3>1, <3>3, <1>1, <1>6, <1>7, <1>8, <1>10, <1>12
    <3>5. CASE dma.len > 1
      <4>1. dma'.state = "WAIT" /\ ~dma'.interrupt /\ dma'.len \in Nat \ {0} /\ dma'.waddr \in Nat /\ ~dma'.trigger
        BY <3>1, <3>5, <2>6, <1>4, <1>7, <1>15, <1>d DEF AfterWrite
      <4>2. dma'.raddr = Src(dma.waddr)'
        <5>1. start + dma.nread = dma.waddr
          BY <2>1, <1>1, <1>4, <1>5
        <5>2. dma.raddr = Src(dma.waddr)
          BY <5>1, <1>4 DEF HasBlock
        <5> QED
          BY <5>2, <2>5, <1>7, <1>8 DEF Src
      <4>3. Moving'
        BY <4>1, <4>2, <3>1, <3>3 DEF Moving
      <4> QED
        BY <4>3, <1>1, <1>6, <1>7, <1>8, <1>10, <1>12
    <3> QED
      BY <3>4, <3>5, <1>4
  <2>7. CASE ~(d = 1 /\ out = 1)
    <3>1. dma'.state = "WRITE_ACK" /\ ~dma'.interrupt
      BY <2>2, <2>3, <2>7, <1>7, <1>d
    <3>2. out' > 0 /\ (dma'.last_write_ack <=> out' = 1)
      BY <2>1, <2>4, <2>5, <2>7, <1>1, <1>d
    <3>3. dma'.nwritten = dma'.nread
      BY <2>1, <2>5, <1>8
    <3>4. dma'.len > 0
      BY <2>1, <2>7, <1>1, <1>4, <1>5, <1>7, <1>d
    <3>5. InAck
      BY <3>2, <3>3 DEF InAck
    <3>6. Moving'
      BY <3>1, <3>4, <3>5, <1>18, <1>20
    <3> QED
      BY <3>6, <1>1, <1>6, <1>7, <1>8, <1>10, <1>12
  <2> QED
    BY <2>6, <2>7
<1> QED
  BY <1>3, <1>21, <1>22

(* Where the engine is when its transfer is over. *)
Ended ==
    /\ dma.state = "IDLE" /\ out = 0 /\ dma.interrupt
    /\ count.errors = 0 => dma.len = 0 /\ FarOK
    /\ dma.incs => file.rom /\ dma.waddr \in Nat /\ dma.waddr <= file.image /\ (count.errors = 0 => dma.waddr = file.image)

(* A bus error ends the transfer. *)
LEMMA ErrorStep ==
    ASSUME RecordsOK, Moving, NEW grant, NEW stall, Clocked(grant, stall, "err")
    PROVE  /\ Ended' /\ BusOK' /\ DOMAIN dma'.dma_mem = Block /\ DOMAIN mem' = Memory
           /\ dma'.incs = dma.incs /\ dma'.raddr \in Int /\ dma'.waddr \in Int /\ dma'.len \in Int
           /\ \A a \in Memory : mem'[a] # mem[a] => a < file.image + file.bss
<1>1. /\ BusOK /\ out \in Nat /\ file \in Files /\ DOMAIN mem = Memory /\ DOMAIN dma.dma_mem = Block
      /\ dma.incs \in BOOLEAN /\ dma.raddr \in Int /\ count.errors \in Nat /\ B \in Nat
  BY Sizes DEF RecordsOK, BusOK
<1>2. out > 0
  BY <1>1, AnswerIs DEF Clocked
<1>3. (Reads \/ WritesBlock) /\ dma.state \in {"READ_REQ", "READ_ACK", "WRITE_REQ", "WRITE_ACK"}
  BY <1>1, <1>2 DEF Moving, Reads, WritesBlock
<1>4. Cyc(dma) /\ stall \in BOOLEAN
  BY <1>3 DEF Cyc, Clocked, Stalls
<1>5. dma.len \in Nat \ {0} /\ dma.waddr \in Nat /\ FarOK
  BY DEF Moving
<1>6. PICK w : dma' = DmaClock(dma, stall, FALSE, TRUE, w)
  BY DEF Clocked, Transfer
<1>7. /\ dma'.state = "IDLE" /\ dma'.interrupt /\ dma'.incs = dma.incs
  BY <1>3, <1>6 DEF DmaClock, NextState
<1>8. /\ dma'.raddr = dma.raddr + 0 /\ dma'.len = dma.len - 0
      /\ dma'.waddr = dma.waddr + (IF dma.state = "WRITE_REQ" /\ ~stall THEN 1 ELSE 0)
  BY <1>3, <1>6 DEF DmaClock, One, Step, Stb
<1>9. DOMAIN dma'.dma_mem = Block
  <2>1. dma'.dma_mem = [dma.dma_mem EXCEPT ![dma.nread % (2^LGMEMLEN)] = w] \/ dma'.dma_mem = dma.dma_mem
    BY <1>6 DEF DmaClock
  <2> QED
    BY <2>1, <1>1
<1>10. bus' = NoCycle
  BY DEF Clocked, Transfer, BusAfter
<1>11. out' = 0 /\ BusOK'
  BY <1>10 DEF NoCycle, BusOK, out, reqs
<1>12. file' = file /\ count'.errors = count.errors + 1
  BY DEF Clocked
<1>13. file.image \in Nat /\ file.bss \in Nat /\ Reached \in Nat /\ Reached + dma.len <= file.image + file.bss
  BY <1>1, <1>5, FileFacts DEF FarOK
<1>14. CASE Reads
  <2>1. Reached = dma.waddr /\ dma.state \notin {"WRITE_REQ", "WRITE_ACK"}
    BY <1>14 DEF Reads, Reached, We
  <2>2. dma.incs => file.rom /\ dma.waddr <= file.image
    BY <2>1, <1>5, <1>13 DEF FarOK
  <2>3. dma'.waddr = dma.waddr
    BY <2>1, <1>5, <1>8
  <2>4. \A i \in 1..out : ~reqs[i].we
    BY <1>14 DEF Reads
  <2>5. DOMAIN mem' = Memory /\ \A a \in Memory : mem'[a] = mem[a]
    BY <2>4, <1>1, <1>2, WrittenIs DEF Clocked
  <2> QED
    BY <2>2, <2>3, <2>5, <1>1, <1>5, <1>7, <1>8, <1>9, <1>11, <1>12 DEF Ended
<1>15. CASE WritesBlock
  <2>1. Reached = dma.waddr - out
    BY <1>15 DEF WritesBlock, Reached, We
  <2>2. /\ dma.nwacks \in Nat /\ dma.nwritten = dma.nwacks + out
        /\ dma.nread = Smaller(dma.len + dma.nwacks, B)
        /\ \/ dma.state = "WRITE_REQ" /\ dma.nwritten < dma.nread
           \/ dma.state = "WRITE_ACK" /\ dma.nwritten = dma.nread
        /\ \A i \in 1..out : reqs[i].addr = dma.waddr - out + i - 1
    BY <1>15 DEF WritesBlock
  <2>3. dma.nread <= dma.len + dma.nwacks /\ dma.nread \in Nat
    BY <2>2, <1>1, <1>5 DEF Smaller
  <2>4. dma'.waddr \in Nat /\ dma'.waddr <= Reached + dma.len
    BY <2>1, <2>2, <2>3, <1>1, <1>5, <1>8
  <2>5. dma.incs => file.rom /\ dma'.waddr <= file.image
    BY <2>4, <1>5, <1>13 DEF FarOK
  <2>6. out <= dma.len
    BY <2>2, <2>3, <1>1, <1>5
  <2>7. \A i \in 1..out : reqs[i].addr < file.image + file.bss
    BY <2>1, <2>2, <2>6, <1>1, <1>5, <1>13
  <2>8. DOMAIN mem' = Memory /\ \A a \in Memory : mem'[a] = mem[a] \/ \E i \in 1..out : reqs[i].addr = a
    BY <1>1, <1>2, WrittenIs DEF Clocked
  <2>9. \A a \in Memory : mem'[a] # mem[a] => a < file.image + file.bss
    BY <2>7, <2>8
  <2> QED
    BY <2>4, <2>5, <2>8, <2>9, <1>1, <1>5, <1>7, <1>8, <1>9, <1>11, <1>12 DEF Ended
<1> QED
  BY <1>3, <1>14, <1>15

(* What is not written to stays as it is. *)
LEMMA RomSame ==
    ASSUME RomOK, file \in Files, DOMAIN mem = Memory, file' = file,
           count.errors \in Nat, count'.errors \in Nat, count'.errors >= count.errors,
           \A a \in Memory : mem'[a] # mem[a] => a < file.image + file.bss,
           ~file.rom /\ count'.errors = 0 => Imaged(file.image)'
    PROVE  RomOK'
<1>1. file.rom => \A a \in 0..(file.image - 1) : mem'[RomImage + a] = Image(file, a)
  <2> SUFFICES ASSUME file.rom, NEW a \in 0..(file.image - 1) PROVE mem'[RomImage + a] = Image(file, a)
    OBVIOUS
  <2>1. /\ file.image \in Nat /\ file.bss \in Nat /\ RomImage \in Nat
        /\ RomImage + a \in Memory /\ RomImage + a >= file.image + file.bss
    BY FileFacts
  <2>2. mem'[RomImage + a] = mem[RomImage + a]
    BY <2>1
  <2> QED
    BY <2>2 DEF RomOK
<1> QED
  BY <1>1 DEF RomOK

(* A clock in the middle of a transfer. *)
LEMMA EngineStep ==
    ASSUME RecordsOK, RomOK, Moving, NEW grant, NEW stall, NEW answer, Clocked(grant, stall, answer)
    PROVE  /\ Moving' \/ Ended'
           /\ BusOK' /\ DOMAIN dma'.dma_mem = Block /\ DOMAIN mem' = Memory
           /\ dma'.incs = dma.incs /\ dma'.raddr \in Int /\ dma'.waddr \in Int /\ dma'.len \in Int
           /\ \A a \in Memory : mem'[a] # mem[a] => a < file.image + file.bss
           /\ RomOK'
<1>1. /\ file \in Files /\ DOMAIN mem = Memory /\ dma.incs \in BOOLEAN /\ dma.raddr \in Int /\ count.errors \in Nat
      /\ B \in Nat /\ RomImage \in Nat /\ StackWord \in Nat
  BY FileFacts, Sizes DEF RecordsOK
<1>2. file' = file /\ count'.errors \in Nat /\ count'.errors >= count.errors
      /\ (count'.errors = 0 => answer # "err") /\ (answer # "err" => count'.errors = count.errors)
  BY <1>1 DEF Clocked
<1>3. Moving' => dma'.len \in Int /\ dma'.waddr \in Int /\ FarOK'
  BY DEF Moving
<1>4. /\ Moving' \/ Ended'
      /\ BusOK' /\ DOMAIN dma'.dma_mem = Block /\ DOMAIN mem' = Memory
      /\ dma'.incs = dma.incs /\ dma'.raddr \in Int /\ dma'.waddr \in Int /\ dma'.len \in Int
      /\ \A a \in Memory : mem'[a] # mem[a] => a < file.image + file.bss
  <2>1. CASE answer = "err"
    BY <2>1, ErrorStep
  <2>2. CASE answer # "err" /\ WritesBlock
    <3>1. /\ \/ Moving'
             \/ dma'.state = "IDLE" /\ out' = 0 /\ dma'.interrupt /\ dma'.len = 0 /\ FarOK' /\ dma'.waddr \in Nat
          /\ dma'.incs = dma.incs /\ BusOK' /\ DOMAIN dma'.dma_mem = Block /\ DOMAIN mem' = Memory
          /\ dma'.raddr \in Int /\ Reached \in Nat /\ Reached < file.image + file.bss
          /\ \A a \in Memory : mem'[a] # mem[a] => a = Reached
      BY <2>2, WriteStep
    <3>2. ASSUME dma'.state = "IDLE", out' = 0, dma'.interrupt, dma'.len = 0, FarOK', dma'.waddr \in Nat
          PROVE  Ended'
      <4>1. Reached' = dma'.waddr
        BY <3>2 DEF Reached, We
      <4>2. file'.image \in Nat
        BY <1>1, <1>2, FileFacts
      <4>3. dma'.incs => file'.rom /\ dma'.waddr = file'.image
        BY <4>1, <4>2, <3>2 DEF FarOK
      <4> QED
        BY <4>2, <4>3, <3>2 DEF Ended
    <3> QED
      BY <3>1, <3>2, <1>3
  <2>3. ASSUME answer # "err", ~WritesBlock
        PROVE  /\ Moving' /\ dma'.incs = dma.incs /\ BusOK' /\ DOMAIN dma'.dma_mem = Block /\ DOMAIN mem' = Memory
               /\ \A a \in Memory : mem'[a] = mem[a]
    <3>1. CASE Reads
      BY <3>1, <2>3, ReadStep
    <3>2. CASE dma.state = "WAIT" /\ out = 0 /\ dma.raddr = Src(dma.waddr) /\ (dma.trigger => dma.nracks = 0)
      BY <3>2, WaitStep
    <3>3. CASE dma.state = "PRE_WRITE" /\ out = 0 /\ dma.rdaddr = 0 /\ HasBlock(dma.waddr) /\ dma.nread = Smaller(dma.len, B)
      BY <3>3, <1>1, PreWriteStep
    <3> QED
      BY <2>3, <3>1, <3>2, <3>3 DEF Moving
  <2>4. ASSUME answer # "err", ~WritesBlock PROVE dma'.raddr \in Int
    <3>1. dma.state \in {"READ_REQ", "READ_ACK", "WAIT", "PRE_WRITE"}
      BY <2>4 DEF Moving, Reads
    <3>2. PICK ack, err, w : dma' = DmaClock(dma, stall, ack, err, w)
      BY DEF Clocked, Transfer
    <3>3. \E b : dma'.raddr = dma.raddr + Step(dma, b)
      BY <3>1, <3>2 DEF DmaClock
    <3> QED
      BY <3>3, <1>1 DEF Step, One
  <2> QED
    BY <2>1, <2>2, <2>3, <2>4, <1>3
<1>5. ~file.rom /\ count'.errors = 0 => Imaged(file.image)'
  <2> SUFFICES ASSUME ~file.rom, count'.errors = 0 PROVE Imaged(file.image)'
    OBVIOUS
  <2>1. FarOK'
    BY <1>3, <1>4 DEF Ended
  <2>2. ~dma.incs
    BY DEF Moving, FarOK
  <2> QED
    BY <2>1, <2>2, <1>4 DEF FarOK
<1>6. RomOK'
  BY <1>1, <1>2, <1>4, <1>5, RomSame
<1> QED
  BY <1>4, <1>6

(* The instruction of each label, and the labels after it. *)
Follows(f, l, i, m) ==
    LET copied == IF f.bss = 0 THEN "ready" ELSE "zero" IN
    \/ l = "boot" /\ f.rom /\ i = I("pic") /\ m = "boot"
    \/ l = "boot" /\ f.rom /\ i = DMACLEAR /\ m = "len"
    \/ l = "boot" /\ ~f.rom /\ i = DMACLEAR /\ m = copied
    \/ l = "len" /\ f.rom /\ i = Set("len", f.image) /\ m = "rd"
    \/ l = "rd" /\ f.rom /\ i = Set("rd", RomImage) /\ m = "wr"
    \/ l = "wr" /\ f.rom /\ i = Set("wr", 0) /\ m = "if"
    \/ l = "if" /\ f.rom /\ i = I("iflen") /\ m = "arm"
    \/ l = "arm" /\ f.rom /\ i = I("pic") /\ m = "copy"
    \/ l = "copy" /\ f.rom /\ i = DMACCOPY /\ m = "copying"
    \/ l = "copying" /\ f.rom /\ i = I("wait") /\ m = copied
    \/ l = "zero" /\ f.bss > 0 /\ i = I("zero") /\ m = "arm2"
    \/ l = "arm2" /\ f.bss > 0 /\ i = I("pic") /\ m = "len2"
    \/ l = "len2" /\ f.bss > 0 /\ i = Set("len", f.bss) /\ m = "rd2"
    \/ l = "rd2" /\ f.bss > 0 /\ i = Set("rd", StackWord) /\ m = IF f.rom THEN "clear" ELSE "wr2"
    \/ l = "wr2" /\ f.bss > 0 /\ ~f.rom /\ i = Set("wr", f.image) /\ m = "clear"
    \/ l = "clear" /\ f.bss > 0 /\ i = CONSTSRC /\ m = "clearing"
    \/ l = "clearing" /\ f.bss > 0 /\ i = I("wait") /\ m = "ready"
    \/ l = "ready" /\ i = I("pic") /\ m = "ready"
    \/ l = "ready" /\ i = I("main") /\ m = "end"
Beyond(f, p, n) == IF p + n \in 1..Len(Labels(f)) THEN Labels(f)[p + n] ELSE "end"

(* Two pieces of program, one after the other. *)
IsJoin(p, q, c) ==
    /\ Len(p) \in Nat /\ Len(q) \in Nat /\ Len(c) = Len(p) + Len(q)
    /\ \A i \in 1..Len(p) : c[i] = p[i]
    /\ \A i \in 1..Len(q) : c[Len(p) + i] = q[i]

(* Joined so are two sequences. *)
LEMMA Joined ==
    ASSUME NEW S, NEW p \in Seq(S), NEW q \in Seq(S)
    PROVE  p \o q \in Seq(S) /\ IsJoin(p, q, p \o q)
<1>1. /\ p \o q \in Seq(S) /\ Len(p \o q) = Len(p) + Len(q) /\ Len(p) \in Nat /\ Len(q) \in Nat
      /\ \A i \in 1..(Len(p) + Len(q)) : (p \o q)[i] = IF i <= Len(p) THEN p[i] ELSE q[i - Len(p)]
  BY ConcatProperties
<1> DEFINE c == p \o q
<1>2. /\ c \in Seq(S) /\ Len(c) = Len(p) + Len(q) /\ Len(p) \in Nat /\ Len(q) \in Nat
      /\ \A i \in 1..(Len(p) + Len(q)) : c[i] = IF i <= Len(p) THEN p[i] ELSE q[i - Len(p)]
  BY <1>1
<1> HIDE DEF c
<1>3. ASSUME NEW i \in 1..Len(p) PROVE c[i] = p[i]
  BY <1>2
<1>4. ASSUME NEW i \in 1..Len(q) PROVE c[Len(p) + i] = q[i]
  <2>1. Len(p) + i \in 1..(Len(p) + Len(q)) /\ ~(Len(p) + i <= Len(p)) /\ Len(p) + i - Len(p) = i
    BY <1>2
  <2> QED
    BY <2>1, <1>2
<1>5. IsJoin(p, q, c)
  BY <1>2, <1>3, <1>4 DEF IsJoin
<1> QED
  BY <1>2, <1>5 DEF c

(* The program, instruction by instruction. *)
Code(f, c) ==
    IF f.rom
    THEN /\ Len(c) = IF f.bss = 0 THEN 11 ELSE 17
         /\ c[1] = I("pic") /\ c[2] = DMACLEAR /\ c[3] = Set("len", f.image) /\ c[4] = Set("rd", RomImage)
         /\ c[5] = Set("wr", 0) /\ c[6] = I("iflen") /\ c[7] = I("pic") /\ c[8] = DMACCOPY /\ c[9] = I("wait")
         /\ f.bss = 0 => c[10] = I("pic") /\ c[11] = I("main")
         /\ f.bss # 0 => /\ c[10] = I("zero") /\ c[11] = I("pic") /\ c[12] = Set("len", f.bss) /\ c[13] = Set("rd", StackWord)
                         /\ c[14] = CONSTSRC /\ c[15] = I("wait") /\ c[16] = I("pic") /\ c[17] = I("main")
    ELSE /\ Len(c) = IF f.bss = 0 THEN 2 ELSE 9
         /\ c[1] = DMACLEAR
         /\ f.bss = 0 => c[2] = I("main")
         /\ f.bss # 0 => /\ c[2] = I("zero") /\ c[3] = I("pic") /\ c[4] = Set("len", f.bss) /\ c[5] = Set("rd", StackWord)
                         /\ c[6] = Set("wr", f.image) /\ c[7] = CONSTSRC /\ c[8] = I("wait") /\ c[9] = I("main")

(* What is done about the BSS. *)
Clears(f, wr, c) ==
    /\ f.bss = 0 => Len(c) = 0
    /\ f.bss # 0 =>
         /\ Len(c) = 6 + Len(wr)
         /\ c[1] = I("zero") /\ c[2] = I("pic") /\ c[3] = Set("len", f.bss) /\ c[4] = Set("rd", StackWord)
         /\ Len(wr) = 1 => c[5] = wr[1]
         /\ c[5 + Len(wr)] = CONSTSRC /\ c[6 + Len(wr)] = I("wait")

(* The bootloader's code for a BSS, if the program has one (crt0.c, _bootloader). *)
LEMMA ClearCode ==
    ASSUME NEW S, NEW f \in Files, NEW wr \in Seq(S), Len(wr) \in {0, 1},
           {I("zero"), I("pic"), Set("len", f.bss), Set("rd", StackWord), CONSTSRC, I("wait")} \subseteq S
    PROVE  ClearBss(f, wr) \in Seq(S) /\ Clears(f, wr, ClearBss(f, wr))
<1> DEFINE a == I("zero")
           b == I("pic")
           l == Set("len", f.bss)
           r == Set("rd", StackWord)
           x == CONSTSRC
           w == I("wait")
           p == <<a, b, l, r>>
           q == <<x, w>>
<1> HIDE DEF a, b, l, r, x, w
<1>1. a \in S /\ b \in S /\ l \in S /\ r \in S /\ x \in S /\ w \in S
  BY DEF a, b, l, r, x, w
<1>2. /\ p \in Seq(S) /\ Len(p) = 4 /\ p[1] = a /\ p[2] = b /\ p[3] = l /\ p[4] = r
      /\ q \in Seq(S) /\ Len(q) = 2 /\ q[1] = x /\ q[2] = w
  BY <1>1
<1>3. ClearBss(f, wr) = IF f.bss = 0 THEN <<>> ELSE (p \o wr) \o q
  BY DEF ClearBss, a, b, l, r, x, w
<1> HIDE DEF p, q
<1> DEFINE u == p \o wr
           c == u \o q
<1>4. u \in Seq(S) /\ IsJoin(p, wr, u)
  BY <1>2, Joined
<1> HIDE DEF u
<1>5. /\ Len(u) = 4 + Len(wr) /\ u[1] = a /\ u[2] = b /\ u[3] = l /\ u[4] = r
      /\ Len(wr) = 1 => u[5] = wr[1]
  <2>1. Len(u) = 4 + Len(wr) /\ (\A i \in 1..4 : u[i] = p[i]) /\ (\A i \in 1..Len(wr) : u[4 + i] = wr[i])
    BY <1>2, <1>4 DEF IsJoin
  <2>2. Len(wr) = 1 => u[4 + 1] = wr[1]
    BY <2>1
  <2> QED
    BY <1>2, <2>1, <2>2
<1>6. c \in Seq(S) /\ IsJoin(u, q, c)
  BY <1>2, <1>4, Joined
<1> HIDE DEF c
<1>7. /\ Len(c) = 6 + Len(wr)
      /\ c[1] = a /\ c[2] = b /\ c[3] = l /\ c[4] = r /\ (Len(wr) = 1 => c[5] = wr[1])
      /\ c[5 + Len(wr)] = x /\ c[6 + Len(wr)] = w
  <2>1. /\ Len(c) = Len(u) + 2 /\ (\A i \in 1..Len(u) : c[i] = u[i])
        /\ c[Len(u) + 1] = x /\ c[Len(u) + 2] = w
    BY <1>2, <1>6 DEF IsJoin
  <2>2. Len(u) = 4 + Len(wr)
    BY <1>5
  <2> QED
    BY <2>1, <2>2, <1>5
<1>8. ClearBss(f, wr) = IF f.bss = 0 THEN <<>> ELSE c
  BY <1>3 DEF u, c
<1>9. CASE f.bss = 0
  <2> DEFINE n == <<>>
  <2>1. n \in Seq(S) /\ Len(n) = 0
    OBVIOUS
  <2>2. ClearBss(f, wr) = n
    BY <1>8, <1>9
  <2> HIDE DEF n
  <2> QED
    BY <2>1, <2>2, <1>9 DEF Clears
<1>10. CASE f.bss # 0
  BY <1>6, <1>7, <1>8, <1>10 DEF a, b, l, r, x, w, Clears
<1> QED
  BY <1>9, <1>10

(* The program from _start on. *)
LEMMA StartCode == ASSUME NEW f \in Files PROVE Code(f, _start(f)) /\ \E S : _start(f) \in Seq(S)
<1> DEFINE S == {I("zero"), I("pic"), Set("len", f.bss), Set("rd", StackWord), CONSTSRC, I("wait"), DMACLEAR,
                 DMACCOPY, Set("len", f.image), Set("rd", RomImage), Set("wr", 0), Set("wr", f.image),
                 I("iflen"), I("main")}
<1>1. /\ {I("zero"), I("pic"), Set("len", f.bss), Set("rd", StackWord), CONSTSRC, I("wait")} \subseteq S
      /\ DMACLEAR \in S /\ DMACCOPY \in S /\ Set("len", f.image) \in S /\ Set("rd", RomImage) \in S
      /\ Set("wr", 0) \in S /\ Set("wr", f.image) \in S /\ I("iflen") \in S /\ I("main") \in S
      /\ I("wait") \in S /\ I("pic") \in S
  OBVIOUS
<1> HIDE DEF S
<1> DEFINE last == <<I("main")>>
<1>2. last \in Seq(S) /\ Len(last) = 1 /\ last[1] = I("main")
  <2> DEFINE x == I("main")
  <2>1. x \in S
    BY <1>1
  <2> HIDE DEF x
  <2>2. <<x>> \in Seq(S) /\ Len(<<x>>) = 1 /\ <<x>>[1] = x
    BY <2>1
  <2> QED
    BY <2>2 DEF x
<1>b. f.bss \in Nat
  BY FileFacts
<1>3. CASE f.rom
  <2> DEFINE p == <<I("pic"), DMACLEAR, Set("len", f.image), Set("rd", RomImage), Set("wr", 0), I("iflen")>>
             q == <<I("pic"), DMACCOPY, I("wait")>>
             z == ClearBss(f, <<>>)
             e == <<I("pic")>>
  <2>1. /\ p \in Seq(S) /\ Len(p) = 6
        /\ p[1] = I("pic") /\ p[2] = DMACLEAR /\ p[3] = Set("len", f.image) /\ p[4] = Set("rd", RomImage)
        /\ p[5] = Set("wr", 0) /\ p[6] = I("iflen")
    BY <1>1
  <2>2. q \in Seq(S) /\ Len(q) = 3 /\ q[1] = I("pic") /\ q[2] = DMACCOPY /\ q[3] = I("wait")
    BY <1>1
  <2>3. e \in Seq(S) /\ Len(e) = 1 /\ e[1] = I("pic")
    BY <1>1
  <2>4. /\ z \in Seq(S) /\ (f.bss = 0 => Len(z) = 0)
        /\ f.bss # 0 => /\ Len(z) = 6 /\ z[1] = I("zero") /\ z[2] = I("pic") /\ z[3] = Set("len", f.bss)
                        /\ z[4] = Set("rd", StackWord) /\ z[5] = CONSTSRC /\ z[6] = I("wait")
    <3> DEFINE wr == <<>>
    <3>1. wr \in Seq(S) /\ Len(wr) = 0
      OBVIOUS
    <3> HIDE DEF wr
    <3>2. z = ClearBss(f, wr)
      BY DEF wr
    <3>3. z \in Seq(S) /\ Clears(f, wr, z)
      BY <1>1, <3>1, <3>2, ClearCode
    <3> HIDE DEF z
    <3> QED
      BY <3>1, <3>3 DEF Clears
  <2>5. _start(f) = (((p \o q) \o z) \o e) \o last
    BY <1>3 DEF _start, _bootloader
  <2> DEFINE a == p \o q
             b == a \o z
             d == b \o e
             c == d \o last
  <2> HIDE DEF p, q, z, e, last
  <2>6. /\ a \in Seq(S) /\ Len(a) = 9
        /\ a[1] = I("pic") /\ a[2] = DMACLEAR /\ a[3] = Set("len", f.image) /\ a[4] = Set("rd", RomImage)
        /\ a[5] = Set("wr", 0) /\ a[6] = I("iflen") /\ a[7] = I("pic") /\ a[8] = DMACCOPY /\ a[9] = I("wait")
    <3>1. a \in Seq(S) /\ IsJoin(p, q, a)
      BY <2>1, <2>2, Joined
    <3> HIDE DEF a
    <3>2. /\ Len(a) = 6 + 3 /\ \A i \in 1..6 : a[i] = p[i]
          /\ a[6 + 1] = q[1] /\ a[6 + 2] = q[2] /\ a[6 + 3] = q[3]
      BY <2>1, <2>2, <3>1 DEF IsJoin
    <3>3. a[7] = q[1] /\ a[8] = q[2] /\ a[9] = q[3]
      BY <3>2
    <3> QED
      BY <2>1, <2>2, <3>1, <3>2, <3>3
  <2> HIDE DEF a
  <2>7. /\ b \in Seq(S) /\ Len(b) = 9 + Len(z)
        /\ \A i \in 1..9 : b[i] = a[i]
        /\ \A i \in 1..Len(z) : b[9 + i] = z[i]
    <3>1. b \in Seq(S) /\ IsJoin(a, z, b)
      BY <2>4, <2>6, Joined
    <3> HIDE DEF b
    <3> QED
      BY <2>6, <3>1 DEF IsJoin
  <2> HIDE DEF b
  <2>8. /\ d \in Seq(S) /\ Len(d) = Len(b) + 1 /\ d[Len(b) + 1] = I("pic")
        /\ \A i \in 1..Len(b) : d[i] = b[i]
    <3>1. d \in Seq(S) /\ IsJoin(b, e, d)
      BY <2>3, <2>7, Joined
    <3> HIDE DEF d
    <3> QED
      BY <2>3, <3>1 DEF IsJoin
  <2> HIDE DEF d
  <2>9. /\ c \in Seq(S) /\ Len(c) = Len(d) + 1 /\ c[Len(d) + 1] = I("main")
        /\ \A i \in 1..Len(d) : c[i] = d[i]
    <3>1. c \in Seq(S) /\ IsJoin(d, last, c)
      BY <1>2, <2>8, Joined
    <3> HIDE DEF c
    <3> QED
      BY <1>2, <3>1 DEF IsJoin
  <2>10. _start(f) = c
    BY <2>5 DEF a, b, d
  <2> HIDE DEF c
  <2>11. Len(z) = (IF f.bss = 0 THEN 0 ELSE 6)
    BY <2>4
  <2>12. /\ Len(c) = IF f.bss = 0 THEN 11 ELSE 17
         /\ \A i \in 1..9 : c[i] = a[i]
         /\ \A i \in 1..Len(z) : c[9 + i] = z[i]
         /\ c[10 + Len(z)] = I("pic") /\ c[11 + Len(z)] = I("main")
    <3>1. Len(b) = 9 + Len(z) /\ Len(d) = 10 + Len(z) /\ Len(c) = 11 + Len(z) /\ Len(z) \in Nat
      BY <2>7, <2>8, <2>9, <2>11
    <3>2. \A i \in 1..9 : c[i] = a[i]
      BY <3>1, <2>7, <2>8, <2>9
    <3>3. \A i \in 1..Len(z) : c[9 + i] = z[i]
      <4> SUFFICES ASSUME NEW i \in 1..Len(z) PROVE c[9 + i] = z[i]
        OBVIOUS
      <4>1. 9 + i \in 1..Len(b) /\ 9 + i \in 1..Len(d)
        BY <3>1
      <4> QED
        BY <4>1, <2>7, <2>8, <2>9
    <3>4. c[10 + Len(z)] = I("pic")
      <4>1. 10 + Len(z) \in 1..Len(d) /\ 10 + Len(z) = Len(b) + 1
        BY <3>1
      <4> QED
        BY <4>1, <2>8, <2>9
    <3>5. c[11 + Len(z)] = I("main")
      <4>1. 11 + Len(z) = Len(d) + 1
        BY <3>1
      <4> QED
        BY <4>1, <2>9
    <3> QED
      BY <3>1, <3>2, <3>3, <3>4, <3>5, <2>11
  <2>13. Code(f, c)
    <3>1. CASE f.bss = 0
      BY <1>3, <3>1, <2>6, <2>11, <2>12 DEF Code
    <3>2. CASE f.bss # 0
      <4>1. Len(z) = 6
        BY <3>2, <2>11
      <4>2. c[9 + 1] = z[1] /\ c[9 + 2] = z[2] /\ c[9 + 3] = z[3] /\ c[9 + 4] = z[4] /\ c[9 + 5] = z[5] /\ c[9 + 6] = z[6]
        BY <4>1, <2>12
      <4>3. c[10] = z[1] /\ c[11] = z[2] /\ c[12] = z[3] /\ c[13] = z[4] /\ c[14] = z[5] /\ c[15] = z[6]
        BY <4>2
      <4>4. c[16] = I("pic") /\ c[17] = I("main")
        BY <4>1, <2>12
      <4> QED
        BY <1>3, <3>2, <4>3, <4>4, <2>4, <2>6, <2>12 DEF Code
    <3> QED
      BY <3>1, <3>2
  <2> QED
    BY <2>9, <2>10, <2>13
<1>4. CASE ~f.rom
  <2> DEFINE p == <<DMACLEAR>>
             wr == <<Set("wr", f.image)>>
             z == ClearBss(f, wr)
  <2>1. p \in Seq(S) /\ Len(p) = 1 /\ p[1] = DMACLEAR
    BY <1>1
  <2>2. wr \in Seq(S) /\ Len(wr) = 1 /\ wr[1] = Set("wr", f.image)
    BY <1>1
  <2> HIDE DEF wr
  <2>3. /\ z \in Seq(S) /\ (f.bss = 0 => Len(z) = 0)
        /\ f.bss # 0 => /\ Len(z) = 7 /\ z[1] = I("zero") /\ z[2] = I("pic") /\ z[3] = Set("len", f.bss)
                        /\ z[4] = Set("rd", StackWord) /\ z[5] = wr[1] /\ z[6] = CONSTSRC /\ z[7] = I("wait")
    <3>1. z \in Seq(S) /\ Clears(f, wr, z)
      BY <1>1, <2>2, ClearCode
    <3> HIDE DEF z
    <3> QED
      BY <2>2, <3>1 DEF Clears
  <2>4. _start(f) = (p \o z) \o last
    BY <1>4 DEF _start, _bootloader, wr
  <2> DEFINE b == p \o z
             c == b \o last
  <2> HIDE DEF p, z, last
  <2>5. Len(z) = (IF f.bss = 0 THEN 0 ELSE 7)
    BY <2>3
  <2>6. /\ b \in Seq(S) /\ Len(b) = 1 + Len(z) /\ b[1] = DMACLEAR
        /\ \A i \in 1..Len(z) : b[1 + i] = z[i]
    <3>1. b \in Seq(S) /\ IsJoin(p, z, b)
      BY <2>1, <2>3, Joined
    <3> HIDE DEF b
    <3> QED
      BY <2>1, <3>1 DEF IsJoin
  <2> HIDE DEF b
  <2>7. /\ c \in Seq(S) /\ Len(c) = Len(b) + 1 /\ c[Len(b) + 1] = I("main")
        /\ \A i \in 1..Len(b) : c[i] = b[i]
    <3>1. c \in Seq(S) /\ IsJoin(b, last, c)
      BY <1>2, <2>6, Joined
    <3> HIDE DEF c
    <3> QED
      BY <1>2, <3>1 DEF IsJoin
  <2>8. _start(f) = c
    BY <2>4 DEF b
  <2> HIDE DEF c
  <2>9. Code(f, c)
    <3>1. CASE f.bss = 0
      <4>1. Len(b) = 1 /\ Len(c) = 2
        BY <3>1, <2>5, <2>6, <2>7
      <4>2. c[1] = DMACLEAR /\ c[2] = I("main")
        BY <4>1, <2>6, <2>7
      <4> QED
        BY <1>4, <3>1, <4>1, <4>2 DEF Code
    <3>2. CASE f.bss # 0
      <4>1. Len(z) = 7 /\ Len(b) = 8 /\ Len(c) = 9
        BY <3>2, <2>5, <2>6, <2>7
      <4>2. /\ b[1 + 1] = z[1] /\ b[1 + 2] = z[2] /\ b[1 + 3] = z[3] /\ b[1 + 4] = z[4] /\ b[1 + 5] = z[5]
            /\ b[1 + 6] = z[6] /\ b[1 + 7] = z[7]
        BY <4>1, <2>6
      <4>3. \A i \in 1..8 : c[i] = b[i]
        BY <4>1, <2>7
      <4>4. /\ c[2] = z[1] /\ c[3] = z[2] /\ c[4] = z[3] /\ c[5] = z[4] /\ c[6] = z[5]
            /\ c[7] = z[6] /\ c[8] = z[7]
        BY <4>2, <4>3
      <4>5. c[1] = DMACLEAR /\ c[9] = I("main")
        BY <4>1, <4>3, <2>6, <2>7
      <4> QED
        BY <1>4, <3>2, <4>1, <4>4, <4>5, <2>2, <2>3 DEF Code
    <3> QED
      BY <3>1, <3>2
  <2> QED
    BY <2>7, <2>8, <2>9
<1> QED
  BY <1>3, <1>4, FileFacts

(* What the labels say of the program. *)
Flows(f, c) ==
    /\ Len(c) = Len(Labels(f)) /\ Len(c) \in Nat /\ Len(c) >= 2 /\ Labels(f)[1] = "boot"
    /\ \A p \in 1..Len(c) :
         /\ Follows(f, Labels(f)[p], c[p], Beyond(f, p, 1))
         /\ Labels(f)[p] = "if" => p + 4 <= Len(c) /\ Labels(f)[p + 4] = (IF f.bss = 0 THEN "ready" ELSE "zero")

(* Every program is what its labels say, whether it has an image to copy and a BSS or not. *)
LEMMA Flow == ASSUME NEW f \in Files PROVE Flows(f, _start(f))
<1> DEFINE c == _start(f)
<1>1. Code(f, c)
  BY StartCode
<1>2. f.rom \in BOOLEAN /\ f.bss \in Nat
  BY FileFacts
<1> HIDE DEF c
<1> SUFFICES Flows(f, c)
  BY DEF c
<1>3. CASE f.rom /\ f.bss = 0
  <2> DEFINE L == <<"boot", "boot", "len", "rd", "wr", "if", "arm", "copy", "copying", "ready", "ready">>
  <2>1. Labels(f) = L
    BY <1>3 DEF Labels
  <2>2. /\ Len(L) = 11 /\ L[1] = "boot" /\ L[2] = "boot" /\ L[3] = "len" /\ L[4] = "rd" /\ L[5] = "wr" /\ L[6] = "if"
        /\ L[7] = "arm" /\ L[8] = "copy" /\ L[9] = "copying" /\ L[10] = "ready" /\ L[11] = "ready"
    OBVIOUS
  <2> HIDE DEF L
  <2>3. /\ Len(c) = 11 /\ c[1] = I("pic") /\ c[2] = DMACLEAR /\ c[3] = Set("len", f.image) /\ c[4] = Set("rd", RomImage)
        /\ c[5] = Set("wr", 0) /\ c[6] = I("iflen") /\ c[7] = I("pic") /\ c[8] = DMACCOPY /\ c[9] = I("wait")
        /\ c[10] = I("pic") /\ c[11] = I("main")
    BY <1>1, <1>3 DEF Code
  <2>4. /\ Beyond(f, 1, 1) = "boot" /\ Beyond(f, 2, 1) = "len" /\ Beyond(f, 3, 1) = "rd" /\ Beyond(f, 4, 1) = "wr"
        /\ Beyond(f, 5, 1) = "if" /\ Beyond(f, 6, 1) = "arm" /\ Beyond(f, 7, 1) = "copy" /\ Beyond(f, 8, 1) = "copying"
        /\ Beyond(f, 9, 1) = "ready" /\ Beyond(f, 10, 1) = "ready" /\ Beyond(f, 11, 1) = "end"
    BY <2>1, <2>2 DEF Beyond
  <2>5. ASSUME NEW p \in 1..Len(c)
        PROVE  /\ Follows(f, Labels(f)[p], c[p], Beyond(f, p, 1))
               /\ Labels(f)[p] = "if" => p + 4 <= Len(c) /\ Labels(f)[p + 4] = (IF f.bss = 0 THEN "ready" ELSE "zero")
    <3>1. p \in 1..11
      BY <2>3
    <3>2. CASE p \in 1..6
      BY <3>2, <1>3, <2>1, <2>2, <2>3, <2>4 DEF Follows
    <3>3. CASE p \in 7..11
      BY <3>3, <1>3, <2>1, <2>2, <2>3, <2>4 DEF Follows
    <3> QED
      BY <3>1, <3>2, <3>3
  <2> QED
    BY <2>1, <2>2, <2>3, <2>5 DEF Flows
<1>4. CASE f.rom /\ f.bss # 0
  <2> DEFINE L == <<"boot", "boot", "len", "rd", "wr", "if", "arm", "copy", "copying",
                "zero", "arm2", "len2", "rd2", "clear", "clearing", "ready", "ready">>
  <2>1. Labels(f) = L
    BY <1>4 DEF Labels
  <2>2. /\ Len(L) = 17 /\ L[1] = "boot" /\ L[2] = "boot" /\ L[3] = "len" /\ L[4] = "rd" /\ L[5] = "wr" /\ L[6] = "if"
        /\ L[7] = "arm" /\ L[8] = "copy" /\ L[9] = "copying" /\ L[10] = "zero" /\ L[11] = "arm2" /\ L[12] = "len2"
        /\ L[13] = "rd2" /\ L[14] = "clear" /\ L[15] = "clearing" /\ L[16] = "ready" /\ L[17] = "ready"
    OBVIOUS
  <2> HIDE DEF L
  <2>3. /\ Len(c) = 17 /\ c[1] = I("pic") /\ c[2] = DMACLEAR /\ c[3] = Set("len", f.image) /\ c[4] = Set("rd", RomImage)
        /\ c[5] = Set("wr", 0) /\ c[6] = I("iflen") /\ c[7] = I("pic") /\ c[8] = DMACCOPY /\ c[9] = I("wait")
        /\ c[10] = I("zero") /\ c[11] = I("pic") /\ c[12] = Set("len", f.bss) /\ c[13] = Set("rd", StackWord)
        /\ c[14] = CONSTSRC /\ c[15] = I("wait") /\ c[16] = I("pic") /\ c[17] = I("main")
    BY <1>1, <1>4 DEF Code
  <2>4. /\ Beyond(f, 1, 1) = "boot" /\ Beyond(f, 2, 1) = "len" /\ Beyond(f, 3, 1) = "rd" /\ Beyond(f, 4, 1) = "wr"
        /\ Beyond(f, 5, 1) = "if" /\ Beyond(f, 6, 1) = "arm" /\ Beyond(f, 7, 1) = "copy" /\ Beyond(f, 8, 1) = "copying"
        /\ Beyond(f, 9, 1) = "zero" /\ Beyond(f, 10, 1) = "arm2" /\ Beyond(f, 11, 1) = "len2" /\ Beyond(f, 12, 1) = "rd2"
        /\ Beyond(f, 13, 1) = "clear" /\ Beyond(f, 14, 1) = "clearing" /\ Beyond(f, 15, 1) = "ready"
        /\ Beyond(f, 16, 1) = "ready" /\ Beyond(f, 17, 1) = "end"
    BY <2>1, <2>2 DEF Beyond
  <2>5. ASSUME NEW p \in 1..Len(c)
        PROVE  /\ Follows(f, Labels(f)[p], c[p], Beyond(f, p, 1))
               /\ Labels(f)[p] = "if" => p + 4 <= Len(c) /\ Labels(f)[p + 4] = (IF f.bss = 0 THEN "ready" ELSE "zero")
    <3>1. p \in 1..17 /\ f.bss > 0
      BY <2>3, <1>2, <1>4
    <3>2. CASE p \in 1..6
      BY <3>1, <3>2, <1>4, <2>1, <2>2, <2>3, <2>4 DEF Follows
    <3>3. CASE p \in 7..12
      BY <3>1, <3>3, <1>4, <2>1, <2>2, <2>3, <2>4 DEF Follows
    <3>4. CASE p \in 13..17
      BY <3>1, <3>4, <1>4, <2>1, <2>2, <2>3, <2>4 DEF Follows
    <3> QED
      BY <3>1, <3>2, <3>3, <3>4
  <2> QED
    BY <2>1, <2>2, <2>3, <2>5 DEF Flows
<1>5. CASE ~f.rom /\ f.bss = 0
  <2> DEFINE L == <<"boot", "ready">>
  <2>1. Labels(f) = L
    BY <1>5 DEF Labels
  <2>2. Len(L) = 2 /\ L[1] = "boot" /\ L[2] = "ready"
    OBVIOUS
  <2> HIDE DEF L
  <2>3. Len(c) = 2 /\ c[1] = DMACLEAR /\ c[2] = I("main")
    BY <1>1, <1>5 DEF Code
  <2>4. Beyond(f, 1, 1) = "ready" /\ Beyond(f, 2, 1) = "end"
    BY <2>1, <2>2 DEF Beyond
  <2>5. ASSUME NEW p \in 1..Len(c)
        PROVE  /\ Follows(f, Labels(f)[p], c[p], Beyond(f, p, 1))
               /\ Labels(f)[p] = "if" => p + 4 <= Len(c) /\ Labels(f)[p + 4] = (IF f.bss = 0 THEN "ready" ELSE "zero")
    <3>1. p \in 1..2
      BY <2>3
    <3> QED
      BY <3>1, <1>5, <2>1, <2>2, <2>3, <2>4 DEF Follows
  <2> QED
    BY <2>1, <2>2, <2>3, <2>5 DEF Flows
<1>6. CASE ~f.rom /\ f.bss # 0
  <2> DEFINE L == <<"boot", "zero", "arm2", "len2", "rd2", "wr2", "clear", "clearing", "ready">>
  <2>1. Labels(f) = L
    BY <1>6 DEF Labels
  <2>2. /\ Len(L) = 9 /\ L[1] = "boot" /\ L[2] = "zero" /\ L[3] = "arm2" /\ L[4] = "len2" /\ L[5] = "rd2"
        /\ L[6] = "wr2" /\ L[7] = "clear" /\ L[8] = "clearing" /\ L[9] = "ready"
    OBVIOUS
  <2> HIDE DEF L
  <2>3. /\ Len(c) = 9 /\ c[1] = DMACLEAR /\ c[2] = I("zero") /\ c[3] = I("pic") /\ c[4] = Set("len", f.bss)
        /\ c[5] = Set("rd", StackWord) /\ c[6] = Set("wr", f.image) /\ c[7] = CONSTSRC /\ c[8] = I("wait") /\ c[9] = I("main")
    BY <1>1, <1>6 DEF Code
  <2>4. /\ Beyond(f, 1, 1) = "zero" /\ Beyond(f, 2, 1) = "arm2" /\ Beyond(f, 3, 1) = "len2" /\ Beyond(f, 4, 1) = "rd2"
        /\ Beyond(f, 5, 1) = "wr2" /\ Beyond(f, 6, 1) = "clear" /\ Beyond(f, 7, 1) = "clearing"
        /\ Beyond(f, 8, 1) = "ready" /\ Beyond(f, 9, 1) = "end"
    BY <2>1, <2>2 DEF Beyond
  <2>5. ASSUME NEW p \in 1..Len(c)
        PROVE  /\ Follows(f, Labels(f)[p], c[p], Beyond(f, p, 1))
               /\ Labels(f)[p] = "if" => p + 4 <= Len(c) /\ Labels(f)[p + 4] = (IF f.bss = 0 THEN "ready" ELSE "zero")
    <3>1. p \in 1..9 /\ f.bss > 0
      BY <2>3, <1>2, <1>6
    <3> QED
      BY <3>1, <1>6, <2>1, <2>2, <2>3, <2>4 DEF Follows
  <2> QED
    BY <2>1, <2>2, <2>3, <2>5 DEF Flows
<1> QED
  BY <1>3, <1>4, <1>5, <1>6

(* The end of the end of a sequence is its end. *)
LEMMA EndOfEnd ==
    ASSUME NEW S, NEW c, NEW t, NEW n \in Nat, NEW p \in 1..n, NEW k \in Nat, p + k <= n,
           \A i \in 1..n : c[i] \in S, t \in Seq(S), Len(t) = n + 1 - p, \A i \in 1..(n + 1 - p) : t[i] = c[p + i - 1]
    PROVE  SubSeq(t, k + 1, Len(t)) = SubSeq(c, p + k, n)
<1>h. /\ n \in Nat /\ p \in 1..n /\ k \in Nat /\ p + k <= n /\ (\A i \in 1..n : c[i] \in S)
      /\ t \in Seq(S) /\ Len(t) = n + 1 - p /\ \A i \in 1..(n + 1 - p) : t[i] = c[p + i - 1]
  OBVIOUS
<1> DEFINE u == SubSeq(t, k + 1, Len(t))
           v == SubSeq(c, p + k, n)
           m == n - (p + k) + 1
<1>1. m \in Nat /\ Len(t) \in Nat /\ k + 1 \in 1..Len(t) /\ Len(t) - (k + 1) + 1 = m /\ k + 1 <= Len(t)
  BY <1>h
<1>2. \A i \in (k + 1)..Len(t) : t[i] \in S
  BY <1>h, LenProperties, ElementOfSeq
<1>3. u \in Seq(S) /\ Len(u) = m /\ \A i \in 1..m : u[i] = t[k + 1 + i - 1]
  <2> DEFINE x == k + 1
             y == Len(t)
  <2>1. x \in Int /\ y \in Int /\ \A i \in x..y : t[i] \in S
    BY <1>1, <1>2
  <2>3. x <= y /\ y - x + 1 = m
    BY <1>1
  <2> HIDE DEF x, y
  <2>2. /\ SubSeq(t, x, y) \in Seq(S) /\ Len(SubSeq(t, x, y)) = (IF x <= y THEN y - x + 1 ELSE 0)
        /\ \A i \in 1..(y - x + 1) : SubSeq(t, x, y)[i] = t[x + i - 1]
    BY <2>1, SubSeqProperties
  <2> QED
    BY <2>2, <2>3 DEF x, y
<1>4. \A i \in (p + k)..n : c[i] \in S
  BY <1>h
<1>5. v \in Seq(S) /\ Len(v) = m /\ \A i \in 1..m : v[i] = c[p + k + i - 1]
  BY <1>4, <1>h, SubSeqProperties
<1> HIDE DEF u, v
<1>6. ASSUME NEW i \in 1..m PROVE u[i] = v[i]
  <2>1. k + 1 + i - 1 \in 1..(n + 1 - p) /\ p + (k + 1 + i - 1) - 1 = p + k + i - 1
    BY <1>h
  <2>2. t[k + 1 + i - 1] = c[p + (k + 1 + i - 1) - 1]
    BY <2>1, <1>h
  <2> QED
    BY <2>1, <2>2, <1>3, <1>5
<1>7. u = v
  BY <1>1, <1>3, <1>5, <1>6, SeqEqual
<1> QED
  BY <1>7 DEF u, v

(* The rest of a program, and the rest of that. *)
IsSuffix(t, c, p) ==
    /\ t # <<>> /\ Head(t) = c[p] /\ Len(t) = Len(c) + 1 - p
    /\ \A k \in Nat : p + k <= Len(c) => SubSeq(t, k + 1, Len(t)) = SubSeq(c, p + k, Len(c))

(* What is left of a program is that. *)
LEMMA Suffix ==
    ASSUME NEW S, NEW c \in Seq(S), NEW p \in 1..Len(c), NEW t, t = SubSeq(c, p, Len(c))
    PROVE  IsSuffix(t, c, p)
<1> DEFINE n == Len(c)
<1>1. n \in Nat /\ p \in 1..n /\ \A i \in 1..n : c[i] \in S
  BY LenProperties, ElementOfSeq
<1>2. t = SubSeq(c, p, n)
  OBVIOUS
<1> HIDE DEF n
<1>3. t \in Seq(S) /\ Len(t) = n + 1 - p /\ \A i \in 1..(n + 1 - p) : t[i] = c[p + i - 1]
  <2>1. \A i \in p..n : c[i] \in S
    BY <1>1
  <2>2. t \in Seq(S) /\ Len(t) = (IF p <= n THEN n - p + 1 ELSE 0)
        /\ \A i \in 1..(n - p + 1) : t[i] = c[p + i - 1]
    BY <2>1, <1>1, <1>2, SubSeqProperties
  <2>3. n - p + 1 = n + 1 - p /\ p <= n
    BY <1>1
  <2> QED
    BY <2>2, <2>3
<1>4. t # <<>> /\ Head(t) = c[p]
  <2>1. Len(t) > 0 /\ t[1] = c[p]
    BY <1>1, <1>3
  <2> QED
    BY <2>1, <1>3
<1>5. ASSUME NEW k \in Nat, p + k <= n PROVE SubSeq(t, k + 1, Len(t)) = SubSeq(c, p + k, n)
  BY <1>1, <1>3, <1>5, EndOfEnd
<1> QED
  BY <1>3, <1>4, <1>5 DEF n, IsSuffix

(* A clock while the engine is idle. *)
LEMMA StillTurn ==
    ASSUME RecordsOK, RomOK, Still, NEW grant, NEW stall, NEW answer, NEW stores \in BOOLEAN,
           Turned(grant, stall, answer, stores)
    PROVE  /\ answer = "none" /\ BusOK' /\ out' = 0 /\ ~dma'.interrupt /\ ~dma'.trigger /\ dma'.dma_mem = dma.dma_mem
           /\ dma'.len \in Int /\ dma'.raddr \in Int /\ dma'.waddr \in Int /\ dma'.incs \in BOOLEAN
           /\ LenIs(dma'.len) /\ RdIs(dma'.raddr) /\ WrIs(dma'.waddr)
           /\ s.reg \notin {"DMACCOPY", "DMA_CONSTSRC"} => dma'.state = "IDLE"
           /\ s.reg \in {"DMACCOPY", "DMA_CONSTSRC"} =>
                /\ dma'.state = IF dma.len > 0 THEN "WAIT" ELSE "IDLE"
                /\ dma'.incs = (s.reg = "DMACCOPY")
           /\ file' = file /\ count'.errors = count.errors
           /\ DOMAIN mem' = Memory
           /\ \A a \in Memory : a # StackWord => mem'[a] = mem[a]
           /\ mem'[StackWord] = IF stores THEN Zero ELSE mem[StackWord]
           /\ RomOK'
           /\ (Imaged(file.image) => Imaged(file.image)')
           /\ (Cleared(file.image + file.bss) => Cleared(file.image + file.bss)')
           /\ (ImageOK /\ (file.rom => s.reg # "wr") => ImageOK')
<1>1. PICK m \in Written(answer) : mem' = IF stores THEN [m EXCEPT ![StackWord] = Zero] ELSE m
  BY DEF Turned
<1>2. answer \in Answers /\ Transfer(grant, stall, answer)
  BY DEF Turned
<1>3. /\ answer = "none" /\ BusOK' /\ out' = 0 /\ ~dma'.interrupt /\ ~dma'.trigger /\ dma'.dma_mem = dma.dma_mem
      /\ dma'.len \in Int /\ dma'.raddr \in Int /\ dma'.waddr \in Int /\ dma'.incs \in BOOLEAN
      /\ LenIs(dma'.len) /\ RdIs(dma'.raddr) /\ WrIs(dma'.waddr)
      /\ s.reg \notin {"DMACCOPY", "DMA_CONSTSRC"} => dma'.state = "IDLE"
      /\ s.reg \in {"DMACCOPY", "DMA_CONSTSRC"} =>
           /\ dma'.state = IF dma.len > 0 THEN "WAIT" ELSE "IDLE"
           /\ dma'.incs = (s.reg = "DMACCOPY")
  BY <1>2, StillStep
<1>4. DOMAIN m = Memory /\ \A a \in Memory : m[a] = mem[a]
  BY <1>2, StillStep
<1>5. file' = file /\ count'.errors = count.errors
  BY <1>3 DEF Turned
<1>6. file \in Files /\ StackWord \in Memory /\ file.image \in Nat /\ file.bss \in Nat
      /\ \A a \in Int : a >= 0 /\ a < file.image + file.bss => a \in Memory /\ a # StackWord
  BY FileFacts DEF RecordsOK
<1>7. /\ DOMAIN mem' = Memory
      /\ \A a \in Memory : a # StackWord => mem'[a] = mem[a]
      /\ mem'[StackWord] = IF stores THEN Zero ELSE mem[StackWord]
  BY <1>1, <1>4, <1>6
<1>8. \A a \in Int : a >= 0 /\ a < file.image + file.bss => mem'[a] = mem[a]
  BY <1>6, <1>7
<1>9. Imaged(file.image) => Imaged(file.image)'
  BY <1>5, <1>6, <1>8 DEF Imaged
<1>10. Cleared(file.image + file.bss) => Cleared(file.image + file.bss)'
  BY <1>5, <1>6, <1>8 DEF Cleared
<1>11. ImageOK /\ (file.rom => s.reg # "wr") => ImageOK'
  BY <1>3, <1>5, <1>9 DEF ImageOK, WrIs
<1>12. RomOK'
  <2>1. ASSUME file.rom, NEW a \in 0..(file.image - 1) PROVE mem'[RomImage + a] = Image(file, a)
    <3>1. RomImage + a \in Memory /\ RomImage + a # StackWord
      BY <2>1, <1>6, FileFacts
    <3> QED
      BY <2>1, <3>1, <1>7 DEF RomOK
  <2> QED
    BY <2>1, <1>5, <1>9 DEF RomOK
<1> QED
  BY <1>3, <1>5, <1>7, <1>9, <1>10, <1>11, <1>12

(* The engine starts. *)
LEMMA StartStep ==
    ASSUME RecordsOK, RomOK, Still, NEW grant, NEW stall, NEW answer, NEW stores \in BOOLEAN, ~stores, Turned(grant, stall, answer, stores),
           s.reg \in {"DMACCOPY", "DMA_CONSTSRC"}, dma.len \in Nat \ {0}, dma.waddr \in Nat,
           \/ /\ s.reg = "DMACCOPY" /\ file.rom /\ dma.len = file.image /\ dma.raddr = RomImage /\ dma.waddr = 0
           \/ /\ s.reg = "DMA_CONSTSRC" /\ dma.len = file.bss /\ dma.raddr = StackWord /\ dma.waddr <= file.image
              /\ mem[StackWord] = Zero /\ (count.errors = 0 => dma.waddr = file.image /\ Imaged(file.image))
    PROVE  Moving' /\ dma'.incs = (s.reg = "DMACCOPY")
<1>1. /\ BusOK' /\ out' = 0 /\ ~dma'.interrupt /\ ~dma'.trigger
      /\ LenIs(dma'.len) /\ RdIs(dma'.raddr) /\ WrIs(dma'.waddr)
      /\ dma'.state = "WAIT" /\ dma'.incs = (s.reg = "DMACCOPY")
      /\ file' = file /\ count'.errors = count.errors
      /\ mem'[StackWord] = mem[StackWord]
      /\ (Imaged(file.image) => Imaged(file.image)')
  BY StillTurn
<1>2. dma'.len = dma.len /\ dma'.raddr = dma.raddr /\ dma'.waddr = dma.waddr
  BY <1>1 DEF LenIs, RdIs, WrIs
<1>3. file.image \in Nat /\ file.bss \in Nat /\ RomImage \in Nat /\ count'.errors = count.errors
  BY <1>1, FileFacts DEF RecordsOK
<1>4. Reached' = dma.waddr
  BY <1>1, <1>2 DEF Reached, We
<1>5. dma'.raddr = Src(dma.waddr)'
  <2>1. CASE s.reg = "DMACCOPY"
    <3>1. dma'.incs /\ dma'.raddr = RomImage /\ dma'.waddr = 0
      BY <2>1, <1>1, <1>2
    <3> QED
      BY <3>1, <1>3 DEF Src
  <2>2. CASE s.reg = "DMA_CONSTSRC"
    <3>1. ~dma'.incs /\ dma'.raddr = StackWord
      BY <2>2, <1>1, <1>2
    <3> QED
      BY <3>1 DEF Src
  <2> QED
    BY <2>1, <2>2
<1>6. FarOK'
  <2>1. CASE s.reg = "DMACCOPY"
    <3>1. Imaged(Reached)'
      BY <2>1, <1>4 DEF Imaged
    <3>2. dma'.incs /\ file'.rom /\ Reached' = 0 /\ dma'.len = file'.image /\ file'.image \in Nat
      BY <2>1, <1>1, <1>2, <1>3, <1>4
    <3> QED
      BY <3>1, <3>2 DEF FarOK
  <2>2. CASE s.reg = "DMA_CONSTSRC"
    <3>1. ~dma'.incs /\ Reached' \in Nat /\ mem'[StackWord] = Zero
      BY <2>2, <1>1, <1>4
    <3>2. Reached' + dma'.len <= file'.image + file'.bss
      BY <2>2, <1>1, <1>2, <1>3, <1>4
    <3>3. ASSUME count'.errors = 0
          PROVE  /\ Reached' = file'.image /\ Reached' + dma'.len = file'.image + file'.bss
                 /\ Imaged(file.image)' /\ Cleared(Reached)'
      <4>1. Reached' = file'.image /\ dma'.len = file'.bss /\ Imaged(file.image)'
        BY <2>2, <3>3, <1>1, <1>2, <1>3, <1>4
      <4>2. Cleared(Reached)'
        BY <4>1, <1>1, <1>3 DEF Cleared
      <4> QED
        BY <4>1, <4>2
    <3>4. count'.errors = 0 => Reached' >= file'.image
      BY <3>1, <3>3
    <3> QED
      BY <3>1, <3>2, <3>3, <3>4 DEF FarOK
  <2> QED
    BY <2>1, <2>2
<1> QED
  BY <1>1, <1>2, <1>5, <1>6 DEF Moving

(* What the CPU does on a clock: an instruction, or nothing. *)
Moves(i, execs) ==
    /\ execs \in BOOLEAN
    /\ s' = IF execs /\ i.op \in {"len", "rd", "wr"} \cup Controls THEN [reg |-> i.op, val |-> i.val] ELSE None
    /\ pic' = ((pic /\ ~(execs /\ i.op = "pic")) \/ dma.interrupt)
    /\ execs /\ i.op = "wait" => pic
(* Where that leads from a label. *)
Reaches(l, i, m, execs) ==
    /\ ~execs => At(l)'
    /\ execs /\ i.op = "iflen" /\ dma.len = 0 => At(IF file.bss = 0 THEN "ready" ELSE "zero")'
    /\ execs /\ ~(i.op = "iflen" /\ dma.len = 0) => IF m = "end" THEN Done' ELSE At(m)'
Calm == {"boot", "len", "rd", "wr", "if", "arm", "copy", "zero", "arm2", "len2", "rd2", "wr2", "clear", "ready"}

(* A clock between transfers. *)
LEMMA CalmMove ==
    ASSUME RecordsOK, RomOK, NEW l \in Calm, NEW i, NEW m, Follows(file, l, i, m), At(l),
           NEW grant, NEW stall, NEW answer, NEW execs, Moves(i, execs), NEW stores \in BOOLEAN,
           stores <=> (execs /\ i.op = "zero"), Turned(grant, stall, answer, stores)
    PROVE  Reaches(l, i, m, execs)
<1>1. Quiet /\ Still /\ s.reg \notin {"DMACCOPY", "DMA_CONSTSRC"} /\ ~dma.interrupt
  <2>1. s = None => s.reg = "none"
    BY DEF None
  <2>2. CASE l \in {"boot", "len", "rd", "wr", "if", "arm", "copy"}
    BY <2>1, <2>2 DEF At, Quiet
  <2>3. CASE l \in {"zero", "arm2", "len2", "rd2", "wr2", "ready"}
    BY <2>1, <2>3 DEF At, Quiet
  <2>4. CASE l = "clear"
    BY <2>1, <2>4 DEF At, Quiet
  <2> QED
    BY <2>2, <2>3, <2>4 DEF Calm
<1>2. /\ out' = 0 /\ ~dma'.interrupt
      /\ LenIs(dma'.len) /\ RdIs(dma'.raddr) /\ WrIs(dma'.waddr) /\ dma'.state = "IDLE"
      /\ file' = file /\ count'.errors = count.errors
      /\ mem'[StackWord] = IF stores THEN Zero ELSE mem[StackWord]
      /\ RomOK'
      /\ (Imaged(file.image) => Imaged(file.image)')
      /\ (Cleared(file.image + file.bss) => Cleared(file.image + file.bss)')
      /\ (ImageOK /\ (file.rom => s.reg # "wr") => ImageOK')
  BY <1>1, StillTurn
<1>3. Quiet'
  BY <1>2 DEF Quiet, Still
<1>4. file.image \in Nat /\ file.bss \in Nat /\ file.rom \in BOOLEAN /\ pic \in BOOLEAN /\ execs \in BOOLEAN
  BY FileFacts DEF RecordsOK, Moves
<1>5. /\ \A v : LenIs(v) => dma'.len = v
      /\ \A v : RdIs(v) => dma'.raddr = v
      /\ \A v : WrIs(v) => dma'.waddr = v
  BY <1>2 DEF LenIs, RdIs, WrIs
<1>6. file.bss = 0 => Cleared(file.image + file.bss)'
  BY <1>2, <1>4 DEF Cleared
<1>7. /\ ~execs => s' = None /\ (pic' <=> pic)
      /\ execs => (pic' <=> (pic /\ i.op # "pic"))
      /\ execs => s' = IF i.op \in {"len", "rd", "wr"} \cup Controls THEN [reg |-> i.op, val |-> i.val] ELSE None
  BY <1>1, <1>4 DEF Moves
<1>8. None.reg = "none"
  BY DEF None
<1> USE <1>3, <1>4, <1>7, <1>8
<1>9. CASE l = "boot"
  <2>1. ~execs => At("boot")'
    BY DEF At
  <2>2. file.rom => (i = I("pic") /\ m = "boot") \/ (i = DMACLEAR /\ m = "len")
    BY <1>9 DEF Follows
  <2>3. ~file.rom => i = DMACLEAR /\ m = IF file.bss = 0 THEN "ready" ELSE "zero"
    BY <1>9 DEF Follows
  <2>4. i.op \in {"pic", "DMACLEAR"}
    BY <2>2, <2>3 DEF I, DMACLEAR
  <2>5. execs => s'.reg \in {"none", "DMACLEAR"}
    BY <2>4 DEF Controls
  <2>6. execs /\ file.rom => At(m)' /\ m # "end"
    BY <2>2, <2>5 DEF At
  <2>7. ~file.rom => ImageOK' /\ (count'.errors = 0 => Imaged(file.image)')
    BY <1>2 DEF RomOK, ImageOK
  <2>8. execs /\ ~file.rom => At(m)' /\ m # "end"
    BY <2>3, <2>5, <2>7, <1>2, <1>6 DEF At
  <2> QED
    BY <1>9, <2>1, <2>4, <2>6, <2>8 DEF Reaches
<1>10. CASE l \in {"len", "rd", "wr"}
  <2>1. /\ l = "len" => i = Set("len", file.image) /\ m = "rd"
        /\ l = "rd" => i = Set("rd", RomImage) /\ m = "wr" /\ LenIs(file.image)
        /\ l = "wr" => i = Set("wr", 0) /\ m = "if" /\ LenIs(file.image) /\ RdIs(RomImage)
    BY <1>10 DEF Follows, At
  <2>2. i.op = l /\ i.op # "iflen" /\ m # "end" /\ (execs => s'.reg = l /\ s'.val = i.val)
    BY <2>1, <1>10 DEF Set
  <2>3. (l # "len" => dma'.len = file.image) /\ (l = "wr" => dma'.raddr = RomImage)
    BY <2>1, <1>5, <1>10
  <2>4. /\ l = "len" /\ execs => s'.val = file.image
        /\ l = "rd" /\ execs => s'.val = RomImage
        /\ l = "wr" /\ execs => s'.val = 0
    BY <2>1, <2>2 DEF Set
  <2>5. ~execs => At(l)'
    BY <1>2, <1>10, <2>3 DEF At, LenIs, RdIs
  <2>6. execs => At(m)'
    BY <1>2, <1>10, <2>1, <2>2, <2>3, <2>4 DEF At, LenIs, RdIs, WrIs
  <2> QED
    BY <2>2, <2>5, <2>6 DEF Reaches
<1>11. CASE l = "if"
  <2>1. i = I("iflen") /\ m = "arm"
    BY <1>11 DEF Follows
  <2>2. i.op = "iflen" /\ s' = None
    BY <2>1 DEF I, Controls
  <2>3. dma'.len = file.image /\ dma'.raddr = RomImage /\ dma'.waddr = 0 /\ dma.len = file.image
    BY <1>5, <1>11 DEF At, LenIs
  <2>4. LenIs(file.image)' /\ RdIs(RomImage)' /\ WrIs(0)'
    BY <1>2, <2>2, <2>3 DEF LenIs, RdIs, WrIs
  <2>5. At("if")'
    BY <2>2, <2>4 DEF At
  <2>6. dma.len # 0 => At("arm")'
    BY <2>2, <2>3, <2>4, <1>2 DEF At
  <2>7. dma.len = 0 => At(IF file.bss = 0 THEN "ready" ELSE "zero")'
    <3> SUFFICES ASSUME dma.len = 0 PROVE At(IF file.bss = 0 THEN "ready" ELSE "zero")'
      OBVIOUS
    <3>1. Imaged(file.image)'
      BY <1>2, <2>3 DEF Imaged
    <3>2. ImageOK'
      BY <1>2, <2>3, <3>1 DEF ImageOK
    <3> QED
      BY <1>2, <1>6, <2>2, <3>1, <3>2 DEF At
  <2> QED
    BY <1>11, <2>1, <2>2, <2>5, <2>6, <2>7 DEF Reaches
<1>12. CASE l \in {"arm", "copy"}
  <2>1. /\ l = "arm" => i = I("pic") /\ m = "copy"
        /\ l = "copy" => i = DMACCOPY /\ m = "copying" /\ ~pic
    BY <1>12 DEF Follows, At
  <2>2. /\ l = "arm" => i.op = "pic" /\ s' = None
        /\ l = "copy" => i.op = "DMACCOPY" /\ (execs => s'.reg = "DMACCOPY")
    BY <2>1 DEF I, DMACCOPY, Controls
  <2>3. dma'.len = file.image /\ dma'.raddr = RomImage /\ dma'.waddr = 0 /\ file.image > 0
    BY <1>5, <1>12 DEF At
  <2>4. LenIs(file.image)' /\ RdIs(RomImage)' /\ WrIs(0)'
    BY <1>2, <1>12, <2>2, <2>3 DEF LenIs, RdIs, WrIs
  <2>5. ~execs => At(l)'
    BY <1>2, <1>12, <2>1, <2>3, <2>4 DEF At
  <2>6. execs => At(m)'
    BY <1>2, <1>12, <2>1, <2>2, <2>3, <2>4 DEF At
  <2> QED
    BY <1>12, <2>1, <2>2, <2>5, <2>6 DEF Reaches
<1>13. CASE l \in {"zero", "arm2"}
  <2>1. /\ l = "zero" => i = I("zero") /\ m = "arm2"
        /\ l = "arm2" => i = I("pic") /\ m = "len2" /\ mem[StackWord] = Zero
    BY <1>13 DEF Follows, At
  <2>2. (l = "zero" => i.op = "zero") /\ (l = "arm2" => i.op = "pic") /\ s' = None
    BY <2>1, <1>13 DEF I, Controls
  <2>3. ImageOK'
    BY <1>2, <1>8, <1>13 DEF At
  <2>4. (execs \/ l = "arm2") => mem'[StackWord] = Zero
    BY <1>2, <1>13, <2>1, <2>2
  <2>5. ~execs => At(l)'
    BY <1>13, <2>2, <2>3, <2>4 DEF At
  <2>6. execs => At(m)'
    BY <1>13, <2>1, <2>2, <2>3, <2>4 DEF At
  <2> QED
    BY <1>13, <2>1, <2>2, <2>5, <2>6 DEF Reaches
<1>14. CASE l \in {"len2", "rd2", "wr2", "clear"}
  <2>1. /\ l = "len2" => i = Set("len", file.bss) /\ m = "rd2"
        /\ l = "rd2" => i = Set("rd", StackWord) /\ LenIs(file.bss)
                        /\ m = IF file.rom THEN "clear" ELSE "wr2"
        /\ l = "wr2" => i = Set("wr", file.image) /\ m = "clear" /\ ~file.rom /\ LenIs(file.bss) /\ RdIs(StackWord)
        /\ l = "clear" => i = CONSTSRC /\ m = "clearing" /\ LenIs(file.bss) /\ RdIs(StackWord)
                          /\ (~file.rom => WrIs(file.image))
        /\ ImageOK /\ mem[StackWord] = Zero /\ ~pic /\ (file.rom => s.reg # "wr")
    BY <1>14 DEF Follows, At
  <2>2. /\ i.op \in {"len", "rd", "wr", "DMA_CONSTSRC"}
        /\ (l = "len2" => i.op = "len" /\ i.val = file.bss) /\ (l = "rd2" => i.op = "rd" /\ i.val = StackWord)
        /\ (l = "wr2" => i.op = "wr" /\ i.val = file.image) /\ (l = "clear" => i.op = "DMA_CONSTSRC")
    BY <2>1, <1>14 DEF Set, I, CONSTSRC
  <2>3. execs => s'.reg = i.op /\ s'.val = i.val
    BY <2>2 DEF Controls
  <2>4. ImageOK' /\ mem'[StackWord] = Zero /\ ~pic'
    BY <1>2, <2>1, <2>2
  <2>5. /\ l \in {"rd2", "wr2", "clear"} => dma'.len = file.bss
        /\ l \in {"wr2", "clear"} => dma'.raddr = StackWord
        /\ l = "clear" /\ ~file.rom => dma'.waddr = file.image
    BY <1>5, <2>1
  <2>6. ~execs => At(l)'
    BY <1>2, <1>14, <2>4, <2>5 DEF At, LenIs, RdIs, WrIs
  <2>7. execs => At(m)'
    <3>1. CASE l = "len2"
      BY <3>1, <1>2, <2>1, <2>2, <2>3, <2>4, <2>5 DEF At, LenIs
    <3>2. CASE l = "rd2"
      BY <3>2, <1>2, <2>1, <2>2, <2>3, <2>4, <2>5 DEF At, LenIs, RdIs, WrIs
    <3>3. CASE l = "wr2"
      BY <3>3, <1>2, <2>1, <2>2, <2>3, <2>4, <2>5 DEF At, LenIs, RdIs, WrIs
    <3>4. CASE l = "clear"
      BY <3>4, <1>2, <2>1, <2>2, <2>3, <2>4, <2>5 DEF At, LenIs, RdIs, WrIs
    <3> QED
      BY <1>14, <3>1, <3>2, <3>3, <3>4
  <2> QED
    BY <1>14, <2>1, <2>2, <2>6, <2>7 DEF Reaches
<1>15. CASE l = "ready"
  <2>1. (i = I("pic") /\ m = "ready") \/ (i = I("main") /\ m = "end")
    BY <1>15 DEF Follows
  <2>2. i.op \in {"pic", "main"} /\ s' = None
    BY <2>1 DEF I, Controls
  <2>3. Done' /\ At("ready")'
    BY <1>2, <1>15, <2>2 DEF At, Done
  <2> QED
    BY <1>15, <2>1, <2>2, <2>3 DEF Reaches
<1> QED
  BY <1>9, <1>10, <1>11, <1>12, <1>13, <1>14, <1>15 DEF Calm

(* The wait for a transfer, from its start to its interrupt. *)
LEMMA BusyMove ==
    ASSUME RecordsOK, RomOK, NEW l \in {"copying", "clearing"}, NEW i, NEW m, Follows(file, l, i, m), At(l),
           NEW grant, NEW stall, NEW answer, NEW execs, Moves(i, execs), Turned(grant, stall, answer, FALSE)
    PROVE  Reaches(l, i, m, execs)
<1>1. /\ i = I("wait") /\ i.op = "wait" /\ i.op \notin {"iflen", "pic", "len", "rd", "wr"} \cup Controls
      /\ l = "copying" => file.rom /\ m = IF file.bss = 0 THEN "ready" ELSE "zero"
      /\ l = "clearing" => file.bss > 0 /\ m = "ready"
      /\ m # "end"
  BY DEF Follows, I, Controls
<1>2. s' = None /\ (pic' <=> pic \/ dma.interrupt) /\ (execs => pic) /\ execs \in BOOLEAN /\ None.reg = "none"
  BY <1>1 DEF Moves, None
<1>3. /\ file.image \in Nat /\ file.bss \in Nat /\ file.rom \in BOOLEAN /\ pic \in BOOLEAN
      /\ RecordsOK /\ count.errors \in Nat
  BY FileFacts DEF RecordsOK
<1>4. SUFFICES (~execs => At(l)') /\ (execs => At(m)')
  BY <1>1 DEF Reaches
<1>5. PICK stores \in BOOLEAN : ~stores /\ Turned(grant, stall, answer, stores)
  OBVIOUS
<1>6. CASE Quiet /\ s.reg \in {"DMACCOPY", "DMA_CONSTSRC"}
  <2>1. Still /\ ~dma.interrupt
    BY <1>6 DEF Quiet
  <2>2. /\ l = "copying" => s.reg = "DMACCOPY" /\ LenIs(file.image) /\ RdIs(RomImage) /\ WrIs(0) /\ file.image > 0 /\ ~pic
        /\ l = "clearing" => s.reg = "DMA_CONSTSRC" /\ ImageOK /\ mem[StackWord] = Zero /\ ~pic
                             /\ LenIs(file.bss) /\ RdIs(StackWord) /\ (~file.rom => WrIs(file.image))
    <3>1. ~(s = None)
      BY <1>2, <1>6
    <3> QED
      BY <3>1 DEF At, Finished
  <2>3. /\ l = "copying" => dma.len = file.image /\ dma.raddr = RomImage /\ dma.waddr = 0
        /\ l = "clearing" => dma.len = file.bss /\ dma.raddr = StackWord /\ dma.waddr \in Nat /\ dma.waddr <= file.image
                             /\ (count.errors = 0 => dma.waddr = file.image /\ Imaged(file.image))
    BY <1>3, <2>2 DEF LenIs, RdIs, WrIs, ImageOK
  <2>4. dma.len \in Nat \ {0} /\ dma.waddr \in Nat
    BY <1>1, <1>3, <2>2, <2>3
  <2>5. Moving' /\ dma'.incs = (s.reg = "DMACCOPY")
    BY <1>1, <1>3, <1>5, <1>6, <2>1, <2>2, <2>3, <2>4, StartStep
  <2>6. ~pic' /\ ~execs
    BY <1>2, <2>1, <2>2
  <2> QED
    BY <1>2, <2>2, <2>5, <2>6 DEF At
<1>7. CASE s = None /\ ~pic /\ Moving /\ dma.incs = (l = "copying")
  <2>1. Clocked(grant, stall, answer)
    BY DEF Turned, Clocked
  <2>2. /\ Moving' \/ Ended'
        /\ dma'.incs = dma.incs
    BY <1>7, <2>1, EngineStep
  <2>3. ~pic' /\ ~execs
    BY <1>2, <1>7 DEF Moving
  <2>4. file' = file
    BY DEF Turned
  <2>5. CASE Moving'
    BY <1>2, <1>7, <2>2, <2>3, <2>5 DEF At
  <2>6. CASE Ended'
    <3>1. Finished'
      BY <1>2, <2>3, <2>6 DEF Ended, Finished, Still
    <3>2. count'.errors = 0 => dma'.len = 0 /\ FarOK'
      BY <2>6 DEF Ended
    <3>3. l = "copying" => ImageOK'
      <4> SUFFICES ASSUME l = "copying" PROVE ImageOK'
        OBVIOUS
      <4>1. dma'.incs
        BY <1>7, <2>2
      <4>2. count'.errors = 0 => Imaged(file.image)'
        <5> SUFFICES ASSUME count'.errors = 0 PROVE Imaged(file.image)'
          OBVIOUS
        <5>1. Reached' + 0 = file'.image /\ Reached' \in Nat /\ Imaged(Reached)'
          BY <3>2, <4>1 DEF FarOK
        <5>2. Reached' = file'.image
          BY <5>1
        <5> QED
          BY <5>1, <5>2
      <4> QED
        BY <2>6, <4>1, <4>2 DEF Ended, ImageOK
    <3>4. l = "clearing" /\ count'.errors = 0 => Imaged(file.image)' /\ Cleared(file.image + file.bss)'
      <4> SUFFICES ASSUME l = "clearing", count'.errors = 0 PROVE Imaged(file.image)' /\ Cleared(file.image + file.bss)'
        OBVIOUS
      <4>1. ~dma'.incs
        BY <1>7, <2>2
      <4>2. Reached' + 0 = file'.image + file'.bss /\ Reached' \in Nat /\ Imaged(file.image)' /\ Cleared(Reached)'
        BY <3>2, <4>1 DEF FarOK
      <4>3. Reached' = file'.image + file'.bss
        BY <4>2
      <4> QED
        BY <4>2, <4>3
    <3> QED
      BY <2>3, <3>1, <3>3, <3>4 DEF At
  <2> QED
    BY <2>2, <2>5, <2>6
<1>8. CASE /\ Finished
           /\ l = "copying" => ImageOK
           /\ l = "clearing" => (count.errors = 0 => Imaged(file.image) /\ Cleared(file.image + file.bss))
  <2>1. Still /\ s.reg = "none" /\ (dma.interrupt <=> ~pic)
    BY <1>2, <1>8 DEF Finished
  <2>2. /\ out' = 0 /\ ~dma'.interrupt /\ dma'.state = "IDLE"
        /\ file' = file /\ count'.errors = count.errors
        /\ (Imaged(file.image) => Imaged(file.image)')
        /\ (Cleared(file.image + file.bss) => Cleared(file.image + file.bss)')
        /\ (ImageOK /\ (file.rom => s.reg # "wr") => ImageOK')
    BY <1>5, <2>1, StillTurn
  <2>3. Finished' /\ pic'
    BY <1>2, <1>3, <2>1, <2>2 DEF Finished, Still
  <2>4. l = "copying" => ImageOK'
    BY <1>8, <2>1, <2>2
  <2>5. l = "clearing" => (count'.errors = 0 => Imaged(file.image)' /\ Cleared(file.image + file.bss)')
    BY <1>8, <2>2
  <2>6. At(l)'
    BY <2>3, <2>4, <2>5 DEF At
  <2>7. Quiet'
    BY <2>2 DEF Quiet, Still
  <2>8. CASE l = "copying"
    <3>1. m = IF file'.bss = 0 THEN "ready" ELSE "zero"
      BY <1>1, <2>2, <2>8
    <3>2. file'.bss = 0 => (count'.errors = 0 => Imaged(file.image)' /\ Cleared(file.image + file.bss)')
      BY <1>3, <2>2, <2>4, <2>8 DEF ImageOK, Cleared
    <3> QED
      BY <1>2, <2>4, <2>6, <2>7, <2>8, <3>1, <3>2 DEF At
  <2>9. CASE l = "clearing"
    BY <1>1, <1>2, <2>5, <2>6, <2>7, <2>9 DEF At
  <2> QED
    BY <2>8, <2>9
<1> QED
  <2>1. CASE l = "copying"
    BY <2>1, <1>3, <1>6, <1>7, <1>8 DEF At, RecordsOK
  <2>2. CASE l = "clearing"
    BY <2>2, <1>3, <1>6, <1>7, <1>8 DEF At, RecordsOK
  <2> QED
    BY <2>1, <2>2

(* What the memory may show of the program's start. *)
Bounded == \A a \in Memory : mem'[a] # mem[a] => a < file.image + file.bss \/ a = StackWord

(* What can be told from an instruction of the bootloader. *)
LEMMA FollowsIs ==
    ASSUME NEW f \in Files, NEW l, NEW i, NEW m, Follows(f, l, i, m)
    PROVE  /\ l \in Calm \cup {"copying", "clearing"}
           /\ i.op \in {"pic", "len", "rd", "wr", "iflen", "wait", "zero", "main"} \cup Controls /\ i.val \in Int
           /\ (i.op = "main" <=> m = "end") /\ (i.op = "main" => l = "ready")
           /\ (i.op = "iflen" => l = "if")
           /\ (i.op = "zero" => l \in Calm)
<1>1. f.rom \in BOOLEAN /\ f.image \in Int /\ f.bss \in Int /\ RomImage \in Int /\ StackWord \in Int
  BY FileFacts
<1> USE DEF I, Set, DMACLEAR, DMACCOPY, CONSTSRC, Controls, Calm
<1>2. CASE l \in {"boot", "len", "rd", "wr", "if"}
  BY <1>1, <1>2 DEF Follows
<1>3. CASE l \in {"arm", "copy", "copying", "zero", "arm2"}
  BY <1>1, <1>3 DEF Follows
<1>4. CASE l \in {"len2", "rd2", "wr2", "clear", "clearing", "ready"}
  BY <1>1, <1>4 DEF Follows
<1>5. \/ l \in {"boot", "len", "rd", "wr", "if"} \/ l \in {"arm", "copy", "copying", "zero", "arm2"}
      \/ l \in {"len2", "rd2", "wr2", "clear", "clearing", "ready"}
  BY DEF Follows
<1> QED
  BY <1>2, <1>3, <1>4, <1>5

(* Where the bootloader is. *)
LEMMA BootFacts ==
    ASSUME RecordsOK, Booting
    PROVE  LET c == _start(file)
               l == Labels(file)[Place]
               m == Beyond(file, Place, 1)
           IN /\ cpu.todo # <<>> /\ Follows(file, l, Instr, m) /\ At(l)
              /\ \A k \in Nat \ {0} : Place + k <= Len(c) =>
                    /\ Place + k \in 1..Len(c) /\ Rest(k) = SubSeq(c, Place + k, Len(c))
                    /\ Len(c) + 1 - Len(Rest(k)) = Place + k /\ Rest(k) # cpu.todo
              /\ m # "end" => Place + 1 <= Len(c) /\ Labels(file)[Place + 1] = m
              /\ l = "if" => Place + 4 <= Len(c) /\ Labels(file)[Place + 4] = IF file.bss = 0 THEN "ready" ELSE "zero"
<1> DEFINE c == _start(file)
           p == Place
           l == Labels(file)[p]
           m == Beyond(file, p, 1)
<1>1. Flows(file, c)
  BY Flow DEF RecordsOK
<1>2. PICK S : c \in Seq(S)
  BY StartCode DEF RecordsOK
<1>3. p \in 1..Len(c) /\ cpu.todo = SubSeq(c, p, Len(c)) /\ At(l)
  BY DEF Booting
<1> HIDE DEF c, p
<1>4. Len(c) \in Nat
  BY <1>1 DEF Flows
<1>5. /\ cpu.todo # <<>> /\ Head(cpu.todo) = c[p] /\ Len(cpu.todo) = Len(c) + 1 - p
      /\ \A k \in Nat : p + k <= Len(c) => SubSeq(cpu.todo, k + 1, Len(cpu.todo)) = SubSeq(c, p + k, Len(c))
  <2>1. IsSuffix(cpu.todo, c, p)
    BY <1>2, <1>3, Suffix
  <2> QED
    BY <2>1 DEF IsSuffix
<1>6. Follows(file, l, Instr, m)
  BY <1>1, <1>3, <1>5 DEF Flows, Instr
<1>7. ASSUME NEW k \in Nat \ {0}, p + k <= Len(c)
      PROVE  /\ p + k \in 1..Len(c) /\ Rest(k) = SubSeq(c, p + k, Len(c))
             /\ Len(c) + 1 - Len(Rest(k)) = p + k /\ Rest(k) # cpu.todo
  <2>1. p + k \in 1..Len(c)
    BY <1>3, <1>4, <1>7
  <2>2. Rest(k) = SubSeq(c, p + k, Len(c))
    BY <1>5, <1>7 DEF Rest
  <2>3. Len(Rest(k)) = Len(c) + 1 - (p + k)
    BY <2>1, <2>2, <1>2, Suffix DEF IsSuffix
  <2>4. Len(Rest(k)) # Len(cpu.todo)
    BY <2>3, <1>3, <1>4, <1>5
  <2> QED
    BY <2>1, <2>2, <2>3, <2>4, <1>3, <1>4
<1>8. m # "end" => p + 1 <= Len(c) /\ Labels(file)[p + 1] = m
  BY <1>1, <1>3, <1>4 DEF Flows, Beyond
<1>9. l = "if" => p + 4 <= Len(c) /\ Labels(file)[p + 4] = IF file.bss = 0 THEN "ready" ELSE "zero"
  BY <1>1, <1>3 DEF Flows
<1> QED
  BY <1>3, <1>5, <1>6, <1>7, <1>8, <1>9 DEF c, p

(* The engine is idle, or in a transfer. *)
LEMMA Modes == ASSUME RecordsOK, ProgramOK PROVE Still \/ Moving
<1>1. CASE Leaving
  BY <1>1 DEF Leaving, Done, Quiet
<1>2. CASE Booting
  <2> DEFINE l == Labels(file)[Place]
  <2>1. At(l) /\ l \in Calm \cup {"copying", "clearing"}
    BY <1>2, BootFacts, FollowsIs DEF RecordsOK
  <2> HIDE DEF l
  <2>2. CASE l \in {"boot", "len", "rd", "wr", "if", "arm", "copy"}
    BY <2>1, <2>2 DEF At, Quiet
  <2>3. CASE l \in {"zero", "arm2", "len2", "rd2", "wr2", "ready"}
    BY <2>1, <2>3 DEF At, Quiet
  <2>4. CASE l \in {"clear", "copying", "clearing"}
    BY <2>1, <2>4 DEF At, Quiet, Finished
  <2> QED
    BY <2>1, <2>2, <2>3, <2>4 DEF Calm
<1> QED
  BY <1>1, <1>2 DEF ProgramOK

(* A clock of engine, bus and memory in either mode. *)
LEMMA TurnKeeps ==
    ASSUME RecordsOK, RomOK, Still \/ Moving, NEW grant, NEW stall, NEW answer, NEW stores \in BOOLEAN,
           Moving /\ ~Still => ~stores, Turned(grant, stall, answer, stores)
    PROVE  /\ BusOK' /\ DOMAIN dma'.dma_mem = Block /\ DOMAIN mem' = Memory /\ bus'.granted \in BOOLEAN
           /\ dma'.incs \in BOOLEAN /\ dma'.raddr \in Int /\ dma'.waddr \in Int /\ dma'.len \in Int
           /\ RomOK' /\ Bounded
<1>1. bus'.granted \in BOOLEAN
  <2>1. bus' = BusAfter(grant, stall, answer) /\ grant \in BOOLEAN
    BY DEF Turned, Transfer
  <2> QED
    BY <2>1 DEF BusAfter, NoCycle
<1>2. CASE Still
  BY <1>1, <1>2, StillTurn DEF Bounded, RecordsOK
<1>3. CASE ~Still
  <2>1. Moving /\ Clocked(grant, stall, answer)
    BY <1>3 DEF Turned, Clocked
  <2> QED
    BY <1>1, <2>1, EngineStep DEF Bounded, RecordsOK
<1> QED
  BY <1>2, <1>3

(* The records that the clock's parts make. *)
LEMMA Tick ==
    ASSUME RecordsOK, sim.at = "run", sim_clk_tick
    PROVE  sim'.at \in {"run", "bombed"} /\ sim' = [at |-> sim'.at, bombed |-> sim'.bombed, status |-> sim'.status]
<1>1. sim = [at |-> sim.at, bombed |-> sim.bombed, status |-> sim.status]
  BY DEF RecordsOK
<1>2. \/ sim' = [sim EXCEPT !.at = "bombed", !.status = 0] \/ sim' = [sim EXCEPT !.bombed = @ + 1] \/ sim' = sim
  BY DEF sim_clk_tick
<1> QED
  BY <1>1, <1>2

(* An instruction retired leaves the program as it was. *)
LEMMA RetiredIs == ASSUME IsCpu(cpu) PROVE IsCpu(Retired) /\ Retired.todo = cpu.todo
  BY DEF Retired, IsCpu

(* A clock of the ZipSystem keeps its registers, and without a command to reset the program counter. *)
LEMMA ZsClockIs ==
    LET z == ZsClock(zs)
    IN /\ z = [hold |-> z.hold, counter |-> z.counter, cmd_reset |-> z.cmd_reset,
               cmd_halt |-> z.cmd_halt, cpu_halt |-> z.cpu_halt, pc |-> z.pc]
       /\ ~zs.cmd_reset => z.pc = zs.pc
  BY DEF ZsClock

(* What runs where main should be is main or not. *)
Mains == Main \/ Astray

(* A clock of the CPU is an instruction or none. *)
LEMMA CpuClockIs ==
    ASSUME RecordsOK, sim.at = "run", NEW executes \in BOOLEAN,
           IF executes THEN CpuClock ELSE Idle /\ sim_clk_tick
    PROVE  /\ IsCpu(cpu') /\ pic' \in BOOLEAN
           /\ sim' = [at |-> sim'.at, bombed |-> sim'.bombed, status |-> sim'.status] /\ sim'.at # "poke"
           /\ ~executes => cpu'.todo = cpu.todo /\ s' = None /\ (pic' <=> pic \/ dma.interrupt)
           /\ executes => cpu.todo # <<>>
           /\ executes => \/ Mains
                          \/ Execute
                          \/ Instr.op = "nexit" /\ cpu'.todo = cpu.todo /\ s' = None /\ pic' = pic
<1>1. IsCpu(cpu) /\ pic \in BOOLEAN /\ IsCpu(Retired) /\ Retired.todo = cpu.todo
      /\ sim = [at |-> sim.at, bombed |-> sim.bombed, status |-> sim.status]
  BY RetiredIs DEF RecordsOK
<1>2. CASE ~executes
  <2>1. Idle /\ sim_clk_tick
    BY <1>2
  <2>2. cpu' = Retired /\ s' = None /\ pic' = (pic \/ dma.interrupt)
    BY <2>1 DEF Idle
  <2>3. sim' = [at |-> sim'.at, bombed |-> sim'.bombed, status |-> sim'.status] /\ sim'.at # "poke"
    BY <2>1, Tick
  <2> QED
    BY <1>1, <1>2, <2>2, <2>3
<1>3. CASE executes
  <2>1. cpu.todo # <<>> /\ ((((Main /\ Whole) \/ Execute) /\ sim_clk_tick) \/ Astray \/ execsim)
    BY <1>3 DEF CpuClock, Program
  <2>2. CASE Main /\ sim_clk_tick
    <3>1. PICK w, user :
            /\ cpu' = IF Result(w) = Trap
                      THEN [Retired EXCEPT !.todo = <<>>, !.broken = TRUE]
                      ELSE [Retired EXCEPT !.todo = _exit, !.user = user, !.wr = Low(Result(w))]
            /\ pic' = (pic \/ dma.interrupt)
      BY <2>2 DEF Main
    <3>2. IsCpu(cpu')
      <4> DEFINE r == Retired
      <4>1. IsCpu(r)
        BY <1>1
      <4> HIDE DEF r
      <4>2. IsCpu([r EXCEPT !.todo = <<>>, !.broken = TRUE])
        BY <4>1 DEF IsCpu
      <4>3. IsCpu([r EXCEPT !.todo = _exit, !.user = user, !.wr = Low(Result(w))])
        BY <4>1 DEF IsCpu
      <4> QED
        BY <3>1, <4>2, <4>3 DEF r
    <3> QED
      BY <2>1, <2>2, <3>1, <3>2, <1>3, Tick DEF Mains
  <2>3. CASE Execute /\ sim_clk_tick
    <3>1. PICK n : /\ cpu' = [Retired EXCEPT !.todo = Rest(n), !.wr = Writes]
                   /\ pic' = ((pic /\ Instr.op # "pic") \/ dma.interrupt)
      BY <2>3 DEF Execute
    <3>2. IsCpu(cpu')
      <4> DEFINE r == Retired
      <4>1. IsCpu(r)
        BY <1>1
      <4> HIDE DEF r
      <4>2. IsCpu([r EXCEPT !.todo = Rest(n), !.wr = Writes])
        BY <4>1 DEF IsCpu
      <4> QED
        BY <3>1, <4>2 DEF r
    <3> QED
      BY <2>1, <2>3, <3>1, <3>2, <1>3, Tick
  <2>4. CASE execsim
    <3>1. Instr.op = "nexit" /\ cpu' = Retired /\ s' = None /\ pic' = pic
          /\ sim' = [sim EXCEPT !.at = "exited", !.status = ExitCode]
      BY <2>4 DEF execsim
    <3>2. sim' = [at |-> sim'.at, bombed |-> sim'.bombed, status |-> sim'.status] /\ sim'.at # "poke"
      BY <1>1, <3>1
    <3> QED
      BY <1>1, <1>3, <2>1, <3>1, <3>2
  <2>5. CASE Astray
    <3>1. /\ cpu' = [Retired EXCEPT !.todo = <<>>] /\ pic' = (pic \/ dma.interrupt)
          /\ sim' = [sim EXCEPT !.at = "astray"]
      BY <2>5 DEF Astray
    <3>2. IsCpu(cpu')
      <4> DEFINE r == Retired
      <4>1. IsCpu(r)
        BY <1>1
      <4> HIDE DEF r
      <4>2. IsCpu([r EXCEPT !.todo = <<>>])
        BY <4>1 DEF IsCpu
      <4> QED
        BY <3>1, <4>2 DEF r
    <3>3. sim' = [at |-> sim'.at, bombed |-> sim'.bombed, status |-> sim'.status] /\ sim'.at # "poke"
      BY <1>1, <3>1
    <3> QED
      BY <2>1, <2>5, <3>1, <3>2, <3>3, <1>1, <1>3 DEF Mains
  <2> QED
    BY <2>1, <2>2, <2>3, <2>4, <2>5
<1> QED
  BY <1>2, <1>3

(* A clock is a turn of the engine. *)
LEMMA ClockTurns ==
    ASSUME RecordsOK, NEW grant \in Grants, NEW stall \in Stalls, NEW answer \in Answers, NEW executes,
           Clock(grant, stall, answer, executes), NEW stores \in BOOLEAN, stores <=> Stores
    PROVE  Turned(grant, stall, answer, stores)
<1>1. grant \in BOOLEAN /\ (bus.granted => grant)
  BY DEF Grants, RecordsOK
<1>2. Transfer(grant, stall, answer) /\ file' = file
      /\ count' = IF answer = "err" THEN [count EXCEPT !.errors = @ + 1] ELSE count
  BY DEF Clock
<1>3. count'.errors = (IF answer = "err" THEN count.errors + 1 ELSE count.errors)
  <2>1. count = [resets |-> count.resets, errors |-> count.errors]
    BY DEF RecordsOK
  <2> QED
    BY <1>2, <2>1
<1>4. \E m \in Written(answer) : mem' = IF stores THEN [m EXCEPT ![StackWord] = Zero] ELSE m
  <2>1. \E m \in Written(answer) : mem' = IF Stores THEN [m EXCEPT ![StackWord] = Zero] ELSE m
    BY DEF Clock
  <2> QED
    BY <2>1
<1> QED
  BY <1>1, <1>2, <1>3, <1>4 DEF Turned

(* The bootloader on a clock. *)
LEMMA BootStep ==
    ASSUME RecordsOK, RomOK, Booting, NEW grant, NEW stall, NEW answer, NEW execs, Moves(Instr, execs),
           NEW stores \in BOOLEAN, stores <=> (execs /\ Instr.op = "zero"), Turned(grant, stall, answer, stores),
           zs'.pc = zs.pc, sim'.at # "poke",
           ~execs => cpu'.todo = cpu.todo,
           execs /\ Instr.op # "main" => cpu'.todo = Rest(IF Instr.op = "iflen" /\ dma.len = 0 THEN 4 ELSE 1),
           execs /\ Instr.op = "main" => cpu'.todo = <<>> \/ cpu'.todo = _exit
    PROVE  ProgramOK'
<1>1. PICK c, p, l, i, m :
         /\ c = _start(file) /\ p = Place /\ l = Labels(file)[Place] /\ i = Instr /\ m = Beyond(file, Place, 1)
  OBVIOUS
<1>2. /\ Follows(file, l, i, m) /\ At(l)
      /\ \A k \in Nat \ {0} : p + k <= Len(c) =>
            /\ p + k \in 1..Len(c) /\ Rest(k) = SubSeq(c, p + k, Len(c))
            /\ Len(c) + 1 - Len(Rest(k)) = p + k
      /\ m # "end" => p + 1 <= Len(c) /\ Labels(file)[p + 1] = m
      /\ l = "if" => p + 4 <= Len(c) /\ Labels(file)[p + 4] = IF file.bss = 0 THEN "ready" ELSE "zero"
  BY <1>1, BootFacts
<1>3. /\ l \in Calm \cup {"copying", "clearing"}
      /\ (i.op = "main" <=> m = "end") /\ (i.op = "iflen" => l = "if") /\ (i.op = "zero" => l \in Calm)
  BY <1>2, FollowsIs DEF RecordsOK
<1>4. /\ p \in 1..Len(c) /\ cpu.todo = SubSeq(c, p, Len(c)) /\ zs'.pc = Trap
      /\ file' = file /\ execs \in BOOLEAN /\ Moves(i, execs)
  BY <1>1 DEF Booting, Turned, Moves
<1>5. p = Len(c) + 1 - Len(cpu.todo) /\ Place' = Len(c) + 1 - Len(cpu'.todo)
  BY <1>1, <1>4 DEF Place
<1>6. Reaches(l, i, m, execs)
  <2>1. CASE l \in Calm
    BY <2>1, <1>1, <1>2, <1>4, CalmMove
  <2>2. CASE l \in {"copying", "clearing"}
    <3>1. ~stores /\ ("copying" \notin Calm) /\ ("clearing" \notin Calm)
      BY <2>2, <1>1, <1>3 DEF Calm
    <3>2. Turned(grant, stall, answer, FALSE)
      BY <3>1 DEF Turned
    <3> QED
      BY <2>2, <3>2, <1>2, <1>4, BusyMove
  <2> QED
    BY <1>3, <2>1, <2>2
<1>7. ASSUME NEW q \in 1..Len(c), cpu'.todo = SubSeq(c, q, Len(c)), Place' = q,
             NEW n, n = Labels(file')[q], At(n)'
      PROVE  ProgramOK'
  <2>1. Place' \in 1..Len(_start(file')) /\ cpu'.todo = SubSeq(_start(file'), Place', Len(_start(file')))
    BY <1>1, <1>4, <1>7
  <2>2. At(Labels(file)[Place])'
    BY <1>7
  <2>3. Booting'
    BY <1>4, <2>1, <2>2 DEF Booting
  <2> QED
    BY <2>3 DEF ProgramOK
<1>8. CASE ~execs
  <2>1. Place' = p /\ cpu'.todo = cpu.todo
    BY <1>5, <1>8
  <2>2. At(l)' /\ l = Labels(file')[p]
    BY <1>1, <1>4, <1>6, <1>8 DEF Reaches
  <2> QED
    BY <1>4, <1>7, <2>1, <2>2
<1>9. CASE execs /\ i.op # "main"
  <2>1. PICK far : far = IF Instr.op = "iflen" /\ dma.len = 0 THEN 4 ELSE 1
    OBVIOUS
  <2>2. far \in Nat \ {0} /\ p + far <= Len(c) /\ cpu'.todo = Rest(far)
    BY <1>1, <1>2, <1>3, <1>9, <2>1
  <2>3. p + far \in 1..Len(c) /\ cpu'.todo = SubSeq(c, p + far, Len(c)) /\ Place' = p + far
    BY <1>2, <1>5, <2>2
  <2>4. PICK n : n = Labels(file')[p + far]
    OBVIOUS
  <2>5. At(n)'
    <3>1. CASE i.op = "iflen" /\ dma.len = 0
      <4>1. At(IF file.bss = 0 THEN "ready" ELSE "zero")' /\ far = 4
        BY <1>1, <1>6, <1>9, <2>1, <3>1 DEF Reaches
      <4>2. n = IF file'.bss = 0 THEN "ready" ELSE "zero"
        BY <1>2, <1>3, <1>4, <2>4, <3>1, <4>1
      <4> QED
        BY <4>1, <4>2
    <3>2. CASE ~(i.op = "iflen" /\ dma.len = 0)
      <4>1. At(m)' /\ far = 1 /\ m # "end"
        BY <1>1, <1>3, <1>6, <1>9, <2>1, <3>2 DEF Reaches
      <4>2. n = m
        BY <1>2, <1>4, <2>4, <4>1
      <4> QED
        BY <4>1, <4>2
    <3> QED
      BY <3>1, <3>2
  <2> QED
    BY <1>7, <2>3, <2>4, <2>5
<1>10. CASE execs /\ i.op = "main"
  <2>1. Done'
    BY <1>3, <1>6, <1>10 DEF Reaches
  <2>2. /\ \A j \in 1..Len(cpu'.todo) : cpu'.todo[j].op \in {"outbyte", "flush", "rcode", "nexit"}
        /\ Len(cpu'.todo) \in Nat /\ cpu'.todo = [j \in 1..Len(cpu'.todo) |-> cpu'.todo[j]]
    <3>1. CASE cpu'.todo = <<>>
      BY <3>1
    <3>2. CASE cpu'.todo = _exit
      BY <3>2 DEF _exit, I
    <3> QED
      BY <1>1, <1>10, <3>1, <3>2
  <2>3. Leaving'
    BY <1>4, <2>1, <2>2 DEF Leaving
  <2> QED
    BY <2>3 DEF ProgramOK
<1> QED
  BY <1>4, <1>8, <1>9, <1>10

(* A tail of what comes after main. *)
LEMMA ExitTail ==
    ASSUME NEW t, NEW S, Len(t) \in Nat, t = [i \in 1..Len(t) |-> t[i]], t # <<>>, \A i \in 1..Len(t) : t[i].op \in S
    PROVE  /\ Head(t).op \in S
           /\ LET u == SubSeq(t, 2, Len(t))
              IN /\ \A i \in 1..Len(u) : u[i].op \in S
                 /\ Len(u) \in Nat /\ u = [i \in 1..Len(u) |-> u[i]]
<1> DEFINE R == {t[i] : i \in 1..Len(t)}
           u == SubSeq(t, 2, Len(t))
<1>1. t \in Seq(R)
  BY IsSeq
<1>2. Len(t) > 0
  <2>1. CASE Len(t) = 0
    BY <1>1, <2>1
  <2> QED
    BY <2>1
<1>3. Head(t) = t[1]
  BY <1>1, <1>2
<1>4. \A i \in 2..Len(t) : t[i] \in R
  BY <1>2
<1> HIDE DEF R
<1>5. u \in Seq(R) /\ Len(u) = Len(t) - 1 /\ \A i \in 1..(Len(t) - 1) : u[i] = t[i + 1]
  <2>1. /\ u \in Seq(R) /\ Len(u) = (IF 2 <= Len(t) THEN Len(t) - 2 + 1 ELSE 0)
        /\ \A i \in 1..(Len(t) - 2 + 1) : u[i] = t[2 + i - 1]
    BY <1>4, SubSeqProperties
  <2> QED
    BY <1>2, <2>1
<1> HIDE DEF u
<1>6. \A i \in 1..Len(u) : u[i].op \in S
  BY <1>2, <1>5
<1>7. Len(u) \in Nat /\ u = [i \in 1..Len(u) |-> u[i]]
  BY <1>5
<1> QED
  BY <1>2, <1>3, <1>6, <1>7 DEF u

(* What is left of RecordsOK when the engine's part is known. *)
LEMMA StillRecords ==
    ASSUME RecordsOK, IsCpu(cpu'), pic' \in BOOLEAN, file' = file,
           zs' = [hold |-> zs'.hold, counter |-> zs'.counter, cmd_reset |-> zs'.cmd_reset,
                  cmd_halt |-> zs'.cmd_halt, cpu_halt |-> zs'.cpu_halt, pc |-> zs'.pc],
           sim' = [at |-> sim'.at, bombed |-> sim'.bombed, status |-> sim'.status],
           count' = [resets |-> count'.resets, errors |-> count'.errors], count'.errors \in Nat, s'.val \in Int,
           BusOK', DOMAIN dma'.dma_mem = Block, DOMAIN mem' = Memory, bus'.granted \in BOOLEAN,
           dma'.incs \in BOOLEAN, dma'.raddr \in Int, dma'.waddr \in Int, dma'.len \in Int
    PROVE  RecordsOK'
  BY DEF RecordsOK

(* A clock of the whole. *)
LEMMA ClockStep ==
    ASSUME RecordsOK, RomOK, ProgramOK, NEW grant \in Grants, NEW stall \in Stalls, NEW answer \in Answers,
           NEW executes \in BOOLEAN, Clock(grant, stall, answer, executes)
    PROVE  RecordsOK' /\ RomOK' /\ ProgramOK' /\ Bounded
<1>1. /\ sim.at = "run" /\ ~zs.cmd_reset /\ ~Fetches /\ zs' = ZsClock(zs) /\ file' = file
      /\ IF executes THEN CpuClock ELSE Idle /\ sim_clk_tick
      /\ count' = IF answer = "err" THEN [count EXCEPT !.errors = @ + 1] ELSE count
  BY DEF Clock
<1>2. /\ IsCpu(cpu') /\ pic' \in BOOLEAN
      /\ sim' = [at |-> sim'.at, bombed |-> sim'.bombed, status |-> sim'.status] /\ sim'.at # "poke"
      /\ ~executes => cpu'.todo = cpu.todo /\ s' = None /\ (pic' <=> pic \/ dma.interrupt)
      /\ executes => cpu.todo # <<>>
      /\ executes => \/ Mains
                     \/ Execute
                     \/ Instr.op = "nexit" /\ cpu'.todo = cpu.todo /\ s' = None /\ pic' = pic
  BY <1>1, CpuClockIs
<1>3. /\ zs' = [hold |-> zs'.hold, counter |-> zs'.counter, cmd_reset |-> zs'.cmd_reset,
                cmd_halt |-> zs'.cmd_halt, cpu_halt |-> zs'.cpu_halt, pc |-> zs'.pc]
      /\ zs'.pc = zs.pc
  BY <1>1, ZsClockIs
<1>4. count' = [resets |-> count'.resets, errors |-> count'.errors] /\ count'.errors \in Nat
  <2>1. count = [resets |-> count.resets, errors |-> count.errors] /\ count.errors \in Nat
    BY DEF RecordsOK
  <2> QED
    BY <1>1, <2>1
<1>5. PICK stores \in BOOLEAN : stores <=> Stores
  OBVIOUS
<1>6. Turned(grant, stall, answer, stores)
  BY <1>5, ClockTurns
<1>7. Still \/ Moving
  BY Modes
<1>8. ASSUME Moving /\ ~Still => ~stores, s'.val \in Int
      PROVE  RecordsOK' /\ RomOK' /\ Bounded
  <2>1. /\ BusOK' /\ DOMAIN dma'.dma_mem = Block /\ DOMAIN mem' = Memory /\ bus'.granted \in BOOLEAN
        /\ dma'.incs \in BOOLEAN /\ dma'.raddr \in Int /\ dma'.waddr \in Int /\ dma'.len \in Int
        /\ RomOK' /\ Bounded
    BY <1>6, <1>7, <1>8, TurnKeeps
  <2> QED
    BY <1>1, <1>2, <1>3, <1>4, <1>8, <2>1, StillRecords
<1>9. Execute => /\ Instr.op \notin {"main", "nexit"} /\ Moves(Instr, TRUE)
                 /\ cpu'.todo = Rest(IF Instr.op = "iflen" /\ dma.len = 0 THEN 4 ELSE 1)
  <2> SUFFICES ASSUME Execute
               PROVE  /\ Instr.op \notin {"main", "nexit"} /\ Moves(Instr, TRUE)
                      /\ cpu'.todo = Rest(IF Instr.op = "iflen" /\ dma.len = 0 THEN 4 ELSE 1)
    OBVIOUS
  <2>1. /\ Instr.op \notin {"main", "nexit"} /\ (Instr.op = "wait" => pic)
        /\ s' = IF Instr.op \in {"len", "rd", "wr"} \cup Controls THEN [reg |-> Instr.op, val |-> Instr.val] ELSE None
        /\ pic' = ((pic /\ Instr.op # "pic") \/ dma.interrupt)
    BY DEF Execute
  <2>2. Moves(Instr, TRUE)
    BY <2>1 DEF Moves
  <2>3. IsCpu(Retired)
    BY RetiredIs DEF RecordsOK
  <2>4. PICK n : n = Rest(IF Instr.op = "iflen" /\ dma.len = 0 THEN 4 ELSE 1) /\ cpu' = [Retired EXCEPT !.todo = n, !.wr = Writes]
    BY DEF Execute
  <2>5. cpu'.todo = n
    BY <2>3, <2>4 DEF IsCpu
  <2> QED
    BY <2>1, <2>2, <2>4, <2>5
<1>10. Mains => /\ Instr.op = "main" /\ s' = None /\ (pic' <=> pic \/ dma.interrupt)
                /\ cpu'.todo = <<>> \/ cpu'.todo = _exit
  <2>1. CASE Main
    <3>1. PICK w, user :
            cpu' = IF Result(w) = Trap
                   THEN [Retired EXCEPT !.todo = <<>>, !.broken = TRUE]
                   ELSE [Retired EXCEPT !.todo = _exit, !.user = user, !.wr = Low(Result(w))]
      BY <2>1 DEF Main
    <3>2. IsCpu(Retired)
      BY RetiredIs DEF RecordsOK
    <3>3. cpu'.todo = <<>> \/ cpu'.todo = _exit
      BY <3>1, <3>2 DEF IsCpu
    <3> QED
      BY <2>1, <3>3 DEF Main
  <2>2. CASE Astray
    <3>1. cpu' = [Retired EXCEPT !.todo = <<>>]
      BY <2>2 DEF Astray
    <3>2. IsCpu(Retired)
      BY RetiredIs DEF RecordsOK
    <3>3. cpu'.todo = <<>>
      BY <3>1, <3>2 DEF IsCpu
    <3> QED
      BY <2>2, <3>3 DEF Astray
  <2> QED
    BY <2>1, <2>2 DEF Mains
<1>11. ~executes => Moves(Instr, FALSE) /\ ~stores
  BY <1>2, <1>5 DEF Moves, Stores, RecordsOK
<1>12. CASE Booting
  <2>1. /\ cpu.todo # <<>> /\ Follows(file, Labels(file)[Place], Instr, Beyond(file, Place, 1)) /\ At(Labels(file)[Place])
        /\ \A k \in Nat \ {0} : Place + k <= Len(_start(file)) => Rest(k) # cpu.todo
        /\ Beyond(file, Place, 1) # "end" => Place + 1 <= Len(_start(file))
    BY <1>12, BootFacts
  <2>2. /\ Instr.op \in {"pic", "len", "rd", "wr", "iflen", "wait", "zero", "main"} \cup Controls /\ Instr.val \in Int
        /\ (Instr.op = "main" <=> Beyond(file, Place, 1) = "end")
        /\ (Instr.op = "zero" => Labels(file)[Place] \in Calm)
    BY <2>1, FollowsIs DEF RecordsOK
  <2>3. executes => Mains \/ Execute
    BY <1>2, <2>2 DEF Controls
  <2>4. executes => Moves(Instr, TRUE)
    <3>1. Mains => Moves(Instr, TRUE)
      BY <1>2, <1>10 DEF Moves, Controls, RecordsOK
    <3> QED
      BY <1>9, <2>3, <3>1
  <2>5. stores <=> (executes /\ Instr.op = "zero")
    <3>1. CASE ~executes
      BY <3>1, <1>11
    <3>2. CASE executes /\ Instr.op # "zero"
      BY <3>2, <1>5 DEF Stores
    <3>3. CASE executes /\ Instr.op = "zero"
      <4>1. Execute
        BY <3>3, <2>3, <1>10
      <4>2. cpu'.todo = Rest(1) /\ Place + 1 <= Len(_start(file))
        BY <4>1, <3>3, <1>9, <2>1, <2>2
      <4>3. cpu'.todo # cpu.todo
        BY <4>2, <2>1
      <4> QED
        BY <3>3, <4>3, <2>1, <1>5 DEF Stores
    <3> QED
      BY <3>1, <3>2, <3>3
  <2>6. Moves(Instr, executes)
    BY <1>11, <2>4
  <2>7. ProgramOK'
    BY <1>2, <1>3, <1>6, <1>9, <1>10, <1>12, <2>3, <2>5, <2>6, BootStep
  <2>8. Instr.op = "zero" => Still
    <3>1. CASE Labels(file)[Place] = "zero"
      BY <3>1, <2>1 DEF At, Quiet
    <3>2. CASE Instr.op = "zero" /\ Labels(file)[Place] # "zero"
      BY <3>2, <2>1 DEF Follows, I, Set, DMACLEAR, DMACCOPY, CONSTSRC
    <3> QED
      BY <3>1, <3>2
  <2>9. s'.val \in Int
    BY <2>2, <2>6 DEF Moves, None
  <2> QED
    BY <1>8, <2>5, <2>7, <2>8, <2>9
<1>13. CASE Leaving
  <2> DEFINE Ops == {"outbyte", "flush", "rcode", "nexit"}
  <2>1. /\ \A i \in 1..Len(cpu.todo) : cpu.todo[i].op \in Ops
        /\ Len(cpu.todo) \in Nat /\ cpu.todo = [i \in 1..Len(cpu.todo) |-> cpu.todo[i]]
        /\ Done /\ ((sim.at = "poke" \/ zs.pc # Trap) => cpu.todo = <<>>)
    BY <1>13 DEF Leaving
  <2>2. cpu.todo # <<>> =>
          /\ Instr.op \in Ops
          /\ \A i \in 1..Len(Rest(1)) : Rest(1)[i].op \in Ops
          /\ Len(Rest(1)) \in Nat /\ Rest(1) = [i \in 1..Len(Rest(1)) |-> Rest(1)[i]]
    <3> DEFINE t == cpu.todo
               u == SubSeq(t, 2, Len(t))
    <3> SUFFICES ASSUME t # <<>>
                 PROVE  /\ Head(t).op \in Ops /\ \A i \in 1..Len(u) : u[i].op \in Ops
                        /\ Len(u) \in Nat /\ u = [i \in 1..Len(u) |-> u[i]]
      BY DEF Instr, Rest
    <3> HIDE DEF Ops
    <3> QED
      BY <2>1, ExitTail
  <2>3. executes => Execute \/ (cpu'.todo = cpu.todo /\ s' = None)
    BY <1>2, <1>10, <2>2
  <2>4. Instr.op \in Ops => Instr.op \notin {"len", "rd", "wr", "iflen", "zero"} \cup Controls
    BY DEF Controls
  <2>5. /\ s' = None
        /\ cpu'.todo = cpu.todo \/ (cpu.todo # <<>> /\ cpu'.todo = Rest(1))
    <3>1. CASE ~executes
      BY <3>1, <1>2
    <3>2. CASE executes /\ Execute
      BY <3>2, <1>2, <1>9, <2>2, <2>4 DEF Moves
    <3> QED
      BY <3>1, <3>2, <2>3
  <2>6. ~stores
    BY <1>5, <2>2, <2>4 DEF Stores
  <2>7. Still /\ s.reg = "none" /\ s'.val \in Int
    BY <2>1, <2>5 DEF Done, Quiet, None
  <2>8. Done'
    <3>1. /\ out' = 0 /\ ~dma'.interrupt /\ dma'.state = "IDLE"
      BY <1>6, <2>7, StillTurn
    <3> QED
      BY <2>5, <3>1 DEF Done, Quiet, Still
  <2>9. Leaving'
    <3>1. /\ \A i \in 1..Len(cpu'.todo) : cpu'.todo[i].op \in Ops
          /\ Len(cpu'.todo) \in Nat /\ cpu'.todo = [i \in 1..Len(cpu'.todo) |-> cpu'.todo[i]]
      BY <2>1, <2>2, <2>5
    <3> QED
      BY <1>2, <1>3, <2>1, <2>5, <2>8, <3>1 DEF Leaving
  <2> QED
    BY <1>8, <2>6, <2>7, <2>9 DEF ProgramOK
<1> QED
  BY <1>12, <1>13 DEF ProgramOK

(* Where the requests of a transfer write to. *)
LEMMA WriteRange ==
    ASSUME RecordsOK, Moving
    PROVE  \A i \in 1..out : reqs[i].we =>
              reqs[i].addr \in Int /\ reqs[i].addr >= Reached /\ reqs[i].addr < file.image + file.bss
<1>1. /\ out \in Nat /\ file.image \in Nat /\ file.bss \in Nat /\ B \in Nat
  BY FileFacts, Sizes DEF RecordsOK, BusOK
<1>2. dma.len \in Nat \ {0} /\ dma.waddr \in Nat /\ FarOK
  BY DEF Moving
<1>3. Reached \in Nat /\ Reached + dma.len <= file.image + file.bss
  BY <1>1, <1>2 DEF FarOK
<1>4. CASE WritesBlock
  <2>1. /\ dma.nwacks \in Nat /\ dma.nwritten = dma.nwacks + out
        /\ dma.nread = Smaller(dma.len + dma.nwacks, B)
        /\ \/ dma.state = "WRITE_REQ" /\ dma.nwritten < dma.nread
           \/ dma.state = "WRITE_ACK" /\ dma.nwritten = dma.nread
        /\ \A i \in 1..out : reqs[i].addr = dma.waddr - out + i - 1
    BY <1>4 DEF WritesBlock
  <2>2. dma.nread <= dma.len + dma.nwacks /\ dma.nread \in Nat
    BY <2>1, <1>1, <1>2 DEF Smaller
  <2>3. out <= dma.len
    BY <2>1, <2>2, <1>1, <1>2
  <2>4. Reached = dma.waddr - out
    BY <2>1 DEF Reached, We
  <2> QED
    BY <2>1, <2>3, <2>4, <1>1, <1>2, <1>3
<1>5. CASE ~WritesBlock
  <2>1. Reads \/ out = 0
    BY <1>5 DEF Moving
  <2> QED
    BY <2>1, <1>1 DEF Reads
<1> QED
  BY <1>4, <1>5

(* A reset drops what the engine does. *)
LEMMA ResetStep ==
    ASSUME RecordsOK, RomOK, ProgramOK, InReset
    PROVE  RecordsOK' /\ RomOK' /\ ProgramOK' /\ Bounded
<1>1. /\ sim.at = "run" /\ zs' = ZsClock(zs) /\ dma' = DmaReset(dma) /\ s' = None /\ bus' = NoCycle /\ mem' \in Aborted
      /\ cpu' = [cpu EXCEPT !.todo = <<>>, !.user = FALSE, !.wr = Trap, !.broken = FALSE]
      /\ pic' = FALSE /\ sim_clk_tick /\ file' = file /\ count' = count
  BY DEF InReset
<1>2. /\ BusOK /\ out \in Nat /\ DOMAIN mem = Memory /\ file \in Files /\ count.errors \in Nat
      /\ count = [resets |-> count.resets, errors |-> count.errors] /\ DOMAIN dma.dma_mem = Block
      /\ dma.raddr \in Int /\ dma.waddr \in Int /\ IsCpu(cpu)
  BY DEF RecordsOK, BusOK
<1>3. /\ DOMAIN mem' = Memory
      /\ \A a \in Memory :
            \/ mem'[a] = mem[a]
            \/ \E i \in 1..out : reqs[i].we /\ reqs[i].addr = a
  BY <1>1, <1>2, AbortedIs
<1> USE <1>1, <1>2
<1>5. ASSUME NEW a \in Memory, mem'[a] # mem[a]
      PROVE  Moving /\ a >= Reached /\ a < file.image + file.bss
  <2>1. PICK i \in 1..out : reqs[i].we /\ reqs[i].addr = a
    BY <1>3, <1>5
  <2>2. ~Still
    BY <2>1 DEF Still
  <2>3. Moving
    BY <2>2, Modes
  <2> QED
    BY <2>1, <2>3, WriteRange
<1>6. ~file.rom /\ count'.errors = 0 => Imaged(file.image)'
  <2> SUFFICES ASSUME ~file.rom, count'.errors = 0 PROVE Imaged(file.image)'
    OBVIOUS
  <2>1. Imaged(file.image)
    BY DEF RomOK
  <2>2. file.image \in Nat /\ file.bss \in Nat /\ \A a \in Int : a >= 0 /\ a < file.image => a \in Memory
    BY FileFacts
  <2>3. ASSUME NEW a \in 0..(file.image - 1) PROVE mem'[a] = mem[a]
    <3>1. a \in Memory
      BY <2>2
    <3>2. Moving => Reached \in Int /\ Reached >= file.image
      BY DEF Moving, FarOK
    <3> QED
      BY <3>1, <3>2, <2>2, <1>5
  <2> QED
    BY <2>1, <2>3 DEF Imaged
<1>7. RomOK'
  BY <1>5, <1>6, RomSame
<1>8. Bounded
  BY <1>5 DEF Bounded
<1>9. /\ dma'.state = "IDLE" /\ ~dma'.interrupt /\ dma'.incs = FALSE /\ dma'.len = 0
      /\ dma'.raddr = dma.raddr /\ dma'.waddr = dma.waddr /\ dma'.dma_mem = dma.dma_mem
  BY DEF DmaReset
<1>10. out' = 0 /\ BusOK' /\ bus'.granted = FALSE /\ s'.reg = "none" /\ s'.val = 0
  BY DEF NoCycle, BusOK, out, reqs, None
<1>11. IsCpu(cpu') /\ cpu'.todo = <<>>
  BY DEF IsCpu
<1>12. sim' = [at |-> sim'.at, bombed |-> sim'.bombed, status |-> sim'.status] /\ sim'.at # "poke"
  BY Tick
<1>13. /\ zs' = [hold |-> zs'.hold, counter |-> zs'.counter, cmd_reset |-> zs'.cmd_reset,
                 cmd_halt |-> zs'.cmd_halt, cpu_halt |-> zs'.cpu_halt, pc |-> zs'.pc]
  BY ZsClockIs
<1>14. RecordsOK'
  <2>1. pic' \in BOOLEAN /\ file' = file
    OBVIOUS
  <2>2. bus'.granted \in BOOLEAN
    BY <1>10
  <2>3. dma'.incs \in BOOLEAN
    BY <1>9
  <2>4. s'.val \in Int /\ dma'.len \in Int
    BY <1>9, <1>10
  <2>5. DOMAIN dma'.dma_mem = Block /\ dma'.raddr \in Int /\ dma'.waddr \in Int
    BY <1>9
  <2>6. count' = [resets |-> count'.resets, errors |-> count'.errors] /\ count'.errors \in Nat
    OBVIOUS
  <2> QED
    BY <1>3, <1>10, <1>11, <1>12, <1>13, <2>1, <2>2, <2>3, <2>4, <2>5, <2>6, StillRecords
<1>15. Leaving'
  <2>1. Done'
    BY <1>9, <1>10 DEF Done, Quiet, Still
  <2> QED
    BY <1>11, <2>1 DEF Leaving
<1> QED
  BY <1>7, <1>8, <1>14, <1>15 DEF ProgramOK

(* When the engine and the memory stay as they are, so does what is said of them. *)
LEMMA SameEngine ==
    ASSUME dma' = dma, s' = s, bus' = bus, mem' = mem, pic' = pic, file' = file, count'.errors = count.errors
    PROVE  /\ (RomOK => RomOK') /\ (BusOK => BusOK') /\ (Done => Done') /\ Bounded
           /\ \A l \in Calm \cup {"copying", "clearing"} : At(l) => At(l)'
<1>1. (RomOK => RomOK') /\ (BusOK => BusOK') /\ Bounded /\ (Done => Done')
  BY DEF RomOK, Imaged, BusOK, out, reqs, Bounded, Done, Quiet, Still
<1>2. (FarOK => FarOK') /\ (Reads => Reads') /\ (WritesBlock => WritesBlock')
  <2>1. FarOK => FarOK'
    BY DEF FarOK, Reached, We, Imaged, Cleared, out
  <2>2. Reads => Reads'
    BY DEF Reads, Src, Val, out, reqs
  <2>3. WritesBlock => WritesBlock'
    BY DEF WritesBlock, HasBlock, Src, Val, out, reqs
  <2> QED
    BY <2>1, <2>2, <2>3
<1>3. Moving => Moving'
  <2>1. /\ dma.state = "WAIT" /\ out = 0 /\ dma.raddr = Src(dma.waddr) /\ (dma.trigger => dma.nracks = 0)
        => (dma.state = "WAIT" /\ out = 0 /\ dma.raddr = Src(dma.waddr) /\ (dma.trigger => dma.nracks = 0))'
    BY DEF Src, out
  <2>2. dma.state = "PRE_WRITE" /\ out = 0 /\ dma.rdaddr = 0 /\ HasBlock(dma.waddr) /\ dma.nread = Smaller(dma.len, B)
        => (dma.state = "PRE_WRITE" /\ out = 0 /\ dma.rdaddr = 0 /\ HasBlock(dma.waddr) /\ dma.nread = Smaller(dma.len, B))'
    BY DEF HasBlock, Src, Val, out
  <2> QED
    BY <1>2, <2>1, <2>2 DEF Moving
<1>4. /\ (Still => Still') /\ (Quiet => Quiet') /\ (Finished => Finished') /\ (ImageOK => ImageOK')
      /\ (Imaged(file.image) => Imaged(file.image)')
      /\ (Cleared(file.image + file.bss) => Cleared(file.image + file.bss)')
  BY DEF Still, Quiet, Finished, ImageOK, out, Imaged, Cleared
<1>5. ASSUME NEW l \in Calm \cup {"copying", "clearing"}, At(l) PROVE At(l)'
  <2>1. CASE l \in {"boot", "len", "rd", "wr", "if", "arm", "copy"}
    BY <1>4, <1>5, <2>1 DEF At, LenIs, RdIs, WrIs
  <2>a. /\ (LenIs(file.image) => LenIs(file.image)') /\ (RdIs(RomImage) => RdIs(RomImage)') /\ (WrIs(0) => WrIs(0)')
        /\ (LenIs(file.bss) => LenIs(file.bss)') /\ (RdIs(StackWord) => RdIs(StackWord)')
        /\ (WrIs(file.image) => WrIs(file.image)')
    BY DEF LenIs, RdIs, WrIs
  <2>2. CASE l = "copying"
    <3>1. CASE Quiet /\ s.reg = "DMACCOPY" /\ LenIs(file.image) /\ RdIs(RomImage) /\ WrIs(0) /\ file.image > 0 /\ ~pic
      BY <1>4, <2>a, <2>2, <3>1 DEF At
    <3>2. CASE s = None /\ ~pic /\ Moving /\ dma.incs
      BY <1>3, <2>2, <3>2 DEF At
    <3>3. CASE Finished /\ ImageOK
      BY <1>4, <2>2, <3>3 DEF At
    <3> QED
      BY <1>5, <2>2, <3>1, <3>2, <3>3 DEF At
  <2>4. CASE l = "clearing"
    <3>1. CASE /\ Quiet /\ s.reg = "DMA_CONSTSRC" /\ ImageOK /\ mem[StackWord] = Zero /\ ~pic
               /\ LenIs(file.bss) /\ RdIs(StackWord) /\ (~file.rom => WrIs(file.image))
      BY <1>4, <2>a, <2>4, <3>1 DEF At
    <3>2. CASE s = None /\ ~pic /\ Moving /\ ~dma.incs
      BY <1>3, <2>4, <3>2 DEF At
    <3>3. CASE Finished /\ (count.errors = 0 => Imaged(file.image) /\ Cleared(file.image + file.bss))
      BY <1>4, <2>4, <3>3 DEF At
    <3> QED
      BY <1>5, <2>4, <3>1, <3>2, <3>3 DEF At
  <2>3. CASE l \in {"zero", "arm2", "len2", "rd2", "wr2", "clear", "ready"}
    BY <1>4, <1>5, <2>3 DEF At, LenIs, RdIs, WrIs
  <2> QED
    BY <1>5, <2>1, <2>2, <2>3, <2>4 DEF Calm
<1> QED
  BY <1>1, <1>5

(* The CPU begins, or the steps that only touch its control. *)
LEMMA FetchStep ==
    ASSUME RecordsOK, RomOK, ProgramOK, Fetch
    PROVE  RecordsOK' /\ RomOK' /\ ProgramOK' /\ Bounded
<1>1. /\ sim.at = "run" /\ ~zs.cmd_reset /\ zs.pc # Trap
      /\ zs' = [ZsClock(zs) EXCEPT !.pc = Trap] /\ sim_clk_tick
      /\ dma' = dma /\ s' = s /\ bus' = bus /\ mem' = mem /\ pic' = pic /\ file' = file /\ count' = count
  BY DEF Fetch, Fetches, dmaVars
<1>2. IsCpu(cpu') /\ (cpu'.todo = _start(file) \/ cpu'.todo = <<>>)
  <2>1. IsCpu(cpu)
    BY DEF RecordsOK
  <2>2. PICK t, b : /\ t = IF mem[zs.pc] = <<CodeByte, CodeByte>> THEN _start(file) ELSE <<>>
                    /\ cpu' = [cpu EXCEPT !.todo = t, !.user = FALSE, !.wr = Trap, !.broken = b]
    BY DEF Fetch
  <2> QED
    BY <2>1, <2>2 DEF IsCpu
<1>3. Leaving /\ Done
  BY <1>1 DEF ProgramOK, Booting, Leaving
<1>4. RomOK' /\ BusOK' /\ Done' /\ Bounded
  BY <1>1, <1>3, SameEngine DEF RecordsOK
<1>5. sim' = [at |-> sim'.at, bombed |-> sim'.bombed, status |-> sim'.status] /\ sim'.at # "poke"
  BY <1>1, Tick
<1>6. /\ zs' = [hold |-> zs'.hold, counter |-> zs'.counter, cmd_reset |-> zs'.cmd_reset,
                cmd_halt |-> zs'.cmd_halt, cpu_halt |-> zs'.cpu_halt, pc |-> zs'.pc]
      /\ zs'.pc = Trap
  BY <1>1 DEF ZsClock
<1>7. RecordsOK'
  BY <1>1, <1>2, <1>4, <1>5, <1>6 DEF RecordsOK
<1>8. CASE cpu'.todo = <<>>
  <2>1. Leaving'
    BY <1>4, <1>8 DEF Leaving
  <2> QED
    BY <1>4, <1>7, <2>1 DEF ProgramOK
<1>9. CASE cpu'.todo = _start(file)
  <2> DEFINE c == _start(file)
  <2>1. Len(c) \in Nat /\ Len(c) >= 2 /\ Labels(file)[1] = "boot"
    BY Flow DEF RecordsOK, Flows
  <2>2. PICK S : c \in Seq(S)
    BY StartCode DEF RecordsOK
  <2> HIDE DEF c
  <2>3. c = SubSeq(c, 1, Len(c))
    <3>1. \A i \in 1..Len(c) : c[i] \in S
      BY <2>2, ElementOfSeq
    <3>2. /\ SubSeq(c, 1, Len(c)) \in Seq(S) /\ Len(SubSeq(c, 1, Len(c))) = Len(c)
          /\ \A i \in 1..Len(c) : SubSeq(c, 1, Len(c))[i] = c[i]
      <4>1. /\ SubSeq(c, 1, Len(c)) \in Seq(S)
            /\ Len(SubSeq(c, 1, Len(c))) = (IF 1 <= Len(c) THEN Len(c) - 1 + 1 ELSE 0)
            /\ \A i \in 1..(Len(c) - 1 + 1) : SubSeq(c, 1, Len(c))[i] = c[1 + i - 1]
        BY <2>1, <3>1, SubSeqProperties
      <4> QED
        BY <2>1, <4>1
    <3> DEFINE u == SubSeq(c, 1, Len(c))
    <3> HIDE DEF u
    <3>3. u \in Seq(S) /\ Len(u) = Len(c) /\ \A i \in 1..Len(c) : u[i] = c[i]
      BY <3>2 DEF u
    <3>4. c = u
      BY <2>2, <3>3, SeqEqual
    <3> QED
      BY <3>4 DEF u
  <2>4. Place' = 1
    BY <1>1, <1>9, <2>1 DEF Place, c
  <2>5. At("boot")'
    BY <1>4 DEF At, Done, None
  <2>6. Booting'
    <3>1. Place' \in 1..Len(_start(file')) /\ cpu'.todo = SubSeq(_start(file'), Place', Len(_start(file')))
      BY <1>1, <1>9, <2>1, <2>3, <2>4 DEF c
    <3>2. At(Labels(file)[Place])'
      BY <1>1, <2>1, <2>4, <2>5
    <3> QED
      BY <1>5, <1>6, <3>1, <3>2 DEF Booting
  <2> QED
    BY <1>4, <1>7, <2>6 DEF ProgramOK
<1> QED
  BY <1>2, <1>4, <1>7, <1>8, <1>9

(* The simulator starts the CPU (zipelf loaded, the reset lifted): the bootloader has yet to begin. *)
LEMMA start_cpuStep ==
    ASSUME RecordsOK, RomOK, ProgramOK, start_cpu
    PROVE  RecordsOK' /\ RomOK' /\ ProgramOK'
<1>1. /\ sim.at = "poke" /\ sim' = Running
      /\ dma' = dma /\ s' = s /\ bus' = bus /\ mem' = mem /\ cpu' = cpu /\ pic' = pic /\ file' = file /\ count' = count
  BY DEF start_cpu, dmaVars, progVars
<1>2. PICK z : zs' = [ZsClock(z) EXCEPT !.cmd_halt = FALSE, !.cmd_reset = FALSE]
  BY DEF start_cpu
<1>3. zs' = [hold |-> zs'.hold, counter |-> zs'.counter, cmd_reset |-> zs'.cmd_reset,
             cmd_halt |-> zs'.cmd_halt, cpu_halt |-> zs'.cpu_halt, pc |-> zs'.pc]
  BY <1>2 DEF ZsClock
<1>4. sim' = [at |-> sim'.at, bombed |-> sim'.bombed, status |-> sim'.status]
  BY <1>1 DEF Running
<1>5. Done /\ cpu.todo = <<>>
  BY <1>1 DEF ProgramOK, Booting, Leaving
<1>6. RomOK' /\ BusOK' /\ Done'
  BY <1>1, <1>5, SameEngine DEF RecordsOK
<1>7. RecordsOK'
  BY <1>1, <1>3, <1>4, <1>6 DEF RecordsOK
<1>8. Leaving'
  BY <1>1, <1>5, <1>6 DEF Leaving
<1> QED
  BY <1>6, <1>7, <1>8 DEF ProgramOK

(* A reset from the port, or nothing. *)
LEMMA PortStep ==
    ASSUME RecordsOK, RomOK, ProgramOK, Reset \/ UNCHANGED vars
    PROVE  RecordsOK' /\ RomOK' /\ ProgramOK' /\ Bounded
<1>1. /\ dma' = dma /\ s' = s /\ bus' = bus /\ mem' = mem /\ cpu' = cpu /\ pic' = pic /\ file' = file /\ sim' = sim
      /\ zs' = [zs EXCEPT !.cmd_reset = TRUE, !.cmd_halt = FALSE] \/ zs' = zs
      /\ count' = [count EXCEPT !.resets = @ + 1] \/ count' = count
  BY DEF Reset, vars, dmaVars, progVars
<1>2. /\ zs = [hold |-> zs.hold, counter |-> zs.counter, cmd_reset |-> zs.cmd_reset,
               cmd_halt |-> zs.cmd_halt, cpu_halt |-> zs.cpu_halt, pc |-> zs.pc]
      /\ count = [resets |-> count.resets, errors |-> count.errors] /\ count.errors \in Nat
  BY DEF RecordsOK
<1>3. /\ zs' = [hold |-> zs'.hold, counter |-> zs'.counter, cmd_reset |-> zs'.cmd_reset,
                cmd_halt |-> zs'.cmd_halt, cpu_halt |-> zs'.cpu_halt, pc |-> zs'.pc]
      /\ zs'.pc = zs.pc
  BY <1>1, <1>2
<1>4. count' = [resets |-> count'.resets, errors |-> count'.errors] /\ count'.errors = count.errors
  BY <1>1, <1>2
<1>5. /\ (RomOK => RomOK') /\ (BusOK => BusOK') /\ (Done => Done') /\ Bounded
      /\ \A l \in Calm \cup {"copying", "clearing"} : At(l) => At(l)'
  BY <1>1, <1>4, SameEngine
<1>6. RecordsOK'
  BY <1>1, <1>2, <1>3, <1>4, <1>5 DEF RecordsOK
<1>7. CASE Leaving
  <2>1. Leaving'
    BY <1>1, <1>3, <1>5, <1>7 DEF Leaving
  <2> QED
    BY <1>5, <1>6, <2>1 DEF ProgramOK
<1>8. CASE Booting
  <2>1. PICK l : l = Labels(file)[Place]
    OBVIOUS
  <2>2. At(l) /\ l \in Calm \cup {"copying", "clearing"}
    BY <1>8, <2>1, BootFacts, FollowsIs DEF RecordsOK
  <2>3. At(l)'
    BY <1>5, <2>2
  <2>4. Place' = Place
    BY <1>1 DEF Place
  <2>5. At(Labels(file)[Place])'
    BY <1>1, <2>1, <2>3, <2>4
  <2>6. Booting'
    BY <1>1, <1>3, <1>8, <2>4, <2>5 DEF Booting
  <2> QED
    BY <1>5, <1>6, <2>6 DEF ProgramOK
<1> QED
  BY <1>7, <1>8 DEF ProgramOK

(* What is loaded where the image goes, or from where it is copied. *)
LEMMA LoadedImage ==
    ASSUME NEW f \in Files, NEW a \in 0..(f.image - 1)
    PROVE  ImageAt(f, a) \in Memory /\ loadelf(f)[ImageAt(f, a)] = Image(f, a)
<1> DEFINE x == ImageAt(f, a)
           w == f.sections[1].start \div 2
           n == Len(f.sections[1].data)
<1>1. f.image \in Nat /\ f.image > 0 /\ a \in Nat /\ a < f.image /\ f.rom \in BOOLEAN /\ RomImage \in Nat
  BY FileFacts
<1>2. /\ x \in Memory
      /\ \A i \in DOMAIN Sections(f) : x \in Target(Sections(f)[i]) <=> i = 1
      /\ 1 \in DOMAIN Sections(f) /\ DOMAIN Sections(f) \subseteq Nat /\ Sections(f)[1] = f.sections[1]
      /\ f.sections[1].start \in Nat /\ n \in Nat
      /\ f.rom => w \in Memory \ RAM /\ w + 1 = RomImage
      /\ ~f.rom => 0 \in RAM /\ w = 0 /\ 2 * f.image <= n
  BY <1>1, SimAssumption
<1>3. w \in Nat
  BY <1>2
<1> HIDE DEF x, w, n
<1>4. Covering(f, x, 1) = {1} /\ Covering(f, x, 2) = {}
  BY <1>2 DEF Covering
<1>5. (CHOOSE i \in Covering(f, x, 1) : Covering(f, x, i + 1) = {}) = 1
  <2>1. Covering(f, x, 1 + 1) = {}
    BY <1>4
  <2> QED
    BY <1>4, <2>1
<1>6. loadelf(f)[x] = load(f.sections[1], x)
  <2>1. Covering(f, x, 1) # {}
    BY <1>4
  <2> QED
    BY <1>2, <1>5, <2>1 DEF loadelf
<1>7. CASE f.rom
  <2>1. x - w = a + 1 /\ w \notin RAM
    BY <1>1, <1>2, <1>3, <1>7 DEF ImageAt, x
  <2>2. load(f.sections[1], x) = Word(f.sections[1].data, x - w)
    BY <2>1 DEF load, w
  <2> QED
    BY <1>2, <1>6, <1>7, <2>1, <2>2 DEF Image, x
<1>8. CASE ~f.rom
  <2>1. x - 2 * w = a /\ w \in RAM
    BY <1>1, <1>2, <1>3, <1>8 DEF ImageAt, x
  <2>2. a < n \div 2
    BY <1>1, <1>2, <1>8
  <2>3. load(f.sections[1], x) = byteswapbuf(f.sections[1].data, x - 2 * w)
    BY <2>1 DEF load, w
  <2>4. byteswapbuf(f.sections[1].data, a) = Word(f.sections[1].data, a)
    BY <2>2 DEF byteswapbuf, n
  <2> QED
    BY <1>2, <1>6, <1>8, <2>1, <2>3, <2>4 DEF Image, x
<1> QED
  BY <1>1, <1>7, <1>8

(* The start of the simulation. *)
LEMMA AtInit == ASSUME Init PROVE RecordsOK /\ RomOK /\ ProgramOK
<1>1. /\ file \in Files /\ mem = loadelf(file) /\ dma = PowerOn /\ s = None /\ bus = NoCycle
      /\ zs = Control(TRUE, RESET_DURATION, TRUE, TRUE) /\ sim = [Running EXCEPT !.at = "poke"]
      /\ count = [resets |-> 0, errors |-> 0] /\ pic = FALSE
      /\ cpu = [todo |-> <<>>, user |-> FALSE, regs |-> [u \in BOOLEAN |-> 0], wr |-> Trap, broken |-> FALSE]
  BY DEF Init, CpuInit
<1>2. /\ dma.state = "IDLE" /\ ~dma.interrupt /\ dma.incs = FALSE /\ dma.len = 0 /\ dma.raddr = 0 /\ dma.waddr = 0
      /\ DOMAIN dma.dma_mem = Block
  BY <1>1 DEF PowerOn, DmaReset
<1>3. out = 0 /\ BusOK /\ bus.granted = FALSE
  BY <1>1 DEF NoCycle, out, reqs, BusOK
<1>4. IsCpu(cpu) /\ cpu.todo = <<>>
  <2> DEFINE g == [u \in BOOLEAN |-> 0]
  <2> HIDE DEF g
  <2>1. cpu = [todo |-> <<>>, user |-> FALSE, regs |-> g, wr |-> Trap, broken |-> FALSE]
    BY <1>1 DEF g
  <2> QED
    BY <2>1 DEF IsCpu
<1>5. DOMAIN mem = Memory
  BY <1>1 DEF loadelf
<1>6. /\ zs = [hold |-> zs.hold, counter |-> zs.counter, cmd_reset |-> zs.cmd_reset,
               cmd_halt |-> zs.cmd_halt, cpu_halt |-> zs.cpu_halt, pc |-> zs.pc]
  BY <1>1 DEF Control
<1>7. sim = [at |-> sim.at, bombed |-> sim.bombed, status |-> sim.status]
  BY <1>1 DEF Running
<1>8. count = [resets |-> count.resets, errors |-> count.errors] /\ count.errors \in Nat
  BY <1>1
<1>9. s.reg = "none" /\ s.val \in Int
  BY <1>1 DEF None
<1>10. pic \in BOOLEAN
  BY <1>1
<1>11. bus.granted \in BOOLEAN
  BY <1>3
<1>12. dma.incs \in BOOLEAN
  BY <1>2
<1>13. dma.len \in Int /\ dma.raddr \in Int /\ dma.waddr \in Int
  BY <1>2
<1>14. file \in Files
  BY <1>1
<1>15. RecordsOK
  BY <1>2, <1>3, <1>4, <1>5, <1>6, <1>7, <1>8, <1>9, <1>10, <1>11, <1>12, <1>13, <1>14 DEF RecordsOK
<1>16. Leaving
  <2>1. Done
    BY <1>1, <1>2, <1>3 DEF Done, Quiet, Still
  <2> QED
    BY <1>4, <2>1 DEF Leaving
<1>17. RomOK
  <2>1. ASSUME NEW a \in 0..(file.image - 1) PROVE mem[ImageAt(file, a)] = Image(file, a)
    BY <1>1, <1>14, LoadedImage
  <2> QED
    BY <2>1 DEF RomOK, Imaged, ImageAt
<1> QED
  BY <1>15, <1>16, <1>17 DEF ProgramOK

(* The invariant. *)
IInv == RecordsOK /\ RomOK /\ ProgramOK

(* Every step keeps it, and while the CPU runs, writes nothing beyond image and BSS. *)
LEMMA EveryStep ==
    ASSUME IInv, [Next]_vars
    PROVE  IInv' /\ (sim.at = "run" => Bounded)
<1> USE DEF IInv
<1>1. CASE start_cpu
  <2>1. sim.at # "run"
    BY <1>1 DEF start_cpu
  <2> QED
    BY <1>1, <2>1, start_cpuStep
<1>2. CASE Fetch
  BY <1>2, FetchStep
<1>3. CASE InReset
  BY <1>3, ResetStep
<1>4. CASE Executes
  <2>1. PICK grant \in Grants, stall \in Stalls, answer \in Answers : Clock(grant, stall, answer, TRUE)
    BY <1>4 DEF Executes
  <2>2. PICK e \in BOOLEAN : Clock(grant, stall, answer, e)
    BY <2>1
  <2> QED
    BY <2>2, ClockStep
<1>5. CASE Waits
  <2>1. PICK grant \in Grants, stall \in Stalls, answer \in Answers : Clock(grant, stall, answer, FALSE)
    BY <1>5 DEF Waits
  <2>2. PICK e \in BOOLEAN : Clock(grant, stall, answer, e)
    BY <2>1
  <2> QED
    BY <2>2, ClockStep
<1>6. CASE Reset
  BY <1>6, PortStep
<1>7. CASE UNCHANGED vars
  BY <1>7, PortStep
<1> QED
  BY <1>1, <1>2, <1>3, <1>4, <1>5, <1>6, <1>7 DEF Next, tick, Over

(* What main finds. *)
LEMMA MainFinds == ASSUME IInv PROVE MainSeesImage
<1> SUFFICES ASSUME InMain, count.errors = 0
             PROVE  /\ \A a \in 0..(file.image - 1) : mem[a] = Image(file, a)
                    /\ \A a \in file.image..(file.image + file.bss - 1) : mem[a] = Zero
  BY DEF MainSeesImage, Whole
<1>1. cpu.todo # <<>> /\ Instr.op = "main" /\ RecordsOK
  BY DEF InMain, IInv
<1>2. CASE Leaving
  <2>1. /\ \A i \in 1..Len(cpu.todo) : cpu.todo[i].op \in {"outbyte", "flush", "rcode", "nexit"}
        /\ Len(cpu.todo) \in Nat /\ cpu.todo = [i \in 1..Len(cpu.todo) |-> cpu.todo[i]]
    BY <1>2 DEF Leaving
  <2>2. Head(cpu.todo).op \in {"outbyte", "flush", "rcode", "nexit"}
    BY <2>1, <1>1, ExitTail
  <2> QED
    BY <2>2, <1>1 DEF Instr
<1>3. CASE Booting
  <2>1. Follows(file, Labels(file)[Place], Instr, Beyond(file, Place, 1)) /\ At(Labels(file)[Place])
    BY <1>1, <1>3, BootFacts
  <2>2. At("ready")
    BY <1>1, <2>1, FollowsIs DEF RecordsOK
  <2> QED
    <3>1. Imaged(file.image) /\ Cleared(file.image + file.bss)
      BY <2>2 DEF At
    <3>2. file.image \in Nat /\ file.bss \in Nat /\ \A x, y \in Nat : (x + y) - 1 = x + (y - 1)
      BY <1>1, FileFacts DEF RecordsOK
    <3> QED
      BY <3>1, <3>2 DEF Imaged, Cleared
<1> QED
  BY <1>2, <1>3 DEF IInv, ProgramOK

(* Whichever clock of the bootloader a reset interrupts, main finds the image of its program and
   a BSS of zeros when it starts, unless a bus error ended one of the transfers (crt0.c, wbdmac.v). *)
THEOREM MainAlwaysSeesImage == Spec => []MainSeesImage
<1>1. Init => IInv
  BY AtInit DEF IInv
<1>2. IInv /\ [Next]_vars => IInv'
  BY EveryStep
<1>3. IInv => MainSeesImage
  BY MainFinds
<1> QED
  BY <1>1, <1>2, <1>3, PTL DEF Spec

(* No clock of the simulation writes to memory beyond the program's image and BSS, but for the
   bootloader's own variable: no transfer goes a word too far, also when it is cut short. *)
THEOREM AlwaysLeavesTheRest == Spec => LeavesTheRest
<1>1. Init => IInv
  BY AtInit DEF IInv
<1>2. IInv /\ [Next]_vars => IInv'
  BY EveryStep
<1>3. IInv /\ [Next]_vars =>
        [sim.at = "run" => \A a \in Memory : mem'[a] # mem[a] => a < file.image + file.bss \/ a = StackWord]_vars
  BY EveryStep DEF Bounded
<1> QED
  BY <1>1, <1>2, <1>3, PTL DEF Spec, LeavesTheRest
=============================================================================
