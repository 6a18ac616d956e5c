---------------------------- MODULE ZipDbgProofs ----------------------------
(* What the debugger shows is so, a step is one instruction or one compressed pair, and an
   edit lands where it was typed: for any number of polls. *)
EXTENDS ZipDbg, SequenceTheorems, TLAPS

Flags == {sCC, uCC}

TypeOK ==
    /\ cmd_halt \in BOOLEAN /\ cmd_step \in BOOLEAN /\ cpu_halt \in BOOLEAN
    /\ regs \in [Addresses -> Values] /\ gie \in BOOLEAN /\ alu_phase \in BOOLEAN
    /\ tool \in {"zipdbg", "zipstate"} /\ reg \in Addresses /\ put \in Values
    /\ writing \in BOOLEAN /\ m_state \in Seq(Values)
    /\ m_cursor \in Cells /\ ran \in 0..2

\* The CPU was told to halt, and is not stepped; and it has come to rest since, so that
\* nothing is on its way to a register any more.
Halted  == cmd_halt /\ cpu_halt /\ ~cmd_step
Settled == Halted /\ busy # "load" /\ ~alu_phase

\* What is read at one place is what is there.
Same(i) == m_state[i] = dbg_odata(i-1) \/ (i-1 \in Flags /\ ~gie)
Told == \A i \in DOMAIN m_state : Same(i)

Accessing == at \in {"ask", "poll", "data"}

\* From the first register read to the next key, what has been read stays true, for the
\* CPU is at rest from then on.
ReadOK ==
    /\ at = "start" => reg = 0 /\ ~writing /\ ~known
    /\ at \in {"poll", "data"} => Halted
    /\ Accessing /\ ~writing => Len(m_state) = reg /\ (reg > 0 => Settled /\ Told)
    /\ tool = "zipstate" => Ended \/ at = "start" \/ (Accessing /\ ~writing)
    /\ Waiting /\ screen = "state" => Settled /\ Told /\ Len(m_state) = UTSK + 1
    /\ at = "done" /\ tool = "zipstate" /\ screen = "state" => Told

\* After a key the CPU waits for its step, or has made it and is halted.
StepOK ==
    known /\ ~fired /\ ~Ended =>
       \/ cmd_step /\ ran = 0 /\ key = "s" /\ at = "look"
       \/ ~cmd_step /\ cpu_halt /\ ran <= (IF key = "s" THEN 1 ELSE 0)

\* While an edit is under way the registers are as they were shown; then as they were
\* shown but for the one, and the half word of a user's program counter that is entered.
Landed(a) ==
    \/ a = ra(m_cursor) /\ \E user \in BOOLEAN : regs[a] = Kept(a, put, before[a+1], user)
    \/ a # ra(m_cursor) /\ regs[a] = before[a+1]
    \/ a = uPC /\ ra(m_cursor) = sCC /\ regs[a] = High(before[a+1])
EditOK ==
    known /\ key = "edit" /\ ~Ended =>
       /\ Settled /\ before \in Seq(Values) /\ Len(before) = UTSK + 1
       /\ IF Accessing /\ writing
          THEN reg = ra(m_cursor) /\ \A a \in Addresses \ Flags : regs[a] = before[a+1]
          ELSE \A a \in Addresses \ Flags : Landed(a)

IInv == TypeOK /\ ReadOK /\ StepOK /\ EditOK
-----------------------------------------------------------------------------
\* A CPU that has come to rest under a halt keeps its registers: all that can still
\* happen to it is an interrupt, and the refill of its pipeline (Cpu of ZipDbg).
LEMMA RestStays ==
    ASSUME Settled, Cpu
    PROVE  /\ UNCHANGED <<port, regs, zip, seen>> /\ ~alu_phase'
           /\ busy' # "load"
           /\ gie' # gie => gie' = FALSE
<1> USE DEF Settled, Halted, zip, seen, port, Issued, Quiet
<1>1. CASE Execute
  BY <1>1 DEF Execute
<1>2. CASE Stepped
  BY <1>2 DEF Stepped, StepClock
<1>3. CASE Refill
  <2>1. regs' = regs /\ UNCHANGED <<port, gie, alu_phase>> /\ busy' = Quiet
    BY <1>3 DEF Refill, Finish
  <2>2. UNCHANGED <<zip, seen>>
    BY <1>3 DEF Refill
  <2> QED
    BY <2>1, <2>2
<1>4. CASE busy = "load" /\ Finish /\ Issued(FALSE)
  BY <1>4
<1>5. CASE Break /\ Issued(FALSE)
  BY <1>5 DEF Break
<1>6. CASE Interrupt /\ Issued(FALSE)
  BY <1>6 DEF Interrupt
<1>7. CASE Tick \/ Watchdog
  BY <1>7 DEF Tick, Watchdog
<1> QED
  BY <1>1, <1>2, <1>3, <1>4, <1>5, <1>6, <1>7 DEF Cpu

\* What has been read stays true while no register changes and the mode can only fall
\* back to the supervisor's (dbg_odata of ZipPort).
LEMMA ToldStays ==
    ASSUME Told, UNCHANGED <<regs, m_state>>, gie' # gie => gie' = FALSE
    PROVE  Told'
<1> SUFFICES ASSUME NEW i \in DOMAIN m_state
             PROVE  m_state[i] = dbg_odata(i-1)' \/ (i-1 \in Flags /\ ~gie')
  BY DEF Told, Same
<1>1. Same(i)
  BY DEF Told
<1>2. CASE i-1 \in Flags
  BY <1>1, <1>2 DEF Same, dbg_odata
<1>3. CASE i-1 \notin Flags
  BY <1>1, <1>3 DEF Same, dbg_odata, Flags
<1> QED
  BY <1>2, <1>3
-----------------------------------------------------------------------------
\* The bits of a word (High, Mid and Low of ZipPort).
LEMMA Bits ==
    ASSUME NEW v \in Values
    PROVE  High(v) \in {0, 4} /\ Mid(v) \in {0, 2} /\ v - Low(v) \in Values /\ flip(v) \in Values
<1>1. v \div 4 \in {0, 1} /\ (v \div 2) % 2 \in {0, 1} /\ v % 2 \in {0, 1}
  BY DEF Values
<1>2. v % 2 <= v
  BY DEF Values
<1> QED
  BY <1>1, <1>2 DEF High, Mid, Low, HIGH, Values, flip

\* A register holds words, whatever is written to it (Kept of ZipPort).
LEMMA KeptTypes ==
    ASSUME NEW a \in Addresses, NEW v \in Values, NEW held \in Values, NEW user \in BOOLEAN
    PROVE  Kept(a, v, held, user) \in Values
<1>1. High(v) \in {0, 4} /\ Mid(v) \in {0, 2} /\ v - Low(v) \in Values /\ Mid(held) \in {0, 2}
  BY Bits
<1>2. {0, 2, 4, 6} \subseteq Values
  BY DEF Values
<1>3. High(v) + (IF user THEN Mid(held) ELSE Mid(v)) \in Values
  BY <1>1, <1>2
<1> QED
  BY <1>1, <1>2, <1>3 DEF Kept, HIGH

\* As does a return to user mode (Released of ZipPort).
LEMMA ReleasedTypes ==
    ASSUME NEW rs \in [Addresses -> Values], NEW user
    PROVE  Released(rs, user) \in [Addresses -> Values]
<1>1. uPC \in Addresses /\ rs[uPC] \in Values
  BY DEF Addresses, sR, uPC, UTSK
<1>2. High(rs[uPC]) \in Values
  BY <1>1, Bits DEF Values
<1> QED
  BY <1>2 DEF Released

\* And the counters (Counted of ZipPort).
LEMMA CountedTypes ==
    ASSUME TypeOK
    PROVE  Counted \in [Addresses -> Values]
<1>1. regs \in [Addresses -> Values] /\ MTSK \in Addresses /\ UTSK \in Addresses
  BY DEF TypeOK, Addresses, sR, MTSK, UTSK
<1>2. flip(regs[MTSK]) \in Values /\ flip(regs[UTSK]) \in Values /\ regs[UTSK] \in Values
  BY <1>1, Bits
<1>3. MTSK # UTSK
  BY DEF MTSK, UTSK
<1> QED
  BY <1>1, <1>2, <1>3 DEF Counted

\* An instruction keeps the types (Issue of ZipPort).
LEMMA IssueTypes ==
    ASSUME TypeOK, Issue
    PROVE  regs' \in [Addresses -> Values] /\ gie' \in BOOLEAN /\ alu_phase' \in BOOLEAN
<1> DEFINE Regs == [Addresses -> Values]
<1>1. Counted \in Regs
  BY CountedTypes
<1>2. Words \subseteq Values /\ Targets \subseteq Values /\ {0, 6} \subseteq Values
  BY DEF Words, Targets, Values, HIGH
<1>3. PICK rs \in {Counted} \union {[Counted EXCEPT ![WDT] = w] : w \in {0, 6}}
                 \union {[Counted EXCEPT ![sR] = IF gie THEN @ ELSE v] : v \in Words},
           pc \in Targets :
        LET to == [rs EXCEPT ![PC] = pc]
        IN  \/ busy' \in {Quiet, "load"} /\ regs' = to /\ UNCHANGED gie
            \/ busy' = "fill" /\ gie' = ~gie /\ regs' = Released(to, ~gie)
  BY DEF Issue
<1>4. rs \in Regs
  <2>1. \A w \in {0, 6} : [Counted EXCEPT ![WDT] = w] \in Regs
    BY <1>1, <1>2
  <2>2. \A v \in Words : [Counted EXCEPT ![sR] = IF gie THEN @ ELSE v] \in Regs
    <3> TAKE v \in Words
    <3>1. sR \in Addresses /\ Counted[sR] \in Values
      BY <1>1 DEF Addresses, sR, UTSK
    <3> QED
      BY <1>1, <1>2, <3>1
  <2> QED
    BY <1>1, <1>3, <2>1, <2>2
<1> DEFINE to == [rs EXCEPT ![PC] = pc]
<1>5. to \in Regs
  BY <1>2, <1>4
<1>6. Released(to, ~gie) \in Regs
  BY <1>5, ReleasedTypes
<1>7. regs' \in Regs /\ gie' \in BOOLEAN
  BY <1>3, <1>5, <1>6 DEF TypeOK
<1>8. alu_phase' \in BOOLEAN
  BY DEF Issue
<1> QED
  BY <1>7, <1>8

\* A reset too (Reset of ZipPort).
LEMMA ResetTypes ==
    ASSUME TypeOK, Reset
    PROVE  regs' \in [Addresses -> Values] /\ gie' \in BOOLEAN /\ alu_phase' \in BOOLEAN
<1>1. regs' = [regs EXCEPT ![sPC] = 0, ![uPC] = High(@), ![PIC] = 0, ![WDT] = 0]
  BY DEF Reset
<1>2. 0 \in Values /\ uPC \in Addresses /\ regs[uPC] \in Values
  BY DEF TypeOK, Values, Addresses, sR, uPC, UTSK
<1>3. High(regs[uPC]) \in Values
  BY <1>2, Bits DEF Values
<1>4. regs' \in [Addresses -> Values]
  BY <1>1, <1>2, <1>3 DEF TypeOK, sPC, uPC, PIC, WDT
<1> QED
  BY <1>4 DEF Reset

\* And the watchdog's count (Tick of ZipPort).
LEMMA TickTypes ==
    ASSUME TypeOK, Tick
    PROVE  regs' \in [Addresses -> Values]
<1>1. Counted \in [Addresses -> Values] /\ Counted[WDT] = regs[WDT] /\ WDT \in Addresses
  <2>1. WDT \in Addresses /\ WDT # MTSK /\ WDT # UTSK
    BY DEF Addresses, sR, WDT, MTSK, UTSK
  <2> QED
    BY <2>1, CountedTypes DEF Counted, TypeOK
<1>2. regs[WDT] = 0
  <2>1. regs[WDT] \in 0..7 /\ regs[WDT] \notin 1..8
    BY <1>1 DEF TypeOK, Values, Tick, TICK
  <2> QED
    BY <2>1
<1>3. regs' = [Counted EXCEPT ![WDT] = 0]
  BY <1>1, <1>2 DEF Tick
<1> QED
  BY <1>1, <1>3 DEF Values

\* Every step keeps the types.
LEMMA Types ==
    ASSUME TypeOK, [Next]_vars
    PROVE  TypeOK'
<1> USE DEF TypeOK
<1> DEFINE Port == /\ cmd_halt' \in BOOLEAN /\ cmd_step' \in BOOLEAN /\ cpu_halt' \in BOOLEAN
           Regs == regs' \in [Addresses -> Values] /\ gie' \in BOOLEAN /\ alu_phase' \in BOOLEAN
           Zip  == /\ tool' \in {"zipdbg", "zipstate"} /\ reg' \in Addresses /\ put' \in Values
                   /\ writing' \in BOOLEAN /\ m_state' \in Seq(Values)
                   /\ m_cursor' \in Cells
           Ran  == ran' \in 0..2
<1>c. ASSUME NEW h \in BOOLEAN, NEW s \in BOOLEAN, NEW r \in BOOLEAN, Command(h, s, r)
      PROVE  Port /\ Regs
  <2>1. Port
    BY <1>c DEF Command
  <2>2. CASE r
    <3>1. Reset
      BY <1>c, <2>2 DEF Command
    <3> QED
      BY <2>1, <3>1, ResetTypes
  <2>3. CASE ~r
    BY <1>c, <2>1, <2>3 DEF Command, cpu
  <2> QED
    BY <2>2, <2>3
<1>i. ASSUME NEW b \in BOOLEAN, Issued(b)  PROVE Zip /\ Ran
  <2>1. Zip
    BY <1>i DEF Issued, zip
  <2>2. Ran
    BY <1>i DEF Issued
  <2> QED
    BY <2>1, <2>2
<1>f. ASSUME Finish  PROVE Port /\ Regs
  <2>1. Port
    BY <1>f DEF Finish, port
  <2>2. Regs
    BY <1>f DEF Finish, Words, Addresses, Values, sR, UTSK
  <2> QED
    BY <2>1, <2>2
<1>1. CASE Cpu
  <2>1. CASE Execute /\ Issued(~alu_phase)
    <3>1. Port /\ Regs
      BY <2>1, IssueTypes DEF Execute, port
    <3> QED
      BY <2>1, <3>1, <1>i
  <2>2. CASE Stepped
    <3>1. PICK issues \in BOOLEAN : StepClock(issues) /\ Issued(issues /\ ~alu_phase)
      BY <2>2 DEF Stepped
    <3>2. Port
      BY <3>1 DEF StepClock
    <3>3. CASE issues
      <4>1. Regs
        BY <3>1, <3>3, IssueTypes DEF StepClock
      <4> QED
        BY <3>1, <3>2, <4>1, <1>i
    <3>4. CASE ~issues
      <4>1. Regs
        BY <3>1, <3>4, CountedTypes DEF StepClock
      <4> QED
        BY <3>1, <3>2, <4>1, <1>i
    <3> QED
      BY <3>3, <3>4
  <2>3. CASE Refill
    BY <2>3, <1>f, <1>i DEF Refill
  <2>4. CASE busy = "load" /\ Finish /\ Issued(FALSE)
    BY <2>4, <1>f, <1>i
  <2>5. CASE (Break \/ Interrupt) /\ Issued(FALSE)
    <3>1. Port /\ Regs
      BY <2>5 DEF Break, Interrupt, cpu, port
    <3> QED
      BY <2>5, <3>1, <1>i
  <2>6. CASE Watchdog /\ fired' = known /\ UNCHANGED <<key, known, before, ran, zip>>
    <3>1. Port
      BY <2>6 DEF Watchdog
    <3>2. Regs
      BY <2>6, ResetTypes DEF Watchdog
    <3>3. Zip /\ Ran
      BY <2>6 DEF zip
    <3> QED
      BY <3>1, <3>2, <3>3
  <2>7. CASE Tick /\ Issued(FALSE)
    <3>1. Port /\ Regs
      BY <2>7, TickTypes DEF Tick, port
    <3> QED
      BY <2>7, <3>1, <1>i
  <2> QED
    BY <1>1, <2>1, <2>2, <2>3, <2>4, <2>5, <2>6, <2>7 DEF Cpu
<1>2. CASE halt
  BY <1>2, <1>c DEF halt, seen
<1>3. CASE boot
  BY <1>3 DEF boot, port, cpu, seen
<1>4. CASE zipstate
  <2>1. m_state' \in Seq(Values)
    BY <1>4 DEF zipstate, Unread
  <2> QED
    BY <1>4, <2>1 DEF zipstate, port, cpu, seen
<1>5. CASE stalled
  <2>1. m_state' \in Seq(Values) /\ reg' \in Addresses
    BY <1>5 DEF stalled, Unread, Addresses, sR, UTSK
  <2> QED
    BY <1>5, <2>1 DEF stalled, port, cpu, seen
<1>6. CASE address
  <2>1. Port /\ Regs
    BY <1>6, <1>c DEF address, select
  <2> QED
    BY <1>6, <2>1 DEF address, seen
<1>7. CASE poll
  BY <1>7 DEF poll, port, cpu, seen
<1>8. CASE read
  <2>1. dbg_odata(reg) \in Values
    BY DEF dbg_odata, Mode, HIGH, Values
  <2>2. m_state' \in Seq(Values)
    BY <1>8, <2>1 DEF read
  <2>3. reg' \in Addresses
    BY <1>8 DEF read, Last, Addresses, sR, uPC, UTSK
  <2> QED
    BY <1>8, <2>2, <2>3 DEF read, port, cpu, seen
<1>9. CASE write
  <2>1. Regs
    <3>1. CASE reg \in {sCC, uCC}
      <4>1. regs' = Released(regs, gie')
        BY <1>9, <3>1 DEF write, DataWrite
      <4>2. regs' \in [Addresses -> Values]
        BY <4>1, ReleasedTypes
      <4> QED
        BY <1>9, <4>2 DEF write, DataWrite
    <3>2. CASE reg \notin {sCC, uCC}
      <4>1. regs' = [regs EXCEPT ![reg] = Kept(reg, put, regs[reg], gie)]
        BY <1>9, <3>2 DEF write, DataWrite
      <4>2. Kept(reg, put, regs[reg], gie) \in Values
        BY KeptTypes
      <4>3. regs' \in [Addresses -> Values]
        BY <4>1, <4>2
      <4> QED
        BY <1>9, <4>3 DEF write, DataWrite
    <3> QED
      BY <3>1, <3>2
  <2> QED
    BY <1>9, <2>1 DEF write, DataWrite, port, seen
<1>10. CASE Key
  <2> DEFINE Pressed == tool' = tool /\ m_state' \in Seq(Values) /\ ran' = 0
  <2>1. ASSUME NEW k, Press(k)  PROVE Pressed
    BY <2>1 DEF Press, Unread
  <2>2. ASSUME Stay, Pressed  PROVE Zip /\ Ran
    BY <2>2 DEF Stay, Values, Cells
  <2>3. CASE KeyStep
    BY <2>3, <2>1, <2>2, <1>c DEF KeyStep
  <2>4. CASE KeyReset
    BY <2>4, <2>1, <2>2, <1>c DEF KeyReset
  <2>5. CASE KeyGo
    BY <2>5, <2>1, <2>2, <1>c DEF KeyGo
  <2>6. CASE KeyQuit \/ KeyView
    <3>1. Zip /\ Ran
      BY <2>6, <2>1, <2>2 DEF KeyQuit, KeyView
    <3> QED
      BY <2>6, <3>1 DEF KeyQuit, KeyView, port, cpu
  <2>7. CASE KeyEdit
    <3>1. Pressed
      BY <2>7, <2>1 DEF KeyEdit
    <3>2. reg' \in Addresses /\ put' \in Values /\ m_cursor' \in Cells
      <4>1. PICK c \in Cells : m_cursor' = c /\ reg' = ra(c)
        BY <2>7 DEF KeyEdit
      <4>2. c \in 0..7 /\ ra(c) = IF c >= 3 THEN c - 3 ELSE c + 5
        BY DEF ra, Cells, FirstReg, PIC
      <4>3. ra(c) \in 0..8
        BY <4>2
      <4>4. Typed(reg') \subseteq Values
        BY DEF Typed, Values
      <4> QED
        BY <2>7, <4>1, <4>3, <4>4 DEF KeyEdit, Addresses, sR, UTSK
    <3> QED
      BY <2>7, <3>1, <3>2 DEF KeyEdit, port, cpu
  <2> QED
    BY <1>10, <2>3, <2>4, <2>5, <2>6, <2>7 DEF Key
<1>11. CASE UNCHANGED vars
  BY <1>11 DEF vars, port, cpu, zip, seen
<1> QED
  BY <1>1, <1>2, <1>3, <1>4, <1>5, <1>6, <1>7, <1>8, <1>9, <1>10, <1>11 DEF Next, Tool
-----------------------------------------------------------------------------
\* The CPU is not the tool, and does not end a halt (Cpu of ZipDbg).
LEMMA CpuKeeps ==
    ASSUME Cpu
    PROVE  UNCHANGED <<zip, key, known, before>> /\ (Halted => UNCHANGED port)
<1> USE DEF Halted, seen, port, Issued
<1>1. CASE Execute /\ Issued(~alu_phase)
  BY <1>1 DEF Execute
<1>2. CASE Stepped
  BY <1>2 DEF Stepped, StepClock
<1>3. CASE Finish /\ Issued(FALSE)
  BY <1>3 DEF Finish
<1>4. CASE Break /\ Issued(FALSE)
  BY <1>4 DEF Break
<1>5. CASE (Interrupt \/ Tick) /\ Issued(FALSE)
  BY <1>5 DEF Interrupt, Tick
<1>6. CASE Watchdog /\ fired' = known /\ UNCHANGED <<key, known, before, ran, zip>>
  BY <1>6 DEF Watchdog
<1> QED
  BY <1>1, <1>2, <1>3, <1>4, <1>5, <1>6 DEF Cpu, Refill

\* One more register is read, and what had been read is as it was (read of ZipDbg).
LEMMA OneMore ==
    ASSUME TypeOK, NEW v \in Values, m_state' = Append(m_state, v)
    PROVE  /\ Len(m_state') = Len(m_state) + 1
           /\ DOMAIN m_state' = 1 .. Len(m_state) + 1
           /\ DOMAIN m_state = 1 .. Len(m_state)
           /\ Len(m_state) \in Nat
           /\ \A i \in 1 .. Len(m_state) : m_state'[i] = m_state[i]
           /\ m_state'[Len(m_state) + 1] = v
  BY DEF TypeOK

\* What is read stays true (ReadOK).
LEMMA Reading ==
    ASSUME TypeOK, ReadOK, [Next]_vars
    PROVE  ReadOK'
<1> USE DEF Accessing, Waiting, Ended
<1>1. CASE Cpu /\ ~Ended
  <2>1. UNCHANGED <<zip, key, known, before>> /\ (Halted => Halted')
    BY <1>1, CpuKeeps DEF Halted, port
  <2>2. Settled => Settled' /\ (Told => Told')
    <3> SUFFICES ASSUME Settled PROVE Settled' /\ (Told => Told')
      OBVIOUS
    <3>1. UNCHANGED <<port, regs, zip, seen>> /\ ~alu_phase' /\ busy' # "load" /\ (gie' # gie => gie' = FALSE)
      BY <1>1, RestStays
    <3>2. Settled'
      BY <3>1 DEF Settled, Halted, port
    <3>3. Told => Told'
      BY <3>1, ToldStays DEF zip
    <3> QED
      BY <3>2, <3>3
  <2> QED
    BY <1>1, <2>1, <2>2 DEF ReadOK, Ended, zip
<1>2. CASE halt
  BY <1>2 DEF halt, ReadOK
<1>3. CASE boot
  BY <1>3 DEF boot, ReadOK
<1>4. CASE zipstate
  <2>1. m_state' = << >> /\ Len(m_state') = 0 /\ DOMAIN m_state' = {}
    BY <1>4 DEF zipstate, Unread
  <2>2. Told'
    BY <2>1 DEF Told
  <2>3. reg = 0 /\ reg' = 0
    BY <1>4 DEF zipstate, ReadOK
  <2> QED
    BY <1>4, <2>1, <2>2, <2>3 DEF zipstate, ReadOK
<1>5. CASE stalled
  <2>1. m_state' = << >> /\ Len(m_state') = 0 /\ reg' = 0
    BY <1>5 DEF stalled, Unread
  <2>2. at' = "ask" \/ (at' = "key" /\ screen' = "stalled" /\ tool' = tool)
    BY <1>5 DEF stalled
  <2>3. tool = "zipdbg" /\ tool' = tool /\ ~writing'
    BY <1>5 DEF stalled, ReadOK, Ended, TypeOK
  <2> QED
    BY <2>1, <2>2, <2>3 DEF ReadOK
<1>6. CASE address
  <2>1. Halted'
    BY <1>6 DEF address, select, Command, Halted
  <2>2. UNCHANGED <<tool, reg, writing, m_state, screen>> /\ at = "ask" /\ at' = "poll"
    BY <1>6 DEF address, select
  <2>3. UNCHANGED cpu
    BY <1>6 DEF address, select, Command
  <2>4. Settled => Settled'
    BY <2>1, <2>3 DEF Settled, cpu
  <2>5. Told => Told'
    BY <2>2, <2>3, ToldStays DEF cpu
  <2> QED
    BY <2>1, <2>2, <2>4, <2>5 DEF ReadOK
<1>7. CASE poll
  <2>1. /\ UNCHANGED <<port, cpu, tool, reg, writing, m_state, screen>>
        /\ at = "poll" /\ at' \in {"poll", "data", "failed"}
    BY <1>7 DEF poll, Poll
  <2>2. Halted /\ Halted'
    BY <2>1 DEF ReadOK, Halted, port
  <2>3. Settled => Settled'
    BY <2>1, <2>2 DEF Settled, cpu
  <2>4. Told => Told'
    BY <2>1, ToldStays DEF cpu
  <2> QED
    BY <2>1, <2>2, <2>3, <2>4 DEF ReadOK
<1>8. CASE read
  <2>1. UNCHANGED <<port, cpu, tool, writing>> /\ at = "data" /\ ~writing /\ Halted /\ Len(m_state) = reg
    BY <1>8 DEF read, ReadOK
  <2>2. Halted'
    BY <2>1 DEF Halted, port
  <2>3. Settled /\ Told
    <3>1. reg \in 0..8
      BY DEF TypeOK, Addresses, sR, UTSK
    <3>2. CASE reg = 0
      <4>1. r_halted
        BY <1>8, <3>2 DEF read, DataReady, CpuRegs, sR, uPC
      <4>2. Settled
        BY <2>1, <4>1 DEF r_halted, Settled, Quiet
      <4>3. DOMAIN m_state = {}
        BY <2>1, <3>2 DEF TypeOK
      <4> QED
        BY <4>2, <4>3 DEF Told
    <3>3. CASE reg > 0
      BY <2>1, <3>3 DEF ReadOK
    <3> QED
      BY <3>1, <3>2, <3>3
  <2>4. Settled'
    BY <2>1, <2>2, <2>3 DEF Settled, cpu
  <2>5. dbg_odata(reg) \in Values /\ m_state' = Append(m_state, dbg_odata(reg))
    BY <1>8 DEF read, dbg_odata, Mode, HIGH, Values, TypeOK
  <2> DEFINE v == dbg_odata(reg)
  <2>6. /\ Len(m_state') = reg + 1 /\ DOMAIN m_state' = 1 .. reg + 1
        /\ DOMAIN m_state = 1 .. reg /\ reg \in Nat
        /\ \A i \in 1 .. reg : m_state'[i] = m_state[i]
        /\ m_state'[reg + 1] = v
    <3> HIDE DEF v
    <3>1. v \in Values /\ m_state' = Append(m_state, v)
      BY <2>5 DEF v
    <3> QED
      BY <2>1, <3>1, OneMore
  <2>7. Told'
    <3>1. regs' = regs /\ gie' = gie
      BY <2>1 DEF cpu
    <3> SUFFICES ASSUME NEW i \in 1 .. reg + 1
                 PROVE  m_state'[i] = dbg_odata(i-1)' \/ (i-1 \in Flags /\ ~gie')
      BY <2>6 DEF Told, Same
    <3>2. \A a : dbg_odata(a)' = dbg_odata(a)
      BY <3>1 DEF dbg_odata
    <3>3. CASE i = reg + 1
      <4>1. i - 1 = reg
        BY <2>6, <3>3
      <4> QED
        BY <2>6, <3>2, <3>3, <4>1, Zenon
    <3>4. CASE i \in 1 .. reg
      <4>1. Same(i)
        BY <2>3, <2>6, <3>4 DEF Told
      <4> QED
        BY <2>6, <3>1, <3>2, <3>4, <4>1 DEF Same
    <3> QED
      BY <2>6, <3>3, <3>4
  <2>8. CASE reg < Last(tool)
    <3>1. at' = "ask" /\ reg' = reg + 1
      BY <1>8, <2>8 DEF read
    <3> QED
      BY <2>1, <2>4, <2>6, <2>7, <3>1 DEF ReadOK
  <2>9. CASE ~(reg < Last(tool))
    <3>1. at' = (IF tool = "zipdbg" THEN "key" ELSE "done")
      BY <1>8, <2>9 DEF read
    <3>2. tool = "zipdbg" => reg + 1 = UTSK + 1
      BY <2>9 DEF TypeOK, Last, Addresses, sR, UTSK
    <3> QED
      BY <2>1, <2>4, <2>6, <2>7, <3>1, <3>2 DEF ReadOK
  <2> QED
    BY <2>8, <2>9
<1>9. CASE write
  BY <1>9 DEF write, ReadOK
<1>10. CASE Key
  <2>1. at = "key" /\ tool = "zipdbg" /\ tool' = tool
    BY <1>10 DEF Key, KeyStep, KeyReset, KeyGo, KeyQuit, KeyView, KeyEdit, Press, ReadOK, TypeOK
  <2>2. at' \in {"look", "done"} \/ (at' = "ask" /\ writing')
    BY <1>10 DEF Key, KeyStep, KeyReset, KeyGo, KeyQuit, KeyView, KeyEdit
  <2> QED
    BY <2>1, <2>2 DEF ReadOK
<1>11. CASE UNCHANGED vars
  <2>1. UNCHANGED <<port, cpu, zip, known>>
    BY <1>11 DEF vars, seen
  <2>2. Settled' <=> Settled
    BY <2>1 DEF Settled, Halted, port, cpu
  <2>3. Told => Told'
    BY <2>1, ToldStays DEF zip, cpu
  <2>4. Halted' <=> Halted
    BY <2>1 DEF Halted, port
  <2> QED
    BY <2>1, <2>2, <2>3, <2>4 DEF ReadOK, zip
<1> QED
  BY <1>1, <1>2, <1>3, <1>4, <1>5, <1>6, <1>7, <1>8, <1>9, <1>10, <1>11 DEF Next, Tool
-----------------------------------------------------------------------------
\* A key commands the CPU to one step, or leaves it halted (StepOK).
LEMMA Stepping ==
    ASSUME TypeOK, ReadOK, StepOK, [Next]_vars
    PROVE  StepOK'
<1> SUFFICES ASSUME known', ~fired', ~Ended'
             PROVE  \/ cmd_step' /\ ran' = 0 /\ key' = "s" /\ at' = "look"
                    \/ ~cmd_step' /\ cpu_halt' /\ ran' <= (IF key' = "s" THEN 1 ELSE 0)
  BY DEF StepOK
<1> USE DEF Waiting, Ended
<1>1. ASSUME UNCHANGED <<key, known, ran, fired>>, ~Ended
      PROVE  /\ key' = key /\ ran' = ran
             /\ \/ cmd_step /\ ran = 0 /\ key = "s" /\ at = "look"
                \/ ~cmd_step /\ cpu_halt /\ ran <= (IF key = "s" THEN 1 ELSE 0)
  BY <1>1 DEF StepOK
<1>2. CASE Cpu /\ ~Ended
  <2>1. CASE Stepped
    <3>1. known /\ ~fired /\ key' = key /\ cmd_step /\ ~cmd_step' /\ cpu_halt' /\ ran' \in {ran, ran + 1}
      BY <2>1 DEF Stepped, StepClock, Issued
    <3>2. ran = 0 /\ key = "s"
      BY <1>2, <3>1 DEF StepOK
    <3> QED
      BY <3>1, <3>2
  <2>2. CASE Execute /\ Issued(~alu_phase)
    <3>1. known /\ ~fired /\ ~cmd_step /\ key' = key /\ UNCHANGED port
      BY <2>2 DEF Execute, Issued
    <3>2. cpu_halt /\ ran <= (IF key = "s" THEN 1 ELSE 0)
      BY <1>2, <3>1 DEF StepOK
    <3>3. alu_phase
      BY <2>2, <3>2 DEF Execute
    <3>4. ran' = ran
      BY <2>2, <3>3 DEF Issued
    <3> QED
      BY <3>1, <3>2, <3>4 DEF port
  <2>3. CASE (Finish \/ Interrupt \/ Tick) /\ Issued(FALSE)
    <3>1. UNCHANGED <<port, key, known, ran, fired, zip>>
      BY <2>3 DEF Finish, Interrupt, Tick, Issued
    <3> QED
      BY <1>1, <1>2, <3>1 DEF port, zip
  <2>4. CASE Break /\ Issued(FALSE)
    <3>1. UNCHANGED <<key, known, ran, fired>> /\ ~cmd_step /\ ~cmd_step' /\ cpu_halt'
      BY <2>4 DEF Break, Issued
    <3> QED
      BY <1>1, <1>2, <3>1
  <2>5. CASE Watchdog /\ fired' = known /\ UNCHANGED known
    BY <2>5
  <2> QED
    BY <1>2, <2>1, <2>2, <2>3, <2>4, <2>5 DEF Cpu, Refill
<1>3. CASE halt \/ address
  <2>1. UNCHANGED <<key, known, ran, fired>> /\ ~cmd_step /\ ~cmd_step' /\ cpu_halt' /\ ~Ended
    BY <1>3 DEF halt, address, select, Command, seen
  <2> QED
    BY <1>1, <2>1
<1>4. CASE boot \/ stalled \/ poll
  <2>1. UNCHANGED <<port, key, known, ran, fired>> /\ ~cmd_step /\ ~Ended
    BY <1>4 DEF boot, stalled, poll, seen
  <2> QED
    BY <1>1, <2>1 DEF port
<1>5. CASE zipstate
  BY <1>5 DEF zipstate, ReadOK, seen
<1>6. CASE read
  <2>1. UNCHANGED <<port, key, known, ran, fired>> /\ ~cmd_step /\ ~Ended
    BY <1>6 DEF read, DataReady, seen
  <2> QED
    BY <1>1, <2>1 DEF port
<1>7. CASE write
  <2>1. UNCHANGED <<port, key, known, ran, fired>> /\ ~cmd_step /\ ~Ended
    BY <1>7 DEF write, DataWrite, DataReady, seen
  <2> QED
    BY <1>1, <2>1 DEF port
<1>8. CASE Key
  <2>1. at = "key" /\ known' = (screen = "state") /\ ran' = 0
    BY <1>8 DEF Key, KeyStep, KeyReset, KeyGo, KeyQuit, KeyView, KeyEdit, Press
  <2>2. cpu_halt /\ ~cmd_step
    BY <2>1 DEF ReadOK, Settled, Halted
  <2>3. CASE KeyStep
    BY <2>1, <2>3 DEF KeyStep, Press, Command
  <2>4. CASE KeyReset
    <3>1. ~cmd_step' /\ cpu_halt'
      BY <2>4 DEF KeyReset, Command
    <3> QED
      BY <2>1, <3>1
  <2>5. CASE KeyGo \/ KeyQuit
    BY <2>5 DEF KeyGo, KeyQuit
  <2>6. CASE KeyView \/ KeyEdit
    <3>0. UNCHANGED port
      BY <2>6 DEF KeyView, KeyEdit
    <3>1. ~cmd_step' /\ cpu_halt'
      BY <2>2, <3>0 DEF port
    <3> QED
      BY <2>1, <3>1
  <2> QED
    BY <1>8, <2>3, <2>4, <2>5, <2>6 DEF Key
<1>9. CASE UNCHANGED vars
  <2>1. UNCHANGED <<port, key, known, ran, fired, at>>
    BY <1>9 DEF vars, zip, seen
  <2> QED
    BY <1>1, <2>1 DEF port
<1> QED
  BY <1>2, <1>3, <1>4, <1>5, <1>6, <1>7, <1>8, <1>9 DEF Next, Tool

\* What is shown of a register is what it holds, for there are as many as are shown.
LEMMA ShownHolds ==
    ASSUME TypeOK, Told, Len(m_state) = UTSK + 1, NEW a \in Addresses \ Flags
    PROVE  m_state[a+1] = regs[a]
<1>1. a \in 0..8 /\ a + 1 \in DOMAIN m_state /\ (a + 1) - 1 = a
  BY DEF TypeOK, Addresses, sR, UTSK
<1>2. Same(a+1)
  BY <1>1 DEF Told
<1> QED
  BY <1>1, <1>2 DEF Same, dbg_odata, Flags

\* From its key on an edit changes what it was to change (EditOK).
LEMMA Editing ==
    ASSUME TypeOK, ReadOK, EditOK, [Next]_vars
    PROVE  EditOK'
<1> USE DEF Waiting, Ended, Accessing
<1> DEFINE Entering == Accessing /\ writing
           Rest == \A a \in Addresses \ Flags : regs[a] = before[a+1]
           Done == \A a \in Addresses \ Flags : Landed(a)
<1> SUFFICES ASSUME known', key' = "edit", ~Ended'
             PROVE  /\ Settled' /\ before' \in Seq(Values) /\ Len(before') = UTSK + 1
                    /\ IF Entering' THEN reg' = ra(m_cursor') /\ Rest' ELSE Done'
  BY DEF EditOK
<1>1. ASSUME known, key = "edit", ~Ended
      PROVE  /\ Settled /\ before \in Seq(Values) /\ Len(before) = UTSK + 1
             /\ IF Entering THEN reg = ra(m_cursor) /\ Rest ELSE Done
  BY <1>1 DEF EditOK
<1>2. ASSUME UNCHANGED <<key, known, before, m_cursor, put, regs>>, ~Ended, Settled => Settled',
             Entering' <=> Entering, Entering => reg' = reg
      PROVE  /\ Settled' /\ before' \in Seq(Values) /\ Len(before') = UTSK + 1
             /\ IF Entering' THEN reg' = ra(m_cursor') /\ Rest' ELSE Done'
  <2>1. (Rest' <=> Rest) /\ (Done' <=> Done)
    BY <1>2 DEF Landed
  <2>2. ra(m_cursor') = ra(m_cursor)
    BY <1>2
  <2> QED
    BY <1>1, <1>2, <2>1, <2>2
<1>3. CASE Cpu /\ ~Ended
  <2>1. UNCHANGED <<zip, key, known, before>>
    BY <1>3, CpuKeeps
  <2>2. Settled
    BY <1>1, <1>3, <2>1
  <2>3. UNCHANGED <<port, regs>> /\ ~alu_phase' /\ busy' # "load"
    BY <1>3, <2>2, RestStays
  <2>4. Settled'
    BY <2>2, <2>3 DEF Settled, Halted, port
  <2> QED
    BY <1>2, <1>3, <2>1, <2>3, <2>4 DEF zip
<1>4. CASE halt \/ zipstate
  BY <1>4 DEF halt, zipstate, seen, ReadOK
<1>5. CASE boot \/ stalled \/ poll
  <2>1. UNCHANGED <<port, cpu, seen, m_cursor, put>> /\ ~Ended
    BY <1>5 DEF boot, stalled, poll
  <2>2. (Entering' <=> Entering) /\ (Entering => reg' = reg)
    BY <1>5 DEF boot, stalled, poll, Poll
  <2>3. Settled => Settled'
    BY <2>1 DEF Settled, Halted, port, cpu
  <2> QED
    BY <1>2, <2>1, <2>2, <2>3 DEF cpu, seen
<1>6. CASE address
  <2>1. UNCHANGED <<cpu, seen, m_cursor, put, reg, writing>> /\ at = "ask" /\ at' = "poll"
    BY <1>6 DEF address, select, Command
  <2>2. Settled => Settled'
    BY <1>6, <2>1 DEF address, select, Command, Settled, Halted, cpu
  <2> QED
    BY <1>2, <2>1, <2>2 DEF cpu, seen
<1>7. CASE read
  <2>1. UNCHANGED <<port, cpu, seen, m_cursor, put, writing>> /\ at = "data" /\ ~writing
    BY <1>7 DEF read
  <2>2. Settled => Settled'
    BY <2>1 DEF Settled, Halted, port, cpu
  <2> QED
    BY <1>2, <2>1, <2>2 DEF cpu, seen
<1>8. CASE write
  <2>1. UNCHANGED <<port, alu_phase, seen, m_cursor, put, reg>> /\ at = "data" /\ writing /\ at' = "look"
    BY <1>8 DEF write, DataWrite
  <2>2. Settled /\ before \in Seq(Values) /\ Len(before) = UTSK + 1 /\ reg = ra(m_cursor) /\ Rest
    BY <1>1, <2>1 DEF seen
  <2>3. Settled'
    BY <1>8, <2>1, <2>2 DEF write, DataWrite, Settled, Halted, port, Quiet
  <2>4. ASSUME NEW a \in Addresses \ Flags
        PROVE  Landed(a)'
    <3>1. regs[a] = before[a+1] /\ before' = before /\ ra(m_cursor') = reg /\ put' = put
      BY <2>1, <2>2, <2>4 DEF seen
    <3>2. CASE reg \in Flags
      <4>1. regs' = Released(regs, gie')
        BY <1>8, <3>2 DEF write, DataWrite, Flags
      <4>5. reg = uCC => gie' \in {gie, FALSE}
        <5>1. gie' \in IF reg = sCC /\ High(put) # 0 THEN {gie, TRUE}
                       ELSE IF reg = uCC /\ High(put) = 0 THEN {FALSE} ELSE {gie}
          BY <1>8, Zenon DEF write, DataWrite
        <5>2. sCC # uCC
          BY DEF sCC, uCC
        <5> QED
          BY <5>1, <5>2, Zenon
      <4>2. a # reg
        BY <3>2
      <4>3. CASE regs' = regs
        BY <3>1, <4>2, <4>3 DEF Landed
      <4>4. CASE regs' = [regs EXCEPT ![uPC] = High(regs[uPC])] /\ reg = sCC
        <5>1. CASE a = uPC
          BY <3>1, <4>4, <5>1 DEF Landed, TypeOK
        <5>2. CASE a # uPC
          BY <3>1, <4>2, <4>4, <5>2 DEF Landed, TypeOK
        <5> QED
          BY <5>1, <5>2
      <4> QED
        <5>1. CASE gie' /\ ~gie
          <6>1. reg = sCC
            BY <3>2, <4>5, <5>1, Zenon DEF Flags
          <6> QED
            BY <4>1, <4>4, <5>1, <6>1, Zenon DEF Released
        <5>2. CASE ~(gie' /\ ~gie)
          BY <4>1, <4>3, <5>2, Zenon DEF Released
        <5> QED
          BY <5>1, <5>2
    <3>3. CASE reg \notin Flags
      <4>1. regs' = [regs EXCEPT ![reg] = Kept(reg, put, regs[reg], gie)]
        BY <1>8, <3>3 DEF write, DataWrite, Flags
      <4>2. CASE a = reg
        <5>1. regs'[a] = Kept(a, put, before[a+1], gie)
          BY <3>1, <4>1, <4>2 DEF TypeOK
        <5>2. gie \in BOOLEAN
          BY DEF TypeOK
        <5> QED
          BY <3>1, <4>2, <5>1, <5>2 DEF Landed
      <4>3. CASE a # reg
        BY <3>1, <4>1, <4>3 DEF Landed, TypeOK
      <4> QED
        BY <4>2, <4>3
    <3> QED
      BY <3>2, <3>3
  <2>5. Done'
    BY <2>4
  <2> QED
    BY <2>1, <2>2, <2>3, <2>5 DEF seen
<1>9. CASE Key
  <2>1. KeyEdit
    BY <1>9 DEF Key, KeyStep, KeyReset, KeyGo, KeyQuit, KeyView, Press
  <2>2. at = "key" /\ screen = "state" /\ before' = m_state
    BY <2>1 DEF KeyEdit, Press
  <2>3. Settled /\ Told /\ Len(m_state) = UTSK + 1
    BY <2>2 DEF ReadOK
  <2>4. UNCHANGED <<port, cpu>> /\ at' = "ask" /\ writing' /\ reg' = ra(m_cursor')
    BY <2>1 DEF KeyEdit
  <2>5. Settled'
    BY <2>3, <2>4 DEF Settled, Halted, port, cpu
  <2>6. Rest'
    BY <2>2, <2>3, <2>4, ShownHolds DEF cpu
  <2> QED
    BY <2>2, <2>3, <2>4, <2>5, <2>6 DEF TypeOK
<1>10. CASE UNCHANGED vars
  <2>1. UNCHANGED <<port, cpu, zip, seen>>
    BY <1>10 DEF vars
  <2>2. Settled => Settled'
    BY <2>1 DEF Settled, Halted, port, cpu
  <2> QED
    BY <1>2, <2>1, <2>2 DEF cpu, zip, seen
<1> QED
  BY <1>3, <1>4, <1>5, <1>6, <1>7, <1>8, <1>9, <1>10 DEF Next, Tool
-----------------------------------------------------------------------------
\* It holds at the start (PortInit of ZipPort, Init of ZipDbg).
LEMMA Initial == Init => IInv
<1> SUFFICES ASSUME Init PROVE IInv
  OBVIOUS
<1> USE DEF Init, PortInit
<1>1. TypeOK
  <2>1. 0 \in Values /\ 0 \in Addresses /\ 0 \in Cells
    BY DEF Values, Addresses, Cells, sR, UTSK
  <2>2. regs \in [Addresses -> Values]
    BY <2>1
  <2>3. m_state \in Seq(Values)
    BY DEF Unread
  <2> QED
    BY <2>1, <2>2, <2>3 DEF TypeOK
<1>2. ReadOK
  BY DEF ReadOK, Accessing, Waiting
<1>3. StepOK /\ EditOK
  BY DEF StepOK, EditOK
<1> QED
  BY <1>1, <1>2, <1>3 DEF IInv

\* The inductive invariant of both programs (ZipDbg).
THEOREM DebugInvariance == Spec => []IInv
<1>1. IInv /\ [Next]_vars => IInv'
  <2> SUFFICES ASSUME IInv, [Next]_vars PROVE IInv'
    OBVIOUS
  <2> USE DEF IInv
  <2>1. TypeOK'
    BY Types
  <2>2. ReadOK'
    BY Reading
  <2>3. StepOK'
    BY Stepping
  <2>4. EditOK'
    BY Editing
  <2> QED
    BY <2>1, <2>2, <2>3, <2>4
<1> QED
  BY Initial, <1>1, PTL DEF Spec

\* What the debugger shows while it waits for a key, and what zipstate has printed, is
\* what the registers hold (read_state of zipdbg.cpp against the halt of zipsystem.v).
THEOREM AlwaysShowsTruth == Spec => []ShownIsTrue
<1>1. IInv => ShownIsTrue
  <2> SUFFICES ASSUME IInv, Printed PROVE \A i \in DOMAIN m_state : Same(i)
    BY DEF ShownIsTrue, Same, Flags
  <2>1. Told
    BY DEF IInv, ReadOK, Printed
  <2> QED
    BY <2>1 DEF Told
<1> QED
  BY DebugInvariance, <1>1, PTL

\* A step of a CPU that is shown is at most one instruction or compressed pair, no other
\* key lets it run, and no pair is shown half done (cmd_step of zipsystem.v, alu_phase of
\* zipcpu.v).
THEOREM AlwaysStepsOne == Spec => []StepsOne
<1>1. IInv => StepsOne
  <2> SUFFICES ASSUME IInv, Waiting, known, ~fired
               PROVE  /\ ran <= IF key = "s" THEN 1 ELSE 0
                      /\ screen = "state" => ~alu_phase
    BY DEF StepsOne
  <2>1. screen = "state" => Settled
    BY DEF IInv, ReadOK
  <2> QED
    BY <2>1 DEF IInv, StepOK, Settled, Waiting, Ended
<1> QED
  BY DebugInvariance, <1>1, PTL

\* An edit changes the cell it was typed into and no other (get_value of zipdbg.cpp,
\* and the writes of zipsystem.v).
THEOREM EditsAlwaysLand == Spec => []EditLands
<1>1. IInv => EditLands
  <2> SUFFICES ASSUME IInv, Waiting, key = "edit", known, screen = "state",
                      ~(m_timers /\ m_cursor = Counter), NEW b \in Addresses \ Flags
               PROVE  LET a == Shown(m_cursor)
                      IN  \/ b = a /\ \E user \in BOOLEAN : m_state[b+1] = Kept(b, put, before[b+1], user)
                          \/ b # a /\ m_state[b+1] = before[b+1]
                          \/ b = uPC /\ a = sCC /\ m_state[b+1] = High(before[b+1])
    BY DEF EditLands, EditChanges, Flags
  <2>1. Told /\ Len(m_state) = UTSK + 1
    BY DEF IInv, ReadOK
  <2>2. m_state[b+1] = regs[b]
    BY <2>1, ShownHolds DEF IInv
  <2>3. Landed(b)
    BY DEF IInv, EditOK, Waiting, Ended, Accessing
  <2>4. ra(m_cursor) = Shown(m_cursor)
    BY DEF ra, Shown
  <2> QED
    BY <2>2, <2>3, <2>4 DEF Landed
<1> QED
  BY DebugInvariance, <1>1, PTL
=============================================================================
