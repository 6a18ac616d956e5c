------------------------------- MODULE ZipDbg -------------------------------
(* Two programs of the host that look at the CPU through its debug port: the debugger
   sw/host/zipdbg.cpp, which reads everything after every key and waits for the next,
   and sw/host/zipstate.cpp, which reads the registers and ends. One access to the port
   is one step. *)
EXTENDS ZipPort

CONSTANTS MAXERR,      \* polls of a CPU that does not come to rest: 100000, or 1000
          TRIES        \* polls at the start of zipdbg: 5

ASSUME ZipDbgAssumption == MAXERR \in Nat \ {0} /\ TRIES \in Nat \ {0}

VARIABLES tool,        \* which of the two runs
          at,          \* the next thing it does
          reg,         \* the address cmd_read or cmd_write is at
          writing,     \* it is cmd_write
          put,         \* the value typed last
          errcount,
          m_state,     \* what has been read since the last key, by address
          m_cursor,    \* the cell of the last edit
          m_timers,    \* m_show_users_timers, at that time
          screen       \* "state", or "stalled" when the CPU was not at rest

\* What happened since the last key, for the properties: the key, whether the state was
\* shown when it came, and what that was before an edit; the instructions issued (up to
\* 2, a compressed pair being one), and whether the watchdog has fired.
VARIABLES key, known, before, ran, fired

zip  == <<tool, at, reg, writing, put, errcount, m_state, m_cursor, m_timers, screen>>
seen == <<key, known, before, ran, fired>>
vars == <<port, cpu, zip, seen>>

\* Bound: what is typed into a cell, no bit or all; for the interrupt controller, enables
\* to clear or to set.
Typed(a) == IF a = PIC THEN {6, 7} ELSE {0, 7}
Unread  == <<>>
Waiting == at = "key"

\* One cell of the screen to each: the peripherals, the counter of the page that is
\* shown, then the registers.
Cells == 0..7
FirstReg == 3
Counter == 2
Shown(c) == IF c >= FirstReg THEN c - FirstReg
            ELSE IF c = Counter /\ m_timers THEN UTSK ELSE c + PIC

\* get_value: ra, the address of the register an edit is written to.
ra_AfterFirst(c) == IF c > FirstReg THEN c - FirstReg ELSE c + PIC
ra(c) == IF c >= FirstReg THEN c - FirstReg ELSE c + PIC

Last(t) == IF t = "zipdbg" THEN UTSK ELSE uPC

Init ==
    /\ PortInit
    /\ tool \in {"zipdbg", "zipstate"}
    /\ at = "start" /\ reg = 0 /\ writing = FALSE /\ put = 0 /\ errcount = 0 /\ m_state = Unread
    /\ m_cursor = 0 /\ m_timers = FALSE /\ screen = "none"
    /\ key = "none" /\ known = FALSE /\ before = Unread /\ ran = 0 /\ fired = FALSE
-----------------------------------------------------------------------------
(* Before the first key *)

\* zip->halt(), and a few looks for it to have come to rest.
halt ==
    /\ tool = "zipdbg" /\ at = "start"
    /\ Command(TRUE, FALSE, FALSE) /\ at' = "boot"
    /\ UNCHANGED <<tool, reg, writing, put, errcount, m_state, m_cursor, m_timers, screen, seen>>

boot ==
    /\ at = "boot" /\ ~cmd_step
    /\ \/ ~r_halted /\ errcount < TRIES /\ errcount' = errcount + 1 /\ UNCHANGED at
       \/ (r_halted \/ errcount = TRIES) /\ errcount' = 0 /\ at' = "look"
    /\ UNCHANGED <<port, cpu, tool, reg, writing, put, m_state, m_cursor, m_timers, screen, seen>>

\* zipstate prints the control register, or with -l reads the registers one by one.
zipstate ==
    /\ tool = "zipstate" /\ at = "start" /\ at' \in {"done", "ask"}
    /\ m_state' = Unread
    /\ UNCHANGED <<port, cpu, tool, reg, writing, put, errcount, m_cursor, m_timers, screen, seen>>
-----------------------------------------------------------------------------
(* cmd_read and cmd_write, and read_state made of them *)

\* After a key, and at the start: the registers are read if the CPU is at rest.
stalled ==
    /\ at = "look" /\ ~cmd_step
    /\ m_state' = Unread /\ reg' = 0 /\ writing' = FALSE
    /\ IF r_halted THEN at' = "ask" /\ UNCHANGED screen ELSE at' = "key" /\ screen' = "stalled"
    /\ UNCHANGED <<port, cpu, tool, put, errcount, m_cursor, m_timers, seen>>

\* Mutant: only the address is written.
select_Address == at = "ask" /\ Command(FALSE, FALSE, FALSE)
select == at = "ask" /\ Command(TRUE, FALSE, FALSE)

address ==
    /\ select /\ at' = "poll" /\ errcount' = 0
    /\ UNCHANGED <<tool, reg, writing, put, m_state, m_cursor, m_timers, screen, seen>>

\* Mutant: the polls are not counted.
Poll_Ever == ~r_halted /\ UNCHANGED <<errcount, at>>
Poll == ~r_halted /\ errcount < MAXERR /\ errcount' = errcount + 1 /\ UNCHANGED at

poll ==
    /\ at = "poll" /\ ~cmd_step
    /\ \/ Poll
       \/ /\ r_halted \/ errcount = MAXERR
          /\ at' = IF errcount >= MAXERR THEN "failed" ELSE "data"
          /\ UNCHANGED errcount
    /\ UNCHANGED <<port, cpu, tool, reg, writing, put, m_state, m_cursor, m_timers, screen, seen>>

\* read_raw_state: after the last register come the instructions and the stack, whose
\* reads may fail and are then shown as errors.
read ==
    /\ at = "data" /\ ~writing /\ DataReady(reg)
    /\ m_state' = Append(m_state, dbg_odata(reg))
    /\ IF reg < Last(tool) THEN at' = "ask" /\ reg' = reg + 1 /\ UNCHANGED screen
       ELSE at' = (IF tool = "zipdbg" THEN "key" ELSE "done") /\ screen' = "state" /\ reg' = 0
    /\ UNCHANGED <<port, cpu, tool, writing, put, errcount, m_cursor, m_timers, seen>>

write ==
    /\ at = "data" /\ writing /\ DataWrite(reg, put) /\ at' = "look"
    /\ UNCHANGED <<tool, reg, writing, put, errcount, m_state, m_cursor, m_timers, screen, seen>>
-----------------------------------------------------------------------------
(* The keys: each is followed by a look, but for those that end the program *)

Press(k) ==
    /\ Waiting /\ key' = k /\ known' = (screen = "state")
    /\ before' = IF k = "edit" THEN m_state ELSE Unread
    /\ ran' = 0 /\ fired' = FALSE /\ m_state' = Unread
    /\ UNCHANGED <<tool, errcount, screen>>

Stay == put' = 0 /\ m_cursor' = 0 /\ m_timers' = FALSE /\ UNCHANGED <<reg, writing>>

KeyStep  == Press("s") /\ Command(FALSE, TRUE, FALSE) /\ at' = "look" /\ Stay
KeyReset == Press("other") /\ Command(TRUE, FALSE, TRUE) /\ at' = "look" /\ Stay
KeyGo    == Press("other") /\ Command(FALSE, FALSE, FALSE) /\ at' = "done" /\ Stay
KeyQuit  == Press("other") /\ at' = "done" /\ Stay /\ UNCHANGED <<port, cpu>>

\* The arrows and the pages of counters only matter to an edit: see KeyEdit.
KeyView  == Press("other") /\ at' = "look" /\ Stay /\ UNCHANGED <<port, cpu>>

\* A value is typed into the cell that the arrows have been moved to, on the page that
\* is shown, and cmd_write takes it from there.
KeyEdit ==
    /\ Press("edit") /\ at' = "ask" /\ writing' = TRUE
    /\ m_cursor' \in Cells /\ m_timers' \in {m_cursor' = Counter, FALSE} /\ reg' = ra(m_cursor') /\ put' \in Typed(reg')
    /\ UNCHANGED <<port, cpu>>

Key == KeyStep \/ KeyReset \/ KeyGo \/ KeyQuit \/ KeyView \/ KeyEdit

-----------------------------------------------------------------------------
Issued(b) == ran' = (IF b /\ known /\ ran < 2 THEN ran + 1 ELSE ran) /\ UNCHANGED <<key, known, before, fired, zip>>

Stepped == \E issues \in BOOLEAN : StepClock(issues) /\ Issued(issues /\ ~alu_phase)
Refill  == busy = "fill" /\ Finish /\ Issued(FALSE)

Cpu ==
    \/ Execute /\ Issued(~alu_phase)
    \/ Stepped
    \/ Refill
    \/ busy = "load" /\ Finish /\ Issued(FALSE)
    \/ (Break \/ Interrupt \/ Tick) /\ Issued(FALSE)
    \/ Watchdog /\ fired' = known /\ UNCHANGED <<key, known, before, ran, zip>>

Tool == halt \/ boot \/ zipstate \/ stalled \/ address \/ poll \/ read \/ write

\* Bound: the CPU is not followed once the tool has ended.
Ended == at \in {"done", "failed"}
Next  == (~Ended /\ Cpu) \/ Tool \/ Key

\* The host goes on with what it has begun, a clock follows a clock, and the memory the
\* CPU fetches from answers; a load need not come back.
Spec ==
    /\ Init /\ [][Next]_vars
    /\ WF_vars(Tool) /\ WF_vars(Stepped) /\ WF_vars(Refill)
-----------------------------------------------------------------------------
\* While the debugger waits for a key below what it has read, and when zipstate has
\* printed it, that is what the CPU and its counters hold, and all of one moment; only
\* the mode can have changed, from the user's to the supervisor's.
Printed == screen = "state" /\ (Waiting \/ (tool = "zipstate" /\ at = "done"))
ShownIsTrue ==
    Printed => \A i \in DOMAIN m_state :
        m_state[i] = dbg_odata(i-1) \/ (i-1 \in {sCC, uCC} /\ ~gie)

\* A step of a CPU whose state is shown is one instruction, or one compressed pair of
\* them, or none when it sleeps, and no other key lets it run, unless the watchdog goes
\* off as it steps; and what is shown is never the middle of a pair.
StepsOne ==
    Waiting /\ known /\ ~fired =>
        /\ ran <= IF key = "s" THEN 1 ELSE 0
        /\ screen = "state" => ~alu_phase

\* After the edit of what is at address a, the next look shows there what that register
\* keeps of the word typed, and everything else as it was; but that a return to user mode
\* takes the half of the word its program counter asks for.
EditChanges(a) ==
    Waiting /\ key = "edit" /\ known /\ screen = "state" =>
        \A b \in Addresses \ {sCC, uCC} :
            \/ b = a /\ \E user \in BOOLEAN : m_state[b+1] = Kept(b, put, before[b+1], user)
            \/ b # a /\ m_state[b+1] = before[b+1]
            \/ b = uPC /\ a = sCC /\ m_state[b+1] = High(before[b+1])

\* An edit changes what is in the cell that the cursor is on, and nothing else: on the
\* page of the master's counters (cmd_write at the address get_value works out).
EditLands == ~(m_timers /\ m_cursor = Counter) => EditChanges(Shown(m_cursor))

\* zipdbg.cpp:8, "modify registers as(if) needed": the registers it shows. But get_value
\* does not look at the page that is shown.
EditsWhatIsShown == EditChanges(Shown(m_cursor))

\* Whatever the CPU is doing, the program comes back for the next key, or ends.
Working == ~Waiting /\ ~Ended
KeyAnswered == Working ~> ~Working
=============================================================================
