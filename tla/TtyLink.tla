------------------------------ MODULE TtyLink ------------------------------
(* Programs on the host (TtyBus) and the debug port (TtyDevice) at the two ends of the
   streams. What follows is not in the code: the writes asked for that the port has not
   yet decoded, and those it has but will throw away; the words the bus has answered to
   this call; and what has gone wrong. *)
EXTENDS TtyDevice

VARIABLES posted, doomed, fetched,
          trouble       \* "none", a "reset" by the watchdog, or "more": a bus error, or a
                        \* program that came or went with something under way

ghosts == <<posted, doomed, fetched, trouble>>
vars   == <<toDev, toHost, host, device, ghosts>>

Init == /\ HostInit /\ StreamInit /\ DeviceInit
        /\ posted = <<>> /\ doomed = <<>> /\ fetched = <<>> /\ trouble = "none"

Asked(c) == IF c.op # "write" THEN <<>>
            ELSE [i \in 1..Len(c.vals) |-> <<c.a + (IF c.inc THEN i-1 ELSE 0), c.vals[i]>>]

AppCall == /\ Call /\ UNCHANGED <<device, doomed, trouble>>
           /\ posted' = posted \o Asked(call') /\ fetched' = <<>>
\* What a write that is given up has not sent was never posted.
GivenUp == IF call.op = "write" /\ pc # "app" THEN Len(call.vals) - nw ELSE 0
Posted  == SubSeq(posted, 1, Len(posted) - GivenUp)
Library == /\ HostStep /\ UNCHANGED <<device, doomed, fetched, trouble>>
           /\ posted' = IF pc' = "app" THEN Posted ELSE posted

\* Anything still on its way when a program ends will meet the next one; one that begins
\* when nothing is starts anew, whatever befell those before it.
UnderWay == \/ toDev # <<>> \/ burst # "none" \/ answers # <<>> \/ pc # "app"
            \/ \E i \in DOMAIN toHost : toHost[i] \notin {0, 2, 4, NL}
Replace == /\ NewProgram /\ UNCHANGED <<device, doomed, fetched>> /\ posted' = Posted
           /\ trouble' = IF UnderWay THEN "more" ELSE "none"

TakesWrite == toDev # <<>> /\ burst # "read" /\ toDev[1] \in 16..31
Device ==
    /\ DeviceStep /\ UNCHANGED host
    /\ posted' = IF TakesWrite /\ toDev' # toDev THEN Tail(posted) ELSE posted
    /\ doomed' = IF burst = "write" /\ burst' = "none" THEN <<>>
                 ELSE IF TakesWrite /\ toDev' # toDev /\ burst # "none"
                 THEN Append(doomed, posted[1]) ELSE doomed
    /\ fetched' = IF left' < left /\ addr \in Word THEN Append(fetched, mem[addr]) ELSE fetched
    /\ trouble' = IF burst' = "flush" \/ (burst = "read" /\ addr \notin Word) THEN "more"
                  ELSE IF burst = "write" /\ burst' = "none" /\ trouble = "none" THEN "reset"
                  ELSE trouble
Noise == Interject /\ UNCHANGED <<host, ghosts>>
\* A host that has something to do has done it long before the debug port says it is idle.
Idle  == SayIdle /\ pc # "readidle" /\ UNCHANGED <<host, ghosts>>

Next == AppCall \/ Library \/ Replace \/ Device \/ Noise \/ Idle

\* The process runs, the debug port works, and when it is quiet for long it says so.
Fairness == WF_vars(Library) /\ WF_vars(Device) /\ WF_vars(Idle)
Spec == Init /\ [][Next]_vars /\ Fairness

-----------------------------------------------------------------------------
Contract == INSTANCE DevBus WITH
    got <- buf, posted <- doomed \o posted, upset <- trouble # "none"

(* The library keeps what devbus.h promises: each word of a read is what the bus holds
   at its address once every write before it is done, and writes reach the bus in
   order, at the address and with the value asked for. It does so until the watchdog,
   an error or a stopped program upsets it, and again for a program that begins when
   nothing of that is left. *)
ImplementsDevBus == Contract!Spec

(* The two ends agree on the table of values already written, whatever else went
   wrong: a write decoded by the device, to be done or thrown away, always carries the
   value the program gave. *)
ValuesSurvive ==
    [][TakesWrite /\ toDev' # toDev =>
         WrittenValue(SubSeq(toDev, 1, Length(toDev[1]))) = posted[1][2]]_vars

(* However many of its commands the watchdog throws away, and whenever: a read or a
   write returns to the program, if only with an error, or ends it; unless the bus or
   another program before it had upset the streams. *)
CallReturns == (call.op \in {"read", "write"}) ~> (pc \in {"app", "exit"} \/ trouble = "more")
=============================================================================
