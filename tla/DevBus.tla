------------------------------- MODULE DevBus -------------------------------
(* What sw/host/devbus.h promises to the programs that use the bus from a host:
   a vector read is the sequence of reads of its addresses, a vector write the
   sequence of its writes, and a call finds what the earlier ones left. Writes are
   posted: writei returns before the bus has done them. Nothing is promised of what
   comes after a bus error, or when a program is stopped with answers still to come,
   until a program begins anew. *)
EXTENDS Naturals, Sequences

CONSTANTS Calls,                \* the calls a program may make
          Word, MemoryOf(_)     \* the addresses of the bus, and what each holds at first

VARIABLES mem,      \* what the bus holds
          posted,   \* <<address, value>> written by the program and not yet on the bus
          call,     \* the call the program is in, or [op |-> "none"]
          fetched,  \* what the bus answered to it
          got,      \* what the program has been given of that
          upset     \* a bus error, or a program stopped in the middle

vars == <<mem, posted, call, fetched, got, upset>>

NoCall == [op |-> "none"]
At(a, inc, i) == IF inc THEN a + i ELSE a     \* the address of the word numbered i from 0

Init == mem = [w \in Word |-> MemoryOf(w)] /\ posted = <<>> /\ call = NoCall
        /\ fetched = <<>> /\ got = <<>> /\ upset = FALSE

Begin(c) ==
    /\ call = NoCall
    /\ call' = c /\ fetched' = <<>> /\ got' = <<>>
    /\ posted' = IF c.op # "write" THEN posted
                 ELSE posted \o [i \in 1..Len(c.vals) |-> <<At(c.a, c.inc, i-1), c.vals[i]>>]
    /\ UNCHANGED <<mem, upset>>

Perform ==
    /\ posted # <<>>
    /\ mem' = [mem EXCEPT ![posted[1][1]] = posted[1][2]]
    /\ posted' = Tail(posted)
    /\ UNCHANGED <<call, fetched, got, upset>>

Fetch ==
    /\ call.op = "read" /\ posted = <<>> /\ Len(fetched) < call.len
    /\ fetched' = Append(fetched, mem[At(call.a, call.inc, Len(fetched))])
    /\ UNCHANGED <<mem, posted, call, got, upset>>

\* With the last of its words a read returns.
Give ==
    /\ Len(got) < Len(fetched)
    /\ got' = Append(got, fetched[Len(got)+1])
    /\ call' = IF Len(got') = call.len THEN NoCall ELSE call
    /\ UNCHANGED <<mem, posted, fetched, upset>>

Return ==
    /\ call.op \in {"write", "wait"}
    /\ call' = NoCall
    /\ UNCHANGED <<mem, posted, fetched, got, upset>>

\* A program begins on a bus that has come to rest.
Anew ==
    /\ upset /\ ~upset'
    /\ call' = NoCall /\ posted' = <<>>
    /\ UNCHANGED mem

Next == (\E c \in Calls : Begin(c)) \/ Perform \/ Fetch \/ Give \/ Return \/ Anew

\* The promise holds as long as nothing has been upset.
Spec == Init /\ [][Next \/ upset']_vars
=============================================================================
