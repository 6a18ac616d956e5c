----------------------------- MODULE WbuExecBus -----------------------------
(***************************************************************************)
(* The bus master of WbuExec fed, as its code expects (wbuexec.v:254, "if  *)
(* (i_stb && !o_busy ..."), by a source that holds a codeword for as long  *)
(* as o_busy is up.  The host (sw/host/ttybus.cpp) writes bursts of one    *)
(* kind only, and wbureadcw.v ends each of them with an end-of-write.      *)
(*                                                                         *)
(* asked, answered, lastaddr and failed are not in the code.  The first    *)
(* two count the words of a vector read; lastaddr is the address the host  *)
(* works out from what it sent and was told (m_lastaddr of ttybus.cpp);    *)
(* failed is set by a bus error, until an address is next set.             *)
(***************************************************************************)
EXTENDS WbuExec

CONSTANT MayErr      \* whether a slave may answer with an error

VARIABLES asked, answered, lastaddr, failed

allvars == <<vars, asked, answered, lastaddr, failed>>

Taken == i_stb /\ ~o_busy

\* What a host sends after the codeword last.
Follows(last, cw) ==
    /\ IsWrite(last) => cw.op = "eow" \/ (IsWrite(cw) /\ cw.inc = last.inc)
    /\ cw.op = "eow" => IsWrite(last)

SourceClock ==
    \/ /\ i_stb /\ o_busy
       /\ UNCHANGED <<i_stb, i_codword>>
    \/ /\ Taken \/ ~i_stb
       /\ i_stb' = FALSE
       /\ UNCHANGED i_codword
    \/ /\ Taken \/ ~i_stb
       /\ i_stb' = TRUE
       /\ \E cw \in Command : Follows(i_codword, cw) /\ i_codword' = cw

plus(a, n) == (a + n) % ADDRESSES
Step(inc)  == IF inc THEN 1 ELSE 0

\* lastaddr after the answer on o_codword, then after the command taken.
Answered == IF o_stb /\ o_codword.kind = "data"
            THEN plus(lastaddr, Step(o_codword.inc)) ELSE lastaddr
HostClock ==
    /\ asked' = IF Starts /\ IsRead(i_codword) THEN i_codword.len ELSE asked
    /\ answered' = IF Starts THEN 0
                   ELSE IF wb_state = "read" /\ i_wb_ack THEN answered + 1 ELSE answered
    /\ lastaddr' =
          IF ~Taken THEN Answered
          ELSE IF i_codword.op = "addr" THEN i_codword.a
          ELSE IF i_codword.op = "rel" THEN plus(Answered, i_codword.a)
          ELSE IF IsWrite(i_codword) THEN plus(Answered, Step(i_codword.inc))
          ELSE Answered
    /\ failed' = (i_wb_err \/ (failed /\ ~(Taken /\ i_codword.op = "addr")))

Init == /\ ExecInit
        /\ i_reset = FALSE /\ i_stb = FALSE /\ i_codword = [op |-> "eow"]
        /\ asked = 0 /\ answered = 0 /\ lastaddr = o_wb_addr
        /\ failed = FALSE

Next == /\ ExecClock /\ SourceClock /\ HostClock
        /\ ~MayErr => ~i_wb_err'
        /\ i_reset' = FALSE

Spec == Init /\ [][Next]_allvars
-----------------------------------------------------------------------------
\* A vector read asks for exactly as many words as it was told to, and ends
\* with the last of them: the two flags that stop it, last_read_request and
\* last_ack, are set a clock before the counters they look at.
ReadsExactly ==
    [][wb_state = "read" /\ wb_state' = "idle" /\ ~i_wb_err
         => answered' = asked /\ ~o_wb_stb /\ Len(atSlave) = 1]_allvars

\* The host is told every word of a vector read at the address it works out,
\* and an address it is told is the one it expects, as long as no bus error has
\* come since it last set the address (ttybus.cpp:351-355, readword() and
\* encode_address() against wbuexec.v:254-273).
HostKnowsAddress ==
    o_stb /\ o_codword.kind \in {"data", "addr"} => o_codword.a = lastaddr
HostKnowsAddressSet == failed \/ HostKnowsAddress
=============================================================================
