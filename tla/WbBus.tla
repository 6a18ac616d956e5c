------------------------------- MODULE WbBus -------------------------------
(***************************************************************************)
(* The crossbar between bus masters and bus slaves that keep the rules of  *)
(* the Wishbone bus, as rtl/main.v wires them.                             *)
(*                                                                         *)
(* A master (rtl/cpu/pipemem.v, rtl/wbubus/wbuexec.v, ...) holds a stalled *)
(* strobe, drops i_mcyc on the clock after an error, and may abandon its   *)
(* cycle at any time.  A slave with Latency 0 handshakes: it stalls and    *)
(* answers when it likes and forgets everything when its cyc falls.  A     *)
(* slave with Latency k > 0 never stalls and acknowledges k clocks after   *)
(* the strobe, looking at nothing else: the SIO ports of rtl/main.v (1)    *)
(* and rtl/wbubus/wbconsole.v (2).                                         *)
(***************************************************************************)
EXTENDS WbXbar, Sequences

CONSTANTS Latency,      \* clocks from strobe to acknowledgement, per slave
          MaySlaveErr,  \* the slaves that may answer with an error
          MaxOut,       \* bound: requests each master leaves unanswered at once
          MayReset      \* whether i_reset ever rises

ASSUME EnvironmentAssumption ==
    /\ Latency \in [Slaves -> 0 .. 2]    \* main.v has none above 2
    /\ MaySlaveErr \subseteq {c \in Slaves : Latency[c] = 0}
    /\ MaxOut \in [Masters -> Nat \ {0}]
    /\ MayReset \in BOOLEAN

VARIABLES mout,         \* per master: accepted by the crossbar, unanswered
          sout,         \* per slave: accepted in this cycle, unanswered
          spipe         \* per pipelined slave: what it has yet to acknowledge

allvars == <<vars, mout, sout, spipe>>

Accepted(n)  == i_mcyc[n] /\ i_mstb(n) /\ ~o_mstall(n)
Answered(n)  == i_mcyc[n] /\ (o_mack(n) \/ o_merr(n))
SlaveTakes(c)   == o_scyc[c] /\ o_sstb[c] /\ ~i_sstall[c]
SlaveAnswers(c) == o_scyc[c] /\ (i_sack[c] \/ i_serr[c])

Count(b) == IF b THEN 1 ELSE 0
Monus(a, b) == IF a >= b THEN a - b ELSE 0

MasterMoves == [cyc : BOOLEAN, req : MaybeRequest]

\* What master n may drive after this clock.
MasterMay(n, mv) ==
    /\ mv.req # NoRequest => mv.cyc
    /\ i_reset \/ (i_mcyc[n] /\ o_merr(n)) => ~mv.cyc
    /\ i_mcyc[n] /\ i_mstb(n) /\ o_mstall(n) /\ mv.cyc => mv.req = i_mreq[n]

MastersClock ==
    \E mv \in [Masters -> MasterMoves] :
        /\ \A n \in Masters : MasterMay(n, mv[n])
        /\ i_mcyc' = [n \in Masters |-> mv[n].cyc]
        /\ i_mreq' = [n \in Masters |-> mv[n].req]
        /\ mout' = [n \in Masters |->
              IF ~i_mcyc[n] \/ ~mv[n].cyc THEN 0
              ELSE Monus(mout[n] + Count(Accepted(n)), Count(Answered(n)))]
        /\ \A n \in Masters : mv[n].req # NoRequest => mout'[n] < MaxOut[n]

\* An acknowledgement still to come is stale once the cycle it answers ended.
SlavePipe(c) ==
    IF Latency[c] = 0 THEN << >>
    ELSE LET moved == Append(Tail(spipe[c]),
                             IF SlaveTakes(c) THEN "live" ELSE "none")
         IN  [i \in 1 .. Latency[c] |->
                 IF moved[i] = "live" /\ ~o_scyc'[c] THEN "stale" ELSE moved[i]]

SlaveAnswerMoves == {"none", "ack", "err"}

SlavesClock ==
    /\ sout' = [c \in Slaves |->
          IF ~o_scyc[c] \/ ~o_scyc'[c] THEN 0
          ELSE Monus(sout[c] + Count(SlaveTakes(c)), Count(SlaveAnswers(c)))]
    /\ spipe' = [c \in Slaves |-> SlavePipe(c)]
    /\ i_sstall' \in [Slaves -> BOOLEAN]
    /\ \A c \in Slaves : i_sstall'[c] => Latency[c] = 0 /\ o_sstb'[c]
    /\ \E ans \in [Slaves -> SlaveAnswerMoves] :
          /\ \A c \in Slaves :
                IF Latency[c] > 0
                THEN ans[c] = IF Head(spipe'[c]) = "none" THEN "none" ELSE "ack"
                ELSE /\ ans[c] # "none" => sout'[c] > 0
                     /\ ans[c] = "err" => c \in MaySlaveErr
          /\ i_sack' = [c \in Slaves |-> ans[c] = "ack"]
          /\ i_serr' = [c \in Slaves |-> ans[c] = "err"]

BusInit ==
    /\ RegInit
    /\ i_reset = FALSE
    /\ i_mcyc = [n \in Masters |-> FALSE]
    /\ i_mreq = [n \in Masters |-> NoRequest]
    /\ i_sstall = [c \in Slaves |-> FALSE]
    /\ i_sack = [c \in Slaves |-> FALSE]
    /\ i_serr = [c \in Slaves |-> FALSE]
    /\ mout = [n \in Masters |-> 0]
    /\ sout = [c \in Slaves |-> 0]
    /\ spipe = [c \in Slaves |-> [i \in 1 .. Latency[c] |-> "none"]]

BusClock ==
    /\ XbarClock
    /\ MastersClock
    /\ SlavesClock
    /\ i_reset' \in BOOLEAN
    /\ i_reset' => MayReset

BusSpec == BusInit /\ [][BusClock]_allvars
-----------------------------------------------------------------------------
\* What the master counts as unanswered is exactly what the crossbar holds for
\* it, so no request is lost or answered twice; and what the crossbar counts
\* as pending at a slave is what that slave has yet to accept or answer
\* (FORMAL block CHECK_OUTSTANDING).
OutstandingAgree ==
    /\ \A n \in Masters : i_mcyc[n] =>
          mout[n] = lclpending[n] + Count(dcd_stb(n)) + Count(skd[n] # NoRequest)
    /\ \A n \in Masters : \A c \in grant[n] \cap Slaves :
          i_mcyc[n] /\ o_scyc[c] /\ ~i_serr[c] /\ ~o_merr(n) =>
             lclpending[n] = sout[c] + Count(o_sstb[c]) + Count(o_mack(n))

\* An acknowledgement that outlives the cycle it answers never reaches a
\* master: the crossbar takes longer to open a slave's next cycle than the
\* slaves that ignore cyc take to acknowledge.
NoStaleAnswer ==
    \A c \in Slaves : Latency[c] > 0 /\ SlaveAnswers(c) => Head(spipe[c]) = "live"

\* A request the crossbar has accepted is not dropped because the counter of
\* pending requests is full: the decoder is stalled while it is, unless the
\* master is being told of an error, which ends its cycle (compare
\* wbxbar.v:1313, "if (mfull[N]) assert(m_stall[N]);").
FullMeansStall ==
    \A n \in Masters :
        mfull[n] /\ request(n) # {} /\ ~o_merr(n) => m_stall(n)

\* The crossbar as a switch.  A master that is out of its cycle, or that has
\* been told of an error, has nothing queued and is owed nothing.
Talking(n) == i_mcyc[n] /\ ~r_merr[n]
AtSlave(n) == {c \in grant[n] \cap Slaves : o_scyc[c]}
Word(r)    == IF r = NoRequest THEN << >> ELSE <<r>>

SwitchQueue == [n \in Masters |->
    IF ~Talking(n) THEN << >>
    ELSE (IF \E c \in AtSlave(n) : o_sstb[c]
          THEN <<o_sreq[CHOOSE c \in AtSlave(n) : o_sstb[c]]>> ELSE << >>)
         \o Word(dcd[n]) \o Word(skd[n])]
SwitchOwed == [n \in Masters |->
    IF ~Talking(n) \/ AtSlave(n) = {} THEN 0
    ELSE sout[CHOOSE c \in AtSlave(n) : TRUE] + Count(o_mack(n))]

Switch == INSTANCE WbSwitch WITH
    queue <- SwitchQueue, home <- mindex, owed <- SwitchOwed, Depth <- 3

\* Every clock of the crossbar is a step of the switch.
ImplementsSwitch == Switch!Spec
=============================================================================
