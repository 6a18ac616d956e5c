----------------------------- MODULE WbBusLive -----------------------------
(***************************************************************************)
(* What the bus of WbBus must eventually do.  The clock never stops: clk   *)
(* changes on every edge, so weak fairness of the edge means time passes   *)
(* even while nothing else on the bus changes.                             *)
(***************************************************************************)
EXTENDS WbBus

VARIABLE clk

livevars == <<allvars, clk>>

LiveInit  == BusInit /\ clk = 0
LiveClock == BusClock /\ clk' = 1 - clk

\* The edge is always enabled and always turns clk over, so this is
\* WF_livevars(LiveClock), told by the states alone.
ClockRuns == []<>(clk = 0) /\ []<>(clk = 1)

ClockSpec == LiveInit /\ [][LiveClock]_livevars /\ ClockRuns

\* A slave does not stall for ever, and answers what it has accepted.
SlavesProgress ==
    \A c \in Slaves :
        /\ []<>(o_sstb[c] => ~i_sstall[c])
        /\ []<>(sout[c] = 0 \/ i_sack[c] \/ i_serr[c])

LowestPriority == NM - 1

\* No other master holds its bus cycle for ever.
OthersYield == \A k \in Masters \ {LowestPriority} : []<>(~i_mcyc[k])

FairSpec ==
    /\ LiveInit /\ [][LiveClock]_livevars /\ ClockRuns
    /\ SlavesProgress
    /\ OthersYield

\* Although the arbiter's priority is fixed, the last master is not starved by
\* the others as long as they end their bus cycles: its pending request is
\* answered, unless it gives up itself.
LastMasterServed ==
    mout[LowestPriority] > 0 ~>
        (o_mack(LowestPriority) \/ o_merr(LowestPriority) \/ ~i_mcyc[LowestPriority])

\* With OPT_TIMEOUT set, a slave that never answers does not hang its master:
\* the wait ends with an answer, an error, or the master giving up
\* (wbxbar.v:101-106, "this value will determine the number of clock cycles to
\* wait for a misbehaving slave before returning a bus error").
HungSlaveReported ==
    \A n \in Masters :
        mgrant[n] /\ lclpending[n] > 0 ~> (o_mack(n) \/ o_merr(n) \/ ~i_mcyc[n])
=============================================================================
