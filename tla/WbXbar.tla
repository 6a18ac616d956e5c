------------------------------- MODULE WbXbar -------------------------------
(***************************************************************************)
(* The Wishbone crossbar rtl/wbxbar.v, clock by clock, in the double       *)
(* buffered form (OPT_DBLBUFFER = 1) in which rtl/main.v instantiates it   *)
(* twice, together with the skid buffer (rtl/skidbuffer.v) and the         *)
(* registered address decoder (rtl/addrdecode.v) on each master's input.   *)
(*                                                                         *)
(* One step is one rising edge of i_clk.  A variable is a register or an   *)
(* input wire; a combinational wire is an operator on them.  A bus request *)
(* (we, address, data and select together) is one value of Request; the    *)
(* decoder is the function SlaveOf, whose value NS is the code's extra     *)
(* "no slave selected" channel.  NoRequest is a strobe that is low.        *)
(* Here the inputs are arbitrary; WbBus closes the system with masters and *)
(* slaves that keep the rules of the bus.                                  *)
(***************************************************************************)
EXTENDS Naturals, FiniteSets

CONSTANTS NM,                      \* number of masters
          NS,                      \* number of slaves
          Request, NoRequest,      \* what a strobe carries, and no strobe
          SlaveOf,                 \* the address decoder
          MaxPending,              \* 2^LGMAXBURST - 1
          OPT_TIMEOUT,             \* 0: a slave is waited for without limit
          OPT_STARVATION_TIMEOUT

None    == NS
Masters == 0 .. NM-1
Slaves  == 0 .. NS-1
Channels == 0 .. NS

ASSUME SizesAssumption ==
    /\ NM \in Nat \ {0}
    /\ NS \in Nat \ {0}
ASSUME RequestAssumption ==
    /\ NoRequest \notin Request
    /\ SlaveOf \in [Request -> Channels]
ASSUME OptionsAssumption ==
    /\ MaxPending \in Nat
    /\ MaxPending >= 3
    /\ OPT_TIMEOUT \in Nat
    /\ OPT_STARVATION_TIMEOUT \in BOOLEAN
    /\ OPT_STARVATION_TIMEOUT => OPT_TIMEOUT > 0

VARIABLES
    i_reset, i_mcyc, i_mreq,       \* from the masters (i_mstb, i_maddr, ...)
    i_sstall, i_sack, i_serr,      \* from the slaves
    skd, dcd,                      \* skid buffer and decoder, per master
    grant, mgrant, mindex,         \* what each master has been granted
    sgrant, sindex,                \* who holds each slave
    o_scyc, o_sstb, o_sreq,        \* the outputs to each slave
    r_mack, r_merr,                \* the registered answers to each master
    lclpending, mempty, mnearfull, mfull,
    deadlock_timer, timed_out

inputs  == <<i_reset, i_mcyc, i_mreq, i_sstall, i_sack, i_serr>>
arbiter == <<grant, mgrant, mindex, sgrant, sindex>>
regs    == <<skd, dcd, arbiter, o_scyc, o_sstb, o_sreq, r_mack, r_merr,
             lclpending, mempty, mnearfull, mfull, deadlock_timer, timed_out>>
vars    == <<inputs, regs>>

MaybeRequest == Request \cup {NoRequest}

(***************************************************************************)
(* Requests on their way in: skid buffer, then registered decoder.         *)
(***************************************************************************)
i_mstb(n)  == i_mreq[n] # NoRequest
dcd_stb(n) == dcd[n] # NoRequest

\* The decoder's one-hot output, empty unless the master holds i_mcyc.
request(n) == IF i_mcyc[n] /\ dcd_stb(n) THEN {SlaveOf[dcd[n]]} ELSE {}

m_stb(n)   == ~mfull[n] /\ i_mcyc[n] /\ dcd_stb(n)

o_mstall(n) == skd[n] # NoRequest

\* What the skid buffer offers the decoder: what it holds goes first.
skd_out(n) == IF i_reset \/ ~i_mcyc[n] THEN NoRequest
              ELSE IF skd[n] # NoRequest THEN skd[n] ELSE i_mreq[n]

o_mack(n) == r_mack[n]
o_merr(n) == r_merr[n] /\ (OPT_STARVATION_TIMEOUT => i_mcyc[n])

(***************************************************************************)
(* The slave side as the return path sees it.  Channel None is one of the  *)
(* code's unused slave indexes: stalled and in error, never acknowledged.  *)
(***************************************************************************)
s_stall(c) == c = None \/ (o_sstb[c] /\ i_sstall[c])
s_ack(c)   == c # None /\ o_scyc[c] /\ i_sack[c]
s_err(c)   == c = None \/ (o_scyc[c] /\ i_serr[c])

m_stall_WhenFullOnly(n) ==
    /\ ~o_merr(n)
    /\ \/ None \in grant[n]
       \/ mgrant[n] /\ mindex[n] \in request(n) /\ mfull[n]
       \/ ~(mgrant[n] /\ mindex[n] \in request(n)) /\ m_stb(n)
m_stall_NeverFull(n) ==
    /\ ~o_merr(n)
    /\ \/ None \in grant[n]
       \/ mgrant[n] /\ mindex[n] \in request(n) /\ s_stall(mindex[n])
       \/ ~(mgrant[n] /\ mindex[n] \in request(n)) /\ m_stb(n)
m_stall(n) ==
    /\ ~o_merr(n)
    /\ \/ None \in grant[n]
       \/ /\ mgrant[n] /\ mindex[n] \in request(n)
          /\ mfull[n] \/ s_stall(mindex[n])
       \/ /\ ~(mgrant[n] /\ mindex[n] \in request(n))
          /\ m_stb(n)

dcd_stall(n) == dcd_stb(n) /\ m_stall(n) /\ i_mcyc[n]

SkidClock ==
    /\ skd' = [n \in Masters |->
                IF i_reset \/ ~i_mcyc[n] \/ ~dcd_stall(n) THEN NoRequest
                ELSE IF o_mstall(n) THEN skd[n] ELSE i_mreq[n]]
DecodeClock ==
    /\ dcd' = [n \in Masters |->
                IF i_reset THEN NoRequest
                ELSE IF dcd_stall(n) THEN dcd[n] ELSE skd_out(n)]

(***************************************************************************)
(* Arbitration: lower numbered masters win a slave that is free, and a     *)
(* master moves only once everything it has pending has been answered.     *)
(***************************************************************************)
mayMove_Always(n) == n \in Masters
mayMove(n) == ~mgrant[n] \/ mempty[n]

requested_GrantedOnly(n) ==
    {c \in Slaves : \E k \in 0 .. n-1 : c \in request(k) /\ c \in grant[k]}
requested(n) ==
    {c \in Slaves : \E k \in 0 .. n-1 :
        c \in request(k) /\ (c \in grant[k] \/ mayMove(k))}

drop_sgrant_MoveOnly(c) ==
    \/ i_reset
    \/ /\ sgrant[c] /\ c \notin request(sindex[c])
       /\ m_stb(sindex[c]) /\ mempty[sindex[c]]
drop_sgrant(c) ==
    \/ i_reset
    \/ /\ sgrant[c]
       /\ \/ ~i_mcyc[sindex[c]]
          \/ /\ c \notin request(sindex[c])
             /\ m_stb(sindex[c]) /\ mempty[sindex[c]]

stay_on_channel(n) ==
    \/ request(n) \cap grant[n] # {}
    \/ mgrant[n] /\ ~mempty[n]

requested_channel_is_available(n) ==
    IF NM < 2 THEN m_stb(n)
    ELSE \/ None \in request(n)
         \/ \E c \in request(n) \cap Slaves : ~sgrant[c] /\ c \notin requested(n)

\* The channels master n keeps or opens on this clock, and the masters that
\* keep or open slave c.  Both are one-hot or empty (RegrantOneHot below), so
\* the code's OR of the chosen indexes is the index chosen.
mregrant(n) ==
    IF mayMove(n)
    THEN {c \in request(n) : \/ c \in grant[n]
                             \/ c # None /\ ~sgrant[c] /\ c \notin requested(n)}
    ELSE {}

sregrant(c) ==
    {n \in Masters : /\ c \in request(n)
                     /\ c \in grant[n] \/ (~sgrant[c] /\ c \notin requested(n))
                     /\ mayMove(n)}

reindex(chosen, old) == IF chosen = {} THEN old ELSE CHOOSE i \in chosen : TRUE

ReleaseGrant(n) == i_reset \/ ~i_mcyc[n]

MasterGrantClock ==
    /\ grant' = [n \in Masters |->
            IF ReleaseGrant(n) THEN {}
            ELSE IF stay_on_channel(n) THEN grant[n]
            ELSE IF requested_channel_is_available(n) THEN request(n)
            ELSE IF m_stb(n) THEN {} ELSE grant[n]]
    /\ mgrant' = [n \in Masters |->
            IF ReleaseGrant(n) THEN FALSE
            ELSE IF stay_on_channel(n) THEN mgrant[n]
            ELSE requested_channel_is_available(n) \/ (mgrant[n] /\ ~m_stb(n))]
    /\ mindex' = [n \in Masters |->
            IF NS = 1 THEN 0 ELSE reindex(mregrant(n), mindex[n])]

SlaveGrantClock ==
    /\ sgrant' = [c \in Slaves |->
            /\ ~drop_sgrant(c)
            /\ sgrant[c] \/ \E n \in Masters : c \in request(n) /\ mayMove(n)]
    /\ sindex' = [c \in Slaves |->
            IF NM = 1 THEN 0 ELSE reindex(sregrant(c), sindex[c])]

(***************************************************************************)
(* Outputs to the slaves.                                                  *)
(***************************************************************************)
SlaveOutputClock ==
    /\ o_scyc' = [c \in Slaves |->
            sgrant[c] /\ i_mcyc[sindex[c]] /\ ~i_reset /\ ~s_err(c)]
    /\ o_sstb' = [c \in Slaves |->
            /\ sgrant[c] /\ i_mcyc[sindex[c]] /\ ~i_reset /\ ~s_err(c)
            /\ IF s_stall(c) THEN TRUE
               ELSE c \in request(sindex[c]) /\ ~mfull[sindex[c]]]
    /\ o_sreq' = [c \in Slaves |->
            IF ~sgrant[c] THEN NoRequest
            ELSE IF s_stall(c) THEN o_sreq[c] ELSE dcd[sindex[c]]]

(***************************************************************************)
(* Answers to the masters, and the count of what is still unanswered.      *)
(***************************************************************************)
ForcedError_NoSlaveOnly(n) == None \in grant[n]
ForcedError(n) == None \in grant[n] \/ (timed_out[n] /\ ~o_mack(n))

AnswerClock ==
    /\ r_mack' = [n \in Masters |->
            /\ ~i_reset /\ i_mcyc[n] /\ ~o_merr(n) /\ ~ForcedError(n)
            /\ mgrant[n] /\ s_ack(mindex[n])]
    /\ r_merr' = [n \in Masters |->
            /\ ~i_reset /\ i_mcyc[n] /\ ~o_merr(n)
            /\ ForcedError(n) \/ (mgrant[n] /\ s_err(mindex[n]))]

ClearPending(n) == i_reset \/ ~i_mcyc[n] \/ o_merr(n)
Sent(n)         == m_stb(n) /\ ~m_stall(n)

\* (&lclpending[LGMAXBURST-1:2]) && (lclpending[1:0] != 0)
NearlyFull_OffByOne(p) == p >= MaxPending - 1
NearlyFull(p)          == p >= MaxPending - 2

PendingClock ==
    /\ lclpending' = [n \in Masters |->
            IF ClearPending(n) THEN 0
            ELSE IF Sent(n) /\ ~o_mack(n)
                 THEN (lclpending[n] + 1) % (MaxPending + 1)
            ELSE IF ~Sent(n) /\ o_mack(n)
                 THEN (lclpending[n] + MaxPending) % (MaxPending + 1)
            ELSE lclpending[n]]
    /\ mempty' = [n \in Masters |->
            IF ClearPending(n) THEN TRUE
            ELSE IF Sent(n) /\ ~o_mack(n) THEN FALSE
            ELSE IF ~Sent(n) /\ o_mack(n) THEN lclpending[n] = 1
            ELSE mempty[n]]
    /\ mnearfull' = [n \in Masters |->
            IF ClearPending(n) THEN FALSE
            ELSE IF Sent(n) /\ ~o_mack(n) THEN NearlyFull(lclpending[n])
            ELSE IF ~Sent(n) /\ o_mack(n) THEN mfull[n]
            ELSE mnearfull[n]]
    /\ mfull' = [n \in Masters |->
            IF ClearPending(n) THEN FALSE
            ELSE IF Sent(n) /\ ~o_mack(n) THEN mnearfull[n]
            ELSE IF ~Sent(n) /\ o_mack(n) THEN FALSE
            ELSE mfull[n]]

(***************************************************************************)
(* The optional timeout.  The counter is $clog2(OPT_TIMEOUT) bits wide.    *)
(***************************************************************************)
TruncatedToZero == \E k \in 1 .. OPT_TIMEOUT : OPT_TIMEOUT = 2^k
TimerReload == IF TruncatedToZero THEN 0 ELSE OPT_TIMEOUT

NotWaiting(n) ==
    \/ i_reset \/ ~i_mcyc[n]
    \/ lclpending[n] = 0 /\ ~m_stb(n)
    \/ Sent(n) \/ o_mack(n) \/ o_merr(n)
    \/ ~OPT_STARVATION_TIMEOUT /\ ~mgrant[n]

CountDown(t)          == IF t > 0 THEN t - 1 ELSE t

TimeoutClock ==
    /\ deadlock_timer' = [n \in Masters |->
            IF OPT_TIMEOUT = 0 \/ NotWaiting(n) THEN TimerReload
            ELSE CountDown(deadlock_timer[n])]
    /\ timed_out' = [n \in Masters |->
            /\ OPT_TIMEOUT > 0 /\ ~NotWaiting(n)
            /\ IF deadlock_timer[n] > 0 THEN deadlock_timer[n] <= 1
               ELSE timed_out[n]]

-----------------------------------------------------------------------------
\* mindex and sindex have no initial value in the code: they start anywhere.
RegInit ==
    /\ skd = [n \in Masters |-> NoRequest]
    /\ dcd = [n \in Masters |-> NoRequest]
    /\ grant = [n \in Masters |-> {}]
    /\ mgrant = [n \in Masters |-> FALSE]
    /\ mindex \in [Masters -> IF NS = 1 THEN {0} ELSE Channels]
    /\ sgrant = [c \in Slaves |-> FALSE]
    /\ sindex \in [Slaves -> Masters]
    /\ o_scyc = [c \in Slaves |-> FALSE]
    /\ o_sstb = [c \in Slaves |-> FALSE]
    /\ o_sreq = [c \in Slaves |-> NoRequest]
    /\ r_mack = [n \in Masters |-> FALSE]
    /\ r_merr = [n \in Masters |-> FALSE]
    /\ lclpending = [n \in Masters |-> 0]
    /\ mempty = [n \in Masters |-> TRUE]
    /\ mnearfull = [n \in Masters |-> FALSE]
    /\ mfull = [n \in Masters |-> FALSE]
    /\ deadlock_timer = [n \in Masters |-> TimerReload]
    /\ timed_out = [n \in Masters |-> FALSE]

\* The edge of i_clk: every register, from the inputs of the clock it ends.
XbarClock ==
    /\ SkidClock /\ DecodeClock /\ MasterGrantClock /\ SlaveGrantClock
    /\ SlaveOutputClock /\ AnswerClock /\ PendingClock /\ TimeoutClock

InputsOK ==
    /\ i_reset  \in BOOLEAN
    /\ i_mcyc   \in [Masters -> BOOLEAN]
    /\ i_mreq   \in [Masters -> MaybeRequest]
    /\ i_sstall \in [Slaves -> BOOLEAN]
    /\ i_sack   \in [Slaves -> BOOLEAN]
    /\ i_serr   \in [Slaves -> BOOLEAN]

Init == InputsOK /\ RegInit
Next == XbarClock /\ InputsOK'
Spec == Init /\ [][Next]_vars

TypeOK ==
    /\ InputsOK
    /\ skd \in [Masters -> MaybeRequest]
    /\ dcd \in [Masters -> MaybeRequest]
    /\ grant \in [Masters -> SUBSET Channels]
    /\ mgrant \in [Masters -> BOOLEAN]
    /\ mindex \in [Masters -> Channels]
    /\ sgrant \in [Slaves -> BOOLEAN]
    /\ sindex \in [Slaves -> Masters]
    /\ o_scyc \in [Slaves -> BOOLEAN]
    /\ o_sstb \in [Slaves -> BOOLEAN]
    /\ o_sreq \in [Slaves -> MaybeRequest]
    /\ r_mack \in [Masters -> BOOLEAN]
    /\ r_merr \in [Masters -> BOOLEAN]
    /\ lclpending \in [Masters -> 0 .. MaxPending]
    /\ mempty \in [Masters -> BOOLEAN]
    /\ mnearfull \in [Masters -> BOOLEAN]
    /\ mfull \in [Masters -> BOOLEAN]
    /\ deadlock_timer \in [Masters -> Nat]
    /\ timed_out \in [Masters -> BOOLEAN]
-----------------------------------------------------------------------------
\* The register files of the two sides of the arbiter tell the same story: a
\* master holds at most one channel, a slave is held by at most one master,
\* and each side's index names the other (the FORMAL blocks GRANT_CHECKING,
\* CHECK_GRANTS and CHECK_SGRANT of wbxbar.v).
GrantsAgree ==
    /\ \A n \in Masters : \A c, d \in grant[n] : c = d
    /\ \A n \in Masters : mgrant[n] <=> grant[n] # {}
    /\ \A n \in Masters : \A c \in grant[n] \cap Slaves :
            sgrant[c] /\ sindex[c] = n /\ mindex[n] = c
    /\ \A c \in Slaves : sgrant[c] => c \in grant[sindex[c]]

\* The code ORs together the indexes of all the channels (masters) an arbiter
\* picks; that is the index of one of them only if it picks at most one.
RegrantOneHot ==
    /\ \A n \in Masters : \A c, d \in mregrant(n) : c = d
    /\ \A c \in Slaves : \A m, n \in sregrant(c) : m = n

\* The three flags kept beside the counter agree with it, though each is
\* computed from the others a clock earlier (FORMAL block CHECK_TIMEOUT).
PendingFlagsAgree ==
    \A n \in Masters :
        /\ mempty[n] <=> lclpending[n] = 0
        /\ mnearfull[n] <=> lclpending[n] >= MaxPending - 1
        /\ mfull[n] <=> lclpending[n] = MaxPending
=============================================================================
