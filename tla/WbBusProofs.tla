---------------------------- MODULE WbBusProofs ----------------------------
(***************************************************************************)
(* First the crossbar alone: what its arbiter guarantees for every number  *)
(* of masters and slaves, every option, and whatever its inputs do, for    *)
(* there Spec puts no rule on the masters and slaves at all.               *)
(*                                                                         *)
(* Then the crossbar between masters and slaves that keep the rules of the *)
(* bus: what it counts, what its flags say and what its slaves owe agree,  *)
(* for any number of masters and slaves and any decoder.                   *)
(*                                                                         *)
(* The invariant ties the two sides of the crossbar together.  A master's  *)
(* counter is what its slave has accepted, what stands at the slave's port *)
(* and the acknowledgement on its way back (Counted).  A slave whose cycle *)
(* is down owes nothing, nor does one whose grant has just been taken away *)
(* (SlaveOK), and an acknowledgement that outlives its cycle meets a slave *)
(* that is not opened yet (PipeOK).                                        *)
(***************************************************************************)
EXTENDS WbBus, SequenceTheorems, TLAPS, WellFoundedInduction

\* A full counter belongs to a master that holds a channel and is not empty.
FullHeld == \A n \in Masters : mfull[n] => mgrant[n] /\ ~mempty[n]

IInv == TypeOK /\ GrantsAgree /\ FullHeld

-----------------------------------------------------------------------------
(***************************************************************************)
(* Facts about one state.                                                  *)
(***************************************************************************)

\* A master's decoded request is one-hot, and needs i_mcyc and a word in dcd
\* (wbxbar.v:292).
LEMMA RequestOne ==
    ASSUME TypeOK, NEW n \in Masters
    PROVE  /\ request(n) \subseteq Channels
           /\ \A c, d \in request(n) : c = d
           /\ request(n) # {} <=> i_mcyc[n] /\ dcd_stb(n)
  BY RequestAssumption DEF TypeOK, InputsOK, request, dcd_stb, MaybeRequest

\* Of the masters that ask for a slave and may move, one comes first.
LEMMA LowestMaster ==
    ASSUME NEW S \in SUBSET Masters, S # {}
    PROVE  \E n \in S : \A k \in S : n <= k
<1>1. Masters \subseteq Nat
  BY SizesAssumption DEF Masters
<1>2. PICK n \in S : \A k \in S : ~ (<<k, n>> \in OpToRel(<, Nat))
  BY <1>1, WFMin, NatLessThanWellFounded, Zenon
<1>3. \A k \in S : ~ (k < n)
  BY <1>1, <1>2 DEF OpToRel
<1> QED
  BY <1>1, <1>3

\* An index register takes the value of the only index offered to it.
LEMMA ReindexOne ==
    ASSUME NEW S, NEW old, NEW i, i \in S, \A k \in S : k = i
    PROVE  reindex(S, old) = i
  BY DEF reindex

\* It keeps its value when nothing else is offered.
LEMMA ReindexKeeps ==
    ASSUME NEW S, NEW old, \A k \in S : k = old
    PROVE  reindex(S, old) = old
  BY DEF reindex

\* A master that may move and asks for a channel has room in its counter.
LEMMA AskingStrobes ==
    ASSUME IInv, NEW n \in Masters, mayMove(n), request(n) # {}
    PROVE  m_stb(n)
  BY RequestOne DEF IInv, FullHeld, mayMove, m_stb

\* Two masters never win the same free slave (wbxbar.v:321-347).
LEMMA OneWinner ==
    ASSUME TypeOK, NEW c \in Slaves, NEW k \in Masters, NEW n \in Masters,
           c \in request(k), mayMove(k), c \notin requested(k),
           c \in request(n), mayMove(n), c \notin requested(n)
    PROVE  k = n
<1>1. k \in Nat /\ n \in Nat
  BY SizesAssumption DEF Masters
<1>2. ~ (k < n)
  BY <1>1 DEF requested, mayMove, Masters
<1>3. ~ (n < k)
  BY <1>1 DEF requested, mayMove, Masters
<1> QED
  BY <1>1, <1>2, <1>3

\* Somebody wins a free slave that somebody asks for.
LEMMA SomeWinner ==
    ASSUME IInv, NEW c \in Slaves, ~sgrant[c],
           \E k \in Masters : c \in request(k) /\ mayMove(k)
    PROVE  \E n \in Masters : c \in request(n) /\ mayMove(n) /\ c \notin requested(n)
<1> DEFINE S == {k \in Masters : c \in request(k) /\ mayMove(k)}
<1>1. PICK n \in S : \A k \in S : n <= k
  BY LowestMaster
<1>2. \A k \in Masters : c \notin grant[k]
  BY DEF IInv, GrantsAgree
<1>3. c \notin requested(n)
  <2> SUFFICES ASSUME NEW k \in 0 .. n-1, c \in request(k), mayMove(k)
               PROVE  FALSE
    BY <1>2, SizesAssumption DEF requested, Masters
  <2>1. k \in S /\ k < n
    BY SizesAssumption DEF Masters
  <2> QED
    BY <1>1, <2>1, SizesAssumption DEF Masters
<1> QED
  BY <1>1, <1>3

\* What both regrant vectors pick is one-hot, so ORing indexes is choosing one
\* (wbxbar.v:543-579 and 635-671).
LEMMA OneHot == IInv => RegrantOneHot
<1> SUFFICES ASSUME IInv PROVE RegrantOneHot
  OBVIOUS
<1>1. ASSUME NEW n \in Masters PROVE \A c, d \in mregrant(n) : c = d
  BY RequestOne DEF IInv, mregrant
<1>2. ASSUME NEW c \in Slaves, NEW m \in sregrant(c), NEW n \in sregrant(c)
      PROVE  m = n
  <2>1. CASE sgrant[c]
    BY <2>1 DEF IInv, GrantsAgree, sregrant, Slaves
  <2>2. CASE ~sgrant[c]
    <3>1. \A k \in Masters : c \notin grant[k]
      BY <2>2 DEF IInv, GrantsAgree
    <3> QED
      BY <3>1, OneWinner DEF IInv, sregrant
  <2> QED
    BY <2>1, <2>2
<1> QED
  BY <1>1, <1>2 DEF RegrantOneHot
-----------------------------------------------------------------------------
(***************************************************************************)
(* Types.                                                                  *)
(***************************************************************************)

\* Initially every register has its type (the initial values of wbxbar.v).
LEMMA InitType == Init => TypeOK
  BY SizesAssumption, RequestAssumption, OptionsAssumption
  DEF Init, RegInit, TypeOK, TimerReload, Masters, Slaves, Channels, MaybeRequest

\* Every clock edge keeps the types.
LEMMA NextType ==
    ASSUME TypeOK, Next
    PROVE  TypeOK'
<1> USE DEF TypeOK, Next, XbarClock
<1>1. InputsOK'
  OBVIOUS
<1>2. /\ skd' \in [Masters -> MaybeRequest]
      /\ dcd' \in [Masters -> MaybeRequest]
  <2>1. \A n \in Masters : i_mreq[n] \in MaybeRequest
    BY DEF InputsOK
  <2>2. \A n \in Masters : skd_out(n) \in MaybeRequest
    BY <2>1 DEF skd_out, MaybeRequest
  <2>3. skd' \in [Masters -> MaybeRequest]
    BY <2>1 DEF SkidClock, MaybeRequest
  <2>4. dcd' \in [Masters -> MaybeRequest]
    BY <2>2 DEF DecodeClock, MaybeRequest
  <2> QED
    BY <2>3, <2>4
<1>3. /\ grant' \in [Masters -> SUBSET Channels]
      /\ mgrant' \in [Masters -> BOOLEAN]
  <2>1. \A n \in Masters : request(n) \subseteq Channels
    BY RequestOne
  <2>2. grant' \in [Masters -> SUBSET Channels]
    BY <2>1 DEF MasterGrantClock
  <2>3. \A n \in Masters : (mgrant[n] /\ ~m_stb(n)) \in BOOLEAN
    OBVIOUS
  <2>4. mgrant' \in [Masters -> BOOLEAN]
    BY <2>3 DEF MasterGrantClock, requested_channel_is_available, m_stb
  <2> QED
    BY <2>2, <2>4
<1>4. mindex' \in [Masters -> Channels]
  <2>1. 0 \in Channels
    BY SizesAssumption DEF Channels
  <2>2. \A n \in Masters : reindex(mregrant(n), mindex[n]) \in Channels
    BY RequestOne DEF reindex, mregrant
  <2> QED
    BY <2>1, <2>2 DEF MasterGrantClock
<1>5. /\ sgrant' \in [Slaves -> BOOLEAN]
      /\ sindex' \in [Slaves -> Masters]
  <2>1. 0 \in Masters
    BY SizesAssumption DEF Masters
  <2>2. \A c \in Slaves : reindex(sregrant(c), sindex[c]) \in Masters
    BY DEF reindex, sregrant
  <2> QED
    BY <2>1, <2>2 DEF SlaveGrantClock
<1>6. /\ o_scyc' \in [Slaves -> BOOLEAN]
      /\ o_sstb' \in [Slaves -> BOOLEAN]
      /\ o_sreq' \in [Slaves -> MaybeRequest]
  BY DEF SlaveOutputClock, MaybeRequest
<1>7. /\ r_mack' \in [Masters -> BOOLEAN]
      /\ r_merr' \in [Masters -> BOOLEAN]
  BY DEF AnswerClock
<1>8. /\ lclpending' \in [Masters -> 0 .. MaxPending]
      /\ mempty' \in [Masters -> BOOLEAN]
      /\ mnearfull' \in [Masters -> BOOLEAN]
      /\ mfull' \in [Masters -> BOOLEAN]
  <2>1. \A p \in 0 .. MaxPending : /\ (p + 1) % (MaxPending + 1) \in 0 .. MaxPending
                                   /\ (p + MaxPending) % (MaxPending + 1) \in 0 .. MaxPending
    BY OptionsAssumption
  <2>2. 0 \in 0 .. MaxPending
    BY OptionsAssumption
  <2>3. lclpending' \in [Masters -> 0 .. MaxPending]
    BY <2>1, <2>2 DEF PendingClock
  <2>4. /\ mempty' \in [Masters -> BOOLEAN]
        /\ mnearfull' \in [Masters -> BOOLEAN]
        /\ mfull' \in [Masters -> BOOLEAN]
    <3>1. \A n \in Masters : NearlyFull(lclpending[n]) \in BOOLEAN
      BY OptionsAssumption DEF NearlyFull
    <3>2. mempty' \in [Masters -> BOOLEAN]
      BY Zenon DEF PendingClock
    <3>3. mnearfull' \in [Masters -> BOOLEAN]
      BY <3>1, Zenon DEF PendingClock
    <3>4. mfull' \in [Masters -> BOOLEAN]
      BY Zenon DEF PendingClock
    <3> QED
      BY <3>2, <3>3, <3>4
  <2> QED
    BY <2>3, <2>4
<1>9. /\ deadlock_timer' \in [Masters -> Nat]
      /\ timed_out' \in [Masters -> BOOLEAN]
  <2>1. TimerReload \in Nat
    BY OptionsAssumption DEF TimerReload
  <2>2. \A t \in Nat : CountDown(t) \in Nat
    BY DEF CountDown
  <2> QED
    BY <2>1, <2>2 DEF TimeoutClock
<1> QED
  BY <1>1, <1>2, <1>3, <1>4, <1>5, <1>6, <1>7, <1>8, <1>9
-----------------------------------------------------------------------------
(***************************************************************************)
(* The grants.                                                             *)
(***************************************************************************)

\* A master whose counter moves up holds the channel it is asking for
\* (wbxbar.v:851-859): elsewhere m_stall is m_stb.
LEMMA SentHoldsChannel ==
    ASSUME IInv, NEW n \in Masters, Sent(n), ~ClearPending(n)
    PROVE  mgrant[n] /\ request(n) \cap grant[n] # {}
<1>1. ~o_merr(n) /\ m_stb(n) /\ ~m_stall(n)
  BY DEF Sent, ClearPending
<1>2. mgrant[n] /\ mindex[n] \in request(n) /\ None \notin grant[n]
  BY <1>1 DEF m_stall
<1>3. PICK c \in grant[n] : c \in Slaves
  BY <1>2, SizesAssumption DEF IInv, GrantsAgree, TypeOK, Channels, Slaves, None
<1>4. mindex[n] = c
  BY <1>3 DEF IInv, GrantsAgree
<1> QED
  BY <1>2, <1>3, <1>4

\* A full counter still belongs to a granted, non-empty master after an edge.
LEMMA FullHeldNext ==
    ASSUME IInv, Next
    PROVE  FullHeld'
<1> SUFFICES ASSUME NEW n \in Masters, mfull'[n]
             PROVE  mgrant'[n] /\ ~mempty'[n]
  BY DEF FullHeld
<1> USE DEF Next, XbarClock
<1>1. ~ClearPending(n)
  BY DEF PendingClock
<1>2. ~ReleaseGrant(n)
  BY <1>1 DEF ClearPending, ReleaseGrant
<1>3. CASE Sent(n) /\ ~o_mack(n)
  <2>1. stay_on_channel(n) /\ mgrant[n]
    BY <1>1, <1>3, SentHoldsChannel DEF stay_on_channel
  <2>2. mgrant'[n]
    BY <1>2, <2>1 DEF MasterGrantClock
  <2>3. ~mempty'[n]
    BY <1>1, <1>3 DEF PendingClock
  <2> QED
    BY <2>2, <2>3
<1>4. CASE ~(Sent(n) /\ ~o_mack(n))
  <2>1. mfull[n] /\ ~(~Sent(n) /\ o_mack(n))
    BY <1>1, <1>4 DEF PendingClock
  <2>2. mgrant[n] /\ ~mempty[n]
    BY <2>1 DEF IInv, FullHeld
  <2>3. mgrant'[n]
    BY <1>2, <2>2 DEF MasterGrantClock, stay_on_channel
  <2>4. ~mempty'[n]
    BY <1>1, <1>4, <2>1, <2>2 DEF PendingClock
  <2> QED
    BY <2>3, <2>4
<1> QED
  BY <1>3, <1>4

\* With a single master there is nobody to lose to.
LEMMA SingleMaster ==
    ASSUME NM = 1, NEW n \in Masters
    PROVE  n = 0 /\ requested(n) = {}
<1>1. n = 0
  BY DEF Masters
<1>2. 0 .. n-1 = {}
  BY <1>1
<1> QED
  BY <1>1, <1>2 DEF requested

\* A master opens a slave exactly when it wins it while it is free.
LEMMA OpensFree ==
    ASSUME IInv, NEW n \in Masters, ~stay_on_channel(n),
           requested_channel_is_available(n),
           NEW c \in request(n) \cap Slaves
    PROVE  mayMove(n) /\ ~sgrant[c] /\ c \notin requested(n)
<1>1. mayMove(n)
  BY DEF stay_on_channel, mayMove
<1>2. c # None
  BY SizesAssumption DEF Slaves, None
<1>3. request(n) = {c}
  BY RequestOne DEF IInv
<1>4. CASE NM < 2
  <2>1. NM = 1
    BY <1>4, SizesAssumption
  <2>2. sgrant[c] => c \in grant[n]
    BY <2>1, SingleMaster DEF IInv, GrantsAgree, TypeOK
  <2> QED
    BY <1>1, <2>1, <2>2, SingleMaster DEF stay_on_channel
<1>5. CASE ~(NM < 2)
  BY <1>1, <1>2, <1>3, <1>5 DEF requested_channel_is_available
<1> QED
  BY <1>4, <1>5
\* The index of a slave that stays with its master does not move.
LEMMA HolderStays ==
    ASSUME IInv, Next, NEW c \in Slaves, sgrant[c]
    PROVE  sindex'[c] = sindex[c]
<1> DEFINE n == sindex[c]
<1>1. \A k \in sregrant(c) : k = n
  BY DEF IInv, GrantsAgree, sregrant
<1>2. reindex(sregrant(c), n) = n
  BY <1>1, ReindexKeeps, Zenon
<1>3. NM = 1 => n = 0
  BY SingleMaster DEF IInv, TypeOK
<1> QED
  BY <1>2, <1>3 DEF Next, XbarClock, SlaveGrantClock

\* A slave that stays granted across an edge stays with the same master, and
\* that master keeps its grant (wbxbar.v:357-384 against 507-524).
LEMMA KeepsGrant ==
    ASSUME IInv, Next, NEW c \in Slaves, sgrant[c]
    PROVE  /\ sgrant'[c] => grant'[sindex[c]] = grant[sindex[c]]
           /\ grant'[sindex[c]] \cap {c} # {} => sgrant'[c]
<1> DEFINE n == sindex[c]
<1>1. n \in Masters /\ grant[n] = {c} /\ mgrant[n]
  BY DEF IInv, GrantsAgree, TypeOK
<1>2. grant'[n] = IF ReleaseGrant(n) THEN {}
                  ELSE IF stay_on_channel(n) THEN grant[n]
                  ELSE IF requested_channel_is_available(n) THEN request(n)
                  ELSE IF m_stb(n) THEN {} ELSE grant[n]
  BY <1>1 DEF Next, XbarClock, MasterGrantClock
<1>3. sgrant'[c] <=> ~drop_sgrant(c)
  BY DEF Next, XbarClock, SlaveGrantClock
<1>4. drop_sgrant(c) <=> \/ ReleaseGrant(n)
                         \/ c \notin request(n) /\ m_stb(n) /\ mempty[n]
  BY DEF drop_sgrant, ReleaseGrant
<1>5. CASE ReleaseGrant(n)
  BY <1>2, <1>3, <1>4, <1>5
<1>6. CASE ~ReleaseGrant(n) /\ stay_on_channel(n)
  BY <1>1, <1>2, <1>3, <1>4, <1>6 DEF stay_on_channel
<1>7. CASE ~ReleaseGrant(n) /\ ~stay_on_channel(n)
  <2>1. c \notin request(n) /\ mempty[n]
    BY <1>1, <1>7 DEF stay_on_channel
  <2>2. m_stb(n) <=> request(n) # {}
    BY <1>1, <1>7, <2>1, RequestOne, AskingStrobes
       DEF IInv, mayMove, m_stb
  <2>3. requested_channel_is_available(n) => request(n) # {}
    BY <2>2 DEF requested_channel_is_available
  <2> QED
    BY <1>1, <1>2, <1>3, <1>4, <1>7, <2>1, <2>2, <2>3
<1> QED
  BY <1>5, <1>6, <1>7

\* A master that keeps a slave keeps it on both sides of the arbiter.
LEMMA KeptGrant ==
    ASSUME IInv, Next, NEW n \in Masters, NEW c \in Slaves,
           c \in grant[n], c \in grant'[n]
    PROVE  sgrant'[c] /\ sindex'[c] = n /\ mindex'[n] = c
<1>1. sgrant[c] /\ sindex[c] = n /\ mindex[n] = c /\ mgrant[n] /\ grant[n] = {c}
  BY DEF IInv, GrantsAgree
<1>2. sgrant'[c]
  BY <1>1, KeepsGrant
<1>3. sindex'[c] = n
  BY <1>1, HolderStays
<1>4. ~ReleaseGrant(n)
  BY DEF Next, XbarClock, MasterGrantClock
<1>5. \A d \in mregrant(n) : d = c
  <2> SUFFICES ASSUME NEW d \in mregrant(n), d # c
               PROVE  FALSE
    OBVIOUS
  <2>1. mayMove(n) /\ request(n) = {d}
    BY RequestOne DEF IInv, mregrant
  <2>2. d # None /\ ~sgrant[d] /\ d \notin requested(n)
    BY <1>1 DEF mregrant
  <2>3. d \in Slaves
    BY <2>1, <2>2, RequestOne, SizesAssumption
    DEF IInv, Channels, Slaves, None
  <2>4. ~stay_on_channel(n)
    BY <1>1, <2>1 DEF stay_on_channel, mayMove
  <2>5. m_stb(n)
    BY <2>1, AskingStrobes
  <2>6. requested_channel_is_available(n)
    BY <2>1, <2>2, <2>3, <2>5 DEF requested_channel_is_available
  <2>7. grant'[n] = request(n)
    BY <1>4, <2>4, <2>6 DEF Next, XbarClock, MasterGrantClock
  <2> QED
    BY <2>1, <2>7
<1>6. reindex(mregrant(n), c) = c
  BY <1>5, ReindexKeeps, Zenon
<1>7. NS = 1 => c = 0
  BY DEF Slaves
<1>8. mindex'[n] = c
  BY <1>1, <1>6, <1>7 DEF Next, XbarClock, MasterGrantClock
<1> QED
  BY <1>2, <1>3, <1>8
\* The winner of a free slave is entered on both sides of the arbiter.
LEMMA OpenedGrant ==
    ASSUME IInv, Next, NEW n \in Masters, NEW c \in Slaves,
           ~ReleaseGrant(n), mayMove(n), c \in request(n),
           ~sgrant[c], c \notin requested(n)
    PROVE  /\ c \in grant'[n]
           /\ sgrant'[c] /\ sindex'[c] = n /\ mindex'[n] = c
<1>1. request(n) = {c} /\ c # None
  <2>1. request(n) = {c}
    BY RequestOne DEF IInv
  <2>2. c # None
    BY SizesAssumption DEF Slaves, None
  <2> QED
    BY <2>1, <2>2
<1>2. \A k \in Masters : c \notin grant[k]
  BY DEF IInv, GrantsAgree
<1>3. ~stay_on_channel(n)
  BY <1>1, <1>2 DEF stay_on_channel, mayMove
<1>4. m_stb(n)
  BY AskingStrobes
<1>5. requested_channel_is_available(n)
  BY <1>1, <1>4 DEF requested_channel_is_available
<1>6. grant'[n] = request(n)
  BY <1>3, <1>5 DEF Next, XbarClock, MasterGrantClock
<1>7. sgrant'[c]
  BY DEF Next, XbarClock, SlaveGrantClock, drop_sgrant, ReleaseGrant
<1>8. sindex'[c] = n
  <2>1. n \in sregrant(c)
    BY DEF sregrant
  <2>2. \A k \in sregrant(c) : k = n
    BY <1>2, OneWinner DEF IInv, sregrant
  <2>3. reindex(sregrant(c), sindex[c]) = n
    BY <2>1, <2>2, ReindexOne, Zenon
  <2>4. NM = 1 => n = 0
    BY SingleMaster
  <2> QED
    BY <2>3, <2>4 DEF Next, XbarClock, SlaveGrantClock
<1>9. mindex'[n] = c
  <2>1. c \in mregrant(n) /\ \A d \in mregrant(n) : d = c
    BY <1>1 DEF mregrant
  <2>2. reindex(mregrant(n), mindex[n]) = c
    BY <2>1, ReindexOne, Zenon
  <2>3. NS = 1 => c = 0
    BY DEF Slaves
  <2> QED
    BY <2>2, <2>3 DEF Next, XbarClock, MasterGrantClock
<1> QED
  BY <1>1, <1>6, <1>7, <1>8, <1>9

\* Every clock edge keeps the two sides of the arbiter in agreement.
LEMMA GrantsAgreeNext ==
    ASSUME IInv, Next
    PROVE  GrantsAgree'
<1> DEFINE New(n) == /\ ~ReleaseGrant(n) /\ ~stay_on_channel(n)
                     /\ requested_channel_is_available(n)
<1>1. ASSUME NEW n \in Masters
      PROVE  \/ grant'[n] = {} /\ ~mgrant'[n]
             \/ grant'[n] = grant[n] /\ mgrant'[n] = mgrant[n]
             \/ New(n) /\ grant'[n] = request(n) /\ mgrant'[n]
  BY DEF IInv, TypeOK, Next, XbarClock, MasterGrantClock
<1>2. \A n \in Masters : New(n) => request(n) # {}
  BY RequestOne DEF IInv, requested_channel_is_available, m_stb
<1>3. \A n \in Masters : \A c, d \in grant'[n] : c = d
  BY <1>1, RequestOne DEF IInv, GrantsAgree
<1>4. \A n \in Masters : mgrant'[n] <=> grant'[n] # {}
  BY <1>1, <1>2 DEF IInv, GrantsAgree
<1>5. ASSUME NEW n \in Masters, NEW c \in grant'[n] \cap Slaves
      PROVE  sgrant'[c] /\ sindex'[c] = n /\ mindex'[n] = c
  <2>1. CASE c \in grant[n]
    BY <2>1, KeptGrant
  <2>2. CASE c \notin grant[n]
    <3>1. New(n) /\ c \in request(n)
      BY <1>1, <2>2
    <3>2. mayMove(n) /\ ~sgrant[c] /\ c \notin requested(n)
      BY <3>1, OpensFree
    <3> QED
      BY <3>1, <3>2, OpenedGrant
  <2> QED
    BY <2>1, <2>2
<1>6. ASSUME NEW c \in Slaves, sgrant'[c]
      PROVE  c \in grant'[sindex'[c]]
  <2>1. CASE sgrant[c]
    BY <1>6, <2>1, HolderStays, KeepsGrant DEF IInv, GrantsAgree
  <2>2. CASE ~sgrant[c]
    <3>1. ~i_reset /\ \E k \in Masters : c \in request(k) /\ mayMove(k)
      BY <1>6, <2>2 DEF Next, XbarClock, SlaveGrantClock, drop_sgrant
    <3>2. PICK n \in Masters : c \in request(n) /\ mayMove(n) /\ c \notin requested(n)
      BY <2>2, <3>1, SomeWinner
    <3>3. ~ReleaseGrant(n)
      BY <3>1, <3>2, RequestOne DEF IInv, ReleaseGrant
    <3> QED
      BY <2>2, <3>2, <3>3, OpenedGrant
  <2> QED
    BY <2>1, <2>2
<1> QED
  BY <1>3, <1>4, <1>5, <1>6 DEF GrantsAgree

-----------------------------------------------------------------------------
\* The invariant holds at the start ...
LEMMA InitInv == Init => IInv
<1> SUFFICES ASSUME Init PROVE IInv
  OBVIOUS
<1>1. TypeOK
  BY InitType
<1>2. GrantsAgree /\ FullHeld
  BY DEF Init, RegInit, GrantsAgree, FullHeld
<1> QED
  BY <1>1, <1>2 DEF IInv

\* ... and every step keeps it.
LEMMA NextInv == IInv /\ [Next]_vars => IInv'
<1> SUFFICES ASSUME IInv, [Next]_vars PROVE IInv'
  OBVIOUS
<1>1. CASE Next
  BY <1>1, NextType, GrantsAgreeNext, FullHeldNext DEF IInv
<1>2. CASE UNCHANGED vars
  <2>1. TypeOK'
    BY <1>2 DEF IInv, TypeOK, InputsOK, vars, inputs, regs, arbiter
  <2>2. GrantsAgree' /\ FullHeld'
    BY <1>2 DEF IInv, GrantsAgree, FullHeld, vars, regs, arbiter
  <2> QED
    BY <2>1, <2>2 DEF IInv
<1> QED
  BY <1>1, <1>2

\* The strengthened invariant of the arbiter.
THEOREM Invariance == Spec => []IInv
  BY InitInv, NextInv, PTL DEF Spec

\* Every register of the crossbar keeps its type; the pending counter never
\* leaves its LGMAXBURST bits.
THEOREM TypeCorrect == Spec => []TypeOK
<1>1. IInv => TypeOK
  BY DEF IInv
<1> QED
  BY <1>1, Invariance, PTL

\* No slave is ever granted to two masters and no master to two slaves, and
\* the four views of a grant (grant, mgrant/mindex, sgrant, sindex) agree,
\* although they are separate registers computed by separate logic: the
\* assertions of wbxbar.v:1120-1195, for every number of masters and slaves.
THEOREM GrantsAlwaysAgree == Spec => []GrantsAgree
<1>1. IInv => GrantsAgree
  BY DEF IInv
<1> QED
  BY <1>1, Invariance, PTL

\* The OR of the offered indexes is always the index of one channel (master).
THEOREM RegrantAlwaysOneHot == Spec => []RegrantOneHot
  BY OneHot, Invariance, PTL

-----------------------------------------------------------------------------
(***************************************************************************)
(* The crossbar between its masters and slaves.                            *)
(***************************************************************************)

\* What is kept of each master's answers: an acknowledgement belongs to a
\* channel it holds, and only the holder of a slave waits for anything.
AnswerOK ==
    \A n \in Masters :
        /\ r_mack[n] => mgrant[n] /\ None \notin grant[n]
        /\ ~mgrant[n] \/ None \in grant[n] => lclpending[n] = 0

\* The counter of a master and what its slave has and has not answered.
Counted ==
    \A n \in Masters : \A c \in grant[n] \cap Slaves :
        i_mcyc[n] =>
           /\ sout[c] + Count(o_sstb[c]) <= lclpending[n]
           /\ ~o_merr(n) => lclpending[n] = sout[c] + Count(o_sstb[c]) + Count(o_mack(n))

\* A slave out of its cycle, or about to be, has nothing to accept or answer,
\* and no slave answers what it does not owe.
SlaveOK ==
    \A c \in Slaves :
        /\ o_sstb[c] => o_scyc[c]
        /\ ~o_scyc[c] \/ ~sgrant[c] => sout[c] = 0 /\ ~o_sstb[c]
        /\ o_scyc[c] /\ (i_sack[c] \/ i_serr[c]) => sout[c] > 0
        /\ ~(i_sack[c] /\ i_serr[c])
        /\ i_serr[c] \/ i_sstall[c] => Latency[c] = 0

\* What a slave that ignores its cycle has yet to acknowledge.
LiveAt(c, i) == Count(i <= Latency[c] /\ spipe[c][i] = "live")
PipeOK ==
    \A c \in Slaves : Latency[c] > 0 =>
        /\ sout[c] = LiveAt(c, 1) + LiveAt(c, 2)
        /\ \A i \in 1 .. Latency[c] : spipe[c][i] = "stale" =>
              ~o_scyc[c] /\ (i = 2 => ~sgrant[c])
        /\ i_sack[c] <=> spipe[c][1] # "none"

BusTypeOK ==
    /\ mout \in [Masters -> Nat]
    /\ sout \in [Slaves -> Nat]
    /\ \A c \in Slaves : spipe[c] \in Seq({"none", "live", "stale"}) /\ Len(spipe[c]) = Latency[c]

BusInv == BusTypeOK /\ IInv /\ PendingFlagsAgree /\ AnswerOK /\ Counted /\ SlaveOK /\ PipeOK
-----------------------------------------------------------------------------
(***************************************************************************)
(* Facts about one state, and about one clock.                             *)
(***************************************************************************)

\* A clock of the bus is a clock of the crossbar, with inputs of their types.
LEMMA ClockIsNext ==
    ASSUME BusClock
    PROVE  Next
<1> USE DEF BusClock
<1>1. i_mcyc' \in [Masters -> BOOLEAN] /\ i_mreq' \in [Masters -> MaybeRequest]
  BY DEF MastersClock, MasterMoves
<1>2. i_sstall' \in [Slaves -> BOOLEAN] /\ i_sack' \in [Slaves -> BOOLEAN]
      /\ i_serr' \in [Slaves -> BOOLEAN]
  BY DEF SlavesClock
<1> QED
  BY <1>1, <1>2 DEF Next, InputsOK

\* A master in its cycle neither was reset nor has been told of an error.
LEMMA MasterGoesOn ==
    ASSUME BusClock, NEW n \in Masters, i_mcyc'[n]
    PROVE  ~i_reset /\ ~(i_mcyc[n] /\ o_merr(n))
  BY DEF BusClock, MastersClock, MasterMay, MasterMoves

\* What a slave does on a clock.
LEMMA SlaveStep ==
    ASSUME BusClock, NEW c \in Slaves
    PROVE  /\ sout'[c] = IF ~o_scyc[c] \/ ~o_scyc'[c] THEN 0
                         ELSE Monus(sout[c] + Count(SlaveTakes(c)), Count(SlaveAnswers(c)))
           /\ spipe'[c] = SlavePipe(c)
           /\ i_sstall'[c] => Latency[c] = 0 /\ o_sstb'[c]
           /\ Latency[c] > 0 => ~i_serr'[c] /\ (i_sack'[c] <=> Head(spipe'[c]) # "none")
           /\ Latency[c] = 0 => (i_sack'[c] \/ i_serr'[c] => sout'[c] > 0)
           /\ ~(i_sack'[c] /\ i_serr'[c])
<1>1. PICK ans \in [Slaves -> SlaveAnswerMoves] :
          /\ \A k \in Slaves :
                IF Latency[k] > 0
                THEN ans[k] = IF Head(spipe'[k]) = "none" THEN "none" ELSE "ack"
                ELSE /\ ans[k] # "none" => sout'[k] > 0
                     /\ ans[k] = "err" => k \in MaySlaveErr
          /\ i_sack' = [k \in Slaves |-> ans[k] = "ack"]
          /\ i_serr' = [k \in Slaves |-> ans[k] = "err"]
  BY DEF BusClock, SlavesClock
<1>2. Latency[c] > 0 => ~i_serr'[c] /\ (i_sack'[c] <=> Head(spipe'[c]) # "none")
  BY <1>1
<1>3. (i_sack'[c] <=> ans[c] = "ack") /\ (i_serr'[c] <=> ans[c] = "err")
  BY <1>1
<1>4. ASSUME Latency[c] = 0, ans[c] # "none" PROVE sout'[c] > 0
  <2>1. ~(Latency[c] > 0)
    BY <1>4
  <2> QED
    BY <1>1, <1>4, <2>1
<1>5. /\ sout'[c] = IF ~o_scyc[c] \/ ~o_scyc'[c] THEN 0
                    ELSE Monus(sout[c] + Count(SlaveTakes(c)), Count(SlaveAnswers(c)))
      /\ spipe'[c] = SlavePipe(c)
      /\ i_sstall'[c] => Latency[c] = 0 /\ o_sstb'[c]
  BY DEF BusClock, SlavesClock
<1>6. Latency[c] = 0 => (i_sack'[c] \/ i_serr'[c] => sout'[c] > 0)
  BY <1>3, <1>4
<1>7. ~(i_sack'[c] /\ i_serr'[c])
  BY <1>3
<1> QED
  BY <1>2, <1>5, <1>6, <1>7

\* The two sides of a grant, by name.
LEMMA Holds ==
    ASSUME IInv, NEW n \in Masters, NEW c \in grant[n] \cap Slaves
    PROVE  /\ c # None /\ grant[n] = {c} /\ mgrant[n] /\ mindex[n] = c
           /\ sgrant[c] /\ sindex[c] = n
  BY SizesAssumption DEF IInv, GrantsAgree, Slaves, None

\* A master that holds a channel holds a slave or the channel of no slave.
LEMMA HoldsSlave ==
    ASSUME IInv, NEW n \in Masters, mgrant[n], None \notin grant[n]
    PROVE  mindex[n] \in grant[n] \cap Slaves
<1>1. PICK c \in grant[n] : c \in Slaves
  BY SizesAssumption DEF IInv, GrantsAgree, TypeOK, Channels, Slaves, None
<1> QED
  BY <1>1, Holds

\* Whoever is acknowledged was counted.
LEMMA AckCounted ==
    ASSUME BusInv, NEW n \in Masters, i_mcyc[n], ~o_merr(n), o_mack(n)
    PROVE  lclpending[n] > 0
<1>1. mgrant[n] /\ None \notin grant[n]
  BY DEF BusInv, AnswerOK, o_mack
<1>2. mindex[n] \in grant[n] \cap Slaves
  BY <1>1, HoldsSlave DEF BusInv
<1> DEFINE c == mindex[n]
<1>3. lclpending[n] = sout[c] + Count(o_sstb[c]) + Count(o_mack(n))
  BY <1>2 DEF BusInv, Counted
<1>4. sout[c] \in Nat /\ Count(o_sstb[c]) \in Nat /\ Count(o_mack(n)) = 1
  BY <1>2 DEF BusInv, BusTypeOK, Count
<1> HIDE DEF c
<1> DEFINE a == Count(o_sstb[c])
           b == Count(o_mack(n))
<1>5. lclpending[n] = sout[c] + a + b /\ sout[c] \in Nat /\ a \in Nat /\ b = 1
  BY <1>3, <1>4
<1> HIDE DEF a, b
<1> QED
  BY <1>5

\* A master whose counter goes up was not full.
LEMMA SentNotFull ==
    ASSUME BusInv, NEW n \in Masters, Sent(n)
    PROVE  lclpending[n] < MaxPending
<1>1. ~mfull[n]
  BY DEF Sent, m_stb
<1>2. lclpending[n] \in 0 .. MaxPending /\ lclpending[n] # MaxPending
  BY <1>1 DEF BusInv, IInv, TypeOK, PendingFlagsAgree
<1> QED
  BY <1>2, OptionsAssumption

\* The counter wraps at neither end of its LGMAXBURST bits.
LEMMA CounterArithmetic ==
    ASSUME NEW M \in Nat, NEW p \in 0 .. M
    PROVE  /\ p < M => (p + 1) % (M + 1) = p + 1
           /\ p > 0 => (p + M) % (M + 1) = p - 1
<1>1. ASSUME p < M PROVE (p + 1) % (M + 1) = p + 1
  BY <1>1
<1>2. ASSUME p > 0 PROVE (p + M) % (M + 1) = p - 1
  <2>1. p + M = 1 * (M + 1) + (p - 1) /\ p - 1 \in 0 .. M
    BY <1>2
  <2> QED
    BY <2>1
<1> QED
  BY <1>1, <1>2

\* What a master's counter and its flags become.
LEMMA PendingStep ==
    ASSUME BusInv, BusClock, NEW n \in Masters
    PROVE  /\ ClearPending(n) => lclpending'[n] = 0
           /\ ~ClearPending(n) /\ Sent(n) /\ ~o_mack(n) => lclpending'[n] = lclpending[n] + 1
           /\ ~ClearPending(n) /\ ~Sent(n) /\ o_mack(n) =>
                 lclpending[n] > 0 /\ lclpending'[n] = lclpending[n] - 1
           /\ ~ClearPending(n) /\ (Sent(n) <=> o_mack(n)) => lclpending'[n] = lclpending[n]
<1>1. lclpending'[n] =
          IF ClearPending(n) THEN 0
          ELSE IF Sent(n) /\ ~o_mack(n)
               THEN (lclpending[n] + 1) % (MaxPending + 1)
          ELSE IF ~Sent(n) /\ o_mack(n)
               THEN (lclpending[n] + MaxPending) % (MaxPending + 1)
          ELSE lclpending[n]
  BY DEF BusClock, XbarClock, PendingClock
<1>2. lclpending[n] \in 0 .. MaxPending
  BY DEF BusInv, IInv, TypeOK
<1>3. ASSUME ~ClearPending(n), Sent(n), ~o_mack(n)
      PROVE  lclpending'[n] = lclpending[n] + 1
  BY <1>1, <1>2, <1>3, SentNotFull, CounterArithmetic, OptionsAssumption
<1>4. ASSUME ~ClearPending(n), ~Sent(n), o_mack(n)
      PROVE  lclpending[n] > 0 /\ lclpending'[n] = lclpending[n] - 1
  <2>1. lclpending[n] > 0
    BY <1>4, AckCounted DEF ClearPending
  <2> QED
    BY <1>1, <1>2, <1>4, <2>1, CounterArithmetic, OptionsAssumption
<1> QED
  BY <1>1, <1>3, <1>4

\* The flags beside the counter follow it.
LEMMA FlagsStep ==
    ASSUME BusInv, BusClock
    PROVE  PendingFlagsAgree'
<1> SUFFICES ASSUME NEW n \in Masters
             PROVE  /\ mempty'[n] <=> lclpending'[n] = 0
                    /\ mnearfull'[n] <=> lclpending'[n] >= MaxPending - 1
                    /\ mfull'[n] <=> lclpending'[n] = MaxPending
  BY DEF PendingFlagsAgree
<1> DEFINE p == lclpending[n]
<1>1. p \in 0 .. MaxPending /\ MaxPending \in Nat /\ MaxPending >= 3
  BY OptionsAssumption DEF BusInv, IInv, TypeOK
<1>2. /\ mempty[n] <=> p = 0
      /\ mnearfull[n] <=> p >= MaxPending - 1
      /\ mfull[n] <=> p = MaxPending
  BY DEF BusInv, PendingFlagsAgree
<1>3. CASE ClearPending(n)
  <2>1. mempty'[n] /\ ~mnearfull'[n] /\ ~mfull'[n] /\ lclpending'[n] = 0
    BY <1>3, PendingStep DEF BusClock, XbarClock, PendingClock
  <2> QED
    BY <1>1, <2>1
<1>4. CASE ~ClearPending(n) /\ Sent(n) /\ ~o_mack(n)
  <2>1. ~mempty'[n] /\ (mnearfull'[n] <=> p >= MaxPending - 2) /\ (mfull'[n] <=> mnearfull[n])
    BY <1>4 DEF BusClock, XbarClock, PendingClock, NearlyFull
  <2>2. lclpending'[n] = p + 1 /\ p < MaxPending
    BY <1>4, PendingStep, SentNotFull
  <2> HIDE DEF p
  <2> QED
    BY <1>1, <1>2, <2>1, <2>2
<1>5. CASE ~ClearPending(n) /\ ~Sent(n) /\ o_mack(n)
  <2>1. (mempty'[n] <=> p = 1) /\ (mnearfull'[n] <=> mfull[n]) /\ ~mfull'[n]
    BY <1>5 DEF BusClock, XbarClock, PendingClock
  <2>2. lclpending'[n] = p - 1 /\ p > 0
    BY <1>5, PendingStep
  <2> HIDE DEF p
  <2> QED
    BY <1>1, <1>2, <2>1, <2>2
<1>6. CASE ~ClearPending(n) /\ (Sent(n) <=> o_mack(n))
  <2>1. (mempty'[n] <=> mempty[n]) /\ (mnearfull'[n] <=> mnearfull[n]) /\ (mfull'[n] <=> mfull[n])
    BY <1>6 DEF BusClock, XbarClock, PendingClock
  <2>2. lclpending'[n] = p
    BY <1>6, PendingStep
  <2> QED
    BY <1>2, <2>1, <2>2
<1> QED
  BY <1>3, <1>4, <1>5, <1>6
-----------------------------------------------------------------------------
(***************************************************************************)
(* The answers to a master.                                                *)
(***************************************************************************)

\* A master that may leave its channel has nothing outstanding and sends nothing
\* on this clock (wbxbar.v:507-524).
LEMMA LeavesEmpty ==
    ASSUME BusInv, NEW n \in Masters, ~ClearPending(n), ~stay_on_channel(n)
    PROVE  lclpending[n] = 0 /\ ~Sent(n) /\ ~o_mack(n)
<1>1. lclpending[n] = 0
  <2>1. ~mgrant[n] \/ mempty[n]
    BY DEF stay_on_channel
  <2> QED
    BY <2>1 DEF BusInv, AnswerOK, PendingFlagsAgree
<1>2. ~Sent(n)
  BY SentHoldsChannel DEF BusInv, stay_on_channel
<1>3. ~o_mack(n)
  BY <1>1, AckCounted DEF ClearPending
<1> QED
  BY <1>1, <1>2, <1>3

\* The slave that acknowledges a master on this clock owes it an answer, so the
\* master keeps its channel.
LEMMA AckStays ==
    ASSUME BusInv, BusClock, NEW n \in Masters, r_mack'[n]
    PROVE  stay_on_channel(n) /\ mgrant[n] /\ None \notin grant[n] /\ ~ReleaseGrant(n)
<1>1. ~i_reset /\ i_mcyc[n] /\ ~o_merr(n) /\ ~ForcedError(n) /\ mgrant[n] /\ s_ack(mindex[n])
  BY DEF BusClock, XbarClock, AnswerClock
<1>2. None \notin grant[n]
  BY <1>1 DEF ForcedError
<1> DEFINE c == mindex[n]
<1>3. c \in grant[n] \cap Slaves
  BY <1>1, <1>2, HoldsSlave DEF BusInv
<1>4. sout[c] > 0
  BY <1>1, <1>3 DEF BusInv, SlaveOK, s_ack
<1>5. sout[c] + Count(o_sstb[c]) <= lclpending[n]
  BY <1>1, <1>3 DEF BusInv, Counted
<1>6. sout[c] \in Nat /\ Count(o_sstb[c]) \in Nat /\ lclpending[n] \in Nat
  BY <1>3, OptionsAssumption DEF BusInv, BusTypeOK, IInv, TypeOK, Count
<1>7. lclpending[n] # 0
  <2> DEFINE a == Count(o_sstb[c])
  <2> HIDE DEF a, c
  <2> QED
    BY <1>4, <1>5, <1>6
<1>8. ~mempty[n]
  BY <1>7 DEF BusInv, PendingFlagsAgree
<1> QED
  BY <1>1, <1>2, <1>8 DEF stay_on_channel, ReleaseGrant

\* An acknowledgement is only registered for a channel that is held.
LEMMA AnswerStep ==
    ASSUME BusInv, BusClock
    PROVE  AnswerOK'
<1> SUFFICES ASSUME NEW n \in Masters
             PROVE  /\ r_mack'[n] => mgrant'[n] /\ None \notin grant'[n]
                    /\ ~mgrant'[n] \/ None \in grant'[n] => lclpending'[n] = 0
  BY DEF AnswerOK, None
<1>0. ~ReleaseGrant(n) /\ stay_on_channel(n) =>
        grant'[n] = grant[n] /\ mgrant'[n] = mgrant[n]
  BY DEF BusClock, XbarClock, MasterGrantClock
<1>1. r_mack'[n] => mgrant'[n] /\ None \notin grant'[n]
  BY <1>0, AckStays
<1>2. ASSUME ~mgrant'[n] \/ None \in grant'[n] PROVE lclpending'[n] = 0
  <2>1. CASE ClearPending(n)
    BY <2>1, PendingStep
  <2>2. CASE ~ClearPending(n) /\ ~stay_on_channel(n)
    BY <2>2, LeavesEmpty, PendingStep
  <2>3. CASE ~ClearPending(n) /\ stay_on_channel(n)
    <3>1. ~mgrant[n] \/ None \in grant[n]
      BY <1>0, <1>2, <2>3 DEF ClearPending, ReleaseGrant
    <3>2. lclpending[n] = 0 /\ ~o_mack(n)
      BY <3>1 DEF BusInv, AnswerOK, o_mack
    <3>3. ~Sent(n)
      BY <2>3, <3>1, SentHoldsChannel DEF BusInv, Sent, m_stall, ClearPending
    <3> QED
      BY <2>3, <3>2, <3>3, PendingStep
  <2> QED
    BY <2>1, <2>2, <2>3
<1> QED
  BY <1>1, <1>2
-----------------------------------------------------------------------------
(***************************************************************************)
(* The counter of a master and its slave.                                  *)
(***************************************************************************)

\* A slave's cycle and strobe on the next clock, seen by the master that holds
\* it: what was at its port is taken or stays, and what the master sends comes
\* after (wbxbar.v:738-775).
LEMMA PortStep ==
    ASSUME BusInv, BusClock, NEW n \in Masters, NEW c \in grant[n] \cap Slaves,
           ~ClearPending(n)
    PROVE  /\ o_scyc'[c] <=> ~s_err(c)
           /\ o_sstb'[c] <=> ~s_err(c) /\ (s_stall(c) \/ Sent(n))
           /\ ~(s_stall(c) /\ Sent(n))
           /\ SlaveTakes(c) <=> o_sstb[c] /\ ~s_stall(c)
<1>1. /\ c # None /\ grant[n] = {c} /\ mgrant[n] /\ mindex[n] = c
      /\ sgrant[c] /\ sindex[c] = n
  BY Holds DEF BusInv
<1>2. i_mcyc[n] /\ ~i_reset /\ ~o_merr(n)
  BY DEF ClearPending
<1>3. o_scyc'[c] <=> ~s_err(c)
  BY <1>1, <1>2 DEF BusClock, XbarClock, SlaveOutputClock
<1>4. Sent(n) <=> c \in request(n) /\ ~mfull[n] /\ ~s_stall(c)
  <2>1. c \in request(n) => i_mcyc[n] /\ dcd_stb(n)
    BY DEF request
  <2>2. m_stb(n) <=> ~mfull[n] /\ dcd_stb(n)
    BY <1>2 DEF m_stb
  <2>3. m_stall(n) <=> \/ c \in request(n) /\ (mfull[n] \/ s_stall(c))
                       \/ c \notin request(n) /\ m_stb(n)
    BY <1>1, <1>2 DEF m_stall
  <2> QED
    BY <2>1, <2>2, <2>3 DEF Sent
<1>5. o_sstb'[c] <=> ~s_err(c) /\ (s_stall(c) \/ (c \in request(n) /\ ~mfull[n]))
  BY <1>1, <1>2 DEF BusClock, XbarClock, SlaveOutputClock
<1>6. SlaveTakes(c) <=> o_sstb[c] /\ ~s_stall(c)
  BY <1>1 DEF SlaveTakes, s_stall, BusInv, SlaveOK
<1> QED
  BY <1>3, <1>4, <1>5, <1>6

\* What a slave owes goes up with what it takes and down with what it answers.
LEMMA OwedStep ==
    ASSUME BusInv, BusClock, NEW c \in Slaves
    PROVE  /\ ~o_scyc'[c] => sout'[c] = 0
           /\ o_scyc'[c] => /\ SlaveAnswers(c) => sout[c] > 0
                            /\ sout'[c] = (sout[c] + Count(SlaveTakes(c))) - Count(SlaveAnswers(c))
<1>1. sout[c] \in Nat /\ Count(SlaveTakes(c)) \in Nat
  BY DEF BusInv, BusTypeOK, Count
<1>2. SlaveAnswers(c) => sout[c] > 0
  BY DEF BusInv, SlaveOK, SlaveAnswers
<1>3. CASE ~o_scyc[c]
  <2>1. sout[c] = 0 /\ Count(SlaveTakes(c)) = 0 /\ Count(SlaveAnswers(c)) = 0 /\ sout'[c] = 0
    BY <1>3, SlaveStep DEF BusInv, SlaveOK, SlaveTakes, SlaveAnswers, Count
  <2> QED
    BY <1>2, <2>1
<1>4. CASE o_scyc[c]
  <2>1. o_scyc'[c] =>
           sout'[c] = Monus(sout[c] + Count(SlaveTakes(c)), Count(SlaveAnswers(c)))
    BY <1>4, SlaveStep
  <2> DEFINE t == Count(SlaveTakes(c))
             a == Count(SlaveAnswers(c))
  <2>2. sout[c] + t >= a
    <3>1. a = 0 \/ (a = 1 /\ sout[c] > 0)
      BY <1>2 DEF Count
    <3>2. t \in Nat /\ sout[c] \in Nat
      BY <1>1
    <3> HIDE DEF t, a
    <3> QED
      BY <3>1, <3>2
  <2>3. o_scyc'[c] => sout'[c] = (sout[c] + t) - a
    BY <2>1, <2>2 DEF Monus
  <2>4. ~o_scyc'[c] => sout'[c] = 0
    BY SlaveStep
  <2> QED
    BY <1>2, <2>3, <2>4
<1> QED
  BY <1>3, <1>4

\* The counter and what the slave owes move together.
LEMMA CountedStep ==
    ASSUME BusInv, BusClock
    PROVE  Counted'
<1> SUFFICES ASSUME NEW n \in Masters, NEW c \in grant'[n] \cap Slaves, i_mcyc'[n]
             PROVE  /\ sout'[c] + Count(o_sstb'[c]) <= lclpending'[n]
                    /\ ~r_merr'[n] => lclpending'[n] = sout'[c] + Count(o_sstb'[c]) + Count(r_mack'[n])
  BY DEF Counted, o_merr, o_mack
<1>1. ~ReleaseGrant(n) /\ ~ClearPending(n)
  BY MasterGoesOn DEF BusClock, XbarClock, MasterGrantClock, ReleaseGrant, ClearPending
<1>2. CASE c \in grant[n]
  <2>1. /\ o_scyc'[c] <=> ~s_err(c)
        /\ o_sstb'[c] <=> ~s_err(c) /\ (s_stall(c) \/ Sent(n))
        /\ ~(s_stall(c) /\ Sent(n))
        /\ SlaveTakes(c) <=> o_sstb[c] /\ ~s_stall(c)
        /\ s_stall(c) => o_sstb[c]
    BY <1>1, <1>2, PortStep, SizesAssumption DEF s_stall, Slaves, None
  <2>2. i_mcyc[n] /\ ~i_reset /\ ~o_merr(n) /\ mgrant[n] /\ mindex[n] = c
        /\ None \notin grant[n] /\ c # None
    BY <1>1, <1>2, Holds DEF BusInv, ClearPending
  <2>3. lclpending[n] = sout[c] + Count(o_sstb[c]) + Count(o_mack(n))
    BY <1>2, <2>2 DEF BusInv, Counted
  <2>4. CASE s_err(c)
    <3>1. r_merr'[n]
      BY <2>2, <2>4 DEF BusClock, XbarClock, AnswerClock
    <3>2. sout'[c] = 0 /\ Count(o_sstb'[c]) = 0
      BY <2>1, <2>4, OwedStep DEF Count
    <3>3. lclpending'[n] \in Nat
      BY ClockIsNext, NextInv, OptionsAssumption DEF BusInv, IInv, TypeOK
    <3> QED
      BY <3>1, <3>2, <3>3
  <2>5. CASE ~s_err(c)
    <3> DEFINE stb  == Count(o_sstb[c])
               stbx == Count(o_sstb'[c])
               take == Count(SlaveTakes(c))
               ans  == Count(SlaveAnswers(c))
               ack  == Count(o_mack(n))
               ackx == Count(r_mack'[n])
               send == Count(Sent(n))
    <3>1. stbx = (stb - take) + send
      BY <2>1, <2>5 DEF Count
    <3>2. sout'[c] = (sout[c] + take) - ans
      BY <2>1, <2>5, OwedStep
    <3>3. lclpending'[n] = (lclpending[n] + send) - ack
      <4>1. lclpending[n] \in Nat
        BY OptionsAssumption DEF BusInv, IInv, TypeOK
      <4> QED
        BY <1>1, <4>1, PendingStep DEF Count
    <3>4. ackx <= ans /\ (~r_merr'[n] => ackx = ans)
      <4>1. SlaveAnswers(c) <=> s_ack(c)
        BY <2>2, <2>5 DEF SlaveAnswers, s_ack, s_err
      <4>2. r_mack'[n] <=> ~ForcedError(n) /\ s_ack(c)
        BY <2>2 DEF BusClock, XbarClock, AnswerClock
      <4>3. ~r_merr'[n] => ~ForcedError(n)
        BY <2>2 DEF BusClock, XbarClock, AnswerClock
      <4> QED
        BY <4>1, <4>2, <4>3 DEF Count
    <3>5. /\ sout[c] \in Nat
          /\ stb \in Int /\ take \in Int /\ ans \in Int /\ ack \in Int /\ ackx \in Int /\ send \in Int
          /\ ans >= 0
      BY DEF BusInv, BusTypeOK, Count
    <3>6. lclpending[n] = sout[c] + stb + ack
      BY <2>3
    <3> HIDE DEF stb, stbx, take, ans, ack, ackx, send
    <3>7. sout'[c] + stbx <= lclpending'[n]
      BY <3>1, <3>2, <3>3, <3>5, <3>6
    <3>8. ~r_merr'[n] => lclpending'[n] = sout'[c] + stbx + ackx
      BY <3>1, <3>2, <3>3, <3>4, <3>5, <3>6
    <3> QED
      BY <3>7, <3>8 DEF stbx, ackx
  <2> QED
    BY <2>4, <2>5
<1>3. CASE c \notin grant[n]
  <2>1. ~stay_on_channel(n) /\ requested_channel_is_available(n) /\ c \in request(n)
    BY <1>1, <1>3 DEF BusClock, XbarClock, MasterGrantClock
  <2>2. ~sgrant[c]
    BY <2>1, OpensFree DEF BusInv
  <2>3. ~o_scyc'[c] /\ ~o_sstb'[c]
    BY <2>2 DEF BusClock, XbarClock, SlaveOutputClock
  <2>4. sout'[c] = 0
    BY <2>3, OwedStep
  <2>5. lclpending'[n] = 0
    BY <1>1, <2>1, LeavesEmpty, PendingStep
  <2>6. ~r_mack'[n]
    BY <2>1, AckStays
  <2> QED
    BY <2>3, <2>4, <2>5, <2>6 DEF Count
<1> QED
  BY <1>2, <1>3
-----------------------------------------------------------------------------
(***************************************************************************)
(* The slaves, those that forget at the end of a cycle and those that      *)
(* acknowledge all the same.                                               *)
(***************************************************************************)

\* What a pipelined slave has yet to acknowledge moves one place a clock.  Below,
\* what enters its shift register, and what a word in it is once its cycle has ended.
Incoming(c) == IF SlaveTakes(c) THEN "live" ELSE "none"
Ended(x, cyc) == IF x = "live" /\ ~cyc THEN "stale" ELSE x

\* What a slave that acknowledges by a shift register holds after a clock: nothing
\* still in it survives the end of its cycle unmarked.
LEMMA PipeStep ==
    ASSUME BusInv, BusClock, NEW c \in Slaves
    PROVE  /\ Latency[c] \in 0 .. 2
           /\ Latency[c] = 1 => spipe'[c][1] = Ended(Incoming(c), o_scyc'[c])
           /\ Latency[c] = 2 => /\ spipe'[c][1] = Ended(spipe[c][2], o_scyc'[c])
                                /\ spipe'[c][2] = Ended(Incoming(c), o_scyc'[c])
           /\ spipe'[c] \in Seq({"none", "live", "stale"})
           /\ Len(spipe'[c]) = Latency[c]
<1> DEFINE moved == Append(Tail(spipe[c]), Incoming(c))
           T == {"none", "live", "stale"}
<1>1. spipe[c] \in Seq(T) /\ Len(spipe[c]) = Latency[c] /\ Latency[c] \in 0 .. 2
  BY EnvironmentAssumption DEF BusInv, BusTypeOK
<1>2. ASSUME Latency[c] = 1
      PROVE  moved[1] = Incoming(c)
  BY <1>1, <1>2
<1>3. ASSUME Latency[c] = 2
      PROVE  moved[1] = spipe[c][2] /\ moved[2] = Incoming(c)
  BY <1>1, <1>3
<1>4. Latency[c] # 0 =>
        spipe'[c] = [i \in 1 .. Latency[c] |->
                       IF moved[i] = "live" /\ ~o_scyc'[c] THEN "stale" ELSE moved[i]]
  BY SlaveStep DEF SlavePipe, Incoming
<1>5. Latency[c] = 0 => spipe'[c] = << >>
  BY SlaveStep DEF SlavePipe
<1>6. ASSUME Latency[c] # 0, NEW i \in 1 .. Latency[c]
      PROVE  moved[i] \in T
  BY <1>1, <1>2, <1>3, <1>6 DEF Incoming
<1> HIDE DEF moved
<1>7. spipe'[c] \in Seq(T) /\ Len(spipe'[c]) = Latency[c]
  <2>1. CASE Latency[c] = 0
    <3>1. << >> \in Seq(T) /\ Len(<< >>) = 0
      OBVIOUS
    <3> QED
      BY <1>5, <2>1, <3>1, Zenon
  <2>2. CASE Latency[c] # 0
    BY <1>1, <1>4, <1>6, <2>2
  <2> QED
    BY <2>1, <2>2
<1>8. ASSUME Latency[c] # 0, NEW i \in 1 .. Latency[c]
      PROVE  spipe'[c][i] = Ended(moved[i], o_scyc'[c])
  BY <1>4, <1>8 DEF Ended
<1>9. Latency[c] = 1 => spipe'[c][1] = Ended(Incoming(c), o_scyc'[c])
  BY <1>2, <1>8
<1>10. Latency[c] = 2 => /\ spipe'[c][1] = Ended(spipe[c][2], o_scyc'[c])
                         /\ spipe'[c][2] = Ended(Incoming(c), o_scyc'[c])
  BY <1>3, <1>8
<1> QED
  BY <1>1, <1>7, <1>9, <1>10

\* What is still to be acknowledged is what is live in the pipe.
LEMMA PipeOKStep ==
    ASSUME BusInv, BusClock
    PROVE  PipeOK'
<1> SUFFICES ASSUME NEW c \in Slaves, Latency[c] > 0
             PROVE  /\ sout'[c] = LiveAt(c, 1)' + LiveAt(c, 2)'
                    /\ \A i \in 1 .. Latency[c] : spipe'[c][i] = "stale" =>
                          ~o_scyc'[c] /\ (i = 2 => ~sgrant'[c])
                    /\ i_sack'[c] <=> spipe'[c][1] # "none"
  BY DEF PipeOK
<1>1. Latency[c] \in 1 .. 2
  BY PipeStep
<1>2. /\ sout[c] = LiveAt(c, 1) + LiveAt(c, 2)
      /\ \A i \in 1 .. Latency[c] : spipe[c][i] = "stale" =>
            ~o_scyc[c] /\ (i = 2 => ~sgrant[c])
      /\ i_sack[c] <=> spipe[c][1] # "none"
      /\ \A i \in 1 .. Latency[c] : spipe[c][i] \in {"none", "live", "stale"}
  BY <1>1 DEF BusInv, PipeOK, BusTypeOK
<1>3. ~i_serr[c]
  BY <1>1 DEF BusInv, SlaveOK
<1>4. ~sgrant[c] => ~o_scyc'[c] /\ ~SlaveTakes(c)
  BY DEF BusClock, XbarClock, SlaveOutputClock, BusInv, SlaveOK, SlaveTakes
<1>5. sgrant[c] /\ ~o_scyc'[c] => ~sgrant'[c]
  <2>1. sgrant[c] /\ ~o_scyc'[c] => ~i_mcyc[sindex[c]] \/ i_reset \/ s_err(c)
    BY DEF BusClock, XbarClock, SlaveOutputClock
  <2>2. ~s_err(c)
    BY <1>3, SizesAssumption DEF s_err, Slaves, None
  <2> QED
    BY <2>1, <2>2 DEF BusClock, XbarClock, SlaveGrantClock, drop_sgrant
<1>6. i_sack'[c] <=> spipe'[c][1] # "none"
  <2>1. i_sack'[c] <=> Head(spipe'[c]) # "none"
    BY SlaveStep
  <2>2. Head(spipe'[c]) = spipe'[c][1]
    BY PipeStep
  <2> QED
    BY <2>1, <2>2
<1>7. ASSUME NEW i \in 1 .. Latency[c], spipe'[c][i] = "stale"
      PROVE  ~o_scyc'[c] /\ (i = 2 => ~sgrant'[c])
  <2>1. CASE i = Latency[c]
    <3>1. spipe'[c][i] = Ended(Incoming(c), o_scyc'[c])
      BY <1>1, <2>1, PipeStep
    <3>2. SlaveTakes(c) /\ ~o_scyc'[c]
      BY <1>7, <3>1 DEF Ended, Incoming
    <3> QED
      BY <1>4, <1>5, <3>2
  <2>2. CASE i # Latency[c]
    <3>1. i = 1 /\ Latency[c] = 2
      BY <1>1, <2>2
    <3>2. spipe'[c][1] = Ended(spipe[c][2], o_scyc'[c])
      BY <3>1, PipeStep
    <3>3. ~o_scyc'[c] \/ spipe[c][2] = "stale"
      BY <1>7, <3>1, <3>2 DEF Ended
    <3> QED
      BY <1>2, <1>4, <3>1, <3>3
  <2> QED
    BY <2>1, <2>2
<1>8. sout'[c] = LiveAt(c, 1)' + LiveAt(c, 2)'
  <2> DEFINE l1 == LiveAt(c, 1)
             l2 == LiveAt(c, 2)
             x1 == LiveAt(c, 1)'
             x2 == LiveAt(c, 2)'
             take == Count(SlaveTakes(c))
             ans  == Count(SlaveAnswers(c))
  <2>1. CASE ~o_scyc'[c]
    <3>1. \A i \in 1 .. Latency[c] : spipe'[c][i] # "live"
      <4>1. spipe'[c][Latency[c]] # "live"
        BY <1>1, <2>1, PipeStep DEF Ended, Incoming
      <4>2. Latency[c] = 2 => spipe'[c][1] # "live"
        BY <2>1, PipeStep DEF Ended
      <4> QED
        BY <1>1, <4>1, <4>2
    <3>2. x1 = 0 /\ x2 = 0
      BY <1>1, <3>1 DEF LiveAt, Count
    <3>3. sout'[c] = 0
      BY <2>1, OwedStep
    <3> QED
      BY <3>2, <3>3
  <2>2. CASE o_scyc'[c]
    <3>1. sout'[c] = (sout[c] + take) - ans
      BY <2>2, OwedStep
    <3>2. l2 + take = x1 + x2
      <4>1. CASE Latency[c] = 1
        <5>1. spipe'[c][1] = "live" <=> SlaveTakes(c)
          BY <2>2, <4>1, PipeStep DEF Ended, Incoming
        <5> QED
          BY <4>1, <5>1 DEF LiveAt, Count
      <4>2. CASE Latency[c] = 2
        <5>1. /\ spipe'[c][1] = "live" <=> spipe[c][2] = "live"
              /\ spipe'[c][2] = "live" <=> SlaveTakes(c)
          BY <2>2, <4>2, PipeStep DEF Ended, Incoming
        <5> QED
          BY <4>2, <5>1 DEF LiveAt, Count
      <4> QED
        BY <1>1, <4>1, <4>2
    <3>3. ans = l1
      <4>1. SlaveAnswers(c) <=> o_scyc[c] /\ spipe[c][1] # "none"
        BY <1>2, <1>3 DEF SlaveAnswers
      <4>2. o_scyc[c] => (spipe[c][1] # "none" <=> spipe[c][1] = "live")
        BY <1>1, <1>2
      <4>3. ~o_scyc[c] => spipe[c][1] # "live"
        <5>1. ~o_scyc[c] => sout[c] = 0
          BY DEF BusInv, SlaveOK
        <5>2. spipe[c][1] = "live" => l1 = 1
          BY <1>1 DEF LiveAt, Count
        <5>3. l1 \in Nat /\ l2 \in Nat
          BY DEF LiveAt, Count
        <5> HIDE DEF l1, l2
        <5> QED
          BY <1>2, <5>1, <5>2, <5>3 DEF l1, l2
      <4> QED
        BY <1>1, <4>1, <4>2, <4>3 DEF LiveAt, Count
    <3>4. sout[c] = l1 + l2
      BY <1>2
    <3>5. take \in Int /\ l1 \in Int /\ l2 \in Int /\ x1 \in Int /\ x2 \in Int
      BY DEF LiveAt, Count
    <3> HIDE DEF l1, l2, x1, x2, take, ans
    <3>6. sout'[c] = x1 + x2
      BY <3>1, <3>2, <3>3, <3>4, <3>5
    <3> QED
      BY <3>6 DEF x1, x2
  <2> QED
    BY <2>1, <2>2
<1> QED
  BY <1>6, <1>7, <1>8

\* A slave about to lose its cycle has nothing to answer: its master moves away
\* only when its counter is zero (wbxbar.v:357-384).
LEMMA SlaveOKStep ==
    ASSUME BusInv, BusClock
    PROVE  SlaveOK'
<1> SUFFICES ASSUME NEW c \in Slaves
             PROVE  /\ o_sstb'[c] => o_scyc'[c]
                    /\ ~o_scyc'[c] \/ ~sgrant'[c] => sout'[c] = 0 /\ ~o_sstb'[c]
                    /\ o_scyc'[c] /\ (i_sack'[c] \/ i_serr'[c]) => sout'[c] > 0
                    /\ ~(i_sack'[c] /\ i_serr'[c])
                    /\ i_serr'[c] \/ i_sstall'[c] => Latency[c] = 0
  BY DEF SlaveOK
<1>1. o_sstb'[c] => o_scyc'[c]
  BY DEF BusClock, XbarClock, SlaveOutputClock
<1>2. ~o_scyc'[c] => sout'[c] = 0
  BY OwedStep
<1>3. ASSUME o_scyc'[c], ~sgrant'[c]
      PROVE  sout'[c] = 0 /\ ~o_sstb'[c]
  <2> DEFINE n == sindex[c]
  <2>1. sgrant[c] /\ i_mcyc[n] /\ ~i_reset
    BY <1>3 DEF BusClock, XbarClock, SlaveOutputClock
  <2>2. c \notin request(n) /\ mempty[n]
    BY <1>3, <2>1 DEF BusClock, XbarClock, SlaveGrantClock, drop_sgrant
  <2>3. n \in Masters /\ c \in grant[n] \cap Slaves
    BY <2>1 DEF BusInv, IInv, TypeOK, GrantsAgree
  <2>4. lclpending[n] = 0
    BY <2>2, <2>3 DEF BusInv, PendingFlagsAgree
  <2>5. sout[c] + Count(o_sstb[c]) <= lclpending[n] /\ sout[c] \in Nat
    BY <2>1, <2>3 DEF BusInv, Counted, BusTypeOK
  <2>6. sout[c] = 0 /\ ~o_sstb[c]
    BY <2>4, <2>5 DEF Count
  <2>7. ~o_sstb'[c]
    BY <1>3, <2>2, <2>6, SizesAssumption
    DEF BusClock, XbarClock, SlaveOutputClock, s_stall, Slaves, None
  <2>8. ~SlaveTakes(c) /\ ~SlaveAnswers(c)
    <3>1. ~(sout[c] > 0)
      BY <2>6
    <3> QED
      BY <2>6, <3>1 DEF SlaveTakes, SlaveAnswers, BusInv, SlaveOK
  <2>9. sout'[c] = 0
    BY <1>3, <2>6, <2>8, OwedStep DEF Count
  <2> QED
    BY <2>7, <2>9
<1>4. ASSUME o_scyc'[c], i_sack'[c] \/ i_serr'[c]
      PROVE  sout'[c] > 0
  <2>1. CASE Latency[c] = 0
    BY <1>4, <2>1, SlaveStep
  <2>2. CASE Latency[c] # 0
    <3>1. Latency[c] > 0 /\ 1 \in 1 .. Latency[c]
      BY <2>2, PipeStep
    <3>2. /\ sout'[c] = LiveAt(c, 1)' + LiveAt(c, 2)'
          /\ spipe'[c][1] # "stale"
          /\ i_sack'[c] <=> spipe'[c][1] # "none"
      BY <1>4, <3>1, PipeOKStep DEF PipeOK
    <3>3. spipe'[c][1] \in {"none", "live", "stale"}
      BY <3>1, PipeStep
    <3>4. ~i_serr'[c]
      BY <3>1, SlaveStep
    <3>5. LiveAt(c, 1)' = 1 /\ LiveAt(c, 2)' \in Nat
      BY <1>4, <3>1, <3>2, <3>3, <3>4 DEF LiveAt, Count
    <3> QED
      BY <3>2, <3>5
  <2> QED
    BY <2>1, <2>2
<1>5. ~(i_sack'[c] /\ i_serr'[c])
  BY SlaveStep
<1>6. i_serr'[c] \/ i_sstall'[c] => Latency[c] = 0
  <2>1. Latency[c] # 0 => Latency[c] > 0
    BY PipeStep
  <2> QED
    BY <2>1, SlaveStep
<1> QED
  BY <1>1, <1>2, <1>3, <1>4, <1>5, <1>6

-----------------------------------------------------------------------------
(***************************************************************************)
(* The invariant of the bus.                                               *)
(***************************************************************************)

\* Counters stay numbers and shift registers keep their length.
LEMMA BusTypeStep ==
    ASSUME BusInv, BusClock
    PROVE  BusTypeOK'
<1>1. \A a, b \in Nat : Monus(a, b) \in Nat
  BY DEF Monus
<1>2. \A b : Count(b) \in Nat
  BY DEF Count
<1>3. sout' \in [Slaves -> Nat]
  <2>1. \A c \in Slaves : sout[c] + Count(SlaveTakes(c)) \in Nat
    BY <1>2 DEF BusInv, BusTypeOK
  <2>2. \A c \in Slaves : Monus(sout[c] + Count(SlaveTakes(c)), Count(SlaveAnswers(c))) \in Nat
    BY <1>1, <1>2, <2>1
  <2> QED
    BY <2>2 DEF BusClock, SlavesClock
<1>4. mout' \in [Masters -> Nat]
  <2>1. \A n \in Masters : mout[n] + Count(Accepted(n)) \in Nat
    BY <1>2 DEF BusInv, BusTypeOK
  <2>2. \A n \in Masters : Monus(mout[n] + Count(Accepted(n)), Count(Answered(n))) \in Nat
    BY <1>1, <1>2, <2>1
  <2> QED
    BY <2>2 DEF BusClock, MastersClock
<1>5. \A c \in Slaves : spipe'[c] \in Seq({"none", "live", "stale"}) /\ Len(spipe'[c]) = Latency[c]
  BY PipeStep
<1> QED
  BY <1>3, <1>4, <1>5 DEF BusTypeOK

\* After reset nothing is pending anywhere.
LEMMA BusStart == BusInit => BusInv
<1> SUFFICES ASSUME BusInit PROVE BusInv
  OBVIOUS
<1>0. \A c \in Slaves : Latency[c] \in Nat
  BY EnvironmentAssumption
<1> USE DEF BusInit, RegInit
<1>1. IInv
  <2>1. NoRequest \in MaybeRequest
    BY DEF MaybeRequest
  <2>2. Init
    BY <2>1 DEF Init, InputsOK
  <2> QED
    BY <2>2, InitInv
<1>2. BusTypeOK
  <2>1. mout \in [Masters -> Nat] /\ sout \in [Slaves -> Nat]
    OBVIOUS
  <2>2. ASSUME NEW c \in Slaves
        PROVE  spipe[c] \in Seq({"none", "live", "stale"}) /\ Len(spipe[c]) = Latency[c]
    <3>1. Latency[c] \in Nat
      BY <1>0
    <3>2. spipe[c] = [i \in 1 .. Latency[c] |-> "none"]
      OBVIOUS
    <3> QED
      BY <3>1, <3>2
  <2> QED
    BY <2>1, <2>2 DEF BusTypeOK
<1>3. PendingFlagsAgree
  BY OptionsAssumption DEF PendingFlagsAgree
<1>4. AnswerOK /\ Counted /\ SlaveOK
  BY DEF AnswerOK, Counted, SlaveOK
<1>5. PipeOK
  <2> SUFFICES ASSUME NEW c \in Slaves, Latency[c] > 0
               PROVE  /\ sout[c] = LiveAt(c, 1) + LiveAt(c, 2)
                      /\ \A i \in 1 .. Latency[c] : spipe[c][i] # "stale"
                      /\ ~i_sack[c] /\ spipe[c][1] = "none"
    BY DEF PipeOK
  <2>1. \A i \in 1 .. Latency[c] : spipe[c][i] = "none"
    OBVIOUS
  <2>2. ~i_sack[c] /\ sout[c] = 0 /\ 1 \in 1 .. Latency[c]
    BY <1>0
  <2>3. LiveAt(c, 1) = 0 /\ LiveAt(c, 2) = 0
    BY <1>0, <2>1 DEF LiveAt, Count
  <2> QED
    BY <2>1, <2>2, <2>3
<1> QED
  BY <1>1, <1>2, <1>3, <1>4, <1>5 DEF BusInv

\* Every clock of the bus keeps all of that.
LEMMA BusStep == BusInv /\ [BusClock]_allvars => BusInv'
<1> SUFFICES ASSUME BusInv, [BusClock]_allvars PROVE BusInv'
  OBVIOUS
<1>1. CASE BusClock
  <2>1. IInv'
    BY <1>1, ClockIsNext, NextInv DEF BusInv
  <2> QED
    BY <1>1, <2>1, BusTypeStep, FlagsStep, AnswerStep, CountedStep, SlaveOKStep, PipeOKStep
    DEF BusInv
<1>2. CASE UNCHANGED allvars
  <2>1. IInv'
    BY <1>2, NextInv DEF BusInv, allvars
  <2>2. BusTypeOK' /\ PendingFlagsAgree' /\ AnswerOK'
    BY <1>2 DEF BusInv, BusTypeOK, PendingFlagsAgree, AnswerOK, allvars, vars, inputs, regs, arbiter
  <2>3. Counted'
    BY <1>2 DEF BusInv, Counted, o_merr, o_mack, allvars, vars, inputs, regs, arbiter
  <2>4. SlaveOK' /\ PipeOK'
    BY <1>2 DEF BusInv, SlaveOK, PipeOK, LiveAt, allvars, vars, inputs, regs, arbiter
  <2> QED
    BY <2>1, <2>2, <2>3, <2>4 DEF BusInv
<1> QED
  BY <1>1, <1>2

\* The strengthened invariant of the crossbar among well-behaved neighbours.
THEOREM BusInvariance == BusSpec => []BusInv
  BY BusStart, BusStep, PTL DEF BusSpec

\* The empty, nearly full and full flags beside each counter of pending
\* requests always say what the counter says (FORMAL block CHECK_TIMEOUT of
\* wbxbar.v), for every depth of the counter.
THEOREM FlagsAlwaysAgree == BusSpec => []PendingFlagsAgree
<1>1. BusInv => PendingFlagsAgree
  BY DEF BusInv
<1> QED
  BY <1>1, BusInvariance, PTL

\* An acknowledgement that outlives its cycle never reaches a master, for any
\* mix of slaves that ignore i_wb_cyc for one clock or two (rtl/main.v).
THEOREM NeverStaleAnswer == BusSpec => []NoStaleAnswer
<1>1. BusInv => NoStaleAnswer
  <2> SUFFICES ASSUME BusInv, NEW c \in Slaves, Latency[c] > 0, SlaveAnswers(c)
               PROVE  Head(spipe[c]) = "live"
    BY DEF NoStaleAnswer
  <2>1. /\ spipe[c] \in Seq({"none", "live", "stale"}) /\ Len(spipe[c]) = Latency[c]
        /\ Latency[c] \in 1 .. 2
    BY EnvironmentAssumption DEF BusInv, BusTypeOK
  <2>2. spipe[c][1] # "none" /\ spipe[c][1] # "stale"
    <3>1. Latency[c] # 0
      BY <2>1
    <3>2. o_scyc[c] /\ i_sack[c]
      BY <3>1 DEF SlaveAnswers, BusInv, SlaveOK
    <3>3. 1 \in 1 .. Latency[c]
      BY <2>1
    <3> QED
      BY <3>2, <3>3 DEF BusInv, PipeOK
  <2> QED
    BY <2>1, <2>2
<1> QED
  BY <1>1, BusInvariance, PTL

-----------------------------------------------------------------------------
(***************************************************************************)
(* No request is lost on its way to the slave.                             *)
(***************************************************************************)

\* What keeps a master from asking for another slave while its counter is full:
\* there the decoder is not stalled and the request is dropped (wbxbar.v:853).
\* Either masters never have that much outstanding, as those of rtl/main.v never
\* do, or there is no other slave to ask for.
NoOverflow ==
    \/ \A n \in Masters : MaxOut[n] <= MaxPending
    \/ \E s \in Slaves : \A r \in Request : SlaveOf[r] = s

\* What a master counts is what the crossbar holds, it keeps within its bound, and
\* it was granted what it asked for.
MoutAgrees ==
    \A n \in Masters : i_mcyc[n] =>
        mout[n] = lclpending[n] + Count(dcd_stb(n)) + Count(skd[n] # NoRequest)
MoutBounded ==
    \A n \in Masters : mout[n] <= MaxOut[n] /\ (i_mstb(n) => mout[n] < MaxOut[n])
GrantsAsked == \A n \in Masters : grant[n] \subseteq {SlaveOf[r] : r \in Request}

AgreeInv == BusInv /\ MoutAgrees /\ MoutBounded /\ GrantsAsked

\* A master whose counter is full has room neither at its port nor in the decoder.
LEMMA FullStalls ==
    ASSUME NoOverflow, AgreeInv
    PROVE  FullMeansStall
<1> SUFFICES ASSUME NEW n \in Masters, mfull[n], request(n) # {}, ~o_merr(n)
             PROVE  m_stall(n)
  BY DEF FullMeansStall
<1>1. lclpending[n] = MaxPending /\ ~mempty[n] /\ mgrant[n] /\ None \notin grant[n]
  <2>1. lclpending[n] = MaxPending /\ lclpending[n] # 0
    BY OptionsAssumption DEF AgreeInv, BusInv, PendingFlagsAgree
  <2> QED
    BY <2>1 DEF AgreeInv, BusInv, AnswerOK, PendingFlagsAgree
<1>2. i_mcyc[n] /\ dcd_stb(n)
  BY RequestOne DEF AgreeInv, BusInv, IInv
<1>3. mindex[n] \in grant[n] \cap Slaves
  BY <1>1, HoldsSlave DEF AgreeInv, BusInv
<1>4. mindex[n] \in request(n)
  <2>1. CASE MaxOut[n] <= MaxPending
    <3>1. mout[n] = lclpending[n] + 1 + Count(skd[n] # NoRequest)
      BY <1>2 DEF AgreeInv, MoutAgrees, Count
    <3>2. mout[n] <= MaxOut[n]
      BY DEF AgreeInv, MoutBounded
    <3>3. Count(skd[n] # NoRequest) \in Nat /\ MaxOut[n] \in Nat /\ MaxPending \in Nat
      BY OptionsAssumption, EnvironmentAssumption DEF Count
    <3> DEFINE k == Count(skd[n] # NoRequest)
    <3> HIDE DEF k
    <3> QED
      BY <1>1, <2>1, <3>1, <3>2, <3>3
  <2>2. CASE \E s \in Slaves : \A r \in Request : SlaveOf[r] = s
    <3>1. PICK s \in Slaves : \A r \in Request : SlaveOf[r] = s
      BY <2>2
    <3>2. mindex[n] = s
      BY <1>3, <3>1 DEF AgreeInv, GrantsAsked
    <3>3. dcd[n] \in Request
      BY <1>2 DEF AgreeInv, BusInv, IInv, TypeOK, MaybeRequest, dcd_stb
    <3> QED
      BY <1>2, <3>1, <3>2, <3>3 DEF request
  <2> QED
    BY <2>1, <2>2 DEF NoOverflow
<1> QED
  BY <1>1, <1>3, <1>4 DEF m_stall

\* What a master has outstanding follows what it hands in and what it is answered.
LEMMA MoutStep ==
    ASSUME AgreeInv, BusClock, NEW n \in Masters
    PROVE  /\ ~i_mcyc[n] \/ ~i_mcyc'[n] => mout'[n] = 0
           /\ i_mcyc[n] /\ i_mcyc'[n] =>
                 /\ ~ClearPending(n)
                 /\ mout'[n] = (mout[n] + Count(Accepted(n))) - Count(o_mack(n))
           /\ i_mreq'[n] # NoRequest => mout'[n] < MaxOut[n]
<1>1. PICK mv \in [Masters -> MasterMoves] :
          /\ i_mcyc' = [k \in Masters |-> mv[k].cyc]
          /\ i_mreq' = [k \in Masters |-> mv[k].req]
          /\ mout' = [k \in Masters |->
                IF ~i_mcyc[k] \/ ~mv[k].cyc THEN 0
                ELSE Monus(mout[k] + Count(Accepted(k)), Count(Answered(k)))]
          /\ \A k \in Masters : mv[k].req # NoRequest => mout'[k] < MaxOut[k]
  BY DEF BusClock, MastersClock
<1>2. ASSUME i_mcyc[n], i_mcyc'[n]
      PROVE  /\ ~ClearPending(n)
             /\ mout'[n] = (mout[n] + Count(Accepted(n))) - Count(o_mack(n))
  <2>1. ~ClearPending(n) /\ ~o_merr(n)
    BY <1>2, MasterGoesOn DEF ClearPending
  <2>2. mout'[n] = Monus(mout[n] + Count(Accepted(n)), Count(Answered(n)))
    BY <1>1, <1>2
  <2>3. Count(Answered(n)) = Count(o_mack(n))
    BY <1>2, <2>1 DEF Count, Answered
  <2> DEFINE acc == Count(Accepted(n))
             ack == Count(o_mack(n))
             d   == Count(dcd_stb(n))
             k   == Count(skd[n] # NoRequest)
  <2>4. mout[n] = lclpending[n] + d + k
    BY <1>2 DEF AgreeInv, MoutAgrees
  <2>5. acc \in Nat /\ d \in Nat /\ k \in Nat /\ lclpending[n] \in Nat /\ mout[n] \in Nat
    BY OptionsAssumption DEF Count, AgreeInv, BusInv, IInv, TypeOK, BusTypeOK
  <2>6. ack = 0 \/ (ack = 1 /\ lclpending[n] > 0)
    BY <1>2, <2>1, AckCounted DEF Count, AgreeInv
  <2> HIDE DEF acc, ack, d, k
  <2>7. mout[n] + acc >= ack
    BY <2>4, <2>5, <2>6
  <2>8. Monus(mout[n] + acc, ack) = (mout[n] + acc) - ack
    BY <2>7 DEF Monus
  <2> QED
    BY <2>1, <2>2, <2>3, <2>8 DEF acc, ack
<1>3. ~i_mcyc[n] \/ ~i_mcyc'[n] => mout'[n] = 0
  BY <1>1
<1>4. i_mreq'[n] # NoRequest => mout'[n] < MaxOut[n]
  BY <1>1
<1> QED
  BY <1>2, <1>3, <1>4

\* A request the decoder does not hold back goes to the port, one it holds back
\* stays, and the next one takes its place (skidbuffer.v, addrdecode.v).
LEMMA EntryMove ==
    ASSUME NoOverflow, AgreeInv, BusClock, NEW n \in Masters, ~ClearPending(n)
    PROVE  \/ /\ ~Sent(n) /\ dcd_stb(n) /\ dcd'[n] = dcd[n]
              /\ skd'[n] = IF skd[n] # NoRequest THEN skd[n] ELSE i_mreq[n]
           \/ /\ Sent(n) <=> dcd_stb(n)
              /\ skd'[n] = NoRequest
              /\ dcd'[n] = IF skd[n] # NoRequest THEN skd[n] ELSE i_mreq[n]
<1>1. i_mcyc[n] /\ ~i_reset /\ ~o_merr(n)
  BY DEF ClearPending
<1>2. /\ skd'[n] = IF ~dcd_stall(n) THEN NoRequest
                   ELSE IF o_mstall(n) THEN skd[n] ELSE i_mreq[n]
      /\ dcd'[n] = IF dcd_stall(n) THEN dcd[n] ELSE skd_out(n)
  BY <1>1 DEF BusClock, XbarClock, SkidClock, DecodeClock
<1>3. CASE dcd_stall(n)
  <2>1. dcd_stb(n) /\ ~Sent(n) /\ dcd'[n] = dcd[n]
    BY <1>2, <1>3 DEF dcd_stall, Sent
  <2>2. skd'[n] = IF skd[n] # NoRequest THEN skd[n] ELSE i_mreq[n]
    BY <1>2, <1>3 DEF o_mstall
  <2> QED
    BY <2>1, <2>2
<1>4. CASE ~dcd_stall(n)
  <2>1. dcd_stb(n) <=> Sent(n)
    <3>1. dcd_stb(n) => ~m_stall(n)
      BY <1>1, <1>4 DEF dcd_stall
    <3>2. dcd_stb(n) => request(n) # {}
      BY <1>1 DEF request
    <3>3. dcd_stb(n) => ~mfull[n]
      BY <1>1, <3>1, <3>2, FullStalls DEF FullMeansStall
    <3> QED
      BY <1>1, <3>1, <3>3 DEF Sent, m_stb
  <2>2. skd'[n] = NoRequest
    BY <1>2, <1>4
  <2>3. dcd'[n] = IF skd[n] # NoRequest THEN skd[n] ELSE i_mreq[n]
    BY <1>1, <1>2, <1>4 DEF skd_out
  <2> QED
    BY <2>1, <2>2, <2>3
<1> QED
  BY <1>3, <1>4

\* Together they hand on one request for each they are handed.
LEMMA EntryStep ==
    ASSUME NoOverflow, AgreeInv, BusClock, NEW n \in Masters, ~ClearPending(n)
    PROVE  Count(dcd_stb(n))' + Count(skd[n] # NoRequest)' =
              ((Count(dcd_stb(n)) + Count(skd[n] # NoRequest)) + Count(Accepted(n))) - Count(Sent(n))
<1>1. Accepted(n) <=> i_mreq[n] # NoRequest /\ skd[n] = NoRequest
  BY DEF ClearPending, Accepted, i_mstb, o_mstall
<1>2. CASE /\ ~Sent(n) /\ dcd_stb(n) /\ dcd'[n] = dcd[n]
           /\ skd'[n] = IF skd[n] # NoRequest THEN skd[n] ELSE i_mreq[n]
  BY <1>1, <1>2 DEF Count, dcd_stb
<1>3. CASE /\ Sent(n) <=> dcd_stb(n)
           /\ skd'[n] = NoRequest
           /\ dcd'[n] = IF skd[n] # NoRequest THEN skd[n] ELSE i_mreq[n]
  <2>1. Count(dcd_stb(n)) = Count(Sent(n))
    BY <1>3 DEF Count
  <2>2. Count(skd[n] # NoRequest)' = 0
    BY <1>3 DEF Count
  <2>3. Count(dcd_stb(n))' = Count(skd[n] # NoRequest) + Count(Accepted(n))
    BY <1>1, <1>3 DEF Count, dcd_stb
  <2> DEFINE a == Count(Sent(n))
             b == Count(skd[n] # NoRequest)
             e == Count(Accepted(n))
             x == Count(dcd_stb(n))'
             y == Count(skd[n] # NoRequest)'
  <2>4. a \in Int /\ b \in Int /\ e \in Int /\ x = b + e /\ y = 0
    BY <2>2, <2>3 DEF Count
  <2> HIDE DEF a, b, e, x, y
  <2>5. x + y = ((a + b) + e) - a
    BY <2>4
  <2> QED
    BY <2>1, <2>5 DEF a, b, e, x, y
<1> QED
  BY <1>2, <1>3, EntryMove

\* What a master counts and what is held for it move together.
LEMMA AgreeStep ==
    ASSUME NoOverflow, AgreeInv, BusClock
    PROVE  AgreeInv'
<1>1. BusInv'
  BY BusStep DEF AgreeInv
<1>2. MoutAgrees'
  <2> SUFFICES ASSUME NEW n \in Masters, i_mcyc'[n]
               PROVE  mout'[n] = lclpending'[n] + Count(dcd_stb(n))' + Count(skd[n] # NoRequest)'
    BY DEF MoutAgrees
  <2>1. CASE ~i_mcyc[n]
    <3>1. lclpending'[n] = 0 /\ mout'[n] = 0
      BY <2>1, PendingStep, MoutStep DEF AgreeInv, ClearPending
    <3>2. dcd'[n] = NoRequest /\ skd'[n] = NoRequest
      BY <2>1 DEF BusClock, XbarClock, SkidClock, DecodeClock, dcd_stall, skd_out
    <3> QED
      BY <3>1, <3>2 DEF Count, dcd_stb
  <2>2. CASE i_mcyc[n]
    <3> DEFINE acc == Count(Accepted(n))
               ack == Count(o_mack(n))
               snt == Count(Sent(n))
               d   == Count(dcd_stb(n))
               k   == Count(skd[n] # NoRequest)
               dx  == Count(dcd_stb(n))'
               kx  == Count(skd[n] # NoRequest)'
               m   == mout[n]
               p   == lclpending[n]
               mx  == mout'[n]
               px  == lclpending'[n]
    <3>1. ~ClearPending(n) /\ mx = (m + acc) - ack
      BY <2>2, MoutStep
    <3>2. px = (p + snt) - ack
      <4>1. lclpending[n] \in Nat
        BY OptionsAssumption DEF AgreeInv, BusInv, IInv, TypeOK
      <4> QED
        BY <3>1, <4>1, PendingStep DEF AgreeInv, Count
    <3>3. dx + kx = ((d + k) + acc) - snt
      BY <3>1, EntryStep
    <3>4. m = p + d + k
      BY <2>2 DEF AgreeInv, MoutAgrees
    <3>5. /\ p \in Int /\ acc \in Int /\ ack \in Int /\ snt \in Int
          /\ d \in Int /\ k \in Int /\ dx \in Int /\ kx \in Int
      BY OptionsAssumption DEF AgreeInv, BusInv, IInv, TypeOK, Count
    <3> HIDE DEF acc, ack, snt, d, k, dx, kx, m, p, mx, px
    <3>6. mx = px + dx + kx
      <4>1. mx = (p + d + k + acc) - ack /\ dx = (((d + k) + acc) - snt) - kx
        BY <3>1, <3>3, <3>4, <3>5
      <4> QED
        BY <3>2, <3>5, <4>1
    <3> QED
      BY <3>6 DEF dx, kx, mx, px
  <2> QED
    BY <2>1, <2>2
<1>3. MoutBounded'
  <2> SUFFICES ASSUME NEW n \in Masters
               PROVE  mout'[n] <= MaxOut[n] /\ (i_mreq'[n] # NoRequest => mout'[n] < MaxOut[n])
    BY DEF MoutBounded, i_mstb
  <2>1. MaxOut[n] \in Nat /\ mout[n] \in Nat
    BY EnvironmentAssumption DEF AgreeInv, BusInv, BusTypeOK
  <2>2. mout'[n] <= MaxOut[n]
    <3>1. CASE ~i_mcyc[n] \/ ~i_mcyc'[n]
      BY <2>1, <3>1, MoutStep
    <3>2. CASE i_mcyc[n] /\ i_mcyc'[n]
      <4> DEFINE acc == Count(Accepted(n))
                 ack == Count(o_mack(n))
      <4>1. mout'[n] = (mout[n] + acc) - ack
        BY <3>2, MoutStep
      <4>2. mout[n] <= MaxOut[n] /\ (acc = 0 \/ (acc = 1 /\ mout[n] < MaxOut[n])) /\ ack \in Nat
        BY DEF AgreeInv, MoutBounded, Accepted, Count
      <4> HIDE DEF acc, ack
      <4> QED
        BY <2>1, <4>1, <4>2
    <3> QED
      BY <3>1, <3>2
  <2> QED
    BY <2>2, MoutStep
<1>4. GrantsAsked'
  <2>1. \A n \in Masters : request(n) \subseteq {SlaveOf[r] : r \in Request}
    BY DEF request, dcd_stb, AgreeInv, BusInv, IInv, TypeOK, MaybeRequest
  <2> QED
    BY <2>1 DEF BusClock, XbarClock, MasterGrantClock, AgreeInv, GrantsAsked
<1> QED
  BY <1>1, <1>2, <1>3, <1>4 DEF AgreeInv

\* At first no master waits for anything.
LEMMA AgreeStart == BusInit => AgreeInv
<1> SUFFICES ASSUME BusInit PROVE AgreeInv
  OBVIOUS
<1>1. MoutAgrees /\ GrantsAsked
  BY DEF BusInit, RegInit, MoutAgrees, GrantsAsked
<1>2. MoutBounded
  BY EnvironmentAssumption DEF BusInit, MoutBounded, i_mstb
<1> QED
  BY <1>1, <1>2, BusStart DEF AgreeInv

\* A clock that changes nothing keeps that too.
LEMMA AgreeNext ==
    ASSUME NoOverflow
    PROVE  AgreeInv /\ [BusClock]_allvars => AgreeInv'
<1> SUFFICES ASSUME AgreeInv, [BusClock]_allvars PROVE AgreeInv'
  OBVIOUS
<1>1. CASE BusClock
  BY <1>1, AgreeStep
<1>2. CASE UNCHANGED allvars
  <2>1. BusInv'
    BY BusStep DEF AgreeInv
  <2> QED
    BY <1>2, <2>1
    DEF AgreeInv, MoutAgrees, MoutBounded, GrantsAsked, dcd_stb, i_mstb,
        allvars, vars, inputs, regs, arbiter
<1> QED
  BY <1>1, <1>2

\* What a master counts as unanswered is in the crossbar, at the slave, or on its way
\* back, as long as no counter can overflow (wbxbar.v:853).
THEOREM AgreeInvariance == ASSUME NoOverflow PROVE BusSpec => []AgreeInv
  BY AgreeStart, AgreeNext, PTL DEF BusSpec

\* A request the crossbar has taken in is never dropped because the counter of
\* pending requests is full: the decoder is stalled while it is (wbxbar.v:1313).
THEOREM FullAlwaysStalls == ASSUME NoOverflow PROVE BusSpec => []FullMeansStall
<1>1. AgreeInv => FullMeansStall
  BY FullStalls
<1> QED
  BY <1>1, AgreeInvariance, PTL

\* What a master counts as unanswered is what the crossbar holds for it, and what
\* the crossbar counts as pending is what the slave has yet to accept or answer
\* (FORMAL block CHECK_OUTSTANDING of wbxbar.v): no request is lost, none is
\* answered twice, whatever stalls, errors, aborted cycles and resets there are.
THEOREM OutstandingAlwaysAgree == ASSUME NoOverflow PROVE BusSpec => []OutstandingAgree
<1>1. AgreeInv => OutstandingAgree
  <2> SUFFICES ASSUME AgreeInv PROVE OutstandingAgree
    OBVIOUS
  <2>1. ASSUME NEW n \in Masters, NEW c \in grant[n] \cap Slaves, i_mcyc[n], ~o_merr(n)
        PROVE  lclpending[n] = sout[c] + Count(o_sstb[c]) + Count(o_mack(n))
    BY <2>1 DEF AgreeInv, BusInv, Counted
  <2> QED
    BY <2>1 DEF AgreeInv, MoutAgrees, OutstandingAgree
<1> QED
  BY <1>1, AgreeInvariance, PTL

-----------------------------------------------------------------------------
(***************************************************************************)
(* The crossbar as the switch of WbSwitch.                                 *)
(***************************************************************************)

\* What stands at a slave's port is for that slave, and an acknowledgement on its
\* way back comes from a cycle that is still open.
PortOK == \A c \in Slaves :
    o_sstb[c] => o_sreq[c] \in Request /\ SlaveOf[o_sreq[c]] = c
AckOpen == \A n \in Masters : r_mack[n] => \A c \in grant[n] \cap Slaves : o_scyc[c]

SwInv == AgreeInv /\ PortOK /\ AckOpen

\* A request stands only at the port of its own slave, and only an open slave answers.
LEMMA SwStep ==
    ASSUME NoOverflow, SwInv, BusClock
    PROVE  SwInv'
<1>1. PortOK'
  <2> SUFFICES ASSUME NEW c \in Slaves, o_sstb'[c]
               PROVE  o_sreq'[c] \in Request /\ SlaveOf[o_sreq'[c]] = c
    BY DEF PortOK
  <2>1. sgrant[c]
    BY DEF BusClock, XbarClock, SlaveOutputClock
  <2>2. CASE s_stall(c)
    <3>1. o_sreq'[c] = o_sreq[c] /\ o_sstb[c]
      BY <2>1, <2>2, SizesAssumption DEF BusClock, XbarClock, SlaveOutputClock, s_stall, Slaves, None
    <3> QED
      BY <3>1 DEF SwInv, PortOK
  <2>3. CASE ~s_stall(c)
    <3>1. o_sreq'[c] = dcd[sindex[c]] /\ c \in request(sindex[c]) /\ sindex[c] \in Masters
      BY <2>1, <2>3 DEF BusClock, XbarClock, SlaveOutputClock, SwInv, AgreeInv, BusInv, IInv, TypeOK
    <3> QED
      BY <3>1 DEF request, dcd_stb, SwInv, AgreeInv, BusInv, IInv, TypeOK, MaybeRequest
  <2> QED
    BY <2>2, <2>3
<1>2. AckOpen'
  <2> SUFFICES ASSUME NEW n \in Masters, r_mack'[n], NEW c \in grant'[n] \cap Slaves
               PROVE  o_scyc'[c]
    BY DEF AckOpen
  <2>1. stay_on_channel(n) /\ mgrant[n] /\ None \notin grant[n] /\ ~ReleaseGrant(n)
    BY AckStays DEF SwInv, AgreeInv
  <2>2. c \in grant[n] \cap Slaves
    BY <2>1 DEF BusClock, XbarClock, MasterGrantClock
  <2>3. ~ClearPending(n) /\ s_ack(mindex[n])
    BY DEF BusClock, XbarClock, AnswerClock, ClearPending
  <2>4. mindex[n] = c
    BY <2>2, Holds DEF SwInv, AgreeInv, BusInv
  <2>5. ~s_err(c)
    BY <2>3, <2>4 DEF s_ack, s_err, SwInv, AgreeInv, BusInv, SlaveOK
  <2> QED
    BY <2>2, <2>3, <2>5, PortStep DEF SwInv, AgreeInv
<1>3. AgreeInv'
  BY AgreeStep DEF SwInv
<1> QED
  BY <1>1, <1>2, <1>3 DEF SwInv

\* A master's queue and what it is owed, read from the slave it holds.
AtPort(n) == IF \E c \in AtSlave(n) : o_sstb[c]
             THEN o_sreq[CHOOSE c \in AtSlave(n) : o_sstb[c]] ELSE NoRequest

SwitchView(n) ==
    /\ ~Talking(n) => SwitchQueue[n] = << >> /\ SwitchOwed[n] = 0
    /\ Talking(n) =>
         /\ SwitchQueue[n] = Word(AtPort(n)) \o Word(dcd[n]) \o Word(skd[n])
         /\ AtPort(n) \in MaybeRequest
         /\ \A c \in grant[n] \cap Slaves :
               /\ AtPort(n) = IF o_sstb[c] THEN o_sreq[c] ELSE NoRequest
               /\ SwitchOwed[n] = sout[c] + Count(r_mack[n])
         /\ grant[n] \cap Slaves = {} => AtPort(n) = NoRequest /\ SwitchOwed[n] = 0
    /\ SwitchOwed[n] > 0 => mindex[n] \in AtSlave(n)

\* The abstract queue and count of each master, spelled out.
LEMMA View == SwInv => \A n \in Masters : SwitchView(n)
<1> SUFFICES ASSUME SwInv, NEW n \in Masters PROVE SwitchView(n)
  OBVIOUS
<1>1. \A c \in grant[n] \cap Slaves : grant[n] = {c} /\ mindex[n] = c
  BY Holds DEF SwInv, AgreeInv, BusInv
<1>2. CASE ~Talking(n)
  <2>1. SwitchQueue[n] = << >> /\ SwitchOwed[n] = 0
    BY <1>2 DEF SwitchQueue, SwitchOwed
  <2> QED
    BY <1>2, <2>1 DEF SwitchView
<1>3. CASE Talking(n) /\ grant[n] \cap Slaves = {}
  <2>1. AtSlave(n) = {}
    BY <1>3 DEF AtSlave
  <2>2. AtPort(n) = NoRequest /\ SwitchOwed[n] = 0 /\ Word(NoRequest) = << >>
    BY <2>1 DEF AtPort, SwitchOwed, Word
  <2>3. SwitchQueue[n] = << >> \o Word(dcd[n]) \o Word(skd[n])
    BY <1>3, <2>1 DEF SwitchQueue
  <2> QED
    BY <1>3, <2>2, <2>3 DEF SwitchView, MaybeRequest
<1>4. CASE Talking(n) /\ grant[n] \cap Slaves # {}
  <2>1. PICK c \in grant[n] \cap Slaves : grant[n] = {c} /\ mindex[n] = c
    BY <1>1, <1>4
  <2>2. AtSlave(n) = IF o_scyc[c] THEN {c} ELSE {}
    BY <2>1 DEF AtSlave
  <2>3. o_sstb[c] => o_scyc[c] /\ o_sreq[c] \in Request
    BY DEF SwInv, AgreeInv, BusInv, SlaveOK, PortOK
  <2>4. AtPort(n) = IF o_sstb[c] THEN o_sreq[c] ELSE NoRequest
    BY <2>2, <2>3 DEF AtPort
  <2>5. SwitchQueue[n] = Word(AtPort(n)) \o Word(dcd[n]) \o Word(skd[n])
    <3>1. (\E k \in AtSlave(n) : o_sstb[k]) <=> o_sstb[c]
      BY <2>2, <2>3
    <3>2. o_sstb[c] => (CHOOSE k \in AtSlave(n) : o_sstb[k]) = c
      BY <2>2, <2>3
    <3>3. Word(AtPort(n)) = IF o_sstb[c] THEN <<o_sreq[c]>> ELSE << >>
      BY <2>3, <2>4, RequestAssumption DEF Word
    <3> QED
      BY <1>4, <3>1, <3>2, <3>3 DEF SwitchQueue
  <2>6. SwitchOwed[n] = sout[c] + Count(r_mack[n])
    <3>1. CASE o_scyc[c]
      BY <1>4, <2>2, <3>1 DEF SwitchOwed, o_mack
    <3>2. CASE ~o_scyc[c]
      BY <2>1, <2>2, <3>2 DEF SwitchOwed, Count, SwInv, AckOpen, AgreeInv, BusInv, SlaveOK
    <3> QED
      BY <3>1, <3>2
  <2>7. SwitchOwed[n] > 0 => mindex[n] \in AtSlave(n)
    BY <2>1, <2>2 DEF SwitchOwed
  <2> QED
    BY <1>4, <2>1, <2>3, <2>4, <2>5, <2>6, <2>7 DEF SwitchView, MaybeRequest
<1> QED
  BY <1>2, <1>3, <1>4

\* Words put one behind the other.
LEMMA Words ==
    /\ \A r \in MaybeRequest : Word(r) \in Seq(Request)
    /\ Word(NoRequest) = << >>
    /\ \A s \in Seq(Request) : << >> \o s = s /\ s \o << >> = s
    /\ \A s, t \in Seq(Request) : s \o t \in Seq(Request)
    /\ \A s, t, u \in Seq(Request) : (s \o t) \o u = s \o (t \o u)
<1>1. \A r \in MaybeRequest : Word(r) \in Seq(Request)
  BY DEF Word, MaybeRequest
<1>2. \A s \in Seq(Request) : << >> \o s = s /\ s \o << >> = s
  BY ConcatEmptySeq
<1>3. \A s, t, u \in Seq(Request) : (s \o t) \o u = s \o (t \o u)
  BY ConcatAssociative
<1> QED
  BY <1>1, <1>2, <1>3 DEF Word

\* A queue whose first word is handed over.
LEMMA QueueHead ==
    ASSUME NEW r \in Request, NEW s \in Seq(Request)
    PROVE  /\ Len(<<r>> \o s) >= 1 /\ Head(<<r>> \o s) = r
           /\ SubSeq(<<r>> \o s, 2, Len(<<r>> \o s)) = s
<1> DEFINE q == <<r>> \o s
<1>1. q \in Seq(Request) /\ Len(q) = 1 + Len(s) /\ Len(s) \in Nat
  BY DEF q
<1>2. \A i \in 1 .. Len(s) : q[i + 1] = s[i]
  BY DEF q
<1>3. Head(q) = r
  BY DEF q
<1> HIDE DEF q
<1>4. SubSeq(q, 2, Len(q)) = s
  <2> DEFINE u == SubSeq(q, 2, Len(q))
  <2>1. \A i \in 2 .. Len(q) : q[i] \in Request
    BY <1>1, ElementOfSeq
  <2>2. /\ u \in Seq(Request) /\ Len(u) = Len(s)
        /\ \A i \in 1 .. Len(s) : u[i] = q[i + 1]
    BY <1>1, <2>1, SubSeqProperties
  <2> HIDE DEF u
  <2>3. u = s
    BY <1>2, <2>2, SeqEqual
  <2> QED
    BY <2>3 DEF u
<1> QED
  BY <1>1, <1>3, <1>4 DEF q

\* Three queues in a row make one, however they are bracketed.
LEMMA Associative ==
    \A s, t, u \in Seq(Request) : (s \o t) \o u = s \o (t \o u)
  BY ConcatAssociative

\* So the two on the right can be exchanged for two that hold the same.
LEMMA Regroup ==
    ASSUME NEW a \in Seq(Request), NEW b \in Seq(Request), NEW c \in Seq(Request),
           NEW x \in Seq(Request), NEW y \in Seq(Request), b \o c = x \o y
    PROVE  (a \o b) \o c = (a \o x) \o y
<1>1. (a \o b) \o c = a \o (b \o c)
  BY Associative, ZenonT(60)
<1>2. (a \o x) \o y = a \o (x \o y)
  BY Associative, ZenonT(60)
<1> QED
  BY <1>1, <1>2, Zenon

\* Port, decoder and skid buffer as one queue: one word is taken at the port, the
\* decoder's moves up to it, and a new one comes in where there is room.
PortShift(p, d, px, take, sent) ==
    /\ take => p # NoRequest
    /\ IF ~take /\ p # NoRequest THEN px = p /\ ~sent
       ELSE px = IF sent THEN d ELSE NoRequest
EntryShift(d, k, r, dx, kx, sent) ==
    \/ /\ ~sent /\ dx = d
       /\ kx = IF k # NoRequest THEN k ELSE r
       /\ d # NoRequest
    \/ /\ sent <=> d # NoRequest
       /\ kx = NoRequest
       /\ dx = IF k # NoRequest THEN k ELSE r
Kept(p, take) == IF take THEN << >> ELSE Word(p)
Added(k, r)   == IF k = NoRequest THEN Word(r) ELSE << >>
Shifted(p, d, k, r, px, dx, kx, take) ==
    Word(px) \o Word(dx) \o Word(kx) =
       Kept(p, take) \o (Word(d) \o Word(k)) \o Added(k, r)

\* Whichever of the three places a word moves from, the row is the same but for the
\* word taken at the port and the one that comes in.
LEMMA QueueMoves ==
    ASSUME NEW p \in MaybeRequest, NEW d \in MaybeRequest, NEW k \in MaybeRequest,
           NEW r \in MaybeRequest, NEW px, NEW dx, NEW kx,
           NEW take \in BOOLEAN, NEW sent \in BOOLEAN,
           PortShift(p, d, px, take, sent), EntryShift(d, k, r, dx, kx, sent)
    PROVE  Shifted(p, d, k, r, px, dx, kx, take)
<1> USE DEF Shifted, PortShift, EntryShift, Kept, Added
<1> DEFINE rest == IF sent THEN Word(k) ELSE Word(d) \o Word(k)
           more  == IF k = NoRequest THEN Word(r) ELSE << >>
           left == IF take THEN << >> ELSE Word(p)
<1>1. px \in MaybeRequest /\ dx \in MaybeRequest /\ kx \in MaybeRequest
  BY DEF MaybeRequest
<1>2. Word(p) \in Seq(Request) /\ Word(d) \in Seq(Request) /\ Word(k) \in Seq(Request)
      /\ Word(r) \in Seq(Request) /\ Word(px) \in Seq(Request)
      /\ Word(dx) \in Seq(Request) /\ Word(kx) \in Seq(Request) /\ << >> \in Seq(Request)
  BY <1>1, Words DEF MaybeRequest
<1>3. rest \in Seq(Request) /\ more \in Seq(Request) /\ left \in Seq(Request)
      /\ Word(d) \o Word(k) \in Seq(Request)
  BY <1>2, Words
<1>4. Word(dx) \o Word(kx) = rest \o more
  <2>1. CASE ~sent /\ dx = d /\ kx = IF k # NoRequest THEN k ELSE r
    <3>1. CASE k # NoRequest
      BY <1>2, <1>3, <2>1, <3>1, Words
    <3>2. CASE k = NoRequest
      BY <1>2, <2>1, <3>2, Words
    <3> QED
      BY <3>1, <3>2
  <2>2. CASE (sent <=> d # NoRequest) /\ kx = NoRequest /\ dx = IF k # NoRequest THEN k ELSE r
    <3>1. rest = Word(k)
      <4>1. CASE sent
        BY <4>1
      <4>2. CASE ~sent
        <5>1. Word(d) = << >> /\ rest = Word(d) \o Word(k)
          BY <2>2, <4>2, Words
        <5> QED
          BY <1>2, <5>1, Words
      <4> QED
        BY <4>1, <4>2
    <3> HIDE DEF rest
    <3>2. CASE k # NoRequest
      BY <1>2, <2>2, <3>1, <3>2, Words
    <3>3. CASE k = NoRequest
      <4>1. Word(dx) \o Word(kx) = Word(r) \o << >> /\ rest \o more = << >> \o Word(r)
        BY <2>2, <3>1, <3>3, Words
      <4> QED
        BY <1>2, <4>1, Words
    <3> QED
      BY <3>2, <3>3
  <2> QED
    BY <2>1, <2>2
<1>5. Word(px) \o rest = left \o (Word(d) \o Word(k))
  <2>1. CASE ~take /\ p # NoRequest
    BY <2>1
  <2>2. CASE take \/ p = NoRequest
    <3>1. left = << >> /\ left \o (Word(d) \o Word(k)) = Word(d) \o Word(k)
      BY <1>3, <2>2, Words
    <3>2. CASE sent
      BY <2>2, <3>1, <3>2
    <3>3. CASE ~sent
      BY <1>3, <2>2, <3>1, <3>3, Words
    <3> QED
      BY <3>2, <3>3
  <2> QED
    BY <2>1, <2>2
<1> HIDE DEF rest, more, left
<1>6. (Word(px) \o Word(dx)) \o Word(kx) = (Word(px) \o rest) \o more
  <2> DEFINE wp == Word(px)
             wd == Word(dx)
             wk == Word(kx)
  <2>1. wp \in Seq(Request) /\ wd \in Seq(Request) /\ wk \in Seq(Request)
    BY <1>2
  <2>2. wd \o wk = rest \o more
    BY <1>4
  <2> HIDE DEF wp, wd, wk
  <2>3. (wp \o wd) \o wk = wp \o (wd \o wk)
    BY <2>1, Associative, Zenon
  <2>4. (wp \o rest) \o more = wp \o (rest \o more)
    <3>1. rest \in Seq(Request) /\ more \in Seq(Request)
      BY <1>3
    <3> QED
      BY <2>1, <3>1, Associative, ZenonT(60)
  <2>5. (wp \o wd) \o wk = (wp \o rest) \o more
    BY <2>2, <2>3, <2>4, Zenon
  <2> QED
    BY <2>5 DEF wp, wd, wk
<1> QED
  BY <1>5, <1>6 DEF more, left

\* What happens at the port of a master that goes on: a word is taken or not, the
\* decoder's moves up to it, and what is owed follows what is taken and answered.
PortMoves(n, take) ==
    /\ take => AtPort(n) # NoRequest /\ SlaveOf[AtPort(n)] = mindex'[n]
    /\ IF ~take /\ AtPort(n) # NoRequest THEN AtPort(n)' = AtPort(n) /\ ~Sent(n)
       ELSE AtPort(n)' = IF Sent(n) THEN dcd[n] ELSE NoRequest
    /\ SwitchOwed'[n] = (SwitchOwed[n] + Count(take)) - Count(r_mack[n])
    /\ SwitchOwed[n] \in Nat /\ Count(r_mack[n]) <= SwitchOwed[n]
    /\ take \/ SwitchOwed'[n] > 0 => mindex'[n] = mindex[n]

\* The slave takes what stands at the port, or the port keeps it, or it is empty.
LEMMA PortMove ==
    ASSUME NoOverflow, SwInv, BusClock, NEW n \in Masters,
           Talking(n), Talking(n)', SwitchView(n), SwitchView(n)'
    PROVE  \E take \in BOOLEAN : PortMoves(n, take)
<1> USE DEF SwInv, AgreeInv
<1>1. i_mcyc[n] /\ ~r_merr[n] /\ i_mcyc'[n] /\ ~r_merr'[n]
  BY DEF Talking
<1>2. ~ClearPending(n) /\ ~i_reset /\ ~o_merr(n)
  BY <1>1, MasterGoesOn DEF ClearPending
<1>3. ~ForcedError(n) /\ ~(mgrant[n] /\ s_err(mindex[n]))
  BY <1>1, <1>2 DEF BusClock, XbarClock, AnswerClock
<1>4. \A c \in grant[n] \cap Slaves :
          lclpending[n] = sout[c] + Count(o_sstb[c]) + Count(r_mack[n])
  BY <1>1, <1>2 DEF BusInv, Counted, o_mack
<1>5. ASSUME NEW c \in grant[n] \cap Slaves, c \in grant'[n]
      PROVE  \E take \in BOOLEAN : PortMoves(n, take)
  <2>1. /\ c # None /\ grant[n] = {c} /\ mgrant[n] /\ mindex[n] = c
        /\ sgrant[c] /\ sindex[c] = n
    BY Holds DEF BusInv
  <2>2. mindex'[n] = c
    BY <1>5, ClockIsNext, KeptGrant DEF BusInv
  <2>3. /\ o_scyc'[c] /\ (o_sstb'[c] <=> s_stall(c) \/ Sent(n))
        /\ ~(s_stall(c) /\ Sent(n))
        /\ SlaveTakes(c) <=> o_sstb[c] /\ ~s_stall(c)
        /\ s_stall(c) => o_sstb[c]
    BY <1>2, <1>3, <2>1, PortStep DEF s_stall
  <2>4. AtPort(n) = IF o_sstb[c] THEN o_sreq[c] ELSE NoRequest
    BY <1>1 DEF SwitchView, Talking
  <2>5. AtPort(n)' = IF o_sstb'[c] THEN o_sreq'[c] ELSE NoRequest
    BY <1>1, <1>5 DEF SwitchView, Talking
  <2>6. o_sreq'[c] = IF s_stall(c) THEN o_sreq[c] ELSE dcd[n]
    BY <2>1 DEF BusClock, XbarClock, SlaveOutputClock
  <2>7. o_sstb[c] => o_sreq[c] # NoRequest /\ SlaveOf[o_sreq[c]] = c
    BY RequestAssumption DEF PortOK
  <2>8. IF ~SlaveTakes(c) /\ AtPort(n) # NoRequest THEN AtPort(n)' = AtPort(n) /\ ~Sent(n)
        ELSE AtPort(n)' = IF Sent(n) THEN dcd[n] ELSE NoRequest
    BY <2>3, <2>4, <2>5, <2>6, <2>7
  <2>9. SlaveTakes(c) => AtPort(n) # NoRequest /\ SlaveOf[AtPort(n)] = mindex'[n]
    BY <2>2, <2>3, <2>4, <2>7
  <2>10. SwitchOwed[n] = sout[c] + Count(r_mack[n])
    BY <1>1 DEF SwitchView, Talking
  <2>11. SwitchOwed'[n] = sout'[c] + Count(r_mack'[n])
    BY <1>1, <1>5 DEF SwitchView, Talking
  <2>12. r_mack'[n] <=> SlaveAnswers(c)
    <3>1. r_mack'[n] <=> s_ack(c)
      BY <1>1, <1>2, <1>3, <2>1 DEF BusClock, XbarClock, AnswerClock
    <3> QED
      BY <1>3, <2>1, <3>1 DEF SlaveAnswers, s_ack, s_err
  <2>13. /\ SwitchOwed'[n] = (SwitchOwed[n] + Count(SlaveTakes(c))) - Count(r_mack[n])
         /\ SwitchOwed[n] \in Nat /\ Count(r_mack[n]) <= SwitchOwed[n]
    <3> DEFINE take == Count(SlaveTakes(c))
               ack  == Count(r_mack[n])
               ackx == Count(r_mack'[n])
               ans  == Count(SlaveAnswers(c))
    <3>1. sout'[c] = (sout[c] + take) - ans
      BY <2>3, OwedStep
    <3>2. ackx = ans
      BY <2>12 DEF Count
    <3>3. sout[c] \in Nat /\ take \in Nat /\ ack \in Nat /\ ackx \in Nat
      BY DEF BusInv, BusTypeOK, Count
    <3>4. SwitchOwed[n] = sout[c] + ack /\ SwitchOwed'[n] = sout'[c] + ackx
      BY <2>10, <2>11
    <3> HIDE DEF take, ack, ackx, ans
    <3>5. SwitchOwed'[n] = sout[c] + take /\ SwitchOwed[n] - ack = sout[c]
      BY <3>1, <3>2, <3>3, <3>4
    <3>6. SwitchOwed'[n] = (SwitchOwed[n] + take) - ack /\ SwitchOwed[n] \in Nat /\ ack <= SwitchOwed[n]
      BY <3>3, <3>4, <3>5
    <3> QED
      BY <3>6 DEF take, ack
  <2>14. PortMoves(n, SlaveTakes(c)) /\ SlaveTakes(c) \in BOOLEAN
    BY <2>1, <2>2, <2>8, <2>9, <2>13 DEF PortMoves, SlaveTakes, IInv, BusInv, TypeOK, InputsOK
  <2> QED
    BY <2>14
<1>6. ASSUME \A c \in grant[n] \cap Slaves : c \notin grant'[n]
      PROVE  \E take \in BOOLEAN : PortMoves(n, take)
  <2>1. ~stay_on_channel(n)
    <3>1. None \notin grant[n]
      BY <1>3 DEF ForcedError
    <3>2. mgrant[n] => mindex[n] \in grant[n] \cap Slaves
      BY <3>1, HoldsSlave DEF BusInv
    <3>3. stay_on_channel(n) => mgrant[n]
      BY DEF stay_on_channel, BusInv, IInv, GrantsAgree
    <3>4. stay_on_channel(n) => grant'[n] = grant[n]
      BY <1>2, <1>1 DEF BusClock, XbarClock, MasterGrantClock, ReleaseGrant
    <3> QED
      BY <1>6, <3>2, <3>3, <3>4
  <2>2. lclpending[n] = 0 /\ ~Sent(n) /\ ~o_mack(n)
    BY <1>2, <2>1, LeavesEmpty
  <2>3. ~r_mack[n] /\ ~r_mack'[n]
    BY <2>1, <2>2, AckStays DEF o_mack
  <2>4. AtPort(n) = NoRequest /\ SwitchOwed[n] = 0
    <3>1. CASE grant[n] \cap Slaves = {}
      BY <1>1, <3>1 DEF SwitchView, Talking
    <3>2. CASE grant[n] \cap Slaves # {}
      <4>1. PICK c \in grant[n] \cap Slaves : TRUE
        BY <3>2
      <4>2. sout[c] + Count(o_sstb[c]) + Count(r_mack[n]) = 0 /\ sout[c] \in Nat
        BY <1>4, <2>2, <4>1 DEF BusInv, BusTypeOK
      <4>3. sout[c] = 0 /\ ~o_sstb[c] /\ Count(r_mack[n]) = 0
        BY <2>3, <4>2 DEF Count
      <4> QED
        BY <1>1, <4>1, <4>3 DEF SwitchView, Talking
    <3> QED
      BY <3>1, <3>2
  <2>5. AtPort(n)' = NoRequest /\ SwitchOwed'[n] = 0
    <3>1. CASE grant'[n] \cap Slaves = {}
      BY <1>1, <3>1 DEF SwitchView, Talking
    <3>2. CASE grant'[n] \cap Slaves # {}
      <4>1. PICK c \in grant'[n] \cap Slaves : c \notin grant[n]
        BY <1>6, <3>2
      <4>2. requested_channel_is_available(n) /\ c \in request(n)
        BY <2>1, <4>1 DEF BusClock, XbarClock, MasterGrantClock
      <4>3. ~sgrant[c]
        BY <2>1, <4>1, <4>2, OpensFree DEF BusInv
      <4>4. ~o_scyc'[c] /\ ~o_sstb'[c]
        BY <4>1, <4>3 DEF BusClock, XbarClock, SlaveOutputClock
      <4>5. sout'[c] = 0
        BY <4>1, <4>4, OwedStep
      <4> QED
        BY <1>1, <2>3, <4>1, <4>4, <4>5 DEF SwitchView, Talking, Count
    <3> QED
      BY <3>1, <3>2
  <2>6. Count(FALSE) = 0 /\ Count(r_mack[n]) = 0
    BY <2>3 DEF Count
  <2>7. PortMoves(n, FALSE)
    <3> DEFINE none == FALSE
    <3>1. ~none /\ Count(none) = 0
      BY <2>6
    <3> HIDE DEF none
    <3>2. /\ SwitchOwed'[n] = (SwitchOwed[n] + Count(none)) - Count(r_mack[n])
          /\ SwitchOwed[n] \in Nat /\ Count(r_mack[n]) <= SwitchOwed[n]
          /\ ~(SwitchOwed'[n] > 0)
      BY <2>4, <2>5, <2>6, <3>1
    <3>3. PortMoves(n, none)
      BY <2>2, <2>4, <2>5, <3>1, <3>2 DEF PortMoves
    <3> QED
      BY <3>3 DEF none
  <2> QED
    BY <2>7
<1> QED
  BY <1>5, <1>6

\* Each master's part in a clock is a transfer of the switch, or the end of its cycle.
LEMMA SwitchMove ==
    ASSUME NoOverflow, SwInv, BusClock, NEW n \in Masters,
           SwitchView(n), SwitchView(n)', AtPort(n)' \in MaybeRequest
    PROVE  /\ Switch!Transfer(n) \/ Switch!Abandon(n)
           /\ Len(SwitchQueue'[n]) <= 3
<1>0. \A x, y, z : Len(Word(x) \o Word(y) \o Word(z)) <= 3
  BY DEF Word
<1>1. CASE ~Talking(n)'
  <2>1. SwitchQueue'[n] = << >> /\ SwitchOwed'[n] = 0
    BY <1>1 DEF SwitchView
  <2> QED
    BY <2>1 DEF Switch!Abandon
<1>2. CASE Talking(n)' /\ ~Talking(n)
  <2>1. ~i_mcyc[n]
    BY <1>2, MasterGoesOn DEF Talking, o_merr
  <2>2. grant'[n] = {} /\ dcd'[n] = NoRequest /\ skd'[n] = NoRequest
    BY <2>1
    DEF BusClock, XbarClock, MasterGrantClock, SkidClock, DecodeClock, ReleaseGrant, dcd_stall, skd_out
  <2>3. AtPort(n)' = NoRequest /\ SwitchOwed'[n] = 0
    BY <1>2, <2>2 DEF SwitchView
  <2>4. SwitchQueue'[n] = Word(AtPort(n)') \o Word(dcd'[n]) \o Word(skd'[n])
    BY <1>2 DEF SwitchView, Word
  <2>5. SwitchQueue'[n] = << >>
    BY <2>2, <2>3, <2>4 DEF Word
  <2> QED
    BY <2>3, <2>5 DEF Switch!Abandon
<1>3. CASE Talking(n)' /\ Talking(n)
  <2> DEFINE p  == AtPort(n)
             d  == dcd[n]
             k  == skd[n]
             r  == i_mreq[n]
             px == AtPort(n)'
             dx == dcd'[n]
             kx == skd'[n]
             Q  == Word(p) \o (Word(d) \o Word(k))
             more == Added(k, r)
  <2>1. PICK take \in BOOLEAN : PortMoves(n, take)
    BY <1>3, PortMove
  <2>2. SwitchQueue[n] = Q /\ SwitchQueue'[n] = Word(px) \o Word(dx) \o Word(kx)
    <3>1. p \in MaybeRequest /\ d \in MaybeRequest /\ k \in MaybeRequest
      BY <1>3 DEF SwitchView, SwInv, AgreeInv, BusInv, IInv, TypeOK
    <3>2. Word(p) \in Seq(Request) /\ Word(d) \in Seq(Request) /\ Word(k) \in Seq(Request)
      BY <3>1, Words
    <3>3. (Word(p) \o Word(d)) \o Word(k) = Q
      BY <3>2, Associative, Zenon
    <3>4. SwitchQueue[n] = Word(p) \o Word(d) \o Word(k)
      BY <1>3 DEF SwitchView
    <3>5. SwitchQueue'[n] = Word(px) \o Word(dx) \o Word(kx)
      BY <1>3 DEF SwitchView, Word
    <3> QED
      BY <3>3, <3>4, <3>5
  <2>3. Word(px) \o Word(dx) \o Word(kx) =
          Kept(p, take) \o (Word(d) \o Word(k)) \o more
    <3>1. /\ p \in MaybeRequest /\ d \in MaybeRequest /\ k \in MaybeRequest /\ r \in MaybeRequest
      BY <1>3 DEF SwitchView, SwInv, AgreeInv, BusInv, IInv, TypeOK, InputsOK
    <3>2. PICK sent \in BOOLEAN : sent <=> Sent(n)
      OBVIOUS
    <3>3. PortShift(p, d, px, take, sent)
      BY <2>1, <3>2 DEF PortMoves, PortShift
    <3>4. EntryShift(d, k, r, dx, kx, sent)
      <4>1. ~ClearPending(n)
        BY <1>3, MasterGoesOn DEF Talking, ClearPending, o_merr
      <4> QED
        BY <3>2, <4>1, EntryMove DEF SwInv, dcd_stb, EntryShift
    <3>5. Shifted(p, d, k, r, px, dx, kx, take)
      BY <3>1, <3>3, <3>4, QueueMoves
    <3> QED
      BY <3>5 DEF Shifted
  <2>4. \E added \in {<< >>} \cup {<<w>> : w \in Request} : more = added
    BY DEF Added, Word, SwInv, AgreeInv, BusInv, IInv, TypeOK, InputsOK, MaybeRequest
  <2>5. /\ Count(take) <= Len(Q)
        /\ SubSeq(Q, 1 + Count(take), Len(Q)) = Kept(p, take) \o (Word(d) \o Word(k))
        /\ take => Head(Q) = p
    <3>1. /\ p \in MaybeRequest /\ d \in MaybeRequest /\ k \in MaybeRequest
          /\ take => p # NoRequest
      BY <1>3, <2>1 DEF SwitchView, SwInv, AgreeInv, BusInv, IInv, TypeOK, PortMoves
    <3> DEFINE s == Word(d) \o Word(k)
    <3>2. s \in Seq(Request) /\ Q \in Seq(Request)
      BY <3>1, Words
    <3> HIDE DEF p, d, k, s
    <3>3. CASE take
      <4>1. p \in Request /\ Q = <<p>> \o s
        BY <3>1, <3>3 DEF MaybeRequest, Word, s
      <4>2. Len(Q) >= 1 /\ Head(Q) = p /\ SubSeq(Q, 2, Len(Q)) = s
        BY <3>2, <4>1, QueueHead
      <4>3. << >> \o s = s
        BY <3>2, ConcatEmptySeq
      <4>4. Count(take) = 1 /\ 1 + 1 = 2
        BY <3>3 DEF Count
      <4> HIDE DEF Q
      <4> QED
        BY <3>3, <4>2, <4>3, <4>4 DEF s, Kept
    <3>4. CASE ~take
      <4>1. Count(take) = 0 /\ 1 + 0 = 1
        BY <3>4 DEF Count
      <4>2. Len(Q) \in Nat /\ SubSeq(Q, 1, Len(Q)) = Q
        BY <3>2, SubSeqFull, LenProperties
      <4> QED
        BY <3>4, <4>1, <4>2 DEF Kept
    <3> QED
      BY <3>3, <3>4
  <2>6. Switch!Transfer(n)
    <3> DEFINE give == Count(take)
               back == Count(r_mack[n])
               owed == SwitchOwed[n]
               owedx == SwitchOwed'[n]
    <3>1. give \in {0, 1} /\ back \in {0, 1} /\ (give = 1 <=> take)
      BY DEF Count
    <3>2. owedx + back = owed + give /\ back <= owed
      <4>1. owedx = (owed + give) - back /\ owed \in Nat /\ back <= owed
        BY <2>1 DEF PortMoves
      <4> HIDE DEF give, back, owed, owedx
      <4> QED
        BY <3>1, <4>1
    <3>3. give <= Len(SwitchQueue[n])
      BY <2>2, <2>5
    <3>4. SwitchQueue'[n] = SubSeq(SwitchQueue[n], 1 + give, Len(SwitchQueue[n])) \o more
      BY <2>2, <2>3, <2>5
    <3>5. give = 1 => /\ mindex'[n] = SlaveOf[Head(SwitchQueue[n])]
                      /\ owed > 0 => mindex'[n] = mindex[n]
      BY <2>1, <2>2, <2>5, <3>1 DEF PortMoves
    <3>6. owedx > 0 /\ give = 0 => mindex'[n] = mindex[n]
      BY <2>1 DEF PortMoves
    <3> HIDE DEF give, back, more
    <3> QED
      BY <2>4, <3>1, <3>2, <3>3, <3>4, <3>5, <3>6 DEF Switch!Transfer
  <2> QED
    BY <1>0, <2>2, <2>6
<1> QED
  BY <1>1, <1>2, <1>3

\* No two masters are owed an answer by one slave.
LEMMA OneHome ==
    SwInv => \A m, n \in Masters :
        m # n /\ SwitchOwed[m] > 0 /\ SwitchOwed[n] > 0 => mindex[m] # mindex[n]
<1> SUFFICES ASSUME SwInv, NEW m \in Masters, NEW n \in Masters,
                    SwitchOwed[m] > 0, SwitchOwed[n] > 0, mindex[m] = mindex[n]
             PROVE  m = n
  OBVIOUS
<1>1. mindex[m] \in grant[m] \cap Slaves /\ mindex[n] \in grant[n] \cap Slaves
  BY View DEF SwitchView, AtSlave
<1>2. sindex[mindex[m]] = m /\ sindex[mindex[n]] = n
  BY <1>1 DEF SwInv, AgreeInv, BusInv, IInv, GrantsAgree
<1> QED
  BY <1>2

\* What stands at the port is a request or nothing.
LEMMA PortWord == SwInv => \A n \in Masters : AtPort(n) \in MaybeRequest
<1> SUFFICES ASSUME SwInv, NEW n \in Masters PROVE AtPort(n) \in MaybeRequest
  OBVIOUS
<1>1. CASE \E c \in AtSlave(n) : o_sstb[c]
  <2>1. PICK c \in AtSlave(n) : o_sstb[c] /\ AtPort(n) = o_sreq[c]
    BY <1>1 DEF AtPort
  <2> QED
    BY <2>1 DEF AtSlave, SwInv, PortOK, MaybeRequest
<1>2. CASE ~ \E c \in AtSlave(n) : o_sstb[c]
  BY <1>2 DEF AtPort, MaybeRequest
<1> QED
  BY <1>1, <1>2

\* After reset the abstract switch is idle.
LEMMA SwitchInit == BusInit => SwInv /\ Switch!Init
<1> SUFFICES ASSUME BusInit PROVE SwInv /\ Switch!Init
  OBVIOUS
<1>1. SwInv
  BY AgreeStart DEF SwInv, BusInit, RegInit, PortOK, AckOpen
<1>2. \A n \in Masters : ~Talking(n)
  BY DEF BusInit, Talking
<1>3. \A n \in Masters : SwitchQueue[n] = << >> /\ SwitchOwed[n] = 0
  BY <1>1, <1>2, View DEF SwitchView
<1> QED
  BY <1>1, <1>3 DEF Switch!Init, Switch!Idle, Switch!Exclusive

\* Every clock of the bus is a step of the abstract switch, or none.
LEMMA SwitchNext ==
    ASSUME NoOverflow
    PROVE  SwInv /\ SwInv' /\ [BusClock]_allvars => [Switch!Next]_Switch!sw
<1>1. ASSUME SwInv, SwInv', BusClock PROVE Switch!Next
  <2>1. \A n \in Masters : SwitchView(n)
    BY <1>1, View
  <2>2. (\A n \in Masters : SwitchView(n))' /\ (\A n \in Masters : AtPort(n) \in MaybeRequest)'
    BY <1>1, View, PortWord, PTL
  <2>3. (\A m, n \in Masters :
          m # n /\ SwitchOwed[m] > 0 /\ SwitchOwed[n] > 0 => mindex[m] # mindex[n])'
    BY <1>1, OneHome, PTL
  <2>4. \A n \in Masters : (Switch!Transfer(n) \/ Switch!Abandon(n)) /\ Len(SwitchQueue'[n]) <= 3
    BY <1>1, <2>1, <2>2, SwitchMove
  <2> QED
    BY <2>3, <2>4 DEF Switch!Next, Switch!Exclusive
<1>2. ASSUME UNCHANGED allvars PROVE UNCHANGED Switch!sw
  <2>1. SwitchQueue' = SwitchQueue /\ SwitchOwed' = SwitchOwed
    BY <1>2 DEF SwitchQueue, SwitchOwed, Talking, AtSlave, o_mack, allvars, vars, inputs, regs, arbiter
  <2> QED
    BY <1>2, <2>1 DEF Switch!sw, allvars, vars, regs, arbiter
<1> QED
  BY <1>1, <1>2

\* The crossbar is the switch of WbSwitch, for any number of masters and slaves:
\* every request taken in is handed over once, in order and to the slave it
\* addresses, every answer goes to the master that is owed it, and a master
\* changes slave only when it is owed nothing.
THEOREM SwitchRefinement == ASSUME NoOverflow PROVE BusSpec => ImplementsSwitch
<1>1. BusInit => SwInv /\ Switch!Init
  BY SwitchInit
<1>2. SwInv /\ [BusClock]_allvars => SwInv'
  <2> SUFFICES ASSUME SwInv, [BusClock]_allvars PROVE SwInv'
    OBVIOUS
  <2>1. CASE BusClock
    BY <2>1, SwStep
  <2>2. CASE UNCHANGED allvars
    <3>1. AgreeInv'
      BY AgreeNext DEF SwInv
    <3> QED
      BY <2>2, <3>1 DEF SwInv, PortOK, AckOpen, allvars, vars, regs, arbiter
  <2> QED
    BY <2>1, <2>2
<1>3. SwInv /\ SwInv' /\ [BusClock]_allvars => [Switch!Next]_Switch!sw
  BY SwitchNext
<1> QED
  BY <1>1, <1>2, <1>3, PTL DEF BusSpec, ImplementsSwitch, Switch!Spec
=============================================================================
